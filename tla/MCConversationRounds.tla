------------------------ MODULE MCConversationRounds ------------------------
(* Instances of ConversationRounds for TLC.                                  *)
EXTENDS ConversationRounds, TLC

Symmetry == Permutations(Messages) \cup Permutations(Workers)

(* Two scenarios in one run: a single message whose rounds are claimed as    *)
(* often as the bounds allow, or several messages with one claim a round.    *)

Admitted == UNION {round[r].open \cup round[r].done : r \in Rounds}

Scenario ==
  Cardinality(Admitted') <= 1 \/ \A r \in Rounds : round'[r].attempts <= 1
=============================================================================

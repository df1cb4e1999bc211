----------------------- MODULE TaskCoordinationProofs -----------------------
(***************************************************************************)
(* Proofs about TaskCoordination: the rows stay well formed, and a parent  *)
(* that succeeds has used every child's result, every reply and every      *)
(* instruction, for every set of children, questions and bounds.           *)
(*                                                                         *)
(* None of the three is inductive.  A parent succeeds in one step, on what *)
(* its run has seen since Start; the invariant below says what holds while *)
(* such a run is under way.                                                *)
(***************************************************************************)
EXTENDS TaskCoordination, FiniteSetTheorems, TLAPS

\* A run whose result may still be accepted.
Active == run.pc \in {"running", "returned"}

\* An asked question has a key, and the accepted instructions stay within
\* their bound when they are merged.
Bounded ==
  /\ parent.question.status # "none" => parent.question.key \in Questions
  /\ parent.objective + parent.pending <= MaxAmendments

\* The context holds the result of every folded child, once and of no other,
\* with the outcome the child still has unless a user reopened it.
ResultsKept ==
  /\ \A c \in Children : child[c].status = "absent" => ~child[c].folded
  /\ \A c \in Children : child[c].reopened => child[c].folded
  /\ \A c \in Children : child[c].folded =>
       \E i \in DOMAIN parent.context : parent.context[i].from = c
  /\ \A i, j \in DOMAIN parent.context :
       parent.context[i].from = parent.context[j].from => i = j
  /\ \A i \in DOMAIN parent.context :
       LET c == parent.context[i].from
       IN /\ child[c].folded
          /\ child[c].reopened \/ child[c].status = parent.context[i].outcome

\* Nothing is folded into the context while a run is under way, so that the
\* run has seen all of it.
RunCurrent ==
  Active => run.saw = Len(parent.context) /\ ~Waiting

\* A reply that the run has not heard keeps the question open.
ReplyHeld ==
  Active /\ parent.status = "EXEC" =>
    parent.answers \subseteq run.heard \/ parent.question.status \in {"pending", "answered"}

\* run_task's check still holds when the result is accepted: merging an
\* instruction takes the Task out of EXEC.
ObjectiveHeld ==
  run.pc = "returned" /\ parent.status = "EXEC" => run.objective = parent.objective

\* An instruction is deferred only for a child whose result is still to come.
DeferredForChild ==
  parent.pending > 0 => Fresh # {} \/ \E c \in Children : child[c].deleted \/ child[c].reopened

\* What is true of a success, and stays so: nothing runs or folds any more.
SuccessKept ==
  parent.status = "SUCCESS" =>
    /\ run.pc \in {"done", "idle"}
    /\ run.saw = Len(parent.context)
    /\ Fresh = {}
    /\ parent.question.status \in {"none", "delivered"}
    /\ parent.answers \subseteq run.heard
    /\ run.objective = parent.objective

\* The inductive invariant.
CoordinationInv ==
  /\ TypeOK /\ Bounded /\ ResultsKept /\ RunCurrent /\ ReplyHeld /\ ObjectiveHeld
  /\ DeferredForChild /\ SuccessKept

-----------------------------------------------------------------------------
(* Type correctness                                                          *)

\* The parts of the two records, for the provers.
LEMMA Fields ==
  ASSUME TypeOK
  PROVE  /\ parent.status \in Statuses /\ parent.reasons \subseteq Reasons
         /\ parent.receipt \in {"clean", "admitted", "resumable"}
         /\ parent.context \in Seq(Contribution)
         /\ parent.question \in Question /\ parent.answers \subseteq Questions
         /\ parent.objective \in 0 .. MaxAmendments /\ parent.pending \in 0 .. MaxAmendments
         /\ run.id \in 0 .. MaxRuns /\ run.saw \in Nat /\ run.heard \subseteq Questions
         /\ run.objective \in 0 .. MaxAmendments /\ run.outcome \in Outcomes
  BY DEF TypeOK, Parent, Run

\* A step that leaves the children and the run alone.
LEMMA ParentType ==
  ASSUME TypeOK, UNCHANGED child, run' \in Run, run'.saw <= Len(parent'.context), parent' \in Parent
  PROVE  TypeOK'
  BY DEF TypeOK

\* One child's row changes.
LEMMA ChildType ==
  ASSUME TypeOK, NEW c \in Children, UNCHANGED <<parent, run>>,
         \E r \in Child : child' = [child EXCEPT ![c] = r]
  PROVE  TypeOK'
  BY DEF TypeOK

LEMMA ParentActionsType ==
  ASSUME TypeOK, Bounded,
         Route \/ SaveCheckpoint \/ Hold \/ Resume \/ Approve \/ RetryParent \/ Answer \/ Amend
         \/ \E q \in Questions : Ask(q)
  PROVE  TypeOK'
<1>1. CASE Route
  BY <1>1 DEF TypeOK, Route, Parent, Statuses
<1>2. CASE SaveCheckpoint
  BY <1>2 DEF TypeOK, SaveCheckpoint, Parent
<1>3. CASE Hold
  BY <1>3 DEF TypeOK, Hold, Parent, Interrupted, Statuses, Reasons
<1>4. CASE Resume
  BY <1>4 DEF TypeOK, Resume, Parent, Reasons
<1>5. CASE Approve
  BY <1>5 DEF TypeOK, Approve, Parent, Reasons
<1>6. CASE RetryParent
  BY <1>6 DEF TypeOK, RetryParent, Parent, Reasons, Statuses
<1>7. CASE Answer
  <2> DEFINE q == [parent.question EXCEPT !.status =
                     IF parent.status = "EXEC" THEN "answered" ELSE "delivered"]
             k == parent.question.key
             r == IF parent.status = "EXEC" THEN parent.reasons ELSE parent.reasons \ {"input"}
  <2>1. q \in Question
    BY Fields DEF Question
  <2>2. k \in Questions /\ r \subseteq Reasons
    BY <1>7, Fields DEF Answer, Bounded
  <2>3. parent' = [parent EXCEPT !.question = q, !.answers = @ \cup {k}, !.reasons = r]
    BY <1>7, Fields DEF Answer, TypeOK, Parent
  <2> HIDE DEF q, k, r
  <2>4. parent' \in Parent /\ parent'.context = parent.context
    BY <2>1, <2>2, <2>3 DEF TypeOK, Parent
  <2> QED BY <1>7, <2>4 DEF Answer, TypeOK
<1>8. CASE Amend
  <2>1. /\ MaxAmendments \in Nat /\ parent.objective \in Nat /\ parent.pending \in Nat
        /\ parent.objective + parent.pending < MaxAmendments
    BY <1>8, Fields, CoordinationAssumption DEF Amend, CoordinationAssumption
  <2>2. parent.objective + 1 \in 0 .. MaxAmendments /\ parent.pending + 1 \in 0 .. MaxAmendments
    BY <2>1
  <2>3. \/ parent' = [parent EXCEPT !.pending = @ + 1]
        \/ \E s \in Statuses : parent' = [parent EXCEPT !.objective = @ + 1, !.status = s]
    BY <1>8, Fields DEF Amend, Statuses, Interrupted
  <2>4. parent' \in Parent /\ parent'.context = parent.context
    BY <2>2, <2>3 DEF TypeOK, Parent
  <2> QED BY <1>8, <2>4 DEF Amend, TypeOK
<1>9. ASSUME NEW q \in Questions, Ask(q) PROVE TypeOK'
  BY <1>9 DEF TypeOK, Ask, Parent, Reasons, Question, Run
<1> QED BY <1>1, <1>2, <1>3, <1>4, <1>5, <1>6, <1>7, <1>8, <1>9

LEMMA ConsumeType ==
  ASSUME TypeOK, Consume
  PROVE  TypeOK'
<1> DEFINE q == [parent.question EXCEPT !.status = "delivered", !.consumed = TRUE]
<1>1. q \in Question
  BY Fields DEF Question
<1>2. parent' = [parent EXCEPT !.question = q, !.reasons = @ \ {"input"}]
  BY DEF Consume, TypeOK, Parent
<1> HIDE DEF q
<1>3. parent' \in Parent /\ parent'.context = parent.context
  BY <1>1, <1>2 DEF TypeOK, Parent
<1>4. run' \in Run /\ run'.saw = run.saw
  BY DEF Consume, TypeOK, Parent, Run
<1> QED BY <1>3, <1>4 DEF Consume, TypeOK

LEMMA RunActionsType ==
  ASSUME TypeOK, Return \/ Raise \/ Revoked \/ FinishRejected \/ Start \/ Settle
  PROVE  TypeOK'
<1>1. CASE Return \/ Raise \/ Revoked \/ FinishRejected
  BY <1>1 DEF TypeOK, Return, Raise, Revoked, FinishRejected, Run
<1>2. CASE Start
  <2>1. run' \in Run /\ run'.saw = Len(parent.context)
    BY <1>2, Fields, CoordinationAssumption DEF Start, Run, Outcomes, CoordinationAssumption
  <2>2. parent' \in Parent /\ parent'.context = parent.context
    BY <1>2 DEF Start, TypeOK, Parent, Statuses
  <2>3. Len(parent.context) \in Nat
    BY Fields
  <2> QED BY <1>2, <2>1, <2>2, <2>3 DEF Start, TypeOK
<1>3. CASE Settle
  <2>1. run' \in Run /\ run'.saw = run.saw
    BY <1>3 DEF Settle, TypeOK, Run, Outcomes
  <2>2. parent' \in Parent /\ parent'.context = parent.context
    BY <1>3 DEF Settle, FailedRows, Interrupted, TypeOK, Parent, Statuses
  <2> QED BY <1>3, <2>1, <2>2 DEF Settle, TypeOK
<1> QED BY <1>1, <1>2, <1>3

\* The four ends of a run: each sets the status, the reasons, the receipt and
\* perhaps the question of the parent.
LEMMA FinishParent ==
  ASSUME TypeOK, Finish
  PROVE  \E s \in Statuses, w \in SUBSET Reasons, r \in ReceiptAfter, q \in Question :
           parent' = [parent EXCEPT !.status = s, !.reasons = w, !.receipt = r, !.question = q]
<1>1. CASE WaitForInput
  <2> DEFINE q == [parent.question EXCEPT !.status = IF @ = "pending" THEN @ ELSE "delivered"]
             w == ApprovalReason \cup (IF parent.question.status = "pending"
                    THEN parent.reasons \cup {"input"} ELSE parent.reasons \ {"input"})
             s == Interrupted(parent.status)
  <2>1. q \in Question
    BY Fields DEF Question
  <2>2. w \in SUBSET Reasons /\ s \in Statuses
    BY Fields DEF ApprovalReason, Reasons, Statuses, Interrupted
  <2>3. PICK r \in ReceiptAfter :
          parent' = [parent EXCEPT !.status = s, !.receipt = r, !.question = q, !.reasons = w]
    BY <1>1 DEF WaitForInput, TypeOK, Parent
  <2>4. parent' = [parent EXCEPT !.status = s, !.reasons = w, !.receipt = r, !.question = q]
    <3> HIDE DEF s, w, q
    <3> QED BY <2>3 DEF TypeOK, Parent
  <2> QED BY <2>1, <2>2, <2>4
<1>2. CASE WaitForChildren
  <2> DEFINE w == (IF Fresh \ Delegated # {} THEN {"await"} ELSE {})
                  \cup (IF Fresh \cap Delegated # {} THEN {"child"} ELSE {})
  <2>1. w \in SUBSET Reasons
    BY DEF Reasons
  <2>2. PICK r \in ReceiptAfter :
          parent' = [parent EXCEPT !.status = "DISPATCH", !.receipt = r, !.reasons = w]
    BY <1>2 DEF WaitForChildren
  <2>3. parent' = [parent EXCEPT !.status = "DISPATCH", !.reasons = w, !.receipt = r,
                                 !.question = parent.question]
    <3> HIDE DEF w
    <3> QED BY <2>2 DEF TypeOK, Parent
  <2> QED BY <2>1, <2>3, Fields DEF Statuses
<1>3. CASE WaitForApproval
  <2>1. PICK r \in ReceiptAfter :
          parent' = [parent EXCEPT !.status = Interrupted(@), !.receipt = r,
                                   !.reasons = @ \cup {"approval"}]
    BY <1>3 DEF WaitForApproval
  <2>2. parent' = [parent EXCEPT !.status = Interrupted(parent.status),
                     !.reasons = parent.reasons \cup {"approval"}, !.receipt = r,
                     !.question = parent.question]
    BY <2>1 DEF TypeOK, Parent
  <2>3. Interrupted(parent.status) \in Statuses /\ parent.reasons \cup {"approval"} \in SUBSET Reasons
    BY Fields DEF Statuses, Reasons, Interrupted
  <2> QED BY <2>2, <2>3, Fields
<1>4. CASE End
  <2> DEFINE s == IF run.outcome = "success" THEN "SUCCESS" ELSE "ERROR"
  <2>1. PICK r \in ReceiptAfter :
          parent' = [parent EXCEPT !.reasons = {}, !.receipt = r, !.status = s]
    BY <1>4 DEF End
  <2>2. parent' = [parent EXCEPT !.status = s, !.reasons = {}, !.receipt = r,
                                 !.question = parent.question]
    BY <2>1 DEF TypeOK, Parent
  <2>3. s \in Statuses /\ {} \in SUBSET Reasons
    BY DEF Statuses
  <2> QED BY <2>2, <2>3, Fields
<1> QED BY <1>1, <1>2, <1>3, <1>4 DEF Finish

LEMMA FinishType ==
  ASSUME TypeOK, Finish
  PROVE  TypeOK'
<1>1. PICK s \in Statuses, w \in SUBSET Reasons, r \in ReceiptAfter, q \in Question :
        parent' = [parent EXCEPT !.status = s, !.reasons = w, !.receipt = r, !.question = q]
  BY FinishParent
<1>2. r \in {"clean", "admitted", "resumable"}
  BY DEF ReceiptAfter
<1>3. parent' \in Parent /\ parent'.context = parent.context
  BY <1>1, <1>2 DEF TypeOK, Parent
<1>4. run' \in Run /\ run'.saw = run.saw
  BY DEF Finish, TypeOK, Run
<1> QED BY <1>3, <1>4 DEF Finish, TypeOK

LEMMA ChildActionsType ==
  ASSUME TypeOK, NEW c \in Children,
         CreateChild(c) \/ AwaitResolved(c) \/ AwaitExpires(c) \/ ChildEnds(c)
         \/ ChildSettles(c) \/ RetryChild(c) \/ DeleteChild(c)
  PROVE  TypeOK'
<1>1. CASE CreateChild(c)
  BY <1>1 DEF CreateChild, TypeOK, Child
<1>2. CASE AwaitResolved(c) \/ AwaitExpires(c)
  BY <1>2 DEF AwaitResolved, AwaitExpires, TypeOK, Child, Terminal
<1>3. CASE ChildEnds(c) \/ ChildSettles(c)
  BY <1>3 DEF ChildEnds, ChildSettles, TypeOK, Child, Terminal
<1>4. CASE RetryChild(c)
  BY <1>4 DEF RetryChild, TypeOK, Child
<1>5. CASE DeleteChild(c)
  BY <1>5 DEF DeleteChild, TypeOK, Child, Terminal
<1> QED BY <1>1, <1>2, <1>3, <1>4, <1>5

\* SetToSeq lists a finite set, each element once.
LEMMA SetToSeqLists ==
  ASSUME NEW S, IsFiniteSet(S)
  PROVE  /\ Cardinality(S) \in Nat
         /\ SetToSeq(S) \in [1 .. Cardinality(S) -> S]
         /\ \A i, j \in 1 .. Cardinality(S) : SetToSeq(S)[i] = SetToSeq(S)[j] => i = j
         /\ \A x \in S : \E i \in 1 .. Cardinality(S) : SetToSeq(S)[i] = x
<1> DEFINE n == Cardinality(S)
           f == SetToSeq(S)
<1>1. n \in Nat /\ ExistsBijection(1 .. n, S)
  BY FS_CardinalityType
<1>2. \E g \in [1 .. n -> S] : IsInjective(g)
  BY <1>1 DEF ExistsBijection, Bijection, Injection
<1>3. f \in [1 .. n -> S] /\ IsInjective(f)
  BY <1>2 DEF SetToSeq
<1>4. Cardinality(1 .. n) = n
  BY <1>1, FS_Interval
<1> HIDE DEF f, n
<1>5. f \in Injection(1 .. n, S)
  BY <1>3 DEF Injection
<1>6. f \in Surjection(1 .. n, S)
  BY <1>4, <1>5, FS_Injection DEF n
<1> QED BY <1>1, <1>3, <1>6 DEF IsInjective, Surjection, f, n

\* What a concatenation holds.
LEMMA Concatenated ==
  ASSUME NEW S, NEW s \in Seq(S), NEW t \in Seq(S)
  PROVE  /\ s \o t \in Seq(S) /\ Len(s \o t) = Len(s) + Len(t)
         /\ DOMAIN (s \o t) = 1 .. (Len(s) + Len(t))
         /\ \A i \in DOMAIN s : (s \o t)[i] = s[i]
         /\ \A i \in DOMAIN t : (s \o t)[Len(s) + i] = t[i]
  OBVIOUS

\* What maybe_fan_in writes: the results of the fresh children, each once.
LEMMA FanInFacts ==
  ASSUME TypeOK, FanIn
  PROVE  \E results \in Seq(Contribution) :
           /\ parent'.context = parent.context \o results
           /\ \A i \in DOMAIN results :
                results[i].from \in Fresh /\ results[i].outcome = child[results[i].from].status
           /\ \A i, j \in DOMAIN results : results[i].from = results[j].from => i = j
           /\ \A c \in Fresh : \E i \in DOMAIN results : results[i].from = c
<1> DEFINE order   == SetToSeq(Fresh)
           n       == Cardinality(Fresh)
           results == [i \in DOMAIN order |-> [from |-> order[i], outcome |-> child[order[i]].status]]
<1>1. Fresh \subseteq Children /\ \A c \in Fresh : child[c].status \in Terminal
  BY DEF FanIn, FanInReady, Fresh, Visible, HasTerminalOutcome
<1>2. IsFiniteSet(Fresh)
  BY <1>1, FS_Subset, CoordinationAssumption DEF CoordinationAssumption
<1>3. /\ n \in Nat /\ order \in [1 .. n -> Fresh]
      /\ \A i, j \in 1 .. n : order[i] = order[j] => i = j
      /\ \A c \in Fresh : \E i \in 1 .. n : order[i] = c
  BY <1>2, SetToSeqLists
<1>4. parent'.context = parent.context \o results
  BY DEF FanIn, Applied, TypeOK, Parent
<1> HIDE DEF order, n
<1>5. /\ DOMAIN results = 1 .. n
      /\ \A i \in 1 .. n : /\ results[i].from = order[i]
                           /\ results[i].outcome = child[order[i]].status
                           /\ results[i] \in Contribution
  BY <1>1, <1>3 DEF Contribution
<1>6. results \in Seq(Contribution)
  BY <1>3, <1>5
<1>7. /\ \A i \in DOMAIN results :
           results[i].from \in Fresh /\ results[i].outcome = child[results[i].from].status
      /\ \A i, j \in DOMAIN results : results[i].from = results[j].from => i = j
      /\ \A c \in Fresh : \E i \in DOMAIN results : results[i].from = c
  BY <1>3, <1>5
<1> HIDE DEF results
<1> QED BY <1>4, <1>6, <1>7

LEMMA FanInType ==
  ASSUME TypeOK, Bounded, FanIn
  PROVE  TypeOK'
<1>1. PICK results \in Seq(Contribution) : parent'.context = parent.context \o results
  BY FanInFacts
<1>2. /\ parent'.context \in Seq(Contribution) /\ Len(parent'.context) >= Len(parent.context)
      /\ Len(parent'.context) \in Nat /\ Len(parent.context) \in Nat
  BY <1>1, Concatenated, Fields
<1>3. parent.objective + parent.pending \in 0 .. MaxAmendments
  BY Fields, CoordinationAssumption DEF Bounded, CoordinationAssumption
<1>4. parent' = [parent EXCEPT !.objective = parent.objective + parent.pending, !.pending = 0,
                               !.context = parent'.context, !.reasons = parent.reasons \ {"await", "child"}]
  BY DEF FanIn, Applied, TypeOK, Parent
<1>5. parent' \in Parent
  <2>1. 0 \in 0 .. MaxAmendments /\ parent.reasons \ {"await", "child"} \subseteq Reasons
    BY Fields, CoordinationAssumption DEF CoordinationAssumption
  <2> QED BY <1>2, <1>3, <1>4, <2>1 DEF TypeOK, Parent
<1>6. child' \in [Children -> Child]
  BY DEF FanIn, TypeOK, Child
<1>7. run.saw \in Nat /\ run.saw <= Len(parent.context) /\ run' = run
  BY Fields DEF TypeOK, FanIn
<1>8. run'.saw <= Len(parent'.context)
  BY <1>2, <1>7
<1> QED BY <1>5, <1>6, <1>7, <1>8 DEF TypeOK

\* The steps that write the parent's row or its run, the context excepted.
ParentStep ==
  \/ Route \/ Start \/ SaveCheckpoint \/ Consume \/ Return \/ Raise \/ Revoked
  \/ Finish \/ FinishRejected \/ Settle \/ Answer \/ Hold \/ Resume \/ Approve \/ Amend
  \/ RetryParent \/ \E q \in Questions : Ask(q)

\* The steps that write one child's row.
OneChildStep(c) ==
  \/ CreateChild(c) \/ AwaitResolved(c) \/ AwaitExpires(c) \/ ChildEnds(c)
  \/ ChildSettles(c) \/ RetryChild(c) \/ DeleteChild(c)

LEMMA NextCases ==
  Next => ParentStep \/ FanIn \/ \E c \in Children : OneChildStep(c)
  BY DEF Next, RunStep, ChildStep, Command, ParentStep, OneChildStep

LEMMA TypeStep ==
  ASSUME TypeOK, Bounded, [Next]_vars
  PROVE  TypeOK'
<1>1. CASE ParentStep
  BY <1>1, ParentActionsType, ConsumeType, RunActionsType, FinishType DEF ParentStep
<1>2. CASE FanIn
  BY <1>2, FanInType
<1>3. ASSUME NEW c \in Children, OneChildStep(c) PROVE TypeOK'
  BY <1>3, ChildActionsType DEF OneChildStep
<1>4. CASE UNCHANGED vars
  BY <1>4 DEF vars, TypeOK
<1> QED BY <1>1, <1>2, <1>3, <1>4, NextCases

-----------------------------------------------------------------------------
(* What a step leaves alone                                                  *)

LEMMA ParentStepKeeps ==
  ASSUME TypeOK, ParentStep
  PROVE  parent'.context = parent.context /\ UNCHANGED child
<1>1. CASE Finish
  BY <1>1, FinishParent DEF Finish, TypeOK, Parent
<1>2. CASE ~Finish
  BY <1>2 DEF ParentStep, Route, Start, SaveCheckpoint, Consume, Return, Raise, Revoked,
     FinishRejected, Settle, Answer, Hold, Resume, Approve, Amend, RetryParent, Ask,
     FailedRows, TypeOK, Parent
<1> QED BY <1>1, <1>2

\* A child's folded result goes with it, and its status after the folding is
\* changed only by a retry, which is remembered.
LEMMA OneChildKeeps ==
  ASSUME TypeOK, NEW c \in Children, OneChildStep(c)
  PROVE  /\ UNCHANGED <<parent, run>>
         /\ \A d \in Children \ {c} : child'[d] = child[d]
         /\ child'[c].folded = child[c].folded
         /\ child[c].deleted => child'[c].deleted
         /\ child[c].folded /\ child[c].reopened => child'[c].reopened
         /\ child'[c].reopened => child[c].folded \/ child[c].reopened
         /\ child[c].status # "absent" => child'[c].status # "absent"
         /\ child[c].status \in Terminal => child'[c].status = child[c].status \/ child'[c].reopened = child[c].folded
         /\ ~child'[c].deleted => ~child[c].deleted
  BY DEF OneChildStep, CreateChild, AwaitResolved, AwaitExpires, ChildEnds, ChildSettles, RetryChild,
     DeleteChild, TypeOK, Child, Terminal, Visible

-----------------------------------------------------------------------------
(* The results of the children                                               *)

LEMMA ContextEntry ==
  ASSUME NEW s \in Seq(Contribution), NEW i \in DOMAIN s
  PROVE  s[i].from \in Children /\ s[i].outcome \in Terminal
<1>1. s[i] \in Contribution
  OBVIOUS
<1> QED BY <1>1 DEF Contribution

LEMMA FanInChildren ==
  ASSUME TypeOK, FanIn, NEW c \in Children
  PROVE  /\ child'[c].folded = (child[c].folded \/ c \in Fresh)
         /\ child'[c].status = child[c].status /\ child'[c].reopened = child[c].reopened
         /\ child'[c].deleted = child[c].deleted
  BY DEF FanIn, TypeOK, Child

LEMMA ResultsKeptStep ==
  ASSUME TypeOK, ResultsKept, Next
  PROVE  ResultsKept'
<1>1. CASE ParentStep
  BY <1>1, ParentStepKeeps DEF ResultsKept
<1>2. ASSUME NEW c \in Children, OneChildStep(c) PROVE ResultsKept'
  <2>1. \A i \in DOMAIN parent.context :
          parent.context[i].from \in Children /\ parent.context[i].outcome \in Terminal
    BY Fields, ContextEntry
  <2>2. parent' = parent
    BY <1>2, OneChildKeeps
  <2>3. /\ \A d \in Children : child'[d].folded = child[d].folded
        /\ \A d \in Children : child'[d].reopened => child'[d].folded
    BY <1>2, OneChildKeeps DEF ResultsKept
  <2>4. \A d \in Children : child'[d].status = "absent" => child[d].status = "absent"
    BY <1>2, OneChildKeeps
  <2>5. ASSUME NEW i \in DOMAIN parent.context
        PROVE  LET d == parent.context[i].from
               IN child'[d].reopened \/ child'[d].status = parent.context[i].outcome
    <3> DEFINE d == parent.context[i].from
    <3>1. /\ d \in Children /\ child[d].folded /\ parent.context[i].outcome \in Terminal
          /\ child[d].reopened \/ child[d].status = parent.context[i].outcome
      BY <2>1, <2>5 DEF ResultsKept
    <3>2. CASE d # c
      BY <1>2, <3>1, <3>2, OneChildKeeps
    <3>3. CASE d = c
      BY <1>2, <3>1, <3>3, OneChildKeeps
    <3> QED BY <3>2, <3>3
  <2> QED BY <2>1, <2>2, <2>3, <2>4, <2>5 DEF ResultsKept
<1>3. CASE FanIn
  <2> DEFINE s == parent.context
  <2>1. PICK t \in Seq(Contribution) :
          /\ parent'.context = s \o t
          /\ \A i \in DOMAIN t : t[i].from \in Fresh /\ t[i].outcome = child[t[i].from].status
          /\ \A i, j \in DOMAIN t : t[i].from = t[j].from => i = j
          /\ \A c \in Fresh : \E i \in DOMAIN t : t[i].from = c
    BY <1>3, FanInFacts
  <2> DEFINE u == parent'.context
  <2>2. /\ s \in Seq(Contribution) /\ Len(s) \in Nat /\ Len(t) \in Nat
        /\ DOMAIN s = 1 .. Len(s) /\ DOMAIN t = 1 .. Len(t)
    BY Fields
  <2>3. /\ DOMAIN u = 1 .. (Len(s) + Len(t))
        /\ \A i \in DOMAIN s : u[i] = s[i]
        /\ \A i \in DOMAIN t : u[Len(s) + i] = t[i]
    BY <2>1, <2>2, Concatenated
  <2>4. \A i \in DOMAIN u : \/ i \in DOMAIN s /\ u[i] = s[i]
                            \/ i - Len(s) \in DOMAIN t /\ u[i] = t[i - Len(s)]
    BY <2>2, <2>3
  <2>5. /\ \A i \in DOMAIN s : i \in DOMAIN u
        /\ \A i \in DOMAIN t : Len(s) + i \in DOMAIN u
    BY <2>2, <2>3
  <2>6. /\ Fresh \subseteq Children /\ \A c \in Fresh : ~child[c].folded
        /\ \A c \in Fresh : child[c].status # "absent"
    BY DEF Fresh, Visible
  <2>7. \A i \in DOMAIN s : s[i].from \in Children
    BY Fields, ContextEntry
  <2> HIDE DEF u, s
  <2>8. \A c \in Children : child'[c].folded => \E i \in DOMAIN u : u[i].from = c
    <3> SUFFICES ASSUME NEW c \in Children, child'[c].folded
                 PROVE  \E i \in DOMAIN u : u[i].from = c
      OBVIOUS
    <3>1. CASE child[c].folded
      BY <3>1, <2>3, <2>5 DEF ResultsKept, s
    <3>2. CASE c \in Fresh
      BY <3>2, <2>1, <2>3, <2>5
    <3> QED BY <1>3, <3>1, <3>2, FanInChildren
  <2>9. \A i, j \in DOMAIN u : u[i].from = u[j].from => i = j
    <3> SUFFICES ASSUME NEW i \in DOMAIN u, NEW j \in DOMAIN u, u[i].from = u[j].from
                 PROVE  i = j
      OBVIOUS
    <3>1. \A k \in DOMAIN s : child[s[k].from].folded
      BY DEF ResultsKept, s
    <3>2. \A k \in DOMAIN t : ~child[t[k].from].folded
      BY <2>1, <2>6
    <3>3. CASE i \in DOMAIN s /\ j \in DOMAIN s
      BY <3>3, <2>3 DEF ResultsKept, s
    <3>4. CASE i \notin DOMAIN s /\ j \notin DOMAIN s
      <4>1. i - Len(s) \in DOMAIN t /\ j - Len(s) \in DOMAIN t
            /\ t[i - Len(s)].from = t[j - Len(s)].from
        BY <3>4, <2>4
      <4>2. i - Len(s) = j - Len(s)
        BY <4>1, <2>1
      <4> QED BY <4>2, <2>2, <2>3
    <3>5. CASE i \in DOMAIN s /\ j \notin DOMAIN s
      BY <3>1, <3>2, <3>5, <2>4
    <3>6. CASE i \notin DOMAIN s /\ j \in DOMAIN s
      BY <3>1, <3>2, <3>6, <2>4
    <3> QED BY <3>3, <3>4, <3>5, <3>6
  <2>10. \A i \in DOMAIN u : /\ child'[u[i].from].folded
                             /\ child'[u[i].from].reopened \/ child'[u[i].from].status = u[i].outcome
    <3> SUFFICES ASSUME NEW i \in DOMAIN u
                 PROVE  /\ child'[u[i].from].folded
                        /\ child'[u[i].from].reopened \/ child'[u[i].from].status = u[i].outcome
      OBVIOUS
    <3>1. CASE i \in DOMAIN s /\ u[i] = s[i]
      <4>1. /\ s[i].from \in Children /\ child[s[i].from].folded
            /\ child[s[i].from].reopened \/ child[s[i].from].status = s[i].outcome
        BY <3>1, <2>7 DEF ResultsKept, s
      <4> QED BY <1>3, <3>1, <4>1, FanInChildren
    <3>2. CASE i - Len(s) \in DOMAIN t /\ u[i] = t[i - Len(s)]
      <4>1. u[i].from \in Fresh /\ u[i].outcome = child[u[i].from].status
        BY <3>2, <2>1
      <4> QED BY <1>3, <4>1, <2>6, FanInChildren
    <3> QED BY <3>1, <3>2, <2>4
  <2>11. ASSUME NEW c \in Children, child'[c].status = "absent" PROVE ~child'[c].folded
    <3>1. child[c].status = "absent" /\ child'[c].folded = (child[c].folded \/ c \in Fresh)
      BY <1>3, <2>11, FanInChildren
    <3> QED BY <3>1, <2>6 DEF ResultsKept
  <2>12. \A c \in Children : child'[c].reopened => child'[c].folded
    BY <1>3, FanInChildren DEF ResultsKept
  <2> QED BY <2>8, <2>9, <2>10, <2>11, <2>12 DEF ResultsKept, u
<1> QED BY <1>1, <1>2, <1>3, NextCases

-----------------------------------------------------------------------------
(* The run under way                                                         *)

\* What the end of a run does to the row and to the run.
LEMMA FinishFacts ==
  ASSUME TypeOK, Finish
  PROVE  /\ run.pc = "returned" /\ run' = [run EXCEPT !.pc = "done"] /\ UNCHANGED child
         /\ parent'.objective = parent.objective /\ parent'.pending = parent.pending
         /\ parent'.answers = parent.answers /\ parent'.context = parent.context
         /\ parent'.question.key = parent.question.key
         /\ parent'.question.status = "none" <=> parent.question.status = "none"
         /\ parent'.status = "SUCCESS" /\ parent.status # "SUCCESS" =>
              /\ parent.status = "EXEC" /\ Fresh = {} /\ ~WaitsForInput
              /\ parent'.question = parent.question
<1>1. PICK s \in Statuses, w \in SUBSET Reasons, r \in ReceiptAfter, q \in Question :
        parent' = [parent EXCEPT !.status = s, !.reasons = w, !.receipt = r, !.question = q]
  BY FinishParent
<1>2. /\ run.pc = "returned" /\ run' = [run EXCEPT !.pc = "done"] /\ UNCHANGED child
      /\ parent'.objective = parent.objective /\ parent'.pending = parent.pending
      /\ parent'.answers = parent.answers /\ parent'.context = parent.context
  BY <1>1 DEF Finish, TypeOK, Parent
<1>3. CASE WaitForInput
  <2>1. parent'.status = Interrupted(parent.status)
    BY <1>3 DEF WaitForInput, TypeOK, Parent
  <2>2. parent'.question = [parent.question EXCEPT !.status = IF @ = "pending" THEN @ ELSE "delivered"]
    BY <1>3 DEF WaitForInput, TypeOK, Parent
  <2>3. parent'.question.key = parent.question.key
    BY <2>2, Fields DEF Question
  <2>4. parent'.question.status = "none" <=> parent.question.status = "none"
    BY <1>3, <2>2, Fields DEF Question, WaitForInput, WaitsForInput
  <2> QED BY <1>2, <2>1, <2>3, <2>4 DEF Interrupted
<1>4. CASE WaitForChildren
  BY <1>2, <1>4 DEF WaitForChildren, TypeOK, Parent
<1>5. CASE WaitForApproval
  BY <1>2, <1>5 DEF WaitForApproval, TypeOK, Parent, Interrupted
<1>6. CASE End
  BY <1>2, <1>6 DEF End, TypeOK, Parent
<1> QED BY <1>3, <1>4, <1>5, <1>6 DEF Finish

\* What a reply does to the row.
LEMMA AnswerFacts ==
  ASSUME TypeOK, Answer
  PROVE  /\ parent.question.status = "pending" /\ parent.status \notin Terminal
         /\ UNCHANGED <<child, run>>
         /\ parent'.status = parent.status /\ parent'.context = parent.context
         /\ parent'.objective = parent.objective /\ parent'.pending = parent.pending
         /\ parent'.reasons \subseteq parent.reasons
         /\ parent'.question.key = parent.question.key
         /\ parent'.question.status = IF parent.status = "EXEC" THEN "answered" ELSE "delivered"
<1>1. parent'.question = [parent.question EXCEPT !.status =
                            IF parent.status = "EXEC" THEN "answered" ELSE "delivered"]
  BY DEF Answer, TypeOK, Parent
<1>2. /\ parent'.question.key = parent.question.key
      /\ parent'.question.status = IF parent.status = "EXEC" THEN "answered" ELSE "delivered"
  BY <1>1, Fields DEF Question
<1> QED BY <1>2 DEF Answer, TypeOK, Parent

\* What the use of a reply does to the row and to the run.
LEMMA ConsumeFacts ==
  ASSUME TypeOK, Consume
  PROVE  /\ run.pc = "running" /\ parent.status \notin Terminal
         /\ parent.question.status \in {"answered", "delivered"}
         /\ UNCHANGED child
         /\ parent'.status = parent.status /\ parent'.context = parent.context
         /\ parent'.objective = parent.objective /\ parent'.pending = parent.pending
         /\ parent'.answers = parent.answers /\ parent'.reasons \subseteq parent.reasons
         /\ parent'.question.key = parent.question.key
         /\ parent'.question.status = "delivered"
         /\ run'.pc = run.pc /\ run'.saw = run.saw /\ run'.objective = run.objective
         /\ run'.heard = run.heard \cup parent.answers
<1>1. parent'.question = [parent.question EXCEPT !.status = "delivered", !.consumed = TRUE]
  BY DEF Consume, TypeOK, Parent
<1>2. parent'.question.key = parent.question.key /\ parent'.question.status = "delivered"
  BY <1>1, Fields DEF Question
<1> QED BY <1>2 DEF Consume, TypeOK, Parent, Run

\* What the fan-in does to the row besides the results.
LEMMA FanInRow ==
  ASSUME TypeOK, FanIn
  PROVE  /\ parent.status = "DISPATCH" /\ Waiting /\ run' = run
         /\ parent'.status = parent.status /\ parent'.question = parent.question
         /\ parent'.answers = parent.answers
         /\ parent'.objective = parent.objective + parent.pending /\ parent'.pending = 0
  BY DEF FanIn, FanInReady, Applied, TypeOK, Parent

LEMMA BoundedStep ==
  ASSUME TypeOK, Bounded, Next
  PROVE  Bounded'
<1>1. ASSUME NEW c \in Children, OneChildStep(c) PROVE Bounded'
  BY <1>1, OneChildKeeps DEF Bounded
<1>2. CASE FanIn
  <2>1. /\ parent'.objective = parent.objective + parent.pending /\ parent'.pending = 0
        /\ parent'.question = parent.question
    BY <1>2, FanInRow
  <2>2. parent.objective \in Nat /\ parent.pending \in Nat
    BY Fields
  <2> QED BY <2>1, <2>2 DEF Bounded
<1>3. CASE Finish
  BY <1>3, FinishFacts DEF Bounded
<1>4. ASSUME NEW q \in Questions, Ask(q) PROVE Bounded'
  BY <1>4 DEF Bounded, Ask, TypeOK, Parent
<1>5. CASE Answer
  BY <1>5, AnswerFacts DEF Bounded
<1>6. CASE Consume
  BY <1>6, ConsumeFacts DEF Bounded
<1>7. CASE Amend
  <2>1. /\ parent.objective \in Nat /\ parent.pending \in Nat /\ MaxAmendments \in Nat
        /\ parent.objective + parent.pending < MaxAmendments
    BY <1>7, Fields, CoordinationAssumption DEF Amend, CoordinationAssumption
  <2>2. /\ parent'.question = parent.question
        /\ \/ parent'.objective = parent.objective /\ parent'.pending = parent.pending + 1
           \/ parent'.objective = parent.objective + 1 /\ parent'.pending = parent.pending
    BY <1>7 DEF Amend, TypeOK, Parent
  <2> QED BY <2>1, <2>2 DEF Bounded
<1>8. CASE Route \/ Start \/ SaveCheckpoint \/ Return \/ Raise \/ Revoked \/ FinishRejected \/ Settle
           \/ Hold \/ Resume \/ Approve \/ RetryParent
  BY <1>8 DEF Bounded, Route, Start, SaveCheckpoint, Return, Raise, Revoked, FinishRejected, Settle,
     FailedRows, Hold, Resume, Approve, RetryParent, TypeOK, Parent
<1> QED BY <1>1, <1>2, <1>3, <1>4, <1>5, <1>6, <1>7, <1>8, NextCases DEF ParentStep

\* The steps of the run and the commands that touch neither question nor
\* objective.
QuietStep ==
  \/ Route \/ SaveCheckpoint \/ Raise \/ Revoked \/ FinishRejected \/ Hold \/ Resume
  \/ Approve \/ RetryParent

LEMMA RunCurrentStep ==
  ASSUME TypeOK, RunCurrent, Next
  PROVE  RunCurrent'
<1>1. ASSUME NEW c \in Children, OneChildStep(c) PROVE RunCurrent'
  BY <1>1, OneChildKeeps DEF RunCurrent, Active, Waiting
<1>2. CASE FanIn
  BY <1>2, FanInRow DEF RunCurrent, Active
<1>3. CASE Finish
  BY <1>3, FinishFacts DEF RunCurrent, Active, TypeOK, Run
<1>4. CASE Answer
  BY <1>4, AnswerFacts DEF RunCurrent, Active, Waiting
<1>5. CASE Consume
  BY <1>5, ConsumeFacts DEF RunCurrent, Active, Waiting
<1>6. CASE Start
  BY <1>6 DEF Start, RunCurrent, Active, Waiting, TypeOK, Parent
<1>7. CASE Return \/ Settle
  BY <1>7 DEF Return, Settle, RunCurrent, Active, Waiting, TypeOK, Parent, Run
<1>8. CASE Amend
  BY <1>8 DEF Amend, RunCurrent, Active, Waiting, TypeOK, Parent
<1>9. ASSUME NEW q \in Questions, Ask(q) PROVE RunCurrent'
  BY <1>9 DEF Ask, RunCurrent, Active, Waiting, TypeOK, Parent
<1>10. CASE QuietStep
  BY <1>10 DEF QuietStep, Route, SaveCheckpoint, Raise, Revoked, FinishRejected, Hold, Resume,
     Approve, RetryParent, RunCurrent, Active, Waiting, TypeOK, Parent, Run
<1> QED BY <1>1, <1>2, <1>3, <1>4, <1>5, <1>6, <1>7, <1>8, <1>9, <1>10, NextCases
       DEF ParentStep, QuietStep

LEMMA ReplyHeldStep ==
  ASSUME TypeOK, ReplyHeld, Next
  PROVE  ReplyHeld'
<1>1. ASSUME NEW c \in Children, OneChildStep(c) PROVE ReplyHeld'
  BY <1>1, OneChildKeeps DEF ReplyHeld, Active
<1>2. CASE FanIn
  BY <1>2, FanInRow DEF ReplyHeld
<1>3. CASE Finish
  BY <1>3, FinishFacts DEF ReplyHeld, Active, TypeOK, Run
<1>4. CASE Answer
  BY <1>4, AnswerFacts DEF ReplyHeld
<1>5. CASE Consume
  BY <1>5, ConsumeFacts DEF ReplyHeld
<1>6. CASE Start
  BY <1>6 DEF Start, ReplyHeld, TypeOK, Parent
<1>7. CASE Return \/ Settle
  BY <1>7 DEF Return, Settle, ReplyHeld, Active, TypeOK, Parent, Run
<1>8. CASE Amend
  BY <1>8 DEF Amend, Interrupted, ReplyHeld, Active, TypeOK, Parent
<1>9. ASSUME NEW q \in Questions, Ask(q) PROVE ReplyHeld'
  BY <1>9 DEF Ask, ReplyHeld, TypeOK, Parent
<1>10. CASE QuietStep
  BY <1>10 DEF QuietStep, Route, SaveCheckpoint, Raise, Revoked, FinishRejected, Hold, Resume,
     Approve, RetryParent, Interrupted, ReplyHeld, Active, TypeOK, Parent, Run
<1> QED BY <1>1, <1>2, <1>3, <1>4, <1>5, <1>6, <1>7, <1>8, <1>9, <1>10, NextCases
       DEF ParentStep, QuietStep

LEMMA ObjectiveHeldStep ==
  ASSUME TypeOK, ObjectiveHeld, Next
  PROVE  ObjectiveHeld'
<1>1. ASSUME NEW c \in Children, OneChildStep(c) PROVE ObjectiveHeld'
  BY <1>1, OneChildKeeps DEF ObjectiveHeld
<1>2. CASE FanIn
  BY <1>2, FanInRow DEF ObjectiveHeld
<1>3. CASE Finish
  BY <1>3, FinishFacts DEF ObjectiveHeld, TypeOK, Run
<1>4. CASE Answer
  BY <1>4, AnswerFacts DEF ObjectiveHeld
<1>5. CASE Consume
  BY <1>5, ConsumeFacts DEF ObjectiveHeld
<1>6. CASE Start
  BY <1>6 DEF Start, ObjectiveHeld, TypeOK, Parent
<1>7. CASE Return \/ Settle
  BY <1>7 DEF Return, Settle, ObjectiveHeld, TypeOK, Parent, Run
<1>8. CASE Amend
  BY <1>8 DEF Amend, Interrupted, ObjectiveHeld, TypeOK, Parent
<1>9. ASSUME NEW q \in Questions, Ask(q) PROVE ObjectiveHeld'
  BY <1>9 DEF Ask, ObjectiveHeld, TypeOK, Parent
<1>10. CASE QuietStep
  BY <1>10 DEF QuietStep, Route, SaveCheckpoint, Raise, Revoked, FinishRejected, Hold, Resume,
     Approve, RetryParent, Interrupted, ObjectiveHeld, TypeOK, Parent, Run
<1> QED BY <1>1, <1>2, <1>3, <1>4, <1>5, <1>6, <1>7, <1>8, <1>9, <1>10, NextCases
       DEF ParentStep, QuietStep

-----------------------------------------------------------------------------
(* Deferred instructions                                                     *)

\* A step of a child takes nothing out of Fresh, unless it deletes the child.
LEMMA FreshStays ==
  ASSUME TypeOK, NEW c \in Children, OneChildStep(c)
  PROVE  /\ \A d \in Fresh : d \in Fresh' \/ child'[d].deleted
         /\ \A d \in Children : child[d].deleted => child'[d].deleted
  BY OneChildKeeps DEF Fresh, Visible, TypeOK, Child

LEMMA DeferredStep ==
  ASSUME TypeOK, ResultsKept, DeferredForChild, Next
  PROVE  DeferredForChild'
<1>1. ASSUME NEW c \in Children, OneChildStep(c) PROVE DeferredForChild'
  <2>1. \A d \in Children : child[d].reopened => child'[d].reopened
    BY <1>1, OneChildKeeps DEF ResultsKept
  <2> QED BY <1>1, <2>1, FreshStays, OneChildKeeps DEF DeferredForChild, Fresh, Visible
<1>2. CASE FanIn
  BY <1>2, FanInRow DEF DeferredForChild
<1>3. CASE Finish
  BY <1>3, FinishFacts DEF DeferredForChild, Fresh, Visible
<1>4. CASE Answer
  BY <1>4, AnswerFacts DEF DeferredForChild, Fresh, Visible
<1>5. CASE Consume
  BY <1>5, ConsumeFacts DEF DeferredForChild, Fresh, Visible
<1>6. CASE Start
  BY <1>6 DEF Start, DeferredForChild, Fresh, Visible, TypeOK, Parent
<1>7. CASE Return \/ Settle
  BY <1>7 DEF Return, Settle, FailedRows, DeferredForChild, Fresh, Visible, TypeOK, Parent
<1>8. CASE Amend
  <2>1. CASE ActiveDelegations # {}
    <3>1. PICK c \in Children : /\ child[c].status = "open" /\ ~child[c].deleted
      BY <2>1 DEF ActiveDelegations, Visible
    <3>2. CASE child[c].folded
      <4>1. PICK i \in DOMAIN parent.context : parent.context[i].from = c
        BY <3>2 DEF ResultsKept
      <4>2. parent.context[i].outcome \in Terminal
        BY Fields, ContextEntry
      <4>3. child[c].reopened
        BY <3>1, <4>1, <4>2 DEF ResultsKept, Terminal
      <4> QED BY <1>8, <4>3 DEF Amend, DeferredForChild
    <3>3. CASE ~child[c].folded
      BY <1>8, <3>1, <3>3 DEF Amend, DeferredForChild, Fresh, Visible
    <3> QED BY <3>2, <3>3
  <2>2. CASE ActiveDelegations = {} /\ parent.pending > 0
    BY <1>8, <2>2 DEF Amend, DeferredForChild, Fresh, Visible
  <2>3. CASE ActiveDelegations = {} /\ ~(parent.pending > 0)
    BY <1>8, <2>3 DEF Amend, DeferredForChild, TypeOK, Parent
  <2> QED BY <2>1, <2>2, <2>3
<1>9. ASSUME NEW q \in Questions, Ask(q) PROVE DeferredForChild'
  BY <1>9 DEF Ask, DeferredForChild, Fresh, Visible, TypeOK, Parent
<1>10. CASE QuietStep
  BY <1>10 DEF QuietStep, Route, SaveCheckpoint, Raise, Revoked, FinishRejected, Hold, Resume,
     Approve, RetryParent, DeferredForChild, Fresh, Visible, TypeOK, Parent
<1> QED BY <1>1, <1>2, <1>3, <1>4, <1>5, <1>6, <1>7, <1>8, <1>9, <1>10, NextCases
       DEF ParentStep, QuietStep

-----------------------------------------------------------------------------
(* Success                                                                   *)

\* Once the parent has succeeded, no child's step makes a result fresh.
LEMMA NoNewFresh ==
  ASSUME TypeOK, NEW c \in Children, OneChildStep(c), parent.status = "SUCCESS", Fresh = {}
  PROVE  Fresh' = {}
<1>1. ~CreateChild(c)
  BY DEF CreateChild
<1>2. child[c].status = "absent" => child'[c].status = "absent"
  BY <1>1 DEF OneChildStep, AwaitResolved, AwaitExpires, ChildEnds, ChildSettles, RetryChild,
     DeleteChild, TypeOK, Child, Visible
<1> QED BY <1>2, OneChildKeeps DEF Fresh, Visible

LEMMA SuccessStep ==
  ASSUME TypeOK, Bounded, RunCurrent, ReplyHeld, ObjectiveHeld, SuccessKept, Next
  PROVE  SuccessKept'
<1>1. ASSUME NEW c \in Children, OneChildStep(c) PROVE SuccessKept'
  BY <1>1, OneChildKeeps, NoNewFresh DEF SuccessKept
<1>2. CASE FanIn
  BY <1>2, FanInRow DEF SuccessKept
<1>3. CASE Finish
  <2>1. parent.status # "SUCCESS"
    BY <1>3, FinishFacts DEF SuccessKept
  <2> SUFFICES ASSUME parent'.status = "SUCCESS" PROVE SuccessKept'
    BY DEF SuccessKept
  <2>2. /\ parent.status = "EXEC" /\ Fresh = {} /\ ~WaitsForInput /\ run.pc = "returned"
        /\ parent'.question = parent.question /\ parent'.answers = parent.answers
        /\ parent'.context = parent.context /\ parent'.objective = parent.objective
        /\ run' = [run EXCEPT !.pc = "done"] /\ UNCHANGED child
    BY <1>3, <2>1, FinishFacts
  <2>3. parent.question.status \in {"none", "delivered"}
    BY <2>2, Fields DEF WaitsForInput, Question
  <2>4. /\ run.saw = Len(parent.context) /\ parent.answers \subseteq run.heard
        /\ run.objective = parent.objective
    BY <2>2, <2>3 DEF RunCurrent, ReplyHeld, ObjectiveHeld, Active
  <2>5. run'.pc = "done" /\ run'.saw = run.saw /\ run'.heard = run.heard /\ run'.objective = run.objective
    BY <2>2 DEF TypeOK, Run
  <2>6. Fresh' = {}
    BY <2>2 DEF Fresh, Visible
  <2> QED BY <2>2, <2>3, <2>4, <2>5, <2>6 DEF SuccessKept
<1>4. CASE Answer
  BY <1>4, AnswerFacts DEF SuccessKept, Terminal
<1>5. CASE Consume
  BY <1>5, ConsumeFacts DEF SuccessKept, Terminal
<1>6. CASE Start
  BY <1>6 DEF Start, SuccessKept, TypeOK, Parent
<1>7. CASE Return
  BY <1>7 DEF Return, SuccessKept, TypeOK, Run
<1>8. CASE Settle
  <2>1. parent'.status = "SUCCESS" => parent' = parent
    <3>1. parent'.status = "SUCCESS" => parent.status = "SUCCESS"
      BY <1>8 DEF Settle, FailedRows, Interrupted, TypeOK, Parent
    <3>2. parent.status = "SUCCESS" => run.pc \in {"done", "idle"}
      BY DEF SuccessKept
    <3> QED BY <1>8, <3>1, <3>2 DEF Settle
  <2>2. run'.pc = "idle" /\ run'.saw = run.saw /\ run'.heard = run.heard /\ run'.objective = run.objective
    BY <1>8 DEF Settle, TypeOK, Run
  <2>3. Fresh' = Fresh
    BY <1>8 DEF Settle, Fresh, Visible
  <2> QED BY <2>1, <2>2, <2>3 DEF SuccessKept
<1>9. CASE Amend
  BY <1>9 DEF Amend, Interrupted, SuccessKept, Terminal, TypeOK, Parent
<1>10. ASSUME NEW q \in Questions, Ask(q) PROVE SuccessKept'
  BY <1>10 DEF Ask, SuccessKept, Terminal, TypeOK, Parent
<1>11. CASE QuietStep
  <2>1. CASE Route \/ SaveCheckpoint \/ RetryParent
    BY <2>1 DEF Route, SaveCheckpoint, RetryParent, SuccessKept, Terminal, TypeOK, Parent
  <2>2. CASE Raise \/ Revoked \/ FinishRejected
    BY <2>2 DEF Raise, Revoked, FinishRejected, SuccessKept, TypeOK, Run
  <2>3. CASE Hold
    BY <2>3 DEF Hold, Interrupted, SuccessKept, Terminal, TypeOK, Parent
  <2>4. CASE Resume \/ Approve
    BY <2>4 DEF Resume, Approve, SuccessKept, Fresh, Visible, TypeOK, Parent
  <2> QED BY <1>11, <2>1, <2>2, <2>3, <2>4 DEF QuietStep
<1> QED BY <1>1, <1>2, <1>3, <1>4, <1>5, <1>6, <1>7, <1>8, <1>9, <1>10, <1>11, NextCases
       DEF ParentStep, QuietStep

-----------------------------------------------------------------------------
(* The theorems                                                              *)

LEMMA CoordinationInit ==
  ASSUME Init
  PROVE  CoordinationInv
<1>1. /\ parent.status \in {"CREATE", "DISPATCH"} /\ parent.reasons = {} /\ parent.receipt = "clean"
      /\ parent.context = << >> /\ parent.question = NoQuestion /\ parent.answers = {}
      /\ parent.objective = 0 /\ parent.pending = 0
  BY DEF Init
<1>2. MaxRuns \in Nat /\ MaxAmendments \in Nat
  BY CoordinationAssumption DEF CoordinationAssumption
<1>3. TypeOK
  <2>1. NoQuestion \in Question
    BY <1>2 DEF NoQuestion, Question
  <2>2. parent \in Parent
    <3>1. << >> \in Seq(Contribution) /\ 0 \in 0 .. MaxAmendments /\ {} \in SUBSET Reasons
          /\ {} \in SUBSET Questions /\ {"CREATE", "DISPATCH"} \subseteq Statuses
      BY <1>2 DEF Statuses
    <3> QED BY <2>1, <3>1 DEF Init, Parent
  <2>3. child \in [Children -> Child]
    BY DEF Init, Child
  <2>4. run \in Run /\ run.saw <= Len(parent.context)
    BY <1>1, <1>2 DEF Init, Run, Outcomes
  <2> QED BY <2>2, <2>3, <2>4 DEF TypeOK
<1>4. Bounded
  BY <1>1, <1>2 DEF Bounded, NoQuestion
<1>5. ResultsKept
  <2>1. \A c \in Children : ~child[c].folded /\ ~child[c].reopened
    BY DEF Init
  <2>2. DOMAIN parent.context = {}
    BY <1>1
  <2> QED BY <2>1, <2>2 DEF ResultsKept
<1>6. RunCurrent /\ ReplyHeld /\ ObjectiveHeld
  BY DEF Init, RunCurrent, ReplyHeld, ObjectiveHeld, Active
<1>7. DeferredForChild /\ SuccessKept
  BY <1>1 DEF DeferredForChild, SuccessKept
<1> QED BY <1>3, <1>4, <1>5, <1>6, <1>7 DEF CoordinationInv

LEMMA CoordinationStep ==
  ASSUME CoordinationInv, [Next]_vars
  PROVE  CoordinationInv'
<1>1. CASE Next
  BY <1>1, TypeStep, BoundedStep, ResultsKeptStep, RunCurrentStep, ReplyHeldStep, ObjectiveHeldStep,
     DeferredStep, SuccessStep DEF CoordinationInv
<1>2. CASE UNCHANGED vars
  BY <1>2 DEF CoordinationInv, vars, TypeOK, Bounded, ResultsKept, RunCurrent, ReplyHeld, ObjectiveHeld,
     DeferredForChild, SuccessKept, Active, Waiting, Fresh, Visible
<1> QED BY <1>1, <1>2

LEMMA CoordinationInvariant == Spec => []CoordinationInv
  BY CoordinationInit, CoordinationStep, PTL DEF Spec

\* The rows of the parent and of its children stay well formed, and the run
\* under way has seen no more than there is.
THEOREM CoordinationTypeCorrect == Spec => []TypeOK
<1>1. CoordinationInv => TypeOK
  BY DEF CoordinationInv
<1> QED BY <1>1, CoordinationInvariant, PTL

\* A Task succeeds only on a run that started with the result of every child
\* that is not deleted, each once and as the child ended.
THEOREM SynthesisIsComplete == Spec => []SynthesisComplete
<1>1. ASSUME CoordinationInv PROVE SynthesisComplete
  <2> SUFFICES ASSUME parent.status = "SUCCESS", NEW c \in Visible
               PROVE  /\ CountSeen(c) = 1
                      /\ child[c].reopened \/ \E i \in DOMAIN Seen :
                           Seen[i] = [from |-> c, outcome |-> child[c].status]
    BY DEF SynthesisComplete
  <2>1. run.saw = Len(parent.context) /\ parent.context \in Seq(Contribution)
    BY <1>1, Fields DEF CoordinationInv, SuccessKept
  <2>2. Seen = parent.context
    BY <2>1 DEF Seen
  <2>3. c \in Children /\ child[c].folded
    BY <1>1 DEF CoordinationInv, SuccessKept, Fresh, Visible
  <2>4. PICK i \in DOMAIN parent.context : parent.context[i].from = c
    BY <1>1, <2>3 DEF CoordinationInv, ResultsKept
  <2>5. {j \in DOMAIN Seen : Seen[j].from = c} = {i}
    BY <1>1, <2>2, <2>4 DEF CoordinationInv, ResultsKept
  <2>6. CountSeen(c) = 1
    BY <2>5, FS_Singleton DEF CountSeen
  <2>7. child[c].reopened \/ child[c].status = parent.context[i].outcome
    BY <1>1, <2>4 DEF CoordinationInv, ResultsKept
  <2>8. parent.context[i] = [from |-> c, outcome |-> parent.context[i].outcome]
    <3>1. parent.context[i] \in Contribution
      BY <2>1, <2>4
    <3> QED BY <2>4, <3>1 DEF Contribution
  <2> QED BY <2>2, <2>4, <2>6, <2>7, <2>8
<1> QED BY <1>1, CoordinationInvariant, PTL

\* A Task never succeeds with its question open or a reply unused.
THEOREM ReplyIsUsed == Spec => []ReplyUsed
<1>1. CoordinationInv => ReplyUsed
  BY DEF CoordinationInv, SuccessKept, ReplyUsed
<1> QED BY <1>1, CoordinationInvariant, PTL

\* A Task succeeds on its current objective, with no instruction left over
\* unless a user deleted or reopened a child it was waiting for.
THEOREM InstructionsAreHonoured == Spec => []InstructionsHonoured
<1>1. ASSUME CoordinationInv PROVE InstructionsHonoured
  <2>1. parent.pending \in Nat
    BY <1>1, Fields DEF CoordinationInv
  <2> QED BY <1>1, <2>1 DEF CoordinationInv, SuccessKept, DeferredForChild, InstructionsHonoured
<1> QED BY <1>1, CoordinationInvariant, PTL
=============================================================================

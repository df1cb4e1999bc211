------------------------ MODULE MCInferenceService --------------------------
(* Two scenarios: a synchronous caller whose inference has the connection    *)
(* to itself, and a detached inference of the background class that meets a  *)
(* voice caller.                                                             *)
EXTENDS InferenceService, TLC

CONSTANTS i1, n1

Classes == i1 :> 2 @@ n1 :> 0

Owners == [t \in Tickets |-> t]

Scenario ==
  IF caller.phase = "absent" THEN journal' = journal
  ELSE /\ limit = 1 /\ limit' = limit
       /\ native' = native /\ crashes' = crashes
       /\ op'.expired = op.expired
       /\ ~HeartbeatFails
       /\ \A c \in Commands : receipt'[c].action # "replay"
       /\ caller.phase \notin Watching =>
            \A c \in Commands : receipt'[c].action = receipt[c].action

\* The scenarios restrict no action whose fairness is assumed.
ScenarioSpec ==
  /\ ServiceInit
  /\ [][ServiceNext /\ Scenario]_serviceVars
  /\ FairLoop /\ FairRoot
=============================================================================

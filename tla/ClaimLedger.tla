---------------------------- MODULE ClaimLedger ----------------------------
(***************************************************************************)
(* What the scheduler's claims promise, without rows, time, commands or     *)
(* crashes: each claim of a Task has a number of its own, is held by the    *)
(* one worker that took it, and is closed at most once.  A newer claim      *)
(* revokes the older one, whose worker can only forget it.                  *)
(***************************************************************************)
EXTENDS Naturals

CONSTANTS Tasks, Workers, Results, MaxClaims

VARIABLES
  lease,    \* the claim that owns the Task, or 0
  claims,   \* the claims taken so far
  attempt,  \* the outcome of each claim: "NONE" before it, "CLAIMED" while open
  holds     \* the claim each worker believes it has, or 0

ledger == <<lease, claims, attempt, holds>>

Init ==
  /\ lease = [t \in Tasks |-> 0]
  /\ claims = [t \in Tasks |-> 0]
  /\ attempt = [t \in Tasks |-> [n \in 1 .. MaxClaims |-> "NONE"]]
  /\ holds = [w \in Workers |-> [t \in Tasks |-> 0]]

\* A worker without claim on t takes the next one.
Take(w, t) ==
  /\ holds[w][t] = 0
  /\ claims[t] < MaxClaims
  /\ claims' = [claims EXCEPT ![t] = @ + 1]
  /\ lease' = [lease EXCEPT ![t] = claims[t] + 1]
  /\ attempt' = [attempt EXCEPT ![t][claims[t] + 1] = "CLAIMED"]
  /\ holds' = [holds EXCEPT ![w][t] = claims[t] + 1]

\* The owner of t is closed with the outcome x; the workers in D forget t.
Close(t, x, D) ==
  /\ lease[t] # 0
  /\ attempt[t][lease[t]] = "CLAIMED"
  /\ attempt' = [attempt EXCEPT ![t][lease[t]] = x]
  /\ lease' = [lease EXCEPT ![t] = 0]
  /\ holds' = [w \in Workers |-> [holds[w] EXCEPT ![t] = IF w \in D THEN 0 ELSE @]]
  /\ UNCHANGED claims

\* Workers in D forget their claims on the Tasks in S and leave them as they are.
Forget(D, S) ==
  /\ holds' = [w \in Workers |-> [t \in Tasks |->
                 IF w \in D /\ t \in S THEN 0 ELSE holds[w][t]]]
  /\ UNCHANGED <<lease, claims, attempt>>

Next ==
  \/ \E w \in Workers, t \in Tasks : Take(w, t)
  \/ \E t \in Tasks, x \in Results, D \in SUBSET Workers : Close(t, x, D)
  \/ \E D \in SUBSET Workers, S \in SUBSET Tasks : Forget(D, S)

Spec == Init /\ [][Next]_ledger

=============================================================================

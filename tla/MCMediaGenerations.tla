------------------------- MODULE MCMediaGenerations -------------------------
(* Instances of MediaGenerations, with ActionAuthorizations in it, for TLC.  *)
EXTENDS MediaGenerations, TLC

Symmetry == Permutations(Callers)

Manager == policy.manager = CHOOSE u \in Users : TRUE

\* One operation is asked for, of a native tool or of a managed runtime; the
\* waking of the Task is left to the other instance.
OneInit == MediaInit /\ Manager /\ Cardinality(wanted) = 1
NoWaking == waker' = NoWake

OneSpec == OneInit /\ [][MediaNext]_allVars

\* Either one operation, followed to the report of its generation, or two,
\* followed through the waits they cause; each with the fairness it needs.
Focus ==
  /\ ~(ctx.phase = "running" /\ ctx'.phase = "queued")
  /\ IF Cardinality(wanted) = 1
     THEN NoWaking /\ ctx'.phase # "suspended"
     ELSE UNCHANGED mediaVars /\ notifier' = NoNotice

SomeInit == MediaInit /\ Manager /\ wanted # {}

LiveSpec ==
  /\ SomeInit /\ [][MediaNext]_allVars
  /\ \/ Cardinality(wanted) = 1 /\ FairWorker
     \/ Cardinality(wanted) = 2 /\ FairJobs
=============================================================================

-------------------------- MODULE MCTaskScheduler --------------------------
(* TLC instance of TaskScheduler: every Task belongs to one agent.           *)
EXTENDS TaskScheduler, TLC

CONSTANTS a1, t1

OneAgent == [t \in Tasks |-> a1]

Symmetry == Permutations(Procs)

-----------------------------------------------------------------------------
(* Two scenarios in one run.  Alone: the other Task stays new and held by    *)
(* its user, and t1 uses the processes and claims that the bounds give.      *)
(* Beside: both Tasks move, in one process, with one claim each, and are     *)
(* neither held nor executed.                                                *)

StepOf(t) ==
  \/ \E p \in Procs : Claim(p, t) \/ Work(p, t) \/ Command(p, t)
  \/ Durable(t)

Alone ==
  /\ \A t \in Tasks \ {t1} : row[t] = FreshRow("CREATE", {"user"})
  /\ StepOf(t1) \/ \E p \in Procs : Crash(p)

Small ==
  /\ \A t \in Tasks : 
       row[t].claims <= 1 /\ row[t].status \in Runnable /\ ~Paused(row[t])
  /\ \E p \in Procs : \A q \in Procs \ {p}, t \in Tasks : run[q][t] = IdleRun

Beside ==
  /\ Small
  /\ (\E t \in Tasks : StepOf(t)) \/ (\E p \in Procs : Crash(p))
  /\ Small'

ScenarioSpec == Init /\ [][Alone \/ Beside]_vars
=============================================================================

------------------------- MODULE TaskOutcomesProofs -------------------------
(***************************************************************************)
(* What a step of the scheduler may do to the row of a Task: its status,    *)
(* its failures and its lease.  From it follow the capacity of an agent,   *)
(* the retry budget, the finality of an outcome and the hold of a pause,   *)
(* for any Tasks, processes, limits and bound.                             *)
(***************************************************************************)
EXTENDS TaskSchedulerProofs, FiniteSetTheorems

\* The copy of a row that a run w may still save is the row r as it is: it is
\* in the phase the run was claimed for, neither held nor deleted.
CurrentCopy(w, r) ==
  /\ w.pc \in {"loaded", "routed"}
  /\ r.status = w.phase
  /\ ~Paused(r)
  /\ ~r.deleted

\* A copy whose revision is the row's is current (version_id_col).
Current == \A p \in Procs, t \in Tasks : run[p][t].fresh => CurrentCopy(run[p][t], row[t])

\* A step that takes no claim turns the row a into b: it takes no lease and
\* mends none that expired, starts no held Task, reopens no settled outcome, and
\* what may still run has the failures it had or few enough.
Moves(a, b) ==
  /\ Unbroken(b) => (Unbroken(a) /\ (b.ttl = a.ttl \/ b.ttl > 0))
  /\ b.status = "EXEC" => (a.status = "EXEC" \/ ~Paused(a))
  /\ HasTerminalOutcome(a) => b.status = a.status
  /\ \/ b.status \in Terminal
     \/ b.failures < MaxLimit
     \/ a.status \in Active /\ b.failures = a.failures

\* The copies of t that are still fresh after a step are current.
CopiesOf(t) == \A q \in Procs : run'[q][t].fresh => CurrentCopy(run'[q][t], row'[t])

\* A step on the row of t alone that Moves allows.
RowMoves(t) == \E r \in Row : row' = [row EXCEPT ![t] = r] /\ Moves(row[t], r)

-----------------------------------------------------------------------------
(* The limits and the rows                                                   *)

\* Each limit is within the largest, which is positive.
LEMMA Limits ==
  /\ MaxLimit \in Nat /\ 0 < MaxLimit
  /\ \A e \in Failures : Limit(e) \in Nat /\ Limit(e) <= MaxLimit
BY SchedulerAssumption DEF SchedulerAssumption, MaxLimit, Limit

\* A row that keeps its status, failures, lease and time to live moves nowhere.
LEMMA SameMoves ==
  ASSUME NEW a \in Row, NEW b \in Row,
         b.status = a.status, b.failures = a.failures,
         \/ b.lease = a.lease /\ b.ttl = a.ttl /\ b.lapsed = a.lapsed
         \/ b.lease = 0
         \/ b.lease = a.lease /\ (b.lapsed \/ (b.lapsed = a.lapsed /\ b.ttl > 0))
  PROVE  Moves(a, b)
BY DEF Moves, Unbroken, Row, Active

\* So does a row whose execution is interrupted, or that ends in error.
LEMMA InterruptMoves ==
  ASSUME NEW a \in Row, NEW b \in Row,
         \/ b.status = IF a.status = "EXEC" THEN "DISPATCH" ELSE a.status
         \/ a.status \in Active /\ b.status = "ERROR",
         b.failures = a.failures,
         (b.lease = a.lease /\ b.ttl = a.ttl /\ b.lapsed = a.lapsed) \/ b.lease = 0
  PROVE  Moves(a, b)
BY DEF Moves, Unbroken, Row, Statuses, Active, Terminal, HasTerminalOutcome

\* The row a settled outcome leaves.
LEMMA FinalizedMoves ==
  ASSUME NEW a \in Row
  PROVE  Moves(a, Finalized(a))
<1> DEFINE b == Finalized(a)
<1>1. b.status = a.status /\ b.failures = 0 /\ b.lease = 0
  BY DEF Finalized, ClearLease, Row
<1> HIDE DEF b
<1> QED BY <1>1, Limits DEF Moves, Unbroken, b

\* The row a failed claim leaves: a failure is counted before the limit is
\* compared, so what may run again is below it.
LEMMA FailMoves ==
  ASSUME TypeOK, NEW t \in Tasks, NEW phase \in Runnable, NEW e \in Failures, row[t].lease # 0
  PROVE  Moves(row[t], FailRow(t, phase, e))
<1> DEFINE r == [row[t] EXCEPT !.failures = @ + 1]
           f == FailedRow(r)
           g == RetryRow(r, phase)
<1>1. row[t] \in Row
  BY DEF TypeOK
<1>2. r \in Row /\ r.status = row[t].status
  BY <1>1 DEF Row
<1>3. CASE row[t].status = "SUCCESS"
  <2>1. FailRow(t, phase, e) = Finalized(row[t])
    BY <1>3 DEF FailRow
  <2> QED BY <1>1, <2>1, FinalizedMoves
<1>4. CASE row[t].status # "SUCCESS" /\ CanRetry(r, phase, e)
  <2>1. FailRow(t, phase, e) = g
    BY <1>4 DEF FailRow
  <2>2. r.failures < Limit(e) /\ r.failures \in Nat
    BY <1>2, <1>4 DEF CanRetry, Row
  <2> HIDE DEF r
  <2>3. g.failures = r.failures /\ g.lease = 0 /\ g.status # "EXEC"
    BY <1>2 DEF RetryRow, ClearLease, Row
  <2>4. g.failures < MaxLimit
    BY <2>2, <2>3, Limits
  <2> HIDE DEF g
  <2> QED BY <1>4, <2>1, <2>3, <2>4 DEF Moves, Unbroken, HasTerminalOutcome
<1>5. CASE row[t].status # "SUCCESS" /\ ~CanRetry(r, phase, e)
  <2>1. FailRow(t, phase, e) = f
    BY <1>5 DEF FailRow
  <2> HIDE DEF r
  <2>2. f.lease = 0 /\ f.status = "ERROR"
    BY <1>2 DEF FailedRow, ClearLease, Row
  <2> HIDE DEF f
  <2> QED BY <1>5, <2>1, <2>2 DEF Moves, Unbroken, HasTerminalOutcome, Terminal
<1> QED BY <1>3, <1>4, <1>5

-----------------------------------------------------------------------------
(* The copies                                                                *)

\* No copy of t is fresh once its revision is bumped, but the one that the
\* writer itself keeps.
LEMMA StalePutCopies ==
  ASSUME TypeOK, NEW t \in Tasks, NEW p \in Procs, NEW w,
         w.fresh => CurrentCopy(w, row'[t]),
         run' = [Stale(t) EXCEPT ![p][t] = w]
  PROVE  CopiesOf(t)
<1>1. Stale(t) = [q \in Procs |-> [run[q] EXCEPT ![t].fresh = FALSE]]
  BY DEF Stale
<1>2. \A q \in Procs : Stale(t)[q] \in [Tasks -> Run] /\ ~Stale(t)[q][t].fresh
  BY StaleFacts
<1>3. run'[p][t] = w
  BY <1>1, <1>2
<1>4. \A q \in Procs : q # p => run'[q][t] = Stale(t)[q][t]
  BY <1>1, <1>2
<1> QED BY <1>2, <1>3, <1>4 DEF CopiesOf

\* No copy of t is fresh after a write by no worker of t.
LEMMA StaleCopies ==
  ASSUME TypeOK, NEW t \in Tasks, run' = Stale(t)
  PROVE  CopiesOf(t)
BY StaleFacts DEF CopiesOf

\* A step on one run that writes no row.
LEMMA RunPutCopies ==
  ASSUME TypeOK, Current, NEW t \in Tasks, NEW p \in Procs, NEW w,
         w.fresh => CurrentCopy(w, row[t]),
         run' = [run EXCEPT ![p][t] = w], UNCHANGED row
  PROVE  CopiesOf(t)
<1>1. run'[p][t] = w
  BY DEF TypeOK
<1>2. \A q \in Procs : q # p => run'[q][t] = run[q][t]
  BY DEF TypeOK
<1> QED BY <1>1, <1>2 DEF CopiesOf, Current

\* A step on the row that is no ORM write: a renewal, or the clock.
LEMMA SameCopies ==
  ASSUME TypeOK, Current, NEW t \in Tasks, UNCHANGED run,
         row'[t].status = row[t].status, row'[t].reasons = row[t].reasons,
         row'[t].deleted = row[t].deleted
  PROVE  CopiesOf(t)
BY DEF CopiesOf, Current, CurrentCopy, Paused

\* The local cancellation of a command.
LEMMA LocalCancelCopies ==
  ASSUME TypeOK, Current, NEW t \in Tasks, NEW p \in Procs, run' = LocalCancel(p, t)
  PROVE  CopiesOf(t)
<1> DEFINE v == run[p][t]
           w == CASE v.pc \in Working -> [v EXCEPT !.pc = "stopped", !.fresh = FALSE]
                  [] v.pc \in {"done", "failed"} -> IdleRun
                  [] OTHER -> v
<1>1. v \in Run
  BY Lookup
<1>2. ~w.fresh
  <2>1. CASE v.pc \in Working
    <3>1. w = [v EXCEPT !.pc = "stopped", !.fresh = FALSE]
      BY <2>1 DEF Working
    <3> QED BY <1>1, <3>1 DEF Run
  <2>2. CASE v.pc \in {"done", "failed"}
    <3>1. w = IdleRun
      BY <2>2 DEF Working
    <3> HIDE DEF w
    <3> QED BY <3>1 DEF IdleRun
  <2>3. CASE v.pc \notin Working /\ v.pc \notin {"done", "failed"}
    BY <2>3 DEF Current, CurrentCopy, Working
  <2> QED BY <2>1, <2>2, <2>3
<1>3. run' = [Stale(t) EXCEPT ![p][t] = w]
  BY DEF LocalCancel
<1> HIDE DEF w
<1> QED BY <1>2, <1>3, StalePutCopies

\* A step that only moves a run on, whose copy is not fresh afterwards.
LEMMA OnwardCopies ==
  ASSUME TypeOK, Current, NEW t \in Tasks, NEW p \in Procs, NEW pc, NEW e, UNCHANGED row,
         \/ run[p][t].pc \notin {"loaded", "routed"} /\ Goto(p, t, pc)
         \/ /\ ~run[p][t].fresh
            /\ run' = [run EXCEPT ![p][t] = [@ EXCEPT !.pc = pc, !.exc = e]]
         \/ run' = [run EXCEPT ![p][t] = [@ EXCEPT !.pc = pc, !.fresh = FALSE, !.exc = e]]
         \/ run' = [run EXCEPT ![p][t] = [@ EXCEPT !.pc = pc, !.fresh = FALSE]]
         \/ Abandon(p, t)
  PROVE  CopiesOf(t) /\ RowMoves(t)
<1> DEFINE v == run[p][t]
<1>1. v \in Run /\ row[t] \in Row
  BY Lookup
<1>2. PICK w : ~w.fresh /\ run' = [run EXCEPT ![p][t] = w]
  <2>1. CASE v.pc \notin {"loaded", "routed"} /\ Goto(p, t, pc)
    <3>1. run' = [run EXCEPT ![p][t] = [v EXCEPT !.pc = pc]]
      BY <2>1 DEF Goto
    <3>2. ~v.fresh
      BY <2>1 DEF Current, CurrentCopy
    <3>3. ~[v EXCEPT !.pc = pc].fresh
      BY <1>1, <3>2 DEF Run
    <3> QED BY <3>1, <3>3
  <2>2. CASE ~v.fresh /\ run' = [run EXCEPT ![p][t] = [@ EXCEPT !.pc = pc, !.exc = e]]
    <3>1. ~[v EXCEPT !.pc = pc, !.exc = e].fresh
      BY <1>1, <2>2 DEF Run
    <3> QED BY <2>2, <3>1
  <2>3. CASE run' = [run EXCEPT ![p][t] = [@ EXCEPT !.pc = pc, !.fresh = FALSE, !.exc = e]]
    <3>1. ~[v EXCEPT !.pc = pc, !.fresh = FALSE, !.exc = e].fresh
      BY <1>1 DEF Run
    <3> QED BY <2>3, <3>1
  <2>4. CASE run' = [run EXCEPT ![p][t] = [@ EXCEPT !.pc = pc, !.fresh = FALSE]]
    <3>1. ~[v EXCEPT !.pc = pc, !.fresh = FALSE].fresh
      BY <1>1 DEF Run
    <3> QED BY <2>4, <3>1
  <2>5. CASE Abandon(p, t)
    <3>1. ~IdleRun.fresh
      BY DEF IdleRun
    <3> QED BY <2>5, <3>1 DEF Abandon
  <2> QED BY <2>1, <2>2, <2>3, <2>4, <2>5
<1>3. CopiesOf(t)
  BY <1>2, RunPutCopies
<1>4. row' = [row EXCEPT ![t] = row[t]]
  BY DEF TypeOK
<1>5. Moves(row[t], row[t])
  BY <1>1, SameMoves
<1> QED BY <1>1, <1>3, <1>4, <1>5 DEF RowMoves

\* A save: a fresh copy is the row as it is, so the save starts what is not
\* held and reopens nothing; a stale one writes nothing.
LEMMA SaveMoves ==
  ASSUME TypeOK, Current, NEW p \in Procs, NEW t \in Tasks, NEW r \in Row, NEW pc,
         run[p][t].fresh => Moves(row[t], r), pc = "routed" => r = row[t],
         Save(p, t, r, pc)
  PROVE  RowMoves(t) /\ CopiesOf(t)
<1> DEFINE v == Stale(t)[p][t]
           w == [v EXCEPT !.pc = pc, !.fresh = (pc = "routed")]
<1>1. CASE run[p][t].fresh
  <2>1. row' = [row EXCEPT ![t] = r] /\ run' = [Stale(t) EXCEPT ![p][t] = w]
    BY <1>1 DEF Save
  <2>2. v \in Run /\ v.phase = run[p][t].phase
    BY Lookup, StaleFacts
  <2>3. w.fresh = (pc = "routed") /\ w.pc = pc /\ w.phase = run[p][t].phase
    <3> HIDE DEF v
    <3> QED BY <2>2 DEF Run
  <2>4. CurrentCopy(run[p][t], row[t])
    BY <1>1 DEF Current
  <2>5. row'[t] = r
    BY <2>1 DEF TypeOK
  <2> HIDE DEF w
  <2>6. w.fresh => CurrentCopy(w, row'[t])
    BY <2>3, <2>4, <2>5 DEF CurrentCopy
  <2>7. RowMoves(t)
    BY <1>1, <2>1 DEF RowMoves
  <2> QED BY <2>1, <2>6, <2>7, StalePutCopies
<1>2. CASE ~run[p][t].fresh
  <2>1. UNCHANGED row
        /\ run' = [run EXCEPT ![p][t] = [@ EXCEPT !.pc = "failed", !.exc = "ordinary"]]
    BY <1>2 DEF Save
  <2> QED BY <1>2, <2>1, OnwardCopies
<1> QED BY <1>1, <1>2
-----------------------------------------------------------------------------
(* The steps                                                                 *)

\* A step that writes the row of t and bumps its revision.
LEMMA WriteMoves ==
  ASSUME TypeOK, Current, NEW t \in Tasks, NEW r \in Row, row' = [row EXCEPT ![t] = r],
         Moves(row[t], r),
         \/ run' = Stale(t)
         \/ \E p \in Procs : run' = LocalCancel(p, t)
         \/ \E p \in Procs : \E w : ~w.fresh /\ run' = [Stale(t) EXCEPT ![p][t] = w]
  PROVE  RowMoves(t) /\ CopiesOf(t)
<1>1. RowMoves(t)
  BY DEF RowMoves
<1>2. CASE run' = Stale(t)
  BY <1>1, <1>2, StaleCopies
<1>3. ASSUME NEW p \in Procs, run' = LocalCancel(p, t) PROVE CopiesOf(t)
  BY <1>3, LocalCancelCopies
<1>4. ASSUME NEW p \in Procs, NEW w, ~w.fresh, run' = [Stale(t) EXCEPT ![p][t] = w]
      PROVE  CopiesOf(t)
  BY <1>4, StalePutCopies
<1> QED BY <1>1, <1>2, <1>3, <1>4

\* Settling or abandoning a claim.
LEMMA SettleMoves ==
  ASSUME TypeOK, Current, NEW p \in Procs, NEW t \in Tasks, NEW r \in Row, NEW x,
         (Moves(row[t], r) /\ Settle(p, t, r, x)) \/ Abandon(p, t)
  PROVE  RowMoves(t) /\ CopiesOf(t)
<1>1. ~IdleRun.fresh
  BY DEF IdleRun
<1>2. CASE Moves(row[t], r) /\ Settle(p, t, r, x)
  BY <1>1, <1>2, WriteMoves DEF Settle
<1>3. CASE Abandon(p, t)
  BY <1>3, OnwardCopies DEF Abandon
<1> QED BY <1>2, <1>3

\* The action's first steps: it loads its row, routes it and starts it.
LEMMA ActionMoves ==
  ASSUME TypeOK, Current, NEW p \in Procs, NEW t \in Tasks,
         Load(p, t) \/ RouteTrace(p, t) \/ Route(p, t) \/ StartExecution(p, t)
  PROVE  RowMoves(t) /\ CopiesOf(t)
<1>r. row[t] \in Row /\ run[p][t] \in Run
  BY Lookup
<1>c. run[p][t].fresh => CurrentCopy(run[p][t], row[t])
  BY DEF Current
<1>p. run[p][t].phase \in Runnable
  BY <1>r DEF Run
<1>1. CASE Load(p, t)
  <2> DEFINE w == [run[p][t] EXCEPT !.pc = "loaded", !.view = row[t].lease, !.fresh = TRUE]
  <2>1. w.pc = "loaded" /\ w.phase = run[p][t].phase
    BY <1>r DEF Run
  <2>2. UNCHANGED row /\ run[p][t].pc = "claimed"
    BY <1>1 DEF Load
  <2>3. \/ /\ row[t].status = run[p][t].phase /\ ~Paused(row[t]) /\ ~row[t].deleted
           /\ run' = [run EXCEPT ![p][t] = w]
        \/ Goto(p, t, "done")
    BY <1>1 DEF Load
  <2> HIDE DEF w
  <2>4. CASE /\ row[t].status = run[p][t].phase /\ ~Paused(row[t]) /\ ~row[t].deleted
             /\ run' = [run EXCEPT ![p][t] = w]
    <3>1. CurrentCopy(w, row[t])
      BY <2>1, <2>4 DEF CurrentCopy
    <3>2. CopiesOf(t)
      BY <2>2, <2>4, <3>1, RunPutCopies
    <3>3. row' = [row EXCEPT ![t] = row[t]]
      BY <2>2 DEF TypeOK
    <3>4. Moves(row[t], row[t])
      BY <1>r, SameMoves
    <3> QED BY <1>r, <3>2, <3>3, <3>4 DEF RowMoves
  <2>5. CASE Goto(p, t, "done")
    BY <2>2, <2>5, OnwardCopies
  <2> QED BY <2>3, <2>4, <2>5
<1>2. CASE RouteTrace(p, t)
  <2> DEFINE x == [row[t] EXCEPT !.status = "ERROR", !.reasons = {}]
  <2>1. x \in Row /\ x.status = "ERROR" /\ x.failures = row[t].failures
        /\ x.lease = row[t].lease /\ x.ttl = row[t].ttl /\ x.lapsed = row[t].lapsed
    BY <1>r DEF Row, Statuses
  <2>2. Save(p, t, row[t], "routed") \/ Save(p, t, x, "done")
    BY <1>2 DEF RouteTrace
  <2> HIDE DEF x
  <2>3. Moves(row[t], row[t])
    BY <1>r, SameMoves
  <2>4. run[p][t].fresh => row[t].status \in Active
    BY <1>c, <1>p DEF CurrentCopy, Runnable, Active, Statuses, Terminal
  <2>5. run[p][t].fresh => Moves(row[t], x)
    BY <1>r, <2>1, <2>4, InterruptMoves
  <2> QED BY <1>r, <2>1, <2>2, <2>3, <2>5, SaveMoves
<1>3. ASSUME NEW s \in {"DISPATCH", "EXEC"}, NEW pc \in {"done", "started"},
             Save(p, t, [row[t] EXCEPT !.status = s], pc)
      PROVE  RowMoves(t) /\ CopiesOf(t)
  <2> DEFINE x == [row[t] EXCEPT !.status = s]
  <2>1. x \in Row /\ x.status = s /\ x.failures = row[t].failures
        /\ x.lease = row[t].lease /\ x.ttl = row[t].ttl /\ x.lapsed = row[t].lapsed
    BY <1>r DEF Row, Statuses
  <2>2. Save(p, t, x, pc)
    BY <1>3
  <2> HIDE DEF x
  <2>3. run[p][t].fresh => ~Paused(row[t]) /\ row[t].status \in Active
    BY <1>c, <1>p DEF CurrentCopy, Runnable, Active, Statuses, Terminal
  <2>4. run[p][t].fresh => Moves(row[t], x)
    BY <2>1, <2>3 DEF Moves, Unbroken, HasTerminalOutcome, Active, Terminal
  <2> QED BY <2>1, <2>2, <2>4, SaveMoves
<1>4. CASE Route(p, t)
  BY <1>3, <1>4 DEF Route
<1>5. CASE StartExecution(p, t)
  BY <1>3, <1>5 DEF StartExecution
<1> QED BY <1>1, <1>2, <1>4, <1>5

\* The execution: admission, checkpoints and the result, which check the row
\* they write and not the copy that was loaded.
LEMMA ExecutionMoves ==
  ASSUME TypeOK, Current, NEW p \in Procs, NEW t \in Tasks,
         \/ Activate(p, t) \/ SaveCheckpoint(p, t) \/ DriverReturns(p, t)
         \/ ActionRaises(p, t) \/ FinishExecution(p, t) \/ FinishRejected(p, t)
  PROVE  RowMoves(t) /\ CopiesOf(t)
<1>r. row[t] \in Row /\ run[p][t] \in Run /\ Stale(t)[p][t] \in Run
  BY Lookup
<1>c. run[p][t].fresh => run[p][t].pc \in {"loaded", "routed"}
  BY DEF Current, CurrentCopy
<1>s. ~Stale(t)[p][t].fresh
  BY StaleFacts
<1>d. ASSUME NEW pc PROVE ~[Stale(t)[p][t] EXCEPT !.pc = pc].fresh
  BY <1>r, <1>s DEF Run
<1>1. CASE Activate(p, t)
  <2> DEFINE x == [row[t] EXCEPT !.receipt = IF @ = "resumable" THEN "resumable" ELSE "admitted"]
             w == [Stale(t)[p][t] EXCEPT !.pc = "driver"]
  <2>1. x \in Row /\ x.status = row[t].status /\ x.failures = row[t].failures
        /\ x.lease = row[t].lease /\ x.ttl = row[t].ttl /\ x.lapsed = row[t].lapsed
    BY <1>r DEF Row, Receipts
  <2>2. ~w.fresh
    BY <1>d
  <2>3. /\ run[p][t].pc \notin {"loaded", "routed"}
        /\ \/ UNCHANGED row /\ Goto(p, t, "driver")
           \/ UNCHANGED row /\ Goto(p, t, "stopped")
           \/ row' = [row EXCEPT ![t] = x] /\ run' = [Stale(t) EXCEPT ![p][t] = w]
    BY <1>1 DEF Activate
  <2> HIDE DEF x, w
  <2>4. CASE UNCHANGED row /\ (Goto(p, t, "driver") \/ Goto(p, t, "stopped"))
    BY <2>3, <2>4, OnwardCopies
  <2>5. CASE row' = [row EXCEPT ![t] = x] /\ run' = [Stale(t) EXCEPT ![p][t] = w]
    <3>1. Moves(row[t], x)
      BY <1>r, <2>1, SameMoves
    <3> QED BY <2>1, <2>2, <2>5, <3>1, WriteMoves
  <2> QED BY <2>3, <2>4, <2>5
<1>2. CASE SaveCheckpoint(p, t)
  <2>1. /\ run[p][t].pc = "driver"
        /\ \/ UNCHANGED row /\ Goto(p, t, "stopped")
           \/ UNCHANGED row /\ run' = [run EXCEPT ![p][t] = [@ EXCEPT !.pc = "failed", !.exc = "ordinary"]]
           \/ \E c \in {"resumable", "admitted"} :
                row' = [row EXCEPT ![t] = [row[t] EXCEPT !.receipt = c]] /\ run' = Stale(t)
    BY <1>2 DEF SaveCheckpoint
  <2>2. CASE UNCHANGED row /\ Goto(p, t, "stopped")
    BY <2>1, <2>2, OnwardCopies
  <2>4. CASE UNCHANGED row /\ run' = [run EXCEPT ![p][t] = [@ EXCEPT !.pc = "failed", !.exc = "ordinary"]]
    <3>1. ~run[p][t].fresh
      BY <1>c, <2>1
    <3> QED BY <2>4, <3>1, OnwardCopies
  <2>3. ASSUME NEW c \in {"resumable", "admitted"},
               row' = [row EXCEPT ![t] = [row[t] EXCEPT !.receipt = c]], run' = Stale(t)
        PROVE  RowMoves(t) /\ CopiesOf(t)
    <3> DEFINE x == [row[t] EXCEPT !.receipt = c]
    <3>1. x \in Row /\ x.status = row[t].status /\ x.failures = row[t].failures
          /\ x.lease = row[t].lease /\ x.ttl = row[t].ttl /\ x.lapsed = row[t].lapsed
      BY <1>r DEF Row, Receipts
    <3>2. row' = [row EXCEPT ![t] = x]
      BY <2>3
    <3> HIDE DEF x
    <3>3. Moves(row[t], x)
      BY <1>r, <3>1, SameMoves
    <3> QED BY <2>3, <3>1, <3>2, <3>3, WriteMoves
  <2> QED BY <2>1, <2>2, <2>3, <2>4
<1>3. CASE DriverReturns(p, t)
  <2>1. UNCHANGED row /\ run[p][t].pc \notin {"loaded", "routed"} /\ Goto(p, t, "result")
    BY <1>3 DEF DriverReturns
  <2> QED BY <2>1, OnwardCopies
<1>4. CASE ActionRaises(p, t)
  <2>1. UNCHANGED row
    BY <1>4 DEF ActionRaises
  <2>2. PICK e \in Failures :
          run' = [run EXCEPT ![p][t] = [@ EXCEPT !.pc = "failed", !.fresh = FALSE, !.exc = e]]
    BY <1>4 DEF ActionRaises
  <2> QED BY <2>1, <2>2, OnwardCopies
<1>5. CASE FinishExecution(p, t)
  <2> DEFINE w == [Stale(t)[p][t] EXCEPT !.pc = "done"]
             y == Interrupt(row[t])
  <2>1. PICK x \in Outcomes(row[t]) : row' = [row EXCEPT ![t] = x]
    BY <1>5 DEF FinishExecution
  <2>2. ~w.fresh /\ run' = [Stale(t) EXCEPT ![p][t] = w]
    BY <1>5, <1>d DEF FinishExecution
  <2> HIDE DEF w
  <2>3. y \in Row /\ y.status = (IF row[t].status = "EXEC" THEN "DISPATCH" ELSE row[t].status)
        /\ y.failures = row[t].failures /\ y.lease = row[t].lease /\ y.ttl = row[t].ttl /\ y.lapsed = row[t].lapsed
    BY <1>r DEF Interrupt, Row, Statuses
  <2>4. \A k \in BOOLEAN : ReceiptAfter(row[t], k) \subseteq Receipts
    BY DEF ReceiptAfter, Receipts
  <2>5. PICK c \in Receipts :
          \/ row[t].status = "EXEC" /\ x = [row[t] EXCEPT !.status = "SUCCESS", !.reasons = {}, !.receipt = c]
          \/ row[t].status = "EXEC" /\ x = [row[t] EXCEPT !.status = "ERROR", !.reasons = {}, !.receipt = c]
          \/ row[t].status = "EXEC" /\ x = [row[t] EXCEPT !.status = "DISPATCH", !.reasons = {"child"}, !.receipt = c]
          \/ x = [y EXCEPT !.reasons = @ \cup {"approval"}, !.receipt = c]
    BY <2>1, <2>4, Zenon DEF Outcomes
  <2> HIDE DEF y
  <2>6. CASE x = [y EXCEPT !.reasons = @ \cup {"approval"}, !.receipt = c]
    <3>1. x \in Row /\ x.status = y.status /\ x.failures = y.failures
          /\ x.lease = y.lease /\ x.ttl = y.ttl /\ x.lapsed = y.lapsed
      BY <2>3, <2>6 DEF Row, Reasons
    <3>2. Moves(row[t], x)
      BY <1>r, <2>3, <3>1, InterruptMoves
    <3> QED BY <2>1, <2>2, <3>1, <3>2, WriteMoves
  <2>7. ASSUME NEW s \in {"SUCCESS", "ERROR", "DISPATCH"}, NEW rs \in {{}, {"child"}},
               row[t].status = "EXEC",
               x = [row[t] EXCEPT !.status = s, !.reasons = rs, !.receipt = c]
        PROVE  RowMoves(t) /\ CopiesOf(t)
    <3>1. x \in Row /\ x.status = s /\ x.failures = row[t].failures
          /\ x.lease = row[t].lease /\ x.ttl = row[t].ttl /\ x.lapsed = row[t].lapsed
      BY <1>r, <2>7 DEF Row, Reasons, Statuses
    <3>2. Moves(row[t], x)
      BY <2>7, <3>1 DEF Moves, Unbroken, HasTerminalOutcome, Terminal, Active, Statuses
    <3> QED BY <2>1, <2>2, <3>1, <3>2, WriteMoves
  <2>8. CASE row[t].status = "EXEC" /\ x = [row[t] EXCEPT !.status = "SUCCESS", !.reasons = {}, !.receipt = c]
    BY <2>7, <2>8
  <2>9. CASE row[t].status = "EXEC" /\ x = [row[t] EXCEPT !.status = "ERROR", !.reasons = {}, !.receipt = c]
    BY <2>7, <2>9
  <2>10. CASE row[t].status = "EXEC" /\ x = [row[t] EXCEPT !.status = "DISPATCH", !.reasons = {"child"}, !.receipt = c]
    BY <2>7, <2>10
  <2> QED BY <2>5, <2>6, <2>8, <2>9, <2>10
<1>6. CASE FinishRejected(p, t)
  <2>1. UNCHANGED row /\ ~run[p][t].fresh
        /\ run' = [run EXCEPT ![p][t] = [@ EXCEPT !.pc = "failed", !.exc = "ordinary"]]
    BY <1>6, <1>c DEF FinishRejected
  <2> QED BY <2>1, OnwardCopies
<1> QED BY <1>1, <1>2, <1>3, <1>4, <1>5, <1>6
\* The transactions that settle a claim, renew it or give it up.
LEMMA ClaimEndMoves ==
  ASSUME TypeOK, Ownership, Current, NEW p \in Procs, NEW t \in Tasks,
         \/ CompleteClaim(p, t) \/ FailClaim(p, t) \/ ReleaseCancelled(p, t)
         \/ ReleaseUnstarted(p, t) \/ SkipLocked(p, t)
         \/ Heartbeat(p, t) \/ LoseLease(p, t) \/ StopAction(p, t)
  PROVE  RowMoves(t) /\ CopiesOf(t)
<1>r. row[t] \in Row /\ run[p][t] \in Run
  BY Lookup
<1>c. run[p][t].fresh => run[p][t].pc \in {"loaded", "routed"}
  BY DEF Current, CurrentCopy
<1>1. CASE CompleteClaim(p, t)
  <2>1. Finalized(row[t]) \in Row /\ Moves(row[t], Finalized(row[t]))
    BY <1>r, RowOperators, FinalizedMoves DEF Runnable
  <2>2. \/ Settle(p, t, Finalized(row[t]), FinalStatus(row[t]))
        \/ Abandon(p, t)
        \/ /\ UNCHANGED row /\ ~run[p][t].fresh
           /\ \E e \in Failures :
                run' = [run EXCEPT ![p][t] = [@ EXCEPT !.pc = "failed", !.exc = e]]
    BY <1>1, <1>c DEF CompleteClaim, Failures
  <2>3. CASE Settle(p, t, Finalized(row[t]), FinalStatus(row[t])) \/ Abandon(p, t)
    BY <2>1, <2>3, SettleMoves
  <2>4. CASE /\ UNCHANGED row /\ ~run[p][t].fresh
             /\ \E e \in Failures :
                  run' = [run EXCEPT ![p][t] = [@ EXCEPT !.pc = "failed", !.exc = e]]
    <3>1. PICK e \in Failures :
            run' = [run EXCEPT ![p][t] = [@ EXCEPT !.pc = "failed", !.exc = e]]
      BY <2>4
    <3> QED BY <2>4, <3>1, OnwardCopies
  <2> QED BY <2>2, <2>3, <2>4
<1>2. CASE FailClaim(p, t)
  <2> DEFINE x == FailRow(t, run[p][t].phase, run[p][t].exc)
             y == FailStatus(t, run[p][t].phase, run[p][t].exc)
  <2>1. run[p][t].phase \in Runnable /\ run[p][t].exc \in Failures
    BY <1>r DEF Run
  <2>2. run[p][t].pc # "idle" /\ ((Owns(p, t) /\ Settle(p, t, x, y)) \/ Abandon(p, t))
    BY <1>2 DEF FailClaim
  <2>3. x \in Row
    BY <2>1, FailRowType
  <2>4. Owns(p, t) => row[t].lease # 0
    BY <2>2 DEF Owns, Ownership
  <2>5. Owns(p, t) => Moves(row[t], x)
    BY <2>1, <2>4, FailMoves
  <2> HIDE DEF x, y
  <2> QED BY <2>2, <2>3, <2>5, SettleMoves
<1>3. CASE ReleaseCancelled(p, t)
  <2> DEFINE z == [Interrupt(row[t]) EXCEPT !.backoff = FALSE]
             x == ClearLease(z)
  <2>1. z \in Row /\ z.failures = row[t].failures
        /\ z.status = (IF row[t].status = "EXEC" THEN "DISPATCH" ELSE row[t].status)
    BY <1>r DEF Interrupt, Row, Statuses
  <2>2. x \in Row /\ x.failures = z.failures /\ x.status = z.status /\ x.lease = 0
    <3> HIDE DEF z
    <3> QED BY <2>1, RowOperators DEF Runnable, ClearLease, Row
  <2>3. Settle(p, t, x, "CANCELLED") \/ Abandon(p, t)
    BY <1>3 DEF ReleaseCancelled
  <2> HIDE DEF x, z
  <2>4. Moves(row[t], x)
    BY <1>r, <2>1, <2>2, InterruptMoves
  <2> QED BY <2>2, <2>3, <2>4, SettleMoves
<1>4. CASE ReleaseUnstarted(p, t)
  <2> DEFINE x == ClearLease(row[t])
  <2>1. x \in Row
    BY <1>r, RowOperators DEF Runnable
  <2>2. x.failures = row[t].failures /\ x.status = row[t].status /\ x.lease = 0
    BY <1>r DEF ClearLease, Row
  <2>3. Settle(p, t, x, "CANCELLED") \/ Abandon(p, t)
    BY <1>4 DEF ReleaseUnstarted
  <2> HIDE DEF x
  <2>4. Moves(row[t], x)
    BY <1>r, <2>1, <2>2, SameMoves
  <2> QED BY <2>1, <2>3, <2>4, SettleMoves
<1>5. CASE SkipLocked(p, t)
  BY <1>5, OnwardCopies DEF SkipLocked, Abandon
<1>6. CASE Heartbeat(p, t)
  <2>0. PICK n \in 1 .. LeaseTicks : row' = [row EXCEPT ![t].ttl = n]
    BY <1>6 DEF Heartbeat
  <2> DEFINE x == [row[t] EXCEPT !.ttl = n]
  <2>1. x \in Row /\ x.status = row[t].status /\ x.failures = row[t].failures
        /\ x.lease = row[t].lease /\ x.lapsed = row[t].lapsed /\ x.ttl > 0
        /\ x.reasons = row[t].reasons /\ x.deleted = row[t].deleted
    BY <1>r, Bounds DEF Row
  <2>2. row' = [row EXCEPT ![t] = x] /\ UNCHANGED run
    BY <1>6, <2>0 DEF Heartbeat
  <2> HIDE DEF x
  <2>4. Moves(row[t], x)
    BY <1>r, <2>1, SameMoves
  <2>5. row'[t] = x
    BY <2>2 DEF TypeOK
  <2>6. CopiesOf(t)
    BY <2>1, <2>2, <2>5, SameCopies
  <2> QED BY <2>1, <2>2, <2>4, <2>6 DEF RowMoves
<1>7. CASE LoseLease(p, t) \/ StopAction(p, t)
  <2>1. UNCHANGED row
        /\ run' = [run EXCEPT ![p][t] = [@ EXCEPT !.pc = "stopped", !.fresh = FALSE]]
    BY <1>7 DEF LoseLease, StopAction
  <2> QED BY <2>1, OnwardCopies
<1> QED BY <1>1, <1>2, <1>3, <1>4, <1>5, <1>6, <1>7

\* The commands.
LEMMA CommandMoves ==
  ASSUME TypeOK, Current, NEW p \in Procs, NEW t \in Tasks, Command(p, t)
  PROVE  RowMoves(t) /\ CopiesOf(t)
<1>r. row[t] \in Row
  BY Lookup
<1>w. ASSUME NEW x \in Row, Moves(row[t], x), row' = [row EXCEPT ![t] = x],
             run' = LocalCancel(p, t)
      PROVE  RowMoves(t) /\ CopiesOf(t)
  BY <1>w, WriteMoves
<1>i. ASSUME NEW local \in BOOLEAN
      PROVE  LET x == Interrupted(row[t], local)
             IN /\ x \in Row /\ x.failures = row[t].failures
                /\ x.status = (IF row[t].status = "EXEC" THEN "DISPATCH" ELSE row[t].status)
                /\ x.lease = row[t].lease /\ x.ttl = row[t].ttl /\ x.lapsed = row[t].lapsed
  <2> DEFINE y == Interrupt(row[t])
  <2>1. y \in Row /\ y.failures = row[t].failures
        /\ y.status = (IF row[t].status = "EXEC" THEN "DISPATCH" ELSE row[t].status)
        /\ y.lease = row[t].lease /\ y.ttl = row[t].ttl /\ y.lapsed = row[t].lapsed
    BY <1>r DEF Interrupt, Row, Statuses
  <2> HIDE DEF y
  <2>2. LET x == [y EXCEPT !.cancel = @ \/ ~local]
        IN x \in Row /\ x.failures = y.failures /\ x.status = y.status
           /\ x.lease = y.lease /\ x.ttl = y.ttl /\ x.lapsed = y.lapsed
    BY <2>1 DEF Row
  <2> QED BY <2>1, <2>2 DEF y, Interrupted
<1>1. CASE CancelTask(p, t)
  <2> DEFINE x == [row[t] EXCEPT !.status = "ERROR", !.cancel = (row[t].lease # 0),
                                 !.backoff = FALSE, !.reasons = {}]
  <2>1. x \in Row /\ x.failures = row[t].failures /\ x.status = "ERROR"
        /\ x.lease = row[t].lease /\ x.ttl = row[t].ttl /\ x.lapsed = row[t].lapsed
    BY <1>r DEF Row, Statuses
  <2>2. row' = [row EXCEPT ![t] = x] /\ run' = LocalCancel(p, t) /\ row[t].status \in Active
    BY <1>1 DEF CancelTask
  <2> HIDE DEF x
  <2>3. Moves(row[t], x)
    BY <1>r, <2>1, <2>2, InterruptMoves
  <2> QED BY <1>w, <2>1, <2>2, <2>3
<1>2. CASE PauseTask(p, t)
  <2> DEFINE y(local) == IF local \/ row[t].lease # 0 THEN Interrupted(row[t], local) ELSE row[t]
             x(local) == [y(local) EXCEPT !.reasons = @ \cup {"user"}]
  <2>1. ASSUME NEW local \in BOOLEAN
        PROVE  x(local) \in Row /\ Moves(row[t], x(local))
    <3> DEFINE z == y(local)
               v == [z EXCEPT !.reasons = @ \cup {"user"}]
    <3>1. /\ z \in Row /\ z.failures = row[t].failures
          /\ z.status = (IF row[t].status = "EXEC" THEN "DISPATCH" ELSE row[t].status)
             \/ z.status = row[t].status
          /\ z.lease = row[t].lease /\ z.ttl = row[t].ttl /\ z.lapsed = row[t].lapsed
      BY <1>i, <1>r
    <3> HIDE DEF z
    <3>2. v \in Row /\ v.failures = z.failures /\ v.status = z.status
          /\ v.lease = z.lease /\ v.ttl = z.ttl /\ v.lapsed = z.lapsed
      BY <3>1 DEF Row, Reasons
    <3> HIDE DEF v
    <3>3. Moves(row[t], v)
      BY <1>r, <3>1, <3>2, InterruptMoves, SameMoves
    <3> QED BY <3>2, <3>3 DEF v, z
  <2>2. \A queued \in BOOLEAN : CancelledLocally(p, t, queued) \in BOOLEAN
    BY DEF CancelledLocally
  <2>3. PICK local \in BOOLEAN : row' = [row EXCEPT ![t] = x(local)]
    BY <1>2, <2>2 DEF PauseTask
  <2>4. run' = LocalCancel(p, t)
    BY <1>2 DEF PauseTask
  <2> HIDE DEF x
  <2> QED BY <1>w, <2>1, <2>3, <2>4
<1>3. CASE PreemptTask(p, t)
  <2> DEFINE x(local) == Interrupted(row[t], local)
  <2>1. \A queued \in BOOLEAN : CancelledLocally(p, t, queued) \in BOOLEAN
    BY DEF CancelledLocally
  <2>2. PICK local \in BOOLEAN : row' = [row EXCEPT ![t] = x(local)]
    BY <1>3, <2>1 DEF PreemptTask
  <2>3. run' = LocalCancel(p, t)
    BY <1>3 DEF PreemptTask
  <2>4. x(local) \in Row /\ Moves(row[t], x(local))
    BY <1>i, <1>r, InterruptMoves
  <2> HIDE DEF x
  <2> QED BY <1>w, <2>2, <2>3, <2>4
<1>t. LET y == TerminatedRow(row[t])
      IN /\ y \in Row /\ y.failures = row[t].failures /\ y.lease = 0
         /\ y.status = (IF row[t].status \in Terminal THEN row[t].status ELSE "ERROR")
  <2>1. TerminatedRow(row[t]) \in Row
    BY <1>r, RowOperators DEF Runnable
  <2> QED BY <1>r, <2>1 DEF TerminatedRow, ClearLease, Row
<1>m. ASSUME NEW x \in Row, x.failures = row[t].failures, x.lease = 0,
             x.status = (IF row[t].status \in Terminal THEN row[t].status ELSE "ERROR")
      PROVE  Moves(row[t], x)
  BY <1>r, <1>m DEF Moves, Unbroken, HasTerminalOutcome, Terminal
<1>5. CASE ForceTerminate(p, t)
  <2>1. row' = [row EXCEPT ![t] = TerminatedRow(row[t])] /\ run' = LocalCancel(p, t)
    BY <1>5 DEF ForceTerminate, Terminate
  <2> QED BY <1>w, <1>t, <1>m, <2>1
<1>6. CASE DeleteTask(p, t)
  <2> DEFINE y == TerminatedRow(row[t])
             x == [y EXCEPT !.deleted = TRUE]
  <2>1. row' = [row EXCEPT ![t] = x] /\ run' = LocalCancel(p, t)
    BY <1>6 DEF DeleteTask, Terminate
  <2>2. y \in Row
    BY <1>t
  <2>3. x \in Row /\ x.failures = y.failures /\ x.lease = y.lease /\ x.status = y.status
    <3> HIDE DEF y
    <3> QED BY <2>2 DEF Row
  <2> HIDE DEF x
  <2>4. Moves(row[t], x)
    BY <1>t, <1>m, <2>3
  <2> QED BY <1>w, <2>1, <2>3, <2>4
<1> QED BY <1>1, <1>2, <1>3, <1>5, <1>6 DEF Command
\* The retry command gives the Task a new budget and leaves its lease alone.
Retried(t) ==
  \E r \in Row :
    /\ row' = [row EXCEPT ![t] = r]
    /\ r.status = "DISPATCH" /\ r.failures = 0
    /\ r.lease = row[t].lease /\ r.ttl = row[t].ttl /\ r.lapsed = row[t].lapsed

\* It is a retry, and leaves no copy fresh.
LEMMA RetryTaskMoves ==
  ASSUME TypeOK, NEW t \in Tasks, RetryTask(t)
  PROVE  Retried(t) /\ CopiesOf(t)
<1> DEFINE x(c) == [row[t] EXCEPT !.status = "DISPATCH", !.reasons = {}, !.backoff = FALSE,
                                  !.failures = 0, !.cancel = FALSE, !.receipt = c]
<1>1. row[t] \in Row /\ row[t].receipt \in Receipts
  BY DEF TypeOK, Row
<1>2. RetryReceipts(row[t].receipt) \subseteq Receipts
  BY <1>1 DEF RetryReceipts, Receipts
<1>3. ASSUME NEW c \in Receipts
      PROVE  x(c) \in Row /\ x(c).status = "DISPATCH" /\ x(c).failures = 0
             /\ x(c).lease = row[t].lease /\ x(c).ttl = row[t].ttl /\ x(c).lapsed = row[t].lapsed
  BY <1>1 DEF Row, Statuses
<1>4. PICK c \in Receipts : row' = [row EXCEPT ![t] = x(c)]
  BY <1>2 DEF RetryTask
<1>5. run' = Stale(t)
  BY DEF RetryTask
<1> HIDE DEF x
<1>6. Retried(t)
  BY <1>3, <1>4 DEF Retried
<1> QED BY <1>5, <1>6, StaleCopies

\* The other steps that no process's memory takes part in.
LEMMA DurableMoves ==
  ASSUME TypeOK, Current, NEW t \in Tasks, Durable(t), ~RetryTask(t)
  PROVE  RowMoves(t) /\ CopiesOf(t)
<1>r. row[t] \in Row
  BY DEF TypeOK
<1>1. CASE ResumeTask(t) \/ RunTask(t) \/ FanIn(t)
  <2>1. ASSUME NEW rs \in SUBSET Reasons, row' = [row EXCEPT ![t] = [row[t] EXCEPT !.reasons = rs]],
               run' = Stale(t)
        PROVE  RowMoves(t) /\ CopiesOf(t)
    <3> DEFINE x == [row[t] EXCEPT !.reasons = rs]
    <3>1. x \in Row /\ x.status = row[t].status /\ x.failures = row[t].failures
          /\ x.lease = row[t].lease /\ x.ttl = row[t].ttl /\ x.lapsed = row[t].lapsed
      BY <1>r DEF Row
    <3>2. row' = [row EXCEPT ![t] = x]
      BY <2>1
    <3> HIDE DEF x
    <3>3. Moves(row[t], x)
      BY <1>r, <3>1, SameMoves
    <3> QED BY <2>1, <3>1, <3>2, <3>3, WriteMoves
  <2>2. row[t].reasons \in SUBSET Reasons
    BY <1>r DEF Row
  <2>3. \E rs \in SUBSET Reasons : row' = [row EXCEPT ![t] = [row[t] EXCEPT !.reasons = rs]]
    BY <1>1, <2>2 DEF ResumeTask, RunTask, FanIn
  <2>4. run' = Stale(t)
    BY <1>1 DEF ResumeTask, RunTask, FanIn
  <2> QED BY <2>1, <2>3, <2>4
<1>2. CASE WakeApproval(t)
  <2> DEFINE rs == row[t].reasons \ {"approval"}
             y == IF rs = {} THEN Interrupt(row[t]) ELSE row[t]
             x == [y EXCEPT !.reasons = rs]
  <2>1. /\ y \in Row /\ y.failures = row[t].failures
        /\ y.lease = row[t].lease /\ y.ttl = row[t].ttl /\ y.lapsed = row[t].lapsed
        /\ y.status = (IF row[t].status = "EXEC" THEN "DISPATCH" ELSE row[t].status)
           \/ y.status = row[t].status
    <3>1. Interrupt(row[t]) \in Row
      BY <1>r, RowOperators DEF Runnable
    <3>2. /\ Interrupt(row[t]).failures = row[t].failures
          /\ Interrupt(row[t]).lease = row[t].lease /\ Interrupt(row[t]).ttl = row[t].ttl
          /\ Interrupt(row[t]).lapsed = row[t].lapsed
          /\ Interrupt(row[t]).status = (IF row[t].status = "EXEC" THEN "DISPATCH" ELSE row[t].status)
      BY <1>r DEF Interrupt, Row
    <3> QED BY <1>r, <3>1, <3>2
  <2>2. rs \in SUBSET Reasons
    BY <1>r DEF Row
  <2>3. x \in Row /\ x.failures = y.failures /\ x.status = y.status
        /\ x.lease = y.lease /\ x.ttl = y.ttl /\ x.lapsed = y.lapsed
    <3> HIDE DEF y, rs
    <3> QED BY <2>1, <2>2 DEF Row
  <2>4. row' = [row EXCEPT ![t] = x] /\ run' = Stale(t)
    BY <1>2 DEF WakeApproval
  <2> HIDE DEF x, y
  <2>5. Moves(row[t], x)
    BY <1>r, <2>1, <2>3, InterruptMoves, SameMoves
  <2> QED BY <2>3, <2>4, <2>5, WriteMoves
<1>3. CASE RecoverExpired(t)
  <2> DEFINE x == FailRow(t, row[t].phase, "ordinary")
  <2>1. row[t].phase \in Runnable /\ "ordinary" \in Failures
    BY <1>r DEF Row, Failures
  <2>2. row[t].lease # 0 /\ row' = [row EXCEPT ![t] = x] /\ run' = Stale(t)
    BY <1>3 DEF RecoverExpired
  <2>3. x \in Row /\ Moves(row[t], x)
    BY <2>1, <2>2, FailRowType, FailMoves
  <2> HIDE DEF x
  <2> QED BY <2>2, <2>3, WriteMoves
<1>4. CASE RecoverOrphan(t)
  <2> DEFINE s == IF RetryIsSafe(row[t], "DISPATCH") THEN "DISPATCH" ELSE "ERROR"
             x == [row[t] EXCEPT !.status = s, !.backoff = FALSE]
  <2>1. x \in Row /\ x.failures = row[t].failures /\ x.status \in {"DISPATCH", "ERROR"}
        /\ x.lease = row[t].lease /\ x.ttl = row[t].ttl /\ x.lapsed = row[t].lapsed
    BY <1>r DEF Row, Statuses
  <2>2. row' = [row EXCEPT ![t] = x] /\ run' = Stale(t) /\ row[t].status = "EXEC"
    BY <1>4 DEF RecoverOrphan
  <2> HIDE DEF x
  <2>3. Moves(row[t], x)
    BY <2>1, <2>2 DEF Moves, Unbroken, HasTerminalOutcome, Active, Terminal, Statuses
  <2> QED BY <2>1, <2>2, <2>3, WriteMoves
<1>5. CASE Tick(t)
  <2> DEFINE l == row[t].lapsed \/ row[t].ttl = 1
             x == [row[t] EXCEPT !.ttl = row[t].ttl - 1, !.lapsed = l]
  <2>l. l \in BOOLEAN
    OBVIOUS
  <2>1. row[t].ttl \in 0 .. LeaseTicks /\ row[t].ttl > 0 /\ row[t].lease # 0
    BY <1>5, <1>r DEF Tick, Row
  <2>2. row[t].ttl - 1 \in 0 .. LeaseTicks
    BY <2>1, SchedulerAssumption DEF SchedulerAssumption
  <2>3. x \in Row /\ x.status = row[t].status /\ x.failures = row[t].failures
        /\ x.lease = row[t].lease /\ x.reasons = row[t].reasons /\ x.deleted = row[t].deleted
        /\ x.ttl = row[t].ttl - 1 /\ x.lapsed = l
    <3> HIDE DEF l
    <3> QED BY <1>r, <2>l, <2>2 DEF Row
  <2>4. row' = [row EXCEPT ![t] = x] /\ UNCHANGED run
    BY <1>5 DEF Tick
  <2> HIDE DEF x
  <2>5. Moves(row[t], x)
    <3>1. row[t].lapsed \in BOOLEAN
      BY <1>r DEF Row
    <3>2. CASE row[t].ttl = 1
      BY <1>r, <2>3, <3>2, SameMoves
    <3>3. CASE row[t].ttl # 1
      <4>1. x.ttl > 0
        BY <2>1, <2>3, <3>3
      <4>2. x.lapsed = row[t].lapsed
        BY <2>3, <3>1, <3>3
      <4> QED BY <1>r, <2>3, <4>1, <4>2, SameMoves
    <3> QED BY <3>2, <3>3
  <2>6. row'[t] = x
    BY <2>4 DEF TypeOK
  <2>7. CopiesOf(t)
    BY <2>3, <2>4, <2>6, SameCopies
  <2> QED BY <2>3, <2>4, <2>5, <2>7 DEF RowMoves
<1>6. CASE BackoffElapses(t)
  <2> DEFINE x == [row[t] EXCEPT !.backoff = FALSE]
  <2>1. x \in Row /\ x.status = row[t].status /\ x.failures = row[t].failures
        /\ x.lease = row[t].lease /\ x.ttl = row[t].ttl /\ x.lapsed = row[t].lapsed
        /\ x.reasons = row[t].reasons /\ x.deleted = row[t].deleted
    BY <1>r DEF Row
  <2>2. row' = [row EXCEPT ![t] = x] /\ UNCHANGED run
    BY <1>6 DEF BackoffElapses
  <2> HIDE DEF x
  <2>3. Moves(row[t], x)
    BY <1>r, <2>1, SameMoves
  <2>4. row'[t] = x
    BY <2>2 DEF TypeOK
  <2>5. CopiesOf(t)
    BY <2>1, <2>2, <2>4, SameCopies
  <2> QED BY <2>1, <2>2, <2>3, <2>5 DEF RowMoves
<1> QED BY <1>1, <1>2, <1>3, <1>4, <1>5, <1>6 DEF Durable

\* A claim changes neither status nor failures, and leaves no copy fresh.
LEMMA ClaimMoves ==
  ASSUME TypeOK, NEW p \in Procs, NEW t \in Tasks, Claim(p, t)
  PROVE  /\ \A u \in Tasks \ {t} : row'[u] = row[u]
         /\ row'[t].status = row[t].status /\ row'[t].failures = row[t].failures
         /\ \A q \in Procs : \A u \in Tasks \ {t} : run'[q][u] = run[q][u]
         /\ CopiesOf(t)
<1> DEFINE n == NextAttempt(row[t])
           w == [IdleRun EXCEPT !.pc = "claimed", !.token = n, !.phase = row[t].status]
           x == [row[t] EXCEPT !.claims = n, !.lease = n, !.ttl = LeaseTicks, !.lapsed = FALSE,
                   !.phase = row[t].status, !.backoff = FALSE, !.cancel = FALSE]
<1>1. row[t] \in Row
  BY DEF TypeOK
<1>2. row' = [row EXCEPT ![t] = x] /\ run' = [Stale(t) EXCEPT ![p][t] = w]
  BY DEF Claim
<1>3. x.status = row[t].status /\ x.failures = row[t].failures /\ ~w.fresh
  BY <1>1 DEF Row, IdleRun
<1> HIDE DEF x, w
<1>4. row'[t] = x /\ \A u \in Tasks \ {t} : row'[u] = row[u]
  BY <1>2 DEF TypeOK
<1>5. CopiesOf(t)
  BY <1>2, <1>3, StalePutCopies
<1>6. Stale(t) = [q \in Procs |-> [run[q] EXCEPT ![t].fresh = FALSE]]
      /\ \A q \in Procs : Stale(t)[q] \in [Tasks -> Run]
  BY StaleFacts DEF Stale
<1>7. \A q \in Procs, u \in Tasks : u # t => run'[q][u] = Stale(t)[q][u]
  BY <1>2, <1>6
<1>8. \A q \in Procs, u \in Tasks : u # t => Stale(t)[q][u] = run[q][u]
  BY StaleFacts
<1> QED BY <1>3, <1>4, <1>5, <1>7, <1>8

-----------------------------------------------------------------------------
(* One step                                                                  *)

\* A step on the Task t that is neither a claim nor a crash.
TaskStep(t) == (\E p \in Procs : Work(p, t) \/ Command(p, t)) \/ Durable(t)

\* Such a step moves the row of t, or retries it, and nothing else.
LEMMA TaskStepMoves ==
  ASSUME TypeOK, Ownership, Current, NEW t \in Tasks, TaskStep(t)
  PROVE  /\ RowMoves(t) \/ (RetryTask(t) /\ Retried(t))
         /\ \A u \in Tasks \ {t} : row'[u] = row[u]
         /\ \A q \in Procs : \A u \in Tasks \ {t} : run'[q][u] = run[q][u]
         /\ CopiesOf(t)
<1>1. ASSUME NEW p \in Procs, Work(p, t) PROVE RowMoves(t) /\ CopiesOf(t) /\ RunKeeps(t)
  BY <1>1, WorkKeeps, ActionMoves, ExecutionMoves, ClaimEndMoves DEF Work
<1>2. ASSUME NEW p \in Procs, Command(p, t) PROVE RowMoves(t) /\ CopiesOf(t) /\ RunKeeps(t)
  BY <1>2, CommandKeeps, CommandMoves
<1>3. CASE Durable(t) /\ ~RetryTask(t)
  <2>1. RowMoves(t) /\ CopiesOf(t)
    BY <1>3, DurableMoves
  <2> QED BY <1>3, <2>1, DurableKeeps DEF RowMoves, RunKeeps, TypeOK
<1>4. CASE Durable(t) /\ RetryTask(t)
  <2>1. Retried(t) /\ CopiesOf(t)
    BY <1>4, RetryTaskMoves
  <2> QED BY <1>4, <2>1, DurableKeeps DEF Retried, RunKeeps, TypeOK
<1>5. ASSUME RowMoves(t), CopiesOf(t), RunKeeps(t)
      PROVE  /\ RowMoves(t) /\ CopiesOf(t)
             /\ \A u \in Tasks \ {t} : row'[u] = row[u]
             /\ \A q \in Procs : \A u \in Tasks \ {t} : run'[q][u] = run[q][u]
  BY <1>5 DEF RowMoves, RunKeeps, TypeOK
<1> QED BY <1>1, <1>2, <1>3, <1>4, <1>5 DEF TaskStep

\* A step of the scheduler is a step on one Task, a claim, a crash or nothing.
LEMMA StepKinds ==
  ASSUME [Next]_vars
  PROVE  \/ \E t \in Tasks : TaskStep(t)
         \/ \E p \in Procs, t \in Tasks : Claim(p, t)
         \/ \E p \in Procs : Crash(p)
         \/ UNCHANGED vars
BY DEF Next, TaskStep
-----------------------------------------------------------------------------
(* Copies are current                                                        *)

\* Every step keeps the copies that are still fresh current.
LEMMA CurrentStep == TypeOK /\ Ownership /\ Current /\ [Next]_vars => Current'
<1> SUFFICES ASSUME TypeOK, Ownership, Current, [Next]_vars PROVE Current'
  OBVIOUS
<1>1. ASSUME NEW t \in Tasks, CopiesOf(t),
             \A u \in Tasks \ {t} : row'[u] = row[u],
             \A q \in Procs : \A u \in Tasks \ {t} : run'[q][u] = run[q][u]
      PROVE  Current'
  <2> SUFFICES ASSUME NEW q \in Procs, NEW u \in Tasks, run'[q][u].fresh
               PROVE  CurrentCopy(run'[q][u], row'[u])
    BY DEF Current
  <2>1. CASE u = t
    BY <1>1, <2>1 DEF CopiesOf
  <2>2. CASE u # t
    BY <1>1, <2>2 DEF Current
  <2> QED BY <2>1, <2>2
<1>2. ASSUME NEW t \in Tasks, TaskStep(t) PROVE Current'
  BY <1>1, <1>2, TaskStepMoves
<1>3. ASSUME NEW p \in Procs, NEW t \in Tasks, Claim(p, t) PROVE Current'
  BY <1>1, <1>3, ClaimMoves
<1>4. ASSUME NEW p \in Procs, Crash(p) PROVE Current'
  <2>1. UNCHANGED row
        /\ \A q \in Procs, u \in Tasks : run'[q][u] = IF q = p THEN IdleRun ELSE run[q][u]
    BY <1>4, CrashFacts
  <2>2. ~IdleRun.fresh
    BY DEF IdleRun
  <2> QED BY <2>1, <2>2 DEF Current
<1>5. CASE UNCHANGED vars
  BY <1>5 DEF vars, Current
<1> QED BY <1>2, <1>3, <1>4, <1>5, StepKinds

\* A copy whose save would be accepted is the row as it is, in every reachable
\* state: neither a command, a recovery nor another worker changes the status,
\* the hold or the visibility of a row without bumping its revision
\* (task_service.save, version_id_col).
THEOREM FreshCopyIsCurrent == Spec => []Current
<1>1. Init => Current
  <2>1. ~IdleRun.fresh
    BY DEF IdleRun
  <2> QED BY <2>1 DEF Init, Current
<1> QED BY <1>1, TypeCorrect, OwnershipInvariant, CurrentStep, PTL DEF Spec

-----------------------------------------------------------------------------
(* The retry budget                                                          *)

\* Every step keeps the retry budget.
LEMMA BudgetStep ==
  TypeOK /\ Ownership /\ Current /\ RetryBudget /\ [Next]_vars => RetryBudget'
<1> SUFFICES ASSUME TypeOK, Ownership, Current, RetryBudget, [Next]_vars PROVE RetryBudget'
  OBVIOUS
<1>1. ASSUME NEW t \in Tasks, \A u \in Tasks \ {t} : row'[u] = row[u],
             row'[t].status \in Active => row'[t].failures < MaxLimit
      PROVE  RetryBudget'
  BY <1>1 DEF RetryBudget
<1>2. ASSUME NEW t \in Tasks, TaskStep(t) PROVE RetryBudget'
  <2>1. /\ RowMoves(t) \/ Retried(t)
        /\ \A u \in Tasks \ {t} : row'[u] = row[u]
    BY <1>2, TaskStepMoves
  <2>2. CASE RowMoves(t)
    <3>1. Moves(row[t], row'[t])
      BY <2>2 DEF RowMoves, TypeOK
    <3>2. row'[t].status \in Active => row'[t].failures < MaxLimit
      BY <3>1 DEF Moves, RetryBudget, Active
    <3> QED BY <1>1, <2>1, <3>2
  <2>3. CASE Retried(t)
    <3>1. row'[t].failures = 0
      BY <2>3 DEF Retried, TypeOK
    <3> QED BY <1>1, <2>1, <3>1, Limits
  <2> QED BY <2>1, <2>2, <2>3
<1>3. ASSUME NEW p \in Procs, NEW t \in Tasks, Claim(p, t) PROVE RetryBudget'
  BY <1>1, <1>3, ClaimMoves DEF RetryBudget
<1>4. ASSUME NEW p \in Procs, Crash(p) PROVE RetryBudget'
  BY <1>4 DEF Crash, RetryBudget
<1>5. CASE UNCHANGED vars
  BY <1>5 DEF vars, RetryBudget
<1> QED BY <1>2, <1>3, <1>4, <1>5, StepKinds

\* A Task that may still run has not used up its retries, whoever settles its
\* failures and in whatever order, for any two limits (_retry_policy,
\* _fail_claim).
THEOREM RetriesAreBounded == Spec => []RetryBudget
<1>1. Init => RetryBudget
  <2> SUFFICES ASSUME Init PROVE RetryBudget
    OBVIOUS
  <2>1. \A t \in Tasks : row[t].failures = 0
    BY DEF Init, FreshRow
  <2> QED BY <2>1, Limits DEF RetryBudget
<1> QED BY <1>1, TypeCorrect, OwnershipInvariant, FreshCopyIsCurrent, BudgetStep, PTL DEF Spec

-----------------------------------------------------------------------------
(* The capacity of an agent                                                  *)

\* The Tasks of the agent a whose lease never expired.
UnbrokenOf(a) == {t \in Tasks : AgentOf[t] = a /\ Unbroken(row[t])}

\* Such a lease is live: the claim that took it counted it.
Expiry == \A t \in Tasks : Unbroken(row[t]) => row[t].ttl > 0

\* Any set of Tasks has a cardinality, and a subset no larger one.
LEMMA TaskSets ==
  ASSUME NEW S \in SUBSET Tasks, NEW T \in SUBSET S
  PROVE  /\ IsFiniteSet(S) /\ IsFiniteSet(T)
         /\ Cardinality(S) \in Nat /\ Cardinality(T) \in Nat
         /\ Cardinality(T) <= Cardinality(S)
<1>1. IsFiniteSet(Tasks)
  BY SchedulerAssumption DEF SchedulerAssumption
<1>2. IsFiniteSet(S)
  BY <1>1, FS_Subset
<1>3. IsFiniteSet(T) /\ Cardinality(T) <= Cardinality(S)
  BY <1>2, FS_Subset
<1> QED BY <1>2, <1>3, FS_CardinalityType

\* A step that takes no lease and mends none keeps every agent within its capacity.
LEMMA CapacityKept ==
  ASSUME AgentCapacity, \A u \in Tasks : Unbroken(row'[u]) => Unbroken(row[u])
  PROVE  AgentCapacity'
<1> SUFFICES ASSUME NEW a \in Agents
             PROVE  Cardinality({t \in Tasks : AgentOf[t] = a /\ Unbroken(row'[t])}) <= MaxParallel
  BY DEF AgentCapacity, Unbroken
<1> DEFINE S == UnbrokenOf(a)
           T == {t \in Tasks : AgentOf[t] = a /\ Unbroken(row'[t])}
<1>1. Cardinality(S) <= MaxParallel
  BY DEF AgentCapacity, UnbrokenOf
<1>2. S \in SUBSET Tasks /\ T \in SUBSET S
  BY DEF UnbrokenOf
<1> HIDE DEF S, T
<1>3. Cardinality(S) \in Nat /\ Cardinality(T) \in Nat /\ Cardinality(T) <= Cardinality(S)
  BY <1>2, TaskSets
<1>4. MaxParallel \in Nat
  BY SchedulerAssumption DEF SchedulerAssumption
<1>5. Cardinality(T) <= MaxParallel
  BY <1>1, <1>3, <1>4
<1> QED BY <1>5 DEF T

\* A claim adds its own Task to the leases that it counted, which hold all the
\* unbroken ones.
LEMMA ClaimCapacity ==
  ASSUME TypeOK, Expiry, AgentCapacity, NEW p \in Procs, NEW t \in Tasks, Claim(p, t)
  PROVE  AgentCapacity'
<1> SUFFICES ASSUME NEW a \in Agents
             PROVE  Cardinality({u \in Tasks : AgentOf[u] = a /\ Unbroken(row'[u])}) <= MaxParallel
  BY DEF AgentCapacity, Unbroken
<1> DEFINE S == UnbrokenOf(a)
           C == ActiveClaims(a, t)
           T == {u \in Tasks : AgentOf[u] = a /\ Unbroken(row'[u])}
<1>0. MaxParallel \in Nat
  BY SchedulerAssumption DEF SchedulerAssumption
<1>1. \A u \in Tasks \ {t} : row'[u] = row[u]
  BY ClaimMoves
<1>2. CASE a = AgentOf[t]
  <2>1. Cardinality(C) < MaxParallel
    BY <1>2 DEF Claim
  <2>2. C \in SUBSET Tasks /\ t \notin C /\ C \cup {t} \in SUBSET Tasks
        /\ T \in SUBSET (C \cup {t})
    BY <1>1 DEF ActiveClaims, Expiry, Live, Unbroken
  <2> HIDE DEF C, T
  <2>3. IsFiniteSet(C) /\ Cardinality(C) \in Nat
    <3>1. C \in SUBSET C
      OBVIOUS
    <3> QED BY <2>2, <3>1, TaskSets
  <2>4. Cardinality(C \cup {t}) = Cardinality(C) + 1
    BY <2>2, <2>3, FS_AddElement
  <2>5. Cardinality(T) \in Nat /\ Cardinality(T) <= Cardinality(C \cup {t})
    BY <2>2, TaskSets
  <2>6. Cardinality(T) <= MaxParallel
    BY <1>0, <2>1, <2>3, <2>4, <2>5
  <2> QED BY <2>6 DEF T
<1>3. CASE a # AgentOf[t]
  <2>1. T = S
    BY <1>1, <1>3 DEF UnbrokenOf
  <2>2. Cardinality(S) <= MaxParallel
    BY DEF AgentCapacity, UnbrokenOf
  <2> QED BY <2>1, <2>2
<1> QED BY <1>2, <1>3

\* Every step keeps every agent within its capacity.
LEMMA CapacityStep ==
  TypeOK /\ Ownership /\ Current /\ Expiry /\ AgentCapacity /\ [Next]_vars
    => (Expiry /\ AgentCapacity)'
<1> SUFFICES ASSUME TypeOK, Ownership, Current, Expiry, AgentCapacity, [Next]_vars
             PROVE  Expiry' /\ AgentCapacity'
  OBVIOUS
<1>1. ASSUME NEW t \in Tasks, TaskStep(t) PROVE Expiry' /\ AgentCapacity'
  <2>1. /\ RowMoves(t) \/ Retried(t)
        /\ \A u \in Tasks \ {t} : row'[u] = row[u]
    BY <1>1, TaskStepMoves
  <2>2. Unbroken(row'[t]) =>
          (Unbroken(row[t]) /\ (row'[t].ttl = row[t].ttl \/ row'[t].ttl > 0))
    <3>1. CASE RowMoves(t)
      <4>1. Moves(row[t], row'[t])
        BY <3>1 DEF RowMoves, TypeOK
      <4> QED BY <4>1 DEF Moves
    <3>2. CASE Retried(t)
      <4>1. row'[t].lease = row[t].lease /\ row'[t].ttl = row[t].ttl
            /\ row'[t].lapsed = row[t].lapsed
        BY <3>2 DEF Retried, TypeOK
      <4> QED BY <4>1 DEF Unbroken
    <3> QED BY <2>1, <3>1, <3>2
  <2>3. AgentCapacity'
    BY <2>1, <2>2, CapacityKept
  <2>4. Expiry'
    BY <2>1, <2>2 DEF Expiry, Unbroken
  <2> QED BY <2>3, <2>4
<1>2. ASSUME NEW p \in Procs, NEW t \in Tasks, Claim(p, t) PROVE Expiry' /\ AgentCapacity'
  <2>1. \A u \in Tasks \ {t} : row'[u] = row[u]
    BY <1>2, ClaimMoves
  <2>2. row'[t].ttl = LeaseTicks /\ LeaseTicks > 0
    BY <1>2, SchedulerAssumption DEF SchedulerAssumption, Claim, TypeOK, Row
  <2>3. Expiry'
    BY <2>1, <2>2 DEF Expiry, Unbroken
  <2> QED BY <1>2, <2>3, ClaimCapacity
<1>3. ASSUME UNCHANGED row PROVE Expiry' /\ AgentCapacity'
  BY <1>3, CapacityKept DEF Expiry, Unbroken
<1>4. ASSUME NEW p \in Procs, Crash(p) PROVE UNCHANGED row
  BY <1>4 DEF Crash
<1>5. CASE UNCHANGED vars
  BY <1>3, <1>5 DEF vars
<1> QED BY <1>1, <1>2, <1>3, <1>4, <1>5, StepKinds

\* No agent ever has more claims that never expired than its Harness allows,
\* for any number of Tasks, agents and processes and any capacity: the claim
\* counts under the agent's lock, and nothing but a claim makes such a lease.
\* What comes on top of the limit was revived by a late heartbeat
\* (active_lease, _renew_lease).
THEOREM CapacityHolds == Spec => []AgentCapacity
<1>1. Init => Expiry /\ AgentCapacity
  <2> SUFFICES ASSUME Init PROVE Expiry /\ AgentCapacity
    OBVIOUS
  <2>1. \A t \in Tasks : ~Unbroken(row[t])
    BY DEF Init, FreshRow, Unbroken
  <2>2. \A a \in Agents : {t \in Tasks : AgentOf[t] = a /\ Unbroken(row[t])} = {}
    BY <2>1
  <2>3. Cardinality({}) = 0 /\ MaxParallel \in Nat
    BY FS_EmptySet, SchedulerAssumption DEF SchedulerAssumption
  <2>4. AgentCapacity
    BY <2>2, <2>3 DEF AgentCapacity
  <2> QED BY <2>1, <2>4 DEF Expiry
<1> QED BY <1>1, TypeCorrect, OwnershipInvariant, FreshCopyIsCurrent, CapacityStep, PTL DEF Spec

-----------------------------------------------------------------------------
(* What a step may never do                                                  *)

\* A step changes a settled outcome by the retry command only, and starts no
\* held Task.
LEMMA OutcomeStep ==
  ASSUME TypeOK, Ownership, Current, [Next]_vars, NEW u \in Tasks
  PROVE  /\ (HasTerminalOutcome(row[u]) /\ row'[u].status # row[u].status) => RetryTask(u)
         /\ (Paused(row[u]) /\ row[u].status # "EXEC") => row'[u].status # "EXEC"
<1>1. ASSUME row'[u].status = row[u].status
      PROVE  /\ (HasTerminalOutcome(row[u]) /\ row'[u].status # row[u].status) => RetryTask(u)
             /\ (Paused(row[u]) /\ row[u].status # "EXEC") => row'[u].status # "EXEC"
  BY <1>1
<1>2. ASSUME NEW t \in Tasks, TaskStep(t)
      PROVE  /\ (HasTerminalOutcome(row[u]) /\ row'[u].status # row[u].status) => RetryTask(u)
             /\ (Paused(row[u]) /\ row[u].status # "EXEC") => row'[u].status # "EXEC"
  <2>1. /\ RowMoves(t) \/ (RetryTask(t) /\ Retried(t))
        /\ \A v \in Tasks \ {t} : row'[v] = row[v]
    BY <1>2, TaskStepMoves
  <2>2. CASE u # t
    BY <1>1, <2>1, <2>2
  <2>3. CASE u = t /\ RowMoves(t)
    <3>1. Moves(row[u], row'[u])
      BY <2>3 DEF RowMoves, TypeOK
    <3> QED BY <3>1 DEF Moves
  <2>4. CASE u = t /\ RetryTask(t) /\ Retried(t)
    <3>1. row'[u].status = "DISPATCH"
      BY <2>4 DEF Retried, TypeOK
    <3> QED BY <2>4, <3>1
  <2> QED BY <2>1, <2>2, <2>3, <2>4
<1>3. ASSUME NEW p \in Procs, NEW t \in Tasks, Claim(p, t)
      PROVE  row'[u].status = row[u].status
  BY <1>3, ClaimMoves
<1>4. ASSUME NEW p \in Procs, Crash(p) PROVE row'[u].status = row[u].status
  BY <1>4 DEF Crash
<1>5. CASE UNCHANGED vars
  BY <1>1, <1>5 DEF vars
<1> QED BY <1>1, <1>2, <1>3, <1>4, <1>5, StepKinds

\* A settled outcome is reopened by the retry command only
\* (has_terminal_outcome, RETRY).
THEOREM OutcomeIsFinal == Spec => OutcomeReopenedByRetryOnly
<1>1. TypeOK /\ Ownership /\ Current /\ [Next]_vars =>
        [\A t \in Tasks :
           (HasTerminalOutcome(row[t]) /\ row'[t].status # row[t].status) => RetryTask(t)]_vars
  BY OutcomeStep
<1> QED BY <1>1, TypeCorrect, OwnershipInvariant, FreshCopyIsCurrent, PTL
        DEF Spec, OutcomeReopenedByRetryOnly

\* A held Task does not start, whatever copy of it a worker loaded before the
\* pause (TaskRevisionConflict).
THEOREM HeldTaskStays == Spec => PausedNotStarted
<1>1. TypeOK /\ Ownership /\ Current /\ [Next]_vars =>
        [\A t \in Tasks :
           (Paused(row[t]) /\ row[t].status # "EXEC") => row'[t].status # "EXEC"]_vars
  BY OutcomeStep
<1> QED BY <1>1, TypeCorrect, OwnershipInvariant, FreshCopyIsCurrent, PTL
        DEF Spec, PausedNotStarted
=============================================================================

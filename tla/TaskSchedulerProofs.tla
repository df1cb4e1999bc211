------------------------ MODULE TaskSchedulerProofs ------------------------
(***************************************************************************)
(* Proofs about TaskScheduler, for any Tasks, processes, limits and bound.  *)
(***************************************************************************)
EXTENDS TaskScheduler, TLAPS


-----------------------------------------------------------------------------
(* The operators that build rows and runs return rows and runs.              *)

\* NULL is a token, and an expired lease has a time to live.
LEMMA Bounds ==
  /\ 0 \in Tokens
  /\ 0 \in 0 .. LeaseTicks
  /\ LeaseTicks \in 0 .. LeaseTicks
  /\ \A n \in Tokens : n \in Nat /\ n <= MaxClaims
BY SchedulerAssumption DEF SchedulerAssumption, Tokens

\* Clearing a lease, interrupting an execution and the rows a settled claim
\* leaves are rows.
LEMMA RowOperators ==
  ASSUME NEW r \in Row, NEW phase \in Runnable, NEW local \in BOOLEAN
  PROVE  /\ ClearLease(r) \in Row
         /\ Interrupt(r) \in Row
         /\ Finalized(r) \in Row
         /\ RetryRow(r, phase) \in Row
         /\ FailedRow(r) \in Row
         /\ TerminatedRow(r) \in Row
         /\ Interrupted(r, local) \in Row
<1>1. ASSUME NEW x \in Row PROVE ClearLease(x) \in Row
  BY Bounds DEF ClearLease, Row
<1>2. Interrupt(r) \in Row
  BY DEF Interrupt, Row, Statuses
<1>3. [r EXCEPT !.failures = 0, !.backoff = FALSE] \in Row
  BY DEF Row
<1>4. Finalized(r) \in Row
  BY <1>1, <1>3 DEF Finalized
<1>5. RetryRow(r, phase) \in Row
  <2> DEFINE back == IF phase = "CREATE" THEN "CREATE" ELSE "DISPATCH"
             x == [r EXCEPT !.backoff = TRUE,
                     !.status = CASE @ = "ERROR" -> back [] @ = "EXEC" -> "DISPATCH" [] OTHER -> @]
  <2>1. x \in Row
    BY DEF Row, Statuses
  <2> QED BY <1>1, <2>1 DEF RetryRow
<1>6. FailedRow(r) \in Row
  <2>1. [r EXCEPT !.status = "ERROR", !.backoff = FALSE, !.reasons = {}] \in Row
    BY DEF Row, Statuses
  <2> QED BY <1>1, <2>1 DEF FailedRow
<1>7. TerminatedRow(r) \in Row
  <2> DEFINE x == [r EXCEPT !.status = IF @ \in Terminal THEN @ ELSE "ERROR",
                            !.backoff = FALSE, !.reasons = {}]
  <2>1. x \in Row
    BY DEF Row, Statuses
  <2> QED BY <1>1, <2>1 DEF TerminatedRow
<1>8. Interrupted(r, local) \in Row
  BY <1>2 DEF Interrupted, Row
<1> QED BY <1>1, <1>2, <1>4, <1>5, <1>6, <1>7, <1>8

\* The row a failed claim leaves is a row.
LEMMA FailRowType ==
  ASSUME TypeOK, NEW t \in Tasks, NEW phase \in Runnable, NEW e \in Failures
  PROVE  /\ FailRow(t, phase, e) \in Row
         /\ FailStatus(t, phase, e) \in AttemptStatuses
<1> DEFINE r == [row[t] EXCEPT !.failures = @ + 1]
<1>1. row[t] \in Row
  BY DEF TypeOK
<1>2. r \in Row
  BY <1>1 DEF Row
<1>3. FailRow(t, phase, e) \in {Finalized(row[t]), RetryRow(r, phase), FailedRow(r)}
  BY <1>1 DEF FailRow
<1>4. FailStatus(t, phase, e) \in AttemptStatuses
  BY DEF FailStatus, FinalStatus, AttemptStatuses
<1> QED BY <1>1, <1>2, <1>3, <1>4, RowOperators

\* Making the copies of a row stale, and setting one run, keeps runs.
LEMMA RunOperators ==
  ASSUME TypeOK, NEW p \in Procs, NEW t \in Tasks, NEW w \in Run
  PROVE  /\ Stale(t) \in [Procs -> [Tasks -> Run]]
         /\ [Stale(t) EXCEPT ![p][t] = w] \in [Procs -> [Tasks -> Run]]
         /\ [run EXCEPT ![p][t] = w] \in [Procs -> [Tasks -> Run]]
         /\ LocalCancel(p, t) \in [Procs -> [Tasks -> Run]]
         /\ IdleRun \in Run
<1>1. IdleRun \in Run
  BY Bounds DEF IdleRun, Run, Runnable, Failures
<1>2. \A q \in Procs : [run[q] EXCEPT ![t].fresh = FALSE] \in [Tasks -> Run]
  <2> SUFFICES ASSUME NEW q \in Procs
               PROVE  [run[q] EXCEPT ![t].fresh = FALSE] \in [Tasks -> Run]
    OBVIOUS
  <2>1. run[q] \in [Tasks -> Run] /\ run[q][t] \in Run
    BY DEF TypeOK
  <2>2. [run[q][t] EXCEPT !.fresh = FALSE] \in Run
    BY <2>1 DEF Run
  <2> QED BY <2>1, <2>2
<1>3. Stale(t) \in [Procs -> [Tasks -> Run]]
  BY <1>2 DEF Stale
<1>4. ASSUME NEW x \in Run PROVE [Stale(t) EXCEPT ![p][t] = x] \in [Procs -> [Tasks -> Run]]
  BY <1>3
<1>5. [run EXCEPT ![p][t] = w] \in [Procs -> [Tasks -> Run]]
  BY DEF TypeOK
<1>6. LocalCancel(p, t) \in [Procs -> [Tasks -> Run]]
  <2> DEFINE v == run[p][t]
             x == CASE v.pc \in Working -> [v EXCEPT !.pc = "stopped", !.fresh = FALSE]
                    [] v.pc \in {"done", "failed"} -> IdleRun
                    [] OTHER -> v
  <2>1. v \in Run
    BY DEF TypeOK
  <2>2. x \in Run
    BY <2>1, <1>1 DEF Run, Settling
  <2> QED BY <1>4, <2>2 DEF LocalCancel
<1> QED BY <1>1, <1>3, <1>4, <1>5, <1>6
-----------------------------------------------------------------------------
(* Type correctness                                                          *)

Runs == [Procs -> [Tasks -> Run]]
Attempts == [Tasks -> [1 .. MaxClaims -> AttemptStatuses]]

\* Rows and runs are where TypeOK says.
LEMMA Lookup ==
  ASSUME TypeOK, NEW p \in Procs, NEW t \in Tasks
  PROVE  row[t] \in Row /\ run[p][t] \in Run /\ Stale(t)[p][t] \in Run
BY RunOperators DEF TypeOK

\* Replacing one row keeps the table's type.
LEMMA RowPut ==
  ASSUME TypeOK, NEW t \in Tasks, NEW r \in Row
  PROVE  [row EXCEPT ![t] = r] \in [Tasks -> Row]
BY DEF TypeOK

\* Replacing one attempt keeps the table's type.
LEMMA AttemptPut ==
  ASSUME TypeOK, NEW t \in Tasks, NEW n, NEW x \in AttemptStatuses
  PROVE  [attempt EXCEPT ![t][n] = x] \in Attempts
BY DEF TypeOK, Attempts

\* Replacing one run keeps the runs' type.
LEMMA RunPut ==
  ASSUME TypeOK, NEW p \in Procs, NEW t \in Tasks, NEW w \in Run
  PROVE  [run EXCEPT ![p][t] = w] \in Runs
BY DEF TypeOK, Runs

\* Replacing one run among stale ones keeps the runs' type.
LEMMA StalePut ==
  ASSUME TypeOK, NEW p \in Procs, NEW t \in Tasks, NEW w \in Run
  PROVE  Stale(t) \in Runs /\ [Stale(t) EXCEPT ![p][t] = w] \in Runs
BY RunOperators DEF Runs

\* A step that keeps the type of each variable keeps TypeOK.
LEMMA TypeParts ==
  ASSUME row' \in [Tasks -> Row], attempt' \in Attempts, run' \in Runs
  PROVE  TypeOK'
BY DEF TypeOK, Attempts, Runs

\* An unchanged variable keeps its type.
LEMMA TypeKept ==
  ASSUME TypeOK
  PROVE  /\ UNCHANGED row => row' \in [Tasks -> Row]
         /\ UNCHANGED attempt => attempt' \in Attempts
         /\ UNCHANGED run => run' \in Runs
BY DEF TypeOK, Attempts, Runs

\* A run keeps its type wherever its program counter, view and exception go.
LEMMA RunUpdates ==
  ASSUME NEW w \in Run, NEW pc \in Working \cup Settling, NEW e \in Failures, NEW v \in Tokens
  PROVE  /\ [w EXCEPT !.pc = pc] \in Run
         /\ [w EXCEPT !.pc = pc, !.fresh = FALSE] \in Run
         /\ [w EXCEPT !.pc = pc, !.fresh = (pc = "routed")] \in Run
         /\ [w EXCEPT !.pc = pc, !.exc = e] \in Run
         /\ [w EXCEPT !.pc = pc, !.fresh = FALSE, !.exc = e] \in Run
         /\ [w EXCEPT !.pc = pc, !.view = v, !.fresh = TRUE] \in Run
BY DEF Run

\* Moving a run to another program counter keeps the runs' type.
LEMMA GotoType ==
  ASSUME TypeOK, NEW p \in Procs, NEW t \in Tasks, NEW pc \in Working \cup Settling,
         Goto(p, t, pc)
  PROVE  run' \in Runs
<1> DEFINE w == [run[p][t] EXCEPT !.pc = pc]
<1>1. w \in Run
  BY Lookup DEF Run
<1>2. run' = [run EXCEPT ![p][t] = w]
  BY DEF Goto
<1> HIDE DEF w
<1> QED BY <1>1, <1>2, RunPut

\* So does stopping a run, or failing it with an exception.
LEMMA StopType ==
  ASSUME TypeOK, NEW p \in Procs, NEW t \in Tasks, NEW e \in Failures,
         \/ run' = [run EXCEPT ![p][t] = [@ EXCEPT !.pc = "failed", !.exc = e]]
         \/ run' = [run EXCEPT ![p][t] = [@ EXCEPT !.pc = "failed", !.fresh = FALSE, !.exc = e]]
         \/ run' = [run EXCEPT ![p][t] = [@ EXCEPT !.pc = "stopped", !.fresh = FALSE]]
  PROVE  run' \in Runs
<1> DEFINE f == [run[p][t] EXCEPT !.pc = "failed", !.exc = e]
           g == [run[p][t] EXCEPT !.pc = "failed", !.fresh = FALSE, !.exc = e]
           h == [run[p][t] EXCEPT !.pc = "stopped", !.fresh = FALSE]
<1>1. f \in Run /\ g \in Run /\ h \in Run
  <2>1. run[p][t] \in Run
    BY Lookup
  <2>2. f \in Run
    BY <2>1 DEF Run, Settling
  <2>3. g \in Run
    BY <2>1 DEF Run, Settling
  <2>4. h \in Run
    BY <2>1 DEF Run, Settling
  <2> QED BY <2>2, <2>3, <2>4
<1>2. \/ run' = [run EXCEPT ![p][t] = f]
      \/ run' = [run EXCEPT ![p][t] = g]
      \/ run' = [run EXCEPT ![p][t] = h]
  OBVIOUS
<1> HIDE DEF f, g, h
<1>3. CASE run' = [run EXCEPT ![p][t] = f]
  BY <1>1, <1>3, RunPut
<1>4. CASE run' = [run EXCEPT ![p][t] = g]
  BY <1>1, <1>4, RunPut
<1>5. CASE run' = [run EXCEPT ![p][t] = h]
  BY <1>1, <1>5, RunPut
<1> QED BY <1>2, <1>3, <1>4, <1>5

\* A save, accepted or refused, keeps the types.
LEMMA SaveType ==
  ASSUME TypeOK, NEW p \in Procs, NEW t \in Tasks, NEW r \in Row,
         NEW pc \in Working \cup Settling, Save(p, t, r, pc), UNCHANGED attempt
  PROVE  TypeOK'
<1> DEFINE w == [Stale(t)[p][t] EXCEPT !.pc = pc, !.fresh = (pc = "routed")]
<1>1. attempt' \in Attempts
  BY TypeKept
<1>2. CASE run[p][t].fresh
  <2>1. w \in Run
    BY Lookup DEF Run
  <2>2. row' = [row EXCEPT ![t] = r] /\ run' = [Stale(t) EXCEPT ![p][t] = w]
    BY <1>2 DEF Save
  <2> HIDE DEF w
  <2>3. row' \in [Tasks -> Row]
    BY <2>2, RowPut
  <2>4. run' \in Runs
    BY <2>1, <2>2, StalePut
  <2> QED BY <1>1, <2>3, <2>4, TypeParts
<1>3. CASE ~run[p][t].fresh
  <2>1. UNCHANGED row
        /\ run' = [run EXCEPT ![p][t] = [@ EXCEPT !.pc = "failed", !.exc = "ordinary"]]
    BY <1>3 DEF Save
  <2>2. row' \in [Tasks -> Row]
    BY <2>1, TypeKept
  <2>3. "ordinary" \in Failures
    BY DEF Failures
  <2>4. run' \in Runs
    BY <2>1, <2>3, StopType
  <2> QED BY <1>1, <2>2, <2>4, TypeParts
<1> QED BY <1>2, <1>3

\* Settling a claim keeps the types.
LEMMA SettleType ==
  ASSUME TypeOK, NEW p \in Procs, NEW t \in Tasks, NEW r \in Row, NEW x \in AttemptStatuses,
         Settle(p, t, r, x) \/ Abandon(p, t)
  PROVE  TypeOK'
<1>1. IdleRun \in Run
  BY Lookup, RunOperators
<1>2. CASE Settle(p, t, r, x)
  <2>1. row' \in [Tasks -> Row]
    BY <1>2, RowPut DEF Settle
  <2>2. attempt' \in Attempts
    BY <1>2, AttemptPut DEF Settle
  <2>3. run' \in Runs
    BY <1>1, <1>2, StalePut DEF Settle
  <2> QED BY <2>1, <2>2, <2>3, TypeParts
<1>3. CASE Abandon(p, t)
  <2>1. row' \in [Tasks -> Row] /\ attempt' \in Attempts
    BY <1>3, TypeKept DEF Abandon
  <2>2. run' \in Runs
    BY <1>1, <1>3, RunPut DEF Abandon
  <2> QED BY <2>1, <2>2, TypeParts
<1> QED BY <1>2, <1>3

\* A durable step replaces one row and makes its copies stale.
LEMMA DurableType ==
  ASSUME TypeOK, NEW t \in Tasks, NEW r \in Row, row' = [row EXCEPT ![t] = r],
         attempt' \in Attempts,
         \/ run' = Stale(t)
         \/ UNCHANGED run
         \/ \E p \in Procs : run' = LocalCancel(p, t)
  PROVE  TypeOK'
<1>1. row' \in [Tasks -> Row]
  BY RowPut
<1>2. ASSUME run' = Stale(t) PROVE run' \in Runs
  <2>1. \A q \in Procs : [run[q] EXCEPT ![t].fresh = FALSE] \in [Tasks -> Run]
    <3> SUFFICES ASSUME NEW q \in Procs
                 PROVE  [run[q] EXCEPT ![t].fresh = FALSE] \in [Tasks -> Run]
      OBVIOUS
    <3>1. run[q] \in [Tasks -> Run] /\ run[q][t] \in Run
      BY DEF TypeOK
    <3>2. [run[q][t] EXCEPT !.fresh = FALSE] \in Run
      BY <3>1 DEF Run
    <3> QED BY <3>1, <3>2
  <2> QED BY <1>2, <2>1 DEF Stale, Runs
<1>3. ASSUME UNCHANGED run PROVE run' \in Runs
  BY <1>3, TypeKept
<1>4. ASSUME NEW p \in Procs, run' = LocalCancel(p, t) PROVE run' \in Runs
  BY <1>4, Lookup, RunOperators DEF Runs
<1>5. run' \in Runs
  BY <1>2, <1>3, <1>4
<1> QED BY <1>1, <1>5, TypeParts

\* A claim keeps the types.
LEMMA ClaimType ==
  ASSUME TypeOK, NEW p \in Procs, NEW t \in Tasks, Claim(p, t)
  PROVE  TypeOK'
<1> DEFINE r == row[t]
           n == NextAttempt(r)
           x == [r EXCEPT !.claims = n, !.lease = n, !.ttl = LeaseTicks, !.lapsed = FALSE,
                  !.phase = r.status, !.backoff = FALSE, !.cancel = FALSE]
           w == [IdleRun EXCEPT !.pc = "claimed", !.token = n, !.phase = r.status]
<1>1. r \in Row /\ run[p][t] \in Run /\ IdleRun \in Run
  BY Lookup, RunOperators
<1>2. r.status \in Runnable /\ r.claims < MaxClaims /\ r.claims \in Tokens
  BY <1>1 DEF Claim, Claimable, Row
<1>3. n \in Tokens
  BY <1>2, SchedulerAssumption DEF SchedulerAssumption, Tokens, NextAttempt
<1>4. x \in Row
  BY <1>1, <1>2, <1>3, Bounds DEF Row
<1>5. w \in Run
  BY <1>1, <1>2, <1>3 DEF Run, Working
<1>6. row' = [row EXCEPT ![t] = x] /\ attempt' = [attempt EXCEPT ![t][n] = "CLAIMED"]
      /\ run' = [Stale(t) EXCEPT ![p][t] = w]
  BY DEF Claim
<1> HIDE DEF n, x, w
<1>7. row' \in [Tasks -> Row]
  BY <1>4, <1>6, RowPut
<1>8. attempt' \in Attempts
  <2>1. "CLAIMED" \in AttemptStatuses
    BY DEF AttemptStatuses
  <2> QED BY <1>6, <2>1, AttemptPut
<1>9. run' \in Runs
  BY <1>5, <1>6, StalePut
<1> QED BY <1>7, <1>8, <1>9, TypeParts

\* Every step of a worker keeps the types.
LEMMA WorkType ==
  ASSUME TypeOK, NEW p \in Procs, NEW t \in Tasks, Work(p, t)
  PROVE  TypeOK'
<1>r. row[t] \in Row /\ run[p][t] \in Run /\ Stale(t)[p][t] \in Run
  BY Lookup
<1>e. "ordinary" \in Failures
  BY DEF Failures
<1>k. UNCHANGED row => row' \in [Tasks -> Row]
  BY TypeKept
<1>a. UNCHANGED attempt => attempt' \in Attempts
  BY TypeKept
<1>1. CASE Load(p, t)
  <2> DEFINE w == [run[p][t] EXCEPT !.pc = "loaded", !.view = row[t].lease, !.fresh = TRUE]
  <2>1. row[t].lease \in Tokens
    BY <1>r DEF Row
  <2>2. w \in Run
    BY <1>r, <2>1 DEF Run, Working
  <2>3. /\ UNCHANGED row /\ UNCHANGED attempt
        /\ run' = [run EXCEPT ![p][t] = w] \/ Goto(p, t, "done")
    BY <1>1 DEF Load
  <2> HIDE DEF w
  <2>4. CASE run' = [run EXCEPT ![p][t] = w]
    <3>1. run' \in Runs
      BY <2>2, <2>4, RunPut
    <3> QED BY <1>k, <1>a, <2>3, <3>1, TypeParts
  <2>5. CASE Goto(p, t, "done")
    <3>1. "done" \in Working \cup Settling
      BY DEF Settling
    <3>2. run' \in Runs
      BY <2>5, <3>1, GotoType
    <3> QED BY <1>k, <1>a, <2>3, <3>2, TypeParts
  <2> QED BY <2>3, <2>4, <2>5
<1>2. CASE RouteTrace(p, t)
  <2> DEFINE x == [row[t] EXCEPT !.status = "ERROR", !.reasons = {}]
  <2>1. x \in Row
    BY <1>r DEF Row, Statuses
  <2>2. "routed" \in Working \cup Settling /\ "done" \in Working \cup Settling
    BY DEF Working, Settling
  <2>3. UNCHANGED attempt /\ (Save(p, t, row[t], "routed") \/ Save(p, t, x, "done"))
    BY <1>2 DEF RouteTrace
  <2> HIDE DEF x
  <2> QED BY <1>r, <2>1, <2>2, <2>3, SaveType
<1>3. CASE Route(p, t)
  <2> DEFINE x == [row[t] EXCEPT !.status = "DISPATCH"]
  <2>1. x \in Row
    BY <1>r DEF Row, Statuses
  <2>2. "done" \in Working \cup Settling
    BY DEF Settling
  <2>3. UNCHANGED attempt /\ Save(p, t, x, "done")
    BY <1>3 DEF Route
  <2> HIDE DEF x
  <2> QED BY <2>1, <2>2, <2>3, SaveType
<1>4. CASE StartExecution(p, t)
  <2> DEFINE x == [row[t] EXCEPT !.status = "EXEC"]
  <2>1. x \in Row
    BY <1>r DEF Row, Statuses
  <2>2. "started" \in Working \cup Settling
    BY DEF Working
  <2>3. UNCHANGED attempt /\ Save(p, t, x, "started")
    BY <1>4 DEF StartExecution
  <2> HIDE DEF x
  <2> QED BY <2>1, <2>2, <2>3, SaveType
<1>5. CASE Activate(p, t)
  <2> DEFINE x == [row[t] EXCEPT !.receipt = IF @ = "resumable" THEN "resumable" ELSE "admitted"]
             w == [Stale(t)[p][t] EXCEPT !.pc = "driver"]
  <2>1. x \in Row
    BY <1>r DEF Row, Receipts
  <2>2. w \in Run
    BY <1>r DEF Run, Working
  <2>3. /\ UNCHANGED attempt
        /\ \/ UNCHANGED row /\ Goto(p, t, "driver")
           \/ UNCHANGED row /\ Goto(p, t, "stopped")
           \/ row' = [row EXCEPT ![t] = x] /\ run' = [Stale(t) EXCEPT ![p][t] = w]
    BY <1>5 DEF Activate
  <2>4. "driver" \in Working \cup Settling /\ "stopped" \in Working \cup Settling
    BY DEF Working, Settling
  <2> HIDE DEF x, w
  <2>5. CASE UNCHANGED row /\ (Goto(p, t, "driver") \/ Goto(p, t, "stopped"))
    <3>1. run' \in Runs
      BY <2>4, <2>5, GotoType
    <3> QED BY <1>k, <1>a, <2>3, <2>5, <3>1, TypeParts
  <2>6. CASE row' = [row EXCEPT ![t] = x] /\ run' = [Stale(t) EXCEPT ![p][t] = w]
    <3>1. row' \in [Tasks -> Row]
      BY <2>1, <2>6, RowPut
    <3>2. run' \in Runs
      BY <2>2, <2>6, StalePut
    <3> QED BY <1>a, <2>3, <3>1, <3>2, TypeParts
  <2> QED BY <2>3, <2>5, <2>6
<1>6. CASE SaveCheckpoint(p, t)
  <2>1. ASSUME NEW c \in {"resumable", "admitted"} PROVE [row[t] EXCEPT !.receipt = c] \in Row
    BY <1>r DEF Row, Receipts
  <2>2. /\ UNCHANGED attempt
        /\ \/ UNCHANGED row /\ Goto(p, t, "stopped")
           \/ UNCHANGED row /\ run' = [run EXCEPT ![p][t] = [@ EXCEPT !.pc = "failed", !.exc = "ordinary"]]
           \/ \E c \in {"resumable", "admitted"} :
                row' = [row EXCEPT ![t] = [row[t] EXCEPT !.receipt = c]] /\ run' = Stale(t)
    BY <1>6 DEF SaveCheckpoint
  <2>3. CASE UNCHANGED row /\ Goto(p, t, "stopped")
    <3>1. "stopped" \in Working \cup Settling
      BY DEF Settling
    <3>2. run' \in Runs
      BY <2>3, <3>1, GotoType
    <3> QED BY <1>k, <1>a, <2>2, <2>3, <3>2, TypeParts
  <2>4. CASE UNCHANGED row /\ run' = [run EXCEPT ![p][t] = [@ EXCEPT !.pc = "failed", !.exc = "ordinary"]]
    <3>1. run' \in Runs
      BY <1>e, <2>4, StopType
    <3> QED BY <1>k, <1>a, <2>2, <2>4, <3>1, TypeParts
  <2>5. ASSUME NEW c \in {"resumable", "admitted"},
               row' = [row EXCEPT ![t] = [row[t] EXCEPT !.receipt = c]], run' = Stale(t)
        PROVE  TypeOK'
    <3> DEFINE x == [row[t] EXCEPT !.receipt = c]
    <3>1. x \in Row /\ row' = [row EXCEPT ![t] = x]
      BY <2>1, <2>5
    <3> HIDE DEF x
    <3> QED BY <1>a, <2>2, <2>5, <3>1, DurableType
  <2> QED BY <2>2, <2>3, <2>4, <2>5
<1>7. CASE DriverReturns(p, t)
  <2>1. "result" \in Working \cup Settling
    BY DEF Working
  <2>2. run' \in Runs
    BY <1>7, <2>1, GotoType DEF DriverReturns
  <2> QED BY <1>7, <1>k, <1>a, <2>2, TypeParts DEF DriverReturns
<1>8. CASE ActionRaises(p, t)
  <2>1. run' \in Runs
    BY <1>8, StopType DEF ActionRaises
  <2> QED BY <1>8, <1>k, <1>a, <2>1, TypeParts DEF ActionRaises
<1>9. CASE FinishExecution(p, t)
  <2>1. ASSUME NEW x \in Outcomes(row[t]) PROVE x \in Row
    <3>1. Interrupt(row[t]) \in Row
      BY <1>r DEF Interrupt, Row, Statuses
    <3>2. \A k \in BOOLEAN : ReceiptAfter(row[t], k) \subseteq Receipts
      BY DEF ReceiptAfter, Receipts
    <3>3. ASSUME NEW c \in Receipts
          PROVE  /\ [row[t] EXCEPT !.status = "SUCCESS", !.reasons = {}, !.receipt = c] \in Row
                 /\ [row[t] EXCEPT !.status = "ERROR", !.reasons = {}, !.receipt = c] \in Row
                 /\ [row[t] EXCEPT !.status = "DISPATCH", !.reasons = {"child"}, !.receipt = c] \in Row
      BY <1>r DEF Row, Statuses, Reasons
    <3>4. ASSUME NEW c \in Receipts
          PROVE  [Interrupt(row[t]) EXCEPT !.reasons = @ \cup {"approval"}, !.receipt = c] \in Row
      BY <3>1 DEF Row, Reasons
    <3>5. \E c \in Receipts :
            \/ x = [row[t] EXCEPT !.status = "SUCCESS", !.reasons = {}, !.receipt = c]
            \/ x = [row[t] EXCEPT !.status = "ERROR", !.reasons = {}, !.receipt = c]
            \/ x = [row[t] EXCEPT !.status = "DISPATCH", !.reasons = {"child"}, !.receipt = c]
            \/ x = [Interrupt(row[t]) EXCEPT !.reasons = @ \cup {"approval"}, !.receipt = c]
      BY <2>1, <3>2, Zenon DEF Outcomes
    <3> QED BY <3>3, <3>4, <3>5
  <2> DEFINE w == [Stale(t)[p][t] EXCEPT !.pc = "done"]
  <2>2. w \in Run
    BY <1>r DEF Run, Settling
  <2>3. /\ UNCHANGED attempt
        /\ \E x \in Outcomes(row[t]) : row' = [row EXCEPT ![t] = x]
        /\ run' = [Stale(t) EXCEPT ![p][t] = w]
    BY <1>9 DEF FinishExecution
  <2> HIDE DEF w
  <2>4. row' \in [Tasks -> Row]
    BY <2>1, <2>3, RowPut
  <2>5. run' \in Runs
    BY <2>2, <2>3, StalePut
  <2> QED BY <1>a, <2>3, <2>4, <2>5, TypeParts
<1>10. CASE FinishRejected(p, t)
  <2>1. run' \in Runs
    BY <1>10, <1>e, StopType DEF FinishRejected
  <2> QED BY <1>10, <1>k, <1>a, <2>1, TypeParts DEF FinishRejected
<1>11. CASE CompleteClaim(p, t)
  <2> DEFINE x == Finalized(row[t])
             y == FinalStatus(row[t])
  <2>1. x \in Row
    BY <1>r, RowOperators DEF Runnable
  <2>2. y \in AttemptStatuses
    BY DEF FinalStatus, AttemptStatuses
  <2>3. \/ Settle(p, t, x, y) \/ Abandon(p, t)
        \/ /\ UNCHANGED row /\ UNCHANGED attempt
           /\ \E e \in Failures :
                run' = [run EXCEPT ![p][t] = [@ EXCEPT !.pc = "failed", !.exc = e]]
    BY <1>11 DEF CompleteClaim, Failures
  <2> HIDE DEF x, y
  <2>4. CASE Settle(p, t, x, y) \/ Abandon(p, t)
    BY <2>1, <2>2, <2>4, SettleType
  <2>5. CASE /\ UNCHANGED row /\ UNCHANGED attempt
             /\ \E e \in Failures :
                  run' = [run EXCEPT ![p][t] = [@ EXCEPT !.pc = "failed", !.exc = e]]
    <3>1. run' \in Runs
      BY <2>5, StopType
    <3> QED BY <1>k, <1>a, <2>5, <3>1, TypeParts
  <2> QED BY <2>3, <2>4, <2>5
<1>12. CASE FailClaim(p, t)
  <2> DEFINE x == FailRow(t, run[p][t].phase, run[p][t].exc)
             y == FailStatus(t, run[p][t].phase, run[p][t].exc)
  <2>1. run[p][t].phase \in Runnable /\ run[p][t].exc \in Failures
    BY <1>r DEF Run
  <2>2. x \in Row /\ y \in AttemptStatuses
    BY <2>1, FailRowType
  <2>3. Settle(p, t, x, y) \/ Abandon(p, t)
    BY <1>12 DEF FailClaim
  <2> HIDE DEF x, y
  <2> QED BY <2>2, <2>3, SettleType
<1>13. CASE ReleaseCancelled(p, t)
  <2> DEFINE x == ClearLease([Interrupt(row[t]) EXCEPT !.backoff = FALSE])
  <2>1. [Interrupt(row[t]) EXCEPT !.backoff = FALSE] \in Row
    BY <1>r DEF Interrupt, Row, Statuses
  <2>2. x \in Row
    BY <2>1, RowOperators DEF Runnable
  <2>3. Settle(p, t, x, "CANCELLED") \/ Abandon(p, t)
    BY <1>13 DEF ReleaseCancelled
  <2>4. "CANCELLED" \in AttemptStatuses
    BY DEF AttemptStatuses
  <2> HIDE DEF x
  <2> QED BY <2>2, <2>3, <2>4, SettleType
<1>14. CASE ReleaseUnstarted(p, t)
  <2> DEFINE x == ClearLease(row[t])
  <2>1. x \in Row
    BY <1>r, RowOperators DEF Runnable
  <2>2. Settle(p, t, x, "CANCELLED") \/ Abandon(p, t)
    BY <1>14 DEF ReleaseUnstarted
  <2>3. "CANCELLED" \in AttemptStatuses
    BY DEF AttemptStatuses
  <2> HIDE DEF x
  <2> QED BY <2>1, <2>2, <2>3, SettleType
<1>15. CASE SkipLocked(p, t)
  <2>1. "CANCELLED" \in AttemptStatuses
    BY DEF AttemptStatuses
  <2> QED BY <1>15, <1>r, <2>1, SettleType DEF SkipLocked
<1>16. CASE Heartbeat(p, t)
  <2>0. PICK n \in 1 .. LeaseTicks : row' = [row EXCEPT ![t].ttl = n]
    BY <1>16 DEF Heartbeat
  <2> DEFINE x == [row[t] EXCEPT !.ttl = n]
  <2>1. x \in Row
    BY <1>r, Bounds DEF Row
  <2>2. row' = [row EXCEPT ![t] = x] /\ UNCHANGED attempt /\ UNCHANGED run
    BY <1>16, <2>0 DEF Heartbeat
  <2> HIDE DEF x
  <2> QED BY <1>a, <2>1, <2>2, DurableType
<1>17. CASE LoseLease(p, t)
  <2>1. run' \in Runs
    BY <1>17, <1>e, StopType DEF LoseLease
  <2> QED BY <1>17, <1>k, <1>a, <2>1, TypeParts DEF LoseLease
<1>18. CASE StopAction(p, t)
  <2>1. run' \in Runs
    BY <1>18, <1>e, StopType DEF StopAction
  <2> QED BY <1>18, <1>k, <1>a, <2>1, TypeParts DEF StopAction
<1> QED BY <1>1, <1>2, <1>3, <1>4, <1>5, <1>6, <1>7, <1>8, <1>9, <1>10, <1>11, <1>12,
           <1>13, <1>14, <1>15, <1>16, <1>17, <1>18 DEF Work

\* Every command keeps the types.
LEMMA CommandType ==
  ASSUME TypeOK, NEW p \in Procs, NEW t \in Tasks, Command(p, t)
  PROVE  TypeOK'
<1>r. row[t] \in Row
  BY Lookup
<1>a. UNCHANGED attempt => attempt' \in Attempts
  BY TypeKept
<1>i. ASSUME NEW local \in BOOLEAN PROVE Interrupted(row[t], local) \in Row
  BY <1>r, RowOperators DEF Runnable
<1>1. CASE CancelTask(p, t)
  <2> DEFINE x == [row[t] EXCEPT !.status = "ERROR", !.cancel = (row[t].lease # 0),
                                 !.backoff = FALSE, !.reasons = {}]
  <2>1. x \in Row
    BY <1>r DEF Row, Statuses
  <2>2. row' = [row EXCEPT ![t] = x] /\ run' = LocalCancel(p, t) /\ UNCHANGED attempt
    BY <1>1 DEF CancelTask
  <2> HIDE DEF x
  <2> QED BY <1>a, <2>1, <2>2, DurableType
<1>2. CASE PauseTask(p, t)
  <2> DEFINE y(local) == IF local \/ row[t].lease # 0 THEN Interrupted(row[t], local) ELSE row[t]
             x(local) == [y(local) EXCEPT !.reasons = @ \cup {"user"}]
  <2>1. ASSUME NEW local \in BOOLEAN PROVE x(local) \in Row
    <3>1. y(local) \in Row
      BY <1>i, <1>r
    <3> HIDE DEF y
    <3> QED BY <3>1 DEF Row, Reasons
  <2>2. \A queued \in BOOLEAN : CancelledLocally(p, t, queued) \in BOOLEAN
    BY DEF CancelledLocally
  <2>3. PICK local \in BOOLEAN : row' = [row EXCEPT ![t] = x(local)]
    BY <1>2, <2>2 DEF PauseTask
  <2>4. run' = LocalCancel(p, t) /\ UNCHANGED attempt
    BY <1>2 DEF PauseTask
  <2> HIDE DEF x
  <2> QED BY <1>a, <2>1, <2>3, <2>4, DurableType
<1>3. CASE PreemptTask(p, t)
  <2> DEFINE x(local) == Interrupted(row[t], local)
  <2>1. \A queued \in BOOLEAN : CancelledLocally(p, t, queued) \in BOOLEAN
    BY DEF CancelledLocally
  <2>2. PICK local \in BOOLEAN : row' = [row EXCEPT ![t] = x(local)]
    BY <1>3, <2>1 DEF PreemptTask
  <2>3. run' = LocalCancel(p, t) /\ UNCHANGED attempt
    BY <1>3 DEF PreemptTask
  <2>4. x(local) \in Row
    BY <1>i
  <2> HIDE DEF x
  <2> QED BY <1>a, <2>2, <2>3, <2>4, DurableType
<1>4. ASSUME NEW x \in Row, Terminate(p, t, x) PROVE TypeOK'
  <2>1. "CANCELLED" \in AttemptStatuses
    BY DEF AttemptStatuses
  <2>2. attempt' \in Attempts
    BY <1>4, <1>a, <2>1, AttemptPut DEF Terminate
  <2> QED BY <1>4, <2>2, DurableType DEF Terminate
<1>5. CASE ForceTerminate(p, t)
  <2>1. TerminatedRow(row[t]) \in Row
    BY <1>r, RowOperators DEF Runnable
  <2> QED BY <1>4, <1>5, <2>1 DEF ForceTerminate
<1>6. CASE DeleteTask(p, t)
  <2> DEFINE x == [TerminatedRow(row[t]) EXCEPT !.deleted = TRUE]
  <2>1. TerminatedRow(row[t]) \in Row
    BY <1>r, RowOperators DEF Runnable
  <2>2. x \in Row
    BY <2>1 DEF Row
  <2>3. Terminate(p, t, x)
    BY <1>6 DEF DeleteTask
  <2> HIDE DEF x
  <2> QED BY <1>4, <2>2, <2>3
<1> QED BY <1>1, <1>2, <1>3, <1>5, <1>6 DEF Command

\* Every durable step keeps the types.
LEMMA DurableStepType ==
  ASSUME TypeOK, NEW t \in Tasks, Durable(t)
  PROVE  TypeOK'
<1>r. row[t] \in Row
  BY DEF TypeOK
<1>a. UNCHANGED attempt => attempt' \in Attempts
  BY TypeKept
<1>1. CASE ResumeTask(t)
  <2> DEFINE x == [row[t] EXCEPT !.reasons = @ \ {"user"}]
  <2>1. x \in Row
    BY <1>r DEF Row
  <2>2. row' = [row EXCEPT ![t] = x] /\ run' = Stale(t) /\ UNCHANGED attempt
    BY <1>1 DEF ResumeTask
  <2> HIDE DEF x
  <2> QED BY <1>a, <2>1, <2>2, DurableType
<1>2. CASE RunTask(t)
  <2> DEFINE x == [row[t] EXCEPT !.reasons = {}]
  <2>1. x \in Row
    BY <1>r DEF Row
  <2>2. row' = [row EXCEPT ![t] = x] /\ run' = Stale(t) /\ UNCHANGED attempt
    BY <1>2 DEF RunTask
  <2> HIDE DEF x
  <2> QED BY <1>a, <2>1, <2>2, DurableType
<1>3. CASE RetryTask(t)
  <2> DEFINE x(c) == [row[t] EXCEPT !.status = "DISPATCH", !.reasons = {}, !.backoff = FALSE,
                                    !.failures = 0, !.cancel = FALSE, !.receipt = c]
  <2>1. row[t].receipt \in Receipts
    BY <1>r DEF Row
  <2>2. RetryReceipts(row[t].receipt) \subseteq Receipts
    BY <2>1 DEF RetryReceipts, Receipts
  <2>3. ASSUME NEW c \in Receipts PROVE x(c) \in Row
    BY <1>r DEF Row, Statuses
  <2>4. PICK c \in Receipts : row' = [row EXCEPT ![t] = x(c)]
    BY <1>3, <2>2 DEF RetryTask
  <2>5. run' = Stale(t) /\ UNCHANGED attempt
    BY <1>3 DEF RetryTask
  <2> HIDE DEF x
  <2> QED BY <1>a, <2>3, <2>4, <2>5, DurableType
<1>4. CASE FanIn(t)
  <2> DEFINE x == [row[t] EXCEPT !.reasons = @ \ {"child"}]
  <2>1. x \in Row
    BY <1>r DEF Row
  <2>2. row' = [row EXCEPT ![t] = x] /\ run' = Stale(t) /\ UNCHANGED attempt
    BY <1>4 DEF FanIn
  <2> HIDE DEF x
  <2> QED BY <1>a, <2>1, <2>2, DurableType
<1>5. CASE WakeApproval(t)
  <2> DEFINE rs == row[t].reasons \ {"approval"}
             y == IF rs = {} THEN Interrupt(row[t]) ELSE row[t]
             x == [y EXCEPT !.reasons = rs]
  <2>1. y \in Row
    BY <1>r, RowOperators DEF Runnable
  <2>2. rs \in SUBSET Reasons
    BY <1>r DEF Row
  <2>3. x \in Row
    <3> HIDE DEF y, rs
    <3> QED BY <2>1, <2>2 DEF Row
  <2>4. row' = [row EXCEPT ![t] = x] /\ run' = Stale(t) /\ UNCHANGED attempt
    BY <1>5 DEF WakeApproval
  <2> HIDE DEF x
  <2> QED BY <1>a, <2>3, <2>4, DurableType
<1>6. CASE RecoverExpired(t)
  <2> DEFINE x == FailRow(t, row[t].phase, "ordinary")
             y == FailStatus(t, row[t].phase, "ordinary")
  <2>1. row[t].phase \in Runnable /\ "ordinary" \in Failures
    BY <1>r DEF Row, Failures
  <2>2. x \in Row /\ y \in AttemptStatuses
    BY <2>1, FailRowType
  <2>3. row' = [row EXCEPT ![t] = x] /\ run' = Stale(t)
        /\ attempt' = [attempt EXCEPT ![t][row[t].lease] = y]
    BY <1>6 DEF RecoverExpired
  <2> HIDE DEF x, y
  <2>4. attempt' \in Attempts
    BY <2>2, <2>3, AttemptPut
  <2> QED BY <2>2, <2>3, <2>4, DurableType
<1>7. CASE RecoverOrphan(t)
  <2> DEFINE x == [row[t] EXCEPT !.status = IF RetryIsSafe(row[t], "DISPATCH") THEN "DISPATCH" ELSE "ERROR",
                                 !.backoff = FALSE]
  <2>1. x \in Row
    BY <1>r DEF Row, Statuses
  <2>2. row' = [row EXCEPT ![t] = x] /\ run' = Stale(t) /\ UNCHANGED attempt
    BY <1>7 DEF RecoverOrphan
  <2> HIDE DEF x
  <2> QED BY <1>a, <2>1, <2>2, DurableType
<1>8. CASE Tick(t)
  <2> DEFINE l == row[t].lapsed \/ row[t].ttl = 1
             x == [row[t] EXCEPT !.ttl = row[t].ttl - 1, !.lapsed = l]
  <2>l. l \in BOOLEAN
    OBVIOUS
  <2>1. row[t].ttl \in 0 .. LeaseTicks /\ row[t].ttl > 0
    BY <1>8, <1>r DEF Tick, Row
  <2>2. row[t].ttl - 1 \in 0 .. LeaseTicks
    BY <2>1, SchedulerAssumption DEF SchedulerAssumption
  <2>3. x \in Row
    <3> HIDE DEF l
    <3> QED BY <1>r, <2>l, <2>2 DEF Row
  <2>4. row' = [row EXCEPT ![t] = x] /\ UNCHANGED run /\ UNCHANGED attempt
    BY <1>8 DEF Tick
  <2> HIDE DEF x
  <2> QED BY <1>a, <2>3, <2>4, DurableType
<1>9. CASE BackoffElapses(t)
  <2> DEFINE x == [row[t] EXCEPT !.backoff = FALSE]
  <2>1. x \in Row
    BY <1>r DEF Row
  <2>2. row' = [row EXCEPT ![t] = x] /\ UNCHANGED run /\ UNCHANGED attempt
    BY <1>9 DEF BackoffElapses
  <2> HIDE DEF x
  <2> QED BY <1>a, <2>1, <2>2, DurableType
<1> QED BY <1>1, <1>2, <1>3, <1>4, <1>5, <1>6, <1>7, <1>8, <1>9 DEF Durable

\* Every step of the scheduler keeps the types.
LEMMA TypeStep == TypeOK /\ [Next]_vars => TypeOK'
<1> SUFFICES ASSUME TypeOK, [Next]_vars PROVE TypeOK'
  OBVIOUS
<1>1. CASE UNCHANGED vars
  BY <1>1 DEF TypeOK, vars
<1>2. ASSUME NEW p \in Procs, Crash(p) PROVE TypeOK'
  <2>1. [t \in Tasks |-> IdleRun] \in [Tasks -> Run]
    BY Bounds DEF IdleRun, Run, Runnable, Failures
  <2>2. run' \in Runs
    BY <1>2, <2>1 DEF Crash, TypeOK, Runs
  <2> QED BY <1>2, <2>2, TypeKept, TypeParts DEF Crash
<1> QED BY <1>1, <1>2, ClaimType, WorkType, CommandType, DurableStepType DEF Next

\* Every reachable state of the scheduler has the declared types: statuses,
\* reasons and receipts stay in their sets, tokens within attempt_count.
THEOREM TypeCorrect == Spec => []TypeOK
<1>1. Init => TypeOK
  <2> SUFFICES ASSUME Init PROVE TypeOK
    OBVIOUS
  <2>1. \A s \in Runnable, rs \in {{}, {"user"}} : FreshRow(s, rs) \in Row
    BY Bounds DEF FreshRow, Row, Runnable, Statuses, Reasons, Receipts
  <2>2. row \in [Tasks -> Row]
    BY <2>1 DEF Init
  <2>3. attempt \in [Tasks -> [1 .. MaxClaims -> AttemptStatuses]]
    BY DEF Init, AttemptStatuses
  <2>4. IdleRun \in Run
    BY Bounds DEF IdleRun, Run, Runnable, Failures
  <2>5. run \in [Procs -> [Tasks -> Run]]
    BY <2>4 DEF Init
  <2> QED BY <2>2, <2>3, <2>5 DEF TypeOK
<1> QED BY <1>1, TypeStep, PTL DEF Spec

-----------------------------------------------------------------------------
(* Ownership of claims                                                       *)

\* What makes the ledger's promises inductive: a lease is the newest claim and
\* its attempt is open, attempts beyond attempt_count do not exist, and a
\* worker at work holds a claim that was taken, alone.
Ownership ==
  /\ LeaseNamesNewestClaim
  /\ ClaimHasOneRunner
  /\ \A t \in Tasks : \A n \in 1 .. MaxClaims : n > row[t].claims => attempt[t][n] = "NONE"
  /\ \A p \in Procs, t \in Tasks :
       /\ run[p][t].pc = "idle" <=> run[p][t].token = 0
       /\ run[p][t].token <= row[t].claims

\* The run w after a step that takes no claim, when it was v before: it keeps
\* its token and goes on, or it is over.
GoesOn(v, w) ==
  \/ w.token = v.token /\ (w.pc = "idle" <=> v.pc = "idle")
  \/ w.token = 0 /\ w.pc = "idle"

\* A step on the runs of t, by no claim.
RunKeeps(t) ==
  \A q \in Procs :
    /\ GoesOn(run[q][t], run'[q][t])
    /\ \A u \in Tasks \ {t} : run'[q][u] = run[q][u]

\* A step on the row of t that leaves its lease alone, or clears it and closes
\* the attempt it named.
RowKeeps(t) ==
  \/ \E r \in Row :
       /\ row' = [row EXCEPT ![t] = r]
       /\ r.claims = row[t].claims /\ r.lease = row[t].lease
       /\ UNCHANGED attempt
  \/ \E r \in Row : \E x \in AttemptStatuses \ {"NONE", "CLAIMED"} :
       /\ row' = [row EXCEPT ![t] = r]
       /\ r.claims = row[t].claims /\ r.lease = 0
       /\ row[t].lease # 0
       /\ attempt' = [attempt EXCEPT ![t][row[t].lease] = x]

\* Making copies stale changes no token and no program counter.
LEMMA StaleFacts ==
  ASSUME TypeOK, NEW t \in Tasks, NEW q \in Procs, NEW u \in Tasks
  PROVE  /\ Stale(t)[q][u].token = run[q][u].token
         /\ Stale(t)[q][u].pc = run[q][u].pc
         /\ u # t => Stale(t)[q][u] = run[q][u]
         /\ Stale(t)[q][t].fresh = FALSE
         /\ Stale(t)[q][t].phase = run[q][t].phase
         /\ Stale(t)[q] \in [Tasks -> Run]
<1>1. run[q] \in [Tasks -> Run] /\ run[q][u] \in Run /\ run[q][t] \in Run
  BY DEF TypeOK
<1>2. Stale(t)[q] = [run[q] EXCEPT ![t].fresh = FALSE]
  BY DEF Stale
<1>3. Stale(t)[q][t] = [run[q][t] EXCEPT !.fresh = FALSE]
  BY <1>1, <1>2
<1>4. u # t => Stale(t)[q][u] = run[q][u]
  BY <1>1, <1>2
<1>5. Stale(t)[q] \in [Tasks -> Run]
  <2>1. [run[q][t] EXCEPT !.fresh = FALSE] \in Run
    BY <1>1 DEF Run
  <2> QED BY <1>1, <1>2, <2>1
<1> QED BY <1>1, <1>3, <1>4, <1>5 DEF Run

\* A stale step keeps the runs.
LEMMA StaleKeeps ==
  ASSUME TypeOK, NEW t \in Tasks, run' = Stale(t)
  PROVE  RunKeeps(t)
BY StaleFacts DEF RunKeeps, GoesOn

\* So does a step that also moves one run of t on, or ends it.
LEMMA StalePutKeeps ==
  ASSUME TypeOK, NEW t \in Tasks, NEW p \in Procs, NEW w, GoesOn(run[p][t], w),
         run' = [Stale(t) EXCEPT ![p][t] = w]
  PROVE  RunKeeps(t)
<1>1. Stale(t) = [q \in Procs |-> [run[q] EXCEPT ![t].fresh = FALSE]]
  BY DEF Stale
<1>2. \A q \in Procs : Stale(t)[q] \in [Tasks -> Run]
  BY StaleFacts
<1>3. run'[p][t] = w
  BY <1>1, <1>2
<1>4. \A q \in Procs, u \in Tasks : (q # p \/ u # t) => run'[q][u] = Stale(t)[q][u]
  BY <1>1, <1>2
<1>5. \A q \in Procs, u \in Tasks : /\ Stale(t)[q][u].token = run[q][u].token
                                    /\ Stale(t)[q][u].pc = run[q][u].pc
                                    /\ u # t => Stale(t)[q][u] = run[q][u]
  BY StaleFacts
<1>6. ASSUME NEW q \in Procs
      PROVE  GoesOn(run[q][t], run'[q][t]) /\ \A u \in Tasks \ {t} : run'[q][u] = run[q][u]
  <2>1. CASE q = p
    BY <1>3, <1>4, <1>5, <2>1
  <2>2. CASE q # p
    BY <1>4, <1>5, <2>2 DEF GoesOn
  <2> QED BY <2>1, <2>2
<1> QED BY <1>6 DEF RunKeeps

\* So does a step that only moves one run of t on, or ends it.
LEMMA RunPutKeeps ==
  ASSUME TypeOK, NEW t \in Tasks, NEW p \in Procs, NEW w, GoesOn(run[p][t], w),
         run' = [run EXCEPT ![p][t] = w]
  PROVE  RunKeeps(t)
<1>1. run'[p][t] = w
  BY DEF TypeOK
<1>2. \A q \in Procs, u \in Tasks : (q # p \/ u # t) => run'[q][u] = run[q][u]
  BY DEF TypeOK
<1> QED BY <1>1, <1>2 DEF RunKeeps, GoesOn

\* So does the local cancellation of a command.
LEMMA LocalCancelKeeps ==
  ASSUME TypeOK, NEW t \in Tasks, NEW p \in Procs, run' = LocalCancel(p, t)
  PROVE  RunKeeps(t)
<1> DEFINE v == run[p][t]
           w == CASE v.pc \in Working -> [v EXCEPT !.pc = "stopped", !.fresh = FALSE]
                  [] v.pc \in {"done", "failed"} -> IdleRun
                  [] OTHER -> v
<1>1. v \in Run
  BY Lookup
<1>2. GoesOn(v, w)
  <2>1. CASE v.pc \in Working
    <3>1. w = [v EXCEPT !.pc = "stopped", !.fresh = FALSE]
      BY <2>1 DEF Working
    <3> QED BY <1>1, <2>1, <3>1 DEF GoesOn, Run, Working
  <2>2. CASE v.pc \in {"done", "failed"}
    <3>1. w = IdleRun
      BY <2>2 DEF Working
    <3>2. IdleRun.token = 0 /\ IdleRun.pc = "idle"
      BY DEF IdleRun
    <3> HIDE DEF w
    <3> QED BY <3>1, <3>2 DEF GoesOn
  <2>3. CASE v.pc \notin Working /\ v.pc \notin {"done", "failed"}
    BY <2>3 DEF GoesOn
  <2> QED BY <2>1, <2>2, <2>3
<1>3. run' = [Stale(t) EXCEPT ![p][t] = w]
  BY DEF LocalCancel
<1> HIDE DEF w
<1> QED BY <1>2, <1>3, StalePutKeeps

\* The rows that settle a claim clear its lease and keep attempt_count.
LEMMA ClearedRows ==
  ASSUME NEW r \in Row, NEW phase \in Runnable
  PROVE  /\ ClearLease(r).lease = 0 /\ ClearLease(r).claims = r.claims
         /\ Finalized(r).lease = 0 /\ Finalized(r).claims = r.claims
         /\ RetryRow(r, phase).lease = 0 /\ RetryRow(r, phase).claims = r.claims
         /\ FailedRow(r).lease = 0 /\ FailedRow(r).claims = r.claims
         /\ TerminatedRow(r).lease = 0 /\ TerminatedRow(r).claims = r.claims
         /\ Interrupt(r).lease = r.lease /\ Interrupt(r).claims = r.claims
BY DEF ClearLease, Finalized, RetryRow, FailedRow, TerminatedRow, Interrupt, Row

\* So does a failed claim, which settles its attempt.
LEMMA FailFacts ==
  ASSUME TypeOK, NEW t \in Tasks, NEW phase \in Runnable, NEW e \in Failures
  PROVE  /\ FailRow(t, phase, e).lease = 0
         /\ FailRow(t, phase, e).claims = row[t].claims
         /\ FailStatus(t, phase, e) \in AttemptStatuses \ {"NONE", "CLAIMED"}
<1> DEFINE r == [row[t] EXCEPT !.failures = @ + 1]
<1>1. row[t] \in Row
  BY DEF TypeOK
<1>2. r \in Row /\ r.claims = row[t].claims
  BY <1>1 DEF Row
<1>3. FailRow(t, phase, e) \in {Finalized(row[t]), RetryRow(r, phase), FailedRow(r)}
  BY <1>1 DEF FailRow
<1>4. FailStatus(t, phase, e) \in AttemptStatuses \ {"NONE", "CLAIMED"}
  BY DEF FailStatus, FinalStatus, AttemptStatuses
<1> HIDE DEF r
<1> QED BY <1>1, <1>2, <1>3, <1>4, ClearedRows

\* A step that writes neither the row nor the attempts of t.
LEMMA RowSame ==
  ASSUME TypeOK, NEW t \in Tasks, UNCHANGED row, UNCHANGED attempt
  PROVE  RowKeeps(t)
<1>1. row[t] \in Row /\ row' = [row EXCEPT ![t] = row[t]]
  BY DEF TypeOK
<1> QED BY <1>1 DEF RowKeeps

\* A step that writes the row of t and leaves its claim alone.
LEMMA RowEdit ==
  ASSUME TypeOK, NEW t \in Tasks, NEW r \in Row, row' = [row EXCEPT ![t] = r],
         r.claims = row[t].claims, r.lease = row[t].lease, UNCHANGED attempt
  PROVE  RowKeeps(t)
BY DEF RowKeeps

\* A step that moves one run of t on.
LEMMA MovesOn ==
  ASSUME TypeOK, Ownership, NEW p \in Procs, NEW t \in Tasks, run[p][t].pc # "idle",
         NEW pc \in Working \cup Settling, NEW e, NEW v,
         \/ Goto(p, t, pc)
         \/ run' = [run EXCEPT ![p][t] = [@ EXCEPT !.pc = pc, !.exc = e]]
         \/ run' = [run EXCEPT ![p][t] = [@ EXCEPT !.pc = pc, !.fresh = FALSE, !.exc = e]]
         \/ run' = [run EXCEPT ![p][t] = [@ EXCEPT !.pc = pc, !.fresh = FALSE]]
         \/ run' = [run EXCEPT ![p][t] = [@ EXCEPT !.pc = pc, !.view = v, !.fresh = TRUE]]
  PROVE  RunKeeps(t)
<1> DEFINE w1 == [run[p][t] EXCEPT !.pc = pc]
           w2 == [run[p][t] EXCEPT !.pc = pc, !.exc = e]
           w3 == [run[p][t] EXCEPT !.pc = pc, !.fresh = FALSE, !.exc = e]
           w4 == [run[p][t] EXCEPT !.pc = pc, !.fresh = FALSE]
           w5 == [run[p][t] EXCEPT !.pc = pc, !.view = v, !.fresh = TRUE]
<1>1. run[p][t] \in Run /\ pc # "idle"
  BY Lookup DEF Working, Settling
<1>2. /\ GoesOn(run[p][t], w1) /\ GoesOn(run[p][t], w2) /\ GoesOn(run[p][t], w3)
      /\ GoesOn(run[p][t], w4) /\ GoesOn(run[p][t], w5)
  BY <1>1 DEF GoesOn, Run
<1>3. \/ run' = [run EXCEPT ![p][t] = w1]
      \/ run' = [run EXCEPT ![p][t] = w2]
      \/ run' = [run EXCEPT ![p][t] = w3]
      \/ run' = [run EXCEPT ![p][t] = w4]
      \/ run' = [run EXCEPT ![p][t] = w5]
  BY DEF Goto
<1> HIDE DEF w1, w2, w3, w4, w5
<1>4. CASE run' = [run EXCEPT ![p][t] = w1]
  BY <1>2, <1>4, RunPutKeeps
<1>5. CASE run' = [run EXCEPT ![p][t] = w2]
  BY <1>2, <1>5, RunPutKeeps
<1>6. CASE run' = [run EXCEPT ![p][t] = w3]
  BY <1>2, <1>6, RunPutKeeps
<1>7. CASE run' = [run EXCEPT ![p][t] = w4]
  BY <1>2, <1>7, RunPutKeeps
<1>8. CASE run' = [run EXCEPT ![p][t] = w5]
  BY <1>2, <1>8, RunPutKeeps
<1> QED BY <1>3, <1>4, <1>5, <1>6, <1>7, <1>8

\* A save keeps the claim.
LEMMA SaveKeeps ==
  ASSUME TypeOK, Ownership, NEW p \in Procs, NEW t \in Tasks, NEW r \in Row,
         NEW pc \in Working \cup Settling, run[p][t].pc # "idle",
         r.claims = row[t].claims, r.lease = row[t].lease,
         Save(p, t, r, pc), UNCHANGED attempt
  PROVE  RowKeeps(t) /\ RunKeeps(t)
<1> DEFINE w == [Stale(t)[p][t] EXCEPT !.pc = pc, !.fresh = (pc = "routed")]
<1>1. CASE run[p][t].fresh
  <2>1. row' = [row EXCEPT ![t] = r] /\ run' = [Stale(t) EXCEPT ![p][t] = w]
    BY <1>1 DEF Save
  <2>2. Stale(t)[p][t] \in Run /\ pc # "idle"
        /\ Stale(t)[p][t].token = run[p][t].token
    BY Lookup, StaleFacts DEF Working, Settling
  <2>3. GoesOn(run[p][t], w)
    BY <2>2 DEF GoesOn, Run
  <2> HIDE DEF w
  <2> QED BY <2>1, <2>3, RowEdit, StalePutKeeps
<1>2. CASE ~run[p][t].fresh
  <2>1. UNCHANGED row
        /\ run' = [run EXCEPT ![p][t] = [@ EXCEPT !.pc = "failed", !.exc = "ordinary"]]
    BY <1>2 DEF Save
  <2>2. "failed" \in Working \cup Settling
    BY DEF Settling
  <2> QED BY <2>1, <2>2, RowSame, MovesOn
<1> QED BY <1>1, <1>2

\* Settling or abandoning a claim keeps the ledger's rules.
LEMMA SettleKeeps ==
  ASSUME TypeOK, Ownership, NEW p \in Procs, NEW t \in Tasks, NEW r \in Row,
         NEW x \in AttemptStatuses \ {"NONE", "CLAIMED"},
         r.claims = row[t].claims, r.lease = 0, run[p][t].pc # "idle",
         (Owns(p, t) /\ Settle(p, t, r, x)) \/ Abandon(p, t)
  PROVE  RowKeeps(t) /\ RunKeeps(t)
<1>1. GoesOn(run[p][t], IdleRun)
  BY DEF GoesOn, IdleRun
<1>2. CASE Owns(p, t) /\ Settle(p, t, r, x)
  <2>1. row[t].lease = run[p][t].token /\ run[p][t].token # 0
    BY <1>2 DEF Owns, Ownership
  <2>2. RowKeeps(t)
    BY <1>2, <2>1 DEF Settle, RowKeeps
  <2>3. RunKeeps(t)
    BY <1>1, <1>2, StalePutKeeps DEF Settle
  <2> QED BY <2>2, <2>3
<1>3. CASE Abandon(p, t)
  <2>1. RowKeeps(t)
    BY <1>3, RowSame DEF Abandon
  <2>2. RunKeeps(t)
    BY <1>1, <1>3, RunPutKeeps DEF Abandon
  <2> QED BY <2>1, <2>2
<1> QED BY <1>2, <1>3

\* No step of a worker breaks the ledger's rules.
LEMMA WorkKeeps ==
  ASSUME TypeOK, Ownership, NEW p \in Procs, NEW t \in Tasks, Work(p, t)
  PROVE  RowKeeps(t) /\ RunKeeps(t)
<1>r. row[t] \in Row /\ run[p][t] \in Run /\ Stale(t)[p][t] \in Run
  BY Lookup
<1>w. Working \cup Settling \subseteq {"claimed", "loaded", "routed", "started", "driver",
                                        "result", "done", "failed", "stopped"}
      /\ {"claimed", "loaded", "routed", "started", "driver",
          "result", "done", "failed", "stopped"} \subseteq Working \cup Settling
  BY DEF Working, Settling
<1>1. CASE Load(p, t)
  <2>1. UNCHANGED row /\ UNCHANGED attempt /\ run[p][t].pc # "idle"
    BY <1>1 DEF Load
  <2>2. RunKeeps(t)
    BY <1>1, <1>w, <2>1, MovesOn, ZenonT(30) DEF Load
  <2> QED BY <2>1, <2>2, RowSame
<1>2. CASE RouteTrace(p, t)
  <2> DEFINE x == [row[t] EXCEPT !.status = "ERROR", !.reasons = {}]
  <2>1. x \in Row /\ x.claims = row[t].claims /\ x.lease = row[t].lease
    BY <1>r DEF Row, Statuses
  <2>2. UNCHANGED attempt /\ run[p][t].pc # "idle"
        /\ (Save(p, t, row[t], "routed") \/ Save(p, t, x, "done"))
    BY <1>2 DEF RouteTrace
  <2> HIDE DEF x
  <2> QED BY <1>r, <1>w, <2>1, <2>2, SaveKeeps
<1>3. CASE Route(p, t)
  <2> DEFINE x == [row[t] EXCEPT !.status = "DISPATCH"]
  <2>1. x \in Row /\ x.claims = row[t].claims /\ x.lease = row[t].lease
    BY <1>r DEF Row, Statuses
  <2>2. UNCHANGED attempt /\ run[p][t].pc # "idle" /\ Save(p, t, x, "done")
    BY <1>3 DEF Route
  <2> HIDE DEF x
  <2> QED BY <1>w, <2>1, <2>2, SaveKeeps
<1>4. CASE StartExecution(p, t)
  <2> DEFINE x == [row[t] EXCEPT !.status = "EXEC"]
  <2>1. x \in Row /\ x.claims = row[t].claims /\ x.lease = row[t].lease
    BY <1>r DEF Row, Statuses
  <2>2. UNCHANGED attempt /\ run[p][t].pc # "idle" /\ Save(p, t, x, "started")
    BY <1>4 DEF StartExecution
  <2> HIDE DEF x
  <2> QED BY <1>w, <2>1, <2>2, SaveKeeps
<1>5. CASE Activate(p, t)
  <2> DEFINE x == [row[t] EXCEPT !.receipt = IF @ = "resumable" THEN "resumable" ELSE "admitted"]
             w == [Stale(t)[p][t] EXCEPT !.pc = "driver"]
  <2>1. x \in Row /\ x.claims = row[t].claims /\ x.lease = row[t].lease
    BY <1>r DEF Row, Receipts
  <2>2. Stale(t)[p][t].token = run[p][t].token /\ run[p][t].pc # "idle"
    BY <1>5, StaleFacts DEF Activate
  <2>3. GoesOn(run[p][t], w)
    BY <1>r, <2>2 DEF GoesOn, Run
  <2>4. /\ UNCHANGED attempt
        /\ \/ UNCHANGED row /\ Goto(p, t, "driver")
           \/ UNCHANGED row /\ Goto(p, t, "stopped")
           \/ row' = [row EXCEPT ![t] = x] /\ run' = [Stale(t) EXCEPT ![p][t] = w]
    BY <1>5 DEF Activate
  <2> HIDE DEF x, w
  <2>5. CASE UNCHANGED row /\ (Goto(p, t, "driver") \/ Goto(p, t, "stopped"))
    BY <1>w, <2>2, <2>4, <2>5, RowSame, MovesOn
  <2>6. CASE row' = [row EXCEPT ![t] = x] /\ run' = [Stale(t) EXCEPT ![p][t] = w]
    BY <2>1, <2>3, <2>4, <2>6, RowEdit, StalePutKeeps
  <2> QED BY <2>4, <2>5, <2>6
<1>6. CASE SaveCheckpoint(p, t)
  <2>1. /\ UNCHANGED attempt /\ run[p][t].pc # "idle"
        /\ \/ UNCHANGED row /\ Goto(p, t, "stopped")
           \/ UNCHANGED row /\ run' = [run EXCEPT ![p][t] = [@ EXCEPT !.pc = "failed", !.exc = "ordinary"]]
           \/ \E c \in {"resumable", "admitted"} :
                row' = [row EXCEPT ![t] = [row[t] EXCEPT !.receipt = c]] /\ run' = Stale(t)
    BY <1>6 DEF SaveCheckpoint
  <2>2. CASE UNCHANGED row /\ Goto(p, t, "stopped")
    BY <1>w, <2>1, <2>2, RowSame, MovesOn
  <2>3. CASE UNCHANGED row /\ run' = [run EXCEPT ![p][t] = [@ EXCEPT !.pc = "failed", !.exc = "ordinary"]]
    BY <1>w, <2>1, <2>3, RowSame, MovesOn
  <2>4. ASSUME NEW c \in {"resumable", "admitted"},
               row' = [row EXCEPT ![t] = [row[t] EXCEPT !.receipt = c]], run' = Stale(t)
        PROVE  RowKeeps(t) /\ RunKeeps(t)
    <3> DEFINE x == [row[t] EXCEPT !.receipt = c]
    <3>1. x \in Row /\ x.claims = row[t].claims /\ x.lease = row[t].lease
      BY <1>r DEF Row, Receipts
    <3>2. row' = [row EXCEPT ![t] = x]
      BY <2>4
    <3> HIDE DEF x
    <3> QED BY <2>1, <2>4, <3>1, <3>2, RowEdit, StaleKeeps
  <2> QED BY <2>1, <2>2, <2>3, <2>4
<1>7. CASE DriverReturns(p, t)
  <2>1. UNCHANGED row /\ UNCHANGED attempt /\ run[p][t].pc # "idle" /\ Goto(p, t, "result")
    BY <1>7 DEF DriverReturns
  <2> QED BY <1>w, <2>1, RowSame, MovesOn
<1>8. CASE ActionRaises(p, t)
  <2>1. UNCHANGED row /\ UNCHANGED attempt /\ run[p][t].pc # "idle"
        /\ \E e \in Failures :
             run' = [run EXCEPT ![p][t] = [@ EXCEPT !.pc = "failed", !.fresh = FALSE, !.exc = e]]
    BY <1>8 DEF ActionRaises, Working
  <2> QED BY <1>w, <2>1, RowSame, MovesOn
<1>9. CASE FinishExecution(p, t)
  <2>1. ASSUME NEW x \in Outcomes(row[t])
        PROVE  x \in Row /\ x.claims = row[t].claims /\ x.lease = row[t].lease
    <3>1. Interrupt(row[t]) \in Row /\ Interrupt(row[t]).claims = row[t].claims
          /\ Interrupt(row[t]).lease = row[t].lease
      BY <1>r DEF Interrupt, Row, Statuses
    <3>2. \A k \in BOOLEAN : ReceiptAfter(row[t], k) \subseteq Receipts
      BY DEF ReceiptAfter, Receipts
    <3>3. \E c \in Receipts :
            \/ x = [row[t] EXCEPT !.status = "SUCCESS", !.reasons = {}, !.receipt = c]
            \/ x = [row[t] EXCEPT !.status = "ERROR", !.reasons = {}, !.receipt = c]
            \/ x = [row[t] EXCEPT !.status = "DISPATCH", !.reasons = {"child"}, !.receipt = c]
            \/ x = [Interrupt(row[t]) EXCEPT !.reasons = @ \cup {"approval"}, !.receipt = c]
      BY <2>1, <3>2, Zenon DEF Outcomes
    <3>5. PICK c \in Receipts :
            \/ x = [row[t] EXCEPT !.status = "SUCCESS", !.reasons = {}, !.receipt = c]
            \/ x = [row[t] EXCEPT !.status = "ERROR", !.reasons = {}, !.receipt = c]
            \/ x = [row[t] EXCEPT !.status = "DISPATCH", !.reasons = {"child"}, !.receipt = c]
            \/ x = [Interrupt(row[t]) EXCEPT !.reasons = @ \cup {"approval"}, !.receipt = c]
      BY <3>3
    <3>6. CASE x = [row[t] EXCEPT !.status = "SUCCESS", !.reasons = {}, !.receipt = c]
      BY <1>r, <3>6 DEF Row, Statuses
    <3>7. CASE x = [row[t] EXCEPT !.status = "ERROR", !.reasons = {}, !.receipt = c]
      BY <1>r, <3>7 DEF Row, Statuses
    <3>8. CASE x = [row[t] EXCEPT !.status = "DISPATCH", !.reasons = {"child"}, !.receipt = c]
      BY <1>r, <3>8 DEF Row, Statuses, Reasons
    <3>9. CASE x = [Interrupt(row[t]) EXCEPT !.reasons = @ \cup {"approval"}, !.receipt = c]
      BY <3>1, <3>9 DEF Row, Reasons
    <3> QED BY <3>5, <3>6, <3>7, <3>8, <3>9
  <2> DEFINE w == [Stale(t)[p][t] EXCEPT !.pc = "done"]
  <2>2. Stale(t)[p][t].token = run[p][t].token /\ run[p][t].pc # "idle"
    BY <1>9, StaleFacts DEF FinishExecution
  <2>3. GoesOn(run[p][t], w)
    BY <1>r, <2>2 DEF GoesOn, Run
  <2>4. PICK x \in Outcomes(row[t]) : row' = [row EXCEPT ![t] = x]
    BY <1>9 DEF FinishExecution
  <2>5. UNCHANGED attempt /\ run' = [Stale(t) EXCEPT ![p][t] = w]
    BY <1>9 DEF FinishExecution
  <2> HIDE DEF w
  <2> QED BY <2>1, <2>3, <2>4, <2>5, RowEdit, StalePutKeeps
<1>10. CASE FinishRejected(p, t)
  <2>1. UNCHANGED row /\ UNCHANGED attempt /\ run[p][t].pc # "idle"
        /\ run' = [run EXCEPT ![p][t] = [@ EXCEPT !.pc = "failed", !.exc = "ordinary"]]
    BY <1>10 DEF FinishRejected
  <2> QED BY <1>w, <2>1, RowSame, MovesOn
<1>11. CASE CompleteClaim(p, t)
  <2> DEFINE x == Finalized(row[t])
             y == FinalStatus(row[t])
  <2>1. x \in Row /\ x.claims = row[t].claims /\ x.lease = 0
    BY <1>r, RowOperators, ClearedRows DEF Runnable
  <2>2. y \in AttemptStatuses \ {"NONE", "CLAIMED"}
    BY DEF FinalStatus, AttemptStatuses
  <2>3. /\ run[p][t].pc # "idle"
        /\ \/ Owns(p, t) /\ Settle(p, t, x, y)
           \/ Abandon(p, t)
           \/ /\ UNCHANGED row /\ UNCHANGED attempt
              /\ \E e \in Failures :
                   run' = [run EXCEPT ![p][t] = [@ EXCEPT !.pc = "failed", !.exc = e]]
    BY <1>11 DEF CompleteClaim, Failures
  <2> HIDE DEF x, y
  <2>4. CASE (Owns(p, t) /\ Settle(p, t, x, y)) \/ Abandon(p, t)
    BY <2>1, <2>2, <2>3, <2>4, SettleKeeps
  <2>5. CASE /\ UNCHANGED row /\ UNCHANGED attempt
             /\ \E e \in Failures :
                  run' = [run EXCEPT ![p][t] = [@ EXCEPT !.pc = "failed", !.exc = e]]
    BY <1>w, <2>3, <2>5, RowSame, MovesOn
  <2> QED BY <2>3, <2>4, <2>5
<1>12. CASE FailClaim(p, t)
  <2> DEFINE x == FailRow(t, run[p][t].phase, run[p][t].exc)
             y == FailStatus(t, run[p][t].phase, run[p][t].exc)
  <2>1. run[p][t].phase \in Runnable /\ run[p][t].exc \in Failures
    BY <1>r DEF Run
  <2>2. /\ x \in Row /\ x.claims = row[t].claims /\ x.lease = 0
        /\ y \in AttemptStatuses \ {"NONE", "CLAIMED"}
    BY <2>1, FailRowType, FailFacts
  <2>3. run[p][t].pc # "idle" /\ ((Owns(p, t) /\ Settle(p, t, x, y)) \/ Abandon(p, t))
    BY <1>12 DEF FailClaim
  <2> HIDE DEF x, y
  <2> QED BY <2>2, <2>3, SettleKeeps
<1>13. CASE ReleaseCancelled(p, t)
  <2> DEFINE z == [Interrupt(row[t]) EXCEPT !.backoff = FALSE]
             x == ClearLease(z)
  <2>1. z \in Row /\ z.claims = row[t].claims
    BY <1>r DEF Interrupt, Row, Statuses
  <2>2. x \in Row /\ x.claims = row[t].claims /\ x.lease = 0
    <3> HIDE DEF z
    <3> QED BY <2>1, RowOperators, ClearedRows DEF Runnable
  <2>3. run[p][t].pc # "idle" /\ ((Owns(p, t) /\ Settle(p, t, x, "CANCELLED")) \/ Abandon(p, t))
    BY <1>13 DEF ReleaseCancelled
  <2>4. "CANCELLED" \in AttemptStatuses \ {"NONE", "CLAIMED"}
    BY DEF AttemptStatuses
  <2> HIDE DEF x
  <2> QED BY <2>2, <2>3, <2>4, SettleKeeps
<1>14. CASE ReleaseUnstarted(p, t)
  <2> DEFINE x == ClearLease(row[t])
  <2>1. x \in Row /\ x.claims = row[t].claims /\ x.lease = 0
    BY <1>r, RowOperators, ClearedRows DEF Runnable
  <2>2. run[p][t].pc # "idle" /\ ((Owns(p, t) /\ Settle(p, t, x, "CANCELLED")) \/ Abandon(p, t))
    BY <1>14 DEF ReleaseUnstarted
  <2>3. "CANCELLED" \in AttemptStatuses \ {"NONE", "CLAIMED"}
    BY DEF AttemptStatuses
  <2> HIDE DEF x
  <2> QED BY <2>1, <2>2, <2>3, SettleKeeps
<1>15. CASE SkipLocked(p, t)
  <2>1. GoesOn(run[p][t], IdleRun)
    BY DEF GoesOn, IdleRun
  <2> QED BY <1>15, <2>1, RowSame, RunPutKeeps DEF SkipLocked, Abandon
<1>16. CASE Heartbeat(p, t)
  <2>0. PICK n \in 1 .. LeaseTicks : row' = [row EXCEPT ![t].ttl = n]
    BY <1>16 DEF Heartbeat
  <2> DEFINE x == [row[t] EXCEPT !.ttl = n]
  <2>1. x \in Row /\ x.claims = row[t].claims /\ x.lease = row[t].lease
    BY <1>r, Bounds DEF Row
  <2>2. row' = [row EXCEPT ![t] = x] /\ UNCHANGED attempt /\ UNCHANGED run
    BY <1>16, <2>0 DEF Heartbeat
  <2> HIDE DEF x
  <2> QED BY <2>1, <2>2, RowEdit DEF RunKeeps, GoesOn
<1>17. CASE LoseLease(p, t)
  <2>1. UNCHANGED row /\ UNCHANGED attempt /\ run[p][t].pc # "idle"
        /\ run' = [run EXCEPT ![p][t] = [@ EXCEPT !.pc = "stopped", !.fresh = FALSE]]
    BY <1>17 DEF LoseLease, Working
  <2> QED BY <1>w, <2>1, RowSame, MovesOn
<1>18. CASE StopAction(p, t)
  <2>1. UNCHANGED row /\ UNCHANGED attempt /\ run[p][t].pc # "idle"
        /\ run' = [run EXCEPT ![p][t] = [@ EXCEPT !.pc = "stopped", !.fresh = FALSE]]
    BY <1>18 DEF StopAction, Working
  <2> QED BY <1>w, <2>1, RowSame, MovesOn
<1> QED BY <1>1, <1>2, <1>3, <1>4, <1>5, <1>6, <1>7, <1>8, <1>9, <1>10, <1>11, <1>12,
           <1>13, <1>14, <1>15, <1>16, <1>17, <1>18 DEF Work

\* No command breaks the ledger's rules.
LEMMA CommandKeeps ==
  ASSUME TypeOK, Ownership, NEW p \in Procs, NEW t \in Tasks, Command(p, t)
  PROVE  RowKeeps(t) /\ RunKeeps(t)
<1>r. row[t] \in Row
  BY Lookup
<1>i. ASSUME NEW local \in BOOLEAN
      PROVE  LET x == Interrupted(row[t], local)
             IN x \in Row /\ x.claims = row[t].claims /\ x.lease = row[t].lease
  <2> DEFINE y == Interrupt(row[t])
  <2>1. y \in Row /\ y.claims = row[t].claims /\ y.lease = row[t].lease
    BY <1>r, RowOperators, ClearedRows DEF Runnable
  <2> HIDE DEF y
  <2>2. LET x == [y EXCEPT !.cancel = @ \/ ~local]
        IN x \in Row /\ x.claims = row[t].claims /\ x.lease = row[t].lease
    BY <2>1 DEF Row
  <2> QED BY <2>2 DEF y, Interrupted
<1>1. CASE CancelTask(p, t)
  <2> DEFINE x == [row[t] EXCEPT !.status = "ERROR", !.cancel = (row[t].lease # 0),
                                 !.backoff = FALSE, !.reasons = {}]
  <2>1. x \in Row /\ x.claims = row[t].claims /\ x.lease = row[t].lease
    BY <1>r DEF Row, Statuses
  <2>2. row' = [row EXCEPT ![t] = x] /\ run' = LocalCancel(p, t) /\ UNCHANGED attempt
    BY <1>1 DEF CancelTask
  <2> HIDE DEF x
  <2> QED BY <2>1, <2>2, RowEdit, LocalCancelKeeps
<1>2. CASE PauseTask(p, t)
  <2> DEFINE y(local) == IF local \/ row[t].lease # 0 THEN Interrupted(row[t], local) ELSE row[t]
             x(local) == [y(local) EXCEPT !.reasons = @ \cup {"user"}]
  <2>1. ASSUME NEW local \in BOOLEAN
        PROVE  x(local) \in Row /\ x(local).claims = row[t].claims /\ x(local).lease = row[t].lease
    <3>1. y(local) \in Row /\ y(local).claims = row[t].claims /\ y(local).lease = row[t].lease
      BY <1>i, <1>r
    <3> HIDE DEF y
    <3> QED BY <3>1 DEF Row, Reasons
  <2>2. \A queued \in BOOLEAN : CancelledLocally(p, t, queued) \in BOOLEAN
    BY DEF CancelledLocally
  <2>3. PICK local \in BOOLEAN : row' = [row EXCEPT ![t] = x(local)]
    BY <1>2, <2>2 DEF PauseTask
  <2>4. run' = LocalCancel(p, t) /\ UNCHANGED attempt
    BY <1>2 DEF PauseTask
  <2> HIDE DEF x
  <2> QED BY <2>1, <2>3, <2>4, RowEdit, LocalCancelKeeps
<1>3. CASE PreemptTask(p, t)
  <2> DEFINE x(local) == Interrupted(row[t], local)
  <2>1. \A queued \in BOOLEAN : CancelledLocally(p, t, queued) \in BOOLEAN
    BY DEF CancelledLocally
  <2>2. PICK local \in BOOLEAN : row' = [row EXCEPT ![t] = x(local)]
    BY <1>3, <2>1 DEF PreemptTask
  <2>3. run' = LocalCancel(p, t) /\ UNCHANGED attempt
    BY <1>3 DEF PreemptTask
  <2>4. x(local) \in Row /\ x(local).claims = row[t].claims /\ x(local).lease = row[t].lease
    BY <1>i
  <2> HIDE DEF x
  <2> QED BY <2>2, <2>3, <2>4, RowEdit, LocalCancelKeeps
<1>4. ASSUME NEW x \in Row, x.claims = row[t].claims, x.lease = 0, Terminate(p, t, x)
      PROVE  RowKeeps(t) /\ RunKeeps(t)
  <2>1. row[t].lease # 0 => attempt[t][row[t].lease] = "CLAIMED"
    BY DEF Ownership, LeaseNamesNewestClaim
  <2>2. "CANCELLED" \in AttemptStatuses \ {"NONE", "CLAIMED"}
    BY DEF AttemptStatuses
  <2>3. RunKeeps(t)
    BY <1>4, LocalCancelKeeps DEF Terminate
  <2>4. row[t].lease # 0 => RowKeeps(t)
    BY <1>4, <2>1, <2>2 DEF Terminate, RowKeeps
  <2>5. row[t].lease = 0 => RowKeeps(t)
    BY <1>4 DEF Terminate, RowKeeps
  <2> QED BY <2>3, <2>4, <2>5
<1>5. CASE ForceTerminate(p, t)
  <2>1. TerminatedRow(row[t]) \in Row /\ TerminatedRow(row[t]).lease = 0
        /\ TerminatedRow(row[t]).claims = row[t].claims
    BY <1>r, RowOperators, ClearedRows DEF Runnable
  <2> QED BY <1>4, <1>5, <2>1 DEF ForceTerminate
<1>6. CASE DeleteTask(p, t)
  <2> DEFINE y == TerminatedRow(row[t])
             x == [y EXCEPT !.deleted = TRUE]
  <2>1. y \in Row /\ y.lease = 0 /\ y.claims = row[t].claims
    BY <1>r, RowOperators, ClearedRows DEF Runnable
  <2>2. x \in Row /\ x.lease = 0 /\ x.claims = row[t].claims
    <3> HIDE DEF y
    <3> QED BY <2>1 DEF Row
  <2>3. Terminate(p, t, x)
    BY <1>6 DEF DeleteTask
  <2> HIDE DEF x
  <2> QED BY <1>4, <2>2, <2>3
<1> QED BY <1>1, <1>2, <1>3, <1>5, <1>6 DEF Command

\* No durable step breaks the ledger's rules.
LEMMA DurableKeeps ==
  ASSUME TypeOK, Ownership, NEW t \in Tasks, Durable(t)
  PROVE  RowKeeps(t) /\ RunKeeps(t)
<1>r. row[t] \in Row
  BY DEF TypeOK
<1>1. ASSUME NEW x \in Row, row' = [row EXCEPT ![t] = x], x.claims = row[t].claims,
             x.lease = row[t].lease, UNCHANGED attempt, run' = Stale(t) \/ UNCHANGED run
      PROVE  RowKeeps(t) /\ RunKeeps(t)
  <2>1. CASE run' = Stale(t)
    BY <1>1, <2>1, RowEdit, StaleKeeps
  <2>2. CASE UNCHANGED run
    BY <1>1, <2>2, RowEdit DEF RunKeeps, GoesOn
  <2> QED BY <1>1, <2>1, <2>2
<1>2. CASE ResumeTask(t) \/ RunTask(t) \/ FanIn(t)
  <2>1. ASSUME NEW rs \in SUBSET Reasons, row' = [row EXCEPT ![t] = [row[t] EXCEPT !.reasons = rs]],
               run' = Stale(t), UNCHANGED attempt
        PROVE  RowKeeps(t) /\ RunKeeps(t)
    <3> DEFINE x == [row[t] EXCEPT !.reasons = rs]
    <3>1. x \in Row /\ x.claims = row[t].claims /\ x.lease = row[t].lease
      BY <1>r DEF Row
    <3>2. row' = [row EXCEPT ![t] = x]
      BY <2>1
    <3> HIDE DEF x
    <3> QED BY <1>1, <2>1, <3>1, <3>2
  <2>2. row[t].reasons \in SUBSET Reasons
    BY <1>r DEF Row
  <2>3. \E rs \in SUBSET Reasons : row' = [row EXCEPT ![t] = [row[t] EXCEPT !.reasons = rs]]
    BY <1>2, <2>2 DEF ResumeTask, RunTask, FanIn
  <2>4. run' = Stale(t) /\ UNCHANGED attempt
    BY <1>2 DEF ResumeTask, RunTask, FanIn
  <2> QED BY <2>1, <2>3, <2>4
<1>3. CASE RetryTask(t)
  <2> DEFINE x(c) == [row[t] EXCEPT !.status = "DISPATCH", !.reasons = {}, !.backoff = FALSE,
                                    !.failures = 0, !.cancel = FALSE, !.receipt = c]
  <2>1. row[t].receipt \in Receipts
    BY <1>r DEF Row
  <2>2. RetryReceipts(row[t].receipt) \subseteq Receipts
    BY <2>1 DEF RetryReceipts, Receipts
  <2>3. ASSUME NEW c \in Receipts
        PROVE  x(c) \in Row /\ x(c).claims = row[t].claims /\ x(c).lease = row[t].lease
    BY <1>r DEF Row, Statuses
  <2>4. PICK c \in Receipts : row' = [row EXCEPT ![t] = x(c)]
    BY <1>3, <2>2 DEF RetryTask
  <2>5. run' = Stale(t) /\ UNCHANGED attempt
    BY <1>3 DEF RetryTask
  <2> HIDE DEF x
  <2> QED BY <1>1, <2>3, <2>4, <2>5
<1>4. CASE WakeApproval(t)
  <2> DEFINE rs == row[t].reasons \ {"approval"}
             y == IF rs = {} THEN Interrupt(row[t]) ELSE row[t]
             x == [y EXCEPT !.reasons = rs]
  <2>1. y \in Row /\ y.claims = row[t].claims /\ y.lease = row[t].lease
    BY <1>r, RowOperators, ClearedRows DEF Runnable
  <2>2. rs \in SUBSET Reasons
    BY <1>r DEF Row
  <2>3. x \in Row /\ x.claims = row[t].claims /\ x.lease = row[t].lease
    <3> HIDE DEF y, rs
    <3> QED BY <2>1, <2>2 DEF Row
  <2>4. row' = [row EXCEPT ![t] = x] /\ run' = Stale(t) /\ UNCHANGED attempt
    BY <1>4 DEF WakeApproval
  <2> HIDE DEF x
  <2> QED BY <1>1, <2>3, <2>4
<1>5. CASE RecoverExpired(t)
  <2> DEFINE x == FailRow(t, row[t].phase, "ordinary")
             y == FailStatus(t, row[t].phase, "ordinary")
  <2>1. row[t].phase \in Runnable /\ "ordinary" \in Failures
    BY <1>r DEF Row, Failures
  <2>2. /\ x \in Row /\ x.claims = row[t].claims /\ x.lease = 0
        /\ y \in AttemptStatuses \ {"NONE", "CLAIMED"}
    BY <2>1, FailRowType, FailFacts
  <2>3. row[t].lease # 0 /\ row' = [row EXCEPT ![t] = x] /\ run' = Stale(t)
        /\ attempt' = [attempt EXCEPT ![t][row[t].lease] = y]
    BY <1>5 DEF RecoverExpired
  <2> HIDE DEF x, y
  <2>4. RowKeeps(t)
    BY <2>2, <2>3 DEF RowKeeps
  <2> QED BY <2>3, <2>4, StaleKeeps
<1>6. CASE RecoverOrphan(t)
  <2> DEFINE x == [row[t] EXCEPT !.status = IF RetryIsSafe(row[t], "DISPATCH") THEN "DISPATCH" ELSE "ERROR",
                                 !.backoff = FALSE]
  <2>1. x \in Row /\ x.claims = row[t].claims /\ x.lease = row[t].lease
    BY <1>r DEF Row, Statuses
  <2>2. row' = [row EXCEPT ![t] = x] /\ run' = Stale(t) /\ UNCHANGED attempt
    BY <1>6 DEF RecoverOrphan
  <2> HIDE DEF x
  <2> QED BY <1>1, <2>1, <2>2
<1>7. CASE Tick(t)
  <2> DEFINE l == row[t].lapsed \/ row[t].ttl = 1
             x == [row[t] EXCEPT !.ttl = row[t].ttl - 1, !.lapsed = l]
  <2>l. l \in BOOLEAN
    OBVIOUS
  <2>1. row[t].ttl \in 0 .. LeaseTicks /\ row[t].ttl > 0
    BY <1>7, <1>r DEF Tick, Row
  <2>2. row[t].ttl - 1 \in 0 .. LeaseTicks
    BY <2>1, SchedulerAssumption DEF SchedulerAssumption
  <2>3. x \in Row /\ x.claims = row[t].claims /\ x.lease = row[t].lease
    <3> HIDE DEF l
    <3> QED BY <1>r, <2>l, <2>2 DEF Row
  <2>4. row' = [row EXCEPT ![t] = x] /\ UNCHANGED run /\ UNCHANGED attempt
    BY <1>7 DEF Tick
  <2> HIDE DEF x
  <2> QED BY <1>1, <2>3, <2>4
<1>8. CASE BackoffElapses(t)
  <2> DEFINE x == [row[t] EXCEPT !.backoff = FALSE]
  <2>1. x \in Row /\ x.claims = row[t].claims /\ x.lease = row[t].lease
    BY <1>r DEF Row
  <2>2. row' = [row EXCEPT ![t] = x] /\ UNCHANGED run /\ UNCHANGED attempt
    BY <1>8 DEF BackoffElapses
  <2> HIDE DEF x
  <2> QED BY <1>1, <2>1, <2>2
<1> QED BY <1>2, <1>3, <1>4, <1>5, <1>6, <1>7, <1>8 DEF Durable

\* What a claim writes.
LEMMA ClaimFacts ==
  ASSUME TypeOK, Ownership, NEW p \in Procs, NEW t \in Tasks, Claim(p, t)
  PROVE  LET n == row[t].claims + 1
         IN /\ n \in 1 .. MaxClaims
            /\ row'[t].claims = n /\ row'[t].lease = n
            /\ \A u \in Tasks \ {t} : row'[u] = row[u]
            /\ attempt' = [attempt EXCEPT ![t][n] = "CLAIMED"]
            /\ run[p][t].token = 0
            /\ run'[p][t].token = n /\ run'[p][t].pc = "claimed"
            /\ \A q \in Procs, u \in Tasks : (q # p \/ u # t) =>
                 /\ run'[q][u].token = run[q][u].token
                 /\ run'[q][u].pc = run[q][u].pc
<1> DEFINE n == NextAttempt(row[t])
           w == [IdleRun EXCEPT !.pc = "claimed", !.token = n, !.phase = row[t].status]
           x == [row[t] EXCEPT !.claims = n, !.lease = n, !.ttl = LeaseTicks, !.lapsed = FALSE,
                   !.phase = row[t].status, !.backoff = FALSE, !.cancel = FALSE]
<1>1. row[t] \in Row /\ run[p][t] \in Run
  BY Lookup
<1>2. n = row[t].claims + 1 /\ n \in 1 .. MaxClaims
  BY <1>1, Bounds, SchedulerAssumption DEF SchedulerAssumption, Claim, NextAttempt, Row
<1>3. row' = [row EXCEPT ![t] = x] /\ attempt' = [attempt EXCEPT ![t][n] = "CLAIMED"]
      /\ run' = [Stale(t) EXCEPT ![p][t] = w]
  BY DEF Claim
<1>4. w.token = n /\ w.pc = "claimed" /\ x.claims = n /\ x.lease = n
  BY <1>1 DEF IdleRun, Row
<1>5. run[p][t].token = 0
  BY DEF Claim, Ownership
<1> HIDE DEF n, w, x
<1>6. row'[t] = x /\ \A u \in Tasks \ {t} : row'[u] = row[u]
  BY <1>3 DEF TypeOK
<1>7. Stale(t) = [q \in Procs |-> [run[q] EXCEPT ![t].fresh = FALSE]]
      /\ \A q \in Procs : Stale(t)[q] \in [Tasks -> Run]
  BY StaleFacts DEF Stale
<1>8. run'[p][t] = w /\ \A q \in Procs, u \in Tasks : (q # p \/ u # t) => run'[q][u] = Stale(t)[q][u]
  BY <1>3, <1>7
<1>9. \A q \in Procs, u \in Tasks : /\ Stale(t)[q][u].token = run[q][u].token
                                    /\ Stale(t)[q][u].pc = run[q][u].pc
  BY StaleFacts
<1> QED BY <1>2, <1>3, <1>4, <1>5, <1>6, <1>8, <1>9

\* A claim preserves ownership.
LEMMA ClaimOwnership ==
  ASSUME TypeOK, TypeOK', Ownership, NEW p \in Procs, NEW t \in Tasks, Claim(p, t)
  PROVE  Ownership'
<1> DEFINE n == row[t].claims + 1
<1>1. /\ n \in 1 .. MaxClaims
      /\ row'[t].claims = n /\ row'[t].lease = n
      /\ \A u \in Tasks \ {t} : row'[u] = row[u]
      /\ attempt' = [attempt EXCEPT ![t][n] = "CLAIMED"]
      /\ run[p][t].token = 0
      /\ run'[p][t].token = n /\ run'[p][t].pc = "claimed"
      /\ \A q \in Procs, u \in Tasks : (q # p \/ u # t) =>
           /\ run'[q][u].token = run[q][u].token
           /\ run'[q][u].pc = run[q][u].pc
  BY ClaimFacts
<1>2. \A u \in Tasks : row[u].claims \in Nat /\ row'[u].claims \in Nat
  BY Bounds DEF TypeOK, Row
<1>3. \A q \in Procs, u \in Tasks : run[q][u].token \in Nat
  BY Bounds DEF TypeOK, Run
<1>4. \A u \in Tasks : \A k \in 1 .. MaxClaims :
        attempt'[u][k] = IF u = t /\ k = n THEN "CLAIMED" ELSE attempt[u][k]
  BY <1>1 DEF TypeOK
<1>5. LeaseNamesNewestClaim'
  BY <1>1, <1>2, <1>4, Bounds, SMTT(30) DEF LeaseNamesNewestClaim, Ownership, TypeOK, Row, Tokens
<1>6. ClaimHasOneRunner'
  BY <1>1, <1>2, <1>3 DEF ClaimHasOneRunner, Ownership
<1>7. \A u \in Tasks : \A k \in 1 .. MaxClaims : k > row'[u].claims => attempt'[u][k] = "NONE"
  BY <1>1, <1>2, <1>4 DEF Ownership
<1>8. \A q \in Procs, u \in Tasks :
        /\ run'[q][u].pc = "idle" <=> run'[q][u].token = 0
        /\ run'[q][u].token <= row'[u].claims
  BY <1>1, <1>2, <1>3 DEF Ownership
<1> QED BY <1>5, <1>6, <1>7, <1>8 DEF Ownership

\* So does a step that follows the ledger's rules on one Task.
LEMMA KeepsOwnership ==
  ASSUME TypeOK, TypeOK', Ownership, NEW t \in Tasks, RowKeeps(t), RunKeeps(t)
  PROVE  Ownership'
<1>1. /\ row'[t].claims = row[t].claims
      /\ \A u \in Tasks \ {t} : row'[u] = row[u]
  BY DEF RowKeeps, TypeOK
<1>2. \A u \in Tasks : row[u].claims \in Nat /\ row[u].lease \in Tokens
  BY Bounds DEF TypeOK, Row
<1>3. \A q \in Procs, u \in Tasks : run[q][u].token \in Nat /\ GoesOn(run[q][u], run'[q][u])
  BY Bounds, ZenonT(30) DEF TypeOK, Run, RunKeeps, GoesOn
<1>4. \/ UNCHANGED attempt /\ row'[t].lease = row[t].lease
      \/ /\ row'[t].lease = 0 /\ row[t].lease # 0
         /\ \A u \in Tasks : \A k \in 1 .. MaxClaims :
              ~(u = t /\ k = row[t].lease) => attempt'[u][k] = attempt[u][k]
  <2>1. ASSUME NEW r \in Row, row' = [row EXCEPT ![t] = r], r.lease = row[t].lease,
               UNCHANGED attempt
        PROVE  UNCHANGED attempt /\ row'[t].lease = row[t].lease
    BY <2>1 DEF TypeOK
  <2>2. ASSUME NEW r \in Row, NEW x \in AttemptStatuses, row' = [row EXCEPT ![t] = r],
               r.lease = 0, row[t].lease # 0,
               attempt' = [attempt EXCEPT ![t][row[t].lease] = x]
        PROVE  /\ row'[t].lease = 0 /\ row[t].lease # 0
               /\ \A u \in Tasks : \A k \in 1 .. MaxClaims :
                    ~(u = t /\ k = row[t].lease) => attempt'[u][k] = attempt[u][k]
    <3>1. row'[t].lease = 0
      BY <2>2 DEF TypeOK
    <3>2. attempt \in [Tasks -> [1 .. MaxClaims -> AttemptStatuses]]
      BY DEF TypeOK
    <3> QED BY <2>2, <3>1, <3>2
  <2>3. CASE \E r \in Row : /\ row' = [row EXCEPT ![t] = r]
                            /\ r.claims = row[t].claims /\ r.lease = row[t].lease
                            /\ UNCHANGED attempt
    BY <2>3, <2>1
  <2>4. CASE \E r \in Row : \E x \in AttemptStatuses \ {"NONE", "CLAIMED"} :
               /\ row' = [row EXCEPT ![t] = r]
               /\ r.claims = row[t].claims /\ r.lease = 0
               /\ row[t].lease # 0
               /\ attempt' = [attempt EXCEPT ![t][row[t].lease] = x]
    <3>1. PICK r \in Row, x \in AttemptStatuses :
               /\ row' = [row EXCEPT ![t] = r]
               /\ r.lease = 0
               /\ row[t].lease # 0
               /\ attempt' = [attempt EXCEPT ![t][row[t].lease] = x]
      BY <2>4
    <3> QED BY <3>1, <2>2
  <2> QED BY <2>3, <2>4 DEF RowKeeps
<1>5. LeaseNamesNewestClaim'
  BY <1>1, <1>2, <1>4 DEF LeaseNamesNewestClaim, Ownership, Tokens
<1>6. ClaimHasOneRunner'
  BY <1>3 DEF ClaimHasOneRunner, Ownership, GoesOn
<1>7. \A u \in Tasks : \A k \in 1 .. MaxClaims : k > row'[u].claims => attempt'[u][k] = "NONE"
  BY <1>1, <1>2, <1>4 DEF Ownership, LeaseNamesNewestClaim
<1>8. \A q \in Procs, u \in Tasks :
        /\ run'[q][u].pc = "idle" <=> run'[q][u].token = 0
        /\ run'[q][u].token <= row'[u].claims
  BY <1>1, <1>2, <1>3 DEF Ownership, GoesOn
<1> QED BY <1>5, <1>6, <1>7, <1>8 DEF Ownership

\* A crash forgets the claims its process held, and nothing else.
LEMMA CrashFacts ==
  ASSUME TypeOK, NEW p \in Procs, Crash(p)
  PROVE  /\ UNCHANGED row /\ UNCHANGED attempt
         /\ \A q \in Procs, u \in Tasks : run'[q][u] = IF q = p THEN IdleRun ELSE run[q][u]
BY DEF Crash, TypeOK

\* Every step of the scheduler preserves ownership.
LEMMA OwnershipStep == TypeOK /\ TypeOK' /\ Ownership /\ [Next]_vars => Ownership'
<1> SUFFICES ASSUME TypeOK, TypeOK', Ownership, [Next]_vars PROVE Ownership'
  OBVIOUS
<1>1. CASE UNCHANGED vars
  BY <1>1 DEF vars, Ownership, LeaseNamesNewestClaim, ClaimHasOneRunner
<1>2. ASSUME NEW p \in Procs, Crash(p) PROVE Ownership'
  <2>1. UNCHANGED row /\ UNCHANGED attempt
        /\ \A q \in Procs, u \in Tasks : run'[q][u] = IF q = p THEN IdleRun ELSE run[q][u]
    BY <1>2, CrashFacts
  <2>2. IdleRun.token = 0 /\ IdleRun.pc = "idle"
    BY DEF IdleRun
  <2>3. \A u \in Tasks : row[u].claims \in Nat
    BY Bounds DEF TypeOK, Row
  <2> QED BY <2>1, <2>2, <2>3 DEF Ownership, LeaseNamesNewestClaim, ClaimHasOneRunner
<1>3. ASSUME NEW p \in Procs, NEW t \in Tasks, Claim(p, t) PROVE Ownership'
  BY <1>3, ClaimOwnership
<1>4. ASSUME NEW p \in Procs, NEW t \in Tasks, Work(p, t) PROVE Ownership'
  BY <1>4, WorkKeeps, KeepsOwnership
<1>5. ASSUME NEW p \in Procs, NEW t \in Tasks, Command(p, t) PROVE Ownership'
  BY <1>5, CommandKeeps, KeepsOwnership
<1>6. ASSUME NEW t \in Tasks, Durable(t) PROVE Ownership'
  BY <1>6, DurableKeeps, KeepsOwnership
<1> QED BY <1>1, <1>2, <1>3, <1>4, <1>5, <1>6 DEF Next

\* Ownership holds in every reachable state.
LEMMA OwnershipInvariant == Spec => []Ownership
<1>1. Init /\ TypeOK => Ownership
  <2> SUFFICES ASSUME Init, TypeOK PROVE Ownership
    OBVIOUS
  <2>1. \A t \in Tasks : row[t].lease = 0 /\ row[t].claims = 0
    BY DEF Init, FreshRow
  <2>2. \A p \in Procs, t \in Tasks : run[p][t].pc = "idle" /\ run[p][t].token = 0
    BY DEF Init, IdleRun
  <2>3. \A t \in Tasks : \A n \in 1 .. MaxClaims : attempt[t][n] = "NONE"
    BY DEF Init
  <2> QED BY <2>1, <2>2, <2>3 DEF Ownership, LeaseNamesNewestClaim, ClaimHasOneRunner
<1> QED BY <1>1, TypeCorrect, OwnershipStep, PTL DEF Spec

\* A lease is always the newest claim of its Task, and the attempt it names is
\* open, for any number of Tasks, processes and claims.
THEOREM LeaseOwnership == Spec => []LeaseNamesNewestClaim
<1>1. Ownership => LeaseNamesNewestClaim
  BY DEF Ownership
<1> QED BY <1>1, OwnershipInvariant, PTL

\* No two processes ever act under the same claim.
THEOREM SingleRunner == Spec => []ClaimHasOneRunner
<1>1. Ownership => ClaimHasOneRunner
  BY DEF Ownership
<1> QED BY <1>1, OwnershipInvariant, PTL

-----------------------------------------------------------------------------
(* Attempts, and the abstract ledger                                         *)

\* A step that follows the ledger's rules on one Task changes no attempt but
\* the one its lease names.
LEMMA KeptAttempts ==
  ASSUME TypeOK, NEW t \in Tasks, RowKeeps(t),
         NEW u \in Tasks, NEW n \in 1 .. MaxClaims, attempt'[u][n] # attempt[u][n]
  PROVE  row[u].lease = n
<1>1. attempt \in [Tasks -> [1 .. MaxClaims -> AttemptStatuses]]
  BY DEF TypeOK
<1>2. PICK x \in AttemptStatuses : attempt' = [attempt EXCEPT ![t][row[t].lease] = x]
  BY DEF RowKeeps
<1> QED BY <1>1, <1>2

\* What one step may do to the attempts.
LEMMA AttemptStep ==
  ASSUME TypeOK, Ownership, [Next]_vars, NEW u \in Tasks, NEW n \in 1 .. MaxClaims,
         attempt[u][n] \notin {"NONE", "CLAIMED"}
  PROVE  attempt'[u][n] = attempt[u][n]
<1>0. attempt \in [Tasks -> [1 .. MaxClaims -> AttemptStatuses]]
  BY DEF TypeOK
<1>1. ASSUME NEW t \in Tasks, RowKeeps(t) PROVE attempt'[u][n] = attempt[u][n]
  BY <1>1, KeptAttempts DEF Ownership, LeaseNamesNewestClaim
<1>2. ASSUME NEW p \in Procs, NEW t \in Tasks, Claim(p, t)
      PROVE  attempt'[u][n] = attempt[u][n]
  <2> DEFINE k == row[t].claims + 1
  <2>1. k \in 1 .. MaxClaims /\ attempt' = [attempt EXCEPT ![t][k] = "CLAIMED"]
    BY <1>2, ClaimFacts
  <2>2. row[t].claims \in Nat
    BY Bounds DEF TypeOK, Row
  <2>3. attempt[t][k] = "NONE"
    BY <2>1, <2>2 DEF Ownership
  <2> HIDE DEF k
  <2> QED BY <1>0, <2>1, <2>3
<1>3. CASE UNCHANGED vars
  BY <1>3 DEF vars
<1>4. ASSUME NEW p \in Procs, Crash(p) PROVE attempt'[u][n] = attempt[u][n]
  BY <1>4 DEF Crash
<1>5. ASSUME NEW p \in Procs, NEW t \in Tasks, Work(p, t) \/ Command(p, t)
      PROVE  attempt'[u][n] = attempt[u][n]
  BY <1>5, <1>1, WorkKeeps, CommandKeeps
<1>6. ASSUME NEW t \in Tasks, Durable(t) PROVE attempt'[u][n] = attempt[u][n]
  BY <1>6, <1>1, DurableKeeps
<1> QED BY <1>2, <1>3, <1>4, <1>5, <1>6 DEF Next

\* A settled attempt keeps its outcome, whoever settles late.
THEOREM SettledOnce == Spec => AttemptsFinal
<1> DEFINE A == \A t \in Tasks : \A n \in 1 .. MaxClaims :
                  attempt[t][n] \notin {"NONE", "CLAIMED"} => attempt'[t][n] = attempt[t][n]
<1>1. TypeOK /\ Ownership /\ [Next]_vars => [A]_vars
  BY AttemptStep
<1>2. TypeOK /\ Ownership /\ [Next]_vars =>
        [\A t \in Tasks : \A n \in 1 .. MaxClaims :
           attempt[t][n] \notin {"NONE", "CLAIMED"} => attempt'[t][n] = attempt[t][n]]_vars
  BY <1>1
<1> QED BY <1>2, TypeCorrect, OwnershipInvariant, PTL DEF Spec, AttemptsFinal

\* The abstract view of the claims after a step that follows its rules.
LEMMA KeptLedger ==
  ASSUME TypeOK, TypeOK', Ownership, NEW t \in Tasks, RowKeeps(t), RunKeeps(t)
  PROVE  Ledger!Next
<1>0. PICK D \in SUBSET Procs : D = {q \in Procs : run'[q][t].token = 0}
  OBVIOUS
<1> DEFINE H == [p \in Procs |-> [u \in Tasks |-> run[p][u].token]]
           K == [p \in Procs |-> [u \in Tasks |-> run'[p][u].token]]
           L == [u \in Tasks |-> row[u].lease]
           M == [u \in Tasks |-> row'[u].lease]
           C == [u \in Tasks |-> row[u].claims]
           E == [u \in Tasks |-> row'[u].claims]
<1>1. \A q \in Procs : /\ run'[q][t].token = run[q][t].token \/ run'[q][t].token = 0
                       /\ \A u \in Tasks \ {t} : run'[q][u] = run[q][u]
  BY DEF RunKeeps, GoesOn
<1>2. /\ row'[t].claims = row[t].claims
      /\ \A u \in Tasks \ {t} : row'[u] = row[u]
  BY DEF RowKeeps, TypeOK
<1>3. E = C
  BY <1>2
<1>4. K = [w \in Procs |-> [u \in Tasks |-> IF w \in D /\ u \in {t} THEN 0 ELSE H[w][u]]]
  BY <1>0, <1>1
<1>5. K = [w \in Procs |-> [H[w] EXCEPT ![t] = IF w \in D THEN 0 ELSE @]]
  BY <1>0, <1>1
<1>6. CASE \E r \in Row : /\ row' = [row EXCEPT ![t] = r]
                          /\ r.claims = row[t].claims /\ r.lease = row[t].lease
                          /\ UNCHANGED attempt
  <2>1. row'[t].lease = row[t].lease /\ UNCHANGED attempt
    BY <1>6 DEF TypeOK
  <2>2. M = L
    BY <1>2, <2>1
  <2>3. Ledger!Forget(D, {t})
    BY <1>3, <1>4, <2>1, <2>2 DEF Ledger!Forget
  <2>4. {t} \in SUBSET Tasks
    OBVIOUS
  <2> QED BY <2>3, <2>4 DEF Ledger!Next
<1>7. CASE \E r \in Row : \E x \in AttemptStatuses \ {"NONE", "CLAIMED"} :
             /\ row' = [row EXCEPT ![t] = r]
             /\ r.claims = row[t].claims /\ r.lease = 0
             /\ row[t].lease # 0
             /\ attempt' = [attempt EXCEPT ![t][row[t].lease] = x]
  <2>1. PICK r \in Row, x \in AttemptStatuses \ {"NONE", "CLAIMED"} :
             /\ row' = [row EXCEPT ![t] = r]
             /\ r.lease = 0
             /\ row[t].lease # 0
             /\ attempt' = [attempt EXCEPT ![t][row[t].lease] = x]
    BY <1>7
  <2>2. row'[t].lease = 0
    BY <2>1 DEF TypeOK
  <2>3. M = [L EXCEPT ![t] = 0]
    BY <1>2, <2>2
  <2>4. L[t] = row[t].lease /\ attempt[t][row[t].lease] = "CLAIMED"
    BY <2>1 DEF Ownership, LeaseNamesNewestClaim
  <2>5. Ledger!Close(t, x, D)
    BY <1>3, <1>5, <2>1, <2>3, <2>4 DEF Ledger!Close
  <2> QED BY <2>1, <2>5 DEF Ledger!Next
<1> QED BY <1>6, <1>7 DEF RowKeeps

\* A claim is the ledger's Take.
LEMMA ClaimLedgerStep ==
  ASSUME TypeOK, TypeOK', Ownership, NEW p \in Procs, NEW t \in Tasks, Claim(p, t)
  PROVE  Ledger!Next
<1> DEFINE n == row[t].claims + 1
           H == [q \in Procs |-> [u \in Tasks |-> run[q][u].token]]
           K == [q \in Procs |-> [u \in Tasks |-> run'[q][u].token]]
           L == [u \in Tasks |-> row[u].lease]
           M == [u \in Tasks |-> row'[u].lease]
           C == [u \in Tasks |-> row[u].claims]
           E == [u \in Tasks |-> row'[u].claims]
<1>1. /\ n \in 1 .. MaxClaims
      /\ row'[t].claims = n /\ row'[t].lease = n
      /\ \A u \in Tasks \ {t} : row'[u] = row[u]
      /\ attempt' = [attempt EXCEPT ![t][n] = "CLAIMED"]
      /\ run[p][t].token = 0
      /\ run'[p][t].token = n
      /\ \A q \in Procs, u \in Tasks : (q # p \/ u # t) => run'[q][u].token = run[q][u].token
  BY ClaimFacts
<1>2. C[t] = row[t].claims /\ H[p][t] = run[p][t].token
  OBVIOUS
<1>3. row[t].claims < MaxClaims
  <2>1. row[t].claims \in Nat
    BY Bounds DEF TypeOK, Row
  <2>2. MaxClaims \in Nat
    BY SchedulerAssumption DEF SchedulerAssumption
  <2> QED BY <1>1, <2>1, <2>2
<1>4. E = [C EXCEPT ![t] = @ + 1]
  BY <1>1
<1>5. M = [L EXCEPT ![t] = C[t] + 1]
  BY <1>1
<1>6. K = [H EXCEPT ![p][t] = C[t] + 1]
  <2> DEFINE G == [H EXCEPT ![p][t] = n]
  <2>1. ASSUME NEW q \in Procs, NEW u \in Tasks PROVE K[q][u] = G[q][u]
    BY <1>1
  <2>2. K = [q \in Procs |-> K[q]] /\ G = [q \in Procs |-> G[q]]
    OBVIOUS
  <2>3. \A q \in Procs : K[q] = [u \in Tasks |-> K[q][u]] /\ G[q] = [u \in Tasks |-> G[q][u]]
    OBVIOUS
  <2>4. \A q \in Procs : K[q] = G[q]
    <3> HIDE DEF K, G
    <3> QED BY <2>1, <2>3
  <2>5. K = G
    <3> HIDE DEF K, G
    <3> QED BY <2>2, <2>4
  <2> QED BY <2>5, <1>2
<1>7. Ledger!Take(p, t)
  BY <1>1, <1>2, <1>3, <1>4, <1>5, <1>6 DEF Ledger!Take
<1> QED BY <1>7 DEF Ledger!Next

\* A crash is the ledger's Forget.
LEMMA CrashLedgerStep ==
  ASSUME TypeOK, NEW p \in Procs, Crash(p)
  PROVE  Ledger!Next
<1> DEFINE H == [q \in Procs |-> [u \in Tasks |-> run[q][u].token]]
           K == [q \in Procs |-> [u \in Tasks |-> run'[q][u].token]]
<1>1. /\ UNCHANGED row /\ UNCHANGED attempt
      /\ \A q \in Procs, u \in Tasks : run'[q][u] = IF q = p THEN IdleRun ELSE run[q][u]
  BY CrashFacts
<1>2. IdleRun.token = 0
  BY DEF IdleRun
<1>3. K = [q \in Procs |-> [u \in Tasks |-> IF q \in {p} /\ u \in Tasks THEN 0 ELSE H[q][u]]]
  BY <1>1, <1>2
<1>4. Ledger!Forget({p}, Tasks)
  BY <1>1, <1>3 DEF Ledger!Forget
<1>5. {p} \in SUBSET Procs /\ Tasks \in SUBSET Tasks
  OBVIOUS
<1> QED BY <1>4, <1>5 DEF Ledger!Next

\* The scheduler implements the claim ledger, for every number of Tasks,
\* processes and claims.
THEOREM Refinement == Spec => ImplementsLedger
<1>1. Init => Ledger!Init
  BY DEF Init, Ledger!Init, FreshRow, IdleRun
<1>2. TypeOK /\ TypeOK' /\ Ownership /\ [Next]_vars => [Ledger!Next]_(Ledger!ledger)
  <2> SUFFICES ASSUME TypeOK, TypeOK', Ownership, [Next]_vars
               PROVE  Ledger!Next \/ UNCHANGED Ledger!ledger
    OBVIOUS
  <2>1. CASE UNCHANGED vars
    BY <2>1 DEF vars, Ledger!ledger
  <2>2. ASSUME NEW p \in Procs, NEW t \in Tasks, Work(p, t) \/ Command(p, t)
        PROVE  Ledger!Next
    BY <2>2, KeptLedger, WorkKeeps, CommandKeeps
  <2>3. ASSUME NEW t \in Tasks, Durable(t) PROVE Ledger!Next
    BY <2>3, KeptLedger, DurableKeeps
  <2> QED BY <2>1, <2>2, <2>3, ClaimLedgerStep, CrashLedgerStep DEF Next
<1> QED BY <1>1, <1>2, TypeCorrect, OwnershipInvariant, PTL DEF Spec, ImplementsLedger, Ledger!Spec

=============================================================================

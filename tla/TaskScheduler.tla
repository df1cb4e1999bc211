--------------------------- MODULE TaskScheduler ---------------------------
(***************************************************************************)
(* The durable Task scheduler of back/app/task: PostgreSQL rows shared by  *)
(* several backend processes, each of which claims rows under a lease,     *)
(* runs the claimed action in memory, and settles the claim.  Users cancel, *)
(* pause, preempt, retry, force-terminate and delete Tasks at any moment;  *)
(* a process may crash between any two transactions; leases expire.        *)
(*                                                                         *)
(* One step is one database transaction, or one in-memory event between    *)
(* two transactions.  The planner's phase (PLAN), inline (voice) claims and *)
(* the Task tree belong to other modules.                                   *)
(***************************************************************************)
EXTENDS Naturals, FiniteSets

CONSTANTS
  Tasks,        \* Task.id
  Procs,        \* backend processes, each with its own in-memory _running map
  Agents,       \* Agent.id
  AgentOf,      \* Task.agent_id
  MaxParallel,  \* max_parallel_tasks_for_agent: the selected Harness's limit
  LeaseTicks,   \* TASK_SCHEDULER_LEASE_SECONDS, in ticks of the database clock
  ActionLimit,  \* TASK_ACTION_MAX_ATTEMPTS
  NetworkLimit, \* TASK_NETWORK_MAX_ATTEMPTS
  MaxClaims     \* bound of the model: claims of one Task (Task.attempt_count)

ASSUME SchedulerAssumption ==
  /\ AgentOf \in [Tasks -> Agents]
  /\ IsFiniteSet(Tasks)
  /\ MaxParallel \in Nat
  /\ LeaseTicks \in Nat \ {0}
  /\ ActionLimit \in Nat \ {0}
  /\ NetworkLimit \in Nat \ {0}
  /\ MaxClaims \in Nat

VARIABLES
  row,      \* the tasks table
  attempt,  \* the task_attempts table: outcome by Task and attempt number
  run       \* what each process is executing for each Task (_running)

vars == <<row, attempt, run>>

-----------------------------------------------------------------------------
(* Rows.  A lease token is the number of the claim that took it: uuid4 never *)
(* repeats, and neither does attempt_count.  0 is SQL NULL.                  *)

Statuses == {"CREATE", "DISPATCH", "EXEC", "SUCCESS", "ERROR"}
Terminal == {"SUCCESS", "ERROR"}
Active   == Statuses \ Terminal

\* SCHEDULER_ACTIONS: the phases the scheduler has an action for.
Runnable == {"CREATE", "DISPATCH"}

\* Pause reasons: a human hold, a pending authorization, pending children.
Reasons == {"user", "approval", "child"}

\* What Task.data proves of the last agent run: nothing; an admitted run that may
\* have had effects (_agent_run_identity without checkpoint, or a checkpoint that
\* does not resume); a resumable checkpoint; or a result whose tool effects must
\* not be repeated.
Receipts == {"clean", "admitted", "resumable", "spent"}

Tokens == 0 .. MaxClaims

AttemptStatuses == {"NONE", "CLAIMED", "SUCCESS", "ERROR", "RETRY", "CANCELLED",
                    "WAITING_CHILDREN", "WAITING_APPROVAL"}

MaxLimit == IF ActionLimit > NetworkLimit THEN ActionLimit ELSE NetworkLimit

Row == [status   : Statuses,
        reasons  : SUBSET Reasons,      \* data.pause_reasons; paused iff nonempty
        lease    : Tokens,              \* lease_token
        ttl      : 0 .. LeaseTicks,     \* lease_expires_at - now, 0 once expired
        lapsed   : BOOLEAN,             \* history: this lease was expired at some instant
        phase    : Runnable,            \* TaskAttempt.phase of the lease
        claims   : Tokens,              \* attempt_count
        failures : Nat,                 \* consecutive_failures
        cancel   : BOOLEAN,             \* cancel_requested
        backoff  : BOOLEAN,             \* next_attempt_at lies in the future
        receipt  : Receipts,
        deleted  : BOOLEAN]

(* Runs.  pc is where the claimed action stands: "claimed" before it reads   *)
(* the row, "loaded" once it has, "routed" between the dispatcher's two      *)
(* saves, "started" in EXEC before admission to the driver, "driver" inside  *)
(* it, "result" once it returned.  The last three await one transaction that *)
(* settles the claim: "done" (_complete_claim), "failed" (_fail_claim) and   *)
(* "stopped" (_release_cancelled_claim).                                     *)

Working  == {"claimed", "loaded", "routed", "started", "driver", "result"}
Settling == {"done", "failed", "stopped"}

\* How the exception reads to the retry policy: HarnessFailure.retry, and
\* _is_network_failure.
Failures == {"ordinary", "network", "reconcile", "never"}

Run == [pc    : {"idle"} \cup Working \cup Settling,
        token : Tokens,   \* the lease token this run was claimed with
        phase : Runnable,
        view  : Tokens,   \* the lease token in the row the action loaded
        fresh : BOOLEAN,  \* the row's revision is the one the action loaded
        exc   : Failures]

IdleRun == [pc |-> "idle", token |-> 0, phase |-> "CREATE", view |-> 0,
            fresh |-> FALSE, exc |-> "ordinary"]

Paused(r)     == r.reasons # {}
HeldByUser(r) == "user" \in r.reasons
Live(r)       == r.lease # 0 /\ r.ttl > 0

\* has_terminal_outcome: an ERROR is provisional until its claim is settled.
HasTerminalOutcome(r) == r.status = "SUCCESS" \/ (r.status = "ERROR" /\ r.lease = 0)

\* Every ORM write bumps Task.revision, so the copies the actions loaded
\* before it are stale (version_id_col).
Stale(t) == [p \in Procs |-> [run[p] EXCEPT ![t].fresh = FALSE]]

ClearLease(r) == [r EXCEPT !.lease = 0, !.ttl = 0, !.lapsed = FALSE, !.cancel = FALSE]

\* INTERRUPT_EXECUTION then ROUTE_TO_EXECUTION, when the row is in EXEC.
Interrupt(r) == [r EXCEPT !.status = IF @ = "EXEC" THEN "DISPATCH" ELSE @]

-----------------------------------------------------------------------------
FreshRow(s, rs) ==
  [status |-> s, reasons |-> rs, lease |-> 0, ttl |-> 0, lapsed |-> FALSE,
   phase |-> "CREATE", claims |-> 0, failures |-> 0, cancel |-> FALSE, backoff |-> FALSE,
   receipt |-> "clean", deleted |-> FALSE]

\* Tasks are created in CREATE, or directly in DISPATCH, possibly held by a user.
Init ==
  /\ row \in [Tasks -> {FreshRow(s, rs) : s \in Runnable, rs \in {{}, {"user"}}}]
  /\ attempt = [t \in Tasks |-> [n \in 1 .. MaxClaims |-> "NONE"]]
  /\ run = [p \in Procs |-> [t \in Tasks |-> IdleRun]]

-----------------------------------------------------------------------------
(* Claims                                                                    *)

\* Mutant: an execution that is under way may be claimed.
ClaimableExec(r) ==
  /\ r.status \in Active /\ ~Paused(r) /\ ~r.deleted
  /\ r.lease = 0 \/ r.ttl = 0
  /\ ~r.backoff

\* The WHERE clause of _next_task and _claim_specific.
Claimable(r) ==
  /\ r.status \in Runnable
  /\ ~Paused(r)
  /\ ~r.deleted
  /\ r.lease = 0 \/ r.ttl = 0
  /\ ~r.backoff

\* Mutant: only the executions under way count.
ActiveExecutions(a, t) ==
  {u \in Tasks : u # t /\ AgentOf[u] = a /\ Live(row[u]) /\ row[u].status = "EXEC"}

\* Live leases that count against the agent's Harness limit.
ActiveClaims(a, t) ==
  {u \in Tasks : u # t /\ AgentOf[u] = a /\ Live(row[u])}

\* Mutant: a reclaimed lease keeps the attempt it had.
ReusedAttempt(r) == IF r.lease # 0 THEN r.lease ELSE r.claims + 1

\* attempt_count + 1 numbers the claim.
NextAttempt(r) == r.claims + 1

\* _next_task / _claim_locked_task.  The agent's advisory lock serializes the
\* count and the claim, so they are one step.
Claim(p, t) ==
  LET r == row[t]
      n == NextAttempt(r)
  IN /\ run[p][t].pc = "idle"
     /\ Claimable(r)
     /\ Cardinality(ActiveClaims(AgentOf[t], t)) < MaxParallel
     /\ r.claims < MaxClaims
     /\ row' = [row EXCEPT ![t] =
          [@ EXCEPT !.claims = n, !.lease = n, !.ttl = LeaseTicks, !.lapsed = FALSE,
                    !.phase = r.status, !.backoff = FALSE, !.cancel = FALSE]]
     /\ attempt' = [attempt EXCEPT ![t][n] = "CLAIMED"]
     /\ run' = [Stale(t) EXCEPT ![p][t] =
          [IdleRun EXCEPT !.pc = "claimed", !.token = n, !.phase = r.status]]

-----------------------------------------------------------------------------
(* The claimed action                                                        *)

Goto(p, t, pc) == run' = [run EXCEPT ![p][t].pc = pc]

\* _dispatch and _execute: load the row and check its phase and pause again.
Load(p, t) ==
  LET r == row[t]
  IN /\ run[p][t].pc = "claimed"
     /\ IF r.status = run[p][t].phase /\ ~Paused(r) /\ ~r.deleted
        THEN run' = [run EXCEPT ![p][t] =
               [@ EXCEPT !.pc = "loaded", !.view = r.lease, !.fresh = TRUE]]
        ELSE Goto(p, t, "done")
     /\ UNCHANGED <<row, attempt>>

\* Mutant: a save that does not check the revision.
SaveUnchecked(p, t, r, pc) ==
  /\ row' = [row EXCEPT ![t] = r]
  /\ run' = [Stale(t) EXCEPT ![p][t] = [@ EXCEPT !.pc = pc, !.fresh = (pc = "routed")]]

\* task_service.save: the commit succeeds on an unchanged revision only; a
\* stale copy raises TaskRevisionConflict, which fails the claim.
Save(p, t, r, pc) ==
  IF run[p][t].fresh
  THEN /\ row' = [row EXCEPT ![t] = r]
       /\ run' = [Stale(t) EXCEPT ![p][t] =
            [@ EXCEPT !.pc = pc, !.fresh = (pc = "routed")]]
  ELSE /\ run' = [run EXCEPT ![p][t] = [@ EXCEPT !.pc = "failed", !.exc = "ordinary"]]
       /\ UNCHANGED row

\* dispatcher_service._update_task_after_dispatch: the decision's first save,
\* which already fails the Task when no decision was reached.
RouteTrace(p, t) ==
  /\ run[p][t].pc = "loaded" /\ run[p][t].phase = "CREATE"
  /\ \/ Save(p, t, row[t], "routed")
     \/ Save(p, t, [row[t] EXCEPT !.status = "ERROR", !.reasons = {}], "done")
  /\ UNCHANGED attempt

\* dispatcher_service._update_task_status: ROUTE_TO_EXECUTION and a second save.
Route(p, t) ==
  /\ run[p][t].pc = "routed"
  /\ Save(p, t, [row[t] EXCEPT !.status = "DISPATCH"], "done")
  /\ UNCHANGED attempt

\* executor_service._update_task_status: START_EXECUTION and its save.
StartExecution(p, t) ==
  /\ run[p][t].pc = "loaded" /\ run[p][t].phase = "DISPATCH"
  /\ Save(p, t, [row[t] EXCEPT !.status = "EXEC"], "started")
  /\ UNCHANGED attempt

\* The fence shared by activate_agent_run and persist_agent_run_state: the
\* token the action loaded is still the row's, live, and its attempt is open.
\* An action that loaded a row without lease has no attempt and no fence.
OwnsView(p, t) ==
  LET v == run[p][t].view
      r == row[t]
  IN \/ v = 0
     \/ /\ r.lease = v
        /\ r.ttl > 0
        /\ r.status \notin Terminal
        /\ attempt[t][v] = "CLAIMED"

\* activate_agent_run: admission is durable before the driver is entered.
Activate(p, t) ==
  LET r == row[t]
  IN /\ run[p][t].pc = "started"
     /\ IF run[p][t].view = 0
        THEN /\ Goto(p, t, "driver")
             /\ UNCHANGED row
        ELSE IF OwnsView(p, t) /\ ~Paused(r) /\ ~r.cancel
        THEN /\ row' = [row EXCEPT ![t].receipt =
                   IF @ = "resumable" THEN "resumable" ELSE "admitted"]
             /\ run' = [Stale(t) EXCEPT ![p][t].pc = "driver"]
        ELSE /\ Goto(p, t, "stopped")
             /\ UNCHANGED row
     /\ UNCHANGED attempt

\* persist_agent_run_state: the driver saves a checkpoint, which resumes
\* only while none of its effects is in doubt.
SaveCheckpoint(p, t) ==
  /\ run[p][t].pc = "driver"
  /\ IF row[t].deleted
     THEN /\ run' = [run EXCEPT ![p][t] = [@ EXCEPT !.pc = "failed", !.exc = "ordinary"]]
          /\ UNCHANGED row
     ELSE IF OwnsView(p, t)
     THEN /\ \E c \in {"resumable", "admitted"} : row' = [row EXCEPT ![t].receipt = c]
          /\ run' = Stale(t)
     ELSE /\ Goto(p, t, "stopped")
          /\ UNCHANGED row
  /\ UNCHANGED attempt

\* run_task: the driver returned and the action refreshed its copy of the row.
DriverReturns(p, t) ==
  /\ run[p][t].pc = "driver"
  /\ Goto(p, t, "result")
  /\ UNCHANGED <<row, attempt>>

\* The action raises: a driver or context error, or the stall watchdog.
ActionRaises(p, t) ==
  /\ run[p][t].pc \in Working
  /\ \E e \in Failures :
       run' = [run EXCEPT ![p][t] = [@ EXCEPT !.pc = "failed", !.fresh = FALSE, !.exc = e]]
  /\ UNCHANGED <<row, attempt>>

\* What remains of the run's evidence once its result is applied
\* (_apply_run_result): the identity goes; a checkpoint stays after a failure
\* or an authorization wait, and goes after a success or a wait for children.
ReceiptAfter(r, keepCheckpoint) ==
  IF r.receipt = "resumable" /\ keepCheckpoint
  THEN {"resumable", "spent"} ELSE {"clean", "spent"}

\* executor_service._update_task_after_execution, in one transaction that
\* reloads the row under its lock.  It checks no lease: only the phase stops
\* it, by an InvalidTaskTransition that fails the claim.
Outcomes(r) ==
  (IF r.status = "EXEC"
   THEN {[r EXCEPT !.status = "SUCCESS", !.reasons = {}, !.receipt = c] :
            c \in ReceiptAfter(r, FALSE)}
        \cup {[r EXCEPT !.status = "ERROR", !.reasons = {}, !.receipt = c] :
            c \in ReceiptAfter(r, TRUE)}
        \cup {[r EXCEPT !.status = "DISPATCH", !.reasons = {"child"}, !.receipt = c] :
            c \in ReceiptAfter(r, FALSE) \cup ReceiptAfter(r, TRUE)}
   ELSE {})
  \cup {[Interrupt(r) EXCEPT !.reasons = @ \cup {"approval"}, !.receipt = c] :
            c \in ReceiptAfter(r, TRUE)}

FinishExecution(p, t) ==
  /\ run[p][t].pc = "result"
  /\ ~row[t].deleted
  /\ \E r \in Outcomes(row[t]) : row' = [row EXCEPT ![t] = r]
  /\ run' = [Stale(t) EXCEPT ![p][t].pc = "done"]
  /\ UNCHANGED attempt

FinishRejected(p, t) ==
  /\ run[p][t].pc = "result"
  /\ row[t].status # "EXEC" \/ row[t].deleted
  /\ run' = [run EXCEPT ![p][t] = [@ EXCEPT !.pc = "failed", !.exc = "ordinary"]]
  /\ UNCHANGED <<row, attempt>>

-----------------------------------------------------------------------------
(* Settling a claim                                                          *)

\* _retry_is_safe: routing may always be replayed; an execution only without
\* evidence of effects, or from a checkpoint the driver resumes.
RetryIsSafe(r, phase) == phase = "CREATE" \/ r.receipt \in {"clean", "resumable"}

\* _retry_policy.
Limit(e) == IF e = "network" THEN NetworkLimit ELSE ActionLimit

\* Mutant: one failure too many.
CanRetryOnceMore(r, phase, e) ==
  /\ e # "never" /\ RetryIsSafe(r, phase)
  /\ e = "reconcile" => r.receipt = "resumable"
  /\ r.failures <= Limit(e)
  /\ ~HeldByUser(r)

\* The retry decision of _fail_claim; r already counts the failure.
CanRetry(r, phase, e) ==
  /\ e # "never"
  /\ RetryIsSafe(r, phase)
  /\ e = "reconcile" => r.receipt = "resumable"
  /\ r.failures < Limit(e)
  /\ ~HeldByUser(r)

\* _finalize_claim_outcome: close a claim whose Task outcome is authoritative.
Finalized(r) == ClearLease([r EXCEPT !.failures = 0, !.backoff = FALSE])

FinalStatus(r) ==
  IF r.status = "ERROR" THEN "ERROR"
  ELSE IF "approval" \in r.reasons THEN "WAITING_APPROVAL"
  ELSE IF "child" \in r.reasons THEN "WAITING_CHILDREN"
  ELSE "SUCCESS"

\* The row _fail_claim leaves: a retry of the same phase after a delay, or a
\* terminal ERROR.
RetryRow(r, phase) ==
  LET back == IF phase = "CREATE" THEN "CREATE" ELSE "DISPATCH"
  IN ClearLease([r EXCEPT !.backoff = TRUE,
       !.status = CASE @ = "ERROR" -> back [] @ = "EXEC" -> "DISPATCH" [] OTHER -> @])

\* set_execution_result keeps a recorded result; one is created otherwise.
FailedRow(r) ==
  ClearLease([r EXCEPT !.status = "ERROR", !.backoff = FALSE, !.reasons = {}])

\* _fail_claim of the claim n of t, which the row still carries.
FailRow(t, phase, e) ==
  LET r == [row[t] EXCEPT !.failures = @ + 1]
  IN CASE row[t].status = "SUCCESS" -> Finalized(row[t])
       [] row[t].status # "SUCCESS" /\ CanRetry(r, phase, e)  -> RetryRow(r, phase)
       [] row[t].status # "SUCCESS" /\ ~CanRetry(r, phase, e) -> FailedRow(r)

FailStatus(t, phase, e) ==
  LET r == [row[t] EXCEPT !.failures = @ + 1]
  IN CASE row[t].status = "SUCCESS" -> FinalStatus(row[t])
       [] row[t].status # "SUCCESS" /\ CanRetry(r, phase, e)  -> "RETRY"
       [] row[t].status # "SUCCESS" /\ ~CanRetry(r, phase, e) -> "ERROR"

\* Mutant: a claim is settled without comparing its token.
OwnsAnyLease(p, t) == row[t].lease # 0 /\ ~row[t].deleted

\* Every settling transaction first checks that the row still carries the
\* token of its claim; a deleted row is no longer visible to it.
Owns(p, t) == row[t].lease = run[p][t].token /\ ~row[t].deleted

\* The worker's in-memory action ends with nothing written.
Abandon(p, t) ==
  /\ run' = [run EXCEPT ![p][t] = IdleRun]
  /\ UNCHANGED <<row, attempt>>

Settle(p, t, r, status) ==
  /\ row' = [row EXCEPT ![t] = r]
  /\ attempt' = [attempt EXCEPT ![t][run[p][t].token] = status]
  /\ run' = [Stale(t) EXCEPT ![p][t] = IdleRun]

\* _complete_claim: a retryable ERROR goes on to _fail_claim in a second
\* transaction, which reads its feedback as any exception's text; any other
\* outcome closes the claim.
CompleteClaim(p, t) ==
  /\ run[p][t].pc = "done"
  /\ IF ~Owns(p, t)
     THEN Abandon(p, t)
     ELSE IF row[t].status = "ERROR" /\ RetryIsSafe(row[t], run[p][t].phase)
     THEN /\ \E e \in {"ordinary", "network"} :
               run' = [run EXCEPT ![p][t] = [@ EXCEPT !.pc = "failed", !.exc = e]]
          /\ UNCHANGED <<row, attempt>>
     ELSE Settle(p, t, Finalized(row[t]), FinalStatus(row[t]))

\* _fail_claim, by the worker whose action raised.
FailClaim(p, t) ==
  LET w == run[p][t]
  IN /\ w.pc = "failed"
     /\ IF Owns(p, t)
        THEN Settle(p, t, FailRow(t, w.phase, w.exc), FailStatus(t, w.phase, w.exc))
        ELSE Abandon(p, t)

\* _release_cancelled_claim, after a lost lease, a cancellation or a stale run.
ReleaseCancelled(p, t) ==
  /\ run[p][t].pc = "stopped"
  /\ IF Owns(p, t)
     THEN Settle(p, t, ClearLease([Interrupt(row[t]) EXCEPT !.backoff = FALSE]), "CANCELLED")
     ELSE Abandon(p, t)

\* _release_unstarted_claim: background work gives the last slot back to
\* interactive work before its action starts.
ReleaseUnstarted(p, t) ==
  /\ run[p][t].pc = "claimed"
  /\ IF Owns(p, t)
     THEN Settle(p, t, ClearLease(row[t]), "CANCELLED")
     ELSE Abandon(p, t)

\* These lock the row with SKIP LOCKED, except _release_cancelled_claim: they
\* return without settling anything when another transaction holds it.
SkipLocked(p, t) ==
  /\ run[p][t].pc \in {"claimed", "done", "failed"}
  /\ Abandon(p, t)

\* The conditions _renew_lease's UPDATE finds on the row it writes.
Renewable(p, t) ==
  /\ Owns(p, t)
  /\ ~Paused(row[t])
  /\ ~row[t].cancel

\* _renew_lease, at the commit of its UPDATE.  The instant it compares with
\* lease_expires_at, and counts the new lease from, was taken in Python before
\* the statement was awaited: by the commit that lease may have expired, and
\* part of the new one may have gone by.
Heartbeat(p, t) ==
  /\ run[p][t].pc # "idle"
  /\ Renewable(p, t)
  /\ \E n \in 1 .. LeaseTicks :
       n >= row[t].ttl /\ row' = [row EXCEPT ![t].ttl = n]
  /\ UNCHANGED <<attempt, run>>

\* LeaseLostError from the heartbeat cancels the action.
LoseLease(p, t) ==
  /\ run[p][t].pc \in Working
  /\ ~Renewable(p, t) \/ row[t].ttl = 0
  /\ run' = [run EXCEPT ![p][t] = [@ EXCEPT !.pc = "stopped", !.fresh = FALSE]]
  /\ UNCHANGED <<row, attempt>>

-----------------------------------------------------------------------------
(* Recovery                                                                  *)

\* Mutant: a paused row is skipped, as the query for orphans does.
RecoverExpiredUnpaused(t) ==
  /\ row[t].lease # 0 /\ row[t].lapsed /\ ~row[t].deleted /\ ~Paused(row[t])
  /\ row' = [row EXCEPT ![t] = FailRow(t, row[t].phase, "ordinary")]
  /\ attempt' = [attempt EXCEPT ![t][row[t].lease] = FailStatus(t, row[t].phase, "ordinary")]
  /\ run' = Stale(t)

\* _recover_expired_leases, second part: an expired lease is a failed claim.
\* It reads the expired tokens in one transaction and fails each of them in
\* another, which compares the token and not the expiry: this is the second,
\* and a late heartbeat may have revived the lease between the two.
RecoverExpired(t) ==
  /\ row[t].lease # 0 /\ row[t].lapsed /\ ~row[t].deleted
  /\ row' = [row EXCEPT ![t] = FailRow(t, row[t].phase, "ordinary")]
  /\ attempt' = [attempt EXCEPT ![t][row[t].lease] = FailStatus(t, row[t].phase, "ordinary")]
  /\ run' = Stale(t)

\* Mutant: only a paused orphan is recovered.
RecoverPausedOrphan(t) ==
  LET r == row[t]
  IN /\ r.status = "EXEC" /\ r.lease = 0 /\ Paused(r) /\ ~r.deleted
     /\ row' = [row EXCEPT ![t].status = "DISPATCH"]
     /\ run' = Stale(t)
     /\ UNCHANGED attempt

\* _recover_expired_leases, first part: an unpaused EXEC row without a lease
\* belongs to no live worker.
RecoverOrphan(t) ==
  LET r == row[t]
  IN /\ r.status = "EXEC" /\ r.lease = 0 /\ ~Paused(r) /\ ~r.deleted
     /\ row' = [row EXCEPT ![t] =
          [@ EXCEPT !.status = IF RetryIsSafe(r, "DISPATCH") THEN "DISPATCH" ELSE "ERROR",
                    !.backoff = FALSE]]
     /\ run' = Stale(t)
     /\ UNCHANGED attempt

\* The backend process dies; what it was running is gone with its memory.
Crash(p) ==
  /\ \E t \in Tasks : run[p][t].pc # "idle"
  /\ run' = [run EXCEPT ![p] = [t \in Tasks |-> IdleRun]]
  /\ UNCHANGED <<row, attempt>>

\* The database clock advances past part of a lease, or past a retry delay.
Tick(t) ==
  /\ row[t].lease # 0 /\ row[t].ttl > 0
  /\ row' = [row EXCEPT ![t] =
       [@ EXCEPT !.ttl = row[t].ttl - 1, !.lapsed = row[t].lapsed \/ row[t].ttl = 1]]
  /\ UNCHANGED <<attempt, run>>

BackoffElapses(t) ==
  /\ row[t].backoff
  /\ row' = [row EXCEPT ![t].backoff = FALSE]
  /\ UNCHANGED <<attempt, run>>

-----------------------------------------------------------------------------
(* Commands, served by the process p                                         *)

\* scheduler.cancel: it cancels the action only if p itself runs it.  A
\* cancellation that lands while the claim is being settled aborts that
\* transaction; _release_cancelled_claim is shielded from it.
LocalCancel(p, t) ==
  LET w == run[p][t]
  IN [Stale(t) EXCEPT ![p][t] =
       CASE w.pc \in Working -> [w EXCEPT !.pc = "stopped", !.fresh = FALSE]
         [] w.pc \in {"done", "failed"} -> IdleRun
         [] OTHER -> w]

\* What scheduler.cancel answers: p runs the action, or holds the Task in its
\* fast-path queue, whose contents are arbitrary here.
CancelledLocally(p, t, queued) == run[p][t].pc # "idle" \/ queued

\* cancel / request_cancellation: the lease stays until its worker, asked to
\* stop, releases it.
CancelTask(p, t) ==
  /\ row[t].status \in Active /\ ~row[t].deleted
  /\ row' = [row EXCEPT ![t] =
       [@ EXCEPT !.status = "ERROR", !.cancel = (row[t].lease # 0),
                 !.backoff = FALSE, !.reasons = {}]]
  /\ run' = LocalCancel(p, t)
  /\ UNCHANGED attempt

\* The row once its running action is asked to stop (_interrupt_running_action,
\* preempt_running_agent_tasks): a remote worker learns it from cancel_requested.
Interrupted(r, local) == [Interrupt(r) EXCEPT !.cancel = @ \/ ~local]

\* pause_tree on one Task: hold it and interrupt its action.
PauseTask(p, t) ==
  /\ row[t].status \notin Terminal /\ ~row[t].deleted
  /\ \E queued \in BOOLEAN :
       LET local == CancelledLocally(p, t, queued)
           r     == IF local \/ row[t].lease # 0 THEN Interrupted(row[t], local) ELSE row[t]
       IN row' = [row EXCEPT ![t] = [r EXCEPT !.reasons = @ \cup {"user"}]]
  /\ run' = LocalCancel(p, t)
  /\ UNCHANGED attempt

\* resume_tree on one Task.
ResumeTask(t) ==
  /\ HeldByUser(row[t]) /\ ~row[t].deleted
  /\ row' = [row EXCEPT ![t].reasons = @ \ {"user"}]
  /\ run' = Stale(t)
  /\ UNCHANGED attempt

\* preempt_running_agent_tasks: a manual RUN of another Task of the agent
\* interrupts this one.
PreemptTask(p, t) ==
  /\ run[p][t].pc # "idle" \/ Live(row[t])
  /\ ~row[t].deleted
  /\ \E queued \in BOOLEAN :
       row' = [row EXCEPT ![t] = Interrupted(@, CancelledLocally(p, t, queued))]
  /\ run' = LocalCancel(p, t)
  /\ UNCHANGED attempt

\* router.run_task: a manual RUN clears the automatic pauses of its Task.
RunTask(t) ==
  /\ row[t].status \notin Terminal /\ ~row[t].deleted
  /\ Paused(row[t]) /\ ~HeldByUser(row[t])
  /\ row' = [row EXCEPT ![t].reasons = {}]
  /\ run' = Stale(t)
  /\ UNCHANGED attempt

\* retry without a plan: RETRY, and the journal prepare_run_retry leaves.
RetryReceipts(c) ==
  CASE c = "resumable" -> {"resumable", "clean"}
    [] c = "spent"     -> {"clean"}
    [] OTHER           -> {c}

RetryTask(t) ==
  /\ row[t].status = "ERROR" /\ ~row[t].deleted
  /\ \E c \in RetryReceipts(row[t].receipt) :
       row' = [row EXCEPT ![t] =
         [@ EXCEPT !.status = "DISPATCH", !.reasons = {}, !.backoff = FALSE,
                   !.failures = 0, !.cancel = FALSE, !.receipt = c]]
  /\ run' = Stale(t)
  /\ UNCHANGED attempt

\* Mutant: the lease survives the termination of its Task.
TerminatedLeasedRow(r) ==
  [r EXCEPT !.status = IF @ \in Terminal THEN @ ELSE "ERROR",
            !.backoff = FALSE, !.reasons = {}]

\* force_terminate: durable authority is revoked before anything else.
TerminatedRow(r) ==
  ClearLease([r EXCEPT !.status = IF @ \in Terminal THEN @ ELSE "ERROR",
                       !.backoff = FALSE, !.reasons = {}])

Terminate(p, t, r) ==
  LET n == row[t].lease
  IN /\ ~row[t].deleted
     /\ row' = [row EXCEPT ![t] = r]
     /\ attempt' = IF n # 0 /\ attempt[t][n] = "CLAIMED"
                   THEN [attempt EXCEPT ![t][n] = "CANCELLED"] ELSE attempt
     /\ run' = LocalCancel(p, t)

ForceTerminate(p, t) == Terminate(p, t, TerminatedRow(row[t]))

\* delete: force-terminate, then hide the row.  The two transactions are one
\* step; ForceTerminate alone is what a crash between them leaves.
DeleteTask(p, t) == Terminate(p, t, [TerminatedRow(row[t]) EXCEPT !.deleted = TRUE])

\* collab.maybe_fan_in: the children are done and the parent resumes.
FanIn(t) ==
  /\ row[t].status = "DISPATCH" /\ ~row[t].deleted
  /\ "child" \in row[t].reasons /\ ~HeldByUser(row[t])
  /\ row' = [row EXCEPT ![t].reasons = @ \ {"child"}]
  /\ run' = Stale(t)
  /\ UNCHANGED attempt

\* _wake_authorization_context: the authorization is decided.
WakeApproval(t) ==
  LET rs == row[t].reasons \ {"approval"}
  IN /\ row[t].status \notin Terminal /\ ~row[t].deleted
     /\ "approval" \in row[t].reasons /\ ~HeldByUser(row[t])
     /\ row[t].lease = 0
     /\ row' = [row EXCEPT ![t] =
          [(IF rs = {} THEN Interrupt(row[t]) ELSE row[t]) EXCEPT !.reasons = rs]]
     /\ run' = Stale(t)
     /\ UNCHANGED attempt

\* scheduler.stop on shutdown, or a command whose own commit failed after it
\* had cancelled the action.
StopAction(p, t) ==
  /\ run[p][t].pc \in Working
  /\ run' = [run EXCEPT ![p][t] = [@ EXCEPT !.pc = "stopped", !.fresh = FALSE]]
  /\ UNCHANGED <<row, attempt>>

-----------------------------------------------------------------------------
\* One step of the worker p on the Task t.
Work(p, t) ==
  \/ Load(p, t) \/ RouteTrace(p, t) \/ Route(p, t)
  \/ StartExecution(p, t) \/ Activate(p, t) \/ SaveCheckpoint(p, t)
  \/ DriverReturns(p, t) \/ ActionRaises(p, t)
  \/ FinishExecution(p, t) \/ FinishRejected(p, t)
  \/ CompleteClaim(p, t) \/ FailClaim(p, t) \/ ReleaseCancelled(p, t)
  \/ ReleaseUnstarted(p, t) \/ SkipLocked(p, t)
  \/ Heartbeat(p, t) \/ LoseLease(p, t) \/ StopAction(p, t)

\* One command on the Task t, served by p.
Command(p, t) ==
  \/ CancelTask(p, t) \/ PauseTask(p, t) \/ PreemptTask(p, t)
  \/ ForceTerminate(p, t) \/ DeleteTask(p, t)

\* One step that no process's memory takes part in.
Durable(t) ==
  \/ ResumeTask(t) \/ RunTask(t) \/ RetryTask(t) \/ FanIn(t) \/ WakeApproval(t)
  \/ RecoverExpired(t) \/ RecoverOrphan(t) \/ Tick(t) \/ BackoffElapses(t)

Next ==
  \/ \E p \in Procs, t \in Tasks : Claim(p, t) \/ Work(p, t) \/ Command(p, t)
  \/ \E t \in Tasks : Durable(t)
  \/ \E p \in Procs : Crash(p)

Spec == Init /\ [][Next]_vars

\* The clock advances and every process keeps polling _recover_expired_leases
\* (_run_loop calls it on each turn); nothing else is assumed to happen.
Fairness ==
  \A t \in Tasks :
    /\ WF_vars(Tick(t))
    /\ WF_vars(row[t].ttl = 0 /\ RecoverExpired(t))
    /\ WF_vars(RecoverOrphan(t))

LiveSpec == Spec /\ Fairness

-----------------------------------------------------------------------------
(* What the scheduler guarantees                                             *)

\* Every variable has its type.
TypeOK ==
  /\ row \in [Tasks -> Row]
  /\ attempt \in [Tasks -> [1 .. MaxClaims -> AttemptStatuses]]
  /\ run \in [Procs -> [Tasks -> Run]]

\* A lease is always the newest claim, and its attempt is open: a worker that
\* was replaced never owns the row again, whatever it settles late
\* (task.lease_token != lease_token in every settling transaction).
LeaseNamesNewestClaim ==
  \A t \in Tasks :
    row[t].lease # 0 => /\ row[t].lease = row[t].claims
                        /\ attempt[t][row[t].lease] = "CLAIMED"

\* The claims as the abstract ledger sees them.
Ledger == INSTANCE ClaimLedger WITH
  Workers  <- Procs,
  Results  <- AttemptStatuses \ {"NONE", "CLAIMED"},
  lease    <- [t \in Tasks |-> row[t].lease],
  claims   <- [t \in Tasks |-> row[t].claims],
  holds    <- [p \in Procs |-> [t \in Tasks |-> run[p][t].token]]

\* The scheduler implements the ledger: whatever crashes, expires or is
\* commanded, a step takes one claim, closes the owning claim once, or lets a
\* worker forget what it held (_claim_locked_task, the settling transactions,
\* _recover_expired_leases, force_terminate).
ImplementsLedger == Ledger!Spec

\* Two processes never act under the same claim, not even after a crash, an
\* expiry and a new claim of the same Task (_claim_locked_task).
ClaimHasOneRunner ==
  \A t \in Tasks : \A p, q \in Procs :
    (p # q /\ run[p][t].pc # "idle" /\ run[q][t].pc # "idle")
      => run[p][t].token # run[q][t].token

\* A lease that was never expired since it was taken.
Unbroken(r) == r.lease # 0 /\ ~r.lapsed

\* No agent ever has more unbroken claims than its Harness allows, although a
\* claim stops counting when it expires, its worker still running and settling
\* it later (active_lease).  Only a lease that a late heartbeat revives after
\* its slot was given away comes on top of the limit (_renew_lease).
AgentCapacity ==
  \A a \in Agents :
    Cardinality({t \in Tasks : AgentOf[t] = a /\ Unbroken(row[t])}) <= MaxParallel

\* A Task that may still run has not used up its retries: whichever worker,
\* heartbeat loss or recovery settles its failures, the largest of the two
\* limits ends it (_retry_policy, _fail_claim).
RetryBudget ==
  \A t \in Tasks : row[t].status \in Active => row[t].failures < MaxLimit

\* An attempt that was settled keeps its outcome: a late worker, a recovery and
\* a command never settle the same attempt twice.
AttemptsFinal ==
  [][\A t \in Tasks : \A n \in 1 .. MaxClaims :
       attempt[t][n] \notin {"NONE", "CLAIMED"} => attempt'[t][n] = attempt[t][n]]_vars

\* A settled outcome is reopened by the retry command only: no late save, late
\* completion, recovery or wake-up revives it (has_terminal_outcome, RETRY).
OutcomeReopenedByRetryOnly ==
  [][\A t \in Tasks :
       (HasTerminalOutcome(row[t]) /\ row'[t].status # row[t].status) => RetryTask(t)]_vars

\* A held Task does not start: a worker that loaded the row before the pause
\* does not move it to EXEC after it (TaskRevisionConflict in save).
PausedNotStarted ==
  [][\A t \in Tasks :
       (Paused(row[t]) /\ row[t].status # "EXEC") => row'[t].status # "EXEC"]_vars

\* The claim n of t belongs to no process any more: its worker crashed, or
\* gave up settling it because the row was locked.
DeadClaim(t, n) ==
  /\ row[t].lease = n
  /\ \A p \in Procs : run[p][t].token # n

\* A claim nobody works on is eventually replaced, failed or released, whatever
\* commands and late workers do to its row (_recover_expired_leases).
DeadClaimReleased ==
  \A t \in Tasks : \A n \in 1 .. MaxClaims :
    DeadClaim(t, n) ~> (row[t].lease # n)

\* An unpaused EXEC row that no process runs does not stay in EXEC, leased or
\* not (_recover_expired_leases).
OrphanRecovered ==
  \A t \in Tasks :
    (row[t].status = "EXEC" /\ \A p \in Procs : run[p][t].pc = "idle")
      ~> (row[t].status # "EXEC" \/ Paused(row[t]) \/ row[t].deleted)

-----------------------------------------------------------------------------
(* What the sources say and the code does not do: one violation run each.    *)

\* workflow.py:132 "no automatic event is ever allowed to reopen a terminal
\* Task": a Task the user cancelled stays in ERROR until the retry command.
CancelledStaysCancelled ==
  [][\A t \in Tasks :
       (row[t].status = "ERROR" /\ row[t].cancel)
         => (row'[t].status = "ERROR" \/ RetryTask(t))]_vars

\* scheduler.py:1096 "No recovery contract means no automatic replay, including
\* on lease expiry": no execution is claimed over an admitted run whose worker
\* was not stopped.
NoReplayOfAdmittedRun ==
  [][\A p \in Procs, t \in Tasks :
       (Claim(p, t) /\ row[t].lease # 0) => RetryIsSafe(row[t], row[t].status)]_vars
=============================================================================

# Galaris: a verification development for its durable engines

Galaris runs AI agents on behalf of its users.  Everything an agent does is a
*Task*: a PostgreSQL row that a scheduler claims, executes through an agent
"Harness", and settles, while people cancel, pause, preempt, amend, retry and
delete Tasks, and while backend processes crash and restart.  Conversations have
an engine of their own: messages of a room are gathered in *rounds*, which workers
claim, run and answer in the same way.  Underneath, model calls, permits for
dangerous actions and media jobs are durable rows with lives of their own.  This directory
holds TLA+ modules for the parts of these engines whose correctness depends on the
order in which things happen, TLC configurations that check them on small
instances, and TLAPS proofs for every size.

## 1. Inventory of the system

Paths are relative to `src/`.  `back/app` is the application, `back/core` its
infrastructure, `back/bridge` the adapters to the outside.

| Component | State it keeps | Operations | What makes it correct |
|---|---|---|---|
| Task scheduler, `back/app/task/scheduler.py` | `Task` rows (status, pause reasons, lease token and expiry, `attempt_count`, `consecutive_failures`, `cancel_requested`, `next_attempt_at`), `TaskAttempt` rows, the in-memory `_running` map of each process | claim, heartbeat, complete, fail, release, recover expired leases, recover orphans, reconcile paused parents, inline (voice) claims | one owner per claim; a replaced worker changes nothing; each attempt is settled once; nothing stays leased for ever; bounded retries; an agent's parallel limit; no replay of effects |
| Task commands, `task_service.py`, `router.py` | the same rows, under `version_id_col` optimistic locking | cancel, pause/resume tree, preempt, run, retry, force-terminate, delete, restore | a command wins the race with a late worker; a settled outcome is not reopened |
| Agent pipeline, `back/app/agent`, `task/agent_adapter.py` | `Task.data` (run identity, checkpoint), execution results | route, start, activate, checkpoint, finish | admission is durable before effects; checkpoints come from the owner |
| Collaboration, `task/collab.py` | children, await records, the `child` and `await` pause reasons, `collab_context` | suspend on children, resolve, fan-in, expire awaits | a parent resumes, once, after its children and with all their results |
| Input requests, `task/input_requests.py` | question and answer in `Task.data` | ask, answer, consume, suspend | no answer is lost or passed over |
| Replacement, amendments, budgets, `task/replacement.py`, `amendment_service.py`, `budget.py` | successor links, objective revisions, reservations | replace, amend, reserve, settle | the successor starts after its predecessor stopped; no accepted instruction is dropped; no overspending |
| LLM inference, `back/app/llm/inference_store.py`, `inference_execution.py` | inference, attempt, call and command rows, the event journal, execution roots | create, claim, heartbeat, journal, finish, recover, command, stream | one terminal result; a stop holds; the stream skips nothing; nothing stays open |
| Provider admission, `llm/provider_scheduler.py` | queue, permits and limit of a connection | enqueue, drain, cancel, release, configure | no place leaks; no caller starves |
| Conversation rounds, `back/app/conversation` | `ConversationRound` rows (status, lease, effect, checkpoint, delivery, command), input links, attempts | admit, claim, run, send, notify, fail, interrupt, pause, stop, hurry, resume, restart, delete, reconcile | one pending and one processed round per room; no input lost; one answer per message; no effect repeated; uncertain sends left to people |
| Processes, `back/app/process` | workflow runs, steps, waits | start, advance, wait, resume, cancel | a step is run once, a run ends |
| Action authorizations, `back/app/tools` | `ActionAuthorization` rows, remembered permissions, run grants, two outboxes | bind, claim, finish, defer, answer, cancel, revoke, notify, reconcile, wake | an approval is used at most once, for what was approved; a refusal is final; a suspended Task is woken |
| Media generations, `back/app/multimedia` | `MediaGeneration` rows, output receipts | admit, claim the permit, submit, poll, deliver, settle, repair | one submission, one file, and a permit that tells what happened |
| Mail, `back/bridge/mail` | outgoing mail receipts | prepare, send, reconcile | no duplicate sending |
| Goals, dreams, voice, lab | schedules and jobs on top of Tasks | periodic loops, inline claims | one occurrence per slot |
| Runtime supervisor, rate limits, byte budgets, refresh sessions (`back/core`) | supervised loops, counters, tokens | restart, acquire/release, rotate | limits hold under cancellation; a rotated token is dead |
| Memory, documents, messenger, file shares, provider bridges, harness manager, executors, front end | mostly data and I/O | CRUD, indexing, calls | not protocol-shaped; not modelled |

The components meet in the database: the scheduler of each process, the HTTP
handlers and the recovery loop write the same `Task` rows in short transactions,
with the row lock (`FOR UPDATE`, often `SKIP LOCKED`), the lease token and the
ORM revision as the only coordination.  In memory, a command can cancel an
`asyncio` task only in its own process.

Hard behaviours: late workers after lease expiry; commands served by another
process than the one that runs the action; crashes between two transactions of
one handler; settling transactions that give up on a locked row; two limits that
share one failure counter; copies of rows held across `await`; permits, replies and
children's results that arrive while the run that needs them ends.  `PROJECT.json`
lists them as hazards, each at its line.

## 2. Modules

| Module | Models | Role |
|---|---|---|
| `TaskScheduler` | `scheduler.py`, the commands of `task_service.py`, the row writes of the agent pipeline | the core, one action per transaction or in-memory event |
| `ClaimLedger` | nothing in particular | what claims promise: the abstract specification `TaskScheduler` implements |
| `MCTaskScheduler` | - | the instance TLC checks, and its symmetries |
| `TaskSchedulerProofs`, `TaskOutcomesProofs` | - | the theorems about `TaskScheduler`: claims and the refinement; then outcomes and limits |
| `ConversationRounds` | `conversation/service.py`, `scheduler.py`, `control_service.py`, `management_service.py` | text rounds of one room, one action per transaction, transport call or in-memory event |
| `MCConversationRounds` | - | the instance TLC checks, and its symmetry |
| `ConversationRoundsProofs`, `ConversationDeliveryProofs` | - | the theorems about `ConversationRounds`: rows and effects; then texts and inputs |
| `TaskCoordination` | `task/collab.py`, `input_requests.py`, `amendment_service.py`, the end of a run in `executor_service.py` | what one parent Task waits for |
| `ActionAuthorizations` | `back/app/tools/authorization*.py`, `runtime_*.py`, the wrapper of `mcp_loader.py` | the permits of one Task's operations |
| `MediaGenerations` | `back/app/multimedia` | composes with `ActionAuthorizations`: the work a permit is for, done later by a worker |
| `InferenceLifecycle` | `llm/inference_store.py`, `inference_execution.py`, `inference_journal.py` | one durable inference, its stream and its caller |
| `ProviderScheduler` | `llm/provider_scheduler.py` | the places of one connection |
| `InferenceService` | `inference_execution._loop`, `llm_call_service.py` | composes the two: tickets, roots, calls and native callers |
| `MCTaskCoordination`, `MCMediaGenerations`, `MCInferenceService` | - | their instances and scenarios |
| `TaskCoordinationProofs` | - | the theorems about `TaskCoordination` |
| `MediaGenerationsProofs` | - | the theorems about `ActionAuthorizations` and `MediaGenerations` |
| `InferenceLifecycleProofs` | - | the theorems about `InferenceLifecycle` |
| `InferenceServiceProofs` | - | the theorems about `InferenceService`, which inherits those of the lifecycle |

### TaskScheduler

State.  `row[t]` is the `Task` row; `attempt[t][n]` the status of the attempt
with number `n`; `run[p][t]` what process `p` is doing for `t`, with the token of
its claim.  A lease token (a `uuid4`) is represented by the number of the claim
that took it: neither ever repeats.  `ttl` counts the ticks until
`lease_expires_at`; `backoff` says that `next_attempt_at` lies ahead; `receipt`
is what `Task.data` proves about the last agent run: nothing (`clean`), a run
admitted to the driver that may have had effects (`admitted`), a checkpoint the
driver can resume (`resumable`), or recorded tool effects (`spent`).  `fresh` in
a run says that the row still has the revision the action loaded.

Actions.  A claimed action goes through `claimed`, `loaded`, `routed` or
`started`, `driver`, `result`, then waits for the transaction that settles it:
`done` (`_complete_claim`), `failed` (`_fail_claim`) or `stopped`
(`_release_cancelled_claim`).  Every database transaction of the code is one
action, so that everything else can happen between two of them.  Two places
merge transactions: `RecoverExpired` (the query of the expired tokens and the
settling of each, which compares the token and no longer the expiry: the settling
may follow any instant at which the lease was expired) and `DeleteTask` (the crash
in between is `ForceTerminate`).

Time.  `_renew_lease` takes its instant in Python and then awaits the UPDATE that
compares `lease_expires_at` with it.  A heartbeat that is delayed between the two
renews a lease that has expired meanwhile, with what is left of the time it counts
from.  `Heartbeat` is the commit of that UPDATE: it extends the lease of its token to
any `ttl` up to `LeaseTicks`, whether or not the lease has expired by then.
`lapsed` is history: this lease was expired at some instant.  A heartbeat that finds
the lease expired ends the action (`LoseLease`).  The claim and its capacity count
also use an instant taken before their statements; being older, it counts more leases
as live, and a new lease runs shorter, which `Tick` covers.  The processes are assumed
to read the same clock.

Environment.  `Crash(p)` empties a process's memory.  `Tick` lets a lease run
down at any time, so a lease may expire under a worker that is alive.
`SkipLocked` is the settling transaction that finds its row locked.  Driver
results are arbitrary: success, failure, a wait for approval or for children, an
exception of any class the retry policy tells apart.

Left out of this module: the PLAN phase (planner and plan steps), inline claims
of voice sessions, the Task tree (`pause_tree` acts on one Task here; children
appear as the pause reason `child`), input requests, budgets, priorities and the
reservation of interactive slots except for `ReleaseUnstarted`, texts and costs.

### ClaimLedger

Three actions: `Take` a new claim, `Close` the owning claim with an outcome,
`Forget` claims held in memory.  No time, no commands, no crashes.  `Ledger` in
`TaskScheduler` is the refinement mapping; `ImplementsLedger` is a property TLC
checks and the theorem `Refinement` proves.

### ConversationRounds

State.  `round[r]` is the row of round `r` with its input links, `open` until
`consumed_at` is set; `attempt[r][n]` the audit of its claims; `worker[w]` what an
`asyncio` task is doing, for which round and under which token.  Workers are
tasks, not processes: `_run_loop` may claim a round whose older task is still
alive in the same process.  Tokens are claim numbers, the fallback notification
has one of its own.  `carried` and `receipt` are the outside world: how often the
transport took a text, and what Messenger journaled.

Actions.  `Admit` is the whole of `admit_message` when it finds a FROZEN round, with
the rounds it closes and supersedes; `AdmitRead` and `AdmitInsert` are its two
statements when it finds none, `AdmitAborts` its failure between them; `Claim` and `ClaimExpired` are the two halves of `claim_next_round`,
the second with `_interrupt_round`; `Build`, `MarkEffect`, `SaveCheckpoint`,
`Notice`, `Complete`, `StartSending`, `Delivered`, `DeliveryUnknown` are the
transactions of a running action, `Fail` and `InterruptWorker` those that follow
an exception, a timeout or a shutdown; `Request`, `Resume`, `Restart`,
`DeleteRound` and `ResolveUnknown` are people's.  `WakeMerged`, `WakeRead`, `WakeCommit`
and `WakeAborts` are `_wake_authorization_context`.  An exception and
the transaction that handles it are one step: until that transaction nothing
depends on whether the worker is still running or already failing.  A heartbeat
in time is not an action: `Expire` may happen at any moment.  A late one is
(`RenewLate`): `renew_round_lease` takes its instant before its UPDATE, as
`_renew_lease` does, and may revive a lease that has expired.

Every transaction that makes a round FROZEN or CLAIMED locks the room first, except
the authorization waker, which locks only its round and looks for a FROZEN one without
a lock.  It does not see what an admission has inserted and not committed, nor the
admission what the waker is about to write; the unique index
`uq_conversation_round_frozen_room` then refuses one of them (`FrozenIndexAllows`), or
PostgreSQL aborts one because each waits for the other.  So both are two steps here:
a row is `ADMITTING` while the admission holds the room (`RoomFree`), `WAKING` while
the waker holds its lock (`NoneWaking`), and either may fail in between.  The other
transactions that write FROZEN stay one step: where the index would refuse them
because of a waker that commits in their middle, the transaction fails and is as if
its worker had died before it or its request had not been made.  The second unique index, of processed
rounds, is not part of the model: `OneRoundPerRoom` says that the code never needs it.
Where the code asks PostgreSQL for the oldest row, the only one of the room is meant.  A command is sent for the attempt
that is current (others are refused).  Driver results are arbitrary, except that a
run waits for an approval only with a safe checkpoint, which is how the internal
driver suspends (`complete_round` itself does not check it, `service.py:1013`).  The
result's own `effect_started` (`service.py:1009`) is not modelled: the harness sets it
for a stop or a submission of a Task (`harness/conversation.py:336`, `:755`), whose
effect `MarkEffect` has recorded or an earlier attempt has had, the operations being
idempotent.

Left out: voice rounds, contact permissions (rounds paused until a manager
consents), rounds without inputs, notifications of Tasks and Processes, texts.

### TaskCoordination

State.  `parent` is the row of a Task with the parts of `Task.data` that decide
whether it may end; `child` the rows of its coordination children (delegated ones,
and records that await a peer or a process); `run` the parent's newest run with
what it started from: how much of the collected results it saw, which replies it
heard, which objective it works on.  A child that is `failing` is in `ERROR` with
its claim unsettled, so it may still be retried: `has_terminal_outcome` waits for
the lease, `operational_state` does not, and the model keeps the two apart.

Actions.  `Finish` is `_update_task_after_execution`: it waits for a reply, for
children, for a permit, or ends, in the order of the code; `FinishRejected` is the
`InvalidTaskTransition` it raises otherwise.  `FanIn` is `maybe_fan_in`, one
transaction under the parent's lock.  The claim and its settling are abridged from
`TaskScheduler`: late workers, lease expiry, limits and cancellation of the parent
are that module's subject and are left out here.  Processes' awaits without a
deadline are not children of the model, since fairness would expire them.

### ActionAuthorizations and MediaGenerations

State.  One row per operation key; the administrators' side (`policy`, `conn`,
`conf`, `perm`); the Task the operations belong to (`ctx`); what each caller, the
notifier and the waker hold between two transactions.  Configurations and
permissions are revisions, compared for equality as their fingerprints are.
`age` is time, as far as a query reads it; `early` says that a human decided after
the attempt that would dispatch had started (`runtime_dispatch_ready`).
`effects` and `verdict` are history: the effects of an operation and what was
decided about it first.  A caller whose attempt was lost goes on as `stale`.

Actions.  `Bind`, `Claim`, `Dispatch`, `Finish` are the steps of a wrapped tool
call, `RegisterDeferred` hands the permit to a later dispatch; `NoticeClaim`,
`NoticeRead`, `NoticeWrite` and `WakeClaim`, `WakeContext`, `WakeAck` are the
transactions of the two outboxes, with a crash between any two.  Operations carry
the same arguments; the quota is the agent's (the manager's works the same way).
`Reconcile` is the bulk UPDATE of `reconcile_authorizations`, a row at a time and with
its conditions tested on the row it writes; that PostgreSQL may test them before it
waits for a row's lock (`authorization_notifications.py:186`) is not modelled.

`MediaGenerations` extends it by the durable generation: `Admit` ends the call, and
one worker under a lease claims the permit, submits, polls, delivers and settles,
each in the transactions of the code.  The worker may die anywhere; its lease
(1500 s) is longer than a job may last, so two workers never hold one job.

### InferenceLifecycle, ProviderScheduler, InferenceService

State.  The rows of one inference, its attempts, the one call of each attempt, the
messages of the journal and the command receipts; the execution root of the
process with the invocation it watches; a synchronous caller and the stream it
reads.  An attempt is claimed once, so its number stands for its lease token.
`InferenceService` adds the loop that turns a queued inference into a ticket, the
places of the provider, and native callers that compete for them.

Actions.  Every transaction locks the inference and its attempt, so it is a step;
`finalize_call`, which no lease fences, is one too.  The stream's reader takes two
(`ReadRow`, `ReadPage`), as `read_event_batch` does.  Methods of the scheduler have
no `await`, so each is a step, and `_drain` runs later.  The final state of a call
and the release of its permit are one step, although `finalize_call` releases first
and writes the row after an `await`: the physical call is over by then.  A lease may
run out while its root lives (a stalled event loop).  Two narrow cases are left out: a
second native `task.cancel()` while the caller is in the shielded drain of the first
(`inference_execution.py:200`), and a relay that is cancelled after it saw the
`finish_reason` and records its call as completed (`proxy_service.py:825`).

Left out: costs, transcripts, provider formats, replays (a new inference).

## 3. Runs

| Run | Instance | Question |
|---|---|---|
| `sched_life` | 1 Task, 2 processes, 2 claims, lease of 1 tick; or 2 Tasks of one agent with limit 1, one claim each | do late workers, crashes, expiry, recovery and commands keep leases, attempts, retry limits, the agent's limit and settled outcomes consistent, and implement `ClaimLedger`? |
| `sched_live` | 1 Task, fair clock and recovery | is every abandoned claim released and every orphaned execution recovered? |
| `rounds_race` | 2 workers, 2 rounds, five commands; 1 message with 2 claims a round, or 2 messages with one | can a replaced worker, a crash around the transport, a command or a second message repeat an effect, answer twice, lose an input or misreport a delivery? |
| `rounds_live` | 1 message, 2 workers, 2 rounds, 2 claims, stop, restart, delete, fair | is every message settled and every send accounted for? |
| `coordination` | an awaited peer, a delegated child, 1 question, 1 instruction, 3 runs | does a Task succeed only with every result, reply and instruction, and never wait for ever on ended children? |
| `media_permits` | 1 operation (native or runtime), 2 callers, 1 change by an administrator | can racing, lost or crashed callers, jobs and workers use a decision twice, against it, or misreport it? |
| `media_live` | 2 operations of one Task under a quota of 1, or 1 generation, fair | does every suspension end, and does every ended generation report? |
| `inference_service` | 1 inference, 2 attempts, 2 commands, 1 message each, 1 native caller, limits 1 and 2, 1 crash | do stops hold, streams skip nothing, places come back, and inferences end? |

Four more runs check what a comment or document of the repository says and the
code does not do; TLC finds each violated (section 5).

Scenarios.  Some runs join two scenarios that do not interact beyond what each
contains, because their product exceeds what TLC explores in minutes; the
restriction is stated in the MC module (in the specification, or as an action
constraint), and touches no action whose fairness is assumed.  `MCTaskScheduler`: one Task with all the
bounds, or two Tasks that compete for a slot.  `MCConversationRounds`: one message
claimed often, or several claimed once.  `MCInferenceService`: a synchronous
caller on its own connection, or a detached inference beside a voice caller.
`MCMediaGenerations`: one operation followed to its report, or two through the
waits they cause.

Bounds.  Two workers and two claims let a worker be replaced and come back late;
two Tasks meet at the agent's limit, two messages in a room, two operations in a
quota.  A lease of one tick expires at any moment.  A limit of one ordinary and
two network failures separates the two counters.  Three runs of a parent are one
that creates a child or a question, one resumed by the first result, and one by
the second.  One change by an administrator is enough to fall between any two
steps of a caller or a job.  Two attempts let an inference be paused or
interrupted and resumed while its first root is still flushing; two commands let a
stop meet a pause, a resume or another stop.

Deadlock is not checked in these runs: a Task, a round or an inference that is
finished, or that has used the bounds of the model, has nothing left to do.

Fairness (`LiveSpec`).  The clock advances, and some process keeps calling
`_recover_expired_leases`: `_run_loop` calls it on every turn, throttled by
`_RECONCILE_INTERVAL`.  No worker, user or claim is assumed to make progress.
For conversations (`FairSpec`): `_run_loop` polls for rounds and notifications, an
action ends because `_execute` bounds it with a timeout, an admission or a waker under
way commits or fails, and a lease that no task renews runs out.  People and the transport are not assumed to do anything.
For coordination (`Fairness`): the maintenance pass of the scheduler repeats
`maybe_fan_in` (`_reconcile_paused_parents`) and expires awaits; no child, run or
person is assumed to move.  For permits (`FairJobs`): the clock, and the periodic
`reconcile_authorizations`; the waking process may die between two of its
transactions, but not every time (strong fairness).  For generations
(`FairWorker`): the periodic `tick` and the lapse of leases, and likewise a worker
that does not die at every report.  For inferences (`FairLoop`, `FairRoot`): the
event loop runs what is queued on it, timers fire, a physical call ends because it
has a timeout, and the lease of a dead root runs out; commands, callers and
administrators are free, and voice calls may come for ever.

## 4. Proofs

`TaskSchedulerProofs` proves, from `SchedulerAssumption` alone:

* `TypeCorrect`: `Spec => []TypeOK`;
* `LeaseOwnership` and `SingleRunner`: `LeaseNamesNewestClaim` and
  `ClaimHasOneRunner` are invariants;
* `SettledOnce`: `AttemptsFinal`;
* `Refinement`: `Spec => ImplementsLedger`.

The first is inductive by itself.  The others rest on `Ownership`, which adds to
the two invariants that attempts beyond `attempt_count` do not exist yet and that
a worker's token was taken and is zero exactly when it is idle: without the first
a new claim might reopen an attempt, without the second it might meet an older
worker with the same token.  The argument is the same for every action but a
claim and a crash: `RowKeeps` and `RunKeeps` say that a step on a Task either
leaves the lease alone or clears it and closes the attempt it names, and that a
worker keeps its token or becomes idle.  `WorkKeeps`, `CommandKeeps` and
`DurableKeeps` show it of each action, and ownership, finality and refinement
follow from it once.

`TaskOutcomesProofs` goes on from there, with the same assumption:

* `FreshCopyIsCurrent`: `Spec => []Current`;
* `RetriesAreBounded` and `CapacityHolds`: `RetryBudget` and `AgentCapacity` are
  invariants;
* `OutcomeIsFinal` and `HeldTaskStays`: `OutcomeReopenedByRetryOnly` and
  `PausedNotStarted`.

The code loads a row, works, and saves it under its revision.  Whether such a save
can reopen an outcome or start a held Task depends on what the row became in
between, so the four results need `Current`: a copy whose revision is still the
row's is in the phase it was claimed for, neither held nor deleted.  `Moves(a, b)`
then says what a step may turn a row into (no lease becomes live, no held Task
starts, no settled outcome changes, no failures are added beyond the limits); it is
shown of every action but `Claim`, `RetryTask` and `Crash`, which are treated apart.
The capacity counts unbroken leases, those that were never expired since they were
taken: a step that makes none keeps it, and a claim is taken below it, because an
unbroken lease is live when it is counted.  Live leases may exceed the limit: one that
expired lost its slot to another claim, and a late heartbeat may revive it
(section 5).

`ConversationRoundsProofs` proves, from `RoundsAssumption` alone:

* `TypeCorrect`: `Spec => []TypeOK`;
* `RoundsUnique`: `Spec => []OneRoundPerRoom`;
* `EffectSafety`: `Spec => []EffectNotReplayed`.

The first two are inductive together.  The uniqueness of FROZEN rounds rests on what
the transactions that lock the room read under that lock and, against the waker, on
the unique index, whose refusal is the guard `FrozenIndexAllows` of `AdmitInsert` and
`WakeCommit`; without it the property fails (its mutant).  The uniqueness of processed
rounds uses no index.  `Good` says both of a table of rounds and `Fits`
when a row may replace another: it is quiet (neither FROZEN nor processed), or
keeps its status, or there is no other FROZEN (processed) row.  Each operator that
computes rows (`Controlled`, `InterruptRows`, `FailRows`, `Superseded`, `Merge`)
is shown once to leave a good table; the actions follow.

The third is not inductive.  An approval wait becomes FROZEN without looking at
the checkpoint, so the invariant covers WAITING_APPROVAL too.  A running worker
may write an unsafe checkpoint, so no worker of an earlier attempt may own a round
that was claimed again: `Tokens` says that a worker's token is at most the round's
attempt number, and past `build_turn` not that of a round that is CLAIMED.
`Harmless` describes what every step but a claim does to a row, and `Moves` to a
worker; both preserve `Tokens`, and a claim takes a number above all others.

`ConversationDeliveryProofs` goes on from there, with the same assumption:

* `AnswerSafety`, `DeliverySafety` and `InputSafety`: `AnsweredOnce`,
  `DeliveryTruthful` and `InputNotLost` are invariants;
* `UnknownSafety` and `StaleSafety`: `UnknownNotResent` and `StaleWorkerHarmless`.

A message is answered twice either by two workers of one round or by two rounds that
have it, so the invariant `DInv` has a part for each.  `SendInv` ties the row, the
texts and the workers of a round together: a text is with the transport only of a
round whose row says that it may be (`Launched`, `Noticed`), a worker that still owns
its round before its answer owns one that is not being answered, and no two workers
share a claim or send the same text (`Meets`).  `Unshared` says that at most one round
holds an input, where a stopped round holds its inputs as long as it could be
restarted; `Dealt` that an input left behind is in another round.  Each operator that
computes rows is shown once to be an `Advance`: what may be with the transport stays
so recorded (`Delivers`), no answer starts (`Silent`), an input goes to a round that
had none of its holders left, or is new (`Hands`), and none is dropped (`Preserves`).
The start of an answer is the one step that is not silent, and is treated apart with
the calls of the transport.  Looking for this invariant showed two sequences, longer
than the run explores, that the first statements of `AnsweredOnce` and `InputNotLost`
overlooked (section 5); both properties now except them.

`TaskCoordinationProofs` proves, from `CoordinationAssumption` alone,
`CoordinationTypeCorrect` and that `SynthesisComplete`, `ReplyUsed` and
`InstructionsHonoured` are invariants.  A parent succeeds in one step, on what its
run saw when it started, so the three are not inductive.  `CoordinationInv` adds what
holds while a run is under way: the context has one result of each folded child and
of no other, with the outcome the child still has (`ResultsKept`); nothing is folded
under a run that may still end (`RunCurrent`); a reply it has not heard keeps the
question open (`ReplyHeld`); a result that may be accepted is of the current objective
(`ObjectiveHeld`); and an instruction is deferred only for a child whose result is
still to come (`DeferredForChild`).  `SuccessKept` carries this over to the steps after
the success.

`MediaGenerationsProofs` proves, from `AuthorizationConstants` alone and for
`MediaSpec`: `MediaInvariant` (the inductive `MediaInv`) and from it
`MediaTypeCorrect`, `PermitUsedOnce`, `AgreementFirst`, `RefusalIsFinal`,
`FileWrittenOnce` and `PermitOutcome`; `QuotaHolds` by counting.  The argument follows
the permit.  While its row is `Unclaimed` the operation had no effect; then it is in
one caller's hand (`OneHand`, `HandPart`); once registered it is with the generation,
whose submission is claimed before the effect (`PermitOf`).  `RecordOf` ties the
output receipt to the file, and `WorkerOn` says what the worker's place in its
transactions implies about both, which is what a crash between two of them leaves.

`InferenceLifecycleProofs` proves, from `LifecycleAssumption` alone,
`LifecycleInvariant` and from it `LifecycleTypeCorrect`, `StopIsFinal`,
`EndedAttemptIsClosed`, `ReaderMissesNothing` and `CancelledCallerLeavesNoWork`.
`LifecycleInv` is about three parts that read each other's writes late: the rows
(`DbInv`: an attempt runs exactly while its inference is busy, an attempt that ended
has no running call and no command to apply), the root (`RootInv`: what it thinks of
its call against what the rows say) and the caller (`CallerInv`).  For the stream,
the sequence number only grows, so what is written later lies after every cursor and
an attempt's messages before its result.  A page is a function of the journal, and
that it leaves no gap is an induction over sequence numbers; it is made with the least
number for which it would fail (`LeastNat`, from `WFMin`).

`InferenceServiceProofs` proves, from `LifecycleAssumption`, `ServiceAssumption` and
the scheduler's `SchedulerAssumption`:

* `ServiceRunsLifecycle`: `ServiceSpec => Spec`, the composition adds no step to
  the lifecycle; hence `ServiceIsSafe`;
* `NoPlaceIsLost`: `PlacesAccounted` is an invariant.

The second needs to know who waits: a ticket is in the queue once or among the
permits and never in both (`QueuePart`), and whoever put it there still knows it
(`HolderPart`); otherwise `_drain` could hand a permit to nobody.  `_drain` is a
recursive function; that it only moves tickets from the queue to the permits is shown
over its rounds.

Every inductive invariant was checked with TLC on the instances of section 3 before
it was proved.

Only model-checked: the liveness properties (`DeadClaimReleased`, `OrphanRecovered`,
`MessageSettles`, `DeliverySettles`, `SuspensionEnds`, `EndedIsSettled`,
`InferenceSettles`, `WaitingParentResumes`), since fairness is out of the prover's
reach.  Every safety property that a passing run checks is a theorem.

## 5. Findings

Four places where the sources promise more than the code does; each has a run
whose counterexample TLC prints.

* A cancelled Task is requeued (`sched_cancel_reopened`): `_fail_claim` reopens
  any retryable `ERROR`, one written by a concurrent cancellation included, and puts
  the row back in the phase it was claimed in.
* An admitted run is executed again (`sched_replay`): the claim query takes an
  expired `DISPATCH` row, where a preemption put it, without the replay check.
* A fallback follows an answer (`rounds_fallback`): `fail_round` overwrites the
  delivery state `SENDING` of a round that timed out while its answer was sent.
* A result is refused (`coordination_approval`): a run that created a child and
  waits for a permit leaves `EXEC` for the permit, and the wait for the child then
  raises `InvalidTaskTransition`; the claim fails, and neither wait is recorded.

More were met while modelling and have no run of their own.

* An expired owner may regain its lease: the instant that `_renew_lease` compares is
  older than its UPDATE (`scheduler.py:974`), so a heartbeat delayed on its connection
  or on the row lock renews a lease that has expired, although "heartbeats only renew a
  still-valid lease: an expired owner cannot regain authority by sending a late
  heartbeat" (`docs/en/architecture/state-machines.md:211`).  The agent's slot may have
  been given to another Task, so that live leases exceed the limit (`AgentCapacity`
  leaves out leases that were once expired), and a recovery that read the expired token
  fails the revived claim.  Rounds renew in the same way (`conversation/service.py:613`).
* In the window of `sched_cancel_reopened`, the terminal branch of `_fail_claim`
  also clears a pause that another process had just written (`scheduler.py:1238`).
* Recovery fails the expired claim of a Task that had suspended on its children
  (`scheduler.py:1333`), although "a terminal Task is never used as a provisional
  coordination state" (`collab.py`, `suspend_on_pending_children`).
* The fence of `activate_agent_run` and `persist_agent_run_state` compares the
  lease token that was loaded, not the one that was claimed (`agent_adapter.py:318`).
* A round that waited for an approval after an effect is superseded without
  consuming or passing on its inputs (`conversation/service.py:263`).  `InputNotLost`
  excepts such a round, and inputs that had been passed on to it.
* A stopped round may be restarted until `resolved_by_round_id` names the round that
  restarted it.  Deleting that round clears the reference (`ON DELETE SET NULL`,
  `conversation/models.py:117`), and the stopped round can be restarted again
  (`control_service.py:22`) although a later restart of the same inputs may have
  answered them: stop, restart, stop, restart, delete the second round, restart the
  first.  `AnsweredOnce` excepts it (`RestartReopened`).
* Pausing a round that waits for its retry rewrites the failed attempt that the
  failure budget counts (`conversation/service.py:2059`).
* When the last open child of a suspended parent is deleted, `maybe_fan_in` finds
  nothing to fold and returns: the parent stays suspended (`collab.py:566`, where
  `task_service.py:1253` means to resume it).  `WaitingParentResumes` excepts it;
  without the exception TLC shows it.
* A deferred instruction can be left over by a Task that succeeds when the child it
  waited for was already folded and then reopened, or was deleted;
  `InstructionsHonoured` excepts these.
* A run that resumes under the `request_run_id` of the turn that asked a question
  (its checkpoint was kept) has its result set aside once more although it started
  with the reply (`input_requests.py:115`): a wasted run, not a lost reply.
* `relay_late_answer` sends before it marks the answer as relayed, so a crash in
  between relays it twice (`collab.py:407`).
* The notifier invalidates a row it read without a lock
  (`authorization_notifications.py:121`), so a row that was approved and claimed
  meanwhile can become `invalidated` after its effect; `docs/en/architecture/state-machines.md`
  has invalidation before the effect only.  `claim_deferred_dispatch` invalidates an
  `executing` row in the same way (`authorization.py:260`).  `PermitTellsOutcome`
  excepts the first.
* "With at least three places, one voice and one text place are protected"
  (`docs/en/admin/provider-admission.md`) is not guaranteed: voice may take all places
  but one, and `_eligible` then gives the last one to a background call, which looks
  only at the other background calls (`provider_scheduler.py:123`).
* `finalize_call` is fenced by no lease: a call whose attempt was recovered may
  still change from `cancelled` to `completed` in the accounts
  (`llm_call_service.py:1347`); `AttemptClosed` allows it.

## 6. Not modelled

Of roughly 300 000 lines, most are not protocols: the user interface, adapters to
providers, messengers and storage, CRUD services, prompts, retrieval, evaluation
and their data.  Models of them would restate assignments, and their state does not
meet that of the engines except through the calls modelled here.  Of the engines,
the following are left out because the checked instances are at the limit of what
TLC explores: the PLAN phase, inline voice claims and the Task tree of the
scheduler; the replacement barrier and budget reservations; voice rounds and
contact permissions of conversations.  Whole engines left out: process runs, mail
sending, goals and dreams, the runtime supervisor, rate limits and byte budgets,
refresh sessions.

## 7. Plan

1. Proofs: the helper facts that the liveness arguments rest on (what each fair action
   does from the states where it is enabled), as action properties.
2. Models: the replacement barrier and budgets; process runs; mail sending.

-------------------------- MODULE MediaGenerations --------------------------
(***************************************************************************)
(* Media generations (back/app/multimedia): the deferred dispatch of an    *)
(* authorized action.  The call that obtained the permit only admits a     *)
(* durable generation; a worker under a lease claims the permit, submits   *)
(* to the provider once, polls it, delivers the file and settles the       *)
(* permit.  It composes with ActionAuthorizations, whose rows it claims    *)
(* and settles.                                                            *)
(***************************************************************************)
EXTENDS ActionAuthorizations

VARIABLES
  job,     \* MediaGeneration of each operation, with its output receipt
  worker,  \* the worker's position inside advance, and the job it holds
  files    \* files created at the destination for each operation

mediaVars == <<job, worker, files>>
allVars   == <<vars, mediaVars>>

Terminal == {"success", "error"}

Stages == {"idle", "claim", "mark", "continue", "submit", "post", "poll",
           "deliver", "create", "record", "settle", "settled"}

Jobs == [status     : {"absent", "open"} \cup Terminal,
         claimed    : BOOLEAN,                \* dispatch["claimed"]
         submission : {"none", "started", "accepted", "unknown"},
         provider   : {"none", "running", "success", "error"},
         receipt    : {"none", "held", "started", "delivered"},
         settled    : BOOLEAN,                \* authorization_settled
         leased     : BOOLEAN]

MediaTypeOK ==
  /\ TypeOK
  /\ job \in [Ops -> Jobs]
  /\ worker \in [stage : Stages, op : Ops \cup {"none"}]
  /\ files \in [Ops -> 0 .. 2]

NoWork == [stage |-> "idle", op |-> "none"]

MediaInit ==
  /\ Init
  /\ job = [o \in Ops |->
       [status |-> "absent", claimed |-> FALSE, submission |-> "none",
        provider |-> "none", receipt |-> "none", settled |-> FALSE,
        leased |-> FALSE]]
  /\ worker = NoWork
  /\ files = [o \in Ops |-> 0]

Goto(s) == worker' = [worker EXCEPT !.stage = s]

\* generation_service.start: the permit is registered and the generation
\* inserted; only then does the tool call return.
Admit(c) ==
  /\ hand[c].stage = "registered"
  /\ job[hand[c].op].status = "absent"
  /\ job' = [job EXCEPT ![hand[c].op].status = "open"]
  /\ UNCHANGED <<vars, worker, files>>

\* Mutant: only open generations are worked on.
TickOpen(o) ==
  /\ worker = NoWork
  /\ job[o].status = "open" /\ ~job[o].leased
  /\ job' = [job EXCEPT ![o].leased = TRUE]
  /\ worker' = [op |-> o,
                stage |-> IF job[o].claimed THEN "continue" ELSE "claim"]
  /\ UNCHANGED <<vars, files>>

\* tick: a generation that is open, or ended with its permit unsettled, is
\* leased; an ended one is only settled.
Tick(o) ==
  /\ worker = NoWork
  /\ job[o].status # "absent" /\ ~job[o].leased
  /\ job[o].status \in Terminal => ~job[o].settled
  /\ job' = [job EXCEPT ![o].leased = TRUE]
  /\ worker' = [op |-> o, stage |->
       IF job[o].status \in Terminal THEN "settle"
       ELSE IF job[o].claimed THEN "continue" ELSE "claim"]
  /\ UNCHANGED <<vars, files>>

\* publish: the first terminal result stays.
Published(j, s) == IF j.status \in Terminal THEN j ELSE [j EXCEPT !.status = s]

\* advance ends without a terminal result: the finally block of tick frees
\* the lease.
Release ==
  /\ worker' = NoWork
  /\ job' = [job EXCEPT ![worker.op].leased = FALSE]

\* claim_deferred_dispatch refuses: the row is invalidated if it was still
\* executing, and the generation ends in error.
PermitRefused(continuation) ==
  LET o == worker.op
  IN /\ ~DeferredOpen(rows[o], continuation) \/ ~DeferredValid(o)
     /\ rows' = [rows EXCEPT ![o] = IF DeferredOpen(@, continuation)
                                    THEN DeferredRefused(@) ELSE @]
     /\ job' = [job EXCEPT ![o] = Published(@, "error")]
     /\ Goto("settle")
     /\ UNCHANGED <<policy, conn, conf, perm, ctx, hand, notifier, waker,
                    effects, verdict, changes, wanted, files>>

PermitUsable(continuation) ==
  DeferredOpen(rows[worker.op], continuation) /\ DeferredValid(worker.op)

\* AuthorizationSuspended: a human hold delays the worker.
PermitSuspended(continuation) ==
  /\ PermitUsable(continuation)
  /\ ~DispatchAvailable(worker.op, rows[worker.op])
  /\ Release
  /\ UNCHANGED <<vars, files>>

\* claim_deferred_dispatch before the first effect: dispatch_claimed_at.
ClaimStart ==
  /\ worker.stage = "claim"
  /\ \/ PermitRefused(FALSE)
     \/ PermitSuspended(FALSE)
     \/ /\ PermitUsable(FALSE)
        /\ DispatchAvailable(worker.op, rows[worker.op])
        /\ rows' = [rows EXCEPT ![worker.op].started = TRUE]
        /\ Goto("mark")
        /\ UNCHANGED <<policy, conn, conf, perm, ctx, hand, notifier, waker,
                       effects, verdict, changes, wanted, job, files>>

\* The generation remembers the claim, in a second transaction.
MarkClaimed ==
  /\ worker.stage = "mark"
  /\ job' = [job EXCEPT ![worker.op].claimed = TRUE]
  /\ Goto("continue")
  /\ UNCHANGED <<vars, files>>

\* continued_deferred_dispatch: the permit is checked again.
Continue ==
  /\ worker.stage = "continue"
  /\ \/ PermitRefused(TRUE)
     \/ PermitSuspended(TRUE)
     \/ /\ PermitUsable(TRUE)
        /\ DispatchAvailable(worker.op, rows[worker.op])
        /\ Goto("submit")
        /\ UNCHANGED <<vars, job, files>>

\* The function's own access check, or the admitted provider, has changed.
AccessLost ==
  /\ worker.stage \in {"submit", "poll", "deliver"}
  /\ changes < MaxChanges /\ changes' = changes + 1
  /\ job' = [job EXCEPT ![worker.op] = Published(@, "error")]
  /\ Goto("settle")
  /\ UNCHANGED <<rows, policy, conn, conf, perm, ctx, hand, notifier, waker,
                 effects, verdict, wanted, files>>

\* _submit: the submission is claimed in the checkpoint before the POST, and
\* never repeated once claimed.
ClaimSubmission ==
  LET j == job[worker.op]
  IN /\ worker.stage = "submit"
     /\ IF j.submission = "none"
        THEN /\ job' = [job EXCEPT ![worker.op].submission = "started"]
             /\ Goto("post")
        ELSE Goto("poll") /\ UNCHANGED job
     /\ UNCHANGED <<vars, files>>

\* The POST to the provider: accepted, finished at once, rejected, or lost.
Post ==
  LET o == worker.op
  IN /\ worker.stage = "post"
     /\ effects' = [effects EXCEPT ![o] = IF @ < 2 THEN @ + 1 ELSE @]
     /\ \/ job' = [job EXCEPT ![o].submission = "accepted",
                              ![o].provider = "running"]
        \/ job' = [job EXCEPT ![o].submission = "accepted",
                              ![o].provider = "success",
                              ![o].receipt = "held"]
        \/ job' = [job EXCEPT ![o].provider = "error"]
        \/ job' = [job EXCEPT ![o].submission = "unknown"]
     /\ Goto("poll")
     /\ UNCHANGED <<rows, policy, conn, conf, perm, ctx, hand, notifier,
                    waker, verdict, changes, wanted, files>>

\* _poll_run: a known submission is polled (provider.poll answers anything),
\* one without an identity is reported unknown and never resubmitted.
Poll ==
  LET o == worker.op
      j == job[o]
  IN /\ worker.stage = "poll"
     /\ \/ /\ j.provider = "error"
           /\ job' = [job EXCEPT ![o] = Published(@, "error")]
           /\ Goto("settle")
        \/ /\ j.provider = "success"
           /\ Goto("deliver") /\ UNCHANGED job
        \/ /\ j.provider = "none"
           /\ Release
        \/ /\ j.provider = "running"
           /\ \/ Release
              \/ /\ job' = [job EXCEPT ![o].provider = "success",
                                       ![o].receipt = "held"]
                 /\ Goto("deliver")
              \/ /\ job' = [job EXCEPT ![o] =
                              Published([@ EXCEPT !.provider = "error"],
                                        "error")]
                 /\ Goto("settle")
     /\ UNCHANGED <<vars, files>>

\* Mutant: an interrupted creation is tried again.
DeliverAgain ==
  LET o == worker.op
  IN /\ worker.stage = "deliver"
     /\ \/ /\ job[o].receipt \in {"held", "started"}
           /\ job' = [job EXCEPT ![o].receipt = "started"]
           /\ Goto("create")
        \/ /\ job[o].receipt = "delivered"
           /\ job' = [job EXCEPT ![o] = Published(@, "success")]
           /\ Goto("settle")
     /\ UNCHANGED <<vars, files>>

\* _deliver_run, under the receipt's lock: an interrupted creation is not
\* repeated, a delivered one ends the generation.
Deliver ==
  LET o == worker.op
  IN /\ worker.stage = "deliver"
     /\ \/ /\ job[o].receipt = "started" /\ Release
        \/ /\ job[o].receipt = "held"
           /\ job' = [job EXCEPT ![o].receipt = "started"]
           /\ Goto("create")
        \/ /\ job[o].receipt = "delivered"
           /\ job' = [job EXCEPT ![o] = Published(@, "success")]
           /\ Goto("settle")
     /\ UNCHANGED <<vars, files>>

\* resource_create, then its recorded URI.
CreateFile ==
  /\ worker.stage = "create"
  /\ files' = [files EXCEPT ![worker.op] = IF @ < 2 THEN @ + 1 ELSE @]
  /\ Goto("record")
  /\ UNCHANGED <<vars, job>>

RecordFile ==
  /\ worker.stage = "record"
  /\ job' = [job EXCEPT ![worker.op].receipt = "delivered"]
  /\ Goto("deliver")
  /\ UNCHANGED <<vars, files>>

\* Mutant: the worker reports like the call that admitted the generation.
SettleAsCaller ==
  LET o == worker.op
  IN /\ worker.stage = "settle"
     /\ rows' = [rows EXCEPT ![o] =
          Finished(@, IF job[o].status = "success" THEN "completed"
                      ELSE "failed", TRUE, FALSE)]
     /\ Goto("settled")
     /\ UNCHANGED <<policy, conn, conf, perm, ctx, hand, notifier, waker,
                    effects, verdict, changes, wanted, job, files>>

\* settle_authorization: finish_action with the result as its receipt ...
Settle ==
  LET o == worker.op
  IN /\ worker.stage = "settle"
     /\ rows' = [rows EXCEPT ![o] =
          Finished(@, IF job[o].status = "success" THEN "completed"
                      ELSE "failed", TRUE, TRUE)]
     /\ Goto("settled")
     /\ UNCHANGED <<policy, conn, conf, perm, ctx, hand, notifier, waker,
                    effects, verdict, changes, wanted, job, files>>

\* ... then authorization_settled, and the lease is freed.
MarkSettled ==
  /\ worker.stage = "settled"
  /\ worker' = NoWork
  /\ job' = [job EXCEPT ![worker.op].settled = TRUE,
                        ![worker.op].leased = FALSE]
  /\ UNCHANGED <<vars, files>>

\* The worker's process dies; its lease lapses 1500 s later, twice the job's
\* own time limit.
WorkerCrash ==
  /\ worker # NoWork
  /\ worker' = NoWork
  /\ UNCHANGED <<vars, job, files>>

LeaseLapse(o) ==
  /\ job[o].leased /\ worker.op # o
  /\ job' = [job EXCEPT ![o].leased = FALSE]
  /\ UNCHANGED <<vars, worker, files>>

\* repair_delivery: once the interrupted delivery's lease has lapsed, an
\* operator attaches the file that is there, or confirms that none is.
RepairDelivery(o) ==
  /\ job[o].status = "open" /\ job[o].receipt = "started" /\ worker.op # o
  /\ job' = [job EXCEPT ![o].receipt =
               IF files[o] > 0 THEN "delivered" ELSE "held"]
  /\ UNCHANGED <<vars, worker, files>>

----------------------------------------------------------------------------
WorkerNext ==
  \/ \E o \in Ops : Tick(o)
  \/ ClaimStart \/ MarkClaimed \/ Continue \/ AccessLost \/ ClaimSubmission
  \/ Post \/ Poll \/ Deliver \/ CreateFile \/ RecordFile
  \/ Settle \/ MarkSettled

MediaNext ==
  \/ Next /\ UNCHANGED mediaVars
  \/ \E c \in Callers :
       (RegisterDeferred(c) /\ UNCHANGED mediaVars) \/ Admit(c)
  \/ WorkerNext \/ WorkerCrash
  \/ \E o \in Ops : LeaseLapse(o) \/ RepairDelivery(o)

MediaSpec == MediaInit /\ [][MediaNext]_allVars

\* The worker's ticks run, lapsed leases are noticed, and the worker does not
\* die at every report; the provider, the operator and the caller need not act.
FairWorker ==
  /\ \A o \in Ops : SF_allVars(Tick(o)) /\ WF_allVars(LeaseLapse(o))
  /\ SF_allVars(Settle) /\ SF_allVars(MarkSettled)

MediaFairSpec == MediaSpec /\ FairJobs /\ FairWorker

----------------------------------------------------------------------------
\* A worker that dies after resource_create, or finds the creation started by
\* a dead one, never writes a second file; the operator's repair neither.
OneFile == \A o \in Ops : files[o] <= 1

\* A generation that ended and reported leaves its permit closed, and closed
\* as what happened: completed only for a delivered file.  (A request that
\* a stale notification invalidated stays invalidated.)
PermitTellsOutcome ==
  \A o \in Ops :
    /\ job[o].settled => rows[o].status \in Settled
    /\ job[o].settled /\ job[o].status = "success" =>
         rows[o].status \in {"completed", "invalidated"} /\ files[o] = 1
    /\ job[o].status = "error" => rows[o].status # "completed"

\* An ended generation reports to its permit, although the worker may die
\* between the result and the report.
EndedIsSettled ==
  \A o \in Ops : (job[o].status \in Terminal) ~> job[o].settled
=============================================================================

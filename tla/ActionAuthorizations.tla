------------------------ MODULE ActionAuthorizations ------------------------
(***************************************************************************)
(* Durable, single-use authorization of an agent's actions                 *)
(* (back/app/tools/authorization.py and its neighbours).  One row per      *)
(* operation key records what a human or a remembered permission agreed    *)
(* to.  Callers (two attempts of the same Task may be alive at once) claim *)
(* the row before the effect, a human answers, administrators change the   *)
(* policy underneath, and periodic jobs notify, expire, reconcile and wake *)
(* the suspended Task.  Every action is one database transaction.          *)
(***************************************************************************)
EXTENDS Integers, FiniteSets

CONSTANTS
  Ops,          \* operation keys: callback, capability and connection
  RuntimeOps,   \* the ones a managed runtime asks for (source = "runtime")
  Callers,      \* attempts of the Task that may dispatch an operation
  Users,        \* humans who may manage the agent
  AgentQuota,   \* unsettled requests an agent may have (50 in the code)
  MaxChanges    \* bound: changes of policy, configuration and scope

ASSUME AuthorizationConstants ==
  /\ RuntimeOps \subseteq Ops /\ IsFiniteSet(Ops)
  /\ Users # {} /\ Callers # {}
  /\ AgentQuota \in Nat /\ MaxChanges \in Nat
  /\ "none" \notin Ops

VARIABLES
  rows,      \* ActionAuthorization, one per operation key
  policy,    \* the agent's manager and authorization_version
  conn,      \* state of the function on the connection, and its source
  conf,      \* revision of the tool's configuration and parameters
  perm,      \* RuntimeActionPermission in force, id 0 when there is none
  ctx,       \* the Task the operations belong to
  hand,      \* what each caller has in hand
  notifier,  \* deliver_authorization_notifications, between its transactions
  waker,     \* the wake loop of reconcile_authorizations, likewise
  effects,   \* effects dispatched under each operation's permit
  verdict,   \* what was decided first about each operation
  changes,   \* changes made so far
  wanted     \* the operations the Task asks for in this behaviour

vars == <<rows, policy, conn, conf, perm, ctx, hand, notifier, waker,
          effects, verdict, changes, wanted>>

Statuses == {"absent", "pending", "approved", "denied", "expired",
             "invalidated", "executing", "completed", "failed",
             "outcome_unknown"}
Open      == {"pending", "approved"}
Unsettled == Open \cup {"executing", "outcome_unknown"}
Settled   == {"completed", "failed", "denied", "expired", "invalidated"}

Modes == {"ask", "enabled", "disabled"}

Rows == [status   : Statuses,
         conf     : Nat,                  \* configuration_fingerprint
         mode     : Modes,
         source   : {"software", "connection"},
         approver : Users,
         version  : Nat,                  \* policy_version
         decision : {"none", "human", "runtime_policy"},
         perm     : Nat,                  \* runtime_permission_id
         early    : BOOLEAN,    \* decided after the live attempt started
         expected : BOOLEAN,    \* dispatch_expected
         started  : BOOLEAN,    \* dispatch_claimed_at is set
         age      : 0 .. 2,     \* 1: past expires_at, 2: claimed 24 h ago
         notice   : BOOLEAN,    \* an outbox entry is to be delivered
         wake     : BOOLEAN]    \* wake_due_at is set

TypeOK ==
  /\ rows \in [Ops -> Rows]
  /\ policy \in [manager : Users, version : Nat]
  /\ conn \in [state : Modes, source : {"software", "connection"}]
  /\ conf \in Nat
  /\ perm \in [id : Nat, allowed : BOOLEAN, conf : Nat, version : Nat,
               approver : Users]
  /\ ctx \in [phase : {"running", "suspended", "queued", "done", "stopped"},
              held : BOOLEAN, asked : SUBSET Ops, waits : SUBSET Ops,
              grant : BOOLEAN]
  /\ hand \in [Callers -> [stage : {"idle", "bound", "permit", "effected",
                                    "registered"},
                           op : Ops \cup {"none"}, conf : Nat,
                           stale : BOOLEAN]]
  /\ notifier \in [op : Ops \cup {"none"}, usable : {"unread", "yes", "no"}]
  /\ waker \in [op : Ops \cup {"none"}, acked : {"unasked", "yes", "no"}]
  /\ effects \in [Ops -> 0 .. 2]
  /\ verdict \in [Ops -> {"none", "yes", "no"}]
  /\ changes \in 0 .. MaxChanges
  /\ wanted \subseteq Ops

Idle == [stage |-> "idle", op |-> "none", conf |-> 0, stale |-> FALSE]
NoNotice == [op |-> "none", usable |-> "unread"]
NoWake == [op |-> "none", acked |-> "unasked"]

Init ==
  \E u \in Users :
    /\ rows = [o \in Ops |->
         [status |-> "absent", conf |-> 0, mode |-> "ask",
          source |-> "software", approver |-> u, version |-> 0,
          decision |-> "none", perm |-> 0, early |-> FALSE,
          expected |-> FALSE, started |-> FALSE, age |-> 0,
          notice |-> FALSE, wake |-> FALSE]]
    /\ policy = [manager |-> u, version |-> 0]
    /\ conn = [state |-> "ask", source |-> "software"]
    /\ conf = 0
    /\ perm = [id |-> 0, allowed |-> FALSE, conf |-> 0, version |-> 0,
               approver |-> u]
    /\ ctx = [phase |-> "running", held |-> FALSE, asked |-> {},
              waits |-> {}, grant |-> TRUE]
    /\ hand = [c \in Callers |-> Idle]
    /\ notifier = NoNotice /\ waker = NoWake
    /\ effects = [o \in Ops |-> 0]
    /\ verdict = [o \in Ops |-> "none"]
    /\ changes \in 0 .. MaxChanges
    /\ wanted \in SUBSET Ops

----------------------------------------------------------------------------
(* Policy resolution.                                                      *)

\* matching_permission: the remembered permission, if it was given for this
\* manager, policy version and configuration.
MatchingPermission ==
  /\ perm.id # 0 /\ perm.conf = conf
  /\ perm.version = policy.version /\ perm.approver = policy.manager

\* permission_still_valid: a row decided by a permission needs that very one.
PermissionStillValid(r) ==
  r.perm = 0 \/ (MatchingPermission /\ perm.allowed /\ perm.id = r.perm)

\* authorization_context_snapshot, and the run grant of a runtime action:
\* without both, resolve_action_mode raises.
Resolvable(o) ==
  /\ ctx.phase \in {"running", "suspended", "queued"}
  /\ o \in RuntimeOps => ctx.grant

\* resolve_action_mode
ActionMode(o) ==
  IF o \in RuntimeOps
  THEN [state  |-> IF MatchingPermission /\ ~perm.allowed
                   THEN "disabled" ELSE "ask",
        source |-> "software"]
  ELSE conn

\* _dispatch_available, and runtime_dispatch_ready for a managed runtime: a
\* human hold, or an attempt older than the human decision, admits nothing.
DispatchAvailable(o, r) ==
  /\ ~ctx.held
  /\ o \in RuntimeOps =>
       ctx.phase = "running" /\ ~(r.decision = "human" /\ r.early)

\* A row leaves the open states with its wake due and no notice left.
Closed(r, s) == [r EXCEPT !.status = s, !.notice = FALSE, !.wake = TRUE]

\* _still_usable: what reconciliation asks of an open row.
StillUsable(o) ==
  LET r == rows[o]
  IN /\ r.approver = policy.manager
     /\ r.status = "approved" => r.decision \in {"human", "runtime_policy"}
     /\ PermissionStillValid(r)
     /\ Resolvable(o)
     /\ ActionMode(o) = [state |-> r.mode, source |-> r.source]

----------------------------------------------------------------------------
(* The caller: bind the action, claim it, dispatch it, report it.          *)

\* bind_native_action reads the configuration before the claim's transaction.
Bind(c, o) ==
  /\ hand[c] = Idle /\ o \in wanted
  /\ ctx.phase = "running"
  /\ hand' = [hand EXCEPT ![c] =
       [stage |-> "bound", op |-> o, conf |-> conf, stale |-> FALSE]]
  /\ UNCHANGED <<rows, policy, conn, conf, perm, ctx, notifier, waker,
                 effects, verdict, changes, wanted>>

\* The row claim_action inserts: pending, or approved by a permission.
NewRow(o, cf) ==
  LET r == [status |-> "pending", conf |-> cf, mode |-> ActionMode(o).state,
            source |-> ActionMode(o).source, approver |-> policy.manager,
            version |-> policy.version, decision |-> "none", perm |-> 0,
            early |-> FALSE, expected |-> FALSE, started |-> FALSE,
            age |-> 0, notice |-> TRUE, wake |-> FALSE]
  IN IF o \in RuntimeOps /\ MatchingPermission
     THEN [r EXCEPT !.status = "approved", !.decision = "runtime_policy",
                    !.perm = perm.id]
     ELSE r

\* A denial of the same arguments in the same scope answers a new operation
\* too.  Every operation of the model carries the same arguments.
AlreadyRefused(o, cf) ==
  \E p \in Ops : /\ rows[p].status = "denied" /\ rows[p].age = 0
                 /\ p \in RuntimeOps <=> o \in RuntimeOps
                 /\ rows[p].conf = cf /\ rows[p].version = policy.version
                 /\ rows[p].mode = ActionMode(o).state
                 /\ rows[p].source = ActionMode(o).source

\* Mutant: the quota is checked after one more request than it allows.
QuotaPassed ==
  Cardinality({p \in Ops : rows[p].status \in Unsettled}) > AgentQuota

QuotaReached ==
  Cardinality({p \in Ops : rows[p].status \in Unsettled}) >= AgentQuota

\* What claim_action requires before it looks at the row, or may insert it.
Claimable(o, cf) ==
  /\ Resolvable(o)
  /\ ActionMode(o).state # "disabled"
  /\ rows[o].status = "absent" =>
       /\ ActionMode(o).state # "enabled"
       /\ ~AlreadyRefused(o, cf)
       /\ ~QuotaReached

\* Mutant: a claim refreshes the stored configuration instead of comparing.
RevalidatedNever(o, cf) ==
  IF rows[o].status = "absent" THEN NewRow(o, cf)
  ELSE [rows[o] EXCEPT !.conf = cf]

\* The expiry and the revalidation of an open row inside the claim.
Revalidated(o, cf) ==
  LET r == IF rows[o].status = "absent" THEN NewRow(o, cf) ELSE rows[o]
  IN IF r.status \notin Open THEN r
     ELSE IF r.age > 0 THEN Closed(r, "expired")
     ELSE IF \/ r.conf # cf
             \/ ActionMode(o) # [state |-> r.mode, source |-> r.source]
             \/ r.approver # policy.manager
             \/ ~PermissionStillValid(r)
          THEN Closed(r, "invalidated")
     ELSE r

\* claim_action raises before the row: refused, over quota, disabled, out of
\* scope.  (An enabled function with no row runs without a permit.)
ClaimRefused(c) ==
  /\ hand[c].stage = "bound"
  /\ ~Claimable(hand[c].op, hand[c].conf)
  /\ hand' = [hand EXCEPT ![c] = Idle]
  /\ UNCHANGED <<rows, policy, conn, conf, perm, ctx, notifier, waker,
                 effects, verdict, changes, wanted>>

\* Mutant: an executing row may be claimed again, as a retry of a caller
\* that lost its answer would like.
ClaimAgain(c) ==
  LET o  == hand[c].op
      cf == hand[c].conf
      r  == Revalidated(o, cf)
      granted == r.status \in {"approved", "executing"} /\ r.conf = cf
                 /\ DispatchAvailable(o, r)
  IN /\ hand[c].stage = "bound"
     /\ Claimable(o, cf)
     /\ rows' = [rows EXCEPT ![o] =
          IF granted THEN [r EXCEPT !.status = "executing"] ELSE r]
     /\ hand' = [hand EXCEPT ![c] =
          IF granted THEN [@ EXCEPT !.stage = "permit"] ELSE Idle]
     /\ ctx' = [ctx EXCEPT !.asked =
          IF r.status \in Open /\ ~granted /\ ~hand[c].stale
          THEN @ \cup {o} ELSE @]
     /\ verdict' = [verdict EXCEPT ![o] =
          IF rows[o].status = "absent" /\ r.decision = "runtime_policy"
          THEN "yes" ELSE @]
     /\ UNCHANGED <<policy, conn, conf, perm, notifier, waker, effects,
                    changes, wanted>>

\* claim_action up to its commit: approved becomes executing once, a pending
\* or held row is asked for again, a closed one stays closed.
Claim(c) ==
  LET o  == hand[c].op
      cf == hand[c].conf
      r  == Revalidated(o, cf)
      granted == r.status = "approved" /\ r.conf = cf
                 /\ DispatchAvailable(o, r)
      waiting == r.status \in Open /\ r.conf = cf /\ ~granted
  IN /\ hand[c].stage = "bound"
     /\ Claimable(o, cf)
     /\ rows' = [rows EXCEPT ![o] =
          IF granted THEN [r EXCEPT !.status = "executing", !.notice = FALSE]
          ELSE IF r.status \in {"expired", "invalidated"}
               THEN Closed(r, r.status)
          ELSE r]
     /\ hand' = [hand EXCEPT ![c] =
          IF granted THEN [@ EXCEPT !.stage = "permit"] ELSE Idle]
     /\ ctx' = [ctx EXCEPT !.asked =
          IF waiting /\ ~hand[c].stale THEN @ \cup {o} ELSE @]
     /\ verdict' = [verdict EXCEPT ![o] =
          IF rows[o].status = "absent" /\ r.decision = "runtime_policy"
          THEN "yes" ELSE @]
     /\ UNCHANGED <<policy, conn, conf, perm, notifier, waker, effects,
                    changes, wanted>>

\* The tool function runs: the external effect of a claimed operation.
Dispatch(c) ==
  /\ hand[c].stage = "permit"
  /\ effects' = [effects EXCEPT ![hand[c].op] = IF @ < 2 THEN @ + 1 ELSE @]
  /\ hand' = [hand EXCEPT ![c].stage = "effected"]
  /\ UNCHANGED <<rows, policy, conn, conf, perm, ctx, notifier, waker,
                 verdict, changes, wanted>>

\* finish_action on one row.  receipt: an authoritative late receipt is
\* given; deferred: the worker of a deferred dispatch reports.
Finished(r, outcome, receipt, deferred) ==
  IF \/ /\ r.status # "executing"
        /\ ~(/\ r.status = "outcome_unknown"
             /\ outcome \in {"completed", "failed"} /\ receipt)
     \/ r.expected /\ ~deferred /\ outcome = "completed"
  THEN r
  ELSE [r EXCEPT !.status = outcome]

\* The wrapper reports a result, a rejection before any effect, or an
\* exception or cancellation that proves nothing; a runtime posts what it
\* likes to /receipt, and may post it again.
Finish(c) ==
  LET o == hand[c].op
      runtime == o \in RuntimeOps
  IN \E outcome \in {"completed", "failed", "outcome_unknown"},
        receipt \in BOOLEAN :
     /\ hand[c].stage \in {"permit", "effected", "registered"}
     /\ outcome = "completed" => hand[c].stage # "permit"
     /\ outcome = "failed" => hand[c].stage = "permit" \/ runtime
     /\ ~runtime => (receipt <=> outcome = "completed")
     /\ rows' = [rows EXCEPT ![o] = Finished(@, outcome, receipt, FALSE)]
     /\ \/ hand' = [hand EXCEPT ![c] = Idle]
        \/ runtime /\ UNCHANGED hand
     /\ UNCHANGED <<policy, conn, conf, perm, ctx, notifier, waker, effects,
                    verdict, changes, wanted>>

\* The process of a caller dies, or its attempt loses its lease.
CallerCrash(c) ==
  /\ hand[c] # Idle
  /\ hand' = [hand EXCEPT ![c] = Idle]
  /\ UNCHANGED <<rows, policy, conn, conf, perm, ctx, notifier, waker,
                 effects, verdict, changes, wanted>>

----------------------------------------------------------------------------
(* Deferred dispatch: the permit outlives the call that obtained it.       *)

\* register_deferred_dispatch: once per executing row.
RegisterDeferred(c) ==
  LET o == hand[c].op
  IN /\ hand[c].stage = "permit" /\ o \notin RuntimeOps
     /\ rows[o].status = "executing" /\ ~rows[o].expected
     /\ rows' = [rows EXCEPT ![o].expected = TRUE]
     /\ hand' = [hand EXCEPT ![c].stage = "registered"]
     /\ UNCHANGED <<policy, conn, conf, perm, ctx, notifier, waker, effects,
                    verdict, changes, wanted>>

\* claim_deferred_dispatch, first test: the row may start, or (continuation)
\* go on with, its one deferred dispatch.
DeferredOpen(r, continuation) ==
  /\ r.status \in (IF continuation THEN {"executing", "completed"}
                   ELSE {"executing"})
  /\ r.expected /\ r.started = continuation

\* claim_deferred_dispatch, second test: expiry, approver, mode and
\* configuration are still the approved ones.  A finished Task keeps its
\* deferred work, a stopped one does not (_deferred_authorization_snapshot).
DeferredValid(o) ==
  LET r == rows[o]
  IN /\ r.age = 0
     /\ r.decision \in {"human", "runtime_policy"}
     /\ r.approver = policy.manager
     /\ ActionMode(o) = [state |-> r.mode, source |-> r.source]
     /\ ctx.phase # "stopped"
     /\ o \notin RuntimeOps       \* there must be a live connection
     /\ r.conf = conf

\* The row after a claim that failed the second test.
DeferredRefused(r) ==
  IF r.status = "executing" THEN [r EXCEPT !.status = "invalidated"] ELSE r

----------------------------------------------------------------------------
(* The human, and the administrators.                                      *)

\* can_remember_action: the question still describes what it was asked of.
CanRemember(o) ==
  LET r == rows[o]
  IN /\ r.mode = "ask" /\ r.age = 0 /\ r.conf = conf
     /\ Resolvable(o)
     /\ ActionMode(o) = [state |-> "ask", source |-> r.source]
     /\ o \in RuntimeOps => /\ r.approver = policy.manager
                            /\ r.version = policy.version

\* answer_action: the first valid human transition wins.
Answer(o, u, approved, remember) ==
  LET r == rows[o]
      kept == [r EXCEPT
        !.perm   = IF remember /\ o \in RuntimeOps THEN changes + 1 ELSE @,
        !.mode   = IF remember /\ o \notin RuntimeOps
                   THEN IF approved THEN "enabled" ELSE "disabled" ELSE @,
        !.source = IF remember /\ o \notin RuntimeOps
                   THEN "connection" ELSE @]
  IN /\ r.status = "pending"
     /\ r.approver = u /\ policy.manager = u
     /\ o \in RuntimeOps => ~(MatchingPermission /\ ~perm.allowed)
     /\ remember => CanRemember(o) /\ changes < MaxChanges
     /\ IF r.age > 0
        THEN /\ rows' = [rows EXCEPT ![o] = Closed(r, "expired")]
             /\ UNCHANGED verdict
        ELSE /\ rows' = [rows EXCEPT ![o] =
                  [Closed(kept, IF approved THEN "approved" ELSE "denied")
                   EXCEPT !.decision = "human", !.early = o \in RuntimeOps]]
             /\ verdict' = [verdict EXCEPT ![o] =
                              IF approved THEN "yes" ELSE "no"]
     /\ perm' = IF remember /\ o \in RuntimeOps
                THEN [id |-> changes + 1, allowed |-> approved,
                      conf |-> r.conf, version |-> r.version, approver |-> u]
                ELSE perm
     /\ conn' = IF remember /\ o \notin RuntimeOps
                THEN [state |-> IF approved THEN "enabled" ELSE "disabled",
                      source |-> "connection"]
                ELSE conn
     /\ changes' = IF remember THEN changes + 1 ELSE changes
     /\ UNCHANGED <<policy, conf, ctx, hand, notifier, waker, effects, wanted>>

\* cancel_request: management stops an unconsumed action.
CancelRequest(o) ==
  /\ rows[o].status \in Open
  /\ rows' = [rows EXCEPT ![o] = Closed(@, "invalidated")]
  /\ UNCHANGED <<policy, conn, conf, perm, ctx, hand, notifier, waker,
                 effects, verdict, changes, wanted>>

\* Rows that referenced a permission no longer in force.
WithoutPermission(id) ==
  [o \in Ops |-> IF rows[o].perm = id /\ rows[o].status \in Open
                 THEN Closed(rows[o], "invalidated") ELSE rows[o]]

\* set_policy and revoke_permission: the permission is replaced or withdrawn.
SetPermission ==
  \E allowed \in {"yes", "no", "revoke"} :
    /\ changes < MaxChanges
    /\ perm.id # 0 \/ \E o \in RuntimeOps : rows[o].status # "absent"
    /\ allowed = "revoke" => perm.id # 0
    /\ perm' = IF allowed = "revoke" THEN [perm EXCEPT !.id = 0]
               ELSE [id |-> changes + 1, allowed |-> allowed = "yes",
                     conf |-> conf, version |-> policy.version,
                     approver |-> policy.manager]
    /\ rows' = IF perm.id # 0 THEN WithoutPermission(perm.id) ELSE rows
    /\ changes' = changes + 1
    /\ UNCHANGED <<policy, conn, conf, ctx, hand, notifier, waker, effects,
                   verdict, wanted>>

\* The connection's function, the tool's parameters or the agent's manager
\* change; the open rows are not touched (update_agent, connection editing).
ChangeScope ==
  /\ changes < MaxChanges
  /\ changes' = changes + 1
  /\ \/ /\ \E s \in Modes : conn' = [state |-> s, source |-> "connection"]
        /\ UNCHANGED <<policy, conf, ctx>>
     \/ /\ conf' = conf + 1
        /\ UNCHANGED <<policy, conn, ctx>>
     \/ /\ \E u \in Users \ {policy.manager} :
             policy' = [manager |-> u, version |-> policy.version + 1]
        /\ UNCHANGED <<conn, conf, ctx>>
     \/ /\ ctx' = [ctx EXCEPT !.held = ~@]      \* a human hold, or its end
        /\ UNCHANGED <<policy, conn, conf>>
  /\ UNCHANGED <<rows, perm, hand, notifier, waker, effects, verdict, wanted>>

\* revoke_runtime_run_grant: the run's authority goes before its stop.
RevokeGrant ==
  /\ ctx.grant /\ changes < MaxChanges
  /\ changes' = changes + 1
  /\ ctx' = [ctx EXCEPT !.grant = FALSE]
  /\ rows' = [o \in Ops |->
       IF o \in RuntimeOps /\ rows[o].status \in Open
       THEN Closed(rows[o], "invalidated") ELSE rows[o]]
  /\ UNCHANGED <<policy, conn, conf, perm, hand, notifier, waker, effects,
                 verdict, wanted>>

----------------------------------------------------------------------------
(* The Task: suspended on what it asked for, finished or stopped.          *)

\* The run's own calls have returned; those of a lost attempt may not have.
RunIdle == \A c \in Callers : hand[c] = Idle \/ hand[c].stale

\* _update_task_after_execution: the run ends waiting for its requests.
Suspend ==
  /\ ctx.phase = "running" /\ ctx.asked # {} /\ RunIdle
  /\ ctx' = [ctx EXCEPT !.phase = "suspended", !.waits = ctx.asked,
                        !.asked = {}]
  /\ UNCHANGED <<rows, policy, conn, conf, perm, hand, notifier, waker,
                 effects, verdict, changes, wanted>>

\* The scheduler starts an attempt: what was decided so far precedes it, and
\* renew_runtime_run_grant hands the run's grant over to it.
StartAttempt ==
  /\ ctx.phase = "queued"
  /\ ctx' = [ctx EXCEPT !.phase = "running"]
  /\ rows' = [o \in Ops |-> [rows[o] EXCEPT !.early = FALSE]]
  /\ UNCHANGED <<policy, conn, conf, perm, hand, notifier, waker, effects,
                 verdict, changes, wanted>>

\* The attempt loses its lease; its callers may be alive for a while.
AttemptLost ==
  /\ ctx.phase = "running"
  /\ ctx' = [ctx EXCEPT !.phase = "queued", !.asked = {}]
  /\ hand' = [c \in Callers |->
       IF hand[c] = Idle THEN Idle ELSE [hand[c] EXCEPT !.stale = TRUE]]
  /\ UNCHANGED <<rows, policy, conn, conf, perm, notifier, waker, effects,
                 verdict, changes, wanted>>

\* The run ends with nothing to wait for, or the Task fails or is cancelled;
\* invalidate_authorization_context withdraws what a superseded scope asked.
EndContext ==
  \/ /\ ctx.phase = "running" /\ ctx.asked = {} /\ RunIdle
     /\ ctx' = [ctx EXCEPT !.phase = "done"]
     /\ UNCHANGED <<rows, policy, conn, conf, perm, hand, notifier, waker,
                    effects, verdict, changes, wanted>>
  \/ /\ ctx.phase \in {"running", "suspended", "queued"}
     /\ changes < MaxChanges /\ changes' = changes + 1
     /\ ctx' = [ctx EXCEPT !.phase = "stopped"]
     /\ \/ UNCHANGED rows
        \/ rows' = [o \in Ops |-> IF rows[o].status \in Open
                      THEN Closed(rows[o], "invalidated") ELSE rows[o]]
     /\ UNCHANGED <<policy, conn, conf, perm, hand, notifier, waker,
                    effects, verdict, wanted>>

\* Time, where something reads it: expires_at passes, and 24 hours after the
\* claim.
Age(o) ==
  /\ \/ rows[o].age = 0
        /\ \/ rows[o].status \in Open \cup {"executing", "denied"}
           \/ rows[o].status = "completed" /\ rows[o].expected
     \/ rows[o].age = 1 /\ rows[o].status = "executing"
  /\ rows' = [rows EXCEPT ![o].age = @ + 1]
  /\ UNCHANGED <<policy, conn, conf, perm, ctx, hand, notifier, waker,
                 effects, verdict, changes, wanted>>

----------------------------------------------------------------------------
(* deliver_authorization_notifications                                     *)

\* The outbox entry is leased for a while; a lease that lapses is a crash of
\* its holder seen by the others, so the lease itself is notifier.op ...
NoticeClaim(o) ==
  /\ notifier = NoNotice
  /\ rows[o].status = "pending" /\ rows[o].notice /\ rows[o].age = 0
  /\ notifier' = [op |-> o, usable |-> "unread"]
  /\ UNCHANGED <<rows, policy, conn, conf, perm, ctx, hand, waker, effects,
                 verdict, changes, wanted>>

\* ... the row is read without a lock and judged ...
NoticeRead ==
  /\ notifier.op # "none" /\ notifier.usable = "unread"
  /\ notifier' = [notifier EXCEPT !.usable =
                    IF StillUsable(notifier.op) THEN "yes" ELSE "no"]
  /\ UNCHANGED <<rows, policy, conn, conf, perm, ctx, hand, waker, effects,
                 verdict, changes, wanted>>

\* Mutant: the delivered choice is written back with the row as it was read.
NoticeWriteBack ==
  LET o == notifier.op
  IN /\ notifier.usable # "unread"
     /\ rows' = [rows EXCEPT ![o] =
          IF notifier.usable = "no" THEN Closed(@, "invalidated")
          ELSE [@ EXCEPT !.notice = FALSE, !.status = "pending"]]
     /\ notifier' = NoNotice
     /\ UNCHANGED <<policy, conn, conf, perm, ctx, hand, waker, effects,
                    verdict, changes, wanted>>

\* ... and written: the invalidation whatever the row has become meanwhile,
\* the delivered choice only while the row is still pending.
NoticeWrite ==
  LET o == notifier.op
  IN /\ notifier.usable # "unread"
     /\ rows' = [rows EXCEPT ![o] =
          IF notifier.usable = "no" THEN Closed(@, "invalidated")
          ELSE IF @.status = "pending" THEN [@ EXCEPT !.notice = FALSE]
          ELSE @]
     /\ notifier' = NoNotice
     /\ UNCHANGED <<policy, conn, conf, perm, ctx, hand, waker, effects,
                    verdict, changes, wanted>>

\* The process dies or delivery fails; the entry is due again later.
NoticeCrash ==
  /\ notifier # NoNotice /\ notifier' = NoNotice
  /\ UNCHANGED <<rows, policy, conn, conf, perm, ctx, hand, waker, effects,
                 verdict, changes, wanted>>

----------------------------------------------------------------------------
(* reconcile_authorizations                                                *)

\* Mutant: an open row past its expiry is only closed by the next claim.
ReconcileAuthorityOnly(o) ==
  /\ rows[o].status \in Open /\ ~StillUsable(o)
  /\ rows' = [rows EXCEPT ![o] = Closed(@, "invalidated")]
  /\ UNCHANGED <<policy, conn, conf, perm, ctx, hand, notifier, waker,
                 effects, verdict, changes, wanted>>

\* Open rows whose authority is gone, past expiry, and abandoned claims.
Reconcile(o) ==
  /\ \/ /\ rows[o].status \in Open /\ ~StillUsable(o)
        /\ rows' = [rows EXCEPT ![o] = Closed(@, "invalidated")]
     \/ /\ rows[o].status \in Open /\ rows[o].age > 0
        /\ rows' = [rows EXCEPT ![o] = Closed(@, "expired")]
     \/ /\ rows[o].status = "executing" /\ rows[o].age = 2
        /\ rows' = [rows EXCEPT ![o].status = "outcome_unknown"]
  /\ UNCHANGED <<policy, conn, conf, perm, ctx, hand, notifier, waker,
                 effects, verdict, changes, wanted>>

\* A due wake is leased for 60 s (waker.op, as above) ...
WakeClaim(o) ==
  /\ waker = NoWake
  /\ rows[o].wake
  /\ waker' = [op |-> o, acked |-> "unasked"]
  /\ UNCHANGED <<rows, policy, conn, conf, perm, ctx, hand, notifier,
                 effects, verdict, changes, wanted>>

\* ... the Task's waker releases it, unless a human holds it, it still runs,
\* or one of its requests is still pending (authorization_status) ...
Releasable ==
  /\ ctx.phase = "suspended" /\ ~ctx.held
  /\ \A o \in ctx.waits : ~(rows[o].status = "pending" /\ rows[o].age = 0)

WakeContext ==
  /\ waker.op # "none" /\ waker.acked = "unasked"
  /\ waker' = [waker EXCEPT !.acked =
       IF ctx.phase \in {"done", "stopped"} \/ Releasable
       THEN "yes" ELSE "no"]
  /\ IF Releasable
     THEN ctx' = [ctx EXCEPT !.phase = "queued", !.waits = {}]
     ELSE UNCHANGED ctx
  /\ UNCHANGED <<rows, policy, conn, conf, perm, hand, notifier, effects,
                 verdict, changes, wanted>>

\* ... and the wake is acknowledged, or due again five seconds later.
WakeAck ==
  /\ waker.acked # "unasked"
  /\ rows' = [rows EXCEPT ![waker.op].wake = waker.acked = "no"]
  /\ waker' = NoWake
  /\ UNCHANGED <<policy, conn, conf, perm, ctx, hand, notifier, effects,
                 verdict, changes, wanted>>

\* The waking process dies; the wake is due again 60 s later.
WakeCrash ==
  /\ waker # NoWake /\ waker' = NoWake
  /\ UNCHANGED <<rows, policy, conn, conf, perm, ctx, hand, notifier,
                 effects, verdict, changes, wanted>>

----------------------------------------------------------------------------
CallerNext(c) ==
  \/ \E o \in Ops : Bind(c, o)
  \/ ClaimRefused(c) \/ Claim(c) \/ Dispatch(c) \/ Finish(c)
  \/ CallerCrash(c)

HumanNext ==
  \/ \E o \in Ops, u \in Users, approved, remember \in BOOLEAN :
       Answer(o, u, approved, remember)
  \/ \E o \in Ops : CancelRequest(o)
  \/ SetPermission \/ ChangeScope \/ RevokeGrant

ContextNext == Suspend \/ StartAttempt \/ AttemptLost \/ EndContext

JobsNext ==
  \/ \E o \in Ops : NoticeClaim(o) \/ Reconcile(o) \/ Age(o) \/ WakeClaim(o)
  \/ NoticeRead \/ NoticeWrite \/ NoticeCrash
  \/ WakeContext \/ WakeAck \/ WakeCrash

Next ==
  \/ \E c \in Callers : CallerNext(c)
  \/ HumanNext \/ ContextNext \/ JobsNext

Spec == Init /\ [][Next]_vars

----------------------------------------------------------------------------
(* Properties.                                                             *)

\* One agreement carries at most one effect: whatever callers race, crash and
\* retry, and whatever the reconciliation jobs write meanwhile, claim_action
\* hands the permit of an operation out once.
SingleUse == \A o \in Ops : effects[o] <= 1

\* No effect without an agreement to it, and none under a configuration other
\* than the agreed one: a caller that bound the action before a change cannot
\* carry the permit of the changed question.
AgreedFirst ==
  /\ \A o \in Ops : effects[o] > 0 => verdict[o] = "yes"
  /\ \A c \in Callers :
       hand[c].stage \in {"permit", "effected", "registered"} =>
         /\ verdict[hand[c].op] = "yes"
         /\ rows[hand[c].op].conf = hand[c].conf

\* A human refusal is final: no later job, permission, reconfiguration or
\* retry lets the refused operation take effect or be handed out.
RefusalFinal ==
  \A o \in Ops : verdict[o] = "no" =>
    /\ rows[o].status \in {"denied", "invalidated"}
    /\ effects[o] = 0
    /\ \A c \in Callers :
         hand[c].op = o => hand[c].stage \in {"bound"}

\* The agent's unsettled requests never exceed its quota, with the unknown
\* outcomes, which only evidence can settle, counted in.
WithinQuota ==
  Cardinality({o \in Ops : rows[o].status \in Unsettled}) <= AgentQuota

\* The clock and the periodic jobs make progress, and the waking process does
\* not die every time it has leased a wake; no caller, human, administrator
\* or notifier has to do anything.
FairJobs ==
  /\ \A o \in Ops : /\ WF_vars(Age(o)) /\ WF_vars(Reconcile(o))
                    /\ SF_vars(WakeClaim(o))
  /\ SF_vars(WakeContext) /\ SF_vars(WakeAck)

FairSpec == Spec /\ FairJobs

\* A Task suspended on its requests does not stay suspended, answered or not:
\* the decision or the expiry wakes it, although the wake may meet a running
\* attempt, a crash of the waking process or a still pending request first.
\* (While a human holds the Task, the hold decides.)
SuspensionEnds ==
  (<>(ctx.held)) \/ ((ctx.phase = "suspended") ~> (ctx.phase # "suspended"))
=============================================================================

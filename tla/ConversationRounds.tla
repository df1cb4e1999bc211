------------------------- MODULE ConversationRounds -------------------------
(***************************************************************************)
(* Text conversation rounds of one Messenger room (back/app/conversation). *)
(* Admission gathers the incoming messages in the room's FROZEN round; a    *)
(* worker claims it under a lease, runs the agent, and sends one answer.    *)
(* New messages supersede a round that had no effect yet; people pause,     *)
(* stop, hurry, resume, restart and delete rounds; workers crash, time out  *)
(* and lose their leases; the transport may carry a text without telling.   *)
(*                                                                          *)
(* One step is one transaction, one call of the transport, or one event in  *)
(* a worker's memory.  A worker is one asyncio task of any backend process: *)
(* a process may claim again a round that an older task of its own still    *)
(* runs.  Voice rounds, contact permissions and the notifications of Tasks  *)
(* and Processes are left out.                                              *)
(***************************************************************************)
EXTENDS Naturals, FiniteSets

CONSTANTS
  Messages,     \* canonical inbound messages of the room
  Workers,      \* asyncio tasks, of any process, that execute rounds
  Commands,     \* the human commands of the instance
  MaxFailures,  \* MAX_FAILURES
  MaxRounds,    \* bound of the model: rounds of the room
  MaxAttempts   \* bound of the model: claims of one round

ASSUME RoundsAssumption ==
  /\ Commands \subseteq {"pause", "stop", "respond", "resume", "restart", "delete"}
  /\ MaxFailures \in Nat
  /\ MaxRounds \in Nat
  /\ MaxAttempts \in Nat

Rounds == 1 .. MaxRounds

VARIABLES
  round,    \* conversation_rounds, with the input links of each round
  attempt,  \* conversation_round_attempts: status by round and number
  worker,   \* what each task is doing, and for which round
  carried,  \* external: how often the transport carried each text of a round
  receipt   \* external: rounds whose answer Messenger journaled as sent

vars == <<round, attempt, worker, carried, receipt>>

-----------------------------------------------------------------------------
Processing == {"CLAIMED", "RUNNING"}
Active     == {"FROZEN", "WAITING_APPROVAL", "WAKING", "PAUSED"} \cup Processing
Terminal   == {"SUCCEEDED", "SUPERSEDED", "ERROR_RESOLVED", "CANCELLED"}

\* ABSENT before its creation, DELETED once its row is gone for good.  Two
\* statuses stand for a transaction under way: ADMITTING for the row an
\* admission is about to insert, which nobody sees yet, and WAKING for a
\* WAITING_APPROVAL row whose lock the waker holds.
Statuses == {"ABSENT", "ADMITTING", "DELETED"} \cup Active \cup Terminal

Deliveries == {"PENDING", "SENDING", "DELIVERED", "SKIPPED", "UNKNOWN"}

\* REQUESTED_ACTIONS: the commands a running round obeys when it stops.
Requested == {"pause", "stop", "respond"}

AttemptStatuses == {"NONE", "CLAIMED", "SUCCESS", "ERROR", "INTERRUPTED", "SUPERSEDED",
                    "WAITING_APPROVAL", "USER_STOPPED", "USER_PAUSED"}

\* A lease token is the number of the attempt that took it; the fallback
\* notification takes a token of its own, once per round at most.
Notify == MaxAttempts + 1

Round == [status     : Statuses,
          open       : SUBSET Messages,   \* input links not consumed
          done       : SUBSET Messages,   \* input links consumed
          lease      : 0 .. Notify,
          live       : BOOLEAN,           \* lease_expires_at > now
          attempts   : 0 .. MaxAttempts,  \* attempt_count
          effect     : BOOLEAN,           \* effect_started
          checkpoint : {"none", "safe", "unsafe"},
          delivery   : Deliveries,
          control    : {"none"} \cup Requested,
          brief      : BOOLEAN,           \* response_only
          resolvedBy : 0 .. MaxRounds]    \* resolved_by_round_id

(* A worker is "claimed" before build_turn, "running" in the controller,     *)
(* "interrupted" once it noticed newer input or a command, "sending" and     *)
(* "carried" around the transport call, "sent" once Messenger journaled it.  *)
(* The last three are the fallback notification.                             *)
Running  == {"claimed", "running", "interrupted", "sending", "carried", "sent"}
Steps    == {"idle", "notify", "notifying", "notified"} \cup Running

Worker == [pc : Steps, round : 0 .. MaxRounds, token : 0 .. Notify]

IdleWorker == [pc |-> "idle", round |-> 0, token |-> 0]

Absent == [status |-> "ABSENT", open |-> {}, done |-> {}, lease |-> 0, live |-> FALSE,
           attempts |-> 0, effect |-> FALSE, checkpoint |-> "none", delivery |-> "PENDING",
           control |-> "none", brief |-> FALSE, resolvedBy |-> 0]

NoAttempt == [n \in 1 .. MaxAttempts |-> "NONE"]

Init ==
  /\ round = [r \in Rounds |-> Absent]
  /\ attempt = [r \in Rounds |-> NoAttempt]
  /\ worker = [w \in Workers |-> IdleWorker]
  /\ carried = [r \in Rounds |-> [answer |-> 0, fallback |-> 0]]
  /\ receipt = {}

-----------------------------------------------------------------------------
ClearLease(q) == [q EXCEPT !.lease = 0, !.live = FALSE]

\* _mark_round_inputs_consumed.
Consume(q) == [q EXCEPT !.done = @ \cup q.open, !.open = {}]

\* _pending_successor: the other FROZEN round (there is at most one, which
\* OneRoundPerRoom says), 0 if there is none.
OtherFrozen(r) == {s \in Rounds \ {r} : round[s].status = "FROZEN"}

Successor(r) == IF OtherFrozen(r) = {} THEN 0 ELSE CHOOSE s \in OtherFrozen(r) : TRUE

\* Mutant: the target's links are rewritten without those of the source.
MergeKeepsTarget(f, source, target) ==
  [f EXCEPT ![target].done = {}, ![source].resolvedBy = target]

\* _merge_inputs: the target starts over with the open links of both; the
\* source keeps its own.
Merge(f, source, target) ==
  [f EXCEPT ![target].open = @ \cup f[source].open, ![target].done = {},
            ![source].resolvedBy = target]

\* Mutant: an effect without any checkpoint is overlooked.
SafeUnlessUnsafe(q) == q.checkpoint # "unsafe"

\* _ensure_safe_checkpoint, and the replay decision of _interrupt_round.
SafeToResume(q) == IF q.checkpoint = "none" THEN ~q.effect ELSE q.checkpoint = "safe"

\* _finish_attempt writes the attempt with the round's current number.
FinishAttempt(r, s) ==
  IF round[r].attempts = 0 THEN attempt ELSE [attempt EXCEPT ![r][round[r].attempts] = s]

\* Mutant: any live lease will do.
OwnsAnyLease(w, r) == round[r].status \in Processing /\ round[r].live

\* _owns_round.
Owns(w, r) ==
  /\ round[r].status \in Processing
  /\ round[r].lease = worker[w].token
  /\ round[r].live

At(w, r, pcs) == worker[w].round = r /\ worker[w].pc \in pcs

Goto(w, pc) == worker' = [worker EXCEPT ![w].pc = pc]

End(w) == worker' = [worker EXCEPT ![w] = IdleWorker]

\* The worker stops without touching the database (ConversationLeaseLostError).
Drop(w) == End(w) /\ UNCHANGED <<round, attempt, carried, receipt>>

-----------------------------------------------------------------------------
(* Admission                                                                 *)

FreshRound(open) == [Absent EXCEPT !.status = "FROZEN", !.open = open]

\* Round identifiers are random: any unused one is the next.
Unused == {r \in Rounds : round[r] = Absent}

NextRound == CHOOSE r \in Unused : TRUE

\* The waiting rounds a new message ends: their inputs move to its round,
\* except those of an approval wait that already had an effect.
Superseded(f, target) ==
  LET waiting == {s \in Rounds : f[s].status \in {"WAITING_APPROVAL", "PAUSED"}}
      merged  == {s \in waiting : f[s].status = "PAUSED" \/ ~f[s].effect}
  IN [s \in Rounds |->
       CASE s = target     -> IF merged = {} THEN f[s]
                              ELSE [f[s] EXCEPT !.open = @ \cup UNION {f[x].open : x \in merged},
                                                !.done = {}]
         [] s \in waiting -> [f[s] EXCEPT !.status = "SUPERSEDED", !.checkpoint = "none",
                                          !.resolvedBy = IF s \in merged THEN target ELSE @]
         [] OTHER         -> f[s]]

\* admit_message closes a FROZEN round with an effect, a suspended run, first.
ClosedSuspended ==
  [r \in Rounds |->
    IF round[r].status = "FROZEN" /\ round[r].effect
    THEN [Consume(round[r]) EXCEPT !.status = "SUCCEEDED", !.delivery = "SKIPPED",
                                   !.checkpoint = "none"]
    ELSE round[r]]

Joinable == {r \in Rounds : round[r].status = "FROZEN" /\ ~round[r].effect}

Frozen == {r \in Rounds : round[r].status = "FROZEN"}

\* An admission that found no FROZEN round keeps the room locked while it
\* inserts one.  Whoever locks the room waits for it.
RoomFree == \A r \in Rounds : round[r].status # "ADMITTING"

\* The waker keeps its round locked.  Whoever locks the waiting rounds waits.
NoneWaking == \A r \in Rounds : round[r].status # "WAKING"

New(m) == \A r \in Rounds : m \notin round[r].open \cup round[r].done

\* admit_message, when it finds a FROZEN round, whose lock it takes: the message
\* joins it, or a new one if it had an effect.
Admit(m) ==
  /\ RoomFree /\ NoneWaking /\ New(m)
  /\ \/ \E r \in Joinable :
          round' = Superseded([ClosedSuspended EXCEPT ![r].open = @ \cup {m}], r)
     \/ /\ Joinable = {} /\ Frozen # {} /\ Unused # {}
        /\ round' = Superseded([ClosedSuspended EXCEPT ![NextRound] = FreshRound({m})], NextRound)
  /\ UNCHANGED <<attempt, worker, carried, receipt>>

\* admit_message, up to its query: the room is locked and has no FROZEN round,
\* none at least that is committed.
AdmitRead(m) ==
  /\ RoomFree /\ New(m)
  /\ Frozen = {} /\ Unused # {}
  /\ round' = [round EXCEPT ![NextRound] = [Absent EXCEPT !.status = "ADMITTING", !.open = {m}]]
  /\ UNCHANGED <<attempt, worker, carried, receipt>>

\* Mutant: the table has no unique index of FROZEN rounds.
FrozenIndexMissing(r) == r \in Rounds

\* uq_conversation_round_frozen_room: no other round of the room is FROZEN.
FrozenIndexAllows(r) == OtherFrozen(r) = {}

\* The rest of admit_message: the insertion, the waiting rounds it ends, commit.
AdmitInsert(r) ==
  /\ round[r].status = "ADMITTING"
  /\ FrozenIndexAllows(r) /\ NoneWaking
  /\ round' = Superseded([round EXCEPT ![r].status = "FROZEN"], r)
  /\ UNCHANGED <<attempt, worker, carried, receipt>>

\* The admission fails: the index refuses its round, it is the victim of a
\* deadlock with the waker, or its process dies.
AdmitAborts(r) ==
  /\ round[r].status = "ADMITTING"
  /\ round' = [round EXCEPT ![r] = Absent]
  /\ UNCHANGED <<attempt, worker, carried, receipt>>

-----------------------------------------------------------------------------
(* Claims and leases                                                         *)

ClaimedRow(q) == [q EXCEPT !.status = "CLAIMED", !.lease = q.attempts + 1, !.live = TRUE,
                           !.attempts = @ + 1]

StartWorker(w, r) ==
  worker' = [worker EXCEPT ![w] = [pc |-> "claimed", round |-> r, token |-> round[r].attempts + 1]]

\* Mutant: only a round that was never tried is claimed.
ReadyOnce(r) ==
  /\ round[r].status = "FROZEN" /\ round[r].attempts = 0
  /\ \A s \in Rounds : round[s].status \notin Processing

Ready(r) ==
  /\ round[r].status = "FROZEN"
  /\ \A s \in Rounds : round[s].status \notin Processing

\* claim_next_round, second part: the FROZEN round, while none is processed.
Claim(w, r) ==
  /\ worker[w].pc = "idle"
  /\ Ready(r)
  /\ round[r].attempts < MaxAttempts
  /\ round' = [round EXCEPT ![r] = ClaimedRow(@)]
  /\ attempt' = [attempt EXCEPT ![r][round[r].attempts + 1] = "CLAIMED"]
  /\ StartWorker(w, r)
  /\ UNCHANGED <<carried, receipt>>

\* apply_requested_control: obey command c.
Controlled(r, c) ==
  LET q == [ClearLease(round[r]) EXCEPT !.control = "none"]
      s == Successor(r)
  IN CASE c = "stop" ->
            [round EXCEPT ![r] = [Consume(q) EXCEPT !.status = "CANCELLED", !.delivery = "SKIPPED"]]
       [] c = "pause" /\ s # 0 ->
            Merge([round EXCEPT ![r] = [q EXCEPT !.status = "SUPERSEDED", !.checkpoint = "none"]], r, s)
       [] c = "respond" /\ s = 0 /\ SafeToResume(q) ->
            [round EXCEPT ![r] = [q EXCEPT !.status = "FROZEN", !.brief = TRUE]]
       [] OTHER ->
            [round EXCEPT ![r] = [q EXCEPT !.status = "PAUSED"]]

\* Mutant: the command is recorded instead of its outcome.
ControlledVerb(c) == c

ControlledStatus(c) == IF c = "stop" THEN "USER_STOPPED" ELSE "USER_PAUSED"

\* _interrupt_round: the rounds, and the attempt's status.
InterruptRows(r) ==
  LET q == ClearLease(round[r])
      s == Successor(r)
      sending == round[r].delivery = "SENDING"
  IN CASE round[r].control # "none" -> Controlled(r, round[r].control)
       [] round[r].control = "none" /\ sending /\ r \in receipt ->
            [round EXCEPT ![r] = [Consume(q) EXCEPT !.status = "SUCCEEDED",
                                    !.delivery = "DELIVERED", !.checkpoint = "none"]]
       [] round[r].control = "none" /\ sending /\ r \notin receipt ->
            [round EXCEPT ![r] = [Consume(q) EXCEPT !.status = "ERROR_RESOLVED",
                                    !.delivery = "UNKNOWN"]]
       [] round[r].control = "none" /\ ~sending /\ ~SafeToResume(q) ->
            [round EXCEPT ![r] = [Consume(q) EXCEPT !.status = "ERROR_RESOLVED",
                                    !.delivery = "PENDING"]]
       [] round[r].control = "none" /\ ~sending /\ SafeToResume(q) /\ s # 0 ->
            IF q.effect THEN [round EXCEPT ![r] = [Consume(q) EXCEPT !.status = "SUCCEEDED"]]
            ELSE Merge([round EXCEPT ![r] = [q EXCEPT !.status = "SUPERSEDED"]], r, s)
       [] OTHER -> [round EXCEPT ![r] = [q EXCEPT !.status = "FROZEN"]]

InterruptStatus(r) ==
  CASE round[r].control # "none" -> ControlledStatus(round[r].control)
    [] round[r].control = "none" /\ round[r].delivery = "SENDING" ->
         IF r \in receipt THEN "SUCCESS" ELSE "ERROR"
    [] OTHER -> IF SafeToResume(round[r]) THEN "INTERRUPTED" ELSE "ERROR"

\* Mutant: recovery does not look at the delivery.
ResumesSending(r) ==
  /\ round[r].control = "none"
  /\ SafeToResume(round[r]) /\ Successor(r) = 0

\* _interrupt_round says whether the round is free to be claimed again.
Resumes(r) ==
  /\ round[r].control = "none" /\ round[r].delivery # "SENDING"
  /\ SafeToResume(round[r]) /\ Successor(r) = 0

\* Mutant: a round that was sending is left alone.
ExpiredUnsent(r) ==
  round[r].status \in Processing /\ ~round[r].live /\ round[r].delivery # "SENDING"

Expired(r) == round[r].status \in Processing /\ ~round[r].live

\* claim_next_round, first part: a round whose lease expired is interrupted,
\* and claimed again in the same transaction when it may resume.
ClaimExpired(w, r) ==
  /\ worker[w].pc = "idle"
  /\ RoomFree
  /\ Expired(r)
  /\ IF Resumes(r)
     THEN /\ round[r].attempts < MaxAttempts
          /\ round' = [round EXCEPT ![r] = ClaimedRow(@)]
          /\ attempt' = [FinishAttempt(r, "INTERRUPTED") EXCEPT
                           ![r][round[r].attempts + 1] = "CLAIMED"]
          /\ StartWorker(w, r)
     ELSE /\ round' = InterruptRows(r)
          /\ attempt' = FinishAttempt(r, InterruptStatus(r))
          /\ UNCHANGED worker
  /\ UNCHANGED <<carried, receipt>>

\* The lease runs out; heartbeats that arrive in time put this off.
Expire(r) ==
  /\ round[r].lease # 0 /\ round[r].live
  /\ round' = [round EXCEPT ![r].live = FALSE]
  /\ UNCHANGED <<attempt, worker, carried, receipt>>

\* renew_round_lease, late: the instant it compares with lease_expires_at was
\* taken before the UPDATE was awaited, so that an expired lease is renewed.
RenewLate(w, r) ==
  /\ At(w, r, Running)
  /\ round[r].status \in Processing
  /\ round[r].lease = worker[w].token
  /\ ~round[r].live
  /\ round' = [round EXCEPT ![r].live = TRUE]
  /\ UNCHANGED <<attempt, worker, carried, receipt>>

\* _heartbeat_round: the lease is gone and this attempt did not succeed.
LoseLease(w, r) ==
  /\ At(w, r, Running)
  /\ ~Owns(w, r)
  /\ ~(/\ round[r].status = "SUCCEEDED" /\ round[r].attempts = worker[w].token
       /\ attempt[r][round[r].attempts] = "SUCCESS")
  /\ Drop(w)

-----------------------------------------------------------------------------
(* The claimed action                                                        *)

\* build_turn.
Build(w, r) ==
  /\ At(w, r, {"claimed"})
  /\ IF Owns(w, r)
     THEN /\ round' = [round EXCEPT ![r].status = "RUNNING"]
          /\ Goto(w, "running")
          /\ UNCHANGED <<attempt, carried, receipt>>
     ELSE Drop(w)

\* mark_effect_if_fresh: the first effect, unless newer input or a command waits.
MarkEffect(w, r) ==
  /\ At(w, r, {"running"})
  /\ round[r].status = "RUNNING" /\ Owns(w, r) /\ RoomFree
  /\ round[r].control = "none"
  /\ Successor(r) = 0
  /\ round' = [round EXCEPT ![r].effect = TRUE]
  /\ UNCHANGED <<attempt, worker, carried, receipt>>

\* save_checkpoint of the turn; uncertain tool effects make it unsafe.
SaveCheckpoint(w, r) ==
  /\ At(w, r, {"running"})
  /\ IF Owns(w, r)
     THEN /\ \E c \in {"safe", "unsafe"} : round' = [round EXCEPT ![r].checkpoint = c]
          /\ UNCHANGED <<attempt, worker, carried, receipt>>
     ELSE Drop(w)

\* newer_input_pending interrupts preparation and generation.
Notice(w, r) ==
  /\ At(w, r, {"running"})
  /\ Owns(w, r)
  /\ round[r].control # "none" \/ Successor(r) # 0
  /\ Goto(w, "interrupted")
  /\ UNCHANGED <<round, attempt, carried, receipt>>

\* complete_round, up to the answer: the rounds it leaves, by kind of outcome.
Settle(w, r, f, s) ==
  /\ round' = f
  /\ attempt' = FinishAttempt(r, s)
  /\ End(w)
  /\ UNCHANGED <<carried, receipt>>

Close(q, status) == ClearLease([q EXCEPT !.status = status])

\* The result also carries effect_started, which the harness sets with a tool
\* call that MarkEffect has recorded, or with a repeated Task operation.
Complete(w, r) ==
  LET q == round[r]
      s == Successor(r)
      interrupted == At(w, r, {"interrupted"})
  IN /\ At(w, r, {"running", "interrupted"})
     /\ q.status = "RUNNING" /\ Owns(w, r) /\ RoomFree
     /\ \/ /\ q.control # "none"
           /\ Settle(w, r, Controlled(r, round[r].control), ControlledStatus(round[r].control))
        \/ /\ q.control = "none" /\ ~interrupted /\ q.checkpoint = "safe"
           /\ Settle(w, r, [round EXCEPT ![r] = Close(q, "WAITING_APPROVAL")], "WAITING_APPROVAL")
        \/ /\ q.control = "none" /\ interrupted /\ s = 0 /\ ~q.effect
           /\ Settle(w, r, [round EXCEPT ![r] = Close(q, "FROZEN")], "SUPERSEDED")
        \/ /\ q.control = "none" /\ s # 0 /\ ~q.effect
           /\ Settle(w, r, Merge([round EXCEPT ![r] = Close(q, "SUPERSEDED")], r, s), "SUPERSEDED")
        \/ /\ q.control = "none" /\ (s # 0 \/ interrupted) /\ q.effect
           /\ Settle(w, r, [round EXCEPT ![r] = Close(Consume(q), "SUCCEEDED")], "SUCCESS")
        \/ /\ q.control = "none" /\ s = 0 /\ ~interrupted     \* nothing to say
           /\ Settle(w, r, [round EXCEPT ![r] =
                [Close(Consume(q), "SUCCEEDED") EXCEPT !.delivery = "SKIPPED",
                                                       !.checkpoint = "none"]], "SUCCESS")

\* complete_round with a text: SENDING is durable before the transport is called.
StartSending(w, r) ==
  /\ At(w, r, {"running"})
  /\ round[r].status = "RUNNING" /\ Owns(w, r) /\ RoomFree
  /\ round[r].control = "none" /\ Successor(r) = 0
  /\ round' = [round EXCEPT ![r] = [@ EXCEPT !.delivery = "SENDING", !.effect = TRUE]]
  /\ Goto(w, "sending")
  /\ UNCHANGED <<attempt, carried, receipt>>

\* messenger.send_to_room: the provider takes the text, then Messenger journals it.
Transport(w, r) ==
  /\ At(w, r, {"sending"})
  /\ carried' = [carried EXCEPT ![r].answer = @ + 1]
  /\ Goto(w, "carried")
  /\ UNCHANGED <<round, attempt, receipt>>

Journal(w, r) ==
  /\ At(w, r, {"carried"})
  /\ receipt' = receipt \cup {r}
  /\ Goto(w, "sent")
  /\ UNCHANGED <<round, attempt, carried>>

\* complete_round after the transport.
Delivered(w, r) ==
  /\ At(w, r, {"sent"})
  /\ IF Owns(w, r)
     THEN Settle(w, r, [round EXCEPT ![r] =
            [Close(Consume(round[r]), "SUCCEEDED") EXCEPT !.delivery = "DELIVERED",
                                                          !.checkpoint = "none"]], "SUCCESS")
     ELSE Drop(w)

\* The transport raises, before or after the provider took the text.
DeliveryUnknown(w, r) ==
  /\ At(w, r, {"sending", "carried"})
  /\ IF Owns(w, r)
     THEN Settle(w, r, [round EXCEPT ![r] =
            [Close(Consume(round[r]), "ERROR_RESOLVED") EXCEPT !.delivery = "UNKNOWN"]], "ERROR")
     ELSE Drop(w)

\* _failure_count, with the attempt that just failed.
Failures(r) ==
  Cardinality({n \in 1 .. MaxAttempts : n = round[r].attempts \/ attempt[r][n] = "ERROR"})

\* fail_round: supersede, retry, or resolve with a fallback text.
FailRows(r) ==
  LET q == round[r]
      s == Successor(r)
  IN CASE s # 0 /\ ~q.effect ->
            Merge([round EXCEPT ![r] = Close(q, "SUPERSEDED")], r, s)
       [] s = 0 /\ ~q.effect /\ Failures(r) < MaxFailures ->
            [round EXCEPT ![r] = Close(q, "FROZEN")]
       [] OTHER ->
            [round EXCEPT ![r] = [Close(Consume(q), "ERROR_RESOLVED") EXCEPT !.delivery = "PENDING"]]

\* The action raises, cancels itself or runs into its timeout wherever it
\* stands, and fail_round follows.
Fail(w, r) ==
  /\ At(w, r, Running)
  /\ IF ~Owns(w, r)
     THEN Drop(w)
     ELSE /\ RoomFree
          /\ IF round[r].control # "none"
             THEN Settle(w, r, Controlled(r, round[r].control), ControlledStatus(round[r].control))
             ELSE Settle(w, r, FailRows(r), "ERROR")

\* The process shuts down or deletes the round: the action is cancelled and
\* interrupt_round follows.  The token counts here, not the expiry.
InterruptWorker(w, r) ==
  /\ At(w, r, Running)
  /\ IF round[r].lease = worker[w].token /\ round[r].status \in Processing
     THEN RoomFree /\ Settle(w, r, InterruptRows(r), InterruptStatus(r))
     ELSE Drop(w)

\* The task dies with its process, wherever it stands.
Crash(w) == worker[w].pc # "idle" /\ Drop(w)

-----------------------------------------------------------------------------
(* Human commands                                                            *)

\* _wake_authorization_context locks its round, not the room.  With a FROZEN
\* round, which it locks too, the inputs move there.
WakeMerged(r) ==
  LET q == round[r]
      s == Successor(r)
      f == [round EXCEPT ![r] = [q EXCEPT !.status = "SUPERSEDED", !.checkpoint = "none"]]
  IN /\ q.status = "WAITING_APPROVAL" /\ s # 0
     /\ round' = IF q.effect THEN f ELSE Merge(f, r, s)
     /\ UNCHANGED <<attempt, worker, carried, receipt>>

\* It sees no FROZEN round, none at least that is committed.
WakeRead(r) ==
  /\ round[r].status = "WAITING_APPROVAL" /\ Successor(r) = 0
  /\ round' = [round EXCEPT ![r].status = "WAKING"]
  /\ UNCHANGED <<attempt, worker, carried, receipt>>

\* The authorization was decided: the round is FROZEN again, if the index allows.
WakeCommit(r) ==
  /\ round[r].status = "WAKING"
  /\ FrozenIndexAllows(r)
  /\ round' = [round EXCEPT ![r].status = "FROZEN"]
  /\ UNCHANGED <<attempt, worker, carried, receipt>>

\* The authorization is pending, or the transaction fails: the index refuses
\* it, it is the victim of a deadlock, or its process dies.
WakeAborts(r) ==
  /\ round[r].status = "WAKING"
  /\ round' = [round EXCEPT ![r].status = "WAITING_APPROVAL"]
  /\ UNCHANGED <<attempt, worker, carried, receipt>>

\* Mutant: a round may be stopped while its answer is on the way.
AvailableSending(q) == IF q.status \in Processing THEN {"stop"} ELSE {}

\* available_round_actions.
Available(q) ==
  CASE q.delivery \in {"SENDING", "UNKNOWN", "DELIVERED"} -> {}
    [] q.delivery \in {"PENDING", "SKIPPED"} /\ q.control # "none" -> {"stop"}
    [] q.delivery \in {"PENDING", "SKIPPED"} /\ q.control = "none" ->
         CASE q.status \in {"FROZEN", "WAITING_APPROVAL"} \cup Processing ->
                {"pause", "stop"} \cup (IF q.brief THEN {} ELSE {"respond"})
           [] q.status = "PAUSED" -> {"resume", "stop", "respond"}
           [] q.status = "CANCELLED" /\ q.resolvedBy = 0 -> {"restart"}
           [] OTHER -> {}

\* Other work of the room, which resuming would overtake.
OtherWork(r) ==
  \E s \in Rounds \ {r} :
    round[s].status \in {"FROZEN", "WAITING_APPROVAL", "WAKING"} \cup Processing

\* control_round with pause, stop or respond: a running round obeys when its
\* worker stops, any other at once.
Request(r, c) ==
  /\ RoomFree
  /\ c \in Commands \cap Requested \cap Available(round[r])
  /\ round[r].control # c
  /\ c = "respond" => (~OtherWork(r) /\ round[r].status # "PAUSED")
  /\ IF round[r].status \in Processing
     THEN round' = [round EXCEPT ![r].control = c] /\ UNCHANGED attempt
     ELSE round' = Controlled(r, c) /\ attempt' = FinishAttempt(r, ControlledStatus(c))
  /\ UNCHANGED <<worker, carried, receipt>>

\* control_round with resume, or with respond on a paused round.
Resume(r, c) ==
  /\ RoomFree
  /\ c \in {"resume", "respond"} \cap Commands \cap Available(round[r])
  /\ round[r].status = "PAUSED"
  /\ ~OtherWork(r) /\ SafeToResume(round[r])
  /\ round' = [round EXCEPT ![r] = [round[r] EXCEPT !.status = "FROZEN", !.control = "none",
                                      !.brief = IF c = "respond" THEN TRUE ELSE round[r].brief]]
  /\ UNCHANGED <<attempt, worker, carried, receipt>>

\* control_round with restart: a new round with the same inputs and effects.
Restart(r) ==
  LET q == round[r]
  IN /\ "restart" \in Commands \cap Available(q)
     /\ RoomFree /\ ~OtherWork(r) /\ SafeToResume(q)
     /\ Unused # {}
     /\ round' = [round EXCEPT ![r].resolvedBy = NextRound,
                   ![NextRound] = [FreshRound(q.open \cup q.done) EXCEPT
                      !.effect = q.effect, !.brief = q.brief, !.checkpoint = q.checkpoint]]
     /\ UNCHANGED <<attempt, worker, carried, receipt>>

\* delete_round: the row goes, with its links and attempts.  Its worker is
\* cancelled (InterruptWorker) or loses its lease.
DeleteRound(r) ==
  /\ "delete" \in Commands
  /\ round[r].status \in (Active \ {"WAKING"}) \cup Terminal
  /\ round' = [s \in Rounds |->
                 IF s = r THEN [Absent EXCEPT !.status = "DELETED"]
                 ELSE [round[s] EXCEPT !.resolvedBy = IF @ = r THEN 0 ELSE @]]
  /\ attempt' = [attempt EXCEPT ![r] = NoAttempt]
  /\ UNCHANGED <<worker, carried, receipt>>

\* resolve_unknown_delivery: an operator verified what happened.
ResolveUnknown(r) ==
  /\ round[r].delivery = "UNKNOWN" /\ round[r].lease = 0
  /\ \E d \in {"DELIVERED", "SKIPPED"} : round' = [round EXCEPT ![r].delivery = d]
  /\ UNCHANGED <<attempt, worker, carried, receipt>>

-----------------------------------------------------------------------------
(* The fallback text of a failed round                                       *)

OneOf(S) == IF S = {} THEN {0} ELSE S

\* Mutant: an uncertain send is tried again.
FallbackDueAgain(r) ==
  round[r].status = "ERROR_RESOLVED" /\ round[r].delivery \in {"PENDING", "UNKNOWN"}

FallbackDue(r) == round[r].status = "ERROR_RESOLVED" /\ round[r].delivery = "PENDING"

\* claim_next_round_notification: give up one expired send, lease one new one.
ClaimNotification(w) ==
  /\ worker[w].pc = "idle"
  /\ \E e \in OneOf({r \in Rounds : /\ round[r].status = "ERROR_RESOLVED"
                                    /\ round[r].delivery = "SENDING" /\ ~round[r].live}),
        n \in OneOf({r \in Rounds : FallbackDue(r)}) :
       /\ e # 0 \/ n # 0
       /\ round' = [r \in Rounds |->
            CASE r = e -> [ClearLease(round[r]) EXCEPT !.delivery = "UNKNOWN"]
              [] r = n -> [round[r] EXCEPT !.delivery = "SENDING", !.lease = Notify, !.live = TRUE]
              [] OTHER -> round[r]]
       /\ worker' = IF n = 0 THEN worker
                    ELSE [worker EXCEPT ![w] = [pc |-> "notify", round |-> n, token |-> 0]]
  /\ UNCHANGED <<attempt, carried, receipt>>

\* deliver_round_notification, up to the transport: it takes over the token it reads.
StartNotification(w, r) ==
  /\ At(w, r, {"notify"})
  /\ IF round[r].delivery = "SENDING" /\ round[r].lease # 0
     THEN /\ worker' = [worker EXCEPT ![w] = [@ EXCEPT !.pc = "notifying", !.token = round[r].lease]]
          /\ UNCHANGED <<round, attempt, carried, receipt>>
     ELSE Drop(w)

TransportNotification(w, r) ==
  /\ At(w, r, {"notifying"})
  /\ carried' = [carried EXCEPT ![r].fallback = @ + 1]
  /\ Goto(w, "notified")
  /\ UNCHANGED <<round, attempt, receipt>>

\* deliver_round_notification after the transport returned or raised: the
\* token counts, not the expiry.
EndNotification(w, r) ==
  /\ At(w, r, {"notifying", "notified"})
  /\ IF round[r].delivery = "SENDING" /\ round[r].lease = worker[w].token
     THEN /\ \E d \in {"UNKNOWN"} \cup (IF worker[w].pc = "notified" THEN {"DELIVERED"} ELSE {}) :
               round' = [round EXCEPT ![r] = [ClearLease(@) EXCEPT !.delivery = d]]
          /\ End(w)
          /\ UNCHANGED <<attempt, carried, receipt>>
     ELSE Drop(w)

-----------------------------------------------------------------------------
WorkerStep(w, r) ==
  \/ Build(w, r) \/ MarkEffect(w, r) \/ SaveCheckpoint(w, r) \/ Notice(w, r)
  \/ Complete(w, r) \/ StartSending(w, r) \/ Transport(w, r) \/ Journal(w, r)
  \/ Delivered(w, r) \/ DeliveryUnknown(w, r)
  \/ RenewLate(w, r) \/ LoseLease(w, r) \/ Fail(w, r) \/ InterruptWorker(w, r)
  \/ StartNotification(w, r) \/ TransportNotification(w, r) \/ EndNotification(w, r)

HumanStep(r) ==
  \/ \E c \in Commands : Request(r, c) \/ Resume(r, c)
  \/ Restart(r) \/ DeleteRound(r) \/ ResolveUnknown(r)

\* What goes on in the transactions that do not lock the room from end to end.
RoomStep(r) ==
  \/ AdmitInsert(r) \/ AdmitAborts(r)
  \/ WakeMerged(r) \/ WakeRead(r) \/ WakeCommit(r) \/ WakeAborts(r)

Next ==
  \/ \E m \in Messages : Admit(m) \/ AdmitRead(m)
  \/ \E w \in Workers, r \in Rounds : Claim(w, r) \/ ClaimExpired(w, r) \/ WorkerStep(w, r)
  \/ \E w \in Workers : ClaimNotification(w) \/ Crash(w)
  \/ \E r \in Rounds : Expire(r) \/ HumanStep(r) \/ RoomStep(r)

Spec == Init /\ [][Next]_vars

(* Fairness: every process polls for work, an action ends within its         *)
(* timeout, a transaction ends, and a lease that no task renews runs out.    *)
Ends(w, r) ==
  \/ Build(w, r) \/ Complete(w, r) \/ Transport(w, r) \/ Journal(w, r)
  \/ Delivered(w, r) \/ DeliveryUnknown(w, r) \/ LoseLease(w, r) \/ Fail(w, r)
  \/ StartNotification(w, r) \/ TransportNotification(w, r) \/ EndNotification(w, r)

Abandoned(r) ==
  \A w \in Workers : ~(worker[w].round = r /\ worker[w].token = round[r].lease)

Fairness ==
  /\ \A w \in Workers : WF_vars(ClaimNotification(w))
  /\ \A r \in Rounds : WF_vars(\E w \in Workers : Claim(w, r) \/ ClaimExpired(w, r))
  /\ \A w \in Workers, r \in Rounds : WF_vars(Ends(w, r))
  /\ \A r \in Rounds : WF_vars(AdmitInsert(r) \/ AdmitAborts(r))
  /\ \A r \in Rounds : WF_vars(WakeCommit(r) \/ WakeAborts(r))
  /\ \A r \in Rounds : WF_vars(Abandoned(r) /\ Expire(r))

FairSpec == Spec /\ Fairness

-----------------------------------------------------------------------------
(* Properties                                                                *)

\* Every variable has its type.
TypeOK ==
  /\ round \in [Rounds -> Round]
  /\ attempt \in [Rounds -> [1 .. MaxAttempts -> AttemptStatuses]]
  /\ worker \in [Workers -> Worker]
  /\ carried \in [Rounds -> [answer : Nat, fallback : Nat]]
  /\ receipt \subseteq Rounds

\* A room has at most one FROZEN round and at most one that is processed, in
\* every interleaving of admission, claims, recovery, failures and commands.
\* All that make a round FROZEN lock the room except the waker: against it, the
\* unique index of FROZEN rounds refuses the second one.
OneRoundPerRoom ==
  \A r, s \in Rounds :
    (\/ round[r].status = "FROZEN" /\ round[s].status = "FROZEN"
     \/ round[r].status \in Processing /\ round[s].status \in Processing) => r = s

\* The input links of a round.
Inputs(r) == round[r].open \cup round[r].done

\* Message m still has work to come in round r.
Waits(m, r) == m \in round[r].open /\ round[r].status \in Active

\* An input that a round without an effect left behind when it closed is
\* waiting in an active round, was dealt with by another one, or went to a round
\* that had an effect: supersession, failures, recovery, pauses and restarts pass
\* inputs on, they lose none.  (An approval wait with an effect is superseded
\* without passing on its inputs.)
InputNotLost ==
  "delete" \notin Commands =>
    \A r \in Rounds, m \in Messages :
      (m \in round[r].open /\ round[r].status \in Terminal /\ ~round[r].effect)
        => \E s \in Rounds :
             Waits(m, s) \/ m \in round[s].done \/ (m \in round[s].open /\ round[s].effect)

\* A round that may be claimed with effects behind it has a checkpoint that
\* knows them: neither recovery, failure, approval, resumption nor a restart
\* lets an agent repeat an effect it cannot see.
EffectNotReplayed ==
  \A r \in Rounds :
    (round[r].status \in {"FROZEN", "CLAIMED"} /\ round[r].effect)
      => round[r].checkpoint = "safe"

\* Deleting the round that restarted a stopped one clears resolved_by_round_id
\* and makes the stopped round available once more, with inputs that a later
\* round may have answered.
RestartReopened == "restart" \in Commands /\ \E r \in Rounds : round[r].status = "DELETED"

\* No message is answered twice, whatever rounds it went through, unless a
\* deletion reopened a restart; and no round sends its fallback text twice.
AnsweredOnce ==
  /\ RestartReopened \/ \A m \in Messages : \A r, s \in {x \in Rounds : m \in Inputs(x)} :
       carried[r].answer + (IF s = r THEN 0 ELSE carried[s].answer) <= 1
  /\ \A r \in Rounds : carried[r].fallback <= 1

\* A round recorded as delivered was carried, and one a person stopped was not.
DeliveryTruthful ==
  \A r \in Rounds :
    /\ (round[r].status = "SUCCEEDED" /\ round[r].delivery = "DELIVERED")
         => carried[r].answer = 1
    /\ round[r].status = "CANCELLED" => carried[r].answer + carried[r].fallback = 0

\* An uncertain delivery stays so until an operator resolves it: no sweep,
\* retry or late worker puts it back in the queue.
UnknownNotResent ==
  [][\A r \in Rounds : round[r].delivery = "UNKNOWN" =>
       \/ round'[r].delivery \notin {"PENDING", "SENDING"}
       \/ round'[r].status = "DELETED"]_vars

\* A worker whose attempt is no longer the one the lease belongs to changes
\* no row, whatever it was about to do: complete, deliver, fail or interrupt.
StaleWorkerHarmless ==
  [][\A w \in Workers :
       (/\ worker[w].pc \in Running
        /\ worker'[w] # worker[w]
        /\ round[worker[w].round].lease # worker[w].token)
         => round' = round /\ attempt' = attempt]_vars

\* A message whose round waits for a worker is eventually consumed, parked
\* with a person, or has used the attempts of the instance.
Pending(m, r) == m \in round[r].open /\ round[r].status \in {"FROZEN"} \cup Processing

MessageSettles ==
  \A m \in Messages :
    (\E r \in Rounds : Pending(m, r))
      ~> (\A r \in Rounds : Pending(m, r) => round[r].attempts = MaxAttempts)

\* A send that started and a fallback that is due are eventually accounted
\* for: delivered, unknown or skipped, although workers crash in between.
Due(r) ==
  \/ round[r].delivery = "SENDING"
  \/ round[r].status = "ERROR_RESOLVED" /\ round[r].delivery = "PENDING"

DeliverySettles == \A r \in Rounds : Due(r) ~> ~Due(r)

-----------------------------------------------------------------------------
(* What the documentation says and the code does not do                      *)

\* After an answer that was carried no automatic fallback is sent.
NoFallbackAfterAnswer ==
  \A r \in Rounds : carried[r].answer > 0 => carried[r].fallback = 0

=============================================================================

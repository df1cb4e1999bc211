-------------------------- MODULE InferenceLifecycle --------------------------
(***************************************************************************)
(* One durable LLM inference (back/app/llm/inference_store.py,             *)
(* inference_execution.py, inference_journal.py and the call rows of       *)
(* llm_call_service.py).  Every transaction locks the inference and its    *)
(* current attempt, so a transaction is a step.  The execution root, the   *)
(* invocation it watches, the reader of the stream and the senders of      *)
(* commands interleave between them; the process may crash or stall        *)
(* past its lease anywhere.                                                *)
(*                                                                         *)
(* Replies, prompts, costs and transcripts are left out; an attempt makes  *)
(* at most one physical call (bound).                                      *)
(***************************************************************************)
EXTENDS Integers, FiniteSets

CONSTANTS
  MaxAttempts,  \* bound: attempts of the inference
  MaxMessages,  \* bound: journalled messages of an attempt
  Commands,     \* command identities
  PageLimit     \* the limit of read_event_batch

ASSUME LifecycleAssumption ==
  /\ MaxAttempts \in Nat \ {0}
  /\ MaxMessages \in Nat
  /\ PageLimit \in Nat \ {0}

VARIABLES
  op,       \* LLMInference
  attempt,  \* LLMInferenceAttempt, by number
  call,     \* LLMCall of an attempt, and whether its journal has its result
  journal,  \* LLMCallEvent rows of kind message
  receipt,  \* LLMInferenceCommand, by identity
  root,     \* the execution root in _executions, with its invocation
  caller    \* _run and the stream it reads

dbVars == <<op, attempt, call, journal, receipt>>
vars == <<op, attempt, call, journal, receipt, root, caller>>

Attempts == 1 .. MaxAttempts
Terminal == {"paused", "stopped", "completed", "failed", "interrupted"}
AttemptStatus == {"none", "prepared", "queued", "running"} \cup Terminal
OpStatus == {"prepared", "queued", "running", "pausing", "stopping"} \cup Terminal
Actions == {"start", "pause", "resume", "stop", "replay"}
Watching == {"look", "stream", "check", "drain"}

NoReceipt == [action |-> "none", attempt |-> 0, applied |-> TRUE]
NoRoot == [phase |-> "none", attempt |-> 1, step |-> "over", end |-> "error",
           cancelled |-> FALSE, interrupted |-> FALSE, lost |-> FALSE]
NoRow == [status |-> "none", final |-> 0]

TypeOK ==
  /\ op \in [status : OpStatus, generation : Attempts, revision : Nat,
             sequence : Nat, expired : BOOLEAN]
  /\ attempt \in [Attempts -> [status : AttemptStatus, leased : BOOLEAN, final : Nat]]
  /\ call \in [Attempts -> [status : {"none", "running", "completed", "error", "cancelled"},
                            terminal : BOOLEAN]]
  /\ journal \subseteq [attempt : Attempts, sequence : Nat]
  /\ receipt \in [Commands -> [action : Actions \cup {"none"}, attempt : 0 .. MaxAttempts,
                               applied : BOOLEAN]]
  /\ root \in [phase : {"none", "claiming", "watching", "settling"}, attempt : Attempts,
               step : {"ready", "calling", "answered", "over"}, end : {"ok", "error"},
               cancelled : BOOLEAN, interrupted : BOOLEAN, lost : BOOLEAN]
  /\ caller \in [phase : Watching \cup {"absent", "returned", "raised", "cancelled"},
                 attempt : Attempts, cursor : Nat, got : SUBSET Nat, ended : BOOLEAN,
                 row : [status : AttemptStatus, final : Nat]]

NewAttempt(s) == [status |-> s, leased |-> FALSE, final |-> 0]

\* create, prepared or not; a synchronous caller (_run) submits it queued.
Init ==
  /\ \E s \in {"prepared", "queued"} :
       /\ op = [status |-> s, generation |-> 1, revision |-> 0, sequence |-> 0, expired |-> FALSE]
       /\ attempt = [a \in Attempts |-> NewAttempt(IF a = 1 THEN s ELSE "none")]
       /\ caller = [phase |-> IF s = "queued" THEN "look" ELSE "absent", attempt |-> 1,
                    cursor |-> 0, got |-> {}, ended |-> FALSE, row |-> NoRow]
  /\ call = [a \in Attempts |-> [status |-> "none", terminal |-> FALSE]]
  /\ journal = {}
  /\ receipt = [c \in Commands |-> NoReceipt]
  /\ root = NoRoot

Current == attempt[op.generation]

OwnedByToken == root.attempt = op.generation

\* owned: the attempt of the root is the current one, runs and holds its lease.
\* An attempt is claimed once, so its number stands for its lease token.
Owned ==
  /\ root.attempt = op.generation
  /\ Current.status = "running"
  /\ Current.leased

--------------------------------------------------------------------------------
(* The end of an attempt.                                                  *)

\* _close_abandoned_calls writes the missing result of the call's journal.
Unfinished(a) == call[a].status # "none" /\ ~call[a].terminal

CloseCalls(a) ==
  call' = [call EXCEPT ![a] =
             [status |-> IF @.status = "running" THEN "cancelled" ELSE @.status,
              terminal |-> @.terminal \/ @.status # "none"]]

\* _finish, after `extra' events of the same transaction.
FinishAs(s, extra) ==
  LET last == op.sequence + extra + 1
  IN  /\ op' = [op EXCEPT !.status = s, !.revision = @ + 1, !.sequence = last]
      /\ attempt' = [attempt EXCEPT ![op.generation] =
                       [status |-> s, leased |-> FALSE, final |-> last]]
      /\ receipt' = [c \in Commands |->
                       IF receipt[c].attempt = op.generation
                         THEN [receipt[c] EXCEPT !.applied = TRUE] ELSE receipt[c]]

\* finish and recover_expired close the calls of an attempt that did not complete.
CloseAndFinish(s) ==
  /\ CloseCalls(op.generation)
  /\ FinishAs(s, IF Unfinished(op.generation) THEN 1 ELSE 0)

FinishOnly(s) == FinishAs(s, 0) /\ UNCHANGED call

RequestForgotten(otherwise) == IF op.status = "pausing" THEN "paused" ELSE otherwise

\* A requested pause or stop takes precedence over the outcome.
Requested(otherwise) ==
  CASE op.status = "pausing" -> "paused"
    [] op.status = "stopping" -> "stopped"
    [] OTHER -> otherwise

--------------------------------------------------------------------------------
(* The execution root: _execute_admitted.                                  *)

\* The loop starts one root for a queued inference.
StartRoot ==
  /\ root.phase = "none"
  /\ op.status = "queued"
  /\ root' = [NoRoot EXCEPT !.phase = "claiming"]
  /\ UNCHANGED <<dbVars, caller>>

\* claim
Lease ==
  /\ op' = [op EXCEPT !.status = "running", !.revision = @ + 1]
  /\ attempt' = [attempt EXCEPT ![op.generation] = [@ EXCEPT !.status = "running", !.leased = TRUE]]
  /\ UNCHANGED <<call, receipt>>

Claim ==
  /\ root.phase = "claiming"
  /\ \/ /\ op.status # "queued"
        /\ root' = NoRoot
        /\ UNCHANGED dbVars
     \/ /\ op.status = "queued" /\ op.expired
        /\ FinishOnly("failed")
        /\ root' = NoRoot
        /\ UNCHANGED journal
     \/ /\ op.status = "queued" /\ ~op.expired
        /\ Lease
        /\ root' = [NoRoot EXCEPT !.phase = "watching", !.attempt = op.generation, !.step = "ready"]
        /\ UNCHANGED journal
  /\ UNCHANGED caller

\* Reading the request or the authority fails before the root guards itself:
\* the claimed attempt is left to its lease.
RootFails ==
  /\ root.phase = "watching" /\ root.step = "ready"
  /\ root' = NoRoot
  /\ UNCHANGED <<dbVars, caller>>

\* A heartbeat that finds the lease lost, a command or the deadline, or the
\* invocation over, ends the watch.
Heartbeat ==
  /\ root.phase = "watching"
  /\ \/ ~Owned /\ root' = [root EXCEPT !.phase = "settling", !.lost = TRUE, !.cancelled = TRUE]
     \/ /\ Owned /\ (op.status # "running" \/ op.expired)
        /\ root' = [root EXCEPT !.phase = "settling", !.cancelled = TRUE,
                                !.interrupted = root.step # "over" /\ op.status # "running"]
     \/ /\ Owned /\ op.status = "running" /\ ~op.expired /\ root.step = "over"
        /\ root' = [root EXCEPT !.phase = "settling"]
  /\ UNCHANGED <<dbVars, caller>>

\* The heartbeat transaction fails for another reason: the attempt will fail.
HeartbeatFails ==
  /\ root.phase = "watching"
  /\ root' = [root EXCEPT !.phase = "settling", !.cancelled = TRUE, !.end = "error"]
  /\ UNCHANGED <<dbVars, caller>>

\* stop(): the process shuts down in order and cancels its roots.
Shutdown ==
  /\ root.phase = "watching"
  /\ root' = [root EXCEPT !.phase = "settling", !.cancelled = TRUE, !.interrupted = TRUE]
  /\ UNCHANGED <<dbVars, caller>>

\* finish, once the invocation has ended.
Finish ==
  /\ root.phase = "settling" /\ root.step = "over"
  /\ root' = NoRoot
  /\ IF root.lost \/ ~Owned THEN UNCHANGED <<op, attempt, call, receipt>>
     ELSE LET s == Requested(IF op.expired THEN "failed"
                             ELSE IF root.interrupted THEN "interrupted"
                             ELSE IF root.end = "ok" THEN "completed"
                             ELSE "failed")
          IN  IF s = "completed" THEN FinishOnly(s) ELSE CloseAndFinish(s)
  /\ UNCHANGED <<journal, caller>>

Crash ==
  /\ root.phase # "none"
  /\ root' = NoRoot
  /\ UNCHANGED <<dbVars, caller>>

--------------------------------------------------------------------------------
(* The invocation: run_inference through the gateway.                      *)

Invoking == root.phase \in {"watching", "settling"}

Raise == root' = [root EXCEPT !.cancelled = TRUE, !.end = "error"]

\* The invocation ends before any call: cancelled, or refused by a check.
NoCall ==
  /\ Invoking /\ root.step = "ready"
  /\ root' = [root EXCEPT !.step = "over", !.end = "error"]
  /\ UNCHANGED <<dbVars, caller>>

\* _persist_running_call
CallStart ==
  /\ Invoking /\ root.step = "ready" /\ ~root.cancelled
  /\ IF Owned
       THEN /\ call' = [call EXCEPT ![root.attempt] = [status |-> "running", terminal |-> FALSE]]
            /\ root' = [root EXCEPT !.step = "calling"]
       ELSE /\ root' = [root EXCEPT !.step = "over", !.end = "error"]
            /\ UNCHANGED call
  /\ UNCHANGED <<op, attempt, journal, receipt, caller>>

MessagesOf(a) == {m \in journal : m.attempt = a}

\* append_events of a message; a flush may still come after the answer.
Message ==
  /\ Invoking /\ root.step \in {"calling", "answered"}
  /\ Cardinality(MessagesOf(root.attempt)) < MaxMessages
  /\ IF Owned
       THEN /\ op' = [op EXCEPT !.sequence = @ + 1]
            /\ journal' = journal \cup {[attempt |-> root.attempt, sequence |-> op'.sequence]}
            /\ UNCHANGED root
       ELSE ~root.cancelled /\ Raise /\ UNCHANGED <<op, journal>>
  /\ UNCHANGED <<attempt, call, receipt, caller>>

\* finalize_call, which no lease fences: the provider answered, failed, or the
\* call was cancelled.
CallFinal(s) ==
  /\ Invoking /\ root.step = "calling"
  /\ s = "cancelled" <=> root.cancelled
  /\ call' = [call EXCEPT ![root.attempt] = [@ EXCEPT !.status = s]]
  /\ root' = [root EXCEPT !.step = "answered", !.end = IF s = "completed" THEN "ok" ELSE "error"]
  /\ UNCHANGED <<op, attempt, journal, receipt, caller>>

\* append_events of the call's result ends the invocation.
CallResult ==
  /\ Invoking /\ root.step = "answered"
  /\ IF Owned
       THEN /\ op' = [op EXCEPT !.sequence = @ + 1]
            /\ call' = [call EXCEPT ![root.attempt] = [@ EXCEPT !.terminal = TRUE]]
            /\ root' = [root EXCEPT !.step = "over"]
       ELSE root' = [root EXCEPT !.step = "over", !.end = "error"] /\ UNCHANGED <<op, call>>
  /\ UNCHANGED <<attempt, journal, receipt, caller>>

--------------------------------------------------------------------------------
(* Leases, deadlines, recovery.                                            *)

\* The lease runs out: the root is dead, or its event loop stalls.
LeaseExpires ==
  /\ Current.status = "running" /\ Current.leased
  /\ attempt' = [attempt EXCEPT ![op.generation] = [@ EXCEPT !.leased = FALSE]]
  /\ UNCHANGED <<op, call, journal, receipt, root, caller>>

RecoverOpenCalls ==
  /\ Current.status = "running" /\ ~Current.leased
  /\ FinishOnly(Requested("interrupted"))
  /\ UNCHANGED <<journal, root, caller>>

\* recover_expired
Recover ==
  /\ Current.status = "running" /\ ~Current.leased
  /\ CloseAndFinish(Requested("interrupted"))
  /\ UNCHANGED <<journal, root, caller>>

DeadlinePasses ==
  /\ ~op.expired
  /\ op' = [op EXCEPT !.expired = TRUE]
  /\ UNCHANGED <<attempt, call, journal, receipt, root, caller>>

\* queued_admissions closes an inference whose deadline passed in the queue.
ExpireQueued ==
  /\ op.status = "queued" /\ op.expired
  /\ FinishOnly("failed")
  /\ UNCHANGED <<journal, root, caller>>

--------------------------------------------------------------------------------
(* command                                                                 *)

\* The commands that the state of the inference does not refuse.
Accepts(act) ==
  CASE act = "replay" -> TRUE
    [] act = "start" -> op.status = "prepared"
    [] act = "resume" -> op.status \in {"paused", "interrupted"} /\ ~op.expired
    [] act = "pause" -> op.status \notin {"completed", "failed", "stopped", "stopping"}
    [] OTHER -> op.status \notin {"completed", "failed", "stopped"}

\* What an accepted command does to the inference, and the revision it adds.
Effect(act) ==
  \/ /\ act = "start"
     /\ op' = [op EXCEPT !.status = "queued", !.revision = @ + 1]
     /\ attempt' = [attempt EXCEPT ![1].status = "queued"]
  \/ /\ act = "resume"
     /\ op.generation < MaxAttempts
     /\ op' = [op EXCEPT !.status = "queued", !.generation = @ + 1, !.revision = @ + 1]
     /\ attempt' = [attempt EXCEPT ![op.generation + 1] = NewAttempt("queued")]
  \/ /\ act \in {"pause", "stop"} /\ Current.status = "running"
     /\ op' = [op EXCEPT !.status = IF act = "pause" THEN "pausing" ELSE "stopping",
                         !.revision = @ + 1]
     /\ UNCHANGED attempt
  \/ /\ act \in {"pause", "stop"} /\ Current.status \in {"prepared", "queued"}
     /\ LET s == IF act = "pause" THEN "paused" ELSE "stopped"
        IN  /\ op' = [op EXCEPT !.status = s, !.revision = @ + 2, !.sequence = @ + 1]
            /\ attempt' = [attempt EXCEPT ![op.generation] =
                             [status |-> s, leased |-> FALSE, final |-> op.sequence + 1]]
  \/ /\ act = "stop" /\ Current.status \in Terminal
     /\ op' = [op EXCEPT !.status = "stopped", !.revision = @ + 1]
     /\ UNCHANGED attempt
  \/ /\ act = "pause" /\ Current.status \in Terminal
     /\ op' = [op EXCEPT !.revision = @ + 1]
     /\ UNCHANGED attempt
  \/ /\ act = "replay"
     /\ UNCHANGED <<op, attempt>>

\* A new command that its expected revision, if any, does not refuse.
Apply(c, act) ==
  /\ Accepts(act)
  /\ Effect(act)
  /\ receipt' = [receipt EXCEPT ![c] =
                   [action |-> act, attempt |-> op.generation,
                    applied |-> op'.status \notin {"pausing", "stopping"} \/ act = "replay"]]
  /\ UNCHANGED <<call, journal>>

\* A known identity returns its receipt and changes nothing.
Command(c, act) ==
  /\ receipt[c].action = "none"
  /\ Apply(c, act)
  /\ UNCHANGED <<root, caller>>

\* stop_call: the call stops only while its attempt is the current one.
StopCall(c, a) ==
  /\ receipt[c].action = "none"
  /\ a = op.generation
  /\ call[a].status = "running"
  /\ op.status \in {"running", "pausing"}
  /\ Apply(c, "stop")
  /\ UNCHANGED <<root, caller>>

--------------------------------------------------------------------------------
(* The stream (events, read_event_batch) and the synchronous caller (_run). *)

OpenStream(phase, a) ==
  caller' = [caller EXCEPT !.phase = phase, !.attempt = a, !.cursor = 0, !.got = {},
                           !.ended = FALSE, !.row = NoRow]

\* The caller reads the inference; while it is paused it waits for a change.
Look ==
  /\ caller.phase = "look"
  /\ op.status # "paused"
  /\ OpenStream("stream", op.generation)
  /\ UNCHANGED <<dbVars, root>>

\* read_event_batch reads the attempt first.
ReadRow ==
  /\ caller.phase \in {"stream", "drain"}
  /\ caller.row = NoRow
  /\ caller' = [caller EXCEPT !.row = [status |-> attempt[caller.attempt].status,
                                       final |-> attempt[caller.attempt].final]]
  /\ UNCHANGED <<dbVars, root>>

\* What the caller does with a result: the value, another wait, or an error.
Outcome(s) ==
  IF caller.phase = "drain" THEN "cancelled"
  ELSE CASE s = "completed" -> "returned"
         [] s = "paused" -> "check"
         [] OTHER -> "raised"

\* Then it reads a page of messages, and the result when the page has room.
ReadPage ==
  LET fresh == {m.sequence : m \in {n \in MessagesOf(caller.attempt) : n.sequence > caller.cursor}}
      page == {n \in fresh : Cardinality({k \in fresh : k < n}) < PageLimit}
      result == Cardinality(page) < PageLimit /\ caller.row.final > caller.cursor
      last == CHOOSE n \in page : \A k \in page : k <= n
  IN  /\ caller.phase \in {"stream", "drain"}
      /\ caller.row # NoRow
      /\ caller' = [caller EXCEPT
                      !.row = NoRow,
                      !.got = @ \cup page,
                      !.ended = result,
                      !.cursor = IF result THEN caller.row.final
                                 ELSE IF page = {} THEN @ ELSE last,
                      !.phase = IF result THEN Outcome(caller.row.status) ELSE @]
      /\ UNCHANGED <<dbVars, root>>

\* A paused result: give up when the inference was stopped since.
Check ==
  /\ caller.phase = "check"
  /\ IF op.status = "stopped" THEN caller' = [caller EXCEPT !.phase = "raised"]
     ELSE caller' = [caller EXCEPT !.phase = "look"]
  /\ UNCHANGED <<dbVars, root>>

CallerLeaves(c) ==
  /\ caller.phase \in Watching \ {"drain"}
  /\ receipt[c].action = "none"
  /\ IF Accepts("stop") THEN Apply(c, "stop") ELSE UNCHANGED dbVars
  /\ caller' = [caller EXCEPT !.phase = "cancelled"]
  /\ UNCHANGED root

\* The caller is cancelled: it stops the inference and reads its stream to the
\* end; a refused stop means that there is nothing to stop.
CallerCancelled(c) ==
  /\ caller.phase \in Watching \ {"drain"}
  /\ receipt[c].action = "none"
  /\ IF Accepts("stop") THEN Apply(c, "stop") /\ OpenStream("drain", op.generation)
     ELSE UNCHANGED dbVars /\ caller' = [caller EXCEPT !.phase = "cancelled"]
  /\ UNCHANGED root

--------------------------------------------------------------------------------
Invocation == NoCall \/ CallStart \/ Message \/ CallResult
              \/ \E s \in {"completed", "error", "cancelled"} : CallFinal(s)

Control ==
  \/ \E c \in Commands :
       \/ \E act \in Actions : Command(c, act)
       \/ \E a \in Attempts : StopCall(c, a)
       \/ CallerCancelled(c)
  \/ DeadlinePasses

Reading == Look \/ ReadRow \/ ReadPage \/ Check

Next ==
  \/ StartRoot \/ Claim \/ RootFails \/ Heartbeat \/ HeartbeatFails \/ Shutdown \/ Finish \/ Crash
  \/ Invocation \/ Control \/ Reading
  \/ LeaseExpires \/ Recover \/ ExpireQueued

Spec == Init /\ [][Next]_vars

--------------------------------------------------------------------------------
\* "A requested stop cannot become a pause" (state-machines.md): once a stop is
\* accepted, no result, recovery, deadline or command ends the inference
\* otherwise.
StopHolds ==
  (\E c \in Commands : receipt[c].action = "stop") => op.status \in {"stopping", "stopped"}

\* "Each attempt streams committed messages followed by exactly one terminal
\* result": a reader has skipped no message behind its cursor, and after the
\* result no message of the attempt is committed.
StreamComplete ==
  \A m \in MessagesOf(caller.attempt) :
    caller.ended \/ m.sequence <= caller.cursor => m.sequence \in caller.got

\* An ended attempt leaves nothing open: no call of it runs in the accounts, no
\* call journal lacks its result, no command of it waits to be applied.
AttemptClosed ==
  \A a \in Attempts : attempt[a].status \in Terminal =>
    /\ call[a].status # "running"
    /\ ~Unfinished(a)
    /\ \A c \in Commands : receipt[c].attempt = a => receipt[c].applied

\* A synchronous caller that was cancelled leaves no inference at work behind it.
CancelledCallerSettled ==
  caller.phase = "cancelled" => op.status \in {"stopped", "completed", "failed"}
================================================================================

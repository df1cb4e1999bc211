--------------------------- MODULE InferenceService ---------------------------
(***************************************************************************)
(* The inference worker of the single backend process                      *)
(* (inference_execution._loop) with the provider's admission: a queued     *)
(* inference takes a ticket, a granted ticket starts the execution root,   *)
(* the first physical call of the root consumes the permit, and the end    *)
(* of the call or of the root gives it back.  Native callers               *)
(* (llm_call_service._admit_running_call outside an inference) compete     *)
(* for the same places.                                                    *)
(***************************************************************************)
EXTENDS InferenceLifecycle, ProviderScheduler

CONSTANTS
  Inf,        \* the ticket of the inference
  MaxCrashes  \* bound: crashes of the process

ASSUME ServiceAssumption == Inf \in Tickets /\ MaxCrashes \in Nat

VARIABLES
  admission,  \* _admissions holds a ticket of the inference
  native,     \* the native callers: idle, acquiring, calling
  crashes

Natives == Tickets \ {Inf}

serviceVars == <<vars, schedulerVars, admission, native, crashes>>
ownVars == <<admission, native, crashes>>

ServiceTypeOK ==
  /\ TypeOK
  /\ SchedulerTypeOK
  /\ admission \in BOOLEAN
  /\ native \in [Natives -> {"idle", "acquiring", "calling"}]
  /\ crashes \in 0 .. MaxCrashes

ServiceInit ==
  /\ Init
  /\ SchedulerInit
  /\ admission = FALSE
  /\ native = [n \in Natives |-> "idle"]
  /\ crashes = 0

--------------------------------------------------------------------------------
(* The loop.                                                               *)

\* pending_admissions: a queued inference without root or ticket is enqueued.
Admit ==
  /\ op.status = "queued"
  /\ root.phase = "none" /\ ~admission
  /\ Enqueue(Inf)
  /\ admission' = TRUE
  /\ UNCHANGED <<vars, native, crashes>>

\* The ticket of an inference that is no longer queued is cancelled.
Withdraw ==
  /\ admission /\ op.status # "queued"
  /\ Cancel(Inf)
  /\ admission' = FALSE
  /\ UNCHANGED <<vars, native, crashes>>

\* A granted ticket becomes an execution root.
Launch ==
  /\ admission /\ Inf \in active
  /\ StartRoot
  /\ admission' = FALSE
  /\ UNCHANGED <<schedulerVars, native, crashes>>

\* The finally of _loop cancels the tickets; the next process admits again.
StopLoop ==
  /\ admission
  /\ crashes < MaxCrashes
  /\ crashes' = crashes + 1
  /\ Cancel(Inf)
  /\ admission' = FALSE
  /\ UNCHANGED <<vars, native>>

\* The root ends, or its call is final: the permit is released.
ReleaseWhen(ended) ==
  IF ended THEN Release(Inf) ELSE UNCHANGED schedulerVars

RootStep ==
  /\ Claim \/ Heartbeat \/ Finish
  /\ ReleaseWhen(root'.phase = "none")
  /\ UNCHANGED ownVars

RootFault ==
  /\ RootFails \/ HeartbeatFails
  /\ ReleaseWhen(root'.phase = "none")
  /\ UNCHANGED ownVars

CallStep ==
  /\ Invocation
  /\ ReleaseWhen(root.step = "calling" /\ root'.step = "answered")
  /\ UNCHANGED ownVars

\* The process dies with its queue, its permits, its root and its native calls.
ProcessCrash ==
  /\ crashes < MaxCrashes
  /\ crashes' = crashes + 1
  /\ Crash \/ (root.phase = "none" /\ waiting # <<>> /\ UNCHANGED vars)
  /\ Forget
  /\ admission' = FALSE
  /\ native' = [n \in Natives |-> "idle"]

OrderlyShutdown ==
  /\ crashes < MaxCrashes
  /\ crashes' = crashes + 1
  /\ Shutdown
  /\ UNCHANGED <<schedulerVars, admission, native>>

\* What runs beside the process or leaves its memory alone.
Outside ==
  /\ Control \/ Reading \/ LeaseExpires \/ Recover \/ ExpireQueued
  /\ UNCHANGED <<schedulerVars, ownVars>>

--------------------------------------------------------------------------------
(* Native callers: acquire, the checks after the wait, the call.           *)

NativeAcquire(n) ==
  /\ native[n] = "idle"
  /\ Enqueue(n)
  /\ native' = [native EXCEPT ![n] = "acquiring"]
  /\ UNCHANGED <<vars, admission, crashes>>

NativeStart(n) ==
  /\ native[n] = "acquiring" /\ n \in active
  /\ native' = [native EXCEPT ![n] = "calling"]
  /\ UNCHANGED <<vars, schedulerVars, admission, crashes>>

\* Cancelled while it waits, or between the grant and its own resumption; or the
\* provider was deactivated meanwhile.
NativeCancel(n) ==
  /\ native[n] = "acquiring"
  /\ Cancel(n)
  /\ native' = [native EXCEPT ![n] = "idle"]
  /\ UNCHANGED <<vars, admission, crashes>>

\* finalize_call
NativeEnd(n) ==
  /\ native[n] = "calling"
  /\ Release(n)
  /\ native' = [native EXCEPT ![n] = "idle"]
  /\ UNCHANGED <<vars, admission, crashes>>

SchedulerStep ==
  /\ Drain \/ (\E t \in Tickets : Wait(t)) \/ (\E n \in Limits : Configure(n))
  /\ UNCHANGED <<vars, ownVars>>

ServiceNext ==
  \/ Admit \/ Withdraw \/ Launch \/ StopLoop
  \/ RootStep \/ RootFault \/ CallStep \/ ProcessCrash \/ OrderlyShutdown \/ Outside
  \/ \E n \in Natives : NativeAcquire(n) \/ NativeStart(n) \/ NativeCancel(n) \/ NativeEnd(n)
  \/ SchedulerStep

ServiceSpec == ServiceInit /\ [][ServiceNext]_serviceVars

--------------------------------------------------------------------------------
(* Fairness: the event loop runs what it has queued and its timers fire; a *)
(* physical call ends, for it has a timeout; a dead root's lease runs out. *)

FairLoop ==
  /\ WF_serviceVars(Admit \/ Withdraw \/ Launch)
  /\ WF_serviceVars(Drain /\ UNCHANGED <<vars, ownVars>>)
  /\ WF_serviceVars(Wait(Inf) /\ UNCHANGED <<vars, ownVars>>)
  /\ \A n \in Natives : WF_serviceVars(NativeStart(n) \/ NativeEnd(n))

FairRoot ==
  /\ WF_serviceVars(RootStep \/ CallStep)
  /\ WF_serviceVars(/\ (root.phase = "none" /\ LeaseExpires) \/ Recover
                    /\ UNCHANGED <<schedulerVars, ownVars>>)

ServiceFairSpec == ServiceSpec /\ FairLoop /\ FairRoot

--------------------------------------------------------------------------------
\* No place is lost and none is used twice: a permit is out exactly while its
\* ticket is pending in the loop, its root has not made its call final, or its
\* native caller acquires or calls; a call in flight always has its place.
PlacesAccounted ==
  /\ Inf \in active => admission \/ root.phase # "none"
  /\ root.step = "calling" => Inf \in active
  /\ \A n \in Natives :
       /\ n \in active => native[n] # "idle"
       /\ native[n] = "calling" => n \in active

\* An inference does not wait or run for ever: however the calls of a higher
\* class keep coming and wherever the process dies, a queued or claimed attempt
\* ends.
InferenceSettles ==
  op.status \in {"queued", "running", "pausing", "stopping"}
    ~> op.status \notin {"queued", "running", "pausing", "stopping"}
================================================================================

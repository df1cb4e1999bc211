-------------------------- MODULE ProviderScheduler --------------------------
(***************************************************************************)
(* The admission of physical LLM calls to one provider connection          *)
(* (back/app/llm/provider_scheduler.py).  Every method runs to its end     *)
(* without an await, so each one is a step; _drain runs later, from the    *)
(* event loop's queue.  A ticket is an identity that waits, is granted a   *)
(* permit and gives it back; it may then be enqueued again, which stands   *)
(* for the next ticket of the same caller.                                 *)
(***************************************************************************)
EXTENDS Integers, Sequences, FiniteSets, SequencesExt

CONSTANTS
  Tickets,
  Class,    \* the priority of a ticket: 0 voice, 1 text, 2 background
  OwnerOf,  \* the rotation context of a ticket
  Limits    \* the values an administrator gives max_concurrent_calls

ASSUME SchedulerAssumption ==
  /\ IsFiniteSet(Tickets)
  /\ Class \in [Tickets -> 0 .. 2]
  /\ DOMAIN OwnerOf = Tickets
  /\ Limits \subseteq Nat

VARIABLES
  limit,     \* _ProviderQueue.limit
  waiting,   \* _ProviderQueue.waiting, oldest first
  active,    \* _ProviderQueue.active: the tickets whose permit is not released
  age,       \* periods of 30 s a waiting ticket has waited, as far as its rank tells
  scheduled  \* _scheduled: a _drain is queued on the event loop

schedulerVars == <<limit, waiting, active, age, scheduled>>

SchedulerTypeOK ==
  /\ limit \in Limits
  /\ waiting \in Seq(Tickets)
  /\ active \subseteq Tickets
  /\ age \in [Tickets -> 0 .. 2]
  /\ scheduled \in BOOLEAN

SchedulerInit ==
  /\ limit \in Limits
  /\ waiting = <<>>
  /\ active = {}
  /\ age = [t \in Tickets |-> 0]
  /\ scheduled = FALSE

Waits(t) == \E i \in DOMAIN waiting : waiting[i] = t

OfClass(c, places) == {t \in places : Class[t] = c}

\* _schedule: a drain is queued when somebody waits.
Schedule(queue) == scheduled' = (scheduled \/ queue # <<>>)

\* _eligible: may a ticket of class c get a place, given the active permits?
Eligible(c, places) ==
  LET background == Cardinality(OfClass(2, places))
      own == Cardinality(OfClass(c, places))
  IN  \/ limit = 0
      \/ /\ Cardinality(places) < limit
         /\ \/ limit = 1
            \/ c = 2 /\ background < (IF limit > 3 THEN limit - 2 ELSE 1)
            \/ c # 2 /\ limit = 2
            \/ c # 2 /\ own + background < limit - 1

UrgencyFixed(t) == Class[t]

\* rank: the class less one for every period waited, then the owner's permits,
\* then the time of arrival, which is the position in the queue.
Urgency(t) == IF Class[t] > age[t] THEN Class[t] - age[t] ELSE 0

Concurrent(t, places) == Cardinality({s \in places : OwnerOf[s] = OwnerOf[t]})

Before(queue, places, i, j) ==
  LET u == Urgency(queue[i])  v == Urgency(queue[j])
      m == Concurrent(queue[i], places)  n == Concurrent(queue[j], places)
  IN  u < v \/ (u = v /\ (m < n \/ (m = n /\ i <= j)))

\* One round of the loop of _drain over a queue and its active permits.
Grant(state) ==
  LET queue == state.queue
      open == {i \in DOMAIN queue : Eligible(Class[queue[i]], state.places)}
      best == CHOOSE i \in open : \A j \in open : Before(queue, state.places, i, j)
  IN  IF open = {} THEN state
      ELSE [queue |-> RemoveAt(queue, best), places |-> state.places \cup {queue[best]}]

\* The loop stops when nobody is eligible; it grants at most Len(waiting) times.
Drained ==
  LET run[n \in 0 .. Len(waiting)] ==
        IF n = 0 THEN [queue |-> waiting, places |-> active] ELSE Grant(run[n - 1])
  IN  run[Len(waiting)]

--------------------------------------------------------------------------------
\* enqueue
Enqueue(t) ==
  /\ ~Waits(t)
  /\ t \notin active
  /\ waiting' = Append(waiting, t)
  /\ Schedule(waiting')
  /\ UNCHANGED <<limit, active, age>>

\* _drain: every permit it grants resolves the ticket's future.
Drain ==
  /\ scheduled
  /\ scheduled' = FALSE
  /\ waiting' = Drained.queue
  /\ active' = Drained.places
  /\ age' = [t \in Tickets |-> IF t \in active' THEN 0 ELSE age[t]]
  /\ UNCHANGED limit

CancelQueuedOnly(t) ==
  /\ waiting' = RemoveFirst(waiting, t)
  /\ Schedule(waiting')
  /\ UNCHANGED <<limit, active, age>>

\* cancel: a waiting ticket leaves the queue, a granted one gives its permit back.
Cancel(t) ==
  /\ waiting' = RemoveFirst(waiting, t)
  /\ active' = active \ {t}
  /\ age' = [age EXCEPT ![t] = 0]
  /\ Schedule(waiting')
  /\ UNCHANGED limit

\* Permit.release: the second release of a permit does nothing.
Release(t) ==
  /\ active' = active \ {t}
  /\ IF t \in active THEN Schedule(waiting) ELSE UNCHANGED scheduled
  /\ UNCHANGED <<limit, waiting, age>>

\* configure: active permits survive a lower limit.
Configure(n) ==
  /\ n # limit
  /\ limit' = n
  /\ Schedule(waiting)
  /\ UNCHANGED <<waiting, active, age>>

\* Thirty more seconds pass for a waiting ticket; an older one ages no later.
Wait(t) ==
  /\ \E i \in DOMAIN waiting :
       waiting[i] = t /\ \A j \in 1 .. i - 1 : age[waiting[j]] > age[t] \/ age[waiting[j]] = Class[waiting[j]]
  /\ age[t] < Class[t]
  /\ age' = [age EXCEPT ![t] = age[t] + 1]
  /\ UNCHANGED <<limit, waiting, active, scheduled>>

\* The process ends: the queue and the permits were in memory.
Forget ==
  /\ waiting' = <<>>
  /\ active' = {}
  /\ scheduled' = FALSE
  /\ age' = [t \in Tickets |-> 0]
  /\ UNCHANGED limit
================================================================================

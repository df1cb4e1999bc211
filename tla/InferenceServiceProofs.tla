------------------------ MODULE InferenceServiceProofs ------------------------
(***************************************************************************)
(* Proofs about InferenceService: the worker with its admission makes only *)
(* steps of the lifecycle of one inference, so what is proved of it holds  *)
(* of the service; and no place of the provider is lost or used twice, for *)
(* any number of tickets, limits and crashes.                              *)
(*                                                                         *)
(* The argument: a ticket is in the queue once or in the active permits,   *)
(* never in both (QueuePart), and the caller that put it there knows it    *)
(* (HolderPart); _drain only moves tickets from the queue to the permits,  *)
(* round by round.                                                         *)
(***************************************************************************)
EXTENDS InferenceService, InferenceLifecycleProofs, SequenceTheorems

\* A ticket waits once, or has a permit, never both.
QueuePart ==
  /\ \A i, j \in DOMAIN waiting : waiting[i] = waiting[j] => i = j
  /\ \A i \in DOMAIN waiting : waiting[i] \notin active

\* Who waits knows it, and who needs its place has it.
HolderPart ==
  /\ Waits(Inf) => admission
  /\ \A n \in Natives : Waits(n) => native[n] = "acquiring"
  /\ admission => root.phase = "none"
  /\ root.phase = "none" => root.step = "over"
  /\ root.phase = "claiming" \/ root.step = "ready" => Inf \in active

ServiceTypes ==
  /\ SchedulerTypeOK /\ admission \in BOOLEAN
  /\ native \in [Natives -> {"idle", "acquiring", "calling"}] /\ crashes \in 0 .. MaxCrashes

\* The inductive invariant.
PlaceInv == ServiceTypes /\ QueuePart /\ HolderPart /\ PlacesAccounted

-------------------------------------------------------------------------------
(* The service makes the steps of the lifecycle.                            *)

LEMMA ServiceStepIsLifecycle ==
  ASSUME [ServiceNext]_serviceVars
  PROVE  [Next]_vars
<1>1. CASE Launch
  BY <1>1 DEF Launch, Next
<1>2. CASE RootStep \/ RootFault \/ CallStep \/ OrderlyShutdown
  BY <1>2 DEF RootStep, RootFault, CallStep, OrderlyShutdown, Next
<1>3. CASE ProcessCrash
  BY <1>3 DEF ProcessCrash, Next
<1>4. CASE Outside
  BY <1>4 DEF Outside, Next
<1>5. CASE Admit \/ Withdraw \/ StopLoop
  BY <1>5 DEF Admit, Withdraw, StopLoop
<1>6. ASSUME NEW n \in Natives, NativeAcquire(n) \/ NativeStart(n) \/ NativeCancel(n) \/ NativeEnd(n)
      PROVE  [Next]_vars
  BY <1>6 DEF NativeAcquire, NativeStart, NativeCancel, NativeEnd
<1>7. CASE SchedulerStep
  BY <1>7 DEF SchedulerStep
<1>8. CASE UNCHANGED serviceVars
  BY <1>8 DEF serviceVars
<1> QED BY <1>1, <1>2, <1>3, <1>4, <1>5, <1>6, <1>7, <1>8 DEF ServiceNext

\* The worker of the single process, with its tickets, permits and native
\* callers, runs the lifecycle of the inference: the composition adds no step to
\* it.
THEOREM ServiceRunsLifecycle == ServiceSpec => Spec
<1>1. ServiceInit => Init
  BY DEF ServiceInit
<1>2. [ServiceNext]_serviceVars => [Next]_vars
  BY ServiceStepIsLifecycle
<1> QED BY <1>1, <1>2, PTL DEF ServiceSpec, Spec

\* So the service keeps an accepted stop, closes what it ends, streams every
\* message and settles a cancelled caller.
THEOREM ServiceIsSafe ==
  ServiceSpec => [](StopHolds /\ AttemptClosed /\ StreamComplete /\ CancelledCallerSettled)
<1>1. LifecycleInv => StopHolds /\ AttemptClosed /\ StreamComplete /\ CancelledCallerSettled
  BY LifecycleParts
<1> QED BY <1>1, LifecycleInvariant, ServiceRunsLifecycle, PTL

-------------------------------------------------------------------------------
(* Sequences without one of their elements.                                 *)

\* An element is not in the queue twice.
Once(q) == \A i, j \in DOMAIN q : q[i] = q[j] => i = j

Has(q, t) == \E i \in DOMAIN q : q[i] = t

LEMMA Removed ==
  ASSUME NEW q \in Seq(Tickets), NEW k \in DOMAIN q
  PROVE  /\ RemoveAt(q, k) \in Seq(Tickets)
         /\ Len(RemoveAt(q, k)) = Len(q) - 1
         /\ \A i \in 1 .. Len(q) - 1 : RemoveAt(q, k)[i] = IF i < k THEN q[i] ELSE q[i + 1]
<1> DEFINE a == SubSeq(q, 1, k - 1)
           b == SubSeq(q, k + 1, Len(q))
<1>1. Len(q) \in Nat /\ k \in 1 .. Len(q)
  OBVIOUS
<1>2. a \in Seq(Tickets) /\ Len(a) = k - 1 /\ \A i \in 1 .. k - 1 : a[i] = q[i]
  BY <1>1
<1>3. b \in Seq(Tickets) /\ Len(b) = Len(q) - k /\ \A i \in 1 .. Len(q) - k : b[i] = q[k + i]
  BY <1>1
<1> HIDE DEF a, b
<1>4. (a \o b) \in Seq(Tickets) /\ Len(a \o b) = Len(q) - 1
  BY <1>1, <1>2, <1>3
<1>5. ASSUME NEW i \in 1 .. Len(q) - 1
      PROVE  (a \o b)[i] = IF i < k THEN q[i] ELSE q[i + 1]
  <2>1. CASE i < k
    <3>1. i \in 1 .. Len(a) /\ i \in 1 .. k - 1
      BY <1>1, <1>2, <2>1
    <3>2. (a \o b)[i] = a[i]
      BY <1>2, <1>3, <1>4, <3>1
    <3> QED BY <1>2, <2>1, <3>1, <3>2
  <2>2. CASE ~(i < k)
    <3> DEFINE j == i - (k - 1)
    <3>1. j \in 1 .. Len(q) - k /\ k + j = i + 1 /\ ~(i <= Len(a))
      BY <1>1, <1>2, <2>2
    <3>2. (a \o b)[i] = b[i - Len(a)]
      <4>1. i \in 1 .. Len(a) + Len(b)
        BY <1>1, <1>2, <1>3
      <4>2. (a \o b)[i] = IF i <= Len(a) THEN a[i] ELSE b[i - Len(a)]
        BY <1>2, <1>3, <4>1, ConcatProperties
      <4> QED BY <3>1, <4>2
    <3>3. i - Len(a) = j
      BY <1>2
    <3> HIDE DEF j
    <3> QED BY <1>3, <2>2, <3>1, <3>2, <3>3
  <2> QED BY <2>1, <2>2
<1> QED BY <1>4, <1>5 DEF RemoveAt, a, b

LEMMA RemovedFacts ==
  ASSUME NEW q \in Seq(Tickets), NEW k \in DOMAIN q, Once(q)
  PROVE  /\ RemoveAt(q, k) \in Seq(Tickets) /\ Once(RemoveAt(q, k))
         /\ \A t : Has(RemoveAt(q, k), t) <=> Has(q, t) /\ t # q[k]
<1> DEFINE r == RemoveAt(q, k)
           Old(i) == IF i < k THEN i ELSE i + 1
<1>1. /\ r \in Seq(Tickets) /\ Len(r) = Len(q) - 1 /\ Len(q) \in Nat /\ k \in 1 .. Len(q)
      /\ \A i \in 1 .. Len(q) - 1 : r[i] = IF i < k THEN q[i] ELSE q[i + 1]
  BY Removed
<1> HIDE DEF r
<1>2. DOMAIN r = 1 .. Len(q) - 1 /\ DOMAIN q = 1 .. Len(q)
  BY <1>1
<1>3. ASSUME NEW i \in DOMAIN r
      PROVE  Old(i) \in DOMAIN q /\ Old(i) # k /\ r[i] = q[Old(i)]
  <2>1. CASE i < k
    BY <1>1, <1>2, <2>1
  <2>2. CASE ~(i < k)
    BY <1>1, <1>2, <2>2
  <2> QED BY <2>1, <2>2
<1>4. ASSUME NEW i \in DOMAIN q, i # k
      PROVE  \E j \in DOMAIN r : r[j] = q[i]
  <2>1. CASE i < k
    <3>1. i \in DOMAIN r /\ r[i] = q[i]
      BY <1>1, <1>2, <2>1
    <3> QED BY <3>1
  <2>2. CASE ~(i < k)
    <3>1. i - 1 \in DOMAIN r /\ ~(i - 1 < k) /\ (i - 1) + 1 = i
      BY <1>1, <1>2, <1>4, <2>2
    <3>2. r[i - 1] = q[(i - 1) + 1]
      BY <1>1, <1>2, <3>1
    <3> QED BY <3>1, <3>2
  <2> QED BY <2>1, <2>2
<1>5. Once(r)
  <2> SUFFICES ASSUME NEW i \in DOMAIN r, NEW j \in DOMAIN r, r[i] = r[j]
               PROVE  i = j
    BY DEF Once
  <2>1. Old(i) = Old(j)
    BY <1>3 DEF Once
  <2> QED BY <1>1, <1>2, <2>1
<1>6. ASSUME NEW t PROVE Has(r, t) <=> Has(q, t) /\ t # q[k]
  <2>1. ASSUME Has(r, t) PROVE Has(q, t) /\ t # q[k]
    <3>1. PICK i \in DOMAIN r : r[i] = t
      BY <2>1 DEF Has
    <3>2. Old(i) \in DOMAIN q /\ Old(i) # k /\ q[Old(i)] = t
      BY <1>3, <3>1
    <3> HIDE DEF Old
    <3> QED BY <3>2 DEF Has, Once
  <2>2. ASSUME Has(q, t), t # q[k] PROVE Has(r, t)
    <3>1. PICK i \in DOMAIN q : q[i] = t
      BY <2>2 DEF Has
    <3> QED BY <1>4, <2>2, <3>1 DEF Has
  <2> QED BY <2>1, <2>2
<1> QED BY <1>1, <1>5, <1>6 DEF r

LEMMA RemoveFirstFacts ==
  ASSUME NEW q \in Seq(Tickets), NEW t, Once(q)
  PROVE  /\ RemoveFirst(q, t) \in Seq(Tickets) /\ Once(RemoveFirst(q, t))
         /\ \A u : Has(RemoveFirst(q, t), u) <=> Has(q, u) /\ u # t
<1>0. DOMAIN q = 1 .. Len(q) /\ Len(q) \in Nat
  OBVIOUS
<1>1. CASE \E i \in 1 .. Len(q) : q[i] = t
  <2> DEFINE I == {i \in 1 .. Len(q) : q[i] = t}
             k == CHOOSE x \in I : \A y \in I : x <= y
  <2>1. I \in SUBSET Nat /\ I # {}
    BY <1>1
  <2>2. \E x \in I : \A y \in I : x <= y
    BY <2>1, LeastNat
  <2>3. k \in I
    <3> HIDE DEF I
    <3> QED BY <2>2
  <2>4. RemoveFirst(q, t) = RemoveAt(q, k)
    BY <1>1, <2>1 DEF RemoveFirst, SelectInSeq, Min
  <2>5. k \in DOMAIN q /\ q[k] = t
    BY <1>0, <2>3
  <2> HIDE DEF k
  <2> QED BY <2>4, <2>5, RemovedFacts
<1>2. CASE ~\E i \in 1 .. Len(q) : q[i] = t
  <2>1. RemoveFirst(q, t) = q
    BY <1>2 DEF RemoveFirst
  <2>2. ~Has(q, t)
    BY <1>0, <1>2 DEF Has
  <2> QED BY <2>1, <2>2
<1> QED BY <1>1, <1>2

LEMMA AppendFacts ==
  ASSUME NEW q \in Seq(Tickets), NEW t \in Tickets, Once(q), ~Has(q, t)
  PROVE  /\ Append(q, t) \in Seq(Tickets) /\ Once(Append(q, t))
         /\ \A u : Has(Append(q, t), u) <=> Has(q, u) \/ u = t
<1> DEFINE r == Append(q, t)
           n == Len(q) + 1
<1>1. /\ r \in Seq(Tickets) /\ Len(r) = n /\ r[n] = t /\ Len(q) \in Nat
      /\ \A i \in 1 .. Len(q) : r[i] = q[i]
  OBVIOUS
<1> HIDE DEF r
<1>2. DOMAIN r = 1 .. n /\ DOMAIN q = 1 .. Len(q) /\ n \in DOMAIN r
      /\ \A i \in DOMAIN r : i \in DOMAIN q \/ i = n
  BY <1>1
<1>3. \A i \in DOMAIN q : i \in DOMAIN r /\ r[i] = q[i]
  BY <1>1, <1>2
<1> HIDE DEF n
<1>4. Once(r)
  BY <1>1, <1>2, <1>3 DEF Once, Has
<1>5. \A u : Has(r, u) <=> Has(q, u) \/ u = t
  BY <1>1, <1>2, <1>3 DEF Has
<1> QED BY <1>1, <1>4, <1>5 DEF r

-------------------------------------------------------------------------------
(* _drain                                                                   *)

LEMMA RankTypes ==
  ASSUME ServiceTypes, NEW t \in Tickets, NEW P \in SUBSET Tickets
  PROVE  Urgency(t) \in Nat /\ Concurrent(t, P) \in Nat
<1>1. Class[t] \in 0 .. 2 /\ age[t] \in 0 .. 2 /\ IsFiniteSet(Tickets)
  BY SchedulerAssumption DEF ServiceTypes, SchedulerTypeOK
<1>2. Urgency(t) \in Nat
  BY <1>1 DEF Urgency
<1>3. Concurrent(t, P) \in Nat
  <2>1. {s \in P : OwnerOf[s] = OwnerOf[t]} \subseteq Tickets
    OBVIOUS
  <2> QED BY <1>1, <2>1, FS_Subset, FS_CardinalityType DEF Concurrent
<1> QED BY <1>2, <1>3

\* The ranking has a first among the eligible: the CHOOSE of Grant is never empty.
LEMMA BestExists ==
  ASSUME ServiceTypes, NEW q \in Seq(Tickets), NEW P \in SUBSET Tickets,
         NEW I \in SUBSET (DOMAIN q), I # {}
  PROVE  \E i \in I : \A j \in I : Before(q, P, i, j)
<1> DEFINE u(i) == Urgency(q[i])
           m(i) == Concurrent(q[i], P)
<1>1. \A i \in I : i \in Nat /\ u(i) \in Nat /\ m(i) \in Nat
  BY RankTypes
<1>2. \A i, j \in I : Before(q, P, i, j) <=> u(i) < u(j) \/ (u(i) = u(j) /\ (m(i) < m(j) \/ (m(i) = m(j) /\ i <= j)))
  BY DEF Before
<1> HIDE DEF u, m
<1>3. PICK i1 \in I : \A j \in I : u(i1) <= u(j)
  <2> DEFINE U == {u(i) : i \in I}
  <2>1. U \in SUBSET Nat /\ U # {}
    BY <1>1
  <2>2. PICK x \in U : \A y \in U : x <= y
    BY <2>1, LeastNat
  <2> QED BY <2>2
<1> DEFINE I2 == {i \in I : u(i) = u(i1)}
<1>4. PICK i2 \in I2 : \A j \in I2 : m(i2) <= m(j)
  <2> DEFINE M == {m(i) : i \in I2}
  <2>1. M \in SUBSET Nat /\ M # {}
    BY <1>1
  <2>2. PICK x \in M : \A y \in M : x <= y
    BY <2>1, LeastNat
  <2> QED BY <2>2
<1> DEFINE I3 == {i \in I2 : m(i) = m(i2)}
<1>5. PICK i3 \in I3 : \A j \in I3 : i3 <= j
  <2>1. I3 \in SUBSET Nat /\ I3 # {}
    BY <1>1, <1>4
  <2> HIDE DEF I3
  <2> QED BY <2>1, LeastNat
<1>6. ASSUME NEW j \in I PROVE Before(q, P, i3, j)
  <2>1. i3 \in I /\ u(i3) = u(i1) /\ m(i3) = m(i2)
    BY <1>5
  <2>2. u(i3) <= u(j)
    BY <1>3, <2>1
  <2>3. u(j) = u(i3) => m(i3) <= m(j)
    BY <1>4, <2>1
  <2>4. u(j) = u(i3) /\ m(j) = m(i3) => i3 <= j
    BY <1>5, <2>1
  <2>5. u(i3) \in Nat /\ u(j) \in Nat /\ m(i3) \in Nat /\ m(j) \in Nat
    BY <1>1, <2>1
  <2> QED BY <1>2, <2>1, <2>2, <2>3, <2>4, <2>5
<1> QED BY <1>5, <1>6

\* A queue and permits that a drain may reach from the ones it found.
Fits(state) ==
  /\ state.queue \in Seq(Tickets) /\ state.places \in SUBSET Tickets
  /\ Once(state.queue) /\ active \subseteq state.places
  /\ \A t \in state.places : t \in active \/ Has(waiting, t)
  /\ \A t : Has(state.queue, t) => Has(waiting, t) /\ t \notin state.places
  /\ \A t : Has(waiting, t) => Has(state.queue, t) \/ t \in state.places

LEMMA GrantFits ==
  ASSUME ServiceTypes, NEW state, Fits(state)
  PROVE  Fits(Grant(state))
<1> DEFINE q == state.queue
           P == state.places
           open == {i \in DOMAIN q : Eligible(Class[q[i]], P)}
           best == CHOOSE i \in open : \A j \in open : Before(q, P, i, j)
           new == [queue |-> RemoveAt(q, best), places |-> P \cup {q[best]}]
<1>1. /\ q \in Seq(Tickets) /\ P \in SUBSET Tickets /\ Once(q) /\ active \subseteq P
      /\ \A t \in P : t \in active \/ Has(waiting, t)
      /\ \A t : Has(q, t) => Has(waiting, t) /\ t \notin P
      /\ \A t : Has(waiting, t) => Has(q, t) \/ t \in P
  BY DEF Fits
<1>2. Grant(state) = IF open = {} THEN state ELSE new
  BY DEF Grant
<1>3. CASE open = {}
  BY <1>2, <1>3
<1>4. CASE open # {}
  <2>1. open \in SUBSET (DOMAIN q)
    OBVIOUS
  <2> HIDE DEF open
  <2>2. \E i \in open : \A j \in open : Before(q, P, i, j)
    BY <1>1, <1>4, <2>1, BestExists
  <2>3. best \in DOMAIN q
    BY <2>1, <2>2
  <2> HIDE DEF best
  <2> DEFINE r == RemoveAt(q, best)
  <2>4. /\ r \in Seq(Tickets) /\ Once(r)
        /\ \A t : Has(r, t) <=> Has(q, t) /\ t # q[best]
    BY <1>1, <2>3, RemovedFacts
  <2>5. Has(q, q[best]) /\ q[best] \in Tickets
    BY <1>1, <2>3 DEF Has
  <2>6. Grant(state) = [queue |-> r, places |-> P \cup {q[best]}]
    BY <1>2, <1>4
  <2> HIDE DEF r, q, P
  <2>7. Grant(state).queue = r /\ Grant(state).places = P \cup {q[best]}
    BY <2>6
  <2> QED BY <1>1, <2>4, <2>5, <2>7 DEF Fits
<1> QED BY <1>3, <1>4

\* The rounds of the loop form a function.
LEMMA RoundsExist ==
  ASSUME NEW x, NEW L \in Nat
  PROVE  \E f : f = [n \in 0 .. L |-> IF n = 0 THEN x ELSE Grant(f[n - 1])]
<1> DEFINE Ok(k) == \E f : f = [n \in 0 .. k |-> IF n = 0 THEN x ELSE Grant(f[n - 1])]
           T == {k \in Nat : ~Ok(k)}
<1>1. Ok(0)
  <2> DEFINE f == [n \in 0 .. 0 |-> x]
  <2>1. f = [n \in 0 .. 0 |-> IF n = 0 THEN x ELSE Grant(f[n - 1])]
    OBVIOUS
  <2> QED BY <2>1
<1>2. ASSUME NEW k \in Nat, Ok(k) PROVE Ok(k + 1)
  <2>1. PICK f : f = [n \in 0 .. k |-> IF n = 0 THEN x ELSE Grant(f[n - 1])]
    BY <1>2
  <2> DEFINE g == [n \in 0 .. k + 1 |-> IF n <= k THEN f[n] ELSE Grant(f[k])]
  <2>2. ASSUME NEW n \in 0 .. k + 1 PROVE g[n] = IF n = 0 THEN x ELSE Grant(g[n - 1])
    <3>1. CASE n = 0
      BY <2>1, <3>1
    <3>2. CASE n # 0 /\ n <= k
      BY <2>1, <3>2
    <3>3. CASE n = k + 1
      BY <3>3
    <3> QED BY <3>1, <3>2, <3>3
  <2>3. g = [n \in 0 .. k + 1 |-> IF n = 0 THEN x ELSE Grant(g[n - 1])]
    BY <2>2
  <2> QED BY <2>3
<1> HIDE DEF Ok
<1>3. ASSUME T # {} PROVE FALSE
  <2>1. PICK m \in T : \A y \in T : m <= y
    BY <1>3, LeastNat
  <2>2. m \in Nat /\ ~Ok(m) /\ m # 0
    BY <1>1, <2>1
  <2>3. m - 1 \in Nat /\ m - 1 \notin T
    BY <2>1, <2>2
  <2>4. Ok(m - 1)
    BY <2>3
  <2>5. Ok((m - 1) + 1)
    BY <1>2, <2>3, <2>4
  <2>6. (m - 1) + 1 = m
    BY <2>2
  <2> QED BY <2>2, <2>5, <2>6
<1>4. Ok(L)
  BY <1>3
<1> QED BY <1>4 DEF Ok

LEMMA DrainedFits ==
  ASSUME ServiceTypes, QueuePart
  PROVE  Fits(Drained)
<1> DEFINE x == [queue |-> waiting, places |-> active]
           L == Len(waiting)
<1>1. waiting \in Seq(Tickets) /\ active \in SUBSET Tickets /\ L \in Nat
  BY DEF ServiceTypes, SchedulerTypeOK
<1>2. Fits(x)
  BY <1>1 DEF Fits, Once, Has, QueuePart
<1>3. \E f : f = [n \in 0 .. L |-> IF n = 0 THEN x ELSE Grant(f[n - 1])]
  BY <1>1, RoundsExist
<1>4. PICK run : /\ run = [n \in 0 .. L |-> IF n = 0 THEN x ELSE Grant(run[n - 1])]
                 /\ Drained = run[L]
  BY <1>3 DEF Drained
<1> HIDE DEF x, L
<1> DEFINE T == {n \in 0 .. L : ~Fits(run[n])}
<1>5. ASSUME T # {} PROVE FALSE
  <2>1. T \in SUBSET Nat
    BY <1>1
  <2>2. PICK m \in T : \A y \in T : m <= y
    BY <1>5, <2>1, LeastNat
  <2>3. m \in 0 .. L /\ ~Fits(run[m])
    BY <2>2
  <2>4. m # 0
    BY <1>1, <1>2, <1>4, <2>3
  <2>5. m - 1 \in 0 .. L /\ ~(m <= m - 1)
    BY <1>1, <2>3, <2>4
  <2>6. Fits(run[m - 1])
    BY <2>2, <2>5
  <2>7. run[m] = Grant(run[m - 1])
    BY <1>4, <2>3, <2>4
  <2> QED BY <2>3, <2>6, <2>7, GrantFits
<1>6. L \in 0 .. L
  BY <1>1
<1>7. Fits(run[L])
  BY <1>5, <1>6
<1> QED BY <1>4, <1>7

-------------------------------------------------------------------------------
(* The steps of the scheduler, as what they do to the tickets.              *)

LEMMA WaitsHas == \A t : Waits(t) <=> Has(waiting, t)
  BY DEF Waits, Has

\* The tickets of the queue and the permits after a step of the scheduler.
Tidy == SchedulerTypeOK' /\ QueuePart'

LEMMA EnqueueTidy ==
  ASSUME ServiceTypes, QueuePart, NEW t \in Tickets, Enqueue(t)
  PROVE  Tidy /\ active' = active /\ t \notin active /\ \A u : Waits(u)' <=> Waits(u) \/ u = t
<1>1. waiting \in Seq(Tickets) /\ Once(waiting) /\ ~Has(waiting, t) /\ t \notin active
  BY DEF ServiceTypes, SchedulerTypeOK, QueuePart, Once, Enqueue, Waits, Has
<1>2. waiting' = Append(waiting, t) /\ UNCHANGED <<limit, active, age>> /\ scheduled' \in BOOLEAN
  BY DEF Enqueue, Schedule
<1>3. /\ waiting' \in Seq(Tickets) /\ Once(waiting')
      /\ \A u : Has(waiting', u) <=> Has(waiting, u) \/ u = t
  BY <1>1, <1>2, AppendFacts
<1>4. SchedulerTypeOK'
  BY <1>2, <1>3 DEF ServiceTypes, SchedulerTypeOK
<1>5. \A u : Has(waiting, u) => u \notin active
  BY DEF QueuePart, Has
<1>6. QueuePart'
  <2>1. \A u : Has(waiting', u) => u \notin active'
    BY <1>1, <1>2, <1>3, <1>5
  <2> QED BY <1>3, <2>1 DEF QueuePart, Once, Has
<1>7. \A u : Waits(u)' <=> Waits(u) \/ u = t
  BY <1>3 DEF Waits, Has
<1> QED BY <1>1, <1>2, <1>4, <1>6, <1>7 DEF Tidy

LEMMA CancelTidy ==
  ASSUME ServiceTypes, QueuePart, NEW t \in Tickets, Cancel(t)
  PROVE  Tidy /\ active' = active \ {t} /\ \A u : Waits(u)' <=> Waits(u) /\ u # t
<1>1. waiting \in Seq(Tickets) /\ Once(waiting)
  BY DEF ServiceTypes, SchedulerTypeOK, QueuePart, Once
<1>2. /\ waiting' = RemoveFirst(waiting, t) /\ active' = active \ {t} /\ limit' = limit
      /\ scheduled' \in BOOLEAN /\ age' = [age EXCEPT ![t] = 0]
  BY DEF Cancel, Schedule
<1>3. /\ waiting' \in Seq(Tickets) /\ Once(waiting')
      /\ \A u : Has(waiting', u) <=> Has(waiting, u) /\ u # t
  BY <1>1, <1>2, RemoveFirstFacts
<1>4. SchedulerTypeOK'
  BY <1>2, <1>3 DEF ServiceTypes, SchedulerTypeOK
<1>5. \A u : Has(waiting, u) => u \notin active
  BY DEF QueuePart, Has
<1>6. QueuePart'
  <2>1. \A u : Has(waiting', u) => u \notin active'
    BY <1>2, <1>3, <1>5
  <2> QED BY <1>3, <2>1 DEF QueuePart, Once, Has
<1>7. \A u : Waits(u)' <=> Waits(u) /\ u # t
  BY <1>3 DEF Waits, Has
<1> QED BY <1>2, <1>4, <1>6, <1>7 DEF Tidy

LEMMA ReleaseTidy ==
  ASSUME ServiceTypes, QueuePart, NEW t \in Tickets, Release(t)
  PROVE  Tidy /\ active' = active \ {t} /\ waiting' = waiting
<1>1. /\ active' = active \ {t} /\ UNCHANGED <<limit, waiting, age>>
  BY DEF Release
<1>2. scheduled' \in BOOLEAN
  BY DEF Release, Schedule, ServiceTypes, SchedulerTypeOK
<1> QED BY <1>1, <1>2 DEF Tidy, ServiceTypes, SchedulerTypeOK, QueuePart

LEMMA SameTidy ==
  ASSUME ServiceTypes, QueuePart, UNCHANGED schedulerVars
  PROVE  Tidy /\ active' = active /\ waiting' = waiting
  BY DEF Tidy, ServiceTypes, SchedulerTypeOK, QueuePart, schedulerVars

LEMMA ForgetTidy ==
  ASSUME ServiceTypes, Forget
  PROVE  Tidy /\ active' = {} /\ waiting' = <<>>
<1>1. /\ waiting' = <<>> /\ active' = {} /\ scheduled' = FALSE /\ limit' = limit
      /\ age' = [t \in Tickets |-> 0]
  BY DEF Forget
<1>2. waiting' \in Seq(Tickets) /\ DOMAIN waiting' = {}
  BY <1>1
<1>3. age' \in [Tickets -> 0 .. 2]
  BY <1>1
<1>4. SchedulerTypeOK'
  BY <1>1, <1>2, <1>3 DEF ServiceTypes, SchedulerTypeOK
<1>5. QueuePart'
  BY <1>2 DEF QueuePart
<1> QED BY <1>1, <1>4, <1>5 DEF Tidy

LEMMA DrainTidy ==
  ASSUME ServiceTypes, QueuePart, Drain
  PROVE  /\ Tidy /\ active \subseteq active'
         /\ \A t \in active' : t \in active \/ Waits(t)
         /\ \A t : Waits(t)' => Waits(t)
<1>1. Fits(Drained)
  BY DrainedFits
<1>2. /\ scheduled' = FALSE /\ waiting' = Drained.queue /\ active' = Drained.places /\ limit' = limit
      /\ age' = [t \in Tickets |-> IF t \in active' THEN 0 ELSE age[t]]
  BY DEF Drain
<1>3. /\ waiting' \in Seq(Tickets) /\ active' \subseteq Tickets /\ Once(waiting')
      /\ active \subseteq active'
      /\ \A t \in active' : t \in active \/ Has(waiting, t)
      /\ \A t : Has(waiting', t) => Has(waiting, t) /\ t \notin active'
  BY <1>1, <1>2 DEF Fits
<1>4. age' \in [Tickets -> 0 .. 2]
  BY <1>2 DEF ServiceTypes, SchedulerTypeOK
<1>5. SchedulerTypeOK'
  BY <1>2, <1>3, <1>4 DEF ServiceTypes, SchedulerTypeOK
<1>6. QueuePart'
  BY <1>3 DEF QueuePart, Once, Has
<1>7. \A t : Waits(t)' => Waits(t)
  BY <1>3 DEF Waits, Has
<1> QED BY <1>3, <1>5, <1>6, <1>7, WaitsHas DEF Tidy

\* The rest of the scheduler moves no ticket.
LEMMA QuietTidy ==
  ASSUME ServiceTypes, QueuePart, (\E t \in Tickets : Wait(t)) \/ (\E n \in Limits : Configure(n))
  PROVE  Tidy /\ active' = active /\ waiting' = waiting
<1>1. ASSUME NEW t \in Tickets, Wait(t) PROVE Tidy /\ active' = active /\ waiting' = waiting
  <2>1. age[t] \in 0 .. 2 /\ Class[t] \in 0 .. 2 /\ age[t] < Class[t]
    BY <1>1, SchedulerAssumption DEF Wait, ServiceTypes, SchedulerTypeOK
  <2>2. age[t] + 1 \in 0 .. 2
    BY <2>1
  <2>3. age' = [age EXCEPT ![t] = age[t] + 1] /\ UNCHANGED <<limit, waiting, active, scheduled>>
    BY <1>1 DEF Wait
  <2>4. age' \in [Tickets -> 0 .. 2]
    BY <2>2, <2>3 DEF ServiceTypes, SchedulerTypeOK
  <2> QED BY <2>3, <2>4 DEF Tidy, ServiceTypes, SchedulerTypeOK, QueuePart
<1>2. ASSUME NEW n \in Limits, Configure(n) PROVE Tidy /\ active' = active /\ waiting' = waiting
  <2>1. UNCHANGED <<waiting, active, age>> /\ limit' \in Limits /\ scheduled' \in BOOLEAN
    BY <1>2 DEF Configure, Schedule
  <2> QED BY <2>1 DEF Tidy, ServiceTypes, SchedulerTypeOK, QueuePart
<1> QED BY <1>1, <1>2

-------------------------------------------------------------------------------
(* The steps of the lifecycle, as what they do to the root.                 *)

LEMMA RootAdvances ==
  ASSUME LifecycleInv, Claim \/ Heartbeat \/ Finish \/ RootFails \/ HeartbeatFails
  PROVE  /\ root.phase # "none"
         /\ root'.phase = "none" => root'.step = "over"
         /\ root'.phase # "none" => /\ root'.phase # "claiming"
                                    /\ root'.step = root.step \/ (root.phase = "claiming" /\ root'.step = "ready")
<1>1. root \in Roots
  BY DEF LifecycleInv, RootInv
<1>2. NoRoot.phase = "none" /\ NoRoot.step = "over"
  BY DEF NoRoot
<1>3. CASE root' = NoRoot
  BY <1>2, <1>3 DEF Claim, Heartbeat, Finish, RootFails, HeartbeatFails
<1>4. CASE Claim /\ root' # NoRoot
  <2>1. root' = [NoRoot EXCEPT !.phase = "watching", !.attempt = op.generation, !.step = "ready"]
        /\ root.phase = "claiming"
    BY <1>4 DEF Claim
  <2>2. root'.phase = "watching" /\ root'.step = "ready"
    BY <2>1 DEF NoRoot
  <2> QED BY <2>1, <2>2
<1>5. CASE Heartbeat
  <2>1. root'.phase = "settling" /\ root'.step = root.step /\ root.phase = "watching"
    BY <1>1, <1>5 DEF Heartbeat, Roots
  <2> QED BY <2>1
<1>6. CASE HeartbeatFails
  <2>1. root'.phase = "settling" /\ root'.step = root.step /\ root.phase = "watching"
    BY <1>1, <1>6 DEF HeartbeatFails, Roots
  <2> QED BY <2>1
<1> QED BY <1>3, <1>4, <1>5, <1>6 DEF Finish, RootFails

LEMMA InvocationAdvances ==
  ASSUME LifecycleInv, Invocation
  PROVE  /\ root.phase \in {"watching", "settling"} /\ root'.phase = root.phase
         /\ \/ root'.step = root.step
            \/ root.step = "ready" /\ root'.step \in {"calling", "over"}
            \/ root.step = "calling" /\ root'.step = "answered"
            \/ root.step = "answered" /\ root'.step = "over"
<1>1. root \in Roots
  BY DEF LifecycleInv, RootInv
<1>2. CASE NoCall
  BY <1>1, <1>2 DEF NoCall, Invoking, Roots
<1>3. CASE CallStart
  BY <1>1, <1>3 DEF CallStart, Invoking, Roots
<1>4. CASE Message
  BY <1>1, <1>4 DEF Message, Raise, Invoking, Roots
<1>5. CASE CallResult
  BY <1>1, <1>5 DEF CallResult, Invoking, Roots
<1>6. ASSUME NEW s \in {"completed", "error", "cancelled"}, CallFinal(s)
      PROVE  /\ root.phase \in {"watching", "settling"} /\ root'.phase = root.phase
             /\ root.step = "calling" /\ root'.step = "answered"
  BY <1>1, <1>6 DEF CallFinal, Invoking, Roots
<1> QED BY <1>2, <1>3, <1>4, <1>5, <1>6 DEF Invocation

LEMMA OutsideKeepsRoot ==
  ASSUME Control \/ Reading \/ LeaseExpires \/ Recover \/ ExpireQueued
  PROVE  root' = root
<1>1. CASE Control
  BY <1>1 DEF Control, Command, StopCall, CallerCancelled, DeadlinePasses
<1>2. CASE Reading
  BY <1>2 DEF Reading, Look, ReadRow, ReadPage, Check
<1>3. CASE LeaseExpires \/ Recover \/ ExpireQueued
  BY <1>3 DEF LeaseExpires, Recover, ExpireQueued
<1> QED BY <1>1, <1>2, <1>3

-------------------------------------------------------------------------------
(* The steps of the service.                                                *)

\* What a step leaves true of the places when it leaves the queue tidy.
Accounted ==
  /\ admission' \in BOOLEAN /\ crashes' \in 0 .. MaxCrashes
  /\ native' \in [Natives -> {"idle", "acquiring", "calling"}]
  /\ HolderPart' /\ PlacesAccounted'

LEMMA Places ==
  ASSUME Tidy, Accounted
  PROVE  PlaceInv'
  BY DEF Tidy, Accounted, PlaceInv, ServiceTypes

LEMMA ServiceFacts ==
  ASSUME PlaceInv
  PROVE  /\ ServiceTypes /\ QueuePart /\ HolderPart /\ PlacesAccounted
         /\ Inf \in Tickets /\ Natives \subseteq Tickets /\ Inf \notin Natives
         /\ admission \in BOOLEAN /\ crashes \in 0 .. MaxCrashes /\ MaxCrashes \in Nat
         /\ native \in [Natives -> {"idle", "acquiring", "calling"}]
         /\ \A t \in Tickets : t # Inf => t \in Natives
         /\ \A t : Waits(t) => t \notin active
  BY ServiceAssumption DEF PlaceInv, ServiceTypes, Natives, Waits, QueuePart

LEMMA MoreCrashes ==
  ASSUME PlaceInv, crashes < MaxCrashes, crashes' = crashes + 1
  PROVE  crashes' \in 0 .. MaxCrashes
<1>1. crashes \in 0 .. MaxCrashes /\ MaxCrashes \in Nat
  BY ServiceFacts
<1> QED BY <1>1

LEMMA AdmitPlaces ==
  ASSUME PlaceInv, Admit
  PROVE  PlaceInv'
<1>1. Tidy /\ active' = active /\ Inf \notin active /\ \A u : Waits(u)' <=> Waits(u) \/ u = Inf
  BY ServiceFacts, EnqueueTidy DEF Admit
<1>2. root.phase = "none" /\ admission' = TRUE /\ root' = root /\ UNCHANGED <<native, crashes>>
  BY DEF Admit, vars
<1>3. HolderPart'
  BY <1>1, <1>2, ServiceFacts DEF HolderPart
<1>4. PlacesAccounted'
  BY <1>1, <1>2, ServiceFacts DEF PlacesAccounted
<1> QED BY <1>1, <1>2, <1>3, <1>4, ServiceFacts, Places DEF Accounted

LEMMA WithdrawPlaces ==
  ASSUME PlaceInv, Withdraw \/ StopLoop
  PROVE  PlaceInv'
<1>1. Tidy /\ active' = active \ {Inf} /\ \A u : Waits(u)' <=> Waits(u) /\ u # Inf
  BY ServiceFacts, CancelTidy DEF Withdraw, StopLoop
<1>2. /\ admission /\ admission' = FALSE /\ root' = root /\ native' = native
  BY DEF Withdraw, StopLoop, vars
<1>3. crashes' \in 0 .. MaxCrashes
  BY ServiceFacts, MoreCrashes DEF Withdraw, StopLoop
<1>4. root.phase = "none" /\ root.step = "over"
  BY <1>2, ServiceFacts DEF HolderPart
<1>5. HolderPart'
  BY <1>1, <1>2, <1>4, ServiceFacts DEF HolderPart
<1>6. PlacesAccounted'
  BY <1>1, <1>2, <1>4, ServiceFacts DEF PlacesAccounted
<1> QED BY <1>1, <1>2, <1>3, <1>5, <1>6, ServiceFacts, Places DEF Accounted

LEMMA LaunchPlaces ==
  ASSUME PlaceInv, Launch
  PROVE  PlaceInv'
<1>1. Tidy /\ active' = active /\ waiting' = waiting
  BY ServiceFacts, SameTidy DEF Launch
<1>2. Inf \in active /\ admission' = FALSE /\ UNCHANGED <<native, crashes>>
      /\ root' = [NoRoot EXCEPT !.phase = "claiming"]
  BY DEF Launch, StartRoot
<1>3. root'.phase = "claiming" /\ root'.step = "over"
  BY <1>2 DEF NoRoot
<1>4. \A t : Waits(t)' <=> Waits(t)
  BY <1>1 DEF Waits
<1>5. ~Waits(Inf)
  BY <1>2, ServiceFacts
<1>6. HolderPart'
  BY <1>1, <1>2, <1>3, <1>4, <1>5, ServiceFacts DEF HolderPart
<1>7. PlacesAccounted'
  BY <1>1, <1>2, <1>3, ServiceFacts DEF PlacesAccounted
<1> QED BY <1>1, <1>2, <1>6, <1>7, ServiceFacts, Places DEF Accounted

\* The root ends and gives its permit back, or goes on and keeps it.
LEMMA RootPlaces ==
  ASSUME PlaceInv, LifecycleInv, RootStep \/ RootFault
  PROVE  PlaceInv'
<1>1. /\ Claim \/ Heartbeat \/ Finish \/ RootFails \/ HeartbeatFails
      /\ ReleaseWhen(root'.phase = "none") /\ UNCHANGED ownVars
  BY DEF RootStep, RootFault
<1>2. /\ root.phase # "none"
      /\ root'.phase = "none" => root'.step = "over"
      /\ root'.phase # "none" => /\ root'.phase # "claiming"
                                 /\ root'.step = root.step \/ (root.phase = "claiming" /\ root'.step = "ready")
  BY <1>1, RootAdvances
<1>3. UNCHANGED <<admission, native, crashes>> /\ ~admission
  BY <1>1, <1>2, ServiceFacts DEF ownVars, HolderPart
<1>4. CASE root'.phase = "none"
  <2>1. Release(Inf)
    BY <1>1, <1>4 DEF ReleaseWhen
  <2>2. Tidy /\ active' = active \ {Inf} /\ waiting' = waiting
    BY <2>1, ServiceFacts, ReleaseTidy
  <2>3. \A t : Waits(t)' <=> Waits(t)
    BY <2>2 DEF Waits
  <2>4. HolderPart'
    BY <1>2, <1>3, <1>4, <2>2, <2>3, ServiceFacts DEF HolderPart
  <2>5. PlacesAccounted'
    BY <1>2, <1>3, <1>4, <2>2, ServiceFacts DEF PlacesAccounted
  <2> QED BY <1>3, <2>2, <2>4, <2>5, ServiceFacts, Places DEF Accounted
<1>5. CASE root'.phase # "none"
  <2>1. UNCHANGED schedulerVars
    BY <1>1, <1>5 DEF ReleaseWhen
  <2>2. Tidy /\ active' = active /\ waiting' = waiting
    BY <2>1, ServiceFacts, SameTidy
  <2>3. \A t : Waits(t)' <=> Waits(t)
    BY <2>2 DEF Waits
  <2>4. HolderPart'
    BY <1>2, <1>3, <1>5, <2>2, <2>3, ServiceFacts DEF HolderPart
  <2>5. PlacesAccounted'
    BY <1>2, <1>3, <1>5, <2>2, ServiceFacts DEF PlacesAccounted
  <2> QED BY <1>3, <2>2, <2>4, <2>5, ServiceFacts, Places DEF Accounted
<1> QED BY <1>4, <1>5

LEMMA CallPlaces ==
  ASSUME PlaceInv, LifecycleInv, CallStep
  PROVE  PlaceInv'
<1>1. /\ Invocation /\ ReleaseWhen(root.step = "calling" /\ root'.step = "answered")
      /\ UNCHANGED <<admission, native, crashes>>
  BY DEF CallStep, ownVars
<1>2. /\ root.phase \in {"watching", "settling"} /\ root'.phase = root.phase
      /\ \/ root'.step = root.step
         \/ root.step = "ready" /\ root'.step \in {"calling", "over"}
         \/ root.step = "calling" /\ root'.step = "answered"
         \/ root.step = "answered" /\ root'.step = "over"
  BY <1>1, InvocationAdvances
<1>3. ~admission
  BY <1>2, ServiceFacts DEF HolderPart
<1>4. CASE root.step = "calling" /\ root'.step = "answered"
  <2>1. Release(Inf)
    BY <1>1, <1>4 DEF ReleaseWhen
  <2>2. Tidy /\ active' = active \ {Inf} /\ waiting' = waiting
    BY <2>1, ServiceFacts, ReleaseTidy
  <2>3. \A t : Waits(t)' <=> Waits(t)
    BY <2>2 DEF Waits
  <2>4. HolderPart'
    BY <1>1, <1>2, <1>3, <1>4, <2>2, <2>3, ServiceFacts DEF HolderPart
  <2>5. PlacesAccounted'
    BY <1>1, <1>2, <1>3, <1>4, <2>2, ServiceFacts DEF PlacesAccounted
  <2> QED BY <1>1, <2>2, <2>4, <2>5, ServiceFacts, Places DEF Accounted
<1>5. CASE ~(root.step = "calling" /\ root'.step = "answered")
  <2>1. UNCHANGED schedulerVars
    BY <1>1, <1>5 DEF ReleaseWhen
  <2>2. Tidy /\ active' = active /\ waiting' = waiting
    BY <2>1, ServiceFacts, SameTidy
  <2>3. \A t : Waits(t)' <=> Waits(t)
    BY <2>2 DEF Waits
  <2>4. HolderPart'
    BY <1>1, <1>2, <1>3, <1>5, <2>2, <2>3, ServiceFacts DEF HolderPart
  <2>5. PlacesAccounted'
    BY <1>1, <1>2, <1>3, <1>5, <2>2, ServiceFacts DEF PlacesAccounted, HolderPart
  <2> QED BY <1>1, <2>2, <2>4, <2>5, ServiceFacts, Places DEF Accounted
<1> QED BY <1>4, <1>5

LEMMA CrashPlaces ==
  ASSUME PlaceInv, ProcessCrash
  PROVE  PlaceInv'
<1>1. Tidy /\ active' = {} /\ waiting' = <<>>
  BY ServiceFacts, ForgetTidy DEF ProcessCrash
<1>2. admission' = FALSE /\ native' = [n \in Natives |-> "idle"]
  BY DEF ProcessCrash
<1>3. crashes' \in 0 .. MaxCrashes
  BY MoreCrashes DEF ProcessCrash
<1>4. root'.phase = "none" /\ root'.step = "over"
  <2>1. CASE Crash
    BY <2>1 DEF Crash, NoRoot
  <2>2. CASE root.phase = "none" /\ UNCHANGED vars
    BY <2>2, ServiceFacts DEF vars, HolderPart
  <2> QED BY <2>1, <2>2 DEF ProcessCrash
<1>5. \A t : ~Waits(t)'
  BY <1>1 DEF Waits
<1>6. native' \in [Natives -> {"idle", "acquiring", "calling"}]
      /\ \A n \in Natives : native'[n] = "idle"
  BY <1>2
<1>7. HolderPart'
  BY <1>1, <1>2, <1>4, <1>5 DEF HolderPart
<1>8. PlacesAccounted'
  BY <1>1, <1>4, <1>6 DEF PlacesAccounted
<1> QED BY <1>1, <1>2, <1>3, <1>6, <1>7, <1>8, Places DEF Accounted

LEMMA ShutdownPlaces ==
  ASSUME PlaceInv, LifecycleInv, OrderlyShutdown
  PROVE  PlaceInv'
<1>1. Tidy /\ active' = active /\ waiting' = waiting
  BY ServiceFacts, SameTidy DEF OrderlyShutdown
<1>2. UNCHANGED <<admission, native>> /\ crashes' \in 0 .. MaxCrashes
  BY MoreCrashes DEF OrderlyShutdown
<1>3. root'.phase = "settling" /\ root'.step = root.step /\ root.phase = "watching"
  <2>1. root \in Roots
    BY DEF LifecycleInv, RootInv
  <2> QED BY <2>1 DEF OrderlyShutdown, Shutdown, Roots
<1>4. \A t : Waits(t)' <=> Waits(t)
  BY <1>1 DEF Waits
<1>5. HolderPart'
  BY <1>1, <1>2, <1>3, <1>4, ServiceFacts DEF HolderPart
<1>6. PlacesAccounted'
  BY <1>1, <1>2, <1>3, ServiceFacts DEF PlacesAccounted
<1> QED BY <1>1, <1>2, <1>5, <1>6, ServiceFacts, Places DEF Accounted

\* A step that neither the root nor the holders of tickets take part in.
LEMMA QuietPlaces ==
  ASSUME PlaceInv, Tidy, active' = active, waiting' = waiting, root' = root,
         UNCHANGED <<admission, native, crashes>>
  PROVE  PlaceInv'
<1>1. \A t : Waits(t)' <=> Waits(t)
  BY DEF Waits
<1>2. HolderPart'
  BY <1>1, ServiceFacts DEF HolderPart
<1>3. PlacesAccounted'
  BY ServiceFacts DEF PlacesAccounted
<1> QED BY <1>2, <1>3, ServiceFacts, Places DEF Accounted

LEMMA SchedulerPlaces ==
  ASSUME PlaceInv, SchedulerStep
  PROVE  PlaceInv'
<1>1. root' = root /\ UNCHANGED <<admission, native, crashes>>
  BY DEF SchedulerStep, vars, ownVars
<1>2. CASE Drain
  <2>1. /\ Tidy /\ active \subseteq active'
        /\ \A t \in active' : t \in active \/ Waits(t)
        /\ \A t : Waits(t)' => Waits(t)
    BY <1>2, ServiceFacts, DrainTidy
  <2>2. HolderPart'
    BY <1>1, <2>1, ServiceFacts DEF HolderPart
  <2>3. PlacesAccounted'
    BY <1>1, <2>1, ServiceFacts DEF PlacesAccounted, HolderPart
  <2> QED BY <1>1, <2>1, <2>2, <2>3, ServiceFacts, Places DEF Accounted
<1>3. CASE (\E t \in Tickets : Wait(t)) \/ (\E n \in Limits : Configure(n))
  BY <1>1, <1>3, ServiceFacts, QuietTidy, QuietPlaces
<1> QED BY <1>2, <1>3 DEF SchedulerStep

LEMMA NativePlaces ==
  ASSUME PlaceInv, NEW n \in Natives,
         NativeAcquire(n) \/ NativeStart(n) \/ NativeCancel(n) \/ NativeEnd(n)
  PROVE  PlaceInv'
<1>0. n \in Tickets /\ n # Inf
  BY ServiceFacts
<1>1. root' = root /\ UNCHANGED <<admission, crashes>>
  BY DEF NativeAcquire, NativeStart, NativeCancel, NativeEnd, vars
<1>2. CASE NativeAcquire(n)
  <2>1. Tidy /\ active' = active /\ n \notin active /\ \A u : Waits(u)' <=> Waits(u) \/ u = n
    BY <1>0, <1>2, ServiceFacts, EnqueueTidy DEF NativeAcquire
  <2>2. /\ native' \in [Natives -> {"idle", "acquiring", "calling"}] /\ native'[n] = "acquiring"
        /\ \A m \in Natives : m # n => native'[m] = native[m]
    BY <1>2, ServiceFacts DEF NativeAcquire
  <2>3. HolderPart'
    BY <1>0, <1>1, <2>1, <2>2, ServiceFacts DEF HolderPart
  <2>4. PlacesAccounted'
    BY <1>0, <1>1, <2>1, <2>2, ServiceFacts DEF PlacesAccounted
  <2> QED BY <1>1, <2>1, <2>2, <2>3, <2>4, ServiceFacts, Places DEF Accounted
<1>3. CASE NativeStart(n)
  <2>1. Tidy /\ active' = active /\ waiting' = waiting /\ n \in active
    BY <1>3, ServiceFacts, SameTidy DEF NativeStart
  <2>2. /\ native' \in [Natives -> {"idle", "acquiring", "calling"}] /\ native'[n] = "calling"
        /\ \A m \in Natives : m # n => native'[m] = native[m]
    BY <1>3, ServiceFacts DEF NativeStart
  <2>3. ~Waits(n) /\ \A t : Waits(t)' <=> Waits(t)
    BY <2>1, ServiceFacts DEF Waits
  <2>4. HolderPart'
    BY <1>0, <1>1, <2>1, <2>2, <2>3, ServiceFacts DEF HolderPart
  <2>5. PlacesAccounted'
    BY <1>0, <1>1, <2>1, <2>2, ServiceFacts DEF PlacesAccounted
  <2> QED BY <1>1, <2>1, <2>2, <2>4, <2>5, ServiceFacts, Places DEF Accounted
<1>4. CASE NativeCancel(n)
  <2>1. Tidy /\ active' = active \ {n} /\ \A u : Waits(u)' <=> Waits(u) /\ u # n
    BY <1>0, <1>4, ServiceFacts, CancelTidy DEF NativeCancel
  <2>2. /\ native' \in [Natives -> {"idle", "acquiring", "calling"}] /\ native'[n] = "idle"
        /\ \A m \in Natives : m # n => native'[m] = native[m]
    BY <1>4, ServiceFacts DEF NativeCancel
  <2>3. HolderPart'
    BY <1>0, <1>1, <2>1, <2>2, ServiceFacts DEF HolderPart
  <2>4. PlacesAccounted'
    BY <1>0, <1>1, <2>1, <2>2, ServiceFacts DEF PlacesAccounted
  <2> QED BY <1>1, <2>1, <2>2, <2>3, <2>4, ServiceFacts, Places DEF Accounted
<1>5. CASE NativeEnd(n)
  <2>1. Tidy /\ active' = active \ {n} /\ waiting' = waiting /\ native[n] = "calling"
    BY <1>0, <1>5, ServiceFacts, ReleaseTidy DEF NativeEnd
  <2>2. /\ native' \in [Natives -> {"idle", "acquiring", "calling"}] /\ native'[n] = "idle"
        /\ \A m \in Natives : m # n => native'[m] = native[m]
    BY <1>5, ServiceFacts DEF NativeEnd
  <2>3. ~Waits(n) /\ \A t : Waits(t)' <=> Waits(t)
    <3>1. n \in active
      BY <2>1, ServiceFacts DEF PlacesAccounted
    <3> QED BY <2>1, <3>1, ServiceFacts DEF Waits
  <2>4. HolderPart'
    BY <1>0, <1>1, <2>1, <2>2, <2>3, ServiceFacts DEF HolderPart
  <2>5. PlacesAccounted'
    BY <1>0, <1>1, <2>1, <2>2, ServiceFacts DEF PlacesAccounted
  <2> QED BY <1>1, <2>1, <2>2, <2>4, <2>5, ServiceFacts, Places DEF Accounted
<1> QED BY <1>2, <1>3, <1>4, <1>5

LEMMA PlaceInit ==
  ASSUME ServiceInit
  PROVE  PlaceInv
<1>1. /\ waiting = <<>> /\ active = {} /\ limit \in Limits /\ scheduled = FALSE
      /\ age = [t \in Tickets |-> 0] /\ root = NoRoot
  BY DEF ServiceInit, SchedulerInit, Init
<1>2. admission = FALSE /\ native = [n \in Natives |-> "idle"] /\ crashes = 0
  BY DEF ServiceInit
<1>3. waiting \in Seq(Tickets) /\ DOMAIN waiting = {} /\ age \in [Tickets -> 0 .. 2]
  BY <1>1
<1>4. native \in [Natives -> {"idle", "acquiring", "calling"}] /\ \A n \in Natives : native[n] = "idle"
  BY <1>2
<1>5. crashes \in 0 .. MaxCrashes
  BY <1>2, ServiceAssumption
<1>6. ServiceTypes
  BY <1>1, <1>2, <1>3, <1>4, <1>5 DEF ServiceTypes, SchedulerTypeOK
<1>7. root.phase = "none" /\ root.step = "over"
  BY <1>1 DEF NoRoot
<1>8. QueuePart /\ HolderPart /\ PlacesAccounted
  BY <1>1, <1>2, <1>3, <1>4, <1>7 DEF QueuePart, HolderPart, Waits, PlacesAccounted
<1> QED BY <1>6, <1>8 DEF PlaceInv

LEMMA PlaceStep ==
  ASSUME PlaceInv, LifecycleInv, [ServiceNext]_serviceVars
  PROVE  PlaceInv'
<1>1. CASE Admit \/ Withdraw \/ Launch \/ StopLoop
  BY <1>1, AdmitPlaces, WithdrawPlaces, LaunchPlaces
<1>2. CASE RootStep \/ RootFault
  BY <1>2, RootPlaces
<1>3. CASE CallStep
  BY <1>3, CallPlaces
<1>4. CASE ProcessCrash \/ OrderlyShutdown
  BY <1>4, CrashPlaces, ShutdownPlaces
<1>5. CASE Outside
  <2>1. root' = root /\ UNCHANGED <<schedulerVars, admission, native, crashes>>
    BY <1>5, OutsideKeepsRoot DEF Outside, ownVars
  <2> QED BY <2>1, ServiceFacts, SameTidy, QuietPlaces
<1>6. ASSUME NEW n \in Natives, NativeAcquire(n) \/ NativeStart(n) \/ NativeCancel(n) \/ NativeEnd(n)
      PROVE  PlaceInv'
  BY <1>6, NativePlaces
<1>7. CASE SchedulerStep
  BY <1>7, SchedulerPlaces
<1>8. CASE UNCHANGED serviceVars
  <2>1. root' = root /\ UNCHANGED <<schedulerVars, admission, native, crashes>>
    BY <1>8 DEF serviceVars, vars
  <2> QED BY <2>1, ServiceFacts, SameTidy, QuietPlaces
<1> QED BY <1>1, <1>2, <1>3, <1>4, <1>5, <1>6, <1>7, <1>8 DEF ServiceNext

\* No permit of the provider's queue is lost and no call runs without one:
\* enqueue, _drain, cancel and release keep the tickets and their holders
\* together through every grant, cancellation, change of the limit and crash.
THEOREM NoPlaceIsLost == ServiceSpec => []PlacesAccounted
<1>1. ServiceInit => PlaceInv
  BY PlaceInit
<1>2. PlaceInv /\ LifecycleInv /\ [ServiceNext]_serviceVars => PlaceInv'
  BY PlaceStep
<1>3. ServiceSpec => []LifecycleInv
  BY LifecycleInvariant, ServiceRunsLifecycle, PTL
<1>4. PlaceInv => PlacesAccounted
  BY DEF PlaceInv
<1> QED BY <1>1, <1>2, <1>3, <1>4, PTL DEF ServiceSpec
===============================================================================

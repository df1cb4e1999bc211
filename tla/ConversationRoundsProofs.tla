---------------------- MODULE ConversationRoundsProofs ----------------------
(***************************************************************************)
(* Proofs about ConversationRounds: every state is well typed, a room never *)
(* has two FROZEN or two processed rounds, and a round with effects behind  *)
(* it is claimed again only with a checkpoint that knows them.              *)
(*                                                                          *)
(* A checkpoint is written by a running worker that owns the round, so the  *)
(* last argument needs that no worker of an earlier attempt owns a round    *)
(* that was claimed again: Tokens says so.  Every step but a claim changes  *)
(* a row in a Harmless way, and harmless changes preserve Tokens.           *)
(***************************************************************************)
EXTENDS ConversationRounds, TLAPS

\* The bounds are numbers.
LEMMA Bounds == MaxRounds \in Nat /\ MaxAttempts \in Nat /\ Notify \in Nat
BY RoundsAssumption DEF RoundsAssumption, Notify

\* The initial row is a row.
LEMMA AbsentType == Absent \in Round
<1>1. 0 \in 0 .. Notify /\ 0 \in 0 .. MaxAttempts /\ 0 \in 0 .. MaxRounds
  BY Bounds
<1> QED
  BY <1>1 DEF Absent, Round, Statuses, Deliveries

\* Clearing the lease keeps a row a row, and its status.
LEMMA ClearLeaseType ==
  ASSUME NEW q \in Round
  PROVE  /\ ClearLease(q) \in Round
         /\ ClearLease(q).status = q.status
         /\ ClearLease(q).delivery = q.delivery
<1>1. 0 \in 0 .. Notify
  BY Bounds
<1> QED
  BY <1>1 DEF ClearLease, Round

\* Consuming the inputs keeps a row a row, and its status.
LEMMA ConsumeType ==
  ASSUME NEW q \in Round
  PROVE  Consume(q) \in Round /\ Consume(q).status = q.status
<1>1. q.open \in SUBSET Messages /\ q.done \cup q.open \in SUBSET Messages /\ {} \in SUBSET Messages
  BY DEF Round
<1> QED
  BY <1>1 DEF Consume, Round

\* Closing a row keeps it a row, with the status it was given.
LEMMA CloseType ==
  ASSUME NEW q \in Round, NEW s \in Statuses
  PROVE  Close(q, s) \in Round /\ Close(q, s).status = s
<1> DEFINE k == [q EXCEPT !.status = s]
<1>1. k \in Round /\ k.status = s
  BY DEF Round
<1>2. Close(q, s) = ClearLease(k)
  BY DEF Close
<1> HIDE DEF k
<1> QED
  BY <1>1, <1>2, ClearLeaseType

\* The successor of a round is another round, and FROZEN.
LEMMA SuccessorType ==
  ASSUME NEW r \in Rounds
  PROVE  \/ Successor(r) = 0 /\ \A s \in Rounds \ {r} : round[s].status # "FROZEN"
         \/ Successor(r) \in Rounds \ {r} /\ Successor(r) # 0 /\ round[Successor(r)].status = "FROZEN"
<1>1. CASE OtherFrozen(r) = {}
  BY <1>1 DEF Successor, OtherFrozen
<1>2. CASE OtherFrozen(r) # {}
  <2>1. Successor(r) \in OtherFrozen(r)
    BY <1>2 DEF Successor
  <2>2. 0 \notin Rounds
    BY Bounds DEF Rounds
  <2> QED
    BY <2>1, <2>2 DEF OtherFrozen
<1> QED
  BY <1>1, <1>2

\* Merging keeps the table a table, and every status.
LEMMA MergeType ==
  ASSUME NEW f \in [Rounds -> Round], NEW source \in Rounds, NEW target \in Rounds,
         source # target
  PROVE  /\ Merge(f, source, target) \in [Rounds -> Round]
         /\ \A s \in Rounds : Merge(f, source, target)[s].status = f[s].status
<1> DEFINE a == [f[target] EXCEPT !.open = @ \cup f[source].open, !.done = {}]
           b == [f[source] EXCEPT !.resolvedBy = target]
<1>1. a \in Round /\ a.status = f[target].status
  <2>1. f[target].open \cup f[source].open \in SUBSET Messages /\ {} \in SUBSET Messages
    BY DEF Round
  <2> QED
    BY <2>1, ZenonT(30) DEF Round
<1>2. b \in Round /\ b.status = f[source].status
  <2>1. target \in 0 .. MaxRounds
    BY Bounds DEF Rounds
  <2> QED
    BY <2>1 DEF Round
<1>3. Merge(f, source, target) = [f EXCEPT ![target] = a, ![source] = b]
  BY DEF Merge, Round
<1> HIDE DEF a, b
<1> QED
  BY <1>1, <1>2, <1>3

-----------------------------------------------------------------------------
(* Tables of rounds with one FROZEN and one processed round at most          *)

Good(f) ==
  /\ f \in [Rounds -> Round]
  /\ \A r, s \in Rounds :
       (\/ f[r].status = "FROZEN" /\ f[s].status = "FROZEN"
        \/ f[r].status \in Processing /\ f[s].status \in Processing) => r = s

Quiet == Statuses \ ({"FROZEN"} \cup Processing)

\* Row q may replace row r of table f.
Fits(f, r, q) ==
  \/ q.status = f[r].status
  \/ q.status \in Quiet
  \/ q.status = "FROZEN" /\ \A s \in Rounds \ {r} : f[s].status # "FROZEN"
  \/ q.status \in Processing /\ f[r].status \in Processing
  \/ q.status \in Processing /\ \A s \in Rounds : f[s].status \notin Processing

\* Replacing a row by one that fits keeps a table good.
LEMMA PutGood ==
  ASSUME NEW f, Good(f), NEW r \in Rounds, NEW q \in Round, Fits(f, r, q)
  PROVE  Good([f EXCEPT ![r] = q])
<1>1. f \in [Rounds -> Round] /\ f[r] \in Round
  BY DEF Good
<1> DEFINE g == [f EXCEPT ![r] = q]
<1>2. g \in [Rounds -> Round] /\ g[r] = q /\ \A s \in Rounds \ {r} : g[s] = f[s]
  BY <1>1
<1> HIDE DEF g
<1>3. ASSUME NEW a \in Rounds, NEW b \in Rounds,
             \/ g[a].status = "FROZEN" /\ g[b].status = "FROZEN"
             \/ g[a].status \in Processing /\ g[b].status \in Processing
      PROVE  a = b
  BY <1>2, <1>3 DEF Good, Fits, Quiet, Processing
<1> QED
  BY <1>2, <1>3 DEF Good, g

\* A table with the statuses of a good one, or quiet ones, is good.
LEMMA QuietGood ==
  ASSUME NEW f, Good(f), NEW g \in [Rounds -> Round],
         \A s \in Rounds : g[s].status = f[s].status \/ g[s].status \in Quiet
  PROVE  Good(g)
BY DEF Good, Quiet, Processing

\* Merging keeps a table good.
LEMMA MergeGood ==
  ASSUME NEW f, Good(f), NEW source \in Rounds, NEW target \in Rounds, source # target
  PROVE  Good(Merge(f, source, target))
<1>1. f \in [Rounds -> Round]
  BY DEF Good
<1> QED
  BY <1>1, MergeType, QuietGood

\* The statuses that close or park a round are quiet.
LEMMA QuietStatuses ==
  /\ {"SUCCEEDED", "SUPERSEDED", "ERROR_RESOLVED", "CANCELLED", "PAUSED", "WAITING_APPROVAL",
      "WAKING", "ADMITTING", "ABSENT", "DELETED"} \subseteq Quiet
  /\ Quiet \subseteq Statuses
  /\ "FROZEN" \in Statuses /\ Processing \subseteq Statuses
  /\ Deliveries = {"PENDING", "SENDING", "DELIVERED", "SKIPPED", "UNKNOWN"}
BY DEF Quiet, Statuses, Active, Terminal, Processing, Deliveries

\* Putting a quiet row keeps the rounds good.
LEMMA PutQuiet ==
  ASSUME NEW f, Good(f), NEW r \in Rounds, NEW q \in Round, q.status \in Quiet
  PROVE  Good([f EXCEPT ![r] = q])
BY PutGood DEF Fits

\* Obeying a command keeps the rounds good.
LEMMA ControlledGood ==
  ASSUME Good(round), NEW r \in Rounds, NEW c
  PROVE  Good(Controlled(r, c))
<1> DEFINE q == [ClearLease(round[r]) EXCEPT !.control = "none"]
           s == Successor(r)
           a == [Consume(q) EXCEPT !.status = "CANCELLED", !.delivery = "SKIPPED"]
           b == [q EXCEPT !.status = "SUPERSEDED", !.checkpoint = "none"]
           d == [q EXCEPT !.status = "FROZEN", !.brief = TRUE]
           e == [q EXCEPT !.status = "PAUSED"]
<1>1. round[r] \in Round
  BY DEF Good
<1>2. q \in Round
  <2> DEFINE x == ClearLease(round[r])
  <2>1. x \in Round
    BY <1>1, ClearLeaseType
  <2> HIDE DEF x
  <2>2. [x EXCEPT !.control = "none"] \in Round
    BY <2>1 DEF Round
  <2> QED
    BY <2>2 DEF x
<1>3. \/ Controlled(r, c) = [round EXCEPT ![r] = a]
      \/ Controlled(r, c) = [round EXCEPT ![r] = e]
      \/ s # 0 /\ Controlled(r, c) = Merge([round EXCEPT ![r] = b], r, s)
      \/ s = 0 /\ Controlled(r, c) = [round EXCEPT ![r] = d]
  <2>1. CASE c = "stop"
    BY <2>1 DEF Controlled
  <2>2. CASE c = "pause" /\ s # 0
    BY <2>2 DEF Controlled
  <2>3. CASE c = "respond" /\ s = 0 /\ SafeToResume(q)
    BY <2>3 DEF Controlled
  <2>4. CASE ~(c = "stop") /\ ~(c = "pause" /\ s # 0) /\ ~(c = "respond" /\ s = 0 /\ SafeToResume(q))
    BY <2>4 DEF Controlled
  <2> QED
    BY <2>1, <2>2, <2>3, <2>4
<1> HIDE DEF q
<1>4. a \in Round /\ a.status \in Quiet
  <2> DEFINE x == Consume(q)
  <2>1. x \in Round
    BY <1>2, ConsumeType
  <2> HIDE DEF x
  <2>2. /\ [x EXCEPT !.status = "CANCELLED", !.delivery = "SKIPPED"] \in Round
        /\ [x EXCEPT !.status = "CANCELLED", !.delivery = "SKIPPED"].status = "CANCELLED"
    BY <2>1, QuietStatuses DEF Round
  <2> QED
    BY <2>2, QuietStatuses DEF x
<1>5. b \in Round /\ b.status \in Quiet /\ e \in Round /\ e.status \in Quiet
  BY <1>2, QuietStatuses DEF Round
<1>6. d \in Round /\ d.status = "FROZEN"
  BY <1>2, QuietStatuses DEF Round
<1> HIDE DEF a, b, d, e
<1>7. CASE \/ Controlled(r, c) = [round EXCEPT ![r] = a]
           \/ Controlled(r, c) = [round EXCEPT ![r] = e]
  BY <1>4, <1>5, <1>7, PutQuiet
<1>8. CASE s # 0 /\ Controlled(r, c) = Merge([round EXCEPT ![r] = b], r, s)
  <2>1. s \in Rounds /\ s # r
    BY <1>8, SuccessorType
  <2>2. Good([round EXCEPT ![r] = b])
    BY <1>5, PutQuiet
  <2> HIDE DEF s
  <2> QED
    BY <1>8, <2>1, <2>2, MergeGood
<1>9. CASE s = 0 /\ Controlled(r, c) = [round EXCEPT ![r] = d]
  <2>1. \A x \in Rounds \ {r} : round[x].status # "FROZEN"
    BY <1>9, SuccessorType
  <2>2. Fits(round, r, d)
    BY <2>1, <1>6 DEF Fits
  <2>3. Good([round EXCEPT ![r] = d])
    BY <2>2, <1>6, PutGood
  <2> QED
    BY <1>9, <2>3
<1> QED
  BY <1>3, <1>7, <1>8, <1>9

\* Interrupting a round keeps the rounds good.
LEMMA InterruptGood ==
  ASSUME Good(round), NEW r \in Rounds
  PROVE  Good(InterruptRows(r))
<1> DEFINE q == ClearLease(round[r])
           s == Successor(r)
           k == Consume(q)
           a == [k EXCEPT !.status = "SUCCEEDED", !.delivery = "DELIVERED", !.checkpoint = "none"]
           b == [k EXCEPT !.status = "ERROR_RESOLVED", !.delivery = "UNKNOWN"]
           d == [k EXCEPT !.status = "ERROR_RESOLVED", !.delivery = "PENDING"]
           e == [k EXCEPT !.status = "SUCCEEDED"]
           g == [q EXCEPT !.status = "SUPERSEDED"]
           h == [q EXCEPT !.status = "FROZEN"]
           sending == round[r].delivery = "SENDING"
           free == round[r].control = "none"
<1>1. round[r] \in Round
  BY DEF Good
<1>2. q \in Round
  BY <1>1, ClearLeaseType
<1>3. \/ InterruptRows(r) = Controlled(r, round[r].control)
      \/ InterruptRows(r) = [round EXCEPT ![r] = a]
      \/ InterruptRows(r) = [round EXCEPT ![r] = b]
      \/ InterruptRows(r) = [round EXCEPT ![r] = d]
      \/ InterruptRows(r) = [round EXCEPT ![r] = e]
      \/ s # 0 /\ InterruptRows(r) = Merge([round EXCEPT ![r] = g], r, s)
      \/ s = 0 /\ InterruptRows(r) = [round EXCEPT ![r] = h]
  <2>1. CASE ~free
    BY <2>1 DEF InterruptRows
  <2>2. CASE free /\ sending /\ r \in receipt
    BY <2>2 DEF InterruptRows
  <2>3. CASE free /\ sending /\ r \notin receipt
    BY <2>3 DEF InterruptRows
  <2>4. CASE free /\ ~sending /\ ~SafeToResume(q)
    BY <2>4 DEF InterruptRows
  <2>5. CASE free /\ ~sending /\ SafeToResume(q) /\ s # 0
    BY <2>5 DEF InterruptRows
  <2>6. CASE free /\ ~sending /\ SafeToResume(q) /\ s = 0
    BY <2>6 DEF InterruptRows
  <2> QED
    BY <2>1, <2>2, <2>3, <2>4, <2>5, <2>6
<1> HIDE DEF q
<1>4. k \in Round
  BY <1>2, ConsumeType
<1> HIDE DEF k
<1>5. /\ a \in Round /\ a.status \in Quiet
      /\ b \in Round /\ b.status \in Quiet
  BY <1>4, QuietStatuses DEF Round
<1>6. /\ d \in Round /\ d.status \in Quiet
      /\ e \in Round /\ e.status \in Quiet
  BY <1>4, QuietStatuses DEF Round
<1>7. /\ g \in Round /\ g.status \in Quiet
      /\ h \in Round /\ h.status = "FROZEN"
  BY <1>2, QuietStatuses DEF Round
<1> HIDE DEF a, b, d, e, g, h
<1>8. /\ Good([round EXCEPT ![r] = a]) /\ Good([round EXCEPT ![r] = b])
      /\ Good([round EXCEPT ![r] = d]) /\ Good([round EXCEPT ![r] = e])
      /\ Good([round EXCEPT ![r] = g])
  BY <1>5, <1>6, <1>7, PutQuiet
<1>9. Good(Controlled(r, round[r].control))
  BY ControlledGood
<1>10. ASSUME s # 0 PROVE Good(Merge([round EXCEPT ![r] = g], r, s))
  <2>1. s \in Rounds /\ s # r
    BY <1>10, SuccessorType
  <2> HIDE DEF s
  <2> QED
    BY <1>8, <2>1, MergeGood
<1>11. ASSUME s = 0 PROVE Good([round EXCEPT ![r] = h])
  <2>1. \A x \in Rounds \ {r} : round[x].status # "FROZEN"
    BY <1>11, SuccessorType
  <2>2. Fits(round, r, h)
    BY <2>1, <1>7 DEF Fits
  <2> QED
    BY <2>2, <1>7, PutGood
<1> QED
  BY <1>3, <1>8, <1>9, <1>10, <1>11

\* A failed attempt keeps the rounds good.
LEMMA FailGood ==
  ASSUME Good(round), NEW r \in Rounds
  PROVE  Good(FailRows(r))
<1> DEFINE q == round[r]
           s == Successor(r)
           k == Close(Consume(q), "ERROR_RESOLVED")
           a == Close(q, "SUPERSEDED")
           b == Close(q, "FROZEN")
           d == [k EXCEPT !.delivery = "PENDING"]
<1>1. q \in Round
  BY DEF Good
<1>2. \/ s # 0 /\ FailRows(r) = Merge([round EXCEPT ![r] = a], r, s)
      \/ s = 0 /\ FailRows(r) = [round EXCEPT ![r] = b]
      \/ FailRows(r) = [round EXCEPT ![r] = d]
  <2>1. CASE s # 0 /\ ~q.effect
    BY <2>1 DEF FailRows
  <2>2. CASE s = 0 /\ ~q.effect /\ Failures(r) < MaxFailures
    BY <2>2 DEF FailRows
  <2>3. CASE ~(s # 0 /\ ~q.effect) /\ ~(s = 0 /\ ~q.effect /\ Failures(r) < MaxFailures)
    BY <2>3 DEF FailRows
  <2> QED
    BY <2>1, <2>2, <2>3
<1>3. k \in Round /\ k.status = "ERROR_RESOLVED"
  BY <1>1, ConsumeType, CloseType, QuietStatuses
<1>4. a \in Round /\ a.status \in Quiet /\ b \in Round /\ b.status = "FROZEN"
  BY <1>1, CloseType, QuietStatuses
<1> HIDE DEF k, a, b
<1>5. d \in Round /\ d.status \in Quiet
  BY <1>3, QuietStatuses DEF Round
<1> HIDE DEF d
<1>6. Good([round EXCEPT ![r] = a]) /\ Good([round EXCEPT ![r] = d])
  BY <1>4, <1>5, PutQuiet
<1>7. ASSUME s # 0 PROVE Good(Merge([round EXCEPT ![r] = a], r, s))
  <2>1. s \in Rounds /\ s # r
    BY <1>7, SuccessorType
  <2> HIDE DEF s
  <2> QED
    BY <1>6, <2>1, MergeGood
<1>8. ASSUME s = 0 PROVE Good([round EXCEPT ![r] = b])
  <2>1. \A x \in Rounds \ {r} : round[x].status # "FROZEN"
    BY <1>8, SuccessorType
  <2>2. Fits(round, r, b)
    BY <2>1, <1>4 DEF Fits
  <2> QED
    BY <2>2, <1>4, PutGood
<1> QED
  BY <1>2, <1>6, <1>7, <1>8

\* Superseding the waiting rounds keeps the rounds good.
LEMMA SupersededGood ==
  ASSUME NEW f, Good(f), NEW target \in Rounds, f[target].status = "FROZEN"
  PROVE  Good(Superseded(f, target))
<1> DEFINE waiting == {s \in Rounds : f[s].status \in {"WAITING_APPROVAL", "PAUSED"}}
           merged  == {s \in waiting : f[s].status = "PAUSED" \/ ~f[s].effect}
           more == UNION {f[x].open : x \in merged}
           a == [f[target] EXCEPT !.open = @ \cup more, !.done = {}]
           b(s) == [f[s] EXCEPT !.status = "SUPERSEDED", !.checkpoint = "none",
                                !.resolvedBy = IF s \in merged THEN target ELSE @]
<1>1. ASSUME NEW s \in Rounds PROVE f[s] \in Round
  BY DEF Good
<1>2. target \in 0 .. MaxRounds
  BY Bounds DEF Rounds
<1>3. more \in SUBSET Messages
  BY <1>1 DEF Round
<1>4. ASSUME NEW s \in Rounds
      PROVE  \/ Superseded(f, target)[s] = f[s]
             \/ Superseded(f, target)[s] = b(s)
             \/ s = target /\ Superseded(f, target)[s] = a
  <2>1. CASE s = target /\ s \notin waiting
    BY <2>1 DEF Superseded
  <2>2. CASE s # target /\ s \in waiting
    BY <2>2 DEF Superseded
  <2>3. CASE s # target /\ s \notin waiting
    BY <2>3 DEF Superseded
  <2>4. target \notin waiting
    OBVIOUS
  <2> QED
    BY <2>1, <2>2, <2>3, <2>4
<1> HIDE DEF merged, waiting
<1>5. ASSUME NEW s \in Rounds PROVE b(s) \in Round /\ b(s).status = "SUPERSEDED"
  <2>1. f[s] \in Round
    BY <1>1
  <2>2. (IF s \in merged THEN target ELSE f[s].resolvedBy) \in 0 .. MaxRounds
    BY <2>1, <1>2 DEF Round
  <2> QED
    BY <2>1, <2>2, QuietStatuses DEF Round
<1> HIDE DEF more
<1>6. a \in Round /\ a.status = f[target].status
  <2>1. f[target] \in Round
    BY <1>1
  <2>2. f[target].open \cup more \in SUBSET Messages
    BY <2>1, <1>3 DEF Round
  <2> QED
    BY <2>1, <2>2 DEF Round
<1> HIDE DEF a, b
<1>7. ASSUME NEW s \in Rounds
      PROVE  /\ Superseded(f, target)[s] \in Round
             /\ Superseded(f, target)[s].status = f[s].status
                \/ Superseded(f, target)[s].status \in Quiet
  BY <1>1, <1>4, <1>5, <1>6, QuietStatuses
<1>8. Superseded(f, target) = [s \in Rounds |-> Superseded(f, target)[s]]
  BY DEF Superseded
<1>9. Superseded(f, target) \in [Rounds -> Round]
  BY <1>7, <1>8
<1> QED
  BY <1>7, <1>9, QuietGood

-----------------------------------------------------------------------------
(* Every step keeps the rounds good                                          *)

\* Replacing a row by one with the same status keeps the rounds good.
LEMMA PutSame ==
  ASSUME NEW f, Good(f), NEW r \in Rounds, NEW q \in Round, q.status = f[r].status
  PROVE  Good([f EXCEPT ![r] = q])
BY PutGood DEF Fits

\* A new round is a row.
LEMMA FreshType ==
  ASSUME NEW open \in SUBSET Messages
  PROVE  FreshRound(open) \in Round /\ FreshRound(open).status = "FROZEN"
<1>1. Absent \in Round
  BY AbsentType
<1> QED
  BY <1>1, QuietStatuses DEF FreshRound, Round

\* The next round is one that was never used.
LEMMA NextRoundType ==
  ASSUME Unused # {}
  PROVE  NextRound \in Rounds /\ round[NextRound] = Absent
<1>1. NextRound \in Unused
  BY DEF NextRound
<1> QED
  BY <1>1 DEF Unused

\* Admission keeps the rounds good: it freezes a new round only when no FROZEN one is left.
LEMMA AdmitGood ==
  ASSUME Good(round), NEW m \in Messages, Admit(m)
  PROVE  Good(round')
<1> DEFINE f == ClosedSuspended
           b(s) == [Consume(round[s]) EXCEPT !.status = "SUCCEEDED", !.delivery = "SKIPPED",
                                              !.checkpoint = "none"]
<1>1. ASSUME NEW s \in Rounds PROVE round[s] \in Round
  BY DEF Good
<1>2. ASSUME NEW s \in Rounds PROVE b(s) \in Round /\ b(s).status = "SUCCEEDED"
  <2> DEFINE k == Consume(round[s])
  <2>1. k \in Round
    BY <1>1, ConsumeType
  <2> HIDE DEF k
  <2>2. /\ [k EXCEPT !.status = "SUCCEEDED", !.delivery = "SKIPPED", !.checkpoint = "none"] \in Round
        /\ [k EXCEPT !.status = "SUCCEEDED", !.delivery = "SKIPPED",
                     !.checkpoint = "none"].status = "SUCCEEDED"
    BY <2>1, QuietStatuses DEF Round
  <2> QED
    BY <2>2 DEF k
<1>3. ASSUME NEW s \in Rounds
      PROVE  f[s] = IF round[s].status = "FROZEN" /\ round[s].effect THEN b(s) ELSE round[s]
  BY DEF ClosedSuspended
<1>4. f = [s \in Rounds |-> f[s]]
  BY DEF ClosedSuspended
<1> HIDE DEF f, b
<1>5. Good(f)
  <2>1. ASSUME NEW s \in Rounds
        PROVE  f[s] \in Round /\ (f[s].status = round[s].status \/ f[s].status \in Quiet)
    BY <1>1, <1>2, <1>3, QuietStatuses
  <2>2. f \in [Rounds -> Round]
    BY <1>4, <2>1
  <2> QED
    BY <2>1, <2>2, QuietGood
<1>6. ASSUME NEW r \in Joinable, round' = Superseded([f EXCEPT ![r].open = @ \cup {m}], r)
      PROVE  Good(round')
  <2> DEFINE q == [f[r] EXCEPT !.open = @ \cup {m}]
  <2>1. r \in Rounds /\ f \in [Rounds -> Round] /\ f[r] \in Round /\ f[r].status = "FROZEN"
    BY <1>3, <1>5 DEF Good, Joinable
  <2>2. q \in Round /\ q.status = f[r].status
    <3>1. f[r].open \cup {m} \in SUBSET Messages
      BY <2>1 DEF Round
    <3> QED
      BY <2>1, <3>1 DEF Round
  <2>3. [f EXCEPT ![r].open = @ \cup {m}] = [f EXCEPT ![r] = q]
    BY <2>1
  <2> HIDE DEF q
  <2>4. Good([f EXCEPT ![r] = q]) /\ [f EXCEPT ![r] = q][r] = q
    BY <1>5, <2>1, <2>2, PutSame
  <2> QED
    BY <1>6, <2>1, <2>2, <2>3, <2>4, SupersededGood
<1>7. ASSUME Joinable = {}, Unused # {},
             round' = Superseded([f EXCEPT ![NextRound] = FreshRound({m})], NextRound)
      PROVE  Good(round')
  <2> DEFINE n == NextRound
             q == FreshRound({m})
  <2>1. n \in Rounds
    BY <1>7, NextRoundType
  <2>2. q \in Round /\ q.status = "FROZEN"
    BY FreshType
  <2>3. ASSUME NEW s \in Rounds PROVE f[s].status # "FROZEN"
    <3>1. round[s].status = "FROZEN" => round[s].effect
      BY <1>7 DEF Joinable
    <3> QED
      BY <3>1, <1>2, <1>3
  <2> HIDE DEF n, q
  <2>4. Fits(f, n, q)
    BY <2>2, <2>3 DEF Fits
  <2>5. Good([f EXCEPT ![n] = q]) /\ [f EXCEPT ![n] = q][n] = q
    BY <1>4, <1>5, <2>1, <2>2, <2>4, PutGood
  <2>6. round' = Superseded([f EXCEPT ![n] = q], n)
    BY <1>7 DEF n, q
  <2> QED
    BY <2>1, <2>2, <2>5, <2>6, SupersededGood
<1>8. \/ \E r \in Joinable : round' = Superseded([f EXCEPT ![r].open = @ \cup {m}], r)
      \/ /\ Joinable = {} /\ Unused # {}
         /\ round' = Superseded([f EXCEPT ![NextRound] = FreshRound({m})], NextRound)
  BY DEF Admit, f
<1> QED
  BY <1>6, <1>7, <1>8

\* The row an admission is about to insert.
LEMMA AdmittingType ==
  ASSUME NEW m \in Messages
  PROVE  LET x == [Absent EXCEPT !.status = "ADMITTING", !.open = {m}]
         IN /\ x \in Round /\ x.status = "ADMITTING"
            /\ x.attempts = 0 /\ x.effect = FALSE /\ x.lease = 0 /\ x.control = "none"
<1>1. Absent \in Round
  BY AbsentType
<1>2. {m} \in SUBSET Messages /\ "ADMITTING" \in Statuses
  BY QuietStatuses
<1> QED
  BY <1>1, <1>2 DEF Absent, Round

\* The index allows a FROZEN round only without another one.
LEMMA IndexFits ==
  ASSUME NEW r \in Rounds, FrozenIndexAllows(r), NEW q, q.status = "FROZEN"
  PROVE  Fits(round, r, q)
BY DEF FrozenIndexAllows, OtherFrozen, Fits

\* An admission in two steps keeps the rounds good: its row is FROZEN only if
\* the index allows, whatever the waker did in between.
LEMMA AdmitStepsGood ==
  ASSUME Good(round), NEW r \in Rounds,
         (\E m \in Messages : AdmitRead(m)) \/ AdmitInsert(r) \/ AdmitAborts(r)
  PROVE  Good(round')
<1>1. round \in [Rounds -> Round] /\ round[r] \in Round
  BY DEF Good
<1>2. ASSUME NEW m \in Messages, AdmitRead(m) PROVE Good(round')
  <2> DEFINE x == [Absent EXCEPT !.status = "ADMITTING", !.open = {m}]
  <2>1. NextRound \in Rounds /\ round' = [round EXCEPT ![NextRound] = x]
    BY <1>2, NextRoundType DEF AdmitRead
  <2>2. x \in Round /\ x.status \in Quiet
    BY AdmittingType, QuietStatuses
  <2> HIDE DEF x
  <2> QED
    BY <2>1, <2>2, PutQuiet
<1>3. CASE AdmitInsert(r)
  <2> DEFINE x == [round[r] EXCEPT !.status = "FROZEN"]
             f == [round EXCEPT ![r] = x]
  <2>1. round' = Superseded(f, r) /\ FrozenIndexAllows(r)
    BY <1>1, <1>3 DEF AdmitInsert
  <2>2. x \in Round /\ x.status = "FROZEN"
    BY <1>1, QuietStatuses DEF Round
  <2> HIDE DEF x
  <2>3. Good(f) /\ f[r] = x
    BY <1>1, <2>1, <2>2, IndexFits, PutGood
  <2> HIDE DEF f
  <2> QED
    BY <2>1, <2>2, <2>3, SupersededGood
<1>4. CASE AdmitAborts(r)
  <2>1. round' = [round EXCEPT ![r] = Absent] /\ Absent.status \in Quiet
    BY <1>4, QuietStatuses DEF AdmitAborts, Absent
  <2> QED
    BY <2>1, AbsentType, PutQuiet
<1> QED
  BY <1>2, <1>3, <1>4

\* A claim leaves a processed row.
LEMMA ClaimedType ==
  ASSUME NEW q \in Round, q.attempts < MaxAttempts
  PROVE  ClaimedRow(q) \in Round /\ ClaimedRow(q).status = "CLAIMED"
<1>1. q.attempts \in Nat /\ q.attempts + 1 \in 0 .. MaxAttempts
  BY Bounds DEF Round
<1>2. q.attempts + 1 \in 0 .. Notify
  BY <1>1, Bounds DEF Notify
<1> QED
  BY <1>1, <1>2, QuietStatuses DEF ClaimedRow, Round, Processing

\* A claim keeps the rounds good: it processes a round only when no other is processed.
LEMMA ClaimGood ==
  ASSUME Good(round), NEW w \in Workers, NEW r \in Rounds, Claim(w, r) \/ ClaimExpired(w, r)
  PROVE  Good(round')
<1> DEFINE q == ClaimedRow(round[r])
<1>1. round[r] \in Round
  BY DEF Good
<1>2. \/ /\ round[r].attempts < MaxAttempts
         /\ Ready(r) \/ Expired(r)
         /\ round' = [round EXCEPT ![r] = q]
      \/ round' = InterruptRows(r)
  <2>1. CASE Claim(w, r)
    BY <2>1 DEF Claim, Good
  <2>2. CASE ClaimExpired(w, r)
    BY <2>2 DEF ClaimExpired, Good
  <2> QED
    BY <2>1, <2>2
<1>3. ASSUME round[r].attempts < MaxAttempts, Ready(r) \/ Expired(r) PROVE Good([round EXCEPT ![r] = q])
  <2>1. q \in Round /\ q.status \in Processing
    BY <1>1, <1>3, ClaimedType DEF Processing
  <2> HIDE DEF q
  <2>2. Fits(round, r, q)
    BY <1>3, <2>1 DEF Fits, Ready, Expired
  <2> QED
    BY <2>1, <2>2, PutGood
<1> QED
  BY <1>2, <1>3, InterruptGood

\* Setting fields other than the status of one row keeps the rounds good.
LEMMA FieldsGood ==
  ASSUME Good(round), NEW r \in Rounds, NEW d \in Deliveries, NEW c \in {"none", "safe", "unsafe"},
         NEW v \in {"none"} \cup Requested
  PROVE  /\ \A b \in BOOLEAN : Good([round EXCEPT ![r].live = b])
         /\ Good([round EXCEPT ![r].effect = TRUE])
         /\ Good([round EXCEPT ![r].checkpoint = c])
         /\ Good([round EXCEPT ![r].control = v])
         /\ Good([round EXCEPT ![r].delivery = d])
         /\ Good([round EXCEPT ![r] = [@ EXCEPT !.delivery = d, !.effect = TRUE]])
         /\ Good([round EXCEPT ![r] = [ClearLease(@) EXCEPT !.delivery = d]])
<1> DEFINE q1(b) == [round[r] EXCEPT !.live = b]
           q2 == [round[r] EXCEPT !.effect = TRUE]
           q3 == [round[r] EXCEPT !.checkpoint = c]
           q4 == [round[r] EXCEPT !.control = v]
           q5 == [round[r] EXCEPT !.delivery = d]
           q6 == [round[r] EXCEPT !.delivery = d, !.effect = TRUE]
           k  == ClearLease(round[r])
           q7 == [k EXCEPT !.delivery = d]
<1>1. round \in [Rounds -> Round] /\ round[r] \in Round
  BY DEF Good
<1>2. /\ \A b \in BOOLEAN : [round EXCEPT ![r].live = b] = [round EXCEPT ![r] = q1(b)]
      /\ [round EXCEPT ![r].effect = TRUE] = [round EXCEPT ![r] = q2]
      /\ [round EXCEPT ![r].checkpoint = c] = [round EXCEPT ![r] = q3]
      /\ [round EXCEPT ![r].control = v] = [round EXCEPT ![r] = q4]
      /\ [round EXCEPT ![r].delivery = d] = [round EXCEPT ![r] = q5]
      /\ [round EXCEPT ![r] = [@ EXCEPT !.delivery = d, !.effect = TRUE]] = [round EXCEPT ![r] = q6]
      /\ [round EXCEPT ![r] = [ClearLease(@) EXCEPT !.delivery = d]] = [round EXCEPT ![r] = q7]
  BY <1>1
<1>3. /\ \A b \in BOOLEAN : q1(b) \in Round /\ q1(b).status = round[r].status
      /\ q2 \in Round /\ q2.status = round[r].status
      /\ q3 \in Round /\ q3.status = round[r].status
  BY <1>1 DEF Round
<1>4. /\ q4 \in Round /\ q4.status = round[r].status
      /\ q5 \in Round /\ q5.status = round[r].status
      /\ q6 \in Round /\ q6.status = round[r].status
  BY <1>1 DEF Round
<1>5. k \in Round /\ k.status = round[r].status
  BY <1>1, ClearLeaseType
<1> HIDE DEF k
<1>6. q7 \in Round /\ q7.status = round[r].status
  BY <1>5 DEF Round
<1> HIDE DEF q1, q2, q3, q4, q5, q6, q7
<1>7. /\ \A b \in BOOLEAN : Good([round EXCEPT ![r] = q1(b)])
      /\ Good([round EXCEPT ![r] = q2])
      /\ Good([round EXCEPT ![r] = q3]) /\ Good([round EXCEPT ![r] = q4])
  BY <1>3, <1>4, PutSame
<1>8. /\ Good([round EXCEPT ![r] = q5]) /\ Good([round EXCEPT ![r] = q6])
      /\ Good([round EXCEPT ![r] = q7])
  BY <1>4, <1>6, PutSame
<1> QED
  BY <1>2, <1>7, <1>8

\* The rows complete_round leaves keep the rounds good.
LEMMA CompleteGood ==
  ASSUME Good(round), NEW w \in Workers, NEW r \in Rounds, Complete(w, r)
  PROVE  Good(round')
<1> DEFINE q == round[r]
           s == Successor(r)
           a == Close(q, "WAITING_APPROVAL")
           b == Close(q, "FROZEN")
           d == Close(q, "SUPERSEDED")
           e == Close(Consume(q), "SUCCEEDED")
           g == [e EXCEPT !.delivery = "SKIPPED", !.checkpoint = "none"]
<1>1. q \in Round
  BY DEF Good
<1>2. \/ round' = Controlled(r, round[r].control)
      \/ round' = [round EXCEPT ![r] = a]
      \/ s = 0 /\ round' = [round EXCEPT ![r] = b]
      \/ s # 0 /\ round' = Merge([round EXCEPT ![r] = d], r, s)
      \/ round' = [round EXCEPT ![r] = e]
      \/ round' = [round EXCEPT ![r] = g]
  BY DEF Complete, Settle
<1>3. /\ a \in Round /\ a.status \in Quiet
      /\ b \in Round /\ b.status = "FROZEN"
      /\ d \in Round /\ d.status \in Quiet
  BY <1>1, CloseType, QuietStatuses
<1>4. e \in Round /\ e.status \in Quiet
  BY <1>1, ConsumeType, CloseType, QuietStatuses
<1> HIDE DEF a, b, d, e
<1>5. g \in Round /\ g.status \in Quiet
  BY <1>4, QuietStatuses DEF Round
<1> HIDE DEF g
<1>6. /\ Good([round EXCEPT ![r] = a]) /\ Good([round EXCEPT ![r] = d])
      /\ Good([round EXCEPT ![r] = e]) /\ Good([round EXCEPT ![r] = g])
  BY <1>3, <1>4, <1>5, PutQuiet
<1>7. ASSUME s # 0 PROVE Good(Merge([round EXCEPT ![r] = d], r, s))
  <2>1. s \in Rounds /\ s # r
    BY <1>7, SuccessorType
  <2> HIDE DEF s
  <2> QED
    BY <1>6, <2>1, MergeGood
<1>8. ASSUME s = 0 PROVE Good([round EXCEPT ![r] = b])
  <2>1. \A x \in Rounds \ {r} : round[x].status # "FROZEN"
    BY <1>8, SuccessorType
  <2>2. Fits(round, r, b)
    BY <2>1, <1>3 DEF Fits
  <2> QED
    BY <2>2, <1>3, PutGood
<1> QED
  BY <1>2, <1>6, <1>7, <1>8, ControlledGood

\* The rows the end of a delivery leaves keep the rounds good.
LEMMA DeliveryGood ==
  ASSUME Good(round), NEW w \in Workers, NEW r \in Rounds, Delivered(w, r) \/ DeliveryUnknown(w, r)
  PROVE  Good(round')
<1> DEFINE e == Close(Consume(round[r]), "SUCCEEDED")
           u == Close(Consume(round[r]), "ERROR_RESOLVED")
           g == [e EXCEPT !.delivery = "DELIVERED", !.checkpoint = "none"]
           h == [u EXCEPT !.delivery = "UNKNOWN"]
<1>1. round[r] \in Round
  BY DEF Good
<1>2. \/ round' = round
      \/ round' = [round EXCEPT ![r] = g]
      \/ round' = [round EXCEPT ![r] = h]
  BY DEF Delivered, DeliveryUnknown, Settle, Drop
<1>3. e \in Round /\ e.status \in Quiet /\ u \in Round /\ u.status \in Quiet
  <2> DEFINE k == Consume(round[r])
  <2>1. k \in Round
    BY <1>1, ConsumeType
  <2>2. {"SUCCEEDED", "ERROR_RESOLVED"} \subseteq Statuses \cap Quiet
    BY QuietStatuses
  <2> HIDE DEF k
  <2>3. /\ Close(k, "SUCCEEDED") \in Round /\ Close(k, "SUCCEEDED").status = "SUCCEEDED"
        /\ Close(k, "ERROR_RESOLVED") \in Round
        /\ Close(k, "ERROR_RESOLVED").status = "ERROR_RESOLVED"
    BY <2>1, <2>2, CloseType
  <2> QED
    BY <2>2, <2>3 DEF k
<1> HIDE DEF e, u
<1>4. g \in Round /\ g.status \in Quiet /\ h \in Round /\ h.status \in Quiet
  BY <1>3, QuietStatuses DEF Round
<1> HIDE DEF g, h
<1>5. Good([round EXCEPT ![r] = g]) /\ Good([round EXCEPT ![r] = h])
  BY <1>4, PutQuiet
<1> QED
  BY <1>2, <1>5

\* A round leaves CLAIMED for RUNNING under its lease.
LEMMA BuildGood ==
  ASSUME Good(round), NEW w \in Workers, NEW r \in Rounds, Build(w, r)
  PROVE  Good(round')
<1> DEFINE q == [round[r] EXCEPT !.status = "RUNNING"]
<1>1. round \in [Rounds -> Round] /\ round[r] \in Round
  BY DEF Good
<1>2. round' = round \/ (round[r].status \in Processing /\ round' = [round EXCEPT ![r] = q])
  BY <1>1 DEF Build, Drop, Owns
<1>3. q \in Round /\ q.status \in Processing
  <2>1. "RUNNING" \in Statuses /\ "RUNNING" \in Processing
    BY QuietStatuses DEF Processing
  <2> QED
    BY <1>1, <2>1 DEF Round
<1> HIDE DEF q
<1>4. round[r].status \in Processing => Good([round EXCEPT ![r] = q])
  BY <1>3, PutGood DEF Fits
<1> QED
  BY <1>2, <1>4

\* Every step of a worker keeps the rounds good.
LEMMA WorkerGood ==
  ASSUME Good(round), NEW w \in Workers, NEW r \in Rounds, WorkerStep(w, r)
  PROVE  Good(round')
<1> USE QuietStatuses
<1>1. CASE Build(w, r)
  BY <1>1, BuildGood
<1>2. CASE MarkEffect(w, r)
  <2>1. round' = [round EXCEPT ![r].effect = TRUE]
    BY <1>2 DEF MarkEffect
  <2> QED
    BY <2>1, FieldsGood
<1>3. CASE SaveCheckpoint(w, r)
  <2>1. round' = round \/ \E c \in {"safe", "unsafe"} : round' = [round EXCEPT ![r].checkpoint = c]
    BY <1>3 DEF SaveCheckpoint, Drop
  <2> QED
    BY <2>1, FieldsGood
<1>4. CASE Complete(w, r)
  BY <1>4, CompleteGood
<1>5. CASE StartSending(w, r)
  <2>1. round' = [round EXCEPT ![r] = [@ EXCEPT !.delivery = "SENDING", !.effect = TRUE]]
    BY <1>5 DEF StartSending
  <2> QED
    BY <2>1, FieldsGood
<1>6. CASE Delivered(w, r) \/ DeliveryUnknown(w, r)
  BY <1>6, DeliveryGood
<1>7. CASE Fail(w, r)
  <2>1. round' = round \/ round' = Controlled(r, round[r].control) \/ round' = FailRows(r)
    BY <1>7 DEF Fail, Drop, Settle
  <2> QED
    BY <2>1, ControlledGood, FailGood
<1>8. CASE InterruptWorker(w, r)
  <2>1. round' = round \/ round' = InterruptRows(r)
    BY <1>8 DEF InterruptWorker, Drop, Settle
  <2> QED
    BY <2>1, InterruptGood
<1>9. CASE EndNotification(w, r)
  <2>1. round' = round \/ \E d \in {"UNKNOWN", "DELIVERED"} :
                            round' = [round EXCEPT ![r] = [ClearLease(@) EXCEPT !.delivery = d]]
    BY <1>9 DEF EndNotification, Drop
  <2> QED
    BY <2>1, FieldsGood
<1>10. CASE Notice(w, r) \/ Transport(w, r) \/ Journal(w, r) \/ LoseLease(w, r)
            \/ StartNotification(w, r) \/ TransportNotification(w, r)
  <2>1. round' = round
    BY <1>10 DEF Notice, Transport, Journal, LoseLease, StartNotification, TransportNotification, Drop
  <2> QED
    BY <2>1
<1>11. CASE RenewLate(w, r)
  <2>1. round' = [round EXCEPT ![r].live = TRUE]
    BY <1>11 DEF RenewLate
  <2> QED
    BY <2>1, FieldsGood
<1> QED
  BY <1>1, <1>2, <1>3, <1>4, <1>5, <1>6, <1>7, <1>8, <1>9, <1>10, <1>11 DEF WorkerStep

\* A decided approval freezes the round only if the index allows, and its
\* inputs move only into a successor.
LEMMA WakeGood ==
  ASSUME Good(round), NEW r \in Rounds,
         WakeMerged(r) \/ WakeRead(r) \/ WakeCommit(r) \/ WakeAborts(r)
  PROVE  Good(round')
<1> DEFINE q == round[r]
           s == Successor(r)
           a(t) == [q EXCEPT !.status = t]
           b == [q EXCEPT !.status = "SUPERSEDED", !.checkpoint = "none"]
<1>1. q \in Round /\ round \in [Rounds -> Round]
  BY DEF Good
<1>2. \/ FrozenIndexAllows(r) /\ round' = [round EXCEPT ![r] = a("FROZEN")]
      \/ \E t \in {"WAKING", "WAITING_APPROVAL"} : round' = [round EXCEPT ![r] = a(t)]
      \/ round' = [round EXCEPT ![r] = b]
      \/ s # 0 /\ round' = Merge([round EXCEPT ![r] = b], r, s)
  BY <1>1 DEF WakeMerged, WakeRead, WakeCommit, WakeAborts
<1>3. /\ \A t \in Statuses : a(t) \in Round /\ a(t).status = t
      /\ b \in Round /\ b.status \in Quiet
  BY <1>1, QuietStatuses DEF Round
<1> HIDE DEF a, b
<1>4. Good([round EXCEPT ![r] = b])
  BY <1>3, PutQuiet
<1>5. ASSUME s # 0 PROVE Good(Merge([round EXCEPT ![r] = b], r, s))
  <2>1. s \in Rounds /\ s # r
    BY <1>5, SuccessorType
  <2> HIDE DEF s
  <2> QED
    BY <1>4, <2>1, MergeGood
<1>6. ASSUME FrozenIndexAllows(r) PROVE Good([round EXCEPT ![r] = a("FROZEN")])
  <2>1. a("FROZEN") \in Round /\ a("FROZEN").status = "FROZEN"
    BY <1>3, QuietStatuses
  <2> QED
    BY <1>6, <2>1, IndexFits, PutGood
<1>7. ASSUME NEW t \in {"WAKING", "WAITING_APPROVAL"} PROVE Good([round EXCEPT ![r] = a(t)])
  <2>1. a(t) \in Round /\ a(t).status \in Quiet
    BY <1>3, QuietStatuses
  <2> QED
    BY <2>1, PutQuiet
<1> QED
  BY <1>2, <1>4, <1>5, <1>6, <1>7

\* A resumed round is frozen only without other work in the room.
LEMMA ResumeGood ==
  ASSUME Good(round), NEW r \in Rounds, NEW c, Resume(r, c)
  PROVE  Good(round')
<1> DEFINE q == [round[r] EXCEPT !.status = "FROZEN", !.control = "none",
                                 !.brief = IF c = "respond" THEN TRUE ELSE round[r].brief]
<1>1. round \in [Rounds -> Round] /\ round[r] \in Round
  BY DEF Good
<1>2. round' = [round EXCEPT ![r] = q] /\ ~OtherWork(r)
  BY DEF Resume
<1>3. q \in Round /\ q.status = "FROZEN"
  <2>1. round[r].brief \in BOOLEAN /\ (IF c = "respond" THEN TRUE ELSE round[r].brief) \in BOOLEAN
    BY <1>1 DEF Round
  <2> QED
    BY <1>1, <2>1, QuietStatuses DEF Round
<1> HIDE DEF q
<1>4. Fits(round, r, q)
  BY <1>2, <1>3 DEF Fits, OtherWork
<1> QED
  BY <1>2, <1>3, <1>4, PutGood

\* A restart opens a new round only without other work in the room.
LEMMA RestartGood ==
  ASSUME Good(round), NEW r \in Rounds, Restart(r)
  PROVE  Good(round')
<1> DEFINE q == round[r]
           n == NextRound
           f == [round EXCEPT ![r] = [q EXCEPT !.resolvedBy = n]]
           k == FreshRound(q.open \cup q.done)
           a == [k EXCEPT !.effect = q.effect, !.brief = q.brief, !.checkpoint = q.checkpoint]
<1>1. round \in [Rounds -> Round] /\ q \in Round
  BY DEF Good
<1>2. n \in Rounds /\ round[n] = Absent /\ "restart" \in Available(q)
  BY NextRoundType DEF Restart
<1>3. q.status = "CANCELLED" /\ n # r
  <2>1. q.status = "CANCELLED"
    BY <1>1, <1>2 DEF Available, Round, Deliveries
  <2> QED
    BY <2>1, <1>2 DEF Absent
<1>4. round' = [f EXCEPT ![n] = a] /\ ~OtherWork(r)
  BY <1>1, <1>3 DEF Restart
<1>5. Good(f)
  <2> DEFINE x == [q EXCEPT !.resolvedBy = n]
  <2>1. n \in 0 .. MaxRounds
    BY <1>2, Bounds DEF Rounds
  <2>2. x \in Round /\ x.status = q.status
    BY <1>1, <2>1 DEF Round
  <2> HIDE DEF x
  <2>3. Good([round EXCEPT ![r] = x])
    BY <2>2, PutSame
  <2> QED
    BY <2>3 DEF x
<1>6. \A s \in Rounds : f[s].status = round[s].status
  BY <1>1 DEF Round
<1>7. k \in Round /\ k.status = "FROZEN"
  <2>1. q.open \cup q.done \in SUBSET Messages
    BY <1>1 DEF Round
  <2> QED
    BY <2>1, FreshType
<1> HIDE DEF k, f
<1>8. a \in Round /\ a.status = "FROZEN"
  BY <1>1, <1>7 DEF Round
<1>9. \A s \in Rounds : round[s].status # "FROZEN"
  BY <1>3, <1>4 DEF OtherWork
<1> HIDE DEF a, n, q
<1>10. Fits(f, n, a)
  BY <1>6, <1>8, <1>9 DEF Fits
<1> QED
  BY <1>2, <1>4, <1>5, <1>8, <1>10, PutGood

\* Deleting a round keeps the others as they are.
LEMMA DeleteGood ==
  ASSUME Good(round), NEW r \in Rounds, DeleteRound(r)
  PROVE  Good(round')
<1> DEFINE a == [Absent EXCEPT !.status = "DELETED"]
           b(s) == [round[s] EXCEPT !.resolvedBy = IF @ = r THEN 0 ELSE @]
<1>1. a \in Round /\ a.status \in Quiet
  BY AbsentType, QuietStatuses DEF Round
<1>2. ASSUME NEW s \in Rounds PROVE b(s) \in Round /\ b(s).status = round[s].status
  <2>1. round[s] \in Round
    BY DEF Good
  <2>2. (IF round[s].resolvedBy = r THEN 0 ELSE round[s].resolvedBy) \in 0 .. MaxRounds
    BY <2>1, Bounds DEF Round
  <2> QED
    BY <2>1, <2>2 DEF Round
<1>3. round' = [s \in Rounds |-> IF s = r THEN a ELSE b(s)]
  BY DEF DeleteRound
<1> HIDE DEF a, b
<1>4. \A s \in Rounds : round'[s] = IF s = r THEN a ELSE b(s)
  BY <1>3
<1>5. round' \in [Rounds -> Round]
  BY <1>1, <1>2, <1>3
<1> QED
  BY <1>1, <1>2, <1>4, <1>5, QuietGood

\* Every human command keeps the rounds good.
LEMMA HumanGood ==
  ASSUME Good(round), NEW r \in Rounds, HumanStep(r)
  PROVE  Good(round')
<1>1. ASSUME NEW c \in Commands, Request(r, c) PROVE Good(round')
  <2>1. c \in {"none"} \cup Requested
    BY <1>1 DEF Request
  <2>2. round' = [round EXCEPT ![r].control = c] \/ round' = Controlled(r, c)
    BY <1>1 DEF Request
  <2>3. Good([round EXCEPT ![r].control = c])
    BY <2>1, QuietStatuses, FieldsGood
  <2>4. Good(Controlled(r, c))
    BY ControlledGood
  <2> QED
    BY <2>2, <2>3, <2>4
<1>2. ASSUME NEW c \in Commands, Resume(r, c) PROVE Good(round')
  BY <1>2, ResumeGood
<1>3. ASSUME ResolveUnknown(r) PROVE Good(round')
  <2>1. \E d \in {"DELIVERED", "SKIPPED"} : round' = [round EXCEPT ![r].delivery = d]
    BY <1>3 DEF ResolveUnknown
  <2> QED
    BY <2>1, QuietStatuses, FieldsGood, ZenonT(30)
<1> QED
  BY <1>1, <1>2, <1>3, RestartGood, DeleteGood DEF HumanStep

\* Leasing a fallback text changes no status.
LEMMA NotificationGood ==
  ASSUME Good(round), NEW w \in Workers, ClaimNotification(w)
  PROVE  Good(round')
<1> DEFINE a(r) == [ClearLease(round[r]) EXCEPT !.delivery = "UNKNOWN"]
           b(r) == [round[r] EXCEPT !.delivery = "SENDING", !.lease = Notify, !.live = TRUE]
<1>1. ASSUME NEW r \in Rounds PROVE a(r) \in Round /\ a(r).status = round[r].status
  <2> DEFINE k == ClearLease(round[r])
  <2>1. k \in Round /\ k.status = round[r].status
    BY ClearLeaseType DEF Good
  <2> HIDE DEF k
  <2>2. [k EXCEPT !.delivery = "UNKNOWN"] \in Round /\ [k EXCEPT !.delivery = "UNKNOWN"].status = k.status
    BY <2>1, QuietStatuses DEF Round
  <2> QED
    BY <2>1, <2>2 DEF k
<1>2. ASSUME NEW r \in Rounds PROVE b(r) \in Round /\ b(r).status = round[r].status
  <2>1. round[r] \in Round
    BY DEF Good
  <2>2. Notify \in 0 .. Notify
    BY Bounds
  <2> QED
    BY <2>1, <2>2, QuietStatuses DEF Round
<1>3. PICK e \in OneOf({r \in Rounds : /\ round[r].status = "ERROR_RESOLVED"
                                       /\ round[r].delivery = "SENDING" /\ ~round[r].live}),
           n \in OneOf({r \in Rounds : FallbackDue(r)}) :
        round' = [r \in Rounds |-> CASE r = e -> a(r) [] r = n -> b(r) [] OTHER -> round[r]]
  BY DEF ClaimNotification
<1> HIDE DEF a, b
<1>4. ASSUME NEW r \in Rounds PROVE round'[r] = a(r) \/ round'[r] = b(r) \/ round'[r] = round[r]
  <2>1. CASE r = e /\ r # n
    BY <1>3, <2>1
  <2>2. CASE r # e /\ r = n
    BY <1>3, <2>2
  <2>3. CASE r # e /\ r # n
    BY <1>3, <2>3
  <2>4. CASE r = e /\ r = n
    BY <1>3, <2>4
  <2> QED
    BY <2>1, <2>2, <2>3, <2>4
<1>5. ASSUME NEW r \in Rounds PROVE round'[r] \in Round /\ round'[r].status = round[r].status
  BY <1>1, <1>2, <1>4 DEF Good
<1>6. round' = [r \in Rounds |-> round'[r]]
  BY <1>3
<1>7. round' \in [Rounds -> Round]
  BY <1>5, <1>6
<1> QED
  BY <1>5, <1>7, QuietGood

\* Every step keeps the rounds good.
LEMMA NextGood ==
  ASSUME Good(round), [Next]_vars
  PROVE  Good(round)'
<1>1. ASSUME NEW r \in Rounds, Expire(r) PROVE Good(round')
  <2>1. round' = [round EXCEPT ![r].live = FALSE]
    BY <1>1 DEF Expire
  <2> QED
    BY <2>1, QuietStatuses, FieldsGood
<1>2. ASSUME NEW w \in Workers, Crash(w) PROVE Good(round')
  BY <1>2 DEF Crash, Drop
<1>3. CASE UNCHANGED vars
  BY <1>3 DEF vars
<1>6. ASSUME NEW r \in Rounds, RoomStep(r) PROVE Good(round')
  BY <1>6, AdmitStepsGood, WakeGood DEF RoomStep
<1>7. ASSUME NEW m \in Messages, AdmitRead(m) PROVE Good(round')
  <2>1. NextRound \in Rounds
    BY <1>7, NextRoundType DEF AdmitRead
  <2> QED
    BY <1>7, <2>1, AdmitStepsGood
<1>4. CASE Next
  BY <1>1, <1>2, <1>4, <1>6, <1>7, AdmitGood, ClaimGood, WorkerGood, NotificationGood, HumanGood
     DEF Next
<1>5. Good(round')
  BY <1>3, <1>4
<1> QED
  BY <1>5 DEF Good

-----------------------------------------------------------------------------
(* The other variables                                                       *)

Attempts == [Rounds -> [1 .. MaxAttempts -> AttemptStatuses]]

\* The statuses an attempt ends with are attempt statuses.
LEMMA AttemptStatusType ==
  ASSUME NEW r \in Rounds, NEW c
  PROVE  /\ ControlledStatus(c) \in AttemptStatuses
         /\ InterruptStatus(r) \in AttemptStatuses
<1>1. \A x : ControlledStatus(x) \in AttemptStatuses
  BY DEF ControlledStatus, AttemptStatuses
<1>2. InterruptStatus(r) \in AttemptStatuses
  <2>1. CASE round[r].control # "none"
    BY <1>1, <2>1 DEF InterruptStatus
  <2>2. CASE round[r].control = "none"
    BY <2>2 DEF InterruptStatus, AttemptStatuses
  <2> QED
    BY <2>1, <2>2
<1> QED
  BY <1>1, <1>2

\* Finishing an attempt keeps the attempts' type.
LEMMA FinishType ==
  ASSUME attempt \in Attempts, NEW r \in Rounds, NEW s \in AttemptStatuses
  PROVE  FinishAttempt(r, s) \in Attempts
BY DEF FinishAttempt, Attempts

\* Setting one attempt keeps the attempts' type.
LEMMA AttemptPut ==
  ASSUME NEW f \in Attempts, NEW r \in Rounds, NEW n, NEW s \in AttemptStatuses
  PROVE  [f EXCEPT ![r][n] = s] \in Attempts
BY DEF Attempts

\* What a worker does next keeps the workers' type.
LEMMA WorkerType ==
  ASSUME worker \in [Workers -> Worker], NEW w \in Workers, NEW x \in Worker, NEW pc \in Steps
  PROVE  /\ [worker EXCEPT ![w] = x] \in [Workers -> Worker]
         /\ Goto(w, pc) => worker' \in [Workers -> Worker]
         /\ End(w) => worker' \in [Workers -> Worker]
<1>1. IdleWorker \in Worker
  BY Bounds DEF IdleWorker, Worker, Steps
<1>2. [worker[w] EXCEPT !.pc = pc] \in Worker
  BY DEF Worker
<1> QED
  BY <1>1, <1>2 DEF Goto, End

\* A claiming worker.
LEMMA StartWorkerType ==
  ASSUME Good(round), worker \in [Workers -> Worker], NEW w \in Workers, NEW r \in Rounds,
         round[r].attempts < MaxAttempts, StartWorker(w, r)
  PROVE  worker' \in [Workers -> Worker]
<1> DEFINE x == [pc |-> "claimed", round |-> r, token |-> round[r].attempts + 1]
<1>1. round[r].attempts \in 0 .. MaxAttempts
  BY DEF Good, Round
<1>2. round[r].attempts + 1 \in 0 .. Notify
  BY <1>1, Bounds DEF Notify
<1>3. r \in 0 .. MaxRounds
  BY Bounds DEF Rounds
<1>4. x \in Worker
  BY <1>2, <1>3 DEF Worker, Steps, Running
<1>5. worker' = [worker EXCEPT ![w] = x]
  BY DEF StartWorker
<1> HIDE DEF x
<1> QED
  BY <1>4, <1>5

\* The transport's counters keep their type.
LEMMA CarriedType ==
  ASSUME carried \in [Rounds -> [answer : Nat, fallback : Nat]], NEW r \in Rounds
  PROVE  /\ [carried EXCEPT ![r].answer = @ + 1] \in [Rounds -> [answer : Nat, fallback : Nat]]
         /\ [carried EXCEPT ![r].fallback = @ + 1] \in [Rounds -> [answer : Nat, fallback : Nat]]
<1>1. carried[r] \in [answer : Nat, fallback : Nat]
  OBVIOUS
<1>2. carried[r].answer + 1 \in Nat /\ carried[r].fallback + 1 \in Nat
  BY <1>1
<1> QED
  BY <1>1, <1>2

Others ==
  /\ attempt \in Attempts
  /\ worker \in [Workers -> Worker]
  /\ carried \in [Rounds -> [answer : Nat, fallback : Nat]]
  /\ receipt \subseteq Rounds

\* A worker that settles its round, or drops it, keeps the other types.
LEMMA SettleOthers ==
  ASSUME Others, NEW w \in Workers, NEW r \in Rounds, NEW f, NEW s \in AttemptStatuses,
         Settle(w, r, f, s) \/ Drop(w)
  PROVE  Others'
<1>1. worker' \in [Workers -> Worker]
  <2>1. End(w)
    BY DEF Settle, Drop
  <2>2. IdleWorker \in Worker
    BY Bounds DEF IdleWorker, Worker, Steps
  <2> QED
    BY <2>1, <2>2 DEF End, Others
<1>2. attempt' \in Attempts
  BY FinishType DEF Settle, Drop, Others
<1>3. UNCHANGED <<carried, receipt>>
  BY DEF Settle, Drop
<1> QED
  BY <1>1, <1>2, <1>3 DEF Others, Attempts

\* A claim keeps the types of the other variables.
LEMMA ClaimOthers ==
  ASSUME Good(round), Others, NEW w \in Workers, NEW r \in Rounds,
         Claim(w, r) \/ ClaimExpired(w, r)
  PROVE  Others'
<1> DEFINE n == round[r].attempts + 1
<1>1. "CLAIMED" \in AttemptStatuses /\ "INTERRUPTED" \in AttemptStatuses
  BY DEF AttemptStatuses
<1>2. UNCHANGED <<carried, receipt>>
  BY DEF Claim, ClaimExpired
<1>3. \/ /\ round[r].attempts < MaxAttempts /\ StartWorker(w, r)
         /\ attempt' = [attempt EXCEPT ![r][n] = "CLAIMED"]
      \/ /\ round[r].attempts < MaxAttempts /\ StartWorker(w, r)
         /\ attempt' = [FinishAttempt(r, "INTERRUPTED") EXCEPT ![r][n] = "CLAIMED"]
      \/ attempt' = FinishAttempt(r, InterruptStatus(r)) /\ UNCHANGED worker
  BY DEF Claim, ClaimExpired
<1>4. worker' \in [Workers -> Worker]
  BY <1>3, StartWorkerType DEF Others
<1>5. FinishAttempt(r, "INTERRUPTED") \in Attempts /\ FinishAttempt(r, InterruptStatus(r)) \in Attempts
  BY <1>1, FinishType, AttemptStatusType DEF Others
<1>6. attempt' \in Attempts
  <2> HIDE DEF n
  <2>1. [attempt EXCEPT ![r][n] = "CLAIMED"] \in Attempts
    BY <1>1, AttemptPut DEF Others
  <2>2. [FinishAttempt(r, "INTERRUPTED") EXCEPT ![r][n] = "CLAIMED"] \in Attempts
    BY <1>1, <1>5, AttemptPut
  <2> QED
    BY <1>3, <1>5, <2>1, <2>2
<1> QED
  BY <1>2, <1>4, <1>6 DEF Others, Attempts

\* A step that only moves the worker, or a counter of the transport.
LEMMA MoveOthers ==
  ASSUME Others, NEW w \in Workers, NEW pc \in Steps, Goto(w, pc), attempt' = attempt,
         carried' \in [Rounds -> [answer : Nat, fallback : Nat]], receipt' \subseteq Rounds
  PROVE  Others'
<1>1. [worker[w] EXCEPT !.pc = pc] \in Worker
  BY DEF Worker, Others
<1>2. worker' \in [Workers -> Worker]
  BY <1>1 DEF Goto, Others
<1> QED
  BY <1>2 DEF Others, Attempts

\* Every step of a worker keeps the types of the other variables.
LEMMA WorkerOthers ==
  ASSUME Good(round), Others, NEW w \in Workers, NEW r \in Rounds, WorkerStep(w, r)
  PROVE  Others'
<1>1. Steps = {"idle", "notify", "notifying", "notified", "claimed", "running", "interrupted",
               "sending", "carried", "sent"}
  BY DEF Steps, Running
<1>2. {"SUCCESS", "ERROR", "SUPERSEDED", "WAITING_APPROVAL"} \subseteq AttemptStatuses
  BY DEF AttemptStatuses
<1>3. \A c : ControlledStatus(c) \in AttemptStatuses
  BY AttemptStatusType
<1>4. InterruptStatus(r) \in AttemptStatuses
  BY AttemptStatusType
<1>5. ASSUME \E f : \E s \in AttemptStatuses : Settle(w, r, f, s) PROVE Others'
  BY <1>5, SettleOthers
<1>6. ASSUME Drop(w) PROVE Others'
  BY <1>6, <1>2, SettleOthers
<1>7. ASSUME UNCHANGED <<attempt, worker, carried, receipt>> PROVE Others'
  BY <1>7 DEF Others, Attempts
<1>8. ASSUME NEW pc \in Steps, Goto(w, pc), UNCHANGED <<attempt, carried, receipt>> PROVE Others'
  BY <1>8, MoveOthers DEF Others
<1>9. CASE Build(w, r) \/ StartSending(w, r) \/ Notice(w, r)
  <2>1. Drop(w) \/ \E pc \in Steps : Goto(w, pc) /\ UNCHANGED <<attempt, carried, receipt>>
    BY <1>1, <1>9 DEF Build, StartSending, Notice
  <2> QED
    BY <2>1, <1>6, <1>8
<1>10. CASE MarkEffect(w, r) \/ SaveCheckpoint(w, r) \/ RenewLate(w, r)
  BY <1>6, <1>7, <1>10 DEF MarkEffect, SaveCheckpoint, RenewLate
<1>11. CASE Complete(w, r)
  <2>1. \E f : \E s \in AttemptStatuses : Settle(w, r, f, s)
    BY <1>2, <1>3, <1>11, Zenon DEF Complete
  <2> QED
    BY <2>1, <1>5
<1>12. CASE Delivered(w, r) \/ DeliveryUnknown(w, r)
  <2>1. Drop(w) \/ \E f : \E s \in AttemptStatuses : Settle(w, r, f, s)
    BY <1>2, <1>12, Zenon DEF Delivered, DeliveryUnknown
  <2> QED
    BY <2>1, <1>5, <1>6
<1>13. CASE Fail(w, r)
  <2>1. Drop(w) \/ \E f : \E s \in AttemptStatuses : Settle(w, r, f, s)
    BY <1>2, <1>3, <1>13, Zenon DEF Fail
  <2> QED
    BY <2>1, <1>5, <1>6
<1>14. CASE InterruptWorker(w, r)
  <2>1. Drop(w) \/ \E f : \E s \in AttemptStatuses : Settle(w, r, f, s)
    BY <1>4, <1>14, Zenon DEF InterruptWorker
  <2> QED
    BY <2>1, <1>5, <1>6
<1>15. CASE LoseLease(w, r)
  BY <1>6, <1>15 DEF LoseLease
<1>16. CASE Transport(w, r) \/ TransportNotification(w, r)
  <2>1. carried' \in [Rounds -> [answer : Nat, fallback : Nat]]
    BY <1>16, CarriedType, SMTT(30) DEF Transport, TransportNotification, Others
  <2>2. receipt' \subseteq Rounds /\ attempt' = attempt /\ \E pc \in Steps : Goto(w, pc)
    BY <1>1, <1>16 DEF Transport, TransportNotification, Others
  <2> QED
    BY <2>1, <2>2, MoveOthers
<1>17. CASE Journal(w, r)
  <2>1. receipt' \subseteq Rounds
    BY <1>17 DEF Journal, Others
  <2>2. /\ carried' \in [Rounds -> [answer : Nat, fallback : Nat]] /\ attempt' = attempt
        /\ \E pc \in Steps : Goto(w, pc)
    BY <1>1, <1>17 DEF Journal, Others
  <2> QED
    BY <2>1, <2>2, MoveOthers
<1>18. CASE StartNotification(w, r)
  <2> DEFINE x == [worker[w] EXCEPT !.pc = "notifying", !.token = round[r].lease]
  <2>1. CASE Drop(w)
    BY <2>1, <1>6
  <2>2. CASE worker' = [worker EXCEPT ![w] = x] /\ UNCHANGED <<attempt, carried, receipt>>
    <3>1. x \in Worker
      <4>1. worker[w] \in Worker /\ round[r].lease \in 0 .. Notify
        BY DEF Others, Good, Round
      <4> QED
        BY <1>1, <4>1 DEF Worker
    <3> HIDE DEF x
    <3>2. worker' \in [Workers -> Worker]
      BY <2>2, <3>1 DEF Others
    <3> QED
      BY <2>2, <3>2 DEF Others, Attempts
  <2> QED
    BY <1>18, <2>1, <2>2 DEF StartNotification, Others
<1>19. CASE EndNotification(w, r)
  <2>1. Drop(w) \/ (End(w) /\ UNCHANGED <<attempt, carried, receipt>>)
    BY <1>19 DEF EndNotification
  <2>2. IdleWorker \in Worker
    BY Bounds DEF IdleWorker, Worker, Steps
  <2>3. End(w) => worker' \in [Workers -> Worker]
    BY <2>2 DEF End, Others
  <2> QED
    BY <2>1, <2>3, <1>6 DEF Others, Attempts
<1> QED
  BY <1>9, <1>10, <1>11, <1>12, <1>13, <1>14, <1>15, <1>16, <1>17, <1>18, <1>19 DEF WorkerStep

\* Leasing a fallback text keeps the types of the other variables.
LEMMA NotificationOthers ==
  ASSUME Good(round), Others, NEW w \in Workers, ClaimNotification(w)
  PROVE  Others'
<1>1. PICK n \in OneOf({r \in Rounds : FallbackDue(r)}) :
        worker' = IF n = 0 THEN worker
                  ELSE [worker EXCEPT ![w] = [pc |-> "notify", round |-> n, token |-> 0]]
  BY DEF ClaimNotification
<1>2. n \in 0 .. MaxRounds
  BY Bounds DEF OneOf, Rounds
<1> DEFINE x == [pc |-> "notify", round |-> n, token |-> 0]
<1>3. x \in Worker
  BY <1>2, Bounds DEF Worker, Steps
<1>4. worker' = worker \/ worker' = [worker EXCEPT ![w] = x]
  BY <1>1
<1> HIDE DEF x
<1>5. worker' \in [Workers -> Worker]
  BY <1>3, <1>4 DEF Others
<1>6. UNCHANGED <<attempt, carried, receipt>>
  BY DEF ClaimNotification
<1> QED
  BY <1>5, <1>6 DEF Others, Attempts

\* Every human command keeps the types of the other variables.
LEMMA HumanOthers ==
  ASSUME Others, NEW r \in Rounds, HumanStep(r)
  PROVE  Others'
<1>1. NoAttempt \in [1 .. MaxAttempts -> AttemptStatuses]
  BY DEF NoAttempt, AttemptStatuses
<1>2. \A c : FinishAttempt(r, ControlledStatus(c)) \in Attempts
  BY FinishType, AttemptStatusType DEF Others
<1>3. UNCHANGED <<worker, carried, receipt>>
  BY DEF HumanStep, Request, Resume, Restart, DeleteRound, ResolveUnknown
<1>4. \/ attempt' = attempt
      \/ \E c : attempt' = FinishAttempt(r, ControlledStatus(c))
      \/ attempt' = [attempt EXCEPT ![r] = NoAttempt]
  BY DEF HumanStep, Request, Resume, Restart, DeleteRound, ResolveUnknown
<1>5. attempt' \in Attempts
  BY <1>1, <1>2, <1>4 DEF Others, Attempts
<1> QED
  BY <1>3, <1>5 DEF Others, Attempts

\* Every step keeps the types of the other variables.
LEMMA NextOthers ==
  ASSUME Good(round), Others, [Next]_vars
  PROVE  Others'
<1>1. ASSUME NEW m \in Messages, Admit(m) \/ AdmitRead(m) PROVE Others'
  BY <1>1 DEF Admit, AdmitRead, Others, Attempts
<1>6. ASSUME NEW r \in Rounds, RoomStep(r) PROVE Others'
  <2>1. UNCHANGED <<attempt, worker, carried, receipt>>
    BY <1>6 DEF RoomStep, AdmitInsert, AdmitAborts, WakeMerged, WakeRead, WakeCommit, WakeAborts
  <2> QED
    BY <2>1 DEF Others, Attempts
<1>2. ASSUME NEW r \in Rounds, Expire(r) PROVE Others'
  BY <1>2 DEF Expire, Others, Attempts
<1>3. ASSUME NEW w \in Workers, Crash(w) PROVE Others'
  <2>1. Drop(w)
    BY <1>3 DEF Crash
  <2>2. IdleWorker \in Worker
    BY Bounds DEF IdleWorker, Worker, Steps
  <2> QED
    BY <2>1, <2>2 DEF Drop, End, Others, Attempts
<1>4. CASE UNCHANGED vars
  BY <1>4 DEF vars, Others, Attempts
<1>5. CASE Next
  BY <1>1, <1>2, <1>3, <1>5, <1>6, ClaimOthers, WorkerOthers, NotificationOthers, HumanOthers
     DEF Next
<1> QED
  BY <1>4, <1>5

-----------------------------------------------------------------------------
(* Theorems                                                                  *)

IInv == Good(round) /\ Others

\* The initial rounds are well typed and all ABSENT.
LEMMA InitIInv == Init => IInv
<1> SUFFICES ASSUME Init PROVE IInv
  OBVIOUS
<1>1. Good(round)
  <2>1. \A r \in Rounds : round[r].status = "ABSENT"
    BY DEF Init, Absent
  <2> QED
    BY <2>1, AbsentType DEF Init, Good, Processing
<1>2. IdleWorker \in Worker
  BY Bounds DEF IdleWorker, Worker, Steps
<1>3. NoAttempt \in [1 .. MaxAttempts -> AttemptStatuses]
  BY DEF NoAttempt, AttemptStatuses
<1> QED
  BY <1>1, <1>2, <1>3 DEF IInv, Init, Others, Attempts

\* In every behaviour the invariant holds.
LEMMA Invariant == Spec => []IInv
<1>1. IInv /\ [Next]_vars => IInv'
  BY NextGood, NextOthers DEF IInv
<1> QED
  BY <1>1, InitIInv, PTL DEF Spec

\* Every reachable state is well typed: admission, claims, recovery, answers,
\* failures, commands and fallback texts write only values of the schema.
THEOREM TypeCorrect == Spec => []TypeOK
<1>1. IInv => TypeOK
  BY DEF IInv, Good, Others, Attempts, TypeOK
<1> QED
  BY <1>1, Invariant, PTL

\* A room never has two FROZEN or two processed rounds, for any messages,
\* workers, commands and limits: the paths that lock the room look for a FROZEN
\* round before they freeze one and for a processed one before they claim; the
\* waker, which does not lock it, and an admission it overtakes are refused by
\* the unique index of FROZEN rounds.
THEOREM RoundsUnique == Spec => []OneRoundPerRoom
<1>1. IInv => OneRoundPerRoom
  BY DEF IInv, Good, OneRoundPerRoom
<1> QED
  BY <1>1, Invariant, PTL

-----------------------------------------------------------------------------
(* Effects and checkpoints                                                   *)

\* The statuses from which a round may be claimed again.
Reclaimable == {"FROZEN", "CLAIMED", "WAITING_APPROVAL", "WAKING", "ADMITTING"}

\* A change of a row that repeats no effect, revives no deleted round, asks
\* nothing of one, keeps the attempt number and hands no claim to another.
Harmless(q, x) ==
  /\ (x.status \in Reclaimable /\ x.effect) => x.checkpoint = "safe"
  /\ x.status # "DELETED" => (q.status # "DELETED" /\ x.attempts = q.attempts)
  /\ x.status = "CLAIMED" => (q.status = "CLAIMED" /\ x.lease \in {0, q.lease})
  /\ x.status = "DELETED" => x.control = "none"
  /\ x.status = "ADMITTING" => x.attempts = 0

Tame(f, g) == \A s \in Rounds : Harmless(f[s], g[s])

\* The attempt a worker runs was taken before the round's latest one or is it;
\* once past build_turn, it does not own a round that is freshly claimed.
Tokens ==
  \A w \in Workers :
    LET q == round[worker[w].round]
    IN worker[w].pc \in Running =>
         /\ worker[w].round \in Rounds
         /\ worker[w].token # 0
         /\ q.status # "DELETED" => worker[w].token <= q.attempts
         /\ (worker[w].pc # "claimed" /\ q.status = "CLAIMED") => worker[w].token # q.lease

Ended == {"SUCCEEDED", "SUPERSEDED", "ERROR_RESOLVED", "CANCELLED", "PAUSED"}

-----------------------------------------------------------------------------
(* Harmless changes                                                          *)

\* Ending or parking a round is harmless.
LEMMA EndedHarmless ==
  ASSUME NEW q, NEW x, q.status # "DELETED", x.status \in Ended, x.attempts = q.attempts
  PROVE  Harmless(q, x)
BY DEF Harmless, Ended, Reclaimable

\* Freezing a round that is safe to resume is harmless.
LEMMA FrozenHarmless ==
  ASSUME NEW q, NEW x, q.status # "DELETED", x.status = "FROZEN", x.attempts = q.attempts,
         SafeToResume(x)
  PROVE  Harmless(q, x)
BY DEF Harmless, SafeToResume

\* So are the steps of an admission and of the waker from one status in which a
\* round may still be claimed to another.
LEMMA ReclaimHarmless ==
  ASSUME NEW q, NEW x, Harmless(q, q), q.status \in {"WAITING_APPROVAL", "WAKING", "ADMITTING"},
         x.status \in {"WAITING_APPROVAL", "WAKING", "FROZEN"}, x.attempts = q.attempts,
         x.effect = q.effect, x.checkpoint = q.checkpoint
  PROVE  Harmless(q, x)
BY DEF Harmless, Reclaimable

\* So is leaving what the invariant depends on as it was.
LEMMA SameHarmless ==
  ASSUME NEW q, NEW x, Harmless(q, q), x.status = q.status, x.attempts = q.attempts,
         x.lease \in {0, q.lease}, x.effect = q.effect, x.checkpoint = q.checkpoint,
         x.control = q.control
  PROVE  Harmless(q, x)
BY DEF Harmless

\* Replacing one row by a harmless one tames the table.
LEMMA PutTame ==
  ASSUME Good(round), Tame(round, round), NEW r \in Rounds, NEW x, Harmless(round[r], x)
  PROVE  Tame(round, [round EXCEPT ![r] = x])
BY DEF Tame, Good

\* Merging two rounds keeps a table tame.
LEMMA MergeTame ==
  ASSUME NEW f \in [Rounds -> Round], Tame(round, f), NEW source \in Rounds, NEW target \in Rounds,
         source # target
  PROVE  Tame(round, Merge(f, source, target))
<1> DEFINE a == [f[target] EXCEPT !.open = @ \cup f[source].open, !.done = {}]
           b == [f[source] EXCEPT !.resolvedBy = target]
           g == [f EXCEPT ![target] = a, ![source] = b]
<1>1. Merge(f, source, target) = g
  BY DEF Merge, Round
<1>2. /\ a.status = f[target].status /\ a.attempts = f[target].attempts /\ a.lease = f[target].lease
      /\ a.effect = f[target].effect /\ a.checkpoint = f[target].checkpoint
      /\ a.control = f[target].control
  BY DEF Round
<1>3. /\ b.status = f[source].status /\ b.attempts = f[source].attempts /\ b.lease = f[source].lease
      /\ b.effect = f[source].effect /\ b.checkpoint = f[source].checkpoint
      /\ b.control = f[source].control
  BY DEF Round
<1> HIDE DEF a, b
<1>4. ASSUME NEW s \in Rounds PROVE Harmless(round[s], g[s])
  <2>1. Harmless(round[s], f[s])
    BY DEF Tame
  <2>2. g[s] = IF s = source THEN b ELSE IF s = target THEN a ELSE f[s]
    OBVIOUS
  <2>3. /\ g[s].status = f[s].status /\ g[s].attempts = f[s].attempts /\ g[s].lease = f[s].lease
        /\ g[s].effect = f[s].effect /\ g[s].checkpoint = f[s].checkpoint
        /\ g[s].control = f[s].control
    BY <1>2, <1>3, <2>2
  <2> HIDE DEF g
  <2> QED
    BY <2>1, <2>3 DEF Harmless
<1> QED
  BY <1>1, <1>4 DEF Tame

\* What closing and consuming leave of a row.
LEMMA CloseFields ==
  ASSUME NEW q \in Round, NEW s \in Statuses
  PROVE  /\ Close(q, s).status = s /\ Close(q, s).attempts = q.attempts
         /\ Close(q, s).effect = q.effect /\ Close(q, s).checkpoint = q.checkpoint
BY DEF Close, ClearLease, Round

\* Clearing the lease keeps the attempt number, the effect and the checkpoint.
LEMMA ClearFields ==
  ASSUME NEW q \in Round
  PROVE  /\ ClearLease(q).attempts = q.attempts /\ ClearLease(q).effect = q.effect
         /\ ClearLease(q).checkpoint = q.checkpoint
BY DEF ClearLease, Round

\* Consuming the inputs keeps the attempt number.
LEMMA ConsumeFields ==
  ASSUME NEW q \in Round
  PROVE  Consume(q).attempts = q.attempts
BY DEF Consume, Round

\* So does closing a round whose inputs are consumed.
LEMMA ClosedFields ==
  ASSUME NEW q \in Round, NEW s \in Statuses
  PROVE  /\ Close(Consume(q), s) \in Round /\ Close(Consume(q), s).status = s
         /\ Close(Consume(q), s).attempts = q.attempts
<1> DEFINE k == Consume(q)
<1>1. k \in Round /\ k.attempts = q.attempts
  BY ConsumeType, ConsumeFields
<1> HIDE DEF k
<1>2. Close(k, s) \in Round /\ Close(k, s).status = s /\ Close(k, s).attempts = k.attempts
  BY <1>1, CloseType, CloseFields
<1> QED
  BY <1>1, <1>2 DEF k

\* A merge into the successor after the round ended.
LEMMA MergeIntoSuccessor ==
  ASSUME Good(round), Tame(round, round), NEW r \in Rounds, NEW x \in Round,
         Harmless(round[r], x), Successor(r) # 0
  PROVE  Tame(round, Merge([round EXCEPT ![r] = x], r, Successor(r)))
<1> DEFINE s == Successor(r)
           f == [round EXCEPT ![r] = x]
<1>1. s \in Rounds /\ s # r
  BY SuccessorType
<1>2. f \in [Rounds -> Round]
  BY DEF Good
<1>3. Tame(round, f)
  BY PutTame
<1> HIDE DEF f, s
<1>4. Tame(round, Merge(f, r, s))
  BY <1>1, <1>2, <1>3, MergeTame
<1> QED
  BY <1>4 DEF f, s

\* Obeying a command is harmless.
LEMMA ControlledTame ==
  ASSUME Good(round), Tame(round, round), NEW r \in Rounds, NEW c, round[r].status # "DELETED"
  PROVE  Tame(round, Controlled(r, c))
<1> DEFINE q == [ClearLease(round[r]) EXCEPT !.control = "none"]
           s == Successor(r)
           k == Consume(q)
           a == [k EXCEPT !.status = "CANCELLED", !.delivery = "SKIPPED"]
           b == [q EXCEPT !.status = "SUPERSEDED", !.checkpoint = "none"]
           d == [q EXCEPT !.status = "FROZEN", !.brief = TRUE]
           e == [q EXCEPT !.status = "PAUSED"]
<1>1. round[r] \in Round
  BY DEF Good
<1>2. q \in Round /\ q.attempts = round[r].attempts
  <2> DEFINE x == ClearLease(round[r])
  <2>1. x \in Round /\ x.attempts = round[r].attempts
    BY <1>1, ClearLeaseType, ClearFields
  <2> HIDE DEF x
  <2>2. [x EXCEPT !.control = "none"] \in Round /\ [x EXCEPT !.control = "none"].attempts = x.attempts
    BY <2>1 DEF Round
  <2> QED
    BY <2>1, <2>2 DEF x
<1>3. \/ Controlled(r, c) = [round EXCEPT ![r] = a]
      \/ Controlled(r, c) = [round EXCEPT ![r] = e]
      \/ s # 0 /\ Controlled(r, c) = Merge([round EXCEPT ![r] = b], r, s)
      \/ SafeToResume(q) /\ Controlled(r, c) = [round EXCEPT ![r] = d]
  <2>1. CASE c = "stop"
    BY <2>1 DEF Controlled
  <2>2. CASE c = "pause" /\ s # 0
    BY <2>2 DEF Controlled
  <2>3. CASE c = "respond" /\ s = 0 /\ SafeToResume(q)
    BY <2>3 DEF Controlled
  <2>4. CASE ~(c = "stop") /\ ~(c = "pause" /\ s # 0) /\ ~(c = "respond" /\ s = 0 /\ SafeToResume(q))
    BY <2>4 DEF Controlled
  <2> QED
    BY <2>1, <2>2, <2>3, <2>4
<1> HIDE DEF q
<1>4. k \in Round /\ k.attempts = q.attempts
  BY <1>2, ConsumeType, ConsumeFields
<1> HIDE DEF k
<1>5. a.status = "CANCELLED" /\ a.attempts = k.attempts
  BY <1>4 DEF Round
<1>6. /\ b \in Round /\ b.status = "SUPERSEDED" /\ b.attempts = q.attempts
      /\ e.status = "PAUSED" /\ e.attempts = q.attempts
  BY <1>2, QuietStatuses DEF Round
<1>7. /\ d.status = "FROZEN" /\ d.attempts = q.attempts
      /\ d.effect = q.effect /\ d.checkpoint = q.checkpoint
  BY <1>2 DEF Round
<1> HIDE DEF a, b, d, e
<1>8. Harmless(round[r], a) /\ Harmless(round[r], b) /\ Harmless(round[r], e)
  BY <1>2, <1>4, <1>5, <1>6, EndedHarmless DEF Ended
<1>9. SafeToResume(q) => Harmless(round[r], d)
  <2>1. SafeToResume(q) => SafeToResume(d)
    BY <1>7 DEF SafeToResume
  <2> QED
    BY <2>1, <1>2, <1>7, FrozenHarmless
<1>10. Tame(round, [round EXCEPT ![r] = a]) /\ Tame(round, [round EXCEPT ![r] = e])
  BY <1>8, PutTame
<1>11. SafeToResume(q) => Tame(round, [round EXCEPT ![r] = d])
  BY <1>9, PutTame
<1>12. s # 0 => Tame(round, Merge([round EXCEPT ![r] = b], r, s))
  BY <1>6, <1>8, MergeIntoSuccessor
<1> QED
  BY <1>3, <1>10, <1>11, <1>12

\* Interrupting a processed round is harmless.
LEMMA InterruptTame ==
  ASSUME Good(round), Tame(round, round), NEW r \in Rounds, round[r].status \in Processing
  PROVE  Tame(round, InterruptRows(r))
<1> DEFINE q == ClearLease(round[r])
           s == Successor(r)
           k == Consume(q)
           a == [k EXCEPT !.status = "SUCCEEDED", !.delivery = "DELIVERED", !.checkpoint = "none"]
           b == [k EXCEPT !.status = "ERROR_RESOLVED", !.delivery = "UNKNOWN"]
           d == [k EXCEPT !.status = "ERROR_RESOLVED", !.delivery = "PENDING"]
           e == [k EXCEPT !.status = "SUCCEEDED"]
           g == [q EXCEPT !.status = "SUPERSEDED"]
           h == [q EXCEPT !.status = "FROZEN"]
           sending == round[r].delivery = "SENDING"
           free == round[r].control = "none"
<1>1. round[r] \in Round /\ round[r].status # "DELETED"
  BY DEF Good, Processing
<1>2. q \in Round /\ q.attempts = round[r].attempts
  BY <1>1, ClearLeaseType, ClearFields
<1>3. \/ InterruptRows(r) = Controlled(r, round[r].control)
      \/ InterruptRows(r) = [round EXCEPT ![r] = a]
      \/ InterruptRows(r) = [round EXCEPT ![r] = b]
      \/ InterruptRows(r) = [round EXCEPT ![r] = d]
      \/ InterruptRows(r) = [round EXCEPT ![r] = e]
      \/ s # 0 /\ InterruptRows(r) = Merge([round EXCEPT ![r] = g], r, s)
      \/ SafeToResume(q) /\ InterruptRows(r) = [round EXCEPT ![r] = h]
  <2>1. CASE ~free
    BY <2>1 DEF InterruptRows
  <2>2. CASE free /\ sending /\ r \in receipt
    BY <2>2 DEF InterruptRows
  <2>3. CASE free /\ sending /\ r \notin receipt
    BY <2>3 DEF InterruptRows
  <2>4. CASE free /\ ~sending /\ ~SafeToResume(q)
    BY <2>4 DEF InterruptRows
  <2>5. CASE free /\ ~sending /\ SafeToResume(q) /\ s # 0
    BY <2>5 DEF InterruptRows
  <2>6. CASE free /\ ~sending /\ SafeToResume(q) /\ s = 0
    BY <2>6 DEF InterruptRows
  <2> QED
    BY <2>1, <2>2, <2>3, <2>4, <2>5, <2>6
<1> HIDE DEF q
<1>4. k \in Round /\ k.attempts = q.attempts
  BY <1>2, ConsumeType, ConsumeFields
<1> HIDE DEF k
<1>5. /\ a.status \in Ended /\ a.attempts = k.attempts
      /\ b.status \in Ended /\ b.attempts = k.attempts
      /\ d.status \in Ended /\ d.attempts = k.attempts
      /\ e.status \in Ended /\ e.attempts = k.attempts
  BY <1>4 DEF Round, Ended
<1>6. /\ g \in Round /\ g.status \in Ended /\ g.attempts = q.attempts
      /\ h.status = "FROZEN" /\ h.attempts = q.attempts
      /\ h.effect = q.effect /\ h.checkpoint = q.checkpoint
  BY <1>2, QuietStatuses DEF Round, Ended
<1> HIDE DEF a, b, d, e, g, h
<1>7. /\ Harmless(round[r], a) /\ Harmless(round[r], b) /\ Harmless(round[r], d)
      /\ Harmless(round[r], e) /\ Harmless(round[r], g)
  BY <1>1, <1>2, <1>4, <1>5, <1>6, EndedHarmless
<1>8. SafeToResume(q) => Harmless(round[r], h)
  <2>1. SafeToResume(q) => SafeToResume(h)
    BY <1>6 DEF SafeToResume
  <2> QED
    BY <2>1, <1>1, <1>2, <1>6, FrozenHarmless
<1>9. /\ Tame(round, [round EXCEPT ![r] = a]) /\ Tame(round, [round EXCEPT ![r] = b])
      /\ Tame(round, [round EXCEPT ![r] = d]) /\ Tame(round, [round EXCEPT ![r] = e])
  BY <1>7, PutTame
<1>10. SafeToResume(q) => Tame(round, [round EXCEPT ![r] = h])
  BY <1>8, PutTame
<1>11. s # 0 => Tame(round, Merge([round EXCEPT ![r] = g], r, s))
  BY <1>6, <1>7, MergeIntoSuccessor
<1>12. Tame(round, Controlled(r, round[r].control))
  BY <1>1, ControlledTame
<1> QED
  BY <1>3, <1>9, <1>10, <1>11, <1>12

\* So is a failed attempt.
LEMMA FailTame ==
  ASSUME Good(round), Tame(round, round), NEW r \in Rounds, round[r].status \in Processing
  PROVE  Tame(round, FailRows(r))
<1> DEFINE q == round[r]
           s == Successor(r)
           k == Close(Consume(q), "ERROR_RESOLVED")
           a == Close(q, "SUPERSEDED")
           b == Close(q, "FROZEN")
           d == [k EXCEPT !.delivery = "PENDING"]
<1>1. q \in Round /\ q.status # "DELETED"
  BY DEF Good, Processing
<1>2. \/ s # 0 /\ FailRows(r) = Merge([round EXCEPT ![r] = a], r, s)
      \/ ~q.effect /\ FailRows(r) = [round EXCEPT ![r] = b]
      \/ FailRows(r) = [round EXCEPT ![r] = d]
  <2>1. CASE s # 0 /\ ~q.effect
    BY <2>1 DEF FailRows
  <2>2. CASE s = 0 /\ ~q.effect /\ Failures(r) < MaxFailures
    BY <2>2 DEF FailRows
  <2>3. CASE ~(s # 0 /\ ~q.effect) /\ ~(s = 0 /\ ~q.effect /\ Failures(r) < MaxFailures)
    BY <2>3 DEF FailRows
  <2> QED
    BY <2>1, <2>2, <2>3
<1>3. k \in Round /\ k.status = "ERROR_RESOLVED" /\ k.attempts = q.attempts
  BY <1>1, ClosedFields, QuietStatuses
<1>4. /\ a \in Round /\ a.status = "SUPERSEDED" /\ a.attempts = q.attempts
      /\ b.status = "FROZEN" /\ b.attempts = q.attempts /\ b.effect = q.effect
  BY <1>1, CloseType, CloseFields, QuietStatuses
<1> HIDE DEF k, a, b
<1>5. d.status = "ERROR_RESOLVED" /\ d.attempts = k.attempts
  BY <1>3 DEF Round
<1> HIDE DEF d
<1>6. Harmless(q, a) /\ Harmless(q, d)
  BY <1>1, <1>3, <1>4, <1>5, EndedHarmless DEF Ended
<1>7. ~q.effect => Harmless(q, b)
  BY <1>1, <1>4 DEF Harmless
<1>8. s # 0 => Tame(round, Merge([round EXCEPT ![r] = a], r, s))
  BY <1>4, <1>6, MergeIntoSuccessor
<1>9. Tame(round, [round EXCEPT ![r] = d]) /\ (~q.effect => Tame(round, [round EXCEPT ![r] = b]))
  BY <1>6, <1>7, PutTame
<1> QED
  BY <1>2, <1>8, <1>9

\* complete_round, before the answer, is harmless.
LEMMA CompleteTame ==
  ASSUME Good(round), Tame(round, round), NEW w \in Workers, NEW r \in Rounds, Complete(w, r)
  PROVE  Tame(round, round')
<1> DEFINE q == round[r]
           s == Successor(r)
           a == Close(q, "WAITING_APPROVAL")
           b == Close(q, "FROZEN")
           d == Close(q, "SUPERSEDED")
           e == Close(Consume(q), "SUCCEEDED")
           g == [e EXCEPT !.delivery = "SKIPPED", !.checkpoint = "none"]
<1>1. q \in Round /\ q.status = "RUNNING"
  BY DEF Good, Complete
<1>2. \/ round' = Controlled(r, round[r].control)
      \/ q.checkpoint = "safe" /\ round' = [round EXCEPT ![r] = a]
      \/ ~q.effect /\ round' = [round EXCEPT ![r] = b]
      \/ s # 0 /\ round' = Merge([round EXCEPT ![r] = d], r, s)
      \/ round' = [round EXCEPT ![r] = e]
      \/ round' = [round EXCEPT ![r] = g]
  BY DEF Complete, Settle
<1>3. /\ a.status = "WAITING_APPROVAL" /\ a.attempts = q.attempts /\ a.checkpoint = q.checkpoint
      /\ b.status = "FROZEN" /\ b.attempts = q.attempts /\ b.effect = q.effect
      /\ d \in Round /\ d.status = "SUPERSEDED" /\ d.attempts = q.attempts
  <2>1. {"WAITING_APPROVAL", "FROZEN", "SUPERSEDED"} \subseteq Statuses
    BY QuietStatuses
  <2> HIDE DEF q
  <2> QED
    BY <1>1, <2>1, CloseType, CloseFields
<1>4. e \in Round /\ e.status = "SUCCEEDED" /\ e.attempts = q.attempts
  BY <1>1, ClosedFields, QuietStatuses
<1> HIDE DEF a, b, d, e
<1>5. g.status = "SUCCEEDED" /\ g.attempts = e.attempts
  BY <1>4 DEF Round
<1> HIDE DEF g
<1>6. Harmless(q, d) /\ Harmless(q, e) /\ Harmless(q, g)
  BY <1>1, <1>3, <1>4, <1>5, EndedHarmless DEF Ended
<1>7. (q.checkpoint = "safe" => Harmless(q, a)) /\ (~q.effect => Harmless(q, b))
  BY <1>1, <1>3 DEF Harmless
<1>8. /\ Tame(round, [round EXCEPT ![r] = e]) /\ Tame(round, [round EXCEPT ![r] = g])
      /\ q.checkpoint = "safe" => Tame(round, [round EXCEPT ![r] = a])
      /\ ~q.effect => Tame(round, [round EXCEPT ![r] = b])
  BY <1>6, <1>7, PutTame
<1>9. s # 0 => Tame(round, Merge([round EXCEPT ![r] = d], r, s))
  BY <1>3, <1>6, MergeIntoSuccessor
<1>10. Tame(round, Controlled(r, round[r].control))
  BY <1>1, ControlledTame
<1> QED
  BY <1>2, <1>8, <1>9, <1>10

\* complete_round, after the transport, is harmless.
LEMMA DeliveryTame ==
  ASSUME Good(round), Tame(round, round), NEW w \in Workers, NEW r \in Rounds,
         Delivered(w, r) \/ DeliveryUnknown(w, r)
  PROVE  Tame(round, round')
<1> DEFINE e == Close(Consume(round[r]), "SUCCEEDED")
           u == Close(Consume(round[r]), "ERROR_RESOLVED")
           g == [e EXCEPT !.delivery = "DELIVERED", !.checkpoint = "none"]
           h == [u EXCEPT !.delivery = "UNKNOWN"]
<1>1. round[r] \in Round
  BY DEF Good
<1>2. \/ round' = round
      \/ round[r].status \in Processing /\ round' = [round EXCEPT ![r] = g]
      \/ round[r].status \in Processing /\ round' = [round EXCEPT ![r] = h]
  BY DEF Delivered, DeliveryUnknown, Settle, Drop, Owns
<1>3. /\ e \in Round /\ e.status = "SUCCEEDED" /\ e.attempts = round[r].attempts
      /\ u \in Round /\ u.status = "ERROR_RESOLVED" /\ u.attempts = round[r].attempts
  BY <1>1, ClosedFields, QuietStatuses
<1> HIDE DEF e, u
<1>4. /\ g.status = "SUCCEEDED" /\ g.attempts = e.attempts
      /\ h.status = "ERROR_RESOLVED" /\ h.attempts = u.attempts
  BY <1>3 DEF Round
<1> HIDE DEF g, h
<1>5. round[r].status \in Processing => (Harmless(round[r], g) /\ Harmless(round[r], h))
  BY <1>3, <1>4, EndedHarmless DEF Ended, Processing
<1> QED
  BY <1>2, <1>5, PutTame

\* Superseding the waiting rounds is harmless.
LEMMA SupersededTame ==
  ASSUME NEW f \in [Rounds -> Round], Tame(round, f), NEW target \in Rounds,
         f[target].status = "FROZEN"
  PROVE  Tame(round, Superseded(f, target))
<1> DEFINE waiting == {s \in Rounds : f[s].status \in {"WAITING_APPROVAL", "PAUSED"}}
           merged  == {s \in waiting : f[s].status = "PAUSED" \/ ~f[s].effect}
           more == UNION {f[x].open : x \in merged}
           a == [f[target] EXCEPT !.open = @ \cup more, !.done = {}]
           b(s) == [f[s] EXCEPT !.status = "SUPERSEDED", !.checkpoint = "none",
                                !.resolvedBy = IF s \in merged THEN target ELSE @]
<1>1. ASSUME NEW s \in Rounds
      PROVE  \/ Superseded(f, target)[s] = f[s]
             \/ f[s].status # "DELETED" /\ Superseded(f, target)[s] = b(s)
             \/ s = target /\ Superseded(f, target)[s] = a
  <2>1. CASE s = target /\ s \notin waiting
    BY <2>1 DEF Superseded
  <2>2. CASE s # target /\ s \in waiting
    BY <2>2 DEF Superseded
  <2>3. CASE s # target /\ s \notin waiting
    BY <2>3 DEF Superseded
  <2>4. target \notin waiting
    OBVIOUS
  <2> QED
    BY <2>1, <2>2, <2>3, <2>4
<1> HIDE DEF merged, waiting
<1>2. ASSUME NEW s \in Rounds PROVE b(s).status = "SUPERSEDED" /\ b(s).attempts = f[s].attempts
  BY DEF Round
<1> HIDE DEF more
<1>3. /\ a.status = f[target].status /\ a.attempts = f[target].attempts
      /\ a.lease = f[target].lease /\ a.effect = f[target].effect
      /\ a.checkpoint = f[target].checkpoint /\ a.control = f[target].control
  BY DEF Round
<1> HIDE DEF a, b
<1>4. ASSUME NEW s \in Rounds PROVE Harmless(round[s], Superseded(f, target)[s])
  <2>1. Harmless(round[s], f[s])
    BY DEF Tame
  <2>2. f[s].status # "DELETED" => Harmless(round[s], b(s))
    BY <2>1, <1>2 DEF Harmless, Reclaimable
  <2>3. s = target => Harmless(round[s], a)
    BY <2>1, <1>3 DEF Harmless
  <2> QED
    BY <1>1, <2>1, <2>2, <2>3
<1> QED
  BY <1>4 DEF Tame

\* Creating a round is harmless.
LEMMA FreshHarmless ==
  ASSUME NEW open \in SUBSET Messages
  PROVE  /\ FreshRound(open).attempts = 0 /\ ~FreshRound(open).effect
         /\ Harmless(Absent, FreshRound(open))
<1>1. /\ FreshRound(open).attempts = 0 /\ FreshRound(open).effect = FALSE
      /\ FreshRound(open).status = "FROZEN"
  BY DEF FreshRound, Absent
<1>2. Absent.status = "ABSENT" /\ Absent.attempts = 0
  BY DEF Absent
<1> QED
  BY <1>1, <1>2 DEF Harmless

\* Admission is harmless: a message joins only a round without effects.
LEMMA AdmitTame ==
  ASSUME Good(round), Tame(round, round), NEW m \in Messages, Admit(m)
  PROVE  Tame(round, round')
<1> DEFINE f == ClosedSuspended
           b(s) == [Consume(round[s]) EXCEPT !.status = "SUCCEEDED", !.delivery = "SKIPPED",
                                              !.checkpoint = "none"]
<1>1. ASSUME NEW s \in Rounds PROVE round[s] \in Round
  BY DEF Good
<1>2. ASSUME NEW s \in Rounds
      PROVE  b(s) \in Round /\ b(s).status = "SUCCEEDED" /\ b(s).attempts = round[s].attempts
  <2> DEFINE k == Consume(round[s])
             x == [k EXCEPT !.status = "SUCCEEDED", !.delivery = "SKIPPED", !.checkpoint = "none"]
  <2>1. k \in Round /\ k.attempts = round[s].attempts
    BY <1>1, ConsumeType, ConsumeFields
  <2> HIDE DEF k
  <2>2. x \in Round /\ x.status = "SUCCEEDED" /\ x.attempts = k.attempts
    BY <2>1, QuietStatuses DEF Round
  <2> QED
    BY <2>1, <2>2 DEF k
<1>3. ASSUME NEW s \in Rounds
      PROVE  f[s] = IF round[s].status = "FROZEN" /\ round[s].effect THEN b(s) ELSE round[s]
  BY DEF ClosedSuspended
<1>4. f = [s \in Rounds |-> f[s]]
  BY DEF ClosedSuspended
<1> HIDE DEF f, b
<1>5. f \in [Rounds -> Round]
  BY <1>1, <1>2, <1>3, <1>4
<1>6. ASSUME NEW s \in Rounds PROVE Harmless(round[s], f[s])
  <2>1. Harmless(round[s], round[s])
    BY DEF Tame
  <2>2. round[s].status = "FROZEN" => Harmless(round[s], b(s))
    BY <1>2, EndedHarmless DEF Ended
  <2> QED
    BY <1>3, <2>1, <2>2
<1>7. ASSUME NEW r \in Joinable, round' = Superseded([f EXCEPT ![r].open = @ \cup {m}], r)
      PROVE  Tame(round, round')
  <2> DEFINE q == [f[r] EXCEPT !.open = @ \cup {m}]
             g == [f EXCEPT ![r] = q]
  <2>1. r \in Rounds /\ f[r] \in Round /\ f[r].status = "FROZEN"
    BY <1>3, <1>5 DEF Joinable
  <2>2. /\ q \in Round
        /\ q.status = f[r].status /\ q.attempts = f[r].attempts /\ q.lease = f[r].lease
        /\ q.effect = f[r].effect /\ q.checkpoint = f[r].checkpoint
        /\ q.control = f[r].control
    <3>1. f[r].open \cup {m} \in SUBSET Messages
      BY <2>1 DEF Round
    <3> QED
      BY <2>1, <3>1 DEF Round
  <2>3. [f EXCEPT ![r].open = @ \cup {m}] = g
    BY <1>5, <2>1
  <2> HIDE DEF q
  <2>4. Harmless(round[r], q)
    BY <1>6, <2>1, <2>2 DEF Harmless
  <2>5. g \in [Rounds -> Round] /\ g[r] = q /\ Tame(round, g)
    BY <1>5, <1>6, <2>1, <2>2, <2>4 DEF Tame
  <2> HIDE DEF g
  <2>6. g[r].status = "FROZEN"
    BY <2>1, <2>2, <2>5
  <2> QED
    BY <1>7, <2>1, <2>3, <2>5, <2>6, SupersededTame
<1>8. ASSUME Unused # {}, round' = Superseded([f EXCEPT ![NextRound] = FreshRound({m})], NextRound)
      PROVE  Tame(round, round')
  <2> DEFINE n == NextRound
             q == FreshRound({m})
             g == [f EXCEPT ![n] = q]
  <2>1. n \in Rounds /\ round[n] = Absent
    BY <1>8, NextRoundType
  <2>2. q \in Round /\ q.status = "FROZEN" /\ Harmless(Absent, q)
    BY FreshType, FreshHarmless
  <2>3. round' = Superseded(g, n)
    BY <1>8
  <2> HIDE DEF n, q
  <2>4. g \in [Rounds -> Round] /\ g[n] = q /\ Tame(round, g)
    BY <1>5, <1>6, <2>1, <2>2 DEF Tame
  <2> HIDE DEF g
  <2> QED
    BY <2>1, <2>2, <2>3, <2>4, SupersededTame
<1>9. \/ \E r \in Joinable : round' = Superseded([f EXCEPT ![r].open = @ \cup {m}], r)
      \/ /\ Unused # {}
         /\ round' = Superseded([f EXCEPT ![NextRound] = FreshRound({m})], NextRound)
  BY DEF Admit, f
<1> QED
  BY <1>7, <1>8, <1>9

\* So is an admission in two steps.
LEMMA AdmitStepsTame ==
  ASSUME Good(round), Tame(round, round), NEW r \in Rounds,
         (\E m \in Messages : AdmitRead(m)) \/ AdmitInsert(r) \/ AdmitAborts(r)
  PROVE  Tame(round, round')
<1>1. /\ round \in [Rounds -> Round] /\ round[r] \in Round
      /\ \A s \in Rounds : Harmless(round[s], round[s])
  BY DEF Good, Tame
<1>2. Absent.status = "ABSENT" /\ Absent.attempts = 0
  BY DEF Absent
<1>3. ASSUME NEW m \in Messages, AdmitRead(m) PROVE Tame(round, round')
  <2> DEFINE x == [Absent EXCEPT !.status = "ADMITTING", !.open = {m}]
  <2>1. /\ NextRound \in Rounds /\ round[NextRound] = Absent
        /\ round' = [round EXCEPT ![NextRound] = x]
    BY <1>3, NextRoundType DEF AdmitRead
  <2>2. x.status = "ADMITTING" /\ x.attempts = 0 /\ x.effect = FALSE
    BY AdmittingType
  <2> HIDE DEF x
  <2>3. Harmless(Absent, x)
    BY <1>2, <2>2 DEF Harmless
  <2> QED
    BY <2>1, <2>3, PutTame
<1>4. CASE AdmitInsert(r)
  <2> DEFINE x == [round[r] EXCEPT !.status = "FROZEN"]
             f == [round EXCEPT ![r] = x]
  <2>1. round' = Superseded(f, r) /\ round[r].status = "ADMITTING"
    BY <1>1, <1>4 DEF AdmitInsert
  <2>2. /\ x \in Round /\ x.status = "FROZEN" /\ x.attempts = round[r].attempts
        /\ x.effect = round[r].effect /\ x.checkpoint = round[r].checkpoint
    BY <1>1, QuietStatuses DEF Round
  <2> HIDE DEF x
  <2>3. Harmless(round[r], x)
    BY <1>1, <2>1, <2>2, ReclaimHarmless
  <2>4. f \in [Rounds -> Round] /\ f[r].status = "FROZEN" /\ Tame(round, f)
    BY <1>1, <2>2, <2>3, PutTame
  <2> HIDE DEF f
  <2> QED
    BY <2>1, <2>4, SupersededTame
<1>5. CASE AdmitAborts(r)
  <2>1. round' = [round EXCEPT ![r] = Absent] /\ round[r].status = "ADMITTING"
    BY <1>5 DEF AdmitAborts
  <2>2. Harmless(round[r], Absent)
    BY <1>1, <1>2, <2>1 DEF Harmless, Reclaimable
  <2> QED
    BY <2>1, <2>2, PutTame
<1> QED
  BY <1>3, <1>4, <1>5

-----------------------------------------------------------------------------
(* Every step but a claim is harmless                                        *)

\* Setting a field the invariant does not depend on, on one row.
LEMMA PutSameTame ==
  ASSUME Good(round), Tame(round, round), NEW r \in Rounds, NEW x,
         x.status = round[r].status, x.attempts = round[r].attempts,
         x.lease \in {0, round[r].lease}, x.effect = round[r].effect,
         x.checkpoint = round[r].checkpoint, x.control = round[r].control
  PROVE  Tame(round, [round EXCEPT ![r] = x])
<1>1. Harmless(round[r], round[r])
  BY DEF Tame
<1>2. Harmless(round[r], x)
  BY <1>1, SameHarmless
<1> QED
  BY <1>2, PutTame

\* Anything that keeps a round RUNNING, or makes it so, and its attempt.
LEMMA PutRunningTame ==
  ASSUME Good(round), Tame(round, round), NEW r \in Rounds, NEW x, x.status = "RUNNING",
         round[r].status # "DELETED", x.attempts = round[r].attempts
  PROVE  Tame(round, [round EXCEPT ![r] = x])
<1>1. Harmless(round[r], x)
  BY DEF Harmless, Reclaimable
<1> QED
  BY <1>1, PutTame

\* The expiry of a lease, or its late renewal, is harmless.
LEMMA ExpireTame ==
  ASSUME Good(round), Tame(round, round), NEW r \in Rounds,
         Expire(r) \/ \E w \in Workers : RenewLate(w, r)
  PROVE  Tame(round, round')
<1>1. round \in [Rounds -> Round] /\ round[r] \in Round
  BY DEF Good
<1>4. PICK b \in BOOLEAN : round' = [round EXCEPT ![r].live = b]
  BY DEF Expire, RenewLate
<1> DEFINE x == [round[r] EXCEPT !.live = b]
<1>2. round' = [round EXCEPT ![r] = x]
  BY <1>1, <1>4
<1>3. /\ x.status = round[r].status /\ x.attempts = round[r].attempts
      /\ x.lease \in {0, round[r].lease} /\ x.effect = round[r].effect
      /\ x.checkpoint = round[r].checkpoint /\ x.control = round[r].control
  BY <1>1 DEF Round
<1> HIDE DEF x
<1> QED
  BY <1>2, <1>3, PutSameTame

\* build_turn, the first effect and the start of the send.
LEMMA RunningTame ==
  ASSUME Good(round), Tame(round, round), NEW w \in Workers, NEW r \in Rounds,
         Build(w, r) \/ MarkEffect(w, r) \/ StartSending(w, r)
  PROVE  Tame(round, round')
<1> DEFINE a == [round[r] EXCEPT !.status = "RUNNING"]
           b == [round[r] EXCEPT !.effect = TRUE]
           d == [round[r] EXCEPT !.delivery = "SENDING", !.effect = TRUE]
<1>1. round \in [Rounds -> Round] /\ round[r] \in Round
  BY DEF Good
<1>2. \/ round' = round
      \/ round[r].status \in Processing /\ round' = [round EXCEPT ![r] = a]
      \/ round[r].status = "RUNNING" /\ round' = [round EXCEPT ![r] = b]
      \/ round[r].status = "RUNNING" /\ round' = [round EXCEPT ![r] = d]
  BY <1>1 DEF Build, MarkEffect, StartSending, Drop, Owns
<1>3. /\ a.status = "RUNNING" /\ a.attempts = round[r].attempts
      /\ b.status = round[r].status /\ b.attempts = round[r].attempts
      /\ d.status = round[r].status /\ d.attempts = round[r].attempts
  BY <1>1 DEF Round
<1> HIDE DEF a, b, d
<1>4. round[r].status \in Processing => Tame(round, [round EXCEPT ![r] = a])
  BY <1>3, PutRunningTame DEF Processing
<1>5. round[r].status = "RUNNING" =>
        (Tame(round, [round EXCEPT ![r] = b]) /\ Tame(round, [round EXCEPT ![r] = d]))
  BY <1>3, PutRunningTame
<1> QED
  BY <1>2, <1>4, <1>5

\* A checkpoint is written while the round is RUNNING: the worker that writes
\* it holds the lease, so by Tokens the round was not claimed again.
LEMMA CheckpointTame ==
  ASSUME Good(round), Tame(round, round), Tokens, NEW w \in Workers, NEW r \in Rounds,
         SaveCheckpoint(w, r)
  PROVE  Tame(round, round')
<1>1. round \in [Rounds -> Round] /\ round[r] \in Round
  BY DEF Good
<1>2. CASE ~Owns(w, r)
  BY <1>2 DEF SaveCheckpoint, Drop
<1>3. CASE Owns(w, r)
  <2>1. PICK c \in {"safe", "unsafe"} : round' = [round EXCEPT ![r].checkpoint = c]
    BY <1>3 DEF SaveCheckpoint
  <2> DEFINE x == [round[r] EXCEPT !.checkpoint = c]
  <2>2. round' = [round EXCEPT ![r] = x]
    BY <1>1, <2>1
  <2>3. round[r].status = "RUNNING"
    <3>1. worker[w].pc = "running" /\ worker[w].round = r
      BY DEF SaveCheckpoint, At
    <3>2. round[r].status \in Processing /\ round[r].lease = worker[w].token
      BY <1>3 DEF Owns
    <3> QED
      BY <3>1, <3>2 DEF Tokens, Running, Processing
  <2>4. x.status = round[r].status /\ x.attempts = round[r].attempts
    BY <1>1 DEF Round
  <2> HIDE DEF x
  <2> QED
    BY <2>2, <2>3, <2>4, PutRunningTame
<1> QED
  BY <1>2, <1>3

\* The end of a fallback text is harmless.
LEMMA EndNotificationTame ==
  ASSUME Good(round), Tame(round, round), NEW w \in Workers, NEW r \in Rounds,
         EndNotification(w, r)
  PROVE  Tame(round, round')
<1> DEFINE k == ClearLease(round[r])
           x(d) == [k EXCEPT !.delivery = d]
<1>1. round \in [Rounds -> Round] /\ round[r] \in Round
  BY DEF Good
<1>2. round' = round \/ \E d \in {"UNKNOWN", "DELIVERED"} : round' = [round EXCEPT ![r] = x(d)]
  BY DEF EndNotification, Drop
<1>3. /\ k \in Round /\ k.status = round[r].status /\ k.attempts = round[r].attempts
      /\ k.lease = 0 /\ k.effect = round[r].effect
      /\ k.checkpoint = round[r].checkpoint /\ k.control = round[r].control
  BY <1>1, ClearLeaseType DEF ClearLease, Round
<1> HIDE DEF k
<1>4. ASSUME NEW d
      PROVE  /\ x(d).status = round[r].status /\ x(d).attempts = round[r].attempts
             /\ x(d).lease \in {0, round[r].lease} /\ x(d).effect = round[r].effect
             /\ x(d).checkpoint = round[r].checkpoint /\ x(d).control = round[r].control
  BY <1>3 DEF Round
<1> HIDE DEF x
<1>5. ASSUME NEW d PROVE Tame(round, [round EXCEPT ![r] = x(d)])
  BY <1>4, PutSameTame
<1> QED
  BY <1>2, <1>5

\* Every step of a worker is harmless.
LEMMA WorkerTame ==
  ASSUME Good(round), Tame(round, round), Tokens, NEW w \in Workers, NEW r \in Rounds,
         WorkerStep(w, r)
  PROVE  Tame(round, round')
<1>1. CASE Build(w, r) \/ MarkEffect(w, r) \/ StartSending(w, r)
  BY <1>1, RunningTame
<1>2. CASE SaveCheckpoint(w, r)
  BY <1>2, CheckpointTame
<1>3. CASE Complete(w, r)
  BY <1>3, CompleteTame
<1>4. CASE Delivered(w, r) \/ DeliveryUnknown(w, r)
  BY <1>4, DeliveryTame
<1>5. CASE Fail(w, r)
  <2>1. \/ round' = round
        \/ round[r].status \in Processing /\ round' = Controlled(r, round[r].control)
        \/ round[r].status \in Processing /\ round' = FailRows(r)
    BY <1>5 DEF Fail, Drop, Settle, Owns
  <2>2. round[r].status \in Processing => round[r].status # "DELETED"
    BY DEF Processing
  <2> QED
    BY <2>1, <2>2, ControlledTame, FailTame
<1>6. CASE InterruptWorker(w, r)
  <2>1. \/ round' = round
        \/ round[r].status \in Processing /\ round' = InterruptRows(r)
    BY <1>6 DEF InterruptWorker, Drop, Settle
  <2> QED
    BY <2>1, InterruptTame
<1>7. CASE EndNotification(w, r)
  BY <1>7, EndNotificationTame
<1>8. CASE Notice(w, r) \/ Transport(w, r) \/ Journal(w, r) \/ LoseLease(w, r)
            \/ StartNotification(w, r) \/ TransportNotification(w, r)
  <2>1. round' = round
    BY <1>8 DEF Notice, Transport, Journal, LoseLease, StartNotification, TransportNotification, Drop
  <2> QED
    BY <2>1
<1>9. CASE RenewLate(w, r)
  BY <1>9, ExpireTame
<1> QED
  BY <1>1, <1>2, <1>3, <1>4, <1>5, <1>6, <1>7, <1>8, <1>9 DEF WorkerStep

\* Leasing a fallback text is harmless.
LEMMA NotificationTame ==
  ASSUME Good(round), Tame(round, round), NEW w \in Workers, ClaimNotification(w)
  PROVE  Tame(round, round')
<1> DEFINE E == {r \in Rounds : /\ round[r].status = "ERROR_RESOLVED"
                                /\ round[r].delivery = "SENDING" /\ ~round[r].live}
           N == {r \in Rounds : FallbackDue(r)}
           a(r) == [ClearLease(round[r]) EXCEPT !.delivery = "UNKNOWN"]
           b(r) == [round[r] EXCEPT !.delivery = "SENDING", !.lease = Notify, !.live = TRUE]
<1>1. PICK e \in OneOf(E), n \in OneOf(N) :
        round' = [r \in Rounds |-> CASE r = e -> a(r) [] r = n -> b(r) [] OTHER -> round[r]]
  BY DEF ClaimNotification
<1>2. 0 \notin Rounds
  BY Bounds DEF Rounds
<1>3. /\ e \in Rounds => round[e].status = "ERROR_RESOLVED"
      /\ n \in Rounds => round[n].status = "ERROR_RESOLVED"
  BY <1>2 DEF OneOf, FallbackDue
<1>4. ASSUME NEW r \in Rounds
      PROVE  /\ a(r).status = round[r].status /\ a(r).attempts = round[r].attempts
             /\ b(r).status = round[r].status /\ b(r).attempts = round[r].attempts
  <2>1. round[r] \in Round
    BY DEF Good
  <2> QED
    BY <2>1 DEF ClearLease, Round
<1> HIDE DEF a, b
<1>5. ASSUME NEW r \in Rounds
      PROVE  \/ round'[r] = round[r]
             \/ /\ round[r].status = "ERROR_RESOLVED"
                /\ round'[r] = a(r) \/ round'[r] = b(r)
  <2>1. CASE r = e /\ r # n
    BY <1>1, <1>3, <2>1
  <2>2. CASE r # e /\ r = n
    BY <1>1, <1>3, <2>2
  <2>3. CASE r # e /\ r # n
    BY <1>1, <2>3
  <2>4. CASE r = e /\ r = n
    BY <1>1, <1>3, <2>4
  <2> QED
    BY <2>1, <2>2, <2>3, <2>4
<1>6. ASSUME NEW r \in Rounds PROVE Harmless(round[r], round'[r])
  <2>1. Harmless(round[r], round[r])
    BY DEF Tame
  <2> QED
    BY <1>4, <1>5, <2>1 DEF Harmless, Reclaimable
<1> QED
  BY <1>6 DEF Tame

\* A deleted round accepts no command.
LEMMA NoCommandForDeleted ==
  ASSUME NEW q \in Round, q.status = "DELETED", q.control = "none"
  PROVE  Available(q) = {}
<1>1. CASE q.delivery \in {"SENDING", "UNKNOWN", "DELIVERED"}
  BY <1>1 DEF Available
<1>2. CASE q.delivery \in {"PENDING", "SKIPPED"}
  BY <1>2 DEF Available, Processing
<1> QED
  BY <1>1, <1>2 DEF Round, Deliveries

\* A command is harmless, recorded or obeyed at once.
LEMMA RequestTame ==
  ASSUME Good(round), Tame(round, round), NEW r \in Rounds, NEW c, Request(r, c)
  PROVE  Tame(round, round')
<1> DEFINE x == [round[r] EXCEPT !.control = c]
<1>1. round \in [Rounds -> Round] /\ round[r] \in Round /\ Harmless(round[r], round[r])
  BY DEF Good, Tame
<1>2. round[r].status # "DELETED"
  <2>1. c \in Available(round[r])
    BY DEF Request
  <2> QED
    BY <1>1, <2>1, NoCommandForDeleted DEF Harmless
<1>3. round' = Controlled(r, c) \/ (round[r].status \in Processing /\ round' = [round EXCEPT ![r] = x])
  BY <1>1 DEF Request
<1>4. /\ x.status = round[r].status /\ x.attempts = round[r].attempts /\ x.lease = round[r].lease
      /\ x.effect = round[r].effect /\ x.checkpoint = round[r].checkpoint
  BY <1>1 DEF Round
<1> HIDE DEF x
<1>5. Harmless(round[r], x)
  BY <1>1, <1>2, <1>4 DEF Harmless
<1> QED
  BY <1>2, <1>3, <1>5, ControlledTame, PutTame

\* Resuming is harmless: the checkpoint is examined first.
LEMMA ResumeTame ==
  ASSUME Good(round), Tame(round, round), NEW r \in Rounds, NEW c, Resume(r, c)
  PROVE  Tame(round, round')
<1> DEFINE x == [round[r] EXCEPT !.status = "FROZEN", !.control = "none",
                                 !.brief = IF c = "respond" THEN TRUE ELSE round[r].brief]
<1>1. round[r] \in Round
  BY DEF Good
<1>2. round' = [round EXCEPT ![r] = x]
  BY DEF Resume
<1>3. round[r].status = "PAUSED" /\ SafeToResume(round[r])
  BY DEF Resume
<1>4. /\ x.status = "FROZEN" /\ x.attempts = round[r].attempts
      /\ x.effect = round[r].effect /\ x.checkpoint = round[r].checkpoint
  BY <1>1 DEF Round
<1> HIDE DEF x
<1>5. SafeToResume(x)
  BY <1>3, <1>4 DEF SafeToResume
<1>6. Harmless(round[r], x)
  BY <1>3, <1>4, <1>5, FrozenHarmless
<1> QED
  BY <1>2, <1>6, PutTame

\* A restart is harmless: the new round inherits effects and checkpoint.
LEMMA RestartTame ==
  ASSUME Good(round), Tame(round, round), NEW r \in Rounds, Restart(r)
  PROVE  Tame(round, round')
<1> DEFINE q == round[r]
           n == NextRound
           x == [q EXCEPT !.resolvedBy = n]
           k == FreshRound(q.open \cup q.done)
           a == [k EXCEPT !.effect = q.effect, !.brief = q.brief, !.checkpoint = q.checkpoint]
<1>1. round \in [Rounds -> Round] /\ q \in Round
  BY DEF Good
<1>2. n \in Rounds /\ round[n] = Absent /\ "restart" \in Available(q) /\ SafeToResume(q)
  BY NextRoundType DEF Restart
<1>3. q.status = "CANCELLED" /\ n # r
  <2>1. q.status = "CANCELLED"
    BY <1>1, <1>2 DEF Available, Round, Deliveries
  <2> QED
    BY <2>1, <1>2 DEF Absent
<1>4. round' = [round EXCEPT ![r] = x, ![n] = a]
  BY <1>1, <1>3 DEF Restart
<1>5. q.open \cup q.done \in SUBSET Messages
  BY <1>1 DEF Round
<1>6. k \in Round /\ k.status = "FROZEN" /\ k.attempts = 0
  BY <1>5, FreshType, FreshHarmless
<1>7. /\ x.status = q.status /\ x.attempts = q.attempts /\ x.lease = q.lease
      /\ x.effect = q.effect /\ x.checkpoint = q.checkpoint /\ x.control = q.control
  BY <1>1 DEF Round
<1> HIDE DEF k, x
<1>8. a.status = "FROZEN" /\ a.attempts = 0 /\ a.effect = q.effect /\ a.checkpoint = q.checkpoint
  BY <1>6 DEF Round
<1> HIDE DEF a
<1>9. Harmless(q, x)
  BY <1>7, SameHarmless DEF Tame
<1>10. Harmless(Absent, a)
  <2>1. SafeToResume(a)
    BY <1>2, <1>8 DEF SafeToResume
  <2>2. Absent.status # "DELETED" /\ a.attempts = Absent.attempts
    BY <1>8 DEF Absent
  <2> QED
    BY <2>1, <2>2, <1>8, FrozenHarmless
<1> HIDE DEF n
<1>11. ASSUME NEW s \in Rounds PROVE Harmless(round[s], round'[s])
  <2>1. round'[s] = IF s = n THEN a ELSE IF s = r THEN x ELSE round[s]
    BY <1>1, <1>2, <1>3, <1>4
  <2> QED
    BY <1>2, <1>9, <1>10, <2>1 DEF Tame
<1> QED
  BY <1>11 DEF Tame

\* Deleting a round is harmless.
LEMMA DeleteTame ==
  ASSUME Good(round), Tame(round, round), NEW r \in Rounds, DeleteRound(r)
  PROVE  Tame(round, round')
<1> DEFINE a == [Absent EXCEPT !.status = "DELETED"]
           b(s) == [round[s] EXCEPT !.resolvedBy = IF @ = r THEN 0 ELSE @]
<1>1. a.status = "DELETED" /\ a.control = "none"
  BY DEF Absent
<1>2. ASSUME NEW s \in Rounds
      PROVE  /\ b(s).status = round[s].status /\ b(s).attempts = round[s].attempts
             /\ b(s).lease = round[s].lease /\ b(s).effect = round[s].effect
             /\ b(s).checkpoint = round[s].checkpoint /\ b(s).control = round[s].control
  <2>1. round[s] \in Round
    BY DEF Good
  <2> QED
    BY <2>1 DEF Round
<1>3. round' = [s \in Rounds |-> IF s = r THEN a ELSE b(s)]
  BY DEF DeleteRound
<1> HIDE DEF a, b
<1>4. ASSUME NEW s \in Rounds PROVE Harmless(round[s], round'[s])
  <2>1. Harmless(round[s], a)
    BY <1>1 DEF Harmless, Reclaimable
  <2>2. Harmless(round[s], b(s))
    BY <1>2, SameHarmless DEF Tame
  <2> QED
    BY <1>3, <2>1, <2>2
<1> QED
  BY <1>4 DEF Tame

\* A decided approval is harmless: the wait began with a safe checkpoint.
LEMMA WakeTame ==
  ASSUME Good(round), Tame(round, round), NEW r \in Rounds,
         WakeMerged(r) \/ WakeRead(r) \/ WakeCommit(r) \/ WakeAborts(r)
  PROVE  Tame(round, round')
<1> DEFINE q == round[r]
           s == Successor(r)
           a(t) == [q EXCEPT !.status = t]
           b == [q EXCEPT !.status = "SUPERSEDED", !.checkpoint = "none"]
<1>1. /\ q \in Round /\ round \in [Rounds -> Round] /\ Harmless(q, q)
      /\ q.status \in {"WAITING_APPROVAL", "WAKING"}
  BY DEF Good, Tame, WakeMerged, WakeRead, WakeCommit, WakeAborts
<1>2. \/ \E t \in {"WAITING_APPROVAL", "WAKING", "FROZEN"} : round' = [round EXCEPT ![r] = a(t)]
      \/ round' = [round EXCEPT ![r] = b]
      \/ s # 0 /\ round' = Merge([round EXCEPT ![r] = b], r, s)
  BY <1>1 DEF WakeMerged, WakeRead, WakeCommit, WakeAborts
<1>3. /\ \A t : a(t).status = t /\ a(t).attempts = q.attempts /\ a(t).effect = q.effect
              /\ a(t).checkpoint = q.checkpoint
      /\ b \in Round /\ b.status = "SUPERSEDED" /\ b.attempts = q.attempts
  BY <1>1, QuietStatuses DEF Round
<1> HIDE DEF a, b
<1>4. Harmless(q, b)
  BY <1>1, <1>3, EndedHarmless DEF Ended
<1>5. \A t \in {"WAITING_APPROVAL", "WAKING", "FROZEN"} : Harmless(q, a(t))
  BY <1>1, <1>3, ReclaimHarmless
<1> QED
  BY <1>2, <1>3, <1>4, <1>5, PutTame, MergeIntoSuccessor

\* Resolving an unknown delivery is harmless.
LEMMA ResolveTame ==
  ASSUME Good(round), Tame(round, round), NEW r \in Rounds, ResolveUnknown(r)
  PROVE  Tame(round, round')
<1>1. round \in [Rounds -> Round] /\ round[r] \in Round
  BY DEF Good
<1>2. PICK d \in {"DELIVERED", "SKIPPED"} : round' = [round EXCEPT ![r].delivery = d]
  BY DEF ResolveUnknown
<1> DEFINE x == [round[r] EXCEPT !.delivery = d]
<1>3. round' = [round EXCEPT ![r] = x]
  BY <1>1, <1>2
<1>4. /\ x.status = round[r].status /\ x.attempts = round[r].attempts
      /\ x.lease \in {0, round[r].lease} /\ x.effect = round[r].effect
      /\ x.checkpoint = round[r].checkpoint /\ x.control = round[r].control
  BY <1>1 DEF Round
<1> HIDE DEF x
<1> QED
  BY <1>3, <1>4, PutSameTame

\* Every human command is harmless.
LEMMA HumanTame ==
  ASSUME Good(round), Tame(round, round), NEW r \in Rounds, HumanStep(r)
  PROVE  Tame(round, round')
BY RequestTame, ResumeTame, RestartTame, DeleteTame, ResolveTame DEF HumanStep

-----------------------------------------------------------------------------
(* Tokens                                                                    *)

\* A worker that leaves its round, or goes on with it past build_turn.
Moves(w) ==
  \/ worker'[w] = worker[w]
  \/ worker'[w].pc \notin Running
  \/ /\ worker[w].pc \in Running
     /\ worker'[w].round = worker[w].round /\ worker'[w].token = worker[w].token
     /\ worker[w].pc = "claimed" => round'[worker[w].round].status # "CLAIMED"

\* Harmless changes of the rounds and such moves of the workers keep Tokens.
LEMMA TokensKept ==
  ASSUME Tokens, Tame(round, round'), \A w \in Workers : Moves(w)
  PROVE  Tokens'
<1> SUFFICES ASSUME NEW w \in Workers, worker'[w].pc \in Running
             PROVE  /\ worker'[w].round \in Rounds
                    /\ worker'[w].token # 0
                    /\ round'[worker'[w].round].status # "DELETED" =>
                         worker'[w].token <= round'[worker'[w].round].attempts
                    /\ (worker'[w].pc # "claimed" /\ round'[worker'[w].round].status = "CLAIMED") =>
                         worker'[w].token # round'[worker'[w].round].lease
  BY DEF Tokens
<1> DEFINE r == worker[w].round
<1>1. /\ worker[w].pc \in Running
      /\ worker'[w].round = r /\ worker'[w].token = worker[w].token
      /\ \/ worker'[w].pc = worker[w].pc
         \/ worker[w].pc = "claimed" => round'[r].status # "CLAIMED"
  BY DEF Moves
<1>2. /\ r \in Rounds /\ worker[w].token # 0
      /\ round[r].status # "DELETED" => worker[w].token <= round[r].attempts
      /\ (worker[w].pc # "claimed" /\ round[r].status = "CLAIMED") => worker[w].token # round[r].lease
  BY <1>1 DEF Tokens
<1>3. Harmless(round[r], round'[r])
  BY <1>2 DEF Tame
<1> HIDE DEF r
<1>4. round'[r].status # "DELETED" => worker[w].token <= round'[r].attempts
  BY <1>2, <1>3 DEF Harmless
<1>5. (worker'[w].pc # "claimed" /\ round'[r].status = "CLAIMED") => worker[w].token # round'[r].lease
  BY <1>1, <1>2, <1>3 DEF Harmless
<1> QED
  BY <1>1, <1>2, <1>4, <1>5

\* The steps of a worker move it so.
LEMMA WorkerMoves ==
  ASSUME Good(round), Others, NEW w \in Workers, NEW r \in Rounds, WorkerStep(w, r), NEW v \in Workers
  PROVE  Moves(v)
<1>1. worker \in [Workers -> Worker] /\ worker[w] \in Worker /\ round \in [Rounds -> Round]
  BY DEF Others, Good
<1>2. ASSUME End(w) PROVE Moves(v)
  <2>1. worker'[v] = IF v = w THEN IdleWorker ELSE worker[v]
    BY <1>1, <1>2 DEF End
  <2>2. IdleWorker.pc \notin Running
    BY DEF IdleWorker, Running
  <2> QED
    BY <2>1, <2>2 DEF Moves
<1>3. ASSUME NEW pc, Goto(w, pc),
             \/ pc \notin Running
             \/ worker[w].pc \in Running \ {"claimed"}
             \/ worker[w].pc = "claimed" /\ round'[worker[w].round].status # "CLAIMED"
      PROVE  Moves(v)
  <2>1. worker'[v] = IF v = w THEN [worker[w] EXCEPT !.pc = pc] ELSE worker[v]
    BY <1>1, <1>3 DEF Goto
  <2>2. v = w => (worker'[v].pc = pc /\ worker'[v].round = worker[w].round /\ worker'[v].token = worker[w].token)
    BY <1>1, <2>1 DEF Worker
  <2> QED
    BY <1>3, <2>1, <2>2 DEF Moves, Running
<1>4. ASSUME worker' = worker PROVE Moves(v)
  BY <1>4 DEF Moves
<1>5. CASE Build(w, r)
  <2>1. worker[w].pc = "claimed" /\ worker[w].round = r
    BY <1>5 DEF Build, At
  <2>2. End(w) \/ (round' = [round EXCEPT ![r].status = "RUNNING"] /\ Goto(w, "running"))
    BY <1>5 DEF Build, Drop
  <2>3. round' = [round EXCEPT ![r].status = "RUNNING"] => round'[r].status # "CLAIMED"
    BY <1>1 DEF Round
  <2> QED
    BY <1>2, <1>3, <2>1, <2>2, <2>3
<1>6. CASE Notice(w, r) \/ StartSending(w, r) \/ Transport(w, r) \/ Journal(w, r)
  <2>1. worker[w].pc \in Running \ {"claimed"}
    BY <1>6 DEF Notice, StartSending, Transport, Journal, At, Running
  <2>2. \E pc : Goto(w, pc)
    BY <1>6 DEF Notice, StartSending, Transport, Journal
  <2> QED
    BY <1>3, <2>1, <2>2
<1>7. CASE MarkEffect(w, r) \/ SaveCheckpoint(w, r) \/ RenewLate(w, r)
  BY <1>2, <1>4, <1>7 DEF MarkEffect, SaveCheckpoint, RenewLate, Drop
<1>8. CASE Complete(w, r) \/ Delivered(w, r) \/ DeliveryUnknown(w, r) \/ LoseLease(w, r)
           \/ Fail(w, r) \/ InterruptWorker(w, r) \/ EndNotification(w, r)
  <2>1. End(w)
    BY <1>8 DEF Complete, Delivered, DeliveryUnknown, LoseLease, Fail, InterruptWorker,
                EndNotification, Settle, Drop
  <2> QED
    BY <1>2, <2>1
<1>9. CASE TransportNotification(w, r)
  <2>1. "notified" \notin Running /\ Goto(w, "notified")
    BY <1>9 DEF TransportNotification, Running
  <2> QED
    BY <1>3, <2>1
<1>10. CASE StartNotification(w, r)
  <2> DEFINE x == [worker[w] EXCEPT !.pc = "notifying", !.token = round[r].lease]
  <2>1. End(w) \/ worker' = [worker EXCEPT ![w] = x]
    BY <1>10 DEF StartNotification, Drop
  <2>2. x.pc \notin Running
    BY <1>1 DEF Worker, Running
  <2> HIDE DEF x
  <2>3. worker' = [worker EXCEPT ![w] = x] => worker'[v] = IF v = w THEN x ELSE worker[v]
    BY <1>1
  <2> QED
    BY <1>2, <2>1, <2>2, <2>3 DEF Moves
<1> QED
  BY <1>5, <1>6, <1>7, <1>8, <1>9, <1>10 DEF WorkerStep

-----------------------------------------------------------------------------
(* The invariant                                                             *)

EInv == IInv /\ Tame(round, round) /\ Tokens

\* A harmless step leaves safe rows.
LEMMA TameAfter ==
  ASSUME Tame(round, round')
  PROVE  Tame(round', round')
BY DEF Tame, Harmless

\* A claim.
LEMMA ClaimStep ==
  ASSUME EInv, NEW w \in Workers, NEW r \in Rounds, round[r].attempts < MaxAttempts,
         (round[r].status = "FROZEN") \/ (round[r].status \in Processing /\ SafeToResume(round[r])),
         round' = [round EXCEPT ![r] = ClaimedRow(@)], StartWorker(w, r)
  PROVE  Tame(round', round') /\ Tokens'
<1> DEFINE x == ClaimedRow(round[r])
           y == [pc |-> "claimed", round |-> r, token |-> round[r].attempts + 1]
<1>1. /\ round \in [Rounds -> Round] /\ round[r] \in Round /\ worker \in [Workers -> Worker]
      /\ Harmless(round[r], round[r])
  BY DEF EInv, IInv, Good, Others, Tame
<1>2. round[r].attempts \in Nat
  BY <1>1, Bounds DEF Round
<1>3. /\ x.status = "CLAIMED" /\ x.attempts = round[r].attempts + 1
      /\ x.lease = round[r].attempts + 1
      /\ x.effect = round[r].effect /\ x.checkpoint = round[r].checkpoint
      /\ x.control = round[r].control
  BY <1>1 DEF ClaimedRow, Round
<1>4. \A s \in Rounds : round'[s] = IF s = r THEN x ELSE round[s]
  BY <1>1
<1>5. \A v \in Workers : worker'[v] = IF v = w THEN y ELSE worker[v]
  BY <1>1 DEF StartWorker
<1>6. y.pc = "claimed" /\ y.round = r /\ y.token = round[r].attempts + 1
  OBVIOUS
<1>7. round[r].status # "DELETED"
  BY DEF Processing
<1> HIDE DEF x, y
<1>8. Harmless(x, x)
  BY <1>1, <1>3 DEF Harmless, SafeToResume, Reclaimable
<1>9. Tame(round', round')
  BY <1>4, <1>8 DEF EInv, Tame
<1>10. Tokens'
  <2> SUFFICES ASSUME NEW v \in Workers, worker'[v].pc \in Running
               PROVE  /\ worker'[v].round \in Rounds
                      /\ worker'[v].token # 0
                      /\ round'[worker'[v].round].status # "DELETED" =>
                           worker'[v].token <= round'[worker'[v].round].attempts
                      /\ (worker'[v].pc # "claimed" /\ round'[worker'[v].round].status = "CLAIMED") =>
                           worker'[v].token # round'[worker'[v].round].lease
    BY DEF Tokens
  <2>1. CASE v = w
    BY <1>2, <1>3, <1>4, <1>5, <1>6, <2>1
  <2>2. CASE v # w
    <3>1. worker'[v] = worker[v]
      BY <1>5, <2>2
    <3>2. /\ worker[v].round \in Rounds /\ worker[v].token # 0
          /\ round[worker[v].round].status # "DELETED" => worker[v].token <= round[worker[v].round].attempts
          /\ (worker[v].pc # "claimed" /\ round[worker[v].round].status = "CLAIMED") =>
               worker[v].token # round[worker[v].round].lease
      BY <3>1 DEF EInv, Tokens
    <3>3. worker[v].token \in Nat
      <4>1. worker[v].token \in 0 .. Notify
        BY <1>1 DEF Worker
      <4> QED
        BY <4>1, Bounds
    <3>4. CASE worker[v].round = r
      BY <1>2, <1>3, <1>4, <1>7, <3>1, <3>2, <3>3, <3>4
    <3>5. CASE worker[v].round # r
      BY <1>4, <3>1, <3>2, <3>5
    <3> QED
      BY <3>4, <3>5
  <2> QED
    BY <2>1, <2>2
<1> QED
  BY <1>9, <1>10

\* Every step preserves the invariant.
LEMMA StepEInv ==
  ASSUME EInv, [Next]_vars
  PROVE  EInv'
<1>1. Good(round) /\ Others /\ Tame(round, round) /\ Tokens
  BY DEF EInv, IInv
<1>2. IInv'
  BY <1>1, NextGood, NextOthers DEF IInv
<1>3. ASSUME worker' = worker, Tame(round, round') PROVE Tame(round', round') /\ Tokens'
  BY <1>1, <1>3, TokensKept, TameAfter DEF Moves
<1>4. ASSUME NEW m \in Messages, Admit(m) PROVE Tame(round', round') /\ Tokens'
  <2>1. worker' = worker
    BY <1>4 DEF Admit
  <2> QED
    BY <1>1, <1>3, <1>4, <2>1, AdmitTame
<1>14. ASSUME NEW m \in Messages, AdmitRead(m) PROVE Tame(round', round') /\ Tokens'
  <2>1. worker' = worker /\ NextRound \in Rounds
    BY <1>14, NextRoundType DEF AdmitRead
  <2> QED
    BY <1>1, <1>3, <1>14, <2>1, AdmitStepsTame
<1>15. ASSUME NEW r \in Rounds, RoomStep(r) PROVE Tame(round', round') /\ Tokens'
  <2>1. worker' = worker
    BY <1>15 DEF RoomStep, AdmitInsert, AdmitAborts, WakeMerged, WakeRead, WakeCommit, WakeAborts
  <2>2. Tame(round, round')
    BY <1>1, <1>15, AdmitStepsTame, WakeTame DEF RoomStep
  <2> QED
    BY <1>3, <2>1, <2>2
<1>5. ASSUME NEW r \in Rounds, Expire(r) PROVE Tame(round', round') /\ Tokens'
  <2>1. worker' = worker
    BY <1>5 DEF Expire
  <2> QED
    BY <1>1, <1>3, <1>5, <2>1, ExpireTame
<1>6. ASSUME NEW r \in Rounds, HumanStep(r) PROVE Tame(round', round') /\ Tokens'
  <2>1. worker' = worker
    BY <1>6 DEF HumanStep, Request, Resume, Restart, DeleteRound, ResolveUnknown
  <2> QED
    BY <1>1, <1>3, <1>6, <2>1, HumanTame
<1>7. ASSUME NEW w \in Workers, NEW r \in Rounds, WorkerStep(w, r)
      PROVE  Tame(round', round') /\ Tokens'
  <2>1. Tame(round, round')
    BY <1>1, <1>7, WorkerTame
  <2>2. \A v \in Workers : Moves(v)
    BY <1>1, <1>7, WorkerMoves
  <2> QED
    BY <1>1, <2>1, <2>2, TokensKept, TameAfter
<1>8. ASSUME NEW w \in Workers, NEW r \in Rounds, Claim(w, r) \/ ClaimExpired(w, r)
      PROVE  Tame(round', round') /\ Tokens'
  <2>1. CASE worker' = worker
    <3>1. round[r].status \in Processing /\ round' = InterruptRows(r)
      <4>1. CASE Claim(w, r)
        <5>1. worker[w].pc = "idle" /\ worker' = [worker EXCEPT ![w] = [pc |-> "claimed", round |-> r, token |-> round[r].attempts + 1]]
          BY <4>1 DEF Claim, StartWorker
        <5>2. worker'[w].pc = "claimed"
          BY <1>1, <5>1 DEF Others
        <5> QED
          BY <2>1, <5>1, <5>2
      <4>2. CASE ClaimExpired(w, r)
        <5>1. worker[w].pc = "idle"
          BY <4>2 DEF ClaimExpired
        <5>2. StartWorker(w, r) => worker'[w].pc = "claimed"
          BY <1>1 DEF StartWorker, Others
        <5> QED
          BY <2>1, <4>2, <5>1, <5>2 DEF ClaimExpired, Expired
      <4> QED
        BY <1>8, <4>1, <4>2
    <3> QED
      BY <1>1, <1>3, <2>1, <3>1, InterruptTame
  <2>2. CASE worker' # worker
    <3>1. /\ round[r].attempts < MaxAttempts
          /\ (round[r].status = "FROZEN") \/ (round[r].status \in Processing /\ SafeToResume(round[r]))
          /\ round' = [round EXCEPT ![r] = ClaimedRow(@)]
          /\ StartWorker(w, r)
      BY <1>8, <2>2 DEF Claim, ClaimExpired, Ready, Expired, Resumes
    <3> QED
      BY <3>1, ClaimStep
  <2> QED
    BY <2>1, <2>2
<1>9. ASSUME NEW w \in Workers, ClaimNotification(w) PROVE Tame(round', round') /\ Tokens'
  <2>1. Tame(round, round')
    BY <1>1, <1>9, NotificationTame
  <2>2. PICK n \in OneOf({r \in Rounds : FallbackDue(r)}) :
          worker' = IF n = 0 THEN worker
                    ELSE [worker EXCEPT ![w] = [pc |-> "notify", round |-> n, token |-> 0]]
    BY <1>9 DEF ClaimNotification
  <2> DEFINE x == [pc |-> "notify", round |-> n, token |-> 0]
  <2>3. x.pc \notin Running
    BY DEF Running
  <2>4. worker' = worker \/ worker' = [worker EXCEPT ![w] = x]
    BY <2>2
  <2> HIDE DEF x
  <2>5. \A v \in Workers : worker'[v] \in {worker[v], x}
    BY <1>1, <2>4 DEF Others
  <2>6. \A v \in Workers : Moves(v)
    BY <2>3, <2>5 DEF Moves
  <2> QED
    BY <1>1, <2>1, <2>6, TokensKept, TameAfter
<1>10. ASSUME NEW w \in Workers, Crash(w) PROVE Tame(round', round') /\ Tokens'
  <2>1. round' = round /\ worker' = [worker EXCEPT ![w] = IdleWorker]
    BY <1>10 DEF Crash, Drop, End
  <2>2. \A v \in Workers : worker'[v] \in {worker[v], IdleWorker}
    BY <1>1, <2>1 DEF Others
  <2>3. IdleWorker.pc \notin Running
    BY DEF IdleWorker, Running
  <2>4. \A v \in Workers : Moves(v)
    BY <2>2, <2>3 DEF Moves
  <2> QED
    BY <1>1, <2>1, <2>4, TokensKept, TameAfter
<1>11. ASSUME UNCHANGED vars PROVE Tame(round', round') /\ Tokens'
  BY <1>1, <1>3, <1>11 DEF vars
<1>12. ASSUME Next PROVE Tame(round', round') /\ Tokens'
  BY <1>4, <1>5, <1>6, <1>7, <1>8, <1>9, <1>10, <1>12, <1>14, <1>15 DEF Next
<1>13. Tame(round', round') /\ Tokens'
  BY <1>11, <1>12
<1> QED
  BY <1>2, <1>13 DEF EInv, Tame

\* Initially no round was tried and no worker runs.
LEMMA InitEInv == Init => EInv
<1> SUFFICES ASSUME Init PROVE EInv
  OBVIOUS
<1>1. IInv
  BY InitIInv
<1>2. \A r \in Rounds : round[r].status = "ABSENT" /\ round[r].effect = FALSE
  BY DEF Init, Absent
<1>3. Tame(round, round)
  BY <1>2 DEF Tame, Harmless, Reclaimable
<1>4. Tokens
  BY DEF Init, Tokens, IdleWorker, Running
<1> QED
  BY <1>1, <1>3, <1>4 DEF EInv

\* A round that may be claimed with effects behind it has a checkpoint that
\* knows them, for any messages, workers, commands and limits: recovery,
\* failure, approval, resumption and restart never let an agent repeat an
\* effect it cannot see, and no worker of an earlier attempt overwrites the
\* checkpoint of a round that was claimed again.
THEOREM EffectSafety == Spec => []EffectNotReplayed
<1>1. EInv /\ [Next]_vars => EInv'
  BY StepEInv
<1>2. EInv => EffectNotReplayed
  BY DEF EInv, Tame, Harmless, Reclaimable, EffectNotReplayed
<1> QED
  BY <1>1, <1>2, InitEInv, PTL DEF Spec

=============================================================================

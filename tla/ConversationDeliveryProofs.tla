--------------------- MODULE ConversationDeliveryProofs ---------------------
(***************************************************************************)
(* Proofs about the texts and the inputs of ConversationRounds: a message   *)
(* is answered once, what is reported as delivered was carried, no input is *)
(* lost, an uncertain delivery is not queued again, and a late worker       *)
(* changes nothing.                                                         *)
(*                                                                          *)
(* The invariant DInv has three parts beyond EInv.  SendInv ties the rows,  *)
(* the texts and the workers together: a text is with the transport only of *)
(* a round whose row says that it may be, and no two workers send the same  *)
(* one.  Unshared: an input is held by one round, the one that answers it.  *)
(* Dealt: an input that was left behind is in another round.                *)
(*                                                                          *)
(* Every step but the start of an answer is an Advance of the table of      *)
(* rounds, which says what may become of each row (Delivers, Silent), where *)
(* inputs go (Hands) and that none is dropped (Preserves).                  *)
(***************************************************************************)
EXTENDS ConversationRoundsProofs

-----------------------------------------------------------------------------
(* Deliveries: the life of a text                                            *)

Sends    == {"sending", "carried", "sent"}
Early    == {"claimed", "running", "interrupted"}
Notifies == {"notify", "notifying", "notified"}

\* The answer of a round may be with the transport, and its fallback text.
Launched(q) ==
  \/ q.status \in Processing /\ q.delivery = "SENDING"
  \/ q.status \in {"SUCCEEDED", "ERROR_RESOLVED", "DELETED"}

Noticed(q) == q.status = "DELETED" \/ (q.status = "ERROR_RESOLVED" /\ q.delivery # "PENDING")

\* The delivery state, the command and the links that go with a status.
Consistent(q) ==
  /\ q.status \in {"FROZEN", "WAITING_APPROVAL", "WAKING", "PAUSED", "ABSENT", "ADMITTING",
                   "SUPERSEDED", "DELETED"} => q.delivery = "PENDING"
  /\ q.status \in Processing => q.delivery \in {"PENDING", "SENDING"}
  /\ (q.status \in Processing /\ q.delivery = "SENDING") => (q.effect /\ q.control = "none")
  /\ q.status = "CANCELLED" => q.delivery = "SKIPPED"
  /\ q.status = "SUCCEEDED" => q.delivery \notin {"SENDING", "UNKNOWN"}
  /\ q.status \notin Processing => q.control = "none"
  /\ q.status \in Active => q.done = {}
  /\ q.status = "ADMITTING" => (q.done = {} /\ ~q.effect)
  /\ q.status \in {"ABSENT", "DELETED"} => (q.open = {} /\ q.done = {})

\* How a row q, with n answers carried, may turn into x: what may be with the
\* transport stays so recorded, an answer is reported once it was carried, and
\* an uncertain delivery is not queued again.
Delivers(q, x, n) ==
  /\ Consistent(x)
  /\ Launched(q) => Launched(x)
  /\ Noticed(q) => Noticed(x)
  /\ q.status = "DELETED" => x.status = "DELETED"
  /\ (x.status = "SUCCEEDED" /\ x.delivery = "DELIVERED") =>
       (n = 1 \/ (q.status = "SUCCEEDED" /\ q.delivery = "DELIVERED"))
  /\ q.delivery = "UNKNOWN" => (x.delivery \notin {"PENDING", "SENDING"} \/ x.status = "DELETED")

\* The step starts no answer.
Silent(q, x) ==
  (x.status \in Processing /\ x.delivery = "SENDING") =>
    (q.status \in Processing /\ q.delivery = "SENDING" /\ x.lease = q.lease)

-----------------------------------------------------------------------------
(* Inputs                                                                    *)

Has(q, m) == m \in q.open \/ m \in q.done

\* The round answers for its inputs, is about to, or could be restarted with them.
Holds(q) ==
  \/ q.status \in Active \cup {"ADMITTING", "SUCCEEDED", "ERROR_RESOLVED"}
  \/ q.status = "CANCELLED" /\ q.resolvedBy = 0 /\ "restart" \in Commands

\* The round left m behind; the round still deals with m, or did.
Left(q, m) == m \in q.open /\ q.status \in Terminal /\ ~q.effect
Deals(q, m) == m \in q.done \/ (m \in q.open /\ (q.status \in Active \/ q.effect))

\* A row that keeps its inputs to itself.
Settles(q, x) ==
  /\ x.open \subseteq q.open /\ x.done \subseteq q.open \cup q.done
  /\ Holds(x) => Holds(q)
  /\ \A m \in Messages : Deals(q, m) => Deals(x, m)
  /\ q.effect => x.effect
  /\ x.status \in Terminal => q.status \in Active \cup Terminal

\* Who holds an input in table g held it before, or has it from a round that
\* holds it no more, or the input is new.
Hands(g) ==
  \E t \in Rounds : \A s \in Rounds, m \in Messages :
    (Has(g[s], m) /\ Holds(g[s])) =>
      \/ Has(round[s], m) /\ Holds(round[s])
      \/ s = t /\ \A p \in Rounds : ~Has(round[p], m)
      \/ s = t /\ \E p \in Rounds : Has(round[p], m) /\ Holds(round[p]) /\ ~Holds(g[p])

\* What is dealt with stays so in table g, and is all that may be left behind.
Preserves(g) ==
  /\ \A m \in Messages : (\E s \in Rounds : Deals(round[s], m)) => \E s \in Rounds : Deals(g[s], m)
  /\ \A s \in Rounds, m \in Messages : Left(g[s], m) => (Left(round[s], m) \/ Deals(round[s], m))

Reopened(g) == "restart" \in Commands /\ \E s \in Rounds : g[s].status = "DELETED"

\* A table g that the rounds may turn into, while no answer starts.
Advance(g) ==
  /\ \A s \in Rounds : Delivers(round[s], g[s], carried[s].answer) /\ Silent(round[s], g[s])
  /\ Hands(g) \/ Reopened(g)
  /\ Preserves(g) \/ "delete" \in Commands

Sound == Good(round) /\ \A s \in Rounds : Consistent(round[s])

-----------------------------------------------------------------------------
(* Rows                                                                      *)

RowStep(q, x, n) == Delivers(q, x, n) /\ Silent(q, x) /\ Settles(q, x)

\* x is q with another status and delivery, or with its inputs consumed too.
Turned(q, x, s, d) ==
  /\ x \in Round /\ x.status = s /\ x.delivery = d /\ x.control = "none"
  /\ x.open = q.open /\ x.done = q.done /\ x.effect = q.effect
Consumed(q, x, s, d) ==
  /\ x \in Round /\ x.status = s /\ x.delivery = d /\ x.control = "none"
  /\ x.open = {} /\ x.done = q.done \cup q.open /\ x.effect = q.effect

\* The statuses, for the provers.
LEMMA StatusSets ==
  /\ Processing = {"CLAIMED", "RUNNING"}
  /\ Active = {"FROZEN", "WAITING_APPROVAL", "WAKING", "PAUSED", "CLAIMED", "RUNNING"}
  /\ Terminal = {"SUCCEEDED", "SUPERSEDED", "ERROR_RESOLVED", "CANCELLED"}
BY DEF Processing, Active, Terminal

\* A row that stays as it is.
LEMMA StayRow ==
  ASSUME NEW q, Consistent(q), NEW n
  PROVE  RowStep(q, q, n)
<1>1. Delivers(q, q, n)
  BY StatusSets DEF Delivers, Consistent
<1>2. Silent(q, q)
  BY DEF Silent
<1>3. Settles(q, q)
  BY StatusSets DEF Settles
<1> QED BY <1>1, <1>2, <1>3 DEF RowStep

\* A round that ends with its inputs consumed.
LEMMA ConsumedRow ==
  ASSUME NEW q, Consistent(q), q.status \in Active, NEW n, NEW x, NEW s, NEW d, Consumed(q, x, s, d),
         \/ s = "ERROR_RESOLVED"
         \/ s = "SUCCEEDED" /\ d \in {"PENDING", "SKIPPED"}
         \/ s = "SUCCEEDED" /\ d = "DELIVERED" /\ n = 1
         \/ s = "CANCELLED" /\ d = "SKIPPED" /\ q.delivery = "PENDING"
  PROVE  RowStep(q, x, n)
<1>1. Consistent(x)
  BY StatusSets DEF Consistent, Consumed
<1>2. Delivers(q, x, n)
  BY <1>1, StatusSets DEF Delivers, Consistent, Consumed, Launched, Noticed
<1>3. Silent(q, x)
  BY StatusSets DEF Silent, Consumed
<1>4. Settles(q, x)
  <2>1. Holds(q)
    BY DEF Holds
  <2>2. \A m \in Messages : Deals(q, m) => Deals(x, m)
    BY DEF Deals, Consumed
  <2> QED BY <2>1, <2>2 DEF Settles, Consumed
<1> QED BY <1>2, <1>3, <1>4 DEF RowStep

\* A round that goes on, or waits, before its answer.
LEMMA ActiveRow ==
  ASSUME NEW q, Consistent(q), q.status \in Active, q.delivery = "PENDING", NEW n,
         NEW x, x.status \in Active, x.delivery = "PENDING", x.open = q.open, x.done = q.done,
         q.effect => x.effect, x.status \in Processing \/ x.control = "none"
  PROVE  RowStep(q, x, n)
<1>1. Consistent(x)
  BY StatusSets DEF Consistent
<1>2. Delivers(q, x, n)
  BY <1>1, StatusSets DEF Delivers, Launched, Noticed
<1>3. Silent(q, x)
  BY DEF Silent
<1>4. Settles(q, x)
  <2>1. Holds(q)
    BY DEF Holds
  <2>2. \A m \in Messages : Deals(q, m) => Deals(x, m)
    BY DEF Deals
  <2> QED BY <2>1, <2>2, StatusSets DEF Settles
<1> QED BY <1>2, <1>3, <1>4 DEF RowStep

\* A row that keeps all that the argument reads.
LEMMA SameRow ==
  ASSUME NEW q, Consistent(q), NEW n, NEW x, x.status = q.status, x.delivery = q.delivery,
         x.control = q.control, x.open = q.open, x.done = q.done, x.effect = q.effect,
         x.lease = q.lease, x.resolvedBy = q.resolvedBy
  PROVE  RowStep(q, x, n)
<1>1. Delivers(q, x, n)
  BY StatusSets DEF Delivers, Consistent, Launched, Noticed
<1>2. Silent(q, x)
  BY DEF Silent
<1>3. Settles(q, x)
  BY StatusSets DEF Settles, Holds, Deals
<1> QED BY <1>1, <1>2, <1>3 DEF RowStep

\* The delivery of a failed round.
LEMMA FailedRow ==
  ASSUME NEW q, Consistent(q), NEW n, NEW x, q.status = "ERROR_RESOLVED", x.status = "ERROR_RESOLVED",
         x.delivery # "PENDING", q.delivery = "UNKNOWN" => x.delivery # "SENDING",
         x.control = q.control, x.open = q.open, x.done = q.done, x.effect = q.effect
  PROVE  RowStep(q, x, n)
<1>1. Delivers(q, x, n)
  BY StatusSets DEF Delivers, Consistent, Launched, Noticed
<1>2. Silent(q, x)
  BY StatusSets DEF Silent
<1>3. Settles(q, x)
  BY StatusSets DEF Settles, Holds, Deals
<1> QED BY <1>1, <1>2, <1>3 DEF RowStep
-----------------------------------------------------------------------------
(* Tables                                                                    *)

\* Rows that all keep their inputs to themselves.
LEMMA EachSettles ==
  ASSUME NEW g, Rounds # {}, \A s \in Rounds : Settles(round[s], g[s])
  PROVE  Hands(g) /\ Preserves(g)
<1>1. Hands(g)
  <2>1. ASSUME NEW s \in Rounds, NEW m \in Messages, Has(g[s], m), Holds(g[s])
        PROVE  Has(round[s], m) /\ Holds(round[s])
    BY <2>1 DEF Settles, Has
  <2> QED BY <2>1 DEF Hands
<1>2. Preserves(g)
  <2>1. ASSUME NEW s \in Rounds, NEW m \in Messages, Deals(round[s], m)
        PROVE  Deals(g[s], m)
    BY <2>1 DEF Settles
  <2>2. ASSUME NEW s \in Rounds, NEW m \in Messages, Left(g[s], m)
        PROVE  Left(round[s], m) \/ Deals(round[s], m)
    <3>1. Settles(round[s], g[s])
      OBVIOUS
    <3> QED BY <2>2, <3>1 DEF Settles, Left, Deals
  <2> QED BY <2>1, <2>2 DEF Preserves
<1> QED BY <1>1, <1>2

\* Rows that all change in one of these ways.
LEMMA EachAdvance ==
  ASSUME NEW g, Rounds # {}, \A s \in Rounds : RowStep(round[s], g[s], carried[s].answer)
  PROVE  Advance(g)
<1>1. Hands(g) /\ Preserves(g)
  BY EachSettles DEF RowStep
<1> QED BY <1>1 DEF Advance, RowStep

\* One row changes.
LEMMA PutAdvance ==
  ASSUME Sound, NEW r \in Rounds, NEW x, RowStep(round[r], x, carried[r].answer)
  PROVE  Advance([round EXCEPT ![r] = x])
<1> DEFINE g == [round EXCEPT ![r] = x]
<1>1. \A s \in Rounds : g[s] = IF s = r THEN x ELSE round[s]
  BY DEF Sound, Good
<1> HIDE DEF g
<1>2. ASSUME NEW s \in Rounds PROVE RowStep(round[s], g[s], carried[s].answer)
  BY <1>1, StayRow DEF Sound
<1>3. Advance(g)
  BY <1>2, EachAdvance
<1> QED BY <1>3 DEF g

\* A round is superseded and its open inputs go to its successor.
LEMMA MergeAdvance ==
  ASSUME Sound, NEW r \in Rounds, round[r].status \in Active, round[r].delivery = "PENDING",
         NEW x, Turned(round[r], x, "SUPERSEDED", "PENDING"), Successor(r) # 0
  PROVE  Advance(Merge([round EXCEPT ![r] = x], r, Successor(r)))
<1> DEFINE t == Successor(r)
           q == round[r]
           f == [round EXCEPT ![r] = x]
           a == [round[t] EXCEPT !.open = @ \cup x.open, !.done = {}]
           b == [x EXCEPT !.resolvedBy = t]
           g == Merge(f, r, t)
<1>1. t \in Rounds /\ t # r /\ round[t].status = "FROZEN" /\ round \in [Rounds -> Round]
  BY SuccessorType DEF Sound, Good
<1>2. x \in Round
  BY DEF Turned
<1>3. \A s \in Rounds : g[s] = IF s = r THEN b ELSE IF s = t THEN a ELSE round[s]
  BY <1>1, <1>2 DEF Merge
<1>4. /\ a.status = "FROZEN" /\ a.delivery = round[t].delivery /\ a.control = round[t].control
      /\ a.open = round[t].open \cup x.open /\ a.done = {} /\ a.effect = round[t].effect
  BY <1>1 DEF Round
<1>5. /\ b.status = "SUPERSEDED" /\ b.delivery = "PENDING" /\ b.control = "none"
      /\ b.open = q.open /\ b.done = q.done /\ b.effect = q.effect
  BY <1>2 DEF Round, Turned
<1>6. x.open = q.open
  BY DEF Turned
<1>7. Consistent(q) /\ Consistent(round[t])
  BY <1>1 DEF Sound
<1> HIDE DEF a, b, g, t
<1>8. \A n : Delivers(q, b, n) /\ Silent(q, b)
  BY <1>5, <1>7, StatusSets DEF Delivers, Silent, Consistent, Launched, Noticed
<1>9. \A n : Delivers(round[t], a, n) /\ Silent(round[t], a)
  <2>1. Consistent(a)
    BY <1>1, <1>4, <1>7, StatusSets DEF Consistent
  <2>2. /\ ~Launched(round[t]) /\ ~Noticed(round[t])
        /\ round[t].delivery = "PENDING" /\ round[t].status # "DELETED"
    BY <1>1, <1>7, StatusSets DEF Consistent, Launched, Noticed
  <2> QED BY <1>4, <2>1, <2>2, StatusSets DEF Delivers, Silent
<1>10. \A s \in Rounds : Delivers(round[s], g[s], carried[s].answer) /\ Silent(round[s], g[s])
  BY <1>3, <1>8, <1>9, StayRow DEF Sound, RowStep
<1>11. Holds(q) /\ Holds(round[t]) /\ ~Holds(b)
  BY <1>1, <1>5, StatusSets DEF Holds
<1>12. Hands(g)
  <2>1. ASSUME NEW s \in Rounds, NEW m \in Messages, Has(g[s], m), Holds(g[s])
        PROVE  \/ Has(round[s], m) /\ Holds(round[s])
               \/ s = t /\ Has(q, m) /\ Holds(q) /\ ~Holds(g[r])
    <3>1. CASE s = r
      BY <1>3, <1>11, <2>1, <3>1
    <3>2. CASE s = t
      BY <1>1, <1>3, <1>4, <1>6, <1>11, <2>1, <3>2 DEF Has
    <3>3. CASE s # r /\ s # t
      BY <1>3, <2>1, <3>3
    <3> QED BY <3>1, <3>2, <3>3
  <2> QED BY <1>1, <2>1 DEF Hands
<1>13. ASSUME NEW s \in Rounds, NEW m \in Messages, Deals(round[s], m)
       PROVE  \E p \in Rounds : Deals(g[p], m)
  <2>1. CASE s = r
    <3>1. q.done = {} /\ m \in q.open
      BY <1>7, <1>13, <2>1, StatusSets DEF Deals, Consistent
    <3>2. Deals(a, m)
      BY <1>4, <1>6, <3>1, StatusSets DEF Deals
    <3> QED BY <1>1, <1>3, <3>2
  <2>2. CASE s = t
    <3>1. round[t].done = {} /\ m \in round[t].open
      BY <1>1, <1>7, <1>13, <2>2, StatusSets DEF Deals, Consistent
    <3>2. Deals(a, m)
      BY <1>4, <3>1, StatusSets DEF Deals
    <3> QED BY <1>1, <1>3, <3>2
  <2>3. CASE s # r /\ s # t
    BY <1>3, <1>13, <2>3
  <2> QED BY <2>1, <2>2, <2>3
<1>14. ASSUME NEW s \in Rounds, NEW m \in Messages, Left(g[s], m)
       PROVE  Left(round[s], m) \/ Deals(round[s], m)
  <2>1. CASE s = r
    BY <1>3, <1>5, <1>14, <2>1 DEF Left, Deals
  <2>2. CASE s = t
    BY <1>1, <1>3, <1>4, <1>14, <2>2, StatusSets DEF Left
  <2>3. CASE s # r /\ s # t
    BY <1>3, <1>14, <2>3
  <2> QED BY <2>1, <2>2, <2>3
<1>15. Preserves(g)
  BY <1>13, <1>14 DEF Preserves
<1>16. Advance(g)
  BY <1>10, <1>12, <1>15 DEF Advance
<1> QED BY <1>16 DEF g, t

-----------------------------------------------------------------------------
(* The operators that compute rows                                           *)

\* What clearing the lease, consuming the inputs and closing leave of a row.
LEMMA RowFields ==
  ASSUME NEW q \in Round, NEW s \in Statuses
  PROVE  /\ ClearLease(q) \in Round /\ Consume(q) \in Round /\ Close(q, s) \in Round
         /\ ClearLease(q).open = q.open /\ ClearLease(q).done = q.done
         /\ ClearLease(q).effect = q.effect /\ ClearLease(q).delivery = q.delivery
         /\ ClearLease(q).control = q.control /\ ClearLease(q).status = q.status
         /\ Consume(q).open = {} /\ Consume(q).done = q.done \cup q.open
         /\ Consume(q).effect = q.effect /\ Consume(q).delivery = q.delivery
         /\ Consume(q).control = q.control /\ Consume(q).status = q.status
         /\ Close(q, s).open = q.open /\ Close(q, s).done = q.done
         /\ Close(q, s).effect = q.effect /\ Close(q, s).delivery = q.delivery
         /\ Close(q, s).control = q.control /\ Close(q, s).status = s
<1>1. ClearLease(q) \in Round /\ Consume(q) \in Round /\ Close(q, s) \in Round
  BY ClearLeaseType, ConsumeType, CloseType
<1>2. /\ ClearLease(q).open = q.open /\ ClearLease(q).done = q.done
      /\ ClearLease(q).effect = q.effect /\ ClearLease(q).delivery = q.delivery
      /\ ClearLease(q).control = q.control /\ ClearLease(q).status = q.status
  BY DEF ClearLease, Round
<1>3. /\ Consume(q).open = {} /\ Consume(q).done = q.done \cup q.open
      /\ Consume(q).effect = q.effect /\ Consume(q).delivery = q.delivery
      /\ Consume(q).control = q.control /\ Consume(q).status = q.status
  BY DEF Consume, Round
<1>4. /\ Close(q, s).open = q.open /\ Close(q, s).done = q.done
      /\ Close(q, s).effect = q.effect /\ Close(q, s).delivery = q.delivery
      /\ Close(q, s).control = q.control /\ Close(q, s).status = s
  BY DEF Close, ClearLease, Round
<1> QED BY <1>1, <1>2, <1>3, <1>4

\* Closing a round turns it.
LEMMA CloseTurns ==
  ASSUME NEW q \in Round, q.control = "none", NEW s \in Statuses
  PROVE  Turned(q, Close(q, s), s, q.delivery)
BY RowFields DEF Turned

\* Obeying a command, before an answer.
LEMMA ControlledAdvance ==
  ASSUME Sound, NEW r \in Rounds, round[r].status \in Active, round[r].delivery = "PENDING", NEW c
  PROVE  Advance(Controlled(r, c))
<1> DEFINE o == round[r]
           y == ClearLease(o)
           q == [y EXCEPT !.control = "none"]
           s == Successor(r)
           k == Consume(q)
           a == [k EXCEPT !.status = "CANCELLED", !.delivery = "SKIPPED"]
           b == [q EXCEPT !.status = "SUPERSEDED", !.checkpoint = "none"]
           d == [q EXCEPT !.status = "FROZEN", !.brief = TRUE]
           e == [q EXCEPT !.status = "PAUSED"]
<1>1. o \in Round /\ Consistent(o)
  BY DEF Sound, Good
<1>2. \/ Controlled(r, c) = [round EXCEPT ![r] = a]
      \/ Controlled(r, c) = [round EXCEPT ![r] = e]
      \/ s # 0 /\ Controlled(r, c) = Merge([round EXCEPT ![r] = b], r, s)
      \/ Controlled(r, c) = [round EXCEPT ![r] = d]
  <2>1. CASE c = "stop"
    BY <2>1 DEF Controlled
  <2>2. CASE c = "pause" /\ s # 0
    BY <2>2 DEF Controlled
  <2>3. CASE c = "respond" /\ s = 0 /\ SafeToResume(q)
    BY <2>3 DEF Controlled
  <2>4. CASE ~(c = "stop") /\ ~(c = "pause" /\ s # 0) /\ ~(c = "respond" /\ s = 0 /\ SafeToResume(q))
    BY <2>4 DEF Controlled
  <2> QED BY <2>1, <2>2, <2>3, <2>4
<1>3. /\ y \in Round /\ y.open = o.open /\ y.done = o.done /\ y.effect = o.effect
      /\ y.delivery = o.delivery
  BY <1>1, RowFields, QuietStatuses
<1> HIDE DEF y
<1>4. /\ q \in Round /\ q.open = o.open /\ q.done = o.done /\ q.effect = o.effect
      /\ q.delivery = o.delivery /\ q.control = "none"
  BY <1>3 DEF Round
<1> HIDE DEF q
<1>5. /\ k \in Round /\ k.open = {} /\ k.done = o.done \cup o.open /\ k.effect = o.effect
      /\ k.control = "none"
  BY <1>4, RowFields, QuietStatuses
<1> HIDE DEF k
<1>6. Consumed(o, a, "CANCELLED", "SKIPPED")
  BY <1>5, QuietStatuses DEF Consumed, Round
<1>7. Turned(o, b, "SUPERSEDED", "PENDING")
  BY <1>4, QuietStatuses DEF Turned, Round
<1>8. /\ d.status = "FROZEN" /\ d.delivery = "PENDING" /\ d.control = "none"
      /\ d.open = o.open /\ d.done = o.done /\ d.effect = o.effect
  BY <1>4 DEF Round
<1>9. /\ e.status = "PAUSED" /\ e.delivery = "PENDING" /\ e.control = "none"
      /\ e.open = o.open /\ e.done = o.done /\ e.effect = o.effect
  BY <1>4 DEF Round
<1> HIDE DEF a, b, d, e
<1>10. /\ RowStep(o, a, carried[r].answer) /\ RowStep(o, d, carried[r].answer)
       /\ RowStep(o, e, carried[r].answer)
  <2>1. RowStep(o, a, carried[r].answer)
    BY <1>1, <1>6, ConsumedRow
  <2>2. RowStep(o, d, carried[r].answer)
    BY <1>1, <1>8, StatusSets, ActiveRow
  <2>3. RowStep(o, e, carried[r].answer)
    BY <1>1, <1>9, StatusSets, ActiveRow
  <2> QED BY <2>1, <2>2, <2>3
<1>11. /\ Advance([round EXCEPT ![r] = a]) /\ Advance([round EXCEPT ![r] = d])
       /\ Advance([round EXCEPT ![r] = e])
  BY <1>10, PutAdvance
<1>12. s # 0 => Advance(Merge([round EXCEPT ![r] = b], r, s))
  BY <1>7, MergeAdvance
<1> QED BY <1>2, <1>11, <1>12

\* A processed round before its answer has a pending delivery.
LEMMA NotSending ==
  ASSUME NEW q, Consistent(q), q.status \in Processing, q.delivery # "SENDING"
  PROVE  q.delivery = "PENDING" /\ q.status \in Active
BY StatusSets DEF Consistent

\* Interrupting a processed round; a journaled answer was carried.
LEMMA InterruptAdvance ==
  ASSUME Sound, NEW r \in Rounds, round[r].status \in Processing,
         r \in receipt => carried[r].answer = 1
  PROVE  Advance(InterruptRows(r))
<1> DEFINE o == round[r]
           q == ClearLease(o)
           s == Successor(r)
           k == Consume(q)
           a == [k EXCEPT !.status = "SUCCEEDED", !.delivery = "DELIVERED", !.checkpoint = "none"]
           b == [k EXCEPT !.status = "ERROR_RESOLVED", !.delivery = "UNKNOWN"]
           d == [k EXCEPT !.status = "ERROR_RESOLVED", !.delivery = "PENDING"]
           e == [k EXCEPT !.status = "SUCCEEDED"]
           g == [q EXCEPT !.status = "SUPERSEDED"]
           h == [q EXCEPT !.status = "FROZEN"]
           sending == o.delivery = "SENDING"
           free == o.control = "none"
<1>1. o \in Round /\ Consistent(o) /\ o.status \in Active
  BY StatusSets DEF Sound, Good
<1>2. CASE ~free
  <2>1. InterruptRows(r) = Controlled(r, o.control)
    BY <1>2 DEF InterruptRows
  <2>2. o.delivery = "PENDING"
    BY <1>1, <1>2 DEF Consistent
  <2> QED BY <1>1, <2>1, <2>2, ControlledAdvance
<1>3. ASSUME free
      PROVE  \/ r \in receipt /\ InterruptRows(r) = [round EXCEPT ![r] = a]
             \/ InterruptRows(r) = [round EXCEPT ![r] = b]
             \/ InterruptRows(r) = [round EXCEPT ![r] = d]
             \/ ~sending /\ InterruptRows(r) = [round EXCEPT ![r] = e]
             \/ ~sending /\ s # 0 /\ InterruptRows(r) = Merge([round EXCEPT ![r] = g], r, s)
             \/ ~sending /\ InterruptRows(r) = [round EXCEPT ![r] = h]
  <2>2. CASE free /\ sending /\ r \in receipt
    BY <2>2 DEF InterruptRows
  <2>3. CASE free /\ sending /\ r \notin receipt
    BY <2>3 DEF InterruptRows
  <2>4. CASE free /\ ~sending /\ ~SafeToResume(q)
    BY <2>4 DEF InterruptRows
  <2>5. CASE free /\ ~sending /\ SafeToResume(q) /\ s # 0
    BY <2>5 DEF InterruptRows
  <2>6. CASE free /\ ~sending /\ SafeToResume(q) /\ s = 0
    BY <2>6 DEF InterruptRows
  <2> QED BY <1>3, <2>2, <2>3, <2>4, <2>5, <2>6
<1>4. /\ q \in Round /\ q.open = o.open /\ q.done = o.done /\ q.effect = o.effect
      /\ q.delivery = o.delivery /\ q.control = o.control
  BY <1>1, RowFields, QuietStatuses
<1> HIDE DEF q
<1>5. /\ k \in Round /\ k.open = {} /\ k.done = o.done \cup o.open /\ k.effect = o.effect
      /\ k.delivery = o.delivery /\ k.control = o.control
  BY <1>4, RowFields, QuietStatuses
<1> HIDE DEF k
<1>6. CASE free
  <2>1. Consumed(o, a, "SUCCEEDED", "DELIVERED")
    BY <1>5, <1>6, QuietStatuses DEF Consumed, Round
  <2>2. Consumed(o, b, "ERROR_RESOLVED", "UNKNOWN")
    BY <1>5, <1>6, QuietStatuses DEF Consumed, Round
  <2>3. Consumed(o, d, "ERROR_RESOLVED", "PENDING")
    BY <1>5, <1>6, QuietStatuses DEF Consumed, Round
  <2>4. Consumed(o, e, "SUCCEEDED", o.delivery)
    BY <1>5, <1>6, QuietStatuses DEF Consumed, Round
  <2>5. Turned(o, g, "SUPERSEDED", o.delivery)
    BY <1>4, <1>6, QuietStatuses DEF Turned, Round
  <2>6. /\ h.status = "FROZEN" /\ h.delivery = o.delivery /\ h.control = "none"
        /\ h.open = o.open /\ h.done = o.done /\ h.effect = o.effect
    BY <1>4, <1>6 DEF Round
  <2>7. ~sending => o.delivery = "PENDING"
    BY <1>1, NotSending
  <2> HIDE DEF a, b, d, e, g, h
  <2>8. r \in receipt => RowStep(o, a, carried[r].answer)
    BY <1>1, <2>1, ConsumedRow
  <2>9. RowStep(o, b, carried[r].answer) /\ RowStep(o, d, carried[r].answer)
    BY <1>1, <2>2, <2>3, ConsumedRow
  <2>10. ~sending => RowStep(o, e, carried[r].answer)
    BY <1>1, <2>4, <2>7, ConsumedRow
  <2>11. ~sending => RowStep(o, h, carried[r].answer)
    BY <1>1, <2>6, <2>7, StatusSets, ActiveRow
  <2>12. ~sending /\ s # 0 => Advance(Merge([round EXCEPT ![r] = g], r, s))
    BY <1>1, <2>5, <2>7, MergeAdvance
  <2> QED BY <1>3, <1>6, <2>8, <2>9, <2>10, <2>11, <2>12, PutAdvance
<1> QED BY <1>2, <1>6

\* A failed attempt without a command.
LEMMA FailAdvance ==
  ASSUME Sound, NEW r \in Rounds, round[r].status \in Processing, round[r].control = "none"
  PROVE  Advance(FailRows(r))
<1> DEFINE q == round[r]
           s == Successor(r)
           y == Consume(q)
           k == Close(y, "ERROR_RESOLVED")
           a == Close(q, "SUPERSEDED")
           b == Close(q, "FROZEN")
           d == [k EXCEPT !.delivery = "PENDING"]
<1>1. q \in Round /\ Consistent(q) /\ q.status \in Active
  BY StatusSets DEF Sound, Good
<1>2. \/ ~q.effect /\ s # 0 /\ FailRows(r) = Merge([round EXCEPT ![r] = a], r, s)
      \/ ~q.effect /\ FailRows(r) = [round EXCEPT ![r] = b]
      \/ FailRows(r) = [round EXCEPT ![r] = d]
  <2>1. CASE s # 0 /\ ~q.effect
    BY <2>1 DEF FailRows
  <2>2. CASE s = 0 /\ ~q.effect /\ Failures(r) < MaxFailures
    BY <2>2 DEF FailRows
  <2>3. CASE ~(s # 0 /\ ~q.effect) /\ ~(s = 0 /\ ~q.effect /\ Failures(r) < MaxFailures)
    BY <2>3 DEF FailRows
  <2> QED BY <2>1, <2>2, <2>3
<1>3. /\ y \in Round /\ y.open = {} /\ y.done = q.done \cup q.open /\ y.effect = q.effect
      /\ y.control = "none"
  BY <1>1, RowFields, QuietStatuses
<1> HIDE DEF y
<1>4. /\ k \in Round /\ k.open = {} /\ k.done = q.done \cup q.open /\ k.effect = q.effect
      /\ k.control = "none" /\ k.status = "ERROR_RESOLVED"
  <2>1. "ERROR_RESOLVED" \in Statuses
    BY QuietStatuses
  <2> QED BY <1>3, <2>1, RowFields
<1> HIDE DEF k
<1>5. Consumed(q, d, "ERROR_RESOLVED", "PENDING")
  BY <1>4, QuietStatuses DEF Consumed, Round
<1>6. ~q.effect => q.delivery = "PENDING"
  BY <1>1 DEF Consistent
<1>7. Turned(q, a, "SUPERSEDED", q.delivery)
  BY <1>1, CloseTurns, QuietStatuses
<1>8. Turned(q, b, "FROZEN", q.delivery)
  BY <1>1, CloseTurns, QuietStatuses
<1> HIDE DEF a, b, d
<1>9. RowStep(q, d, carried[r].answer)
  BY <1>1, <1>5, ConsumedRow
<1>10. ~q.effect => RowStep(q, b, carried[r].answer)
  BY <1>1, <1>6, <1>8, StatusSets, ActiveRow DEF Turned
<1>11. ~q.effect /\ s # 0 => Advance(Merge([round EXCEPT ![r] = a], r, s))
  BY <1>1, <1>6, <1>7, MergeAdvance
<1> QED BY <1>2, <1>9, <1>10, <1>11, PutAdvance

-----------------------------------------------------------------------------
(* The invariant, and the steps of a worker that change rows                 *)

\* The texts of a round against its row.
CarriedPart(r) ==
  /\ carried[r].answer <= 1 /\ carried[r].fallback <= 1
  /\ carried[r].answer > 0 => Launched(round[r])
  /\ carried[r].fallback > 0 => Noticed(round[r])
  /\ r \in receipt => carried[r].answer = 1
  /\ (round[r].status = "SUCCEEDED" /\ round[r].delivery = "DELIVERED") => carried[r].answer = 1

\* A worker against its round: it is where the row says the text may be, and
\* an owner before its answer owns a round that is not being answered.
WorkerPart(w) ==
  LET k == worker[w].round
      p == worker[w].pc
  IN /\ p # "idle" => k \in Rounds
     /\ p \in Sends => Launched(round[k])
     /\ p \in Notifies => Noticed(round[k])
     /\ p = "sending" => carried[k].answer = 0
     /\ p \in {"carried", "sent"} => carried[k].answer = 1
     /\ p \in {"notify", "notifying"} => carried[k].fallback = 0
     /\ (p \in Early /\ round[k].status \in Processing /\ worker[w].token = round[k].lease) =>
          round[k].delivery # "SENDING"

\* Two workers neither share a claim nor send the same text.
Meets(v, w) ==
  /\ worker[v].round = worker[w].round
  /\ \/ worker[v].pc \in Running /\ worker[w].pc \in Running /\ worker[v].token = worker[w].token
     \/ worker[v].pc \in Sends /\ worker[w].pc \in Sends
     \/ worker[v].pc \in Notifies /\ worker[w].pc \in Notifies

SendInv ==
  /\ \A r \in Rounds : Consistent(round[r]) /\ CarriedPart(r)
  /\ \A w \in Workers : WorkerPart(w)
  /\ \A v, w \in Workers : Meets(v, w) => v = w

\* An input is held by one round.
Unshared ==
  \A m \in Messages, r, s \in Rounds :
    (Has(round[r], m) /\ Has(round[s], m) /\ Holds(round[r]) /\ Holds(round[s])) => r = s

\* An input that was left behind is dealt with.
Dealt ==
  \A m \in Messages, r \in Rounds : Left(round[r], m) => \E s \in Rounds : Deals(round[s], m)

\* The inductive invariant.
DInv ==
  /\ EInv /\ SendInv
  /\ RestartReopened \/ Unshared
  /\ "delete" \in Commands \/ Dealt

\* complete_round, before the answer.
LEMMA CompleteAdvance ==
  ASSUME Sound, NEW w \in Workers, NEW r \in Rounds, WorkerPart(w), Complete(w, r)
  PROVE  Advance(round')
<1> DEFINE q == round[r]
           s == Successor(r)
           y == Consume(q)
           a == Close(q, "WAITING_APPROVAL")
           b == Close(q, "FROZEN")
           d == Close(q, "SUPERSEDED")
           e == Close(y, "SUCCEEDED")
           g == [e EXCEPT !.delivery = "SKIPPED", !.checkpoint = "none"]
<1>1. q \in Round /\ Consistent(q) /\ q.status = "RUNNING" /\ q.status \in Active
  BY StatusSets DEF Sound, Good, Complete
<1>2. \/ round' = Controlled(r, round[r].control)
      \/ q.control = "none" /\ round' = [round EXCEPT ![r] = a]
      \/ q.control = "none" /\ round' = [round EXCEPT ![r] = b]
      \/ q.control = "none" /\ s # 0 /\ round' = Merge([round EXCEPT ![r] = d], r, s)
      \/ q.control = "none" /\ round' = [round EXCEPT ![r] = e]
      \/ q.control = "none" /\ round' = [round EXCEPT ![r] = g]
  BY DEF Complete, Settle
<1>3. q.delivery = "PENDING"
  <2>1. worker[w].round = r /\ worker[w].pc \in Early /\ worker[w].token = q.lease
    BY DEF Complete, At, Owns, Early
  <2>2. q.delivery # "SENDING"
    BY <1>1, <2>1, StatusSets DEF WorkerPart
  <2> QED BY <1>1, <2>2, NotSending, StatusSets
<1>4. CASE round' = Controlled(r, round[r].control)
  BY <1>1, <1>3, <1>4, ControlledAdvance
<1>5. CASE q.control = "none"
  <2>1. Turned(q, a, "WAITING_APPROVAL", "PENDING")
    BY <1>1, <1>3, <1>5, CloseTurns, QuietStatuses
  <2>2. Turned(q, b, "FROZEN", "PENDING")
    BY <1>1, <1>3, <1>5, CloseTurns, QuietStatuses
  <2>3. Turned(q, d, "SUPERSEDED", "PENDING")
    BY <1>1, <1>3, <1>5, CloseTurns, QuietStatuses
  <2>4. /\ y \in Round /\ y.open = {} /\ y.done = q.done \cup q.open /\ y.effect = q.effect
        /\ y.control = "none" /\ y.delivery = "PENDING"
    BY <1>1, <1>3, <1>5, RowFields, QuietStatuses
  <2> HIDE DEF y
  <2>5. Consumed(q, e, "SUCCEEDED", "PENDING")
    BY <2>4, RowFields, QuietStatuses DEF Consumed
  <2> HIDE DEF e
  <2>6. Consumed(q, g, "SUCCEEDED", "SKIPPED")
    BY <2>5, QuietStatuses DEF Consumed, Round
  <2> HIDE DEF a, b, d, g
  <2>7. RowStep(q, a, carried[r].answer)
    BY <1>1, <1>3, <2>1, StatusSets, ActiveRow DEF Turned
  <2>8. RowStep(q, b, carried[r].answer)
    BY <1>1, <1>3, <2>2, StatusSets, ActiveRow DEF Turned
  <2>9. RowStep(q, e, carried[r].answer) /\ RowStep(q, g, carried[r].answer)
    BY <1>1, <2>5, <2>6, ConsumedRow
  <2>10. s # 0 => Advance(Merge([round EXCEPT ![r] = d], r, s))
    BY <1>1, <1>3, <2>3, MergeAdvance
  <2> QED BY <1>2, <1>4, <2>7, <2>8, <2>9, <2>10, PutAdvance
<1> QED BY <1>2, <1>4, <1>5

\* complete_round, after the transport.
LEMMA DeliveryAdvance ==
  ASSUME Sound, NEW w \in Workers, NEW r \in Rounds, WorkerPart(w), Owns(w, r),
         Delivered(w, r) \/ DeliveryUnknown(w, r)
  PROVE  Advance(round')
<1> DEFINE q == round[r]
           y == Consume(q)
           e == Close(y, "SUCCEEDED")
           u == Close(y, "ERROR_RESOLVED")
           g == [e EXCEPT !.delivery = "DELIVERED", !.checkpoint = "none"]
           h == [u EXCEPT !.delivery = "UNKNOWN"]
<1>1. q \in Round /\ Consistent(q) /\ q.status \in Processing /\ q.status \in Active
  BY StatusSets DEF Sound, Good, Owns
<1>2. \/ worker[w].pc = "sent" /\ round' = [round EXCEPT ![r] = g]
      \/ round' = [round EXCEPT ![r] = h]
  BY DEF Delivered, DeliveryUnknown, Settle, At
<1>3. worker[w].round = r /\ worker[w].pc \in Sends
  BY DEF Delivered, DeliveryUnknown, At, Sends
<1>4. q.control = "none"
  BY <1>1, <1>3, StatusSets DEF WorkerPart, Launched, Consistent
<1>5. worker[w].pc = "sent" => carried[r].answer = 1
  BY <1>3 DEF WorkerPart
<1>6. /\ y \in Round /\ y.open = {} /\ y.done = q.done \cup q.open /\ y.effect = q.effect
      /\ y.control = "none"
  BY <1>1, <1>4, RowFields, QuietStatuses
<1> HIDE DEF y
<1>7. /\ e \in Round /\ e.open = {} /\ e.done = q.done \cup q.open /\ e.effect = q.effect
      /\ e.control = "none" /\ e.status = "SUCCEEDED"
  <2>1. "SUCCEEDED" \in Statuses
    BY QuietStatuses
  <2> QED BY <1>6, <2>1, RowFields
<1>8. /\ u \in Round /\ u.open = {} /\ u.done = q.done \cup q.open /\ u.effect = q.effect
      /\ u.control = "none" /\ u.status = "ERROR_RESOLVED"
  <2>1. "ERROR_RESOLVED" \in Statuses
    BY QuietStatuses
  <2> QED BY <1>6, <2>1, RowFields
<1> HIDE DEF e, u
<1>9. Consumed(q, g, "SUCCEEDED", "DELIVERED")
  BY <1>7, QuietStatuses DEF Consumed, Round
<1>10. Consumed(q, h, "ERROR_RESOLVED", "UNKNOWN")
  BY <1>8, QuietStatuses DEF Consumed, Round
<1> HIDE DEF g, h
<1>11. worker[w].pc = "sent" => RowStep(q, g, carried[r].answer)
  BY <1>1, <1>5, <1>9, ConsumedRow
<1>12. RowStep(q, h, carried[r].answer)
  BY <1>1, <1>10, ConsumedRow
<1> QED BY <1>2, <1>11, <1>12, PutAdvance

\* build_turn, the first effect and a checkpoint, by the owner.
LEMMA RunAdvance ==
  ASSUME Sound, NEW w \in Workers, NEW r \in Rounds, WorkerPart(w), Owns(w, r),
         Build(w, r) \/ MarkEffect(w, r) \/ SaveCheckpoint(w, r)
  PROVE  Advance(round')
<1> DEFINE q == round[r]
           a == [q EXCEPT !.status = "RUNNING"]
           b == [q EXCEPT !.effect = TRUE]
           d(c) == [q EXCEPT !.checkpoint = c]
<1>1. /\ round \in [Rounds -> Round] /\ q \in Round /\ Consistent(q)
      /\ q.status \in Processing /\ q.status \in Active
  BY StatusSets DEF Sound, Good, Owns
<1>2. q.delivery = "PENDING"
  <2>1. worker[w].round = r /\ worker[w].pc \in Early /\ worker[w].token = q.lease
    BY DEF Build, MarkEffect, SaveCheckpoint, At, Owns, Early
  <2>2. q.delivery # "SENDING"
    BY <1>1, <2>1 DEF WorkerPart
  <2> QED BY <1>1, <2>2, NotSending
<1>3. \/ round' = [round EXCEPT ![r] = a]
      \/ round' = [round EXCEPT ![r] = b]
      \/ \E c \in {"safe", "unsafe"} : round' = [round EXCEPT ![r] = d(c)]
  BY <1>1 DEF Build, MarkEffect, SaveCheckpoint
<1>4. /\ a.status = "RUNNING" /\ a.delivery = q.delivery /\ a.open = q.open /\ a.done = q.done
      /\ a.effect = q.effect
  BY <1>1 DEF Round
<1>5. /\ b.status = q.status /\ b.delivery = q.delivery /\ b.open = q.open /\ b.done = q.done
      /\ b.effect
  BY <1>1 DEF Round
<1>6. ASSUME NEW c
      PROVE  /\ d(c).status = q.status /\ d(c).delivery = q.delivery /\ d(c).open = q.open
             /\ d(c).done = q.done /\ d(c).effect = q.effect
  BY <1>1 DEF Round
<1> HIDE DEF a, b, d
<1>7. RowStep(q, a, carried[r].answer)
  BY <1>1, <1>2, <1>4, StatusSets, ActiveRow
<1>8. RowStep(q, b, carried[r].answer)
  BY <1>1, <1>2, <1>5, ActiveRow
<1>9. ASSUME NEW c PROVE RowStep(q, d(c), carried[r].answer)
  BY <1>1, <1>2, <1>6, ActiveRow
<1> QED BY <1>3, <1>7, <1>8, <1>9, PutAdvance

-----------------------------------------------------------------------------
(* Notifications, leases and people                                          *)

\* The end of a fallback text: its round failed, and is not queued again.
LEMMA EndNotificationAdvance ==
  ASSUME Sound, NEW w \in Workers, NEW r \in Rounds, WorkerPart(w), EndNotification(w, r),
         round' # round
  PROVE  Advance(round')
<1> DEFINE q == round[r]
           k == ClearLease(q)
           x(d) == [k EXCEPT !.delivery = d]
<1>1. q \in Round /\ Consistent(q)
  BY DEF Sound, Good
<1>2. q.delivery = "SENDING" /\ \E d \in {"UNKNOWN", "DELIVERED"} : round' = [round EXCEPT ![r] = x(d)]
  BY DEF EndNotification, Drop
<1>3. q.status = "ERROR_RESOLVED"
  <2>1. worker[w].round = r /\ worker[w].pc \in Notifies
    BY DEF EndNotification, At, Notifies
  <2>2. Noticed(q)
    BY <2>1 DEF WorkerPart
  <2> QED BY <1>1, <1>2, <2>2 DEF Noticed, Consistent
<1>4. /\ k \in Round /\ k.open = q.open /\ k.done = q.done /\ k.effect = q.effect
      /\ k.control = q.control /\ k.status = q.status
  BY <1>1, RowFields, QuietStatuses
<1> HIDE DEF k
<1>5. ASSUME NEW d \in {"UNKNOWN", "DELIVERED"} PROVE RowStep(q, x(d), carried[r].answer)
  <2>1. /\ x(d).status = "ERROR_RESOLVED" /\ x(d).delivery = d /\ x(d).control = q.control
        /\ x(d).open = q.open /\ x(d).done = q.done /\ x(d).effect = q.effect
    BY <1>3, <1>4 DEF Round
  <2> HIDE DEF x
  <2> QED BY <1>1, <1>3, <2>1, FailedRow
<1> HIDE DEF x
<1> QED BY <1>2, <1>5, PutAdvance

\* Rounds are numbered from one.
LEMMA ZeroNotRound == 0 \notin Rounds
BY Bounds DEF Rounds

\* Giving up one fallback text and leasing another, to worker w.
LEMMA NotificationAdvance ==
  ASSUME Sound, NEW w \in Workers, ClaimNotification(w)
  PROVE  /\ Advance(round')
         /\ \/ worker' = worker
            \/ \E n \in Rounds : /\ FallbackDue(n) /\ Noticed(round'[n])
                                 /\ worker' = [worker EXCEPT ![w] = [pc |-> "notify", round |-> n, token |-> 0]]
<1> DEFINE E == {r \in Rounds : /\ round[r].status = "ERROR_RESOLVED"
                                /\ round[r].delivery = "SENDING" /\ ~round[r].live}
           N == {r \in Rounds : FallbackDue(r)}
           a(r) == [ClearLease(round[r]) EXCEPT !.delivery = "UNKNOWN"]
           b(r) == [round[r] EXCEPT !.delivery = "SENDING", !.lease = Notify, !.live = TRUE]
           y(n) == [pc |-> "notify", round |-> n, token |-> 0]
<1>1. PICK e \in OneOf(E), n \in OneOf(N) :
        /\ e # 0 \/ n # 0
        /\ round' = [r \in Rounds |-> CASE r = e -> a(r) [] r = n -> b(r) [] OTHER -> round[r]]
        /\ worker' = IF n = 0 THEN worker ELSE [worker EXCEPT ![w] = y(n)]
  BY DEF ClaimNotification
<1>2. /\ e # 0 => (e \in Rounds /\ round[e].status = "ERROR_RESOLVED" /\ round[e].delivery = "SENDING")
      /\ n # 0 => (n \in Rounds /\ round[n].status = "ERROR_RESOLVED" /\ round[n].delivery = "PENDING")
      /\ n # 0 => FallbackDue(n)
  BY DEF OneOf, FallbackDue
<1>3. e # n
  BY <1>1, <1>2
<1>4. ASSUME NEW r \in Rounds
      PROVE  /\ r = e => round'[r] = a(r)
             /\ r = n => round'[r] = b(r)
             /\ (r # e /\ r # n) => round'[r] = round[r]
  <2>1. CASE r = e
    BY <1>1, <1>3, <2>1
  <2>2. CASE r = n
    BY <1>1, <1>3, <2>2
  <2>3. CASE r # e /\ r # n
    BY <1>1, <2>3
  <2> QED BY <1>3, <2>1, <2>2, <2>3
<1>5. ASSUME NEW r \in Rounds
      PROVE  /\ a(r).status = round[r].status /\ a(r).delivery = "UNKNOWN"
             /\ a(r).control = round[r].control /\ a(r).open = round[r].open
             /\ a(r).done = round[r].done /\ a(r).effect = round[r].effect
             /\ b(r).status = round[r].status /\ b(r).delivery = "SENDING"
             /\ b(r).control = round[r].control /\ b(r).open = round[r].open
             /\ b(r).done = round[r].done /\ b(r).effect = round[r].effect
  <2>1. round[r] \in Round
    BY DEF Sound, Good
  <2> QED BY <2>1 DEF ClearLease, Round
<1> HIDE DEF a, b
<1>6. ASSUME NEW r \in Rounds PROVE RowStep(round[r], round'[r], carried[r].answer)
  <2>0. Consistent(round[r])
    BY DEF Sound
  <2>1. CASE r = e
    <3>1. round[r].status = "ERROR_RESOLVED"
      BY <1>2, <2>1, ZeroNotRound
    <3>2. round'[r] = a(r)
      BY <1>4, <2>1
    <3>3. RowStep(round[r], a(r), carried[r].answer)
      BY <1>5, <2>0, <3>1, FailedRow
    <3> QED BY <3>2, <3>3
  <2>2. CASE r = n
    <3>1. round[r].status = "ERROR_RESOLVED" /\ round[r].delivery = "PENDING"
      BY <1>2, <2>2, ZeroNotRound
    <3>2. round'[r] = b(r)
      BY <1>4, <2>2
    <3>3. RowStep(round[r], b(r), carried[r].answer)
      BY <1>5, <2>0, <3>1, FailedRow
    <3> QED BY <3>2, <3>3
  <2>3. CASE r # e /\ r # n
    <3>1. round'[r] = round[r]
      BY <1>4, <2>3
    <3>2. RowStep(round[r], round[r], carried[r].answer)
      BY <2>0, StayRow
    <3> QED BY <3>1, <3>2
  <2> QED BY <2>1, <2>2, <2>3
<1>7. Advance(round')
  <2>1. Rounds # {}
    BY <1>1, <1>2
  <2> QED BY <1>6, <2>1, EachAdvance
<1>8. n # 0 => Noticed(round'[n])
  <2> SUFFICES ASSUME n # 0 PROVE Noticed(round'[n])
    OBVIOUS
  <2>1. n \in Rounds /\ round[n].status = "ERROR_RESOLVED"
    BY <1>2
  <2>2. round'[n] = b(n)
    BY <1>4, <2>1
  <2>3. b(n).status = "ERROR_RESOLVED" /\ b(n).delivery = "SENDING"
    BY <1>5, <2>1
  <2> QED BY <2>2, <2>3 DEF Noticed
<1>9. CASE n = 0
  BY <1>1, <1>7, <1>9
<1>10. CASE n # 0
  BY <1>1, <1>2, <1>7, <1>8, <1>10
<1> QED BY <1>9, <1>10

\* The expiry of a lease, and its late renewal.
LEMMA ExpireAdvance ==
  ASSUME Sound, NEW r \in Rounds, Expire(r) \/ \E w \in Workers : RenewLate(w, r)
  PROVE  Advance(round')
<1>1. round \in [Rounds -> Round] /\ round[r] \in Round /\ Consistent(round[r])
  BY DEF Sound, Good
<1>5. PICK b \in BOOLEAN : round' = [round EXCEPT ![r].live = b]
  BY DEF Expire, RenewLate
<1> DEFINE x == [round[r] EXCEPT !.live = b]
<1>2. round' = [round EXCEPT ![r] = x]
  BY <1>1, <1>5
<1>3. /\ x.status = round[r].status /\ x.delivery = round[r].delivery
      /\ x.control = round[r].control /\ x.open = round[r].open /\ x.done = round[r].done
      /\ x.effect = round[r].effect /\ x.lease = round[r].lease
      /\ x.resolvedBy = round[r].resolvedBy
  BY <1>1 DEF Round
<1> HIDE DEF x
<1>4. RowStep(round[r], x, carried[r].answer)
  BY <1>1, <1>3, SameRow
<1> QED BY <1>2, <1>4, PutAdvance

\* Commands are available to active rounds before their answer, and to stopped
\* ones that were not restarted.
LEMMA AvailableRows ==
  ASSUME NEW q \in Round, Consistent(q), NEW c, c \in Available(q)
  PROVE  \/ q.status \in Active /\ q.delivery = "PENDING"
         \/ q.status = "CANCELLED" /\ q.resolvedBy = 0 /\ c = "restart"
<1>1. q.delivery \in {"PENDING", "SKIPPED"}
  BY DEF Available, Round, Deliveries
<1>2. CASE q.control # "none"
  BY <1>1, <1>2, StatusSets DEF Consistent
<1>3. CASE q.control = "none"
  <2>1. CASE q.status \in Active
    BY <1>1, <2>1, StatusSets DEF Consistent
  <2>2. CASE q.status \notin Active
    <3>1. q.status \notin {"FROZEN", "WAITING_APPROVAL"} \cup Processing /\ q.status # "PAUSED"
      BY <2>2, StatusSets
    <3>2. q.status = "CANCELLED" /\ q.resolvedBy = 0
      BY <1>1, <1>3, <3>1 DEF Available
    <3>3. c = "restart"
      BY <1>1, <1>3, <3>1, <3>2 DEF Available
    <3> QED BY <3>2, <3>3
  <2> QED BY <2>1, <2>2
<1> QED BY <1>2, <1>3

\* Pause, stop, respond: recorded, or obeyed at once.
LEMMA RequestAdvance ==
  ASSUME Sound, NEW r \in Rounds, NEW c, Request(r, c)
  PROVE  Advance(round')
<1> DEFINE q == round[r]
           x == [q EXCEPT !.control = c]
<1>1. round \in [Rounds -> Round] /\ q \in Round /\ Consistent(q)
  BY DEF Sound, Good
<1>2. q.status \in Active /\ q.delivery = "PENDING"
  <2>1. c \in Available(q) /\ c # "restart"
    BY DEF Request, Requested
  <2> QED BY <1>1, <2>1, AvailableRows
<1>3. round' = Controlled(r, c) \/ (q.status \in Processing /\ round' = [round EXCEPT ![r] = x])
  BY <1>1 DEF Request
<1>4. /\ x.status = q.status /\ x.delivery = q.delivery /\ x.open = q.open /\ x.done = q.done
      /\ x.effect = q.effect
  BY <1>1 DEF Round
<1> HIDE DEF x
<1>5. q.status \in Processing => RowStep(q, x, carried[r].answer)
  BY <1>1, <1>2, <1>4, ActiveRow
<1> QED BY <1>2, <1>3, <1>5, PutAdvance, ControlledAdvance

\* Resuming a paused round.
LEMMA ResumeAdvance ==
  ASSUME Sound, NEW r \in Rounds, NEW c, Resume(r, c)
  PROVE  Advance(round')
<1> DEFINE q == round[r]
           x == [q EXCEPT !.status = "FROZEN", !.control = "none",
                          !.brief = IF c = "respond" THEN TRUE ELSE q.brief]
<1>1. q \in Round /\ Consistent(q) /\ q.status = "PAUSED" /\ round' = [round EXCEPT ![r] = x]
  BY DEF Sound, Good, Resume
<1>2. /\ x.status = "FROZEN" /\ x.delivery = q.delivery /\ x.open = q.open /\ x.done = q.done
      /\ x.effect = q.effect /\ x.control = "none"
  BY <1>1 DEF Round
<1> HIDE DEF x
<1>3. q.status \in Active /\ q.delivery = "PENDING"
  BY <1>1, StatusSets DEF Consistent
<1>4. RowStep(q, x, carried[r].answer)
  BY <1>1, <1>2, <1>3, StatusSets, ActiveRow
<1> QED BY <1>1, <1>4, PutAdvance

\* A decided approval.  With an effect and a successor, the round ends with its
\* inputs as they are.
LEMMA WakeAdvance ==
  ASSUME Sound, NEW r \in Rounds,
         WakeMerged(r) \/ WakeRead(r) \/ WakeCommit(r) \/ WakeAborts(r)
  PROVE  Advance(round')
<1> DEFINE q == round[r]
           s == Successor(r)
           a(k) == [q EXCEPT !.status = k]
           b == [q EXCEPT !.status = "SUPERSEDED", !.checkpoint = "none"]
<1>1. /\ q \in Round /\ round \in [Rounds -> Round]
      /\ q.status \in {"WAITING_APPROVAL", "WAKING"} /\ Consistent(q)
  BY DEF Sound, Good, WakeMerged, WakeRead, WakeCommit, WakeAborts
<1>2. \/ \E k \in {"WAITING_APPROVAL", "WAKING", "FROZEN"} : round' = [round EXCEPT ![r] = a(k)]
      \/ q.effect /\ round' = [round EXCEPT ![r] = b]
      \/ s # 0 /\ round' = Merge([round EXCEPT ![r] = b], r, s)
  BY <1>1 DEF WakeMerged, WakeRead, WakeCommit, WakeAborts
<1>3. q.status \in Active /\ q.delivery = "PENDING" /\ q.control = "none"
  BY <1>1, StatusSets DEF Consistent
<1>4. ASSUME NEW k
      PROVE  /\ a(k).status = k /\ a(k).delivery = q.delivery /\ a(k).open = q.open
             /\ a(k).done = q.done /\ a(k).effect = q.effect /\ a(k).control = "none"
  BY <1>1, <1>3 DEF Round
<1>5. Turned(q, b, "SUPERSEDED", "PENDING")
  BY <1>1, <1>3, QuietStatuses DEF Turned, Round
<1> HIDE DEF a, b
<1>6. ASSUME NEW k \in {"WAITING_APPROVAL", "WAKING", "FROZEN"}
      PROVE  RowStep(q, a(k), carried[r].answer)
  <2>1. a(k).status \in Active
    BY <1>4, StatusSets
  <2> QED BY <1>1, <1>3, <1>4, <2>1, ActiveRow
<1>7. q.effect => RowStep(q, b, carried[r].answer)
  <2>1. Consistent(b)
    BY <1>5, StatusSets DEF Turned, Consistent
  <2>2. Delivers(q, b, carried[r].answer) /\ Silent(q, b)
    BY <1>1, <1>3, <1>5, <2>1, StatusSets DEF Delivers, Silent, Turned, Launched, Noticed
  <2>3. q.effect => Settles(q, b)
    <3>1. Holds(q)
      BY <1>3 DEF Holds
    <3>2. q.effect => \A m \in Messages : Deals(q, m) => Deals(b, m)
      BY <1>5 DEF Deals, Turned
    <3> QED BY <1>3, <1>5, <3>1, <3>2 DEF Settles, Turned
  <2> QED BY <2>2, <2>3 DEF RowStep
<1>8. s # 0 => Advance(Merge([round EXCEPT ![r] = b], r, s))
  BY <1>3, <1>5, MergeAdvance
<1> QED BY <1>2, <1>6, <1>7, <1>8, PutAdvance

\* Resolving an unknown delivery.
LEMMA ResolveAdvance ==
  ASSUME Sound, NEW r \in Rounds, ResolveUnknown(r)
  PROVE  Advance(round')
<1>1. round \in [Rounds -> Round] /\ round[r] \in Round /\ Consistent(round[r])
  BY DEF Sound, Good
<1>2. PICK d \in {"DELIVERED", "SKIPPED"} : round' = [round EXCEPT ![r].delivery = d]
  BY DEF ResolveUnknown
<1>3. round[r].status = "ERROR_RESOLVED"
  <2>1. round[r].delivery = "UNKNOWN" /\ round[r].status \in Statuses
    BY <1>1 DEF ResolveUnknown, Round
  <2> QED BY <1>1, <2>1, StatusSets DEF Consistent, Statuses
<1> DEFINE x == [round[r] EXCEPT !.delivery = d]
<1>4. round' = [round EXCEPT ![r] = x]
  BY <1>1, <1>2
<1>5. /\ x.status = round[r].status /\ x.delivery = d /\ x.control = round[r].control
      /\ x.open = round[r].open /\ x.done = round[r].done /\ x.effect = round[r].effect
  BY <1>1 DEF Round
<1> HIDE DEF x
<1>6. RowStep(round[r], x, carried[r].answer)
  BY <1>1, <1>3, <1>5, FailedRow
<1> QED BY <1>4, <1>6, PutAdvance

\* Restarting a stopped round: a new one has its inputs, and it holds them no more.
LEMMA RestartAdvance ==
  ASSUME Sound, NEW r \in Rounds, Restart(r)
  PROVE  Advance(round')
<1> DEFINE q == round[r]
           n == NextRound
           x == [q EXCEPT !.resolvedBy = n]
           k == FreshRound(q.open \cup q.done)
           a == [k EXCEPT !.effect = q.effect, !.brief = q.brief, !.checkpoint = q.checkpoint]
<1>1. round \in [Rounds -> Round] /\ q \in Round /\ Consistent(q)
  BY DEF Sound, Good
<1>2. /\ n \in Rounds /\ round[n] = Absent /\ "restart" \in Available(q) /\ "restart" \in Commands
      /\ n # 0
  BY NextRoundType, ZeroNotRound DEF Restart
<1>3. q.status = "CANCELLED" /\ q.resolvedBy = 0 /\ n # r
  <2>1. q.status = "CANCELLED" /\ q.resolvedBy = 0
    BY <1>1, <1>2 DEF Available, Round, Deliveries
  <2> QED BY <2>1, <1>2 DEF Absent
<1>4. round' = [round EXCEPT ![r] = x, ![n] = a]
  BY <1>1, <1>3 DEF Restart
<1>5. /\ k \in Round /\ k.status = "FROZEN" /\ k.delivery = "PENDING" /\ k.control = "none"
      /\ k.open = q.open \cup q.done /\ k.done = {}
  <2>1. q.open \cup q.done \in SUBSET Messages
    BY <1>1 DEF Round
  <2>2. k \in Round
    BY <2>1, FreshType
  <2> QED BY <2>2 DEF FreshRound, Absent
<1>6. /\ x.status = "CANCELLED" /\ x.delivery = q.delivery /\ x.control = q.control
      /\ x.open = q.open /\ x.done = q.done /\ x.effect = q.effect /\ x.resolvedBy = n
  BY <1>1, <1>3 DEF Round
<1> HIDE DEF k
<1>7. /\ a.status = "FROZEN" /\ a.delivery = "PENDING" /\ a.control = "none"
      /\ a.open = q.open \cup q.done /\ a.done = {}
  BY <1>5 DEF Round
<1> HIDE DEF a, x, n
<1>8. \A s \in Rounds : round'[s] = IF s = n THEN a ELSE IF s = r THEN x ELSE round[s]
  BY <1>1, <1>2, <1>3, <1>4
<1>9. /\ Absent.status = "ABSENT" /\ Absent.open = {} /\ Absent.done = {}
      /\ Absent.delivery = "PENDING"
  BY DEF Absent
<1>10. \A c : Delivers(Absent, a, c) /\ Silent(Absent, a)
  <2>1. Consistent(a)
    BY <1>7, StatusSets DEF Consistent
  <2> QED BY <1>7, <1>9, <2>1, StatusSets DEF Delivers, Silent, Launched, Noticed
<1>11. \A c : Delivers(q, x, c) /\ Silent(q, x)
  <2>1. Consistent(x)
    BY <1>1, <1>3, <1>6, StatusSets DEF Consistent
  <2> QED BY <1>3, <1>6, <2>1, StatusSets DEF Delivers, Silent, Launched, Noticed
<1>12. \A s \in Rounds : Delivers(round[s], round'[s], carried[s].answer) /\ Silent(round[s], round'[s])
  BY <1>2, <1>8, <1>10, <1>11, StayRow DEF Sound, RowStep
<1>13. Holds(q) /\ ~Holds(x)
  BY <1>2, <1>3, <1>6, StatusSets DEF Holds
<1>14. Hands(round')
  <2>1. ASSUME NEW s \in Rounds, NEW m \in Messages, Has(round'[s], m), Holds(round'[s])
        PROVE  \/ Has(round[s], m) /\ Holds(round[s])
               \/ s = n /\ Has(q, m) /\ Holds(q) /\ ~Holds(round'[r])
    <3>1. CASE s = n
      BY <1>3, <1>7, <1>8, <1>13, <2>1, <3>1 DEF Has
    <3>2. CASE s = r
      BY <1>3, <1>8, <1>13, <2>1, <3>2
    <3>3. CASE s # n /\ s # r
      BY <1>8, <2>1, <3>3
    <3> QED BY <3>1, <3>2, <3>3
  <2> QED BY <1>2, <2>1 DEF Hands
<1>15. ASSUME NEW s \in Rounds, NEW m \in Messages, Deals(round[s], m)
       PROVE  Deals(round'[s], m)
  <2>1. CASE s = n
    BY <1>2, <1>9, <1>15, <2>1 DEF Deals
  <2>2. CASE s = r
    BY <1>3, <1>6, <1>8, <1>15, <2>2 DEF Deals
  <2>3. CASE s # n /\ s # r
    BY <1>8, <1>15, <2>3
  <2> QED BY <2>1, <2>2, <2>3
<1>16. ASSUME NEW s \in Rounds, NEW m \in Messages, Left(round'[s], m)
       PROVE  Left(round[s], m)
  <2>1. CASE s = n
    BY <1>7, <1>8, <1>16, <2>1, StatusSets DEF Left
  <2>2. CASE s = r
    BY <1>3, <1>6, <1>8, <1>16, <2>2 DEF Left
  <2>3. CASE s # n /\ s # r
    BY <1>8, <1>16, <2>3
  <2> QED BY <2>1, <2>2, <2>3
<1>17. Preserves(round')
  BY <1>15, <1>16 DEF Preserves
<1> QED BY <1>12, <1>14, <1>17 DEF Advance

\* Deleting a round.
LEMMA DeleteAdvance ==
  ASSUME Sound, NEW r \in Rounds, DeleteRound(r)
  PROVE  Advance(round')
<1> DEFINE a == [Absent EXCEPT !.status = "DELETED"]
           b(s) == [round[s] EXCEPT !.resolvedBy = IF @ = r THEN 0 ELSE @]
<1>1. /\ a.status = "DELETED" /\ a.control = "none" /\ a.open = {} /\ a.done = {}
      /\ a.delivery = "PENDING"
  BY DEF Absent
<1>2. ASSUME NEW s \in Rounds
      PROVE  /\ b(s).status = round[s].status /\ b(s).delivery = round[s].delivery
             /\ b(s).control = round[s].control /\ b(s).open = round[s].open
             /\ b(s).done = round[s].done /\ b(s).effect = round[s].effect
             /\ b(s).lease = round[s].lease
  <2>1. round[s] \in Round
    BY DEF Sound, Good
  <2> QED BY <2>1 DEF Round
<1>3. \A s \in Rounds : round'[s] = IF s = r THEN a ELSE b(s)
  BY DEF DeleteRound
<1>4. "delete" \in Commands
  BY DEF DeleteRound
<1> HIDE DEF a, b
<1>5. ASSUME NEW s \in Rounds
      PROVE  Delivers(round[s], round'[s], carried[s].answer) /\ Silent(round[s], round'[s])
  <2>1. CASE s = r
    <3>1. round'[s] = a
      BY <1>3, <2>1
    <3>2. Consistent(a)
      BY <1>1, StatusSets DEF Consistent
    <3>3. Delivers(round[s], a, carried[s].answer) /\ Silent(round[s], a)
      BY <1>1, <3>2, StatusSets DEF Delivers, Silent, Launched, Noticed
    <3> QED BY <3>1, <3>3
  <2>2. CASE s # r
    <3>1. round'[s] = b(s)
      BY <1>3, <2>2
    <3>2. Consistent(round[s])
      BY DEF Sound
    <3>3. Consistent(b(s))
      BY <1>2, <3>2, StatusSets DEF Consistent
    <3>4. Delivers(round[s], b(s), carried[s].answer) /\ Silent(round[s], b(s))
      BY <1>2, <3>2, <3>3 DEF Delivers, Silent, Launched, Noticed, Consistent
    <3> QED BY <3>1, <3>4
  <2> QED BY <2>1, <2>2
<1>6. CASE "restart" \in Commands
  <2>1. Reopened(round')
    BY <1>1, <1>3, <1>6 DEF Reopened
  <2> QED BY <1>4, <1>5, <2>1 DEF Advance
<1>7. CASE "restart" \notin Commands
  <2>1. ASSUME NEW s \in Rounds, NEW m \in Messages, Has(round'[s], m), Holds(round'[s])
        PROVE  Has(round[s], m) /\ Holds(round[s])
    <3>1. s # r
      BY <1>1, <1>3, <2>1 DEF Has
    <3>2. round'[s] = b(s)
      BY <1>3, <3>1
    <3> QED BY <1>2, <1>7, <2>1, <3>2 DEF Has, Holds
  <2>2. Hands(round')
    BY <2>1 DEF Hands
  <2> QED BY <1>4, <1>5, <2>2 DEF Advance
<1> QED BY <1>6, <1>7

\* Claiming a round that waits, or again one whose worker is gone.
LEMMA ClaimAdvance ==
  ASSUME Sound, NEW r \in Rounds,
         round[r].status = "FROZEN" \/ (round[r].status \in Processing /\ round[r].delivery # "SENDING"),
         round' = [round EXCEPT ![r] = ClaimedRow(@)]
  PROVE  Advance(round') /\ round'[r].delivery = "PENDING"
<1> DEFINE q == round[r]
           x == ClaimedRow(q)
<1>1. round \in [Rounds -> Round] /\ q \in Round /\ Consistent(q)
  BY DEF Sound, Good
<1>2. q.status \in Active /\ q.delivery = "PENDING"
  BY <1>1, NotSending, StatusSets DEF Consistent
<1>3. /\ x.status = "CLAIMED" /\ x.delivery = q.delivery /\ x.open = q.open /\ x.done = q.done
      /\ x.effect = q.effect
  BY <1>1 DEF ClaimedRow, Round
<1>4. round' = [round EXCEPT ![r] = x] /\ round'[r] = x
  BY <1>1
<1> HIDE DEF x
<1>5. RowStep(q, x, carried[r].answer)
  BY <1>1, <1>2, <1>3, StatusSets, ActiveRow
<1>6. Advance([round EXCEPT ![r] = x])
  BY <1>5, PutAdvance
<1> QED BY <1>2, <1>3, <1>4, <1>6

-----------------------------------------------------------------------------
(* Admission                                                                 *)

\* A round that waits for a person, and one whose inputs a new message takes.
Parked(q) == q.status \in {"WAITING_APPROVAL", "PAUSED"}
Passes(q) == Parked(q) /\ (q.status = "PAUSED" \/ ~q.effect)

Supersedes(q, x) ==
  /\ x.status = "SUPERSEDED" /\ x.delivery = q.delivery /\ x.control = q.control
  /\ x.open = q.open /\ x.done = q.done /\ x.effect = q.effect

\* What superseding the rounds of f that wait for a person does.
LEMMA SupersededRows ==
  ASSUME NEW f \in [Rounds -> Round], NEW t \in Rounds, f[t].status = "FROZEN", f[t].done = {}
  PROVE  /\ \A s \in Rounds \ {t} : IF Parked(f[s]) THEN Supersedes(f[s], Superseded(f, t)[s])
                                    ELSE Superseded(f, t)[s] = f[s]
         /\ Superseded(f, t)[t].status = "FROZEN" /\ Superseded(f, t)[t].delivery = f[t].delivery
         /\ Superseded(f, t)[t].control = f[t].control /\ Superseded(f, t)[t].done = {}
         /\ \A m : m \in Superseded(f, t)[t].open <=>
                     (m \in f[t].open \/ \E p \in Rounds : Passes(f[p]) /\ m \in f[p].open)
<1> DEFINE waiting == {s \in Rounds : f[s].status \in {"WAITING_APPROVAL", "PAUSED"}}
           merged  == {s \in waiting : f[s].status = "PAUSED" \/ ~f[s].effect}
           more == UNION {f[x].open : x \in merged}
           a == [f[t] EXCEPT !.open = @ \cup more, !.done = {}]
           b(s) == [f[s] EXCEPT !.status = "SUPERSEDED", !.checkpoint = "none",
                                !.resolvedBy = IF s \in merged THEN t ELSE @]
           g == Superseded(f, t)
<1>1. /\ g[t] = IF merged = {} THEN f[t] ELSE a
      /\ \A s \in Rounds \ {t} : g[s] = IF s \in waiting THEN b(s) ELSE f[s]
  <2>1. t \notin waiting
    OBVIOUS
  <2>2. g[t] = IF merged = {} THEN f[t] ELSE a
    BY <2>1 DEF Superseded
  <2>3. ASSUME NEW s \in Rounds \ {t} PROVE g[s] = IF s \in waiting THEN b(s) ELSE f[s]
    <3>1. CASE s \in waiting
      BY <3>1 DEF Superseded
    <3>2. CASE s \notin waiting
      BY <3>2 DEF Superseded
    <3> QED BY <3>1, <3>2
  <2> QED BY <2>2, <2>3
<1>2. \A s \in Rounds : s \in waiting <=> Parked(f[s])
  BY DEF Parked
<1>3. \A m : m \in more <=> \E p \in Rounds : Passes(f[p]) /\ m \in f[p].open
  BY DEF Passes, Parked
<1>4. merged = {} => \A m : m \notin more
  OBVIOUS
<1> HIDE DEF merged, waiting, g
<1>5. ASSUME NEW s \in Rounds PROVE Supersedes(f[s], b(s))
  BY DEF Round, Supersedes
<1> HIDE DEF more, b
<1>6. /\ a.status = f[t].status /\ a.delivery = f[t].delivery /\ a.control = f[t].control
      /\ a.open = f[t].open \cup more /\ a.done = {}
  BY DEF Round
<1> HIDE DEF a
<1>7. \A s \in Rounds \ {t} : IF Parked(f[s]) THEN Supersedes(f[s], g[s]) ELSE g[s] = f[s]
  BY <1>1, <1>2, <1>5
<1>8. /\ g[t].status = "FROZEN" /\ g[t].delivery = f[t].delivery
      /\ g[t].control = f[t].control /\ g[t].done = {}
  BY <1>1, <1>6
<1>9. \A m : m \in g[t].open <=> (m \in f[t].open \/ m \in more)
  BY <1>1, <1>4, <1>6
<1>10. \A m : m \in g[t].open <=> (m \in f[t].open \/ \E p \in Rounds : Passes(f[p]) /\ m \in f[p].open)
  BY <1>3, <1>9
<1> QED BY <1>7, <1>8, <1>10 DEF g

\* Table g: round t gathers the new messages N and the inputs of the parked
\* rounds, which end, and suspended runs are closed.
Gathers(g, t, N) ==
  /\ t \in Rounds /\ round[t].status \in {"FROZEN", "ABSENT", "ADMITTING"}
  /\ \A p \in Rounds, k \in N : ~Has(round[p], k)
  /\ g[t].status = "FROZEN" /\ g[t].delivery = "PENDING" /\ g[t].control = "none" /\ g[t].done = {}
  /\ \A k : k \in g[t].open <=>
       (k \in N \/ k \in round[t].open \/ \E p \in Rounds : Passes(round[p]) /\ k \in round[p].open)
  /\ \A s \in Rounds \ {t} :
       \/ Parked(round[s]) /\ Supersedes(round[s], g[s])
       \/ round[s].status = "FROZEN" /\ Consumed(round[s], g[s], "SUCCEEDED", "SKIPPED")
       \/ ~Parked(round[s]) /\ g[s] = round[s]

\* Gathering inputs.
LEMMA GatherAdvance ==
  ASSUME Sound, NEW g, NEW t, NEW N, Gathers(g, t, N)
  PROVE  Advance(g)
<1>1. ASSUME NEW s \in Rounds PROVE Consistent(round[s])
  BY DEF Sound
<1>2. t \in Rounds
  BY DEF Gathers
<1>3. ASSUME NEW s \in Rounds \ {t}, Parked(round[s]), Supersedes(round[s], g[s])
      PROVE  /\ \A n : Delivers(round[s], g[s], n) /\ Silent(round[s], g[s])
             /\ Holds(round[s]) /\ ~Holds(g[s]) /\ round[s].done = {}
             /\ round[s].status \in Active
  <2>1. /\ round[s].status \in Active /\ round[s].delivery = "PENDING" /\ round[s].control = "none"
        /\ round[s].done = {}
    BY <1>1, <1>3, StatusSets DEF Parked, Consistent
  <2>2. Consistent(g[s])
    BY <1>3, <2>1, StatusSets DEF Consistent, Supersedes
  <2>3. \A n : Delivers(round[s], g[s], n) /\ Silent(round[s], g[s])
    BY <1>3, <2>1, <2>2, StatusSets DEF Delivers, Silent, Supersedes, Launched, Noticed, Parked
  <2>4. Holds(round[s]) /\ ~Holds(g[s])
    BY <1>3, <2>1, StatusSets DEF Holds, Supersedes
  <2> QED BY <2>1, <2>3, <2>4
<1>4. ASSUME NEW s \in Rounds \ {t}, round[s].status = "FROZEN",
             Consumed(round[s], g[s], "SUCCEEDED", "SKIPPED"), NEW n
      PROVE  RowStep(round[s], g[s], n)
  BY <1>1, <1>4, StatusSets, ConsumedRow
<1>5. ASSUME NEW s \in Rounds \ {t}, g[s] = round[s], NEW n
      PROVE  RowStep(round[s], g[s], n)
  BY <1>1, <1>5, StayRow
<1>6. \A n : Delivers(round[t], g[t], n) /\ Silent(round[t], g[t])
  <2>1. Consistent(g[t])
    BY StatusSets DEF Gathers, Consistent
  <2>2. /\ ~Launched(round[t]) /\ ~Noticed(round[t])
        /\ round[t].delivery = "PENDING" /\ round[t].status # "DELETED"
    BY <1>1, <1>2, StatusSets DEF Gathers, Launched, Noticed, Consistent
  <2>3. g[t].status = "FROZEN"
    BY DEF Gathers
  <2> QED BY <2>1, <2>2, <2>3, StatusSets DEF Delivers, Silent
<1>7. ASSUME NEW s \in Rounds
      PROVE  Delivers(round[s], g[s], carried[s].answer) /\ Silent(round[s], g[s])
  <2>1. CASE s = t
    BY <1>6, <2>1
  <2>2. CASE s # t /\ Parked(round[s]) /\ Supersedes(round[s], g[s])
    BY <1>3, <2>2
  <2>3. CASE s # t /\ round[s].status = "FROZEN" /\ Consumed(round[s], g[s], "SUCCEEDED", "SKIPPED")
    BY <1>4, <2>3 DEF RowStep
  <2>4. CASE s # t /\ g[s] = round[s]
    BY <1>5, <2>4 DEF RowStep
  <2> QED BY <2>1, <2>2, <2>3, <2>4 DEF Gathers
<1>8. ASSUME NEW s \in Rounds, NEW k \in Messages, Has(g[s], k), Holds(g[s])
      PROVE  \/ Has(round[s], k) /\ Holds(round[s])
             \/ s = t /\ \A p \in Rounds : ~Has(round[p], k)
             \/ s = t /\ \E p \in Rounds : Has(round[p], k) /\ Holds(round[p]) /\ ~Holds(g[p])
  <2>1. CASE s = t
    <3>1. \/ k \in N \/ k \in round[t].open \/ \E p \in Rounds : Passes(round[p]) /\ k \in round[p].open
      BY <1>8, <2>1 DEF Gathers, Has
    <3>2. CASE k \in N
      BY <2>1, <3>2 DEF Gathers
    <3>3. CASE k \in round[t].open
      <4>1. round[t].status \in {"FROZEN", "ADMITTING"}
        BY <1>1, <1>2, <3>3 DEF Gathers, Consistent
      <4>2. Holds(round[t])
        BY <4>1, StatusSets DEF Holds
      <4> QED BY <2>1, <3>3, <4>2 DEF Has
    <3>4. ASSUME NEW p \in Rounds, Passes(round[p]), k \in round[p].open
          PROVE  Has(round[p], k) /\ Holds(round[p]) /\ ~Holds(g[p])
      <4>1. p # t /\ Parked(round[p]) /\ round[p].status # "FROZEN"
        BY <3>4 DEF Gathers, Passes, Parked
      <4>2. Supersedes(round[p], g[p])
        BY <4>1 DEF Gathers
      <4> QED BY <1>3, <3>4, <4>1, <4>2 DEF Has
    <3> QED BY <2>1, <3>1, <3>2, <3>3, <3>4
  <2>2. CASE s # t /\ Parked(round[s]) /\ Supersedes(round[s], g[s])
    BY <1>3, <1>8, <2>2
  <2>3. CASE s # t /\ round[s].status = "FROZEN" /\ Consumed(round[s], g[s], "SUCCEEDED", "SKIPPED")
    <3>1. Settles(round[s], g[s])
      BY <1>4, <2>3 DEF RowStep
    <3> QED BY <1>8, <3>1 DEF Settles, Has
  <2>4. CASE s # t /\ g[s] = round[s]
    BY <1>8, <2>4
  <2> QED BY <2>1, <2>2, <2>3, <2>4 DEF Gathers
<1>9. Hands(g)
  BY <1>2, <1>8 DEF Hands
<1>10. ASSUME NEW s \in Rounds, NEW k \in Messages, Deals(round[s], k)
       PROVE  \E p \in Rounds : Deals(g[p], k)
  <2>0. k \in g[t].open => Deals(g[t], k)
    BY StatusSets DEF Gathers, Deals
  <2>1. CASE s = t
    <3>1. k \in round[t].open
      BY <1>1, <1>2, <1>10, <2>1, StatusSets DEF Gathers, Deals, Consistent
    <3>2. k \in g[t].open
      BY <3>1 DEF Gathers
    <3> QED BY <1>2, <2>0, <3>2
  <2>2. CASE s # t /\ Parked(round[s]) /\ Supersedes(round[s], g[s])
    <3>1. k \in round[s].open
      BY <1>3, <1>10, <2>2 DEF Deals
    <3>2. CASE Passes(round[s])
      <4>1. k \in g[t].open
        BY <3>1, <3>2 DEF Gathers
      <4> QED BY <1>2, <2>0, <4>1
    <3>3. CASE ~Passes(round[s])
      <4>1. g[s].effect /\ k \in g[s].open
        BY <2>2, <3>1, <3>3 DEF Passes, Supersedes
      <4>2. Deals(g[s], k)
        BY <4>1 DEF Deals
      <4> QED BY <4>2
    <3> QED BY <3>2, <3>3
  <2>3. CASE s # t /\ round[s].status = "FROZEN" /\ Consumed(round[s], g[s], "SUCCEEDED", "SKIPPED")
    <3>1. Settles(round[s], g[s])
      BY <1>4, <2>3 DEF RowStep
    <3> QED BY <1>10, <3>1 DEF Settles
  <2>4. CASE s # t /\ g[s] = round[s]
    BY <1>10, <2>4
  <2> QED BY <2>1, <2>2, <2>3, <2>4 DEF Gathers
<1>11. ASSUME NEW s \in Rounds, NEW k \in Messages, Left(g[s], k)
       PROVE  Left(round[s], k) \/ Deals(round[s], k)
  <2>1. CASE s = t
    BY <1>11, <2>1, StatusSets DEF Gathers, Left
  <2>2. CASE s # t /\ Parked(round[s]) /\ Supersedes(round[s], g[s])
    BY <1>3, <1>11, <2>2 DEF Left, Deals, Supersedes
  <2>3. CASE s # t /\ round[s].status = "FROZEN" /\ Consumed(round[s], g[s], "SUCCEEDED", "SKIPPED")
    BY <1>11, <2>3 DEF Left, Consumed
  <2>4. CASE s # t /\ g[s] = round[s]
    BY <1>11, <2>4
  <2> QED BY <2>1, <2>2, <2>3, <2>4 DEF Gathers
<1>12. Preserves(g)
  BY <1>10, <1>11 DEF Preserves
<1> QED BY <1>7, <1>9, <1>12 DEF Advance

\* admit_message.
LEMMA AdmitAdvance ==
  ASSUME Sound, NEW m \in Messages, Admit(m)
  PROVE  Advance(round')
<1> DEFINE f == ClosedSuspended
           b(s) == [Consume(round[s]) EXCEPT !.status = "SUCCEEDED", !.delivery = "SKIPPED",
                                              !.checkpoint = "none"]
<1>1. ASSUME NEW s \in Rounds PROVE round[s] \in Round /\ Consistent(round[s])
  BY DEF Sound, Good
<1>2. ASSUME NEW s \in Rounds, round[s].status = "FROZEN"
      PROVE  b(s) \in Round /\ Consumed(round[s], b(s), "SUCCEEDED", "SKIPPED")
  <2> DEFINE k == Consume(round[s])
             x == [k EXCEPT !.status = "SUCCEEDED", !.delivery = "SKIPPED", !.checkpoint = "none"]
  <2>1. round[s].control = "none"
    BY <1>1, <1>2, StatusSets DEF Consistent
  <2>2. /\ k \in Round /\ k.open = {} /\ k.done = round[s].done \cup round[s].open
        /\ k.effect = round[s].effect /\ k.control = "none"
    BY <1>1, <2>1, RowFields, QuietStatuses
  <2> HIDE DEF k
  <2>3. x \in Round /\ Consumed(round[s], x, "SUCCEEDED", "SKIPPED")
    BY <2>2, QuietStatuses DEF Consumed, Round
  <2> QED BY <2>3 DEF k
<1>3. ASSUME NEW s \in Rounds
      PROVE  f[s] = IF round[s].status = "FROZEN" /\ round[s].effect THEN b(s) ELSE round[s]
  BY DEF ClosedSuspended
<1>4. f = [s \in Rounds |-> f[s]]
  BY DEF ClosedSuspended
<1> HIDE DEF f, b
<1>5. f \in [Rounds -> Round]
  BY <1>1, <1>2, <1>3, <1>4
<1>6. \A p \in Rounds : ~Has(round[p], m)
  BY DEF Admit, New, Has
<1>7. ASSUME NEW t \in Rounds, NEW x \in Round, round[t].status \in {"FROZEN", "ABSENT"},
             x.status = "FROZEN", x.delivery = "PENDING", x.control = "none", x.done = {},
             x.open = round[t].open \cup {m}, round' = Superseded([f EXCEPT ![t] = x], t)
      PROVE  Advance(round')
  <2> DEFINE h == [f EXCEPT ![t] = x]
  <2>1. h \in [Rounds -> Round] /\ \A s \in Rounds : h[s] = IF s = t THEN x ELSE f[s]
    BY <1>5
  <2> HIDE DEF h
  <2>2. h[t] = x
    BY <2>1
  <2>3. /\ \A s \in Rounds \ {t} : IF Parked(h[s]) THEN Supersedes(h[s], round'[s]) ELSE round'[s] = h[s]
        /\ round'[t].status = "FROZEN" /\ round'[t].delivery = "PENDING"
        /\ round'[t].control = "none" /\ round'[t].done = {}
        /\ \A k : k \in round'[t].open <=>
                    (k \in x.open \/ \E p \in Rounds : Passes(h[p]) /\ k \in h[p].open)
    <3>1. round' = Superseded(h, t)
      BY <1>7 DEF h
    <3> DEFINE g == Superseded(h, t)
    <3>2. h[t].status = "FROZEN" /\ h[t].done = {} /\ h[t].delivery = "PENDING" /\ h[t].control = "none"
      BY <1>7, <2>2
    <3>3. /\ \A s \in Rounds \ {t} : IF Parked(h[s]) THEN Supersedes(h[s], g[s]) ELSE g[s] = h[s]
          /\ g[t].status = "FROZEN" /\ g[t].delivery = h[t].delivery
          /\ g[t].control = h[t].control /\ g[t].done = {}
          /\ \A k : k \in g[t].open <=>
                      (k \in h[t].open \/ \E p \in Rounds : Passes(h[p]) /\ k \in h[p].open)
      BY <2>1, <3>2, SupersededRows
    <3>4. round' = g
      BY <3>1
    <3> HIDE DEF g
    <3> QED BY <2>2, <3>2, <3>3, <3>4
  <2>4. ~Parked(x) /\ ~Parked(round[t])
    BY <1>7 DEF Parked
  <2>5. ASSUME NEW s \in Rounds \ {t}
        PROVE  \/ h[s] = round[s]
               \/ /\ ~Parked(round[s]) /\ ~Parked(h[s]) /\ round[s].status = "FROZEN"
                  /\ Consumed(round[s], h[s], "SUCCEEDED", "SKIPPED")
    <3>1. h[s] = f[s]
      BY <2>1
    <3>2. CASE round[s].status = "FROZEN" /\ round[s].effect
      <4>1. h[s] = b(s)
        BY <1>3, <3>1, <3>2
      <4>2. Consumed(round[s], h[s], "SUCCEEDED", "SKIPPED")
        BY <1>2, <3>2, <4>1
      <4> QED BY <3>2, <4>2 DEF Parked, Consumed
    <3>3. CASE ~(round[s].status = "FROZEN" /\ round[s].effect)
      BY <1>3, <3>1, <3>3
    <3> QED BY <3>2, <3>3
  <2>6. ASSUME NEW p \in Rounds
        PROVE  Passes(h[p]) <=> Passes(round[p])
    BY <2>2, <2>4, <2>5 DEF Passes
  <2>7. ASSUME NEW p \in Rounds, Passes(round[p])
        PROVE  h[p].open = round[p].open
    BY <2>4, <2>5, <2>7 DEF Passes
  <2>8. \A k : k \in round'[t].open <=>
          (k \in {m} \/ k \in round[t].open \/ \E p \in Rounds : Passes(round[p]) /\ k \in round[p].open)
    BY <1>7, <2>3, <2>6, <2>7
  <2>9. ASSUME NEW s \in Rounds \ {t}
        PROVE  \/ Parked(round[s]) /\ Supersedes(round[s], round'[s])
               \/ round[s].status = "FROZEN" /\ Consumed(round[s], round'[s], "SUCCEEDED", "SKIPPED")
               \/ ~Parked(round[s]) /\ round'[s] = round[s]
    <3>1. IF Parked(h[s]) THEN Supersedes(h[s], round'[s]) ELSE round'[s] = h[s]
      BY <2>3
    <3>2. CASE h[s] = round[s]
      BY <3>1, <3>2
    <3>3. CASE /\ ~Parked(round[s]) /\ ~Parked(h[s]) /\ round[s].status = "FROZEN"
               /\ Consumed(round[s], h[s], "SUCCEEDED", "SKIPPED")
      BY <3>1, <3>3
    <3> QED BY <2>5, <3>2, <3>3
  <2>10. Gathers(round', t, {m})
    BY <1>6, <1>7, <2>3, <2>8, <2>9 DEF Gathers
  <2> QED BY <2>10, GatherAdvance
<1>8. ASSUME NEW r \in Joinable, round' = Superseded([f EXCEPT ![r].open = @ \cup {m}], r)
      PROVE  Advance(round')
  <2> DEFINE x == [round[r] EXCEPT !.open = @ \cup {m}]
  <2>1. r \in Rounds /\ f[r] = round[r] /\ round[r].status = "FROZEN" /\ round[r] \in Round
    BY <1>1, <1>3 DEF Joinable
  <2>2. round[r].delivery = "PENDING" /\ round[r].control = "none" /\ round[r].done = {}
    BY <1>1, <2>1, StatusSets DEF Consistent
  <2>3. /\ x \in Round /\ x.status = "FROZEN" /\ x.delivery = "PENDING" /\ x.control = "none"
        /\ x.done = {} /\ x.open = round[r].open \cup {m}
    <3>1. round[r].open \cup {m} \in SUBSET Messages
      BY <2>1 DEF Round
    <3> QED BY <2>1, <2>2, <3>1 DEF Round
  <2>4. [f EXCEPT ![r].open = @ \cup {m}] = [f EXCEPT ![r] = x]
    BY <1>5, <2>1
  <2> HIDE DEF x
  <2>5. round' = Superseded([f EXCEPT ![r] = x], r)
    BY <1>8, <2>4
  <2> QED BY <1>7, <2>1, <2>3, <2>5
<1>9. ASSUME Unused # {}, round' = Superseded([f EXCEPT ![NextRound] = FreshRound({m})], NextRound)
      PROVE  Advance(round')
  <2> DEFINE n == NextRound
             x == FreshRound({m})
  <2>1. n \in Rounds /\ round[n] = Absent
    BY <1>9, NextRoundType
  <2>2. Absent.status = "ABSENT" /\ Absent.open = {}
    BY DEF Absent
  <2>3. x \in Round
    BY FreshType
  <2>4. /\ x.status = "FROZEN" /\ x.delivery = "PENDING" /\ x.control = "none"
        /\ x.done = {} /\ x.open = {m}
    BY DEF FreshRound, Absent
  <2>5. round' = Superseded([f EXCEPT ![n] = x], n)
    BY <1>9
  <2> HIDE DEF n, x
  <2>6. x.open = round[n].open \cup {m}
    BY <2>1, <2>2, <2>4
  <2> QED BY <1>7, <2>1, <2>2, <2>3, <2>4, <2>5, <2>6
<1>10. \/ \E r \in Joinable : round' = Superseded([f EXCEPT ![r].open = @ \cup {m}], r)
       \/ /\ Unused # {}
          /\ round' = Superseded([f EXCEPT ![NextRound] = FreshRound({m})], NextRound)
  BY DEF Admit, f
<1> QED BY <1>8, <1>9, <1>10

\* The row of an admission under way appears, with a new message, or goes.
LEMMA AdmitReadAdvance ==
  ASSUME Sound, NEW m \in Messages, AdmitRead(m)
  PROVE  Advance(round')
<1> DEFINE t == NextRound
           x == [Absent EXCEPT !.status = "ADMITTING", !.open = {m}]
<1>1. t \in Rounds /\ round[t] = Absent /\ round' = [round EXCEPT ![t] = x]
  BY NextRoundType DEF AdmitRead
<1>2. \A s \in Rounds : round[s] \in Round /\ Consistent(round[s])
  BY DEF Sound, Good
<1>3. /\ x.status = "ADMITTING" /\ x.open = {m} /\ x.done = {} /\ x.delivery = "PENDING"
      /\ x.control = "none" /\ x.effect = FALSE
  BY DEF Absent
<1>4. /\ Absent.status = "ABSENT" /\ Absent.open = {} /\ Absent.done = {}
      /\ Absent.delivery = "PENDING"
  BY DEF Absent
<1>5. \A p \in Rounds : ~Has(round[p], m)
  BY DEF AdmitRead, New, Has
<1> HIDE DEF t, x
<1>6. \A s \in Rounds : round'[s] = IF s = t THEN x ELSE round[s]
  BY <1>1 DEF Sound, Good
<1>7. ASSUME NEW s \in Rounds
      PROVE  Delivers(round[s], round'[s], carried[s].answer) /\ Silent(round[s], round'[s])
  <2>1. CASE s = t
    <3>1. Consistent(x)
      BY <1>3, StatusSets DEF Consistent
    <3>2. round'[s] = x /\ round[s] = Absent
      BY <1>1, <1>6, <2>1
    <3> QED BY <1>3, <1>4, <3>1, <3>2, StatusSets DEF Delivers, Silent, Launched, Noticed
  <2>2. CASE s # t
    BY <1>2, <1>6, <2>2, StayRow DEF RowStep
  <2> QED BY <2>1, <2>2
<1>8. ASSUME NEW s \in Rounds, NEW k \in Messages, Has(round'[s], k), Holds(round'[s])
      PROVE  \/ Has(round[s], k) /\ Holds(round[s])
             \/ s = t /\ \A p \in Rounds : ~Has(round[p], k)
  <2>1. CASE s = t
    BY <1>3, <1>5, <1>6, <1>8, <2>1 DEF Has
  <2>2. CASE s # t
    BY <1>6, <1>8, <2>2
  <2> QED BY <2>1, <2>2
<1>9. Hands(round')
  BY <1>1, <1>8 DEF Hands
<1>10. Preserves(round')
  <2>1. ASSUME NEW s \in Rounds, NEW k \in Messages, Deals(round[s], k) PROVE Deals(round'[s], k)
    <3>1. s # t
      BY <1>1, <1>4, <2>1 DEF Deals
    <3> QED BY <1>6, <2>1, <3>1
  <2>2. ASSUME NEW s \in Rounds, NEW k \in Messages, Left(round'[s], k) PROVE Left(round[s], k)
    <3>1. s # t
      BY <1>3, <1>6, <2>2, StatusSets DEF Left
    <3> QED BY <1>6, <2>2, <3>1
  <2> QED BY <2>1, <2>2 DEF Preserves
<1> QED BY <1>7, <1>9, <1>10 DEF Advance

\* An admission that fails leaves nothing.
LEMMA AdmitAbortsAdvance ==
  ASSUME Sound, NEW r \in Rounds, AdmitAborts(r)
  PROVE  Advance(round')
<1>1. /\ round[r].status = "ADMITTING" /\ Consistent(round[r])
      /\ round' = [round EXCEPT ![r] = Absent]
  BY DEF AdmitAborts, Sound
<1>2. /\ Absent.status = "ABSENT" /\ Absent.open = {} /\ Absent.done = {}
      /\ Absent.delivery = "PENDING" /\ Absent.control = "none"
  BY DEF Absent
<1>3. round[r].done = {} /\ ~round[r].effect /\ round[r].delivery = "PENDING"
  BY <1>1 DEF Consistent
<1>4. Consistent(Absent)
  BY <1>2, StatusSets DEF Consistent
<1>5. Delivers(round[r], Absent, carried[r].answer) /\ Silent(round[r], Absent)
  BY <1>1, <1>2, <1>3, <1>4, StatusSets DEF Delivers, Silent, Launched, Noticed
<1>6. Settles(round[r], Absent)
  BY <1>1, <1>2, <1>3, StatusSets DEF Settles, Holds, Deals
<1> QED BY <1>1, <1>5, <1>6, PutAdvance DEF RowStep

\* The insertion gathers the inputs of the parked rounds.
LEMMA AdmitInsertAdvance ==
  ASSUME Sound, NEW r \in Rounds, AdmitInsert(r)
  PROVE  Advance(round')
<1> DEFINE x == [round[r] EXCEPT !.status = "FROZEN"]
           h == [round EXCEPT ![r] = x]
           g == Superseded(h, r)
<1>1. /\ round \in [Rounds -> Round] /\ round[r] \in Round /\ Consistent(round[r])
      /\ round[r].status = "ADMITTING"
  BY DEF Sound, Good, AdmitInsert
<1>2. round' = g
  BY <1>1 DEF AdmitInsert
<1>3. round[r].delivery = "PENDING" /\ round[r].control = "none" /\ round[r].done = {}
  BY <1>1, StatusSets DEF Consistent
<1>4. /\ x \in Round /\ x.status = "FROZEN" /\ x.delivery = "PENDING" /\ x.control = "none"
      /\ x.done = {} /\ x.open = round[r].open
  BY <1>1, <1>3, QuietStatuses DEF Round
<1> HIDE DEF x
<1>5. h \in [Rounds -> Round] /\ \A s \in Rounds : h[s] = IF s = r THEN x ELSE round[s]
  BY <1>1, <1>4
<1> HIDE DEF h
<1>6. h[r].status = "FROZEN" /\ h[r].done = {}
  BY <1>4, <1>5
<1>7. /\ \A s \in Rounds \ {r} : IF Parked(h[s]) THEN Supersedes(h[s], g[s]) ELSE g[s] = h[s]
      /\ g[r].status = "FROZEN" /\ g[r].delivery = h[r].delivery
      /\ g[r].control = h[r].control /\ g[r].done = {}
      /\ \A k : k \in g[r].open <=>
                  (k \in h[r].open \/ \E p \in Rounds : Passes(h[p]) /\ k \in h[p].open)
  BY <1>5, <1>6, SupersededRows
<1> HIDE DEF g
<1>8. ~Passes(h[r]) /\ ~Passes(round[r])
  BY <1>1, <1>6 DEF Passes, Parked
<1>9. \A k : k \in g[r].open <=>
        (k \in {} \/ k \in round[r].open \/ \E p \in Rounds : Passes(round[p]) /\ k \in round[p].open)
  BY <1>4, <1>5, <1>7, <1>8
<1>10. ASSUME NEW s \in Rounds \ {r}
       PROVE  \/ Parked(round[s]) /\ Supersedes(round[s], g[s])
              \/ ~Parked(round[s]) /\ g[s] = round[s]
  BY <1>5, <1>7
<1>11. g[r].delivery = "PENDING" /\ g[r].control = "none"
  BY <1>4, <1>5, <1>7
<1>12. Gathers(g, r, {})
  BY <1>1, <1>7, <1>9, <1>10, <1>11 DEF Gathers
<1>13. Advance(g)
  BY <1>12, GatherAdvance
<1> QED BY <1>2, <1>13

-----------------------------------------------------------------------------
(* The invariant, one step on                                                *)

\* A table the rounds may turn into, whether an answer starts or not.
Proceeds(g) ==
  /\ \A s \in Rounds : Delivers(round[s], g[s], carried[s].answer)
  /\ Hands(g) \/ Reopened(g)
  /\ Preserves(g) \/ "delete" \in Commands

\* An input goes from one holder to the next.
LEMMA HandsUnshared ==
  ASSUME Unshared, Hands(round')
  PROVE  Unshared'
<1>1. PICK t \in Rounds : \A s \in Rounds, m \in Messages :
        (Has(round'[s], m) /\ Holds(round'[s])) =>
          \/ Has(round[s], m) /\ Holds(round[s])
          \/ s = t /\ \A p \in Rounds : ~Has(round[p], m)
          \/ s = t /\ \E p \in Rounds : Has(round[p], m) /\ Holds(round[p]) /\ ~Holds(round'[p])
  BY DEF Hands
<1>2. ASSUME NEW m \in Messages, NEW r \in Rounds, NEW s \in Rounds, r # s, s # t,
             Has(round'[r], m), Has(round'[s], m), Holds(round'[r]), Holds(round'[s])
      PROVE  FALSE
  <2>1. Has(round[s], m) /\ Holds(round[s])
    BY <1>1, <1>2
  <2>2. CASE Has(round[r], m) /\ Holds(round[r])
    BY <1>2, <2>1, <2>2 DEF Unshared
  <2>3. CASE \A p \in Rounds : ~Has(round[p], m)
    BY <2>1, <2>3
  <2>4. ASSUME NEW p \in Rounds, Has(round[p], m), Holds(round[p]), ~Holds(round'[p])
        PROVE  FALSE
    <3>1. p = s
      BY <2>1, <2>4 DEF Unshared
    <3> QED BY <1>2, <2>4, <3>1
  <2> QED BY <1>1, <1>2, <2>2, <2>3, <2>4
<1>3. ASSUME NEW m \in Messages, NEW r \in Rounds, NEW s \in Rounds,
             Has(round'[r], m), Has(round'[s], m), Holds(round'[r]), Holds(round'[s])
      PROVE  r = s
  BY <1>2, <1>3
<1> QED BY <1>3 DEF Unshared, Has, Holds

\* What was left behind stays dealt with.
LEMMA PreservesDealt ==
  ASSUME Dealt, Preserves(round')
  PROVE  Dealt'
<1>1. ASSUME NEW m \in Messages, NEW r \in Rounds, Left(round'[r], m)
      PROVE  \E s \in Rounds : Deals(round'[s], m)
  <2>1. Left(round[r], m) \/ Deals(round[r], m)
    BY <1>1 DEF Preserves
  <2>2. \E s \in Rounds : Deals(round[s], m)
    BY <2>1 DEF Dealt
  <2> QED BY <2>2 DEF Preserves
<1> QED BY <1>1 DEF Dealt, Left, Deals

\* A round that is gone stays so.
LEMMA ReopenedStays ==
  ASSUME RestartReopened, \A s \in Rounds : Delivers(round[s], round'[s], carried[s].answer)
  PROVE  RestartReopened'
BY DEF RestartReopened, Delivers

\* The invariant after a step of that kind.
LEMMA ProceedsDInv ==
  ASSUME DInv, EInv', SendInv', Proceeds(round')
  PROVE  DInv'
<1>1. (RestartReopened \/ Unshared)'
  <2>1. CASE RestartReopened
    <3>1. RestartReopened'
      BY <2>1, ReopenedStays DEF Proceeds
    <3> QED BY <3>1
  <2>2. CASE Unshared /\ Hands(round')
    <3>1. Unshared'
      BY <2>2, HandsUnshared
    <3> QED BY <3>1
  <2>3. CASE Reopened(round')
    BY <2>3 DEF Reopened, RestartReopened
  <2> QED BY <2>1, <2>2, <2>3 DEF DInv, Proceeds
<1>2. "delete" \in Commands \/ Dealt'
  BY PreservesDealt DEF DInv, Proceeds
<1> QED BY <1>1, <1>2 DEF DInv

\* A step that starts no answer is of this kind.
LEMMA AdvanceProceeds ==
  ASSUME NEW g, Advance(g)
  PROVE  Proceeds(g)
BY DEF Advance, Proceeds

\* Rounds that stay as they are.
LEMMA StayAdvance ==
  ASSUME Sound, Rounds # {}
  PROVE  Advance(round)
BY EachAdvance, StayRow DEF Sound

-----------------------------------------------------------------------------
(* Workers against rounds, one step on                                       *)

\* Nothing that worker v may not know of was sent for its attempt.
Hushed(v) ==
  LET k == worker[v].round
  IN (worker[v].pc \in Early /\ worker[v].token = round'[k].lease) => Silent(round[k], round'[k])

\* Worker v is where it may be, and meets no other.
Fine(v) == WorkerPart(v) /\ \A u \in Workers \ {v} : ~Meets(u, v)

\* The texts against the rows, when no text moves.
LEMMA CarriedKept ==
  ASSUME SendInv, \A s \in Rounds : Delivers(round[s], round'[s], carried[s].answer),
         carried' = carried, receipt' = receipt, NEW r \in Rounds
  PROVE  Consistent(round'[r]) /\ CarriedPart(r)'
<1>1. CarriedPart(r) /\ Delivers(round[r], round'[r], carried[r].answer)
  BY DEF SendInv
<1>2. Consistent(round'[r])
  BY <1>1 DEF Delivers
<1>3. CarriedPart(r)'
  BY <1>1 DEF CarriedPart, Delivers
<1> QED BY <1>2, <1>3

\* A worker that does not move.
LEMMA WorkerKept ==
  ASSUME SendInv, \A s \in Rounds : Delivers(round[s], round'[s], carried[s].answer),
         carried' = carried, NEW v \in Workers, worker'[v] = worker[v], Hushed(v)
  PROVE  WorkerPart(v)'
<1> DEFINE k == worker[v].round
<1>1. WorkerPart(v)
  BY DEF SendInv
<1>2. CASE worker[v].pc = "idle"
  BY <1>2 DEF WorkerPart, Sends, Early, Notifies
<1>3. CASE worker[v].pc # "idle"
  <2>1. k \in Rounds /\ Delivers(round[k], round'[k], carried[k].answer)
    BY <1>1, <1>3 DEF WorkerPart
  <2>2. (worker[v].pc \in Sends => Launched(round'[k])) /\ (worker[v].pc \in Notifies => Noticed(round'[k]))
    BY <1>1, <2>1 DEF WorkerPart, Delivers
  <2>3. (worker[v].pc \in Early /\ round'[k].status \in Processing /\ worker[v].token = round'[k].lease) =>
          round'[k].delivery # "SENDING"
    BY <1>1 DEF WorkerPart, Hushed, Silent
  <2> QED BY <1>1, <2>1, <2>2, <2>3 DEF WorkerPart
<1> QED BY <1>2, <1>3

\* The invariant when no text moves: the workers stay, or are fine.
LEMMA SendKept ==
  ASSUME SendInv, \A s \in Rounds : Delivers(round[s], round'[s], carried[s].answer),
         carried' = carried, receipt' = receipt,
         \A v \in Workers : (worker'[v] = worker[v] /\ Hushed(v)) \/ Fine(v)'
  PROVE  SendInv'
<1>1. \A r \in Rounds : Consistent(round'[r]) /\ CarriedPart(r)'
  BY CarriedKept
<1>2. \A v \in Workers : WorkerPart(v)'
  BY WorkerKept DEF Fine
<1>3. ASSUME NEW u \in Workers, NEW v \in Workers, Meets(u, v)', u # v PROVE FALSE
  <2>1. CASE Fine(v)'
    BY <1>3, <2>1 DEF Fine
  <2>2. CASE Fine(u)'
    <3>1. Meets(v, u)'
      BY <1>3 DEF Meets
    <3> QED BY <1>3, <2>2, <3>1 DEF Fine
  <2>3. CASE worker'[u] = worker[u] /\ worker'[v] = worker[v]
    <3>1. Meets(u, v)
      BY <1>3, <2>3 DEF Meets
    <3> QED BY <1>3, <3>1 DEF SendInv
  <2> QED BY <2>1, <2>2, <2>3
<1>4. \A u, v \in Workers : Meets(u, v)' => u = v
  BY <1>3
<1> QED BY <1>1, <1>2, <1>4 DEF SendInv, Consistent

\* An idle worker is fine.
LEMMA IdleFine ==
  ASSUME NEW v \in Workers, worker'[v] = IdleWorker
  PROVE  Fine(v)'
<1>1. worker'[v].pc = "idle"
  BY DEF IdleWorker
<1>2. WorkerPart(v)'
  BY <1>1 DEF WorkerPart, Sends, Early, Notifies
<1>3. \A u \in Workers \ {v} : ~Meets(u, v)'
  BY <1>1 DEF Meets, Running, Sends, Notifies
<1> QED BY <1>2, <1>3 DEF Fine

\* Steps that start no answer, of workers that stay or stop.
LEMMA QuietSend ==
  ASSUME SendInv, Advance(round'), carried' = carried, receipt' = receipt,
         \A v \in Workers : worker'[v] = worker[v] \/ Fine(v)'
  PROVE  SendInv'
<1>1. ASSUME NEW v \in Workers, worker'[v] = worker[v] PROVE Hushed(v) \/ Fine(v)'
  <2>1. CASE worker[v].pc = "idle"
    BY <2>1 DEF Hushed, Early
  <2>2. CASE worker[v].pc # "idle"
    <3>1. worker[v].round \in Rounds
      BY <2>2 DEF SendInv, WorkerPart
    <3> QED BY <3>1 DEF Advance, Hushed
  <2> QED BY <2>1, <2>2
<1>2. \A s \in Rounds : Delivers(round[s], round'[s], carried[s].answer)
  BY DEF Advance
<1> QED BY <1>1, <1>2, SendKept

-----------------------------------------------------------------------------
(* The steps                                                                 *)

\* The types and the rows, from the invariant.
LEMMA DInvFacts ==
  ASSUME DInv
  PROVE  /\ Sound /\ SendInv /\ Tokens /\ Others
         /\ round \in [Rounds -> Round] /\ worker \in [Workers -> Worker]
         /\ carried \in [Rounds -> [answer : Nat, fallback : Nat]]
BY DEF DInv, EInv, IInv, Sound, SendInv, Good, Others

\* A step that leaves the workers alone and starts no answer.
LEMMA StillStep ==
  ASSUME DInv, Advance(round'), worker' = worker, carried' = carried, receipt' = receipt
  PROVE  Proceeds(round') /\ SendInv'
<1>1. SendInv
  BY DInvFacts
<1> QED BY <1>1, QuietSend, AdvanceProceeds

\* A step that ends a worker and starts no answer.
LEMMA EndStep ==
  ASSUME DInv, Advance(round'), NEW w \in Workers, End(w), carried' = carried, receipt' = receipt
  PROVE  Proceeds(round') /\ SendInv'
<1>1. SendInv /\ worker \in [Workers -> Worker]
  BY DInvFacts
<1>2. \A v \in Workers : worker'[v] = worker[v] \/ worker'[v] = IdleWorker
  BY <1>1 DEF End
<1>3. \A v \in Workers : worker'[v] = worker[v] \/ Fine(v)'
  BY <1>2, IdleFine
<1> QED BY <1>1, <1>3, QuietSend, AdvanceProceeds

\* A worker that stops without touching the database.
LEMMA DropStep ==
  ASSUME DInv, NEW w \in Workers, Rounds # {}, Drop(w)
  PROVE  Proceeds(round') /\ SendInv'
<1>1. round' = round /\ End(w) /\ carried' = carried /\ receipt' = receipt
  BY DEF Drop
<1>2. Advance(round)
  BY DInvFacts, StayAdvance
<1>3. Advance(round')
  BY <1>1, <1>2
<1> QED BY <1>1, <1>3, EndStep

\* A worker goes to another place in its round.
LEMMA GotoRow ==
  ASSUME worker \in [Workers -> Worker], NEW w \in Workers, NEW pc, Goto(w, pc)
  PROVE  /\ worker'[w].pc = pc /\ worker'[w].round = worker[w].round
         /\ worker'[w].token = worker[w].token
         /\ \A v \in Workers \ {w} : worker'[v] = worker[v]
<1> DEFINE x == [worker[w] EXCEPT !.pc = pc]
<1>1. worker[w] \in Worker
  OBVIOUS
<1>2. x.pc = pc /\ x.round = worker[w].round /\ x.token = worker[w].token
  BY <1>1 DEF Worker
<1>3. worker' = [worker EXCEPT ![w] = x]
  BY DEF Goto
<1> HIDE DEF x
<1>4. \A v \in Workers : worker'[v] = IF v = w THEN x ELSE worker[v]
  BY <1>3
<1> QED BY <1>2, <1>4

\* A worker that goes on before its answer.
LEMMA EarlyStep ==
  ASSUME DInv, Advance(round'), NEW w \in Workers, NEW pc \in Early, worker[w].pc \in Early,
         Goto(w, pc), carried' = carried, receipt' = receipt
  PROVE  Proceeds(round') /\ SendInv'
<1>1. SendInv /\ worker \in [Workers -> Worker]
  BY DInvFacts
<1>2. /\ worker'[w].pc = pc /\ worker'[w].round = worker[w].round
      /\ worker'[w].token = worker[w].token
      /\ \A v \in Workers \ {w} : worker'[v] = worker[v]
  BY <1>1, GotoRow
<1> DEFINE k == worker[w].round
<1>3. k \in Rounds /\ WorkerPart(w)
  BY <1>1 DEF SendInv, WorkerPart, Early
<1>4. Silent(round[k], round'[k])
  BY <1>3 DEF Advance
<1>5. WorkerPart(w)'
  <2>1. (round'[k].status \in Processing /\ worker[w].token = round'[k].lease) =>
          round'[k].delivery # "SENDING"
    BY <1>3, <1>4 DEF WorkerPart, Silent
  <2>2. pc \notin Sends /\ pc \notin Notifies
    BY DEF Early, Sends, Notifies
  <2>3. pc \notin {"sending", "carried", "sent", "notify", "notifying"}
    BY DEF Early
  <2> QED BY <1>2, <1>3, <2>1, <2>2, <2>3 DEF WorkerPart
<1>6. ASSUME NEW u \in Workers \ {w}, Meets(u, w)' PROVE FALSE
  <2>1. worker'[u] = worker[u]
    BY <1>2
  <2>2. Meets(u, w)
    BY <1>2, <1>6, <2>1 DEF Meets, Early, Running, Sends, Notifies
  <2> QED BY <1>1, <2>2 DEF SendInv
<1>7. Fine(w)'
  BY <1>5, <1>6 DEF Fine
<1>8. \A v \in Workers : worker'[v] = worker[v] \/ Fine(v)'
  BY <1>2, <1>7
<1> QED BY <1>1, <1>8, QuietSend, AdvanceProceeds

\* StartSending: the owner was early, so no text of this round was with the
\* transport, and no other worker has its token.
LEMMA SendingStep ==
  ASSUME DInv, NEW w \in Workers, NEW r \in Rounds, StartSending(w, r)
  PROVE  Proceeds(round') /\ SendInv'
<1> DEFINE q == round[r]
           x == [q EXCEPT !.delivery = "SENDING", !.effect = TRUE]
<1>1. /\ SendInv /\ worker \in [Workers -> Worker] /\ round \in [Rounds -> Round]
      /\ carried \in [Rounds -> [answer : Nat, fallback : Nat]] /\ Sound
  BY DInvFacts
<1>2. /\ worker[w].round = r /\ worker[w].pc = "running" /\ worker[w].token = q.lease
      /\ q.status = "RUNNING" /\ q.control = "none" /\ Goto(w, "sending")
      /\ carried' = carried /\ receipt' = receipt
  BY DEF StartSending, At, Owns
<1>3. q \in Round /\ Consistent(q) /\ WorkerPart(w) /\ CarriedPart(r)
  BY <1>1 DEF SendInv
<1>4. round' = [round EXCEPT ![r] = x]
  BY DEF StartSending
<1>5. /\ x.status = "RUNNING" /\ x.delivery = "SENDING" /\ x.control = "none" /\ x.open = q.open
      /\ x.done = q.done /\ x.effect = TRUE /\ x.lease = q.lease
  BY <1>2, <1>3 DEF Round
<1> HIDE DEF x
<1>6. \A s \in Rounds : round'[s] = IF s = r THEN x ELSE round[s]
  BY <1>1, <1>4
<1>7. q.delivery = "PENDING" /\ ~Launched(q)
  <2>1. q.delivery # "SENDING"
    BY <1>2, <1>3, StatusSets DEF WorkerPart, Early
  <2> QED BY <1>2, <1>3, <2>1, NotSending, StatusSets DEF Launched
<1>8. Delivers(q, x, carried[r].answer)
  <2>1. Consistent(x)
    BY <1>2, <1>3, <1>5, StatusSets DEF Consistent
  <2> QED BY <1>2, <1>5, <1>7, <2>1, StatusSets DEF Delivers, Noticed
<1>9. Settles(q, x)
  <2>1. Holds(q)
    BY <1>2, StatusSets DEF Holds
  <2>2. \A m \in Messages : Deals(q, m) => Deals(x, m)
    BY <1>5 DEF Deals
  <2> QED BY <1>2, <1>5, <2>1, <2>2, StatusSets DEF Settles
<1>10. \A s \in Rounds : Delivers(round[s], round'[s], carried[s].answer) /\ Settles(round[s], round'[s])
  BY <1>1, <1>6, <1>8, <1>9, StayRow DEF Sound, RowStep
<1>11. Proceeds(round')
  <2>1. Hands(round') /\ Preserves(round')
    BY <1>10, EachSettles
  <2> QED BY <1>10, <2>1 DEF Proceeds
<1>12. /\ worker'[w].pc = "sending" /\ worker'[w].round = r
       /\ worker'[w].token = worker[w].token
       /\ \A v \in Workers \ {w} : worker'[v] = worker[v]
  BY <1>1, <1>2, GotoRow
<1>13. carried[r].answer = 0
  <2>1. carried[r].answer \in Nat /\ ~(carried[r].answer > 0)
    BY <1>1, <1>3, <1>7 DEF CarriedPart
  <2> QED BY <2>1
<1>14. WorkerPart(w)'
  <2>1. round'[r] = x
    BY <1>6
  <2>2. Launched(x)
    BY <1>5, StatusSets DEF Launched
  <2> QED BY <1>2, <1>12, <1>13, <2>1, <2>2 DEF WorkerPart, Sends, Notifies, Early
<1>15. ASSUME NEW u \in Workers \ {w} PROVE ~Meets(u, w)
  BY <1>1 DEF SendInv
<1>16. ASSUME NEW u \in Workers \ {w}, worker[u].round = r PROVE worker[u].pc \notin Sends
  <2>1. WorkerPart(u)
    BY <1>1 DEF SendInv
  <2> QED BY <1>7, <1>16, <2>1 DEF WorkerPart
<1>17. ASSUME NEW u \in Workers \ {w}, Meets(u, w)' PROVE FALSE
  <2>1. worker'[u] = worker[u] /\ worker[u].round = r
    BY <1>12, <1>17 DEF Meets
  <2>2. worker[u].pc \notin Sends
    BY <1>16, <2>1
  <2>3. worker[u].pc \in Running /\ worker[u].token = worker[w].token
    BY <1>12, <1>17, <2>1, <2>2 DEF Meets, Notifies
  <2>4. Meets(u, w)
    BY <1>2, <2>1, <2>3 DEF Meets, Running
  <2> QED BY <1>15, <2>4
<1>18. Fine(w)'
  BY <1>14, <1>17 DEF Fine
<1>19. ASSUME NEW u \in Workers \ {w} PROVE Hushed(u)
  <2>1. CASE worker[u].pc = "idle"
    BY <2>1 DEF Hushed, Early
  <2>2. CASE worker[u].pc # "idle" /\ worker[u].round # r
    <3>1. worker[u].round \in Rounds
      BY <1>1, <2>2 DEF SendInv, WorkerPart
    <3>2. round'[worker[u].round] = round[worker[u].round]
      BY <1>6, <2>2, <3>1
    <3> QED BY <3>2 DEF Hushed, Silent
  <2>3. CASE worker[u].round = r
    <3>1. worker[u].pc \in Early => worker[u].token # worker[w].token
      BY <1>2, <1>15, <2>3 DEF Meets, Early, Running
    <3>2. round'[r].lease = worker[w].token
      BY <1>2, <1>5, <1>6
    <3> QED BY <2>3, <3>1, <3>2 DEF Hushed
  <2> QED BY <2>1, <2>2, <2>3
<1>20. \A v \in Workers : (worker'[v] = worker[v] /\ Hushed(v)) \/ Fine(v)'
  BY <1>12, <1>18, <1>19
<1>21. SendInv'
  BY <1>1, <1>2, <1>10, <1>20, SendKept
<1> QED BY <1>11, <1>21

\* The transport takes an answer: it was not carried before, and no other
\* worker of the round is at its answer.
LEMMA TransportStep ==
  ASSUME DInv, NEW w \in Workers, NEW r \in Rounds, Transport(w, r)
  PROVE  Proceeds(round') /\ SendInv'
<1>1. /\ SendInv /\ worker \in [Workers -> Worker] /\ Sound
      /\ carried \in [Rounds -> [answer : Nat, fallback : Nat]]
  BY DInvFacts
<1>2. /\ worker[w].round = r /\ worker[w].pc = "sending" /\ Goto(w, "carried")
      /\ round' = round /\ receipt' = receipt
  BY DEF Transport, At
<1>3. WorkerPart(w) /\ carried[r].answer = 0 /\ Launched(round[r])
  BY <1>1, <1>2 DEF SendInv, WorkerPart, Sends
<1>4. /\ \A s \in Rounds \ {r} : carried'[s] = carried[s]
      /\ carried'[r].answer = 1 /\ carried'[r].fallback = carried[r].fallback
  BY <1>1, <1>3 DEF Transport
<1>5. /\ worker'[w].pc = "carried" /\ worker'[w].round = r
      /\ worker'[w].token = worker[w].token
      /\ \A v \in Workers \ {w} : worker'[v] = worker[v]
  BY <1>1, <1>2, GotoRow
<1>6. ASSUME NEW s \in Rounds PROVE Consistent(round'[s]) /\ CarriedPart(s)'
  <2>1. Consistent(round[s]) /\ CarriedPart(s)
    BY <1>1 DEF SendInv
  <2>2. CASE s # r
    BY <1>2, <1>4, <2>1, <2>2 DEF CarriedPart
  <2>3. CASE s = r
    BY <1>2, <1>3, <1>4, <2>1, <2>3 DEF CarriedPart
  <2> QED BY <2>2, <2>3
<1>7. ASSUME NEW u \in Workers \ {w} PROVE WorkerPart(u)'
  <2>1. WorkerPart(u) /\ ~Meets(u, w) /\ worker'[u] = worker[u]
    BY <1>1, <1>5 DEF SendInv
  <2>2. CASE worker[u].round # r
    <3>1. worker[u].pc # "idle" => carried'[worker[u].round] = carried[worker[u].round]
      BY <1>4, <2>1, <2>2 DEF WorkerPart
    <3>2. CASE worker[u].pc = "idle"
      BY <2>1, <3>2 DEF WorkerPart, Sends, Notifies, Early
    <3>3. CASE worker[u].pc # "idle"
      BY <1>2, <2>1, <3>1, <3>3 DEF WorkerPart
    <3> QED BY <3>2, <3>3
  <2>3. CASE worker[u].round = r
    <3>1. worker[u].pc \notin {"sending", "carried", "sent"}
      BY <1>2, <2>1, <2>3 DEF Meets, Sends
    <3> QED BY <1>2, <1>4, <2>1, <2>3, <3>1 DEF WorkerPart
  <2> QED BY <2>2, <2>3
<1>8. WorkerPart(w)'
  BY <1>2, <1>3, <1>4, <1>5 DEF WorkerPart, Sends, Notifies, Early
<1>9. ASSUME NEW u \in Workers, NEW v \in Workers, Meets(u, v)' PROVE Meets(u, v)
  <2>1. ASSUME NEW z \in Workers
        PROVE  /\ worker'[z].round = worker[z].round /\ worker'[z].token = worker[z].token
               /\ worker'[z].pc \in Running => worker[z].pc \in Running
               /\ worker'[z].pc \in Sends => worker[z].pc \in Sends
               /\ worker'[z].pc \in Notifies => worker[z].pc \in Notifies
    BY <1>2, <1>5 DEF Running, Sends, Notifies
  <2> QED BY <1>9, <2>1 DEF Meets
<1>10. SendInv'
  <2>1. \A u \in Workers : WorkerPart(u)'
    BY <1>7, <1>8
  <2>2. \A u, v \in Workers : Meets(u, v)' => u = v
    BY <1>1, <1>9 DEF SendInv
  <2> QED BY <1>6, <2>1, <2>2 DEF SendInv, Consistent
<1>11. Advance(round')
  <2>1. Advance(round)
    BY <1>1, StayAdvance
  <2> QED BY <1>2, <2>1
<1> QED BY <1>10, <1>11, AdvanceProceeds

\* Messenger journals an answer that was carried.
LEMMA JournalStep ==
  ASSUME DInv, NEW w \in Workers, NEW r \in Rounds, Journal(w, r)
  PROVE  Proceeds(round') /\ SendInv'
<1>1. SendInv /\ worker \in [Workers -> Worker] /\ Sound
  BY DInvFacts
<1>2. /\ worker[w].round = r /\ worker[w].pc = "carried" /\ Goto(w, "sent")
      /\ round' = round /\ carried' = carried /\ receipt' = receipt \cup {r}
  BY DEF Journal, At
<1>3. WorkerPart(w) /\ carried[r].answer = 1 /\ Launched(round[r])
  BY <1>1, <1>2 DEF SendInv, WorkerPart, Sends
<1>4. /\ worker'[w].pc = "sent" /\ worker'[w].round = r
      /\ worker'[w].token = worker[w].token
      /\ \A v \in Workers \ {w} : worker'[v] = worker[v]
  BY <1>1, <1>2, GotoRow
<1>5. ASSUME NEW s \in Rounds PROVE Consistent(round'[s]) /\ CarriedPart(s)'
  <2>1. Consistent(round[s]) /\ CarriedPart(s)
    BY <1>1 DEF SendInv
  <2> QED BY <1>2, <1>3, <2>1 DEF CarriedPart
<1>6. ASSUME NEW u \in Workers \ {w} PROVE WorkerPart(u)'
  <2>1. WorkerPart(u) /\ worker'[u] = worker[u]
    BY <1>1, <1>4 DEF SendInv
  <2> QED BY <1>2, <2>1 DEF WorkerPart
<1>7. WorkerPart(w)'
  BY <1>2, <1>3, <1>4 DEF WorkerPart, Sends, Notifies, Early
<1>8. ASSUME NEW u \in Workers, NEW v \in Workers, Meets(u, v)' PROVE Meets(u, v)
  <2>1. ASSUME NEW z \in Workers
        PROVE  /\ worker'[z].round = worker[z].round /\ worker'[z].token = worker[z].token
               /\ worker'[z].pc \in Running => worker[z].pc \in Running
               /\ worker'[z].pc \in Sends => worker[z].pc \in Sends
               /\ worker'[z].pc \in Notifies => worker[z].pc \in Notifies
    BY <1>2, <1>4 DEF Running, Sends, Notifies
  <2> QED BY <1>8, <2>1 DEF Meets
<1>9. SendInv'
  <2>1. \A u \in Workers : WorkerPart(u)'
    BY <1>6, <1>7
  <2>2. \A u, v \in Workers : Meets(u, v)' => u = v
    BY <1>1, <1>8 DEF SendInv
  <2> QED BY <1>5, <2>1, <2>2 DEF SendInv, Consistent
<1>10. Advance(round')
  <2>1. Advance(round)
    BY <1>1, StayAdvance
  <2> QED BY <1>2, <2>1
<1> QED BY <1>9, <1>10, AdvanceProceeds

\* The transport takes a fallback text: it was not carried before.
LEMMA FallbackStep ==
  ASSUME DInv, NEW w \in Workers, NEW r \in Rounds, TransportNotification(w, r)
  PROVE  Proceeds(round') /\ SendInv'
<1>1. /\ SendInv /\ worker \in [Workers -> Worker] /\ Sound
      /\ carried \in [Rounds -> [answer : Nat, fallback : Nat]]
  BY DInvFacts
<1>2. /\ worker[w].round = r /\ worker[w].pc = "notifying" /\ Goto(w, "notified")
      /\ round' = round /\ receipt' = receipt
  BY DEF TransportNotification, At
<1>3. WorkerPart(w) /\ carried[r].fallback = 0 /\ Noticed(round[r])
  BY <1>1, <1>2 DEF SendInv, WorkerPart, Notifies
<1>4. /\ \A s \in Rounds \ {r} : carried'[s] = carried[s]
      /\ carried'[r].fallback = 1 /\ carried'[r].answer = carried[r].answer
  BY <1>1, <1>3 DEF TransportNotification
<1>5. /\ worker'[w].pc = "notified" /\ worker'[w].round = r
      /\ worker'[w].token = worker[w].token
      /\ \A v \in Workers \ {w} : worker'[v] = worker[v]
  BY <1>1, <1>2, GotoRow
<1>6. ASSUME NEW s \in Rounds PROVE Consistent(round'[s]) /\ CarriedPart(s)'
  <2>1. Consistent(round[s]) /\ CarriedPart(s)
    BY <1>1 DEF SendInv
  <2>2. CASE s # r
    BY <1>2, <1>4, <2>1, <2>2 DEF CarriedPart
  <2>3. CASE s = r
    BY <1>2, <1>3, <1>4, <2>1, <2>3 DEF CarriedPart
  <2> QED BY <2>2, <2>3
<1>7. ASSUME NEW u \in Workers \ {w} PROVE WorkerPart(u)'
  <2>1. WorkerPart(u) /\ ~Meets(u, w) /\ worker'[u] = worker[u]
    BY <1>1, <1>5 DEF SendInv
  <2>2. CASE worker[u].round # r
    <3>1. worker[u].pc # "idle" => carried'[worker[u].round] = carried[worker[u].round]
      BY <1>4, <2>1, <2>2 DEF WorkerPart
    <3>2. CASE worker[u].pc = "idle"
      BY <2>1, <3>2 DEF WorkerPart, Sends, Notifies, Early
    <3>3. CASE worker[u].pc # "idle"
      BY <1>2, <2>1, <3>1, <3>3 DEF WorkerPart
    <3> QED BY <3>2, <3>3
  <2>3. CASE worker[u].round = r
    <3>1. worker[u].pc \notin {"notify", "notifying"}
      BY <1>2, <2>1, <2>3 DEF Meets, Notifies
    <3> QED BY <1>2, <1>4, <2>1, <2>3, <3>1 DEF WorkerPart
  <2> QED BY <2>2, <2>3
<1>8. WorkerPart(w)'
  BY <1>2, <1>3, <1>4, <1>5 DEF WorkerPart, Sends, Notifies, Early
<1>9. ASSUME NEW u \in Workers, NEW v \in Workers, Meets(u, v)' PROVE Meets(u, v)
  <2>1. ASSUME NEW z \in Workers
        PROVE  /\ worker'[z].round = worker[z].round /\ worker'[z].token = worker[z].token
               /\ worker'[z].pc \in Running => worker[z].pc \in Running
               /\ worker'[z].pc \in Sends => worker[z].pc \in Sends
               /\ worker'[z].pc \in Notifies => worker[z].pc \in Notifies
    BY <1>2, <1>5 DEF Running, Sends, Notifies
  <2> QED BY <1>9, <2>1 DEF Meets
<1>10. SendInv'
  <2>1. \A u \in Workers : WorkerPart(u)'
    BY <1>7, <1>8
  <2>2. \A u, v \in Workers : Meets(u, v)' => u = v
    BY <1>1, <1>9 DEF SendInv
  <2> QED BY <1>6, <2>1, <2>2 DEF SendInv, Consistent
<1>11. Advance(round')
  <2>1. Advance(round)
    BY <1>1, StayAdvance
  <2> QED BY <1>2, <2>1
<1> QED BY <1>10, <1>11, AdvanceProceeds

\* The notifier takes over the token of the row.
LEMMA StartNotificationStep ==
  ASSUME DInv, NEW w \in Workers, NEW r \in Rounds, StartNotification(w, r)
  PROVE  Proceeds(round') /\ SendInv'
<1> DEFINE x == [worker[w] EXCEPT !.pc = "notifying", !.token = round[r].lease]
<1>1. SendInv /\ worker \in [Workers -> Worker] /\ Sound /\ worker[w] \in Worker
  BY DInvFacts
<1>2. worker[w].round = r /\ worker[w].pc = "notify"
  BY DEF StartNotification, At
<1>3. \/ Drop(w)
      \/ /\ worker' = [worker EXCEPT ![w] = x] /\ round' = round /\ carried' = carried
         /\ receipt' = receipt
  BY DEF StartNotification
<1>4. x.pc = "notifying" /\ x.round = r
  BY <1>1, <1>2 DEF Worker
<1> HIDE DEF x
<1>5. CASE Drop(w)
  BY <1>5, DropStep
<1>6. CASE /\ worker' = [worker EXCEPT ![w] = x] /\ round' = round /\ carried' = carried
           /\ receipt' = receipt
  <2>1. worker'[w] = x /\ \A v \in Workers \ {w} : worker'[v] = worker[v]
    BY <1>1, <1>6
  <2>2. WorkerPart(w)'
    <3>1. WorkerPart(w)
      BY <1>1 DEF SendInv
    <3> QED BY <1>2, <1>4, <1>6, <2>1, <3>1 DEF WorkerPart, Sends, Notifies, Early
  <2>3. ASSUME NEW u \in Workers \ {w}, Meets(u, w)' PROVE FALSE
    <3>1. Meets(u, w)
      BY <1>2, <1>4, <2>1, <2>3 DEF Meets, Running, Sends, Notifies
    <3> QED BY <1>1, <3>1 DEF SendInv
  <2>4. Fine(w)'
    BY <2>2, <2>3 DEF Fine
  <2>5. \A v \in Workers : worker'[v] = worker[v] \/ Fine(v)'
    BY <2>1, <2>4
  <2>6. Advance(round')
    <3>1. Advance(round)
      BY <1>1, StayAdvance
    <3> QED BY <1>6, <3>1
  <2> QED BY <1>1, <1>6, <2>5, <2>6, QuietSend, AdvanceProceeds
<1> QED BY <1>3, <1>5, <1>6

\* A fallback text is leased: nobody had noticed its round.
LEMMA NotificationStep ==
  ASSUME DInv, NEW w \in Workers, ClaimNotification(w)
  PROVE  Proceeds(round') /\ SendInv'
<1> DEFINE y(n) == [pc |-> "notify", round |-> n, token |-> 0]
<1>1. /\ SendInv /\ worker \in [Workers -> Worker] /\ Sound
      /\ carried \in [Rounds -> [answer : Nat, fallback : Nat]]
  BY DInvFacts
<1>2. carried' = carried /\ receipt' = receipt
  BY DEF ClaimNotification
<1>3. Advance(round')
  BY <1>1, NotificationAdvance
<1>4. \/ worker' = worker
      \/ \E n \in Rounds : /\ FallbackDue(n) /\ Noticed(round'[n])
                           /\ worker' = [worker EXCEPT ![w] = y(n)]
  BY <1>1, NotificationAdvance
<1>5. CASE worker' = worker
  BY <1>2, <1>3, <1>5, StillStep
<1>6. ASSUME NEW n \in Rounds, FallbackDue(n), Noticed(round'[n]), worker' = [worker EXCEPT ![w] = y(n)]
      PROVE  Proceeds(round') /\ SendInv'
  <2>1. y(n).pc = "notify" /\ y(n).round = n
    OBVIOUS
  <2> HIDE DEF y
  <2>2. worker'[w] = y(n) /\ \A v \in Workers \ {w} : worker'[v] = worker[v]
    BY <1>1, <1>6
  <2>3. ~Noticed(round[n])
    BY <1>6 DEF FallbackDue, Noticed
  <2>4. carried[n].fallback = 0
    <3>1. carried[n].fallback \in Nat /\ ~(carried[n].fallback > 0)
      BY <1>1, <2>3 DEF SendInv, CarriedPart
    <3> QED BY <3>1
  <2>5. WorkerPart(w)'
    BY <1>2, <1>6, <2>1, <2>2, <2>4 DEF WorkerPart, Sends, Notifies, Early
  <2>6. ASSUME NEW u \in Workers \ {w}, Meets(u, w)' PROVE FALSE
    <3>1. worker[u].round = n /\ worker[u].pc \in Notifies
      BY <2>1, <2>2, <2>6 DEF Meets, Running, Sends, Notifies
    <3>2. WorkerPart(u)
      BY <1>1 DEF SendInv
    <3> QED BY <2>3, <3>1, <3>2 DEF WorkerPart
  <2>7. Fine(w)'
    BY <2>5, <2>6 DEF Fine
  <2>8. \A v \in Workers : worker'[v] = worker[v] \/ Fine(v)'
    BY <2>2, <2>7
  <2> QED BY <1>1, <1>2, <1>3, <2>8, QuietSend, AdvanceProceeds
<1> QED BY <1>4, <1>5, <1>6

\* A claim takes a token that no worker has.
LEMMA ClaimSendStep ==
  ASSUME DInv, NEW w \in Workers, NEW r \in Rounds, carried' = carried, receipt' = receipt,
         round[r].status = "FROZEN" \/ (round[r].status \in Processing /\ round[r].delivery # "SENDING"),
         round' = [round EXCEPT ![r] = ClaimedRow(@)], StartWorker(w, r)
  PROVE  Proceeds(round') /\ SendInv'
<1> DEFINE y == [pc |-> "claimed", round |-> r, token |-> round[r].attempts + 1]
<1>1. /\ SendInv /\ worker \in [Workers -> Worker] /\ Sound /\ Tokens /\ round \in [Rounds -> Round]
  BY DInvFacts
<1>2. Advance(round') /\ round'[r].delivery = "PENDING"
  BY <1>1, ClaimAdvance
<1>3. y.pc = "claimed" /\ y.round = r /\ y.token = round[r].attempts + 1
  OBVIOUS
<1>4. worker' = [worker EXCEPT ![w] = y]
  BY DEF StartWorker
<1> HIDE DEF y
<1>5. worker'[w] = y /\ \A v \in Workers \ {w} : worker'[v] = worker[v]
  BY <1>1, <1>4
<1>6. WorkerPart(w)'
  BY <1>2, <1>3, <1>5 DEF WorkerPart, Sends, Notifies, Early
<1>7. ASSUME NEW u \in Workers \ {w}, Meets(u, w)' PROVE FALSE
  <2>1. worker[u].pc \in Running /\ worker[u].round = r /\ worker[u].token = round[r].attempts + 1
    BY <1>3, <1>5, <1>7 DEF Meets, Running, Sends, Notifies
  <2>2. round[r].status # "DELETED"
    BY StatusSets
  <2>3. worker[u].token <= round[r].attempts
    BY <1>1, <2>1, <2>2 DEF Tokens
  <2>4. round[r].attempts \in Nat
    BY <1>1, Bounds DEF Round
  <2> QED BY <2>1, <2>3, <2>4
<1>8. Fine(w)'
  BY <1>6, <1>7 DEF Fine
<1>9. \A v \in Workers : worker'[v] = worker[v] \/ Fine(v)'
  BY <1>5, <1>8
<1> QED BY <1>1, <1>2, <1>9, QuietSend, AdvanceProceeds

\* The claims.
LEMMA AnyClaimStep ==
  ASSUME DInv, NEW w \in Workers, NEW r \in Rounds, Claim(w, r) \/ ClaimExpired(w, r)
  PROVE  Proceeds(round') /\ SendInv'
<1>1. carried' = carried /\ receipt' = receipt
  BY DEF Claim, ClaimExpired
<1>2. CASE /\ round[r].status = "FROZEN" \/ (round[r].status \in Processing /\ round[r].delivery # "SENDING")
           /\ round' = [round EXCEPT ![r] = ClaimedRow(@)] /\ StartWorker(w, r)
  BY <1>1, <1>2, ClaimSendStep
<1>3. CASE round[r].status \in Processing /\ round' = InterruptRows(r) /\ worker' = worker
  <2>1. Sound /\ (r \in receipt => carried[r].answer = 1)
    BY DInvFacts DEF SendInv, CarriedPart
  <2>2. Advance(InterruptRows(r))
    BY <1>3, <2>1, InterruptAdvance
  <2>3. Advance(round')
    BY <1>3, <2>2
  <2> QED BY <1>1, <1>3, <2>3, StillStep
<1> QED BY <1>2, <1>3 DEF Claim, ClaimExpired, Ready, Expired, Resumes

\* The steps of a worker.
LEMMA AnyWorkerStep ==
  ASSUME DInv, NEW w \in Workers, NEW r \in Rounds, WorkerStep(w, r)
  PROVE  Proceeds(round') /\ SendInv'
<1>1. /\ Sound /\ WorkerPart(w) /\ (r \in receipt => carried[r].answer = 1) /\ Rounds # {}
  BY DInvFacts DEF SendInv, CarriedPart
<1>2. Drop(w) => (Proceeds(round') /\ SendInv')
  BY <1>1, DropStep
<1>3. CASE Build(w, r) /\ ~Drop(w)
  <2>1. /\ Owns(w, r) /\ Goto(w, "running") /\ carried' = carried /\ receipt' = receipt
        /\ worker[w].pc \in Early /\ "running" \in Early
    BY <1>3 DEF Build, At, Early
  <2>2. Advance(round')
    BY <1>1, <1>3, <2>1, RunAdvance
  <2> QED BY <2>1, <2>2, EarlyStep
<1>4. CASE (MarkEffect(w, r) \/ SaveCheckpoint(w, r)) /\ ~Drop(w)
  <2>1. Owns(w, r) /\ worker' = worker /\ carried' = carried /\ receipt' = receipt
    BY <1>4 DEF MarkEffect, SaveCheckpoint
  <2>2. Advance(round')
    BY <1>1, <1>4, <2>1, RunAdvance
  <2> QED BY <2>1, <2>2, StillStep
<1>5. CASE Notice(w, r)
  <2>1. /\ Goto(w, "interrupted") /\ round' = round /\ carried' = carried /\ receipt' = receipt
        /\ worker[w].pc \in Early /\ "interrupted" \in Early
    BY <1>5 DEF Notice, At, Early
  <2>2. Advance(round)
    BY <1>1, StayAdvance
  <2>3. Advance(round')
    BY <2>1, <2>2
  <2> QED BY <2>1, <2>3, EarlyStep
<1>6. CASE Complete(w, r)
  <2>1. End(w) /\ carried' = carried /\ receipt' = receipt
    BY <1>6 DEF Complete, Settle
  <2>2. Advance(round')
    BY <1>1, <1>6, CompleteAdvance
  <2> QED BY <2>1, <2>2, EndStep
<1>7. CASE (Delivered(w, r) \/ DeliveryUnknown(w, r)) /\ ~Drop(w)
  <2>1. Owns(w, r) /\ End(w) /\ carried' = carried /\ receipt' = receipt
    BY <1>7 DEF Delivered, DeliveryUnknown, Settle
  <2>2. Advance(round')
    BY <1>1, <1>7, <2>1, DeliveryAdvance
  <2> QED BY <2>1, <2>2, EndStep
<1>8. CASE Fail(w, r) /\ ~Drop(w)
  <2>1. Owns(w, r) /\ End(w) /\ carried' = carried /\ receipt' = receipt
    BY <1>8 DEF Fail, Settle
  <2>2. \/ round[r].control # "none" /\ round' = Controlled(r, round[r].control)
        \/ round[r].control = "none" /\ round' = FailRows(r)
    BY <1>8 DEF Fail, Settle
  <2>3. round[r].status \in Processing /\ round[r].status \in Active /\ Consistent(round[r])
    BY <1>1, <2>1, StatusSets DEF Owns, Sound
  <2>4. CASE round[r].control # "none" /\ round' = Controlled(r, round[r].control)
    <3>1. round[r].delivery = "PENDING"
      BY <2>3, <2>4 DEF Consistent
    <3>2. Advance(Controlled(r, round[r].control))
      BY <1>1, <2>3, <3>1, ControlledAdvance
    <3>3. Advance(round')
      BY <2>4, <3>2
    <3> QED BY <2>1, <3>3, EndStep
  <2>5. CASE round[r].control = "none" /\ round' = FailRows(r)
    <3>1. Advance(FailRows(r))
      BY <1>1, <2>3, <2>5, FailAdvance
    <3>2. Advance(round')
      BY <2>5, <3>1
    <3> QED BY <2>1, <3>2, EndStep
  <2> QED BY <2>2, <2>4, <2>5
<1>9. CASE InterruptWorker(w, r) /\ ~Drop(w)
  <2>1. /\ round[r].status \in Processing /\ round' = InterruptRows(r) /\ End(w)
        /\ carried' = carried /\ receipt' = receipt
    BY <1>9 DEF InterruptWorker, Settle
  <2>2. Advance(InterruptRows(r))
    BY <1>1, <2>1, InterruptAdvance
  <2>3. Advance(round')
    BY <2>1, <2>2
  <2> QED BY <2>1, <2>3, EndStep
<1>10. CASE EndNotification(w, r) /\ ~Drop(w)
  <2>1. End(w) /\ carried' = carried /\ receipt' = receipt
    BY <1>10 DEF EndNotification
  <2>2. Advance(round')
    <3>1. CASE round' = round
      <4>1. Advance(round)
        BY <1>1, StayAdvance
      <4> QED BY <3>1, <4>1
    <3>2. CASE round' # round
      BY <1>1, <1>10, <3>2, EndNotificationAdvance
    <3> QED BY <3>1, <3>2
  <2> QED BY <2>1, <2>2, EndStep
<1>11. CASE LoseLease(w, r)
  BY <1>2, <1>11 DEF LoseLease
<1>12. CASE RenewLate(w, r)
  <2>1. worker' = worker /\ carried' = carried /\ receipt' = receipt
    BY <1>12 DEF RenewLate
  <2>2. Advance(round')
    BY <1>1, <1>12, ExpireAdvance
  <2> QED BY <2>1, <2>2, StillStep
<1> QED
  BY <1>2, <1>3, <1>4, <1>5, <1>6, <1>7, <1>8, <1>9, <1>10, <1>11, <1>12, SendingStep, TransportStep,
     JournalStep, FallbackStep, StartNotificationStep DEF WorkerStep

\* The steps of people.
LEMMA AnyHumanStep ==
  ASSUME DInv, NEW r \in Rounds, HumanStep(r)
  PROVE  Proceeds(round') /\ SendInv'
<1>1. Sound
  BY DInvFacts
<1>2. worker' = worker /\ carried' = carried /\ receipt' = receipt
  BY DEF HumanStep, Request, Resume, Restart, DeleteRound, ResolveUnknown
<1>3. Advance(round')
  BY <1>1, RequestAdvance, ResumeAdvance, RestartAdvance, DeleteAdvance, ResolveAdvance DEF HumanStep
<1> QED BY <1>2, <1>3, StillStep

\* The steps of the transactions that do not lock the room from end to end.
LEMMA AnyRoomStep ==
  ASSUME DInv, NEW r \in Rounds, RoomStep(r)
  PROVE  Proceeds(round') /\ SendInv'
<1>1. Sound
  BY DInvFacts
<1>2. worker' = worker /\ carried' = carried /\ receipt' = receipt
  BY DEF RoomStep, AdmitInsert, AdmitAborts, WakeMerged, WakeRead, WakeCommit, WakeAborts
<1>3. Advance(round')
  BY <1>1, AdmitInsertAdvance, AdmitAbortsAdvance, WakeAdvance DEF RoomStep
<1> QED BY <1>2, <1>3, StillStep

\* Every step keeps the rows, and the workers, in order.
LEMMA NextProceeds ==
  ASSUME DInv, Next
  PROVE  Proceeds(round') /\ SendInv'
<1>1. Sound /\ SendInv
  BY DInvFacts
<1>2. ASSUME NEW m \in Messages, Admit(m) \/ AdmitRead(m) PROVE Proceeds(round') /\ SendInv'
  <2>1. worker' = worker /\ carried' = carried /\ receipt' = receipt
    BY <1>2 DEF Admit, AdmitRead
  <2>2. Advance(round')
    BY <1>1, <1>2, AdmitAdvance, AdmitReadAdvance
  <2> QED BY <2>1, <2>2, StillStep
<1>3. ASSUME NEW r \in Rounds, Expire(r) PROVE Proceeds(round') /\ SendInv'
  <2>1. worker' = worker /\ carried' = carried /\ receipt' = receipt
    BY <1>3 DEF Expire
  <2>2. Advance(round')
    BY <1>1, <1>3, ExpireAdvance
  <2> QED BY <2>1, <2>2, StillStep
<1>4. ASSUME NEW w \in Workers, Crash(w) PROVE Proceeds(round') /\ SendInv'
  <2>1. worker[w].pc # "idle" /\ Drop(w)
    BY <1>4 DEF Crash
  <2>2. Rounds # {}
    BY <1>1, <2>1 DEF SendInv, WorkerPart
  <2> QED BY <2>1, <2>2, DropStep
<1> QED BY <1>2, <1>3, <1>4, AnyClaimStep, AnyWorkerStep, AnyHumanStep, AnyRoomStep, NotificationStep
        DEF Next

-----------------------------------------------------------------------------
(* The theorems                                                              *)

\* Every step preserves the invariant.
LEMMA StepDInv ==
  ASSUME DInv, [Next]_vars
  PROVE  DInv'
<1>1. EInv'
  BY StepEInv DEF DInv
<1>2. CASE Next
  BY <1>1, <1>2, NextProceeds, ProceedsDInv
<1>3. CASE UNCHANGED vars
  <2>1. /\ round' = round /\ attempt' = attempt /\ worker' = worker /\ carried' = carried
        /\ receipt' = receipt
    BY <1>3 DEF vars
  <2>2. SendInv'
    BY <2>1 DEF DInv, SendInv, Consistent, CarriedPart, WorkerPart, Meets
  <2>3. RestartReopened' <=> RestartReopened
    BY <2>1 DEF RestartReopened
  <2>4. Unshared' <=> Unshared
    BY <2>1 DEF Unshared, Has, Holds
  <2>5. Dealt' <=> Dealt
    BY <2>1 DEF Dealt, Left, Deals
  <2> QED BY <1>1, <2>2, <2>3, <2>4, <2>5 DEF DInv
<1> QED BY <1>2, <1>3

\* Initially there is no round, no text and no worker at work.
LEMMA InitDInv == Init => DInv
<1> SUFFICES ASSUME Init PROVE DInv
  OBVIOUS
<1>1. EInv
  BY InitEInv
<1>2. \A r \in Rounds :
        /\ round[r].status = "ABSENT" /\ round[r].open = {} /\ round[r].done = {}
        /\ round[r].delivery = "PENDING" /\ round[r].control = "none"
        /\ carried[r].answer = 0 /\ carried[r].fallback = 0
  BY DEF Init, Absent
<1>3. receipt = {} /\ \A w \in Workers : worker[w].pc = "idle"
  BY DEF Init, IdleWorker
<1>4. SendInv
  <2>1. ASSUME NEW r \in Rounds PROVE Consistent(round[r]) /\ CarriedPart(r)
    BY <1>2, <1>3, StatusSets DEF Consistent, CarriedPart
  <2>2. ASSUME NEW w \in Workers PROVE WorkerPart(w)
    BY <1>3 DEF WorkerPart, Sends, Notifies, Early
  <2>3. ASSUME NEW u \in Workers, NEW v \in Workers PROVE ~Meets(u, v)
    BY <1>3 DEF Meets, Running, Sends, Notifies
  <2> QED BY <2>1, <2>2, <2>3 DEF SendInv
<1>5. Unshared
  BY <1>2 DEF Unshared, Has
<1>6. Dealt
  BY <1>2 DEF Dealt, Left
<1> QED BY <1>1, <1>4, <1>5, <1>6 DEF DInv

\* A round that may have an answer with the transport holds its inputs.
LEMMA LaunchedHolds ==
  ASSUME NEW q, Consistent(q), Launched(q), NEW m, Has(q, m)
  PROVE  Holds(q)
BY StatusSets DEF Consistent, Launched, Has, Holds

\* What the invariant says of the texts.
LEMMA DInvAnswered ==
  ASSUME DInv
  PROVE  AnsweredOnce
<1>1. SendInv /\ carried \in [Rounds -> [answer : Nat, fallback : Nat]]
  BY DInvFacts
<1>2. ASSUME NEW r \in Rounds
      PROVE  /\ carried[r].answer \in Nat /\ carried[r].answer <= 1 /\ carried[r].fallback <= 1
             /\ Consistent(round[r]) /\ (carried[r].answer > 0 => Launched(round[r]))
  BY <1>1 DEF SendInv, CarriedPart
<1>3. ASSUME ~RestartReopened, NEW m \in Messages, NEW r \in Rounds, NEW s \in Rounds,
             m \in Inputs(r), m \in Inputs(s)
      PROVE  carried[r].answer + (IF s = r THEN 0 ELSE carried[s].answer) <= 1
  <2>1. CASE s = r
    BY <1>2, <2>1
  <2>2. CASE s # r
    <3>1. Has(round[r], m) /\ Has(round[s], m)
      BY <1>3 DEF Has, Inputs
    <3>2. ~(carried[r].answer > 0 /\ carried[s].answer > 0)
      <4>1. SUFFICES ASSUME carried[r].answer > 0, carried[s].answer > 0 PROVE FALSE
        OBVIOUS
      <4>2. Holds(round[r]) /\ Holds(round[s])
        BY <1>2, <3>1, <4>1, LaunchedHolds
      <4>3. Unshared
        BY <1>3 DEF DInv
      <4> QED BY <2>2, <3>1, <4>2, <4>3 DEF Unshared
    <3>3. /\ carried[r].answer \in Nat /\ carried[r].answer <= 1
          /\ carried[s].answer \in Nat /\ carried[s].answer <= 1
      BY <1>2
    <3> QED BY <2>2, <3>2, <3>3
  <2> QED BY <2>1, <2>2
<1> QED BY <1>2, <1>3 DEF AnsweredOnce

\* What the invariant says of what is reported.
LEMMA DInvTruthful ==
  ASSUME DInv
  PROVE  DeliveryTruthful
<1>1. SendInv /\ carried \in [Rounds -> [answer : Nat, fallback : Nat]]
  BY DInvFacts
<1>2. ASSUME NEW r \in Rounds, round[r].status = "CANCELLED"
      PROVE  carried[r].answer + carried[r].fallback = 0
  <2>1. ~Launched(round[r]) /\ ~Noticed(round[r])
    BY <1>2, StatusSets DEF Launched, Noticed
  <2>2. /\ carried[r].answer \in Nat /\ carried[r].fallback \in Nat
        /\ ~(carried[r].answer > 0) /\ ~(carried[r].fallback > 0)
    BY <1>1, <2>1 DEF SendInv, CarriedPart
  <2> QED BY <2>2
<1>3. ASSUME NEW r \in Rounds, round[r].status = "SUCCEEDED", round[r].delivery = "DELIVERED"
      PROVE  carried[r].answer = 1
  BY <1>1, <1>3 DEF SendInv, CarriedPart
<1> QED BY <1>2, <1>3 DEF DeliveryTruthful

\* What the invariant says of the inputs.
LEMMA DInvInputs ==
  ASSUME DInv
  PROVE  InputNotLost
<1> SUFFICES ASSUME "delete" \notin Commands, NEW r \in Rounds, NEW m \in Messages,
                    m \in round[r].open, round[r].status \in Terminal, ~round[r].effect
             PROVE  \E s \in Rounds :
                      Waits(m, s) \/ m \in round[s].done \/ (m \in round[s].open /\ round[s].effect)
  BY DEF InputNotLost
<1>1. Left(round[r], m) /\ Dealt
  BY DEF Left, DInv
<1>2. PICK s \in Rounds : Deals(round[s], m)
  BY <1>1 DEF Dealt
<1> QED BY <1>2 DEF Deals, Waits

\* Whatever rounds a message goes through, by supersession, failure, recovery,
\* approval, pause, resumption and restart, at most one of them answers it,
\* unless a deletion reopened a restart; and no round sends its fallback text
\* twice.  For any number of messages, workers, rounds and attempts.
THEOREM AnswerSafety == Spec => []AnsweredOnce
<1>1. DInv /\ [Next]_vars => DInv'
  BY StepDInv
<1> QED BY <1>1, InitDInv, DInvAnswered, PTL DEF Spec

\* A round recorded as delivered was carried, although the one who recorded it
\* may not be the worker that sent it; and of a round that a person stopped
\* neither the answer nor the fallback text was carried.
THEOREM DeliverySafety == Spec => []DeliveryTruthful
<1>1. DInv /\ [Next]_vars => DInv'
  BY StepDInv
<1> QED BY <1>1, InitDInv, DInvTruthful, PTL DEF Spec

\* An input that a round without an effect left behind is waiting in another
\* round, was dealt with, or went to a round that had an effect, as long as
\* nobody deletes rounds.
THEOREM InputSafety == Spec => []InputNotLost
<1>1. DInv /\ [Next]_vars => DInv'
  BY StepDInv
<1> QED BY <1>1, InitDInv, DInvInputs, PTL DEF Spec

\* An uncertain delivery is never queued again: no sweep, retry, restart, late
\* worker or new message makes it PENDING or SENDING.
THEOREM UnknownSafety == Spec => UnknownNotResent
<1> DEFINE A == \A r \in Rounds : round[r].delivery = "UNKNOWN" =>
                  \/ round'[r].delivery \notin {"PENDING", "SENDING"}
                  \/ round'[r].status = "DELETED"
<1>1. DInv /\ [Next]_vars => DInv'
  BY StepDInv
<1>2. DInv /\ [Next]_vars => [A]_vars
  <2> SUFFICES ASSUME DInv, Next PROVE A
    OBVIOUS
  <2>1. Proceeds(round')
    BY NextProceeds
  <2> QED BY <2>1 DEF Proceeds, Delivers
<1> QED BY <1>1, <1>2, InitDInv, PTL DEF Spec, UnknownNotResent

\* The steps of a worker that lost its lease change neither rounds nor attempts.
LEMMA StaleStep ==
  ASSUME NEW w \in Workers, NEW r \in Rounds, WorkerStep(w, r), worker[w].pc \in Running,
         worker' # worker, round[worker[w].round].lease # worker[w].token
  PROVE  round' = round /\ attempt' = attempt
<1>1. worker[w].round = r
  BY DEF WorkerStep, Build, MarkEffect, SaveCheckpoint, Notice, Complete, StartSending, Transport,
         Journal, Delivered, DeliveryUnknown, RenewLate, LoseLease, Fail, InterruptWorker,
         StartNotification, TransportNotification, EndNotification, At
<1>2. ~Owns(w, r) /\ round[r].lease # worker[w].token
  BY <1>1 DEF Owns
<1>3. Drop(w) => (round' = round /\ attempt' = attempt)
  BY DEF Drop
<1>4. CASE Build(w, r) \/ MarkEffect(w, r) \/ SaveCheckpoint(w, r) \/ Notice(w, r)
  BY <1>2, <1>3, <1>4 DEF Build, MarkEffect, SaveCheckpoint, Notice
<1>5. CASE Complete(w, r) \/ StartSending(w, r)
  BY <1>2, <1>5 DEF Complete, StartSending
<1>6. CASE Transport(w, r) \/ Journal(w, r) \/ TransportNotification(w, r)
  BY <1>6 DEF Transport, Journal, TransportNotification
<1>7. CASE Delivered(w, r) \/ DeliveryUnknown(w, r) \/ LoseLease(w, r) \/ Fail(w, r)
           \/ InterruptWorker(w, r)
  BY <1>2, <1>3, <1>7 DEF Delivered, DeliveryUnknown, LoseLease, Fail, InterruptWorker
<1>8. CASE StartNotification(w, r) \/ EndNotification(w, r)
  BY <1>8 DEF StartNotification, EndNotification, At, Running
<1>9. CASE RenewLate(w, r)
  BY <1>9 DEF RenewLate
<1> QED BY <1>4, <1>5, <1>6, <1>7, <1>8, <1>9 DEF WorkerStep

\* A worker whose attempt is no longer the one the lease belongs to changes no
\* row, whatever it was about to do: every write of a late worker is fenced.
THEOREM StaleSafety == Spec => StaleWorkerHarmless
<1> DEFINE A == \A w \in Workers :
                  (/\ worker[w].pc \in Running
                   /\ worker'[w] # worker[w]
                   /\ round[worker[w].round].lease # worker[w].token)
                     => round' = round /\ attempt' = attempt
<1>1. DInv /\ [Next]_vars => DInv'
  BY StepDInv
<1>2. DInv /\ [Next]_vars => [A]_vars
  <2> SUFFICES ASSUME DInv, Next, NEW w \in Workers, worker[w].pc \in Running,
                      worker'[w] # worker[w], round[worker[w].round].lease # worker[w].token
               PROVE  round' = round /\ attempt' = attempt
    OBVIOUS
  <2>1. worker \in [Workers -> Worker]
    BY DInvFacts
  <2>2. worker' # worker
    OBVIOUS
  <2>3. ASSUME NEW u \in Workers, NEW y, worker' = worker \/ worker' = [worker EXCEPT ![u] = y]
        PROVE  u = w
    BY <2>1, <2>3
  <2>4. ASSUME NEW u \in Workers, NEW r \in Rounds, Claim(u, r) \/ ClaimExpired(u, r)
        PROVE  FALSE
    <3>1. worker[u].pc = "idle" /\ (worker' = worker \/ StartWorker(u, r))
      BY <2>4 DEF Claim, ClaimExpired
    <3>2. u = w
      BY <2>3, <3>1 DEF StartWorker
    <3> QED BY <3>1, <3>2 DEF Running
  <2>5. ASSUME NEW u \in Workers, ClaimNotification(u)
        PROVE  FALSE
    <3>1. worker[u].pc = "idle" /\ \E y : worker' = worker \/ worker' = [worker EXCEPT ![u] = y]
      BY <2>5 DEF ClaimNotification
    <3>2. u = w
      BY <2>3, <3>1
    <3> QED BY <3>1, <3>2 DEF Running
  <2>6. ASSUME NEW u \in Workers, Crash(u)
        PROVE  round' = round /\ attempt' = attempt
    BY <2>6 DEF Crash, Drop
  <2>7. ASSUME NEW u \in Workers, NEW r \in Rounds, WorkerStep(u, r)
        PROVE  round' = round /\ attempt' = attempt
    <3>1. \E y : worker' = worker \/ worker' = [worker EXCEPT ![u] = y]
      BY <2>7 DEF WorkerStep, Build, MarkEffect, SaveCheckpoint, Notice, Complete, StartSending,
         Transport, Journal, Delivered, DeliveryUnknown, RenewLate, LoseLease, Fail, InterruptWorker,
         StartNotification, TransportNotification, EndNotification, Goto, End, Drop, Settle
    <3>2. u = w
      BY <2>3, <3>1
    <3> QED BY <2>2, <2>7, <3>2, StaleStep
  <2>8. ASSUME NEW m \in Messages, Admit(m) \/ AdmitRead(m) PROVE FALSE
    BY <2>2, <2>8 DEF Admit, AdmitRead
  <2>9. ASSUME NEW r \in Rounds, Expire(r) \/ HumanStep(r) PROVE FALSE
    BY <2>2, <2>9 DEF Expire, HumanStep, Request, Resume, Restart, DeleteRound, ResolveUnknown
  <2>10. ASSUME NEW r \in Rounds, RoomStep(r) PROVE FALSE
    BY <2>2, <2>10 DEF RoomStep, AdmitInsert, AdmitAborts, WakeMerged, WakeRead, WakeCommit, WakeAborts
  <2> QED BY <2>4, <2>5, <2>6, <2>7, <2>8, <2>9, <2>10 DEF Next
<1> QED BY <1>1, <1>2, InitDInv, PTL DEF Spec, StaleWorkerHarmless

=============================================================================

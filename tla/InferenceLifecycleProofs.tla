----------------------- MODULE InferenceLifecycleProofs -----------------------
(***************************************************************************)
(* Proofs about InferenceLifecycle: an accepted stop holds, an ended       *)
(* attempt leaves nothing open, a reader of the stream misses no message   *)
(* and a cancelled caller leaves no inference at work, for every number    *)
(* of attempts, messages and commands and every page size.                 *)
(*                                                                         *)
(* The argument: the inference and its current attempt agree (OpPart); an  *)
(* attempt is claimed once and what was written under its lease is closed  *)
(* in the transaction that ends it (CallPart, ReceiptPart, RootPart); the  *)
(* sequence only grows, so a message comes after every cursor and before   *)
(* the result of its attempt (JournalPart, ReaderPart).                    *)
(***************************************************************************)
EXTENDS InferenceLifecycle, FiniteSetTheorems, WellFoundedInduction, TLAPS

Busy == {"running", "pausing", "stopping"}
Unclaimed == {"none", "prepared", "queued"}

\* The inference against its attempts.
OpPart ==
  /\ op.status \in {"prepared", "queued"} => Current.status = op.status
  /\ op.status \in Busy <=> Current.status = "running"
  /\ op.status \in Terminal => Current.status \in Terminal
  /\ op.status = "prepared" => op.generation = 1
  /\ \A a \in Attempts : /\ a < op.generation => attempt[a].status \in Terminal
                         /\ a > op.generation => attempt[a].status = "none"

\* The call of an attempt.
CallPart ==
  \A a \in Attempts :
    /\ attempt[a].status \in Unclaimed => call[a].status = "none"
    /\ attempt[a].status \in Terminal => call[a].status # "running" /\ ~Unfinished(a)

\* Only a running attempt has commands to apply.
ReceiptPart ==
  \A c \in Commands, a \in Attempts :
    receipt[c].attempt = a /\ attempt[a].status # "running" => receipt[c].applied

\* The invocation against the call it makes, which may be closed under it.
RootPart ==
  Invoking =>
    LET a == root.attempt
    IN /\ attempt[a].status \notin Unclaimed
       /\ root.step = "calling" => call[a].status # "none"
       /\ root.step = "answered" => call[a].status \notin {"none", "running"}
       /\ root.step = "over" /\ root.end = "ok" =>
            call[a].status \notin {"none", "running"} /\ call[a].terminal

\* Messages and results in the order of the sequence.
JournalPart ==
  /\ IsFiniteSet(journal)
  /\ \A m \in journal :
       /\ 0 < m.sequence /\ m.sequence <= op.sequence
       /\ attempt[m.attempt].status \in Terminal => m.sequence < attempt[m.attempt].final
  /\ \A a \in Attempts : /\ attempt[a].final <= op.sequence
                         /\ attempt[a].final > 0 <=> attempt[a].status \in Terminal

\* The reader: what it has read of the attempt stays true.
ReaderPart ==
  /\ caller.cursor <= op.sequence
  /\ caller.ended => attempt[caller.attempt].status \in Terminal
  /\ caller.row.final > 0 => /\ attempt[caller.attempt].status \in Terminal
                             /\ caller.row.final = attempt[caller.attempt].final
  /\ StreamComplete

\* A caller that drains has stopped the attempt it drains.
DrainPart ==
  caller.phase = "drain" =>
    /\ caller.attempt = op.generation
    /\ \E c \in Commands : receipt[c].action = "stop"

\* The parts about the rows of the database, the root and the reader.
OpRows == [status : OpStatus, generation : Attempts, revision : Nat, sequence : Nat,
           expired : BOOLEAN]
AttemptRows == [status : AttemptStatus, leased : BOOLEAN, final : Nat]
CallRows == [status : {"none", "running", "completed", "error", "cancelled"}, terminal : BOOLEAN]
MessageRows == [attempt : Attempts, sequence : Nat]
ReceiptRows == [action : Actions \cup {"none"}, attempt : 0 .. MaxAttempts, applied : BOOLEAN]
Roots == [phase : {"none", "claiming", "watching", "settling"}, attempt : Attempts,
          step : {"ready", "calling", "answered", "over"}, end : {"ok", "error"},
          cancelled : BOOLEAN, interrupted : BOOLEAN, lost : BOOLEAN]
SeenRows == [status : AttemptStatus, final : Nat]
Readers == [phase : Watching \cup {"absent", "returned", "raised", "cancelled"},
            attempt : Attempts, cursor : Nat, got : SUBSET Nat, ended : BOOLEAN, row : SeenRows]

DbTypes ==
  /\ op \in OpRows /\ attempt \in [Attempts -> AttemptRows] /\ call \in [Attempts -> CallRows]
  /\ journal \subseteq MessageRows /\ receipt \in [Commands -> ReceiptRows]

DbInv == DbTypes /\ OpPart /\ CallPart /\ ReceiptPart /\ JournalPart /\ StopHolds
RootInv == root \in Roots /\ RootPart
CallerInv == caller \in Readers /\ ReaderPart /\ DrainPart /\ CancelledCallerSettled

\* The inductive invariant.
LifecycleInv == DbInv /\ RootInv /\ CallerInv

LEMMA TypeFacts == TypeOK <=> DbTypes /\ root \in Roots /\ caller \in Readers
  BY DEF TypeOK, DbTypes, OpRows, AttemptRows, CallRows, MessageRows, ReceiptRows, Roots,
         SeenRows, Readers

LEMMA ConstantFacts ==
  /\ MaxAttempts \in Nat \ {0} /\ MaxMessages \in Nat /\ PageLimit \in Nat \ {0}
  /\ 1 \in Attempts /\ Attempts \subseteq Nat
  BY LifecycleAssumption DEF Attempts

-------------------------------------------------------------------------------
(* The least element of a set of numbers: how an induction over data goes.  *)

LEMMA LeastNat ==
  ASSUME NEW T \in SUBSET Nat, T # {}
  PROVE  \E x \in T : \A y \in T : x <= y
<1> DEFINE R == OpToRel(<, Nat)
<1>1. IsWellFoundedOn(R, Nat)
  BY NatLessThanWellFounded
<1>2. \A x, y \in Nat : <<y, x>> \in R <=> y < x
  BY DEF OpToRel
<1> HIDE DEF R
<1>3. PICK x \in T : \A y \in T : ~(<<y, x>> \in R)
  BY <1>1, WFMin
<1>4. ASSUME NEW y \in T PROVE x <= y
  <2>1. x \in Nat /\ y \in Nat /\ ~(y < x)
    BY <1>2, <1>3, <1>4
  <2> QED BY <2>1
<1> QED BY <1>4

\* A bounded set of numbers that is not empty has a greatest element.
LEMMA GreatestNat ==
  ASSUME NEW T \in SUBSET Nat, T # {}, NEW b \in Nat, \A n \in T : n <= b
  PROVE  \E x \in T : \A y \in T : y <= x
<1> DEFINE D == {b - n : n \in T}
<1>0. \A n \in T : b - n \in Nat
  OBVIOUS
<1>1. D \in SUBSET Nat /\ D # {}
  BY <1>0
<1>2. PICK d \in D : \A e \in D : d <= e
  BY <1>1, LeastNat
<1>3. PICK x \in T : d = b - x
  BY <1>2
<1>4. ASSUME NEW y \in T PROVE y <= x
  <2>1. b - y \in D /\ b - x <= b - y /\ x \in Nat /\ y \in Nat
    BY <1>2, <1>3, <1>4
  <2> QED BY <2>1
<1> QED BY <1>4

-------------------------------------------------------------------------------
(* The page of read_event_batch.                                            *)

Page(fresh) == {n \in fresh : Cardinality({k \in fresh : k < n}) < PageLimit}

\* A page holds the oldest messages; it holds all of them when it has room left.
LEMMA PageFacts ==
  ASSUME NEW F \in SUBSET Nat, IsFiniteSet(F)
  PROVE  /\ \A n \in Page(F), k \in F : k < n => k \in Page(F)
         /\ Cardinality(Page(F)) < PageLimit => Page(F) = F
<1> DEFINE Below(n) == {k \in F : k < n}
           C(n) == Cardinality(Below(n))
<1>0. Page(F) = {n \in F : C(n) < PageLimit} /\ PageLimit \in Nat
  BY ConstantFacts DEF Page
<1>1. ASSUME NEW n PROVE IsFiniteSet(Below(n)) /\ C(n) \in Nat
  BY FS_Subset, FS_CardinalityType
<1>2. ASSUME NEW n \in Page(F), NEW k \in F, k < n PROVE k \in Page(F)
  <2>0. n \in Nat /\ k \in Nat
    BY <1>0
  <2>1. Below(k) \subseteq Below(n)
    <3>1. ASSUME NEW j \in F, j < k PROVE j < n
      BY <1>2, <2>0, <3>1
    <3> QED BY <3>1
  <2>2. C(k) <= C(n)
    BY <1>1, <2>1, FS_Subset
  <2>3. C(k) \in Nat /\ C(n) \in Nat /\ C(n) < PageLimit
    BY <1>0, <1>1, <1>2
  <2> HIDE DEF C
  <2> QED BY <1>0, <2>2, <2>3
<1>3. ASSUME Cardinality(Page(F)) < PageLimit, Page(F) # F PROVE FALSE
  <2> DEFINE T == F \ Page(F)
  <2>1. T \in SUBSET Nat /\ T # {}
    BY <1>0, <1>3
  <2>2. PICK x \in T : \A y \in T : x <= y
    BY <2>1, LeastNat
  <2>3. Below(x) \subseteq Page(F)
    <3> SUFFICES ASSUME NEW k \in F, k < x PROVE k \in Page(F)
      OBVIOUS
    <3>1. x \in Nat /\ k \in Nat /\ ~(x <= k)
      BY <2>2
    <3> QED BY <2>2, <3>1
  <2>4. IsFiniteSet(Page(F)) /\ Cardinality(Page(F)) \in Nat
    BY <1>0, FS_Subset, FS_CardinalityType
  <2>5. C(x) <= Cardinality(Page(F))
    BY <2>3, <2>4, FS_Subset
  <2>6. x \in F /\ x \notin Page(F)
    BY <2>2
  <2>7. C(x) \in Nat
    BY <1>1
  <2> HIDE DEF C
  <2>8. ~(C(x) < PageLimit)
    BY <1>0, <2>6
  <2> QED BY <1>0, <1>3, <2>4, <2>5, <2>7, <2>8
<1> QED BY <1>2, <1>3

-------------------------------------------------------------------------------
(* The reader against a step of the others, and the root against a step of  *)
(* the others.                                                              *)

Final == {"stopped", "completed", "failed"}
StopAccepted == \E c \in Commands : receipt[c].action = "stop"

\* What every transaction keeps of the rows.
Onward ==
  /\ op.sequence <= op'.sequence
  /\ op.status \in Final => op'.status \in Final
  /\ StopAccepted => StopAccepted' /\ op'.generation = op.generation
  /\ \A a \in Attempts : attempt[a].status \in Terminal => attempt'[a] = attempt[a]
  /\ \A m \in journal' :
       \/ m \in journal
       \/ op.sequence < m.sequence /\ attempt[m.attempt].status \notin Terminal

LEMMA CallerKept ==
  ASSUME DbTypes, DbTypes', CallerInv, Onward, caller' = caller
  PROVE  CallerInv'
<1> DEFINE k == caller.attempt
<1>1. /\ caller \in Readers /\ k \in Attempts /\ caller.cursor \in Nat
      /\ op.sequence \in Nat /\ op'.sequence \in Nat
  BY DEF CallerInv, Readers, DbTypes, OpRows
<1>2. caller.cursor <= op'.sequence
  BY <1>1 DEF CallerInv, ReaderPart, Onward
<1>3. caller.ended => attempt'[k].status \in Terminal
  BY <1>1 DEF CallerInv, ReaderPart, Onward
<1>4. caller.row.final > 0 => /\ attempt'[k].status \in Terminal
                              /\ caller.row.final = attempt'[k].final
  BY <1>1 DEF CallerInv, ReaderPart, Onward
<1>5. ASSUME NEW m \in journal', m.attempt = k, caller.ended \/ m.sequence <= caller.cursor
      PROVE  m.sequence \in caller.got
  <2>1. CASE m \in journal
    BY <1>5, <2>1 DEF CallerInv, ReaderPart, StreamComplete, MessagesOf
  <2>2. CASE op.sequence < m.sequence /\ attempt[m.attempt].status \notin Terminal
    <3>1. ~caller.ended
      BY <1>5, <2>2 DEF CallerInv, ReaderPart
    <3>2. m.sequence \in Nat /\ caller.cursor <= op.sequence
      BY <1>5 DEF DbTypes, MessageRows, CallerInv, ReaderPart
    <3> QED BY <1>1, <1>5, <2>2, <3>1, <3>2
  <2> QED BY <2>1, <2>2 DEF Onward
<1>6. StreamComplete'
  BY <1>5 DEF StreamComplete, MessagesOf
<1>7. ReaderPart'
  BY <1>2, <1>3, <1>4, <1>6 DEF ReaderPart
<1>8. DrainPart'
  BY DEF CallerInv, DrainPart, Onward, StopAccepted
<1>9. CancelledCallerSettled'
  BY DEF CallerInv, CancelledCallerSettled, Onward, Final
<1> QED BY <1>1, <1>7, <1>8, <1>9 DEF CallerInv

\* The root keeps what it knows while the others close calls and end attempts.
LEMMA RootKept ==
  ASSUME DbTypes, RootInv, root' = root,
         \A a \in Attempts : /\ attempt[a].status \notin Unclaimed => attempt'[a].status \notin Unclaimed
                             /\ call[a].status # "none" => call'[a].status # "none"
                             /\ call[a].status \notin {"none", "running"} =>
                                  call'[a].status \notin {"none", "running"}
                             /\ call[a].terminal => call'[a].terminal
  PROVE  RootInv'
<1>1. root \in Roots /\ root.attempt \in Attempts
  BY DEF RootInv, Roots
<1>2. RootPart'
  BY <1>1 DEF RootInv, RootPart, Invoking
<1> QED BY <1>1, <1>2 DEF RootInv

LEMMA NoRootInv ==
  ASSUME root' = NoRoot
  PROVE  RootInv'
<1>1. NoRoot \in Roots /\ NoRoot.phase = "none"
  BY ConstantFacts DEF NoRoot, Roots
<1> QED BY <1>1 DEF RootInv, RootPart, Invoking

\* A step that leaves the rows alone.
LEMMA DbKept ==
  ASSUME DbInv, UNCHANGED dbVars
  PROVE  DbInv' /\ Onward
<1>1. DbInv'
  BY DEF DbInv, DbTypes, OpPart, CallPart, ReceiptPart, JournalPart, StopHolds, dbVars, Current,
         Unfinished
<1>2. op.sequence \in Nat
  BY DEF DbInv, DbTypes, OpRows
<1>3. Onward
  BY <1>2 DEF Onward, StopAccepted, dbVars
<1> QED BY <1>1, <1>3

-------------------------------------------------------------------------------
(* The steps of the root and of its invocation that leave the rows alone.   *)

LEMMA RootMoves ==
  ASSUME RootInv, Invoking, UNCHANGED <<attempt, call>>, root' \in Roots,
         root'.attempt = root.attempt,
         root'.step = root.step \/ (root'.step = "over" /\ root'.end = "error"),
         root'.end \in {root.end, "error"}
  PROVE  RootInv'
  BY DEF RootInv, RootPart, Invoking

LEMMA RootOnlyPreserved ==
  ASSUME RootInv, StartRoot \/ RootFails \/ Heartbeat \/ HeartbeatFails \/ Shutdown \/ Crash \/ NoCall
  PROVE  RootInv' /\ UNCHANGED dbVars /\ caller' = caller
<1>1. root \in Roots
  BY DEF RootInv
<1>2. CASE StartRoot
  <2>1. root' \in Roots /\ root'.phase = "claiming"
    BY <1>2, ConstantFacts DEF StartRoot, NoRoot, Roots
  <2> QED BY <1>2, <2>1 DEF StartRoot, RootInv, RootPart, Invoking
<1>3. CASE RootFails
  BY <1>3, NoRootInv DEF RootFails
<1>4. CASE Heartbeat
  <2>0. root.phase = "watching" /\ UNCHANGED dbVars /\ caller' = caller
    BY <1>4 DEF Heartbeat
  <2>1. CASE root' = [root EXCEPT !.phase = "settling", !.lost = TRUE, !.cancelled = TRUE]
    <3>1. root' \in Roots /\ root'.attempt = root.attempt /\ root'.step = root.step /\ root'.end = root.end
      BY <1>1, <2>1 DEF Roots
    <3> QED BY <2>0, <3>1, RootMoves DEF Invoking, dbVars
  <2>2. CASE root' = [root EXCEPT !.phase = "settling", !.cancelled = TRUE,
                                  !.interrupted = root.step # "over" /\ op.status # "running"]
    <3>1. root' \in Roots /\ root'.attempt = root.attempt /\ root'.step = root.step /\ root'.end = root.end
      BY <1>1, <2>2 DEF Roots
    <3> QED BY <2>0, <3>1, RootMoves DEF Invoking, dbVars
  <2>3. CASE root' = [root EXCEPT !.phase = "settling"]
    <3>1. root' \in Roots /\ root'.attempt = root.attempt /\ root'.step = root.step /\ root'.end = root.end
      BY <1>1, <2>3 DEF Roots
    <3> QED BY <2>0, <3>1, RootMoves DEF Invoking, dbVars
  <2> QED BY <1>4, <2>1, <2>2, <2>3 DEF Heartbeat
<1>5. CASE HeartbeatFails
  <2>1. /\ root' \in Roots /\ root'.attempt = root.attempt /\ root'.step = root.step
        /\ root'.end = "error" /\ root.phase = "watching"
    BY <1>1, <1>5 DEF HeartbeatFails, Roots
  <2> QED BY <1>5, <2>1, RootMoves DEF HeartbeatFails, Invoking, dbVars
<1>6. CASE Shutdown
  <2>1. /\ root' \in Roots /\ root'.attempt = root.attempt /\ root'.step = root.step
        /\ root'.end = root.end /\ root.phase = "watching"
    BY <1>1, <1>6 DEF Shutdown, Roots
  <2> QED BY <1>6, <2>1, RootMoves DEF Shutdown, Invoking, dbVars
<1>7. CASE Crash
  BY <1>7, NoRootInv DEF Crash
<1>8. CASE NoCall
  <2>1. /\ root' \in Roots /\ root'.attempt = root.attempt /\ root'.step = "over"
        /\ root'.end = "error"
    BY <1>1, <1>8 DEF NoCall, Roots
  <2> QED BY <1>8, <2>1, RootMoves DEF NoCall, dbVars
<1> QED BY <1>2, <1>3, <1>4, <1>5, <1>6, <1>7, <1>8

\* The steps of the reader leave the rows and the root alone.
LEMMA RowsKept ==
  ASSUME DbInv, RootInv, UNCHANGED <<dbVars, root>>
  PROVE  DbInv' /\ RootInv'
<1>1. DbInv' /\ DbTypes
  BY DbKept DEF DbInv
<1>2. RootInv'
  BY <1>1, RootKept DEF dbVars
<1> QED BY <1>1, <1>2

-------------------------------------------------------------------------------
(* The steps of the reader.                                                 *)

\* A stream that opens has read nothing.
LEMMA OpenedStream ==
  ASSUME DbInv', NEW p \in Watching \ {"drain"}, NEW a \in Attempts, caller \in Readers,
         OpenStream(p, a)
  PROVE  CallerInv'
<1>1. /\ caller' \in Readers /\ caller'.phase = p /\ caller'.attempt = a /\ caller'.cursor = 0
      /\ ~caller'.ended /\ caller'.row.final = 0
  BY DEF OpenStream, Readers, SeenRows, NoRow, AttemptStatus
<1>2. op'.sequence \in Nat /\ \A m \in journal' : m.sequence \in Nat /\ 0 < m.sequence
  BY DEF DbInv, DbTypes, OpRows, JournalPart, MessageRows
<1>3. StreamComplete'
  BY <1>1, <1>2 DEF StreamComplete, MessagesOf
<1>4. ReaderPart'
  BY <1>1, <1>2, <1>3 DEF ReaderPart
<1> QED BY <1>1, <1>4 DEF CallerInv, DrainPart, CancelledCallerSettled, Watching

LEMMA DrainOpens ==
  ASSUME DbInv', StopAccepted', caller \in Readers, OpenStream("drain", op'.generation)
  PROVE  CallerInv'
<1>0. op'.generation \in Attempts
  BY DEF DbInv, DbTypes, OpRows
<1>1. /\ caller' \in Readers /\ caller'.phase = "drain" /\ caller'.attempt = op'.generation
      /\ caller'.cursor = 0 /\ ~caller'.ended /\ caller'.row.final = 0
  BY <1>0 DEF OpenStream, Readers, SeenRows, NoRow, AttemptStatus, Watching
<1>2. op'.sequence \in Nat /\ \A m \in journal' : m.sequence \in Nat /\ 0 < m.sequence
  BY DEF DbInv, DbTypes, OpRows, JournalPart, MessageRows
<1>3. StreamComplete'
  BY <1>1, <1>2 DEF StreamComplete, MessagesOf
<1>4. ReaderPart'
  BY <1>1, <1>2, <1>3 DEF ReaderPart
<1>5. DrainPart'
  BY <1>1 DEF DrainPart, StopAccepted
<1> QED BY <1>1, <1>4, <1>5 DEF CallerInv, CancelledCallerSettled

LEMMA LookPreserved ==
  ASSUME LifecycleInv, Look
  PROVE  LifecycleInv'
<1>1. DbInv' /\ RootInv' /\ caller \in Readers
  BY RowsKept DEF LifecycleInv, Look, CallerInv
<1>2. op.generation \in Attempts /\ "stream" \in Watching \ {"drain"}
  BY DEF LifecycleInv, DbInv, DbTypes, OpRows, Watching
<1>3. CallerInv'
  BY <1>1, <1>2, OpenedStream DEF Look
<1> QED BY <1>1, <1>3 DEF LifecycleInv

LEMMA ReadRowPreserved ==
  ASSUME LifecycleInv, ReadRow
  PROVE  LifecycleInv'
<1> DEFINE k == caller.attempt
<1>1. DbInv' /\ RootInv' /\ caller \in Readers
  BY RowsKept DEF LifecycleInv, ReadRow, CallerInv
<1>2. /\ k \in Attempts /\ attempt[k] \in AttemptRows
  BY <1>1 DEF Readers, LifecycleInv, DbInv, DbTypes
<1>3. /\ caller' \in Readers /\ caller'.phase = caller.phase /\ caller'.attempt = k
      /\ caller'.cursor = caller.cursor /\ caller'.ended = caller.ended /\ caller'.got = caller.got
      /\ caller'.row.final = attempt[k].final
  BY <1>1, <1>2 DEF ReadRow, Readers, SeenRows, AttemptRows
<1>4. UNCHANGED <<op, attempt, journal, receipt>>
  BY DEF ReadRow, dbVars
<1>5. StreamComplete'
  BY <1>3, <1>4 DEF LifecycleInv, CallerInv, ReaderPart, StreamComplete, MessagesOf
<1>6. attempt[k].final > 0 => attempt[k].status \in Terminal
  BY <1>2 DEF LifecycleInv, DbInv, JournalPart
<1>7. ReaderPart'
  BY <1>3, <1>4, <1>5, <1>6 DEF LifecycleInv, CallerInv, ReaderPart
<1>8. DrainPart' /\ CancelledCallerSettled'
  BY <1>3, <1>4 DEF LifecycleInv, CallerInv, DrainPart, CancelledCallerSettled
<1> QED BY <1>1, <1>3, <1>7, <1>8 DEF LifecycleInv, CallerInv

LEMMA CheckPreserved ==
  ASSUME LifecycleInv, Check
  PROVE  LifecycleInv'
<1>1. DbInv' /\ RootInv' /\ caller \in Readers
  BY RowsKept DEF LifecycleInv, Check, CallerInv
<1>2. /\ caller' \in Readers /\ caller'.phase \in {"raised", "look"} /\ caller'.attempt = caller.attempt
      /\ caller'.cursor = caller.cursor /\ caller'.ended = caller.ended /\ caller'.got = caller.got
      /\ caller'.row = caller.row
  BY <1>1 DEF Check, Readers, Watching
<1>3. UNCHANGED <<op, attempt, journal, receipt>>
  BY DEF Check, dbVars
<1>4. StreamComplete'
  BY <1>2, <1>3 DEF LifecycleInv, CallerInv, ReaderPart, StreamComplete, MessagesOf
<1>5. ReaderPart'
  BY <1>2, <1>3, <1>4 DEF LifecycleInv, CallerInv, ReaderPart
<1>6. DrainPart' /\ CancelledCallerSettled'
  BY <1>2, <1>3 DEF DrainPart, CancelledCallerSettled
<1> QED BY <1>1, <1>2, <1>5, <1>6 DEF LifecycleInv, CallerInv

\* A drained attempt that has ended has stopped the inference.
LEMMA DrainedIsStopped ==
  ASSUME LifecycleInv, caller.phase = "drain", attempt[caller.attempt].status \in Terminal
  PROVE  op.status = "stopped"
<1>1. caller.attempt = op.generation /\ StopAccepted
  BY DEF LifecycleInv, CallerInv, DrainPart, StopAccepted
<1>2. op.status \in {"stopping", "stopped"}
  BY <1>1 DEF LifecycleInv, DbInv, StopHolds, StopAccepted
<1>3. op.status \notin Busy
  BY <1>1 DEF LifecycleInv, DbInv, OpPart, Current, Terminal
<1> QED BY <1>2, <1>3 DEF Busy

\* What the reader has not read of its attempt.
Fresh == {m.sequence : m \in {n \in MessagesOf(caller.attempt) : n.sequence > caller.cursor}}

LEMMA FreshFacts ==
  ASSUME LifecycleInv
  PROVE  /\ Fresh \in SUBSET Nat /\ IsFiniteSet(Fresh)
         /\ \A n \in Fresh : n > caller.cursor /\ n <= op.sequence
         /\ \A m \in MessagesOf(caller.attempt) : m.sequence > caller.cursor => m.sequence \in Fresh
<1> DEFINE J == {n \in MessagesOf(caller.attempt) : n.sequence > caller.cursor}
<1>1. journal \subseteq MessageRows /\ \A m \in journal : m.sequence \in Nat /\ m.sequence <= op.sequence
  BY DEF LifecycleInv, DbInv, DbTypes, MessageRows, JournalPart
<1>2. J \subseteq journal
  BY DEF MessagesOf
<1>3. IsFiniteSet(J)
  BY <1>2, FS_Subset DEF LifecycleInv, DbInv, JournalPart
<1>4. Fresh = {m.sequence : m \in J}
  BY DEF Fresh
<1>5. IsFiniteSet(Fresh)
  <2> DEFINE f == [m \in J |-> m.sequence]
  <2> HIDE DEF J
  <2>1. f \in Surjection(J, Fresh)
    BY <1>4 DEF Surjection
  <2> QED BY <1>3, <2>1, FS_Surjection
<1>6. \A n \in Fresh : n \in Nat /\ n > caller.cursor /\ n <= op.sequence
  BY <1>1, <1>2, <1>4
<1>7. \A m \in MessagesOf(caller.attempt) : m.sequence > caller.cursor => m.sequence \in Fresh
  BY <1>4
<1> QED BY <1>5, <1>6, <1>7

LEMMA ReadPagePreserved ==
  ASSUME LifecycleInv, ReadPage
  PROVE  LifecycleInv'
<1> DEFINE k == caller.attempt
           page == Page(Fresh)
           result == Cardinality(page) < PageLimit /\ caller.row.final > caller.cursor
           last == CHOOSE n \in page : \A j \in page : j <= n
           cursor == IF result THEN caller.row.final ELSE IF page = {} THEN caller.cursor ELSE last
           phase == IF result THEN Outcome(caller.row.status) ELSE caller.phase
<1>1. DbInv' /\ RootInv' /\ caller \in Readers
  BY RowsKept DEF LifecycleInv, ReadPage, CallerInv
<1>2. /\ caller' = [caller EXCEPT !.row = NoRow, !.got = @ \cup page, !.ended = result,
                                  !.cursor = cursor, !.phase = phase]
      /\ caller.phase \in {"stream", "drain"}
  BY DEF ReadPage, Page, Fresh
<1>3. /\ UNCHANGED <<op, attempt, journal, receipt>>
      /\ k \in Attempts /\ op.sequence \in Nat /\ attempt[k].final \in Nat
  BY <1>1 DEF ReadPage, dbVars, Readers, LifecycleInv, DbInv, DbTypes, OpRows, AttemptRows
<1>4. /\ caller.cursor \in Nat /\ caller.row.final \in Nat /\ caller.got \in SUBSET Nat
  BY <1>1 DEF Readers, SeenRows
<1>5. page \in SUBSET Nat /\ page \subseteq Fresh /\ \A n \in page : n > caller.cursor /\ n <= op.sequence
  BY FreshFacts DEF Page
<1>6. page # {} => last \in page /\ \A j \in page : j <= last
  <2>1. page # {} => \E x \in page : \A y \in page : y <= x
    BY <1>3, <1>5, GreatestNat
  <2> HIDE DEF page
  <2> QED BY <2>1
<1>7. /\ \A n \in page, j \in Fresh : j < n => j \in page
      /\ result => page = Fresh
  BY FreshFacts, PageFacts
<1>8. result => /\ attempt[k].status \in Terminal /\ caller.row.final = attempt[k].final
                /\ attempt[k].final <= op.sequence
  <2>1. result => caller.row.final > 0
    BY <1>4
  <2> HIDE DEF result
  <2> QED BY <1>3, <2>1 DEF LifecycleInv, CallerInv, ReaderPart, DbInv, JournalPart
<1> HIDE DEF last, page, result
<1>9. cursor \in Nat /\ cursor <= op.sequence /\ caller.cursor <= cursor
  <2>1. CASE result
    <3>1. caller.row.final > caller.cursor
      BY <2>1 DEF result
    <3> QED BY <1>4, <1>8, <2>1, <3>1
  <2>2. CASE ~result /\ page = {}
    <3>1. caller.cursor <= op.sequence
      BY DEF LifecycleInv, CallerInv, ReaderPart
    <3> QED BY <1>4, <2>2, <3>1
  <2>3. CASE ~result /\ page # {}
    <3>1. last \in Nat /\ last > caller.cursor /\ last <= op.sequence
      BY <1>5, <1>6, <2>3
    <3>2. cursor = last
      BY <2>3
    <3> QED BY <1>4, <3>1, <3>2
  <2> QED BY <2>1, <2>2, <2>3
<1>10. ASSUME NEW m \in MessagesOf(k), result \/ m.sequence <= cursor
       PROVE  m.sequence \in caller.got \cup page
  <2>0. m.sequence \in Nat
    BY DEF MessagesOf, LifecycleInv, DbInv, DbTypes, MessageRows
  <2>1. CASE m.sequence <= caller.cursor
    BY <2>1 DEF LifecycleInv, CallerInv, ReaderPart, StreamComplete
  <2>2. CASE ~(m.sequence <= caller.cursor)
    <3>1. m.sequence \in Fresh
      BY <1>4, <2>0, <2>2, FreshFacts
    <3>2. CASE result
      BY <1>7, <3>1, <3>2
    <3>3. CASE ~result
      <4>1. page # {} /\ m.sequence <= last
        BY <1>10, <2>2, <3>3
      <4>2. last \in Nat /\ last \in page
        BY <1>5, <1>6, <4>1
      <4>3. m.sequence = last \/ m.sequence < last
        BY <2>0, <4>1, <4>2
      <4> QED BY <1>7, <3>1, <4>2, <4>3
    <3> QED BY <3>2, <3>3
  <2> QED BY <2>1, <2>2
<1>11. phase \in Watching \cup {"returned", "raised", "cancelled"}
       /\ (phase = "drain" => caller.phase = "drain" /\ ~result)
       /\ (phase = "cancelled" => caller.phase = "drain" /\ result)
  BY <1>2 DEF Outcome, Watching
<1> HIDE DEF cursor, phase
<1>12. result \in BOOLEAN
  BY DEF result
<1>13. /\ caller' \in Readers /\ caller'.phase = phase /\ caller'.attempt = k
       /\ caller'.cursor = cursor /\ caller'.got = caller.got \cup page
       /\ caller'.ended = result /\ caller'.row.final = 0
  BY <1>1, <1>2, <1>4, <1>5, <1>9, <1>11, <1>12 DEF Readers, SeenRows, NoRow, AttemptStatus
<1>14. StreamComplete'
  BY <1>3, <1>10, <1>13 DEF StreamComplete, MessagesOf
<1>15. ReaderPart'
  BY <1>3, <1>8, <1>9, <1>13, <1>14 DEF ReaderPart
<1>16. DrainPart'
  BY <1>3, <1>11, <1>13 DEF LifecycleInv, CallerInv, DrainPart
<1>17. CancelledCallerSettled'
  BY <1>3, <1>8, <1>11, <1>13, DrainedIsStopped DEF CancelledCallerSettled
<1> QED BY <1>1, <1>13, <1>15, <1>16, <1>17 DEF LifecycleInv, CallerInv

-------------------------------------------------------------------------------
(* The end of the current attempt.                                          *)

LEMMA CurrentFacts ==
  ASSUME DbInv
  PROVE  /\ op \in OpRows /\ op.generation \in Attempts /\ op.sequence \in Nat /\ op.revision \in Nat
         /\ Current \in AttemptRows /\ Current = attempt[op.generation]
         /\ op.status \notin Terminal => Current.status \in {"prepared", "queued", "running"}
         /\ op.status \in Terminal <=> Current.status \in Terminal
         /\ op.status \in {"prepared", "queued"} <=> Current.status \in {"prepared", "queued"}
         /\ StopAccepted => op.status \in {"stopping", "stopped"}
<1>1. /\ op \in OpRows /\ op.generation \in Attempts /\ op.sequence \in Nat /\ op.revision \in Nat
      /\ op.status \in OpStatus
      /\ Current \in AttemptRows /\ Current = attempt[op.generation]
  BY DEF DbInv, DbTypes, OpRows, Current
<1>2. op.status \in {"prepared", "queued"} \/ op.status \in Busy \/ op.status \in Terminal
  BY <1>1 DEF OpStatus, Busy
<1>3. /\ op.status \in {"prepared", "queued"} => Current.status = op.status
      /\ op.status \in Busy <=> Current.status = "running"
      /\ op.status \in Terminal => Current.status \in Terminal
  BY DEF DbInv, OpPart
<1>4. StopAccepted => op.status \in {"stopping", "stopped"}
  BY DEF DbInv, StopHolds, StopAccepted
<1>5. op.status \notin Terminal => Current.status \in {"prepared", "queued", "running"}
  BY <1>2, <1>3
<1>6. op.status \in Terminal <=> Current.status \in Terminal
  BY <1>2, <1>3 DEF Terminal
<1>7. op.status \in {"prepared", "queued"} <=> Current.status \in {"prepared", "queued"}
  BY <1>2, <1>3 DEF Terminal
<1> QED BY <1>1, <1>4, <1>5, <1>6, <1>7

\* The current attempt ends as s, with the event n: what this leaves of the rows.
Ends(s, n) ==
  /\ s \in Terminal /\ op.status \notin Terminal /\ (op.status = "stopping" => s = "stopped")
  /\ n \in Nat /\ op.sequence < n
  /\ op' \in OpRows /\ op'.status = s /\ op'.generation = op.generation /\ op'.sequence = n
  /\ attempt' = [attempt EXCEPT ![op.generation] = [status |-> s, leased |-> FALSE, final |-> n]]
  /\ journal' = journal

LEMMA EndedAttempts ==
  ASSUME DbInv, NEW s, NEW n, Ends(s, n)
  PROVE  /\ attempt' \in [Attempts -> AttemptRows]
         /\ attempt'[op.generation].status = s /\ attempt'[op.generation].final = n
         /\ \A a \in Attempts : a # op.generation => attempt'[a] = attempt[a]
<1>1. [status |-> s, leased |-> FALSE, final |-> n] \in AttemptRows
  BY DEF Ends, AttemptRows, AttemptStatus
<1>2. attempt \in [Attempts -> AttemptRows] /\ op.generation \in Attempts
  BY CurrentFacts DEF DbInv, DbTypes
<1>3. attempt' \in [Attempts -> AttemptRows]
  BY <1>1, <1>2 DEF Ends
<1>4. attempt'[op.generation] = [status |-> s, leased |-> FALSE, final |-> n]
  BY <1>2 DEF Ends
<1> QED BY <1>2, <1>3, <1>4 DEF Ends

LEMMA EndedOp ==
  ASSUME DbInv, NEW s, NEW n, Ends(s, n)
  PROVE  OpPart' /\ JournalPart'
<1> DEFINE g == op.generation
<1>1. /\ attempt'[g].status = s /\ attempt'[g].final = n
      /\ \A a \in Attempts : a # g => attempt'[a] = attempt[a]
  BY EndedAttempts
<1>2. /\ s \in Terminal /\ n \in Nat /\ op.sequence < n /\ op'.status = s
      /\ op'.generation = g /\ op'.sequence = n /\ journal' = journal
  BY DEF Ends
<1>3. g \in Attempts /\ g \in Nat /\ Attempts \subseteq Nat /\ op.sequence \in Nat
  BY CurrentFacts, ConstantFacts
<1>4. \A a \in Attempts : /\ a < g => attempt[a].status \in Terminal
                          /\ a > g => attempt[a].status = "none"
  BY DEF DbInv, OpPart
<1>5. OpPart'
  <2>1. Current'.status = s
    BY <1>1, <1>2 DEF Current
  <2>2. \A a \in Attempts : /\ a < g => attempt'[a].status \in Terminal
                            /\ a > g => attempt'[a].status = "none"
    BY <1>1, <1>3, <1>4
  <2> QED BY <1>2, <2>1, <2>2 DEF OpPart, Busy, Terminal
<1>6. \A m \in journal : m.sequence \in Nat /\ 0 < m.sequence /\ m.sequence <= op.sequence
  BY DEF DbInv, DbTypes, MessageRows, JournalPart
<1>7. \A a \in Attempts : /\ attempt[a].final \in Nat /\ attempt[a].final <= op.sequence
                          /\ attempt[a].final > 0 <=> attempt[a].status \in Terminal
  BY DEF DbInv, DbTypes, AttemptRows, JournalPart
<1>8. ASSUME NEW a \in Attempts
      PROVE  attempt'[a].final <= n /\ (attempt'[a].final > 0 <=> attempt'[a].status \in Terminal)
  <2>1. CASE a = g
    BY <1>1, <1>2, <1>3, <2>1
  <2>2. CASE a # g
    BY <1>1, <1>2, <1>3, <1>7, <2>2
  <2> QED BY <2>1, <2>2
<1>9. ASSUME NEW m \in journal
      PROVE  /\ 0 < m.sequence /\ m.sequence <= n
             /\ attempt'[m.attempt].status \in Terminal => m.sequence < attempt'[m.attempt].final
  <2>0. m.attempt \in Attempts
    BY DEF DbInv, DbTypes, MessageRows
  <2>1. 0 < m.sequence /\ m.sequence <= n /\ m.sequence < n
    BY <1>2, <1>3, <1>6
  <2>2. CASE m.attempt = g
    BY <1>1, <2>1, <2>2
  <2>3. CASE m.attempt # g
    <3>1. attempt[m.attempt].status \in Terminal => m.sequence < attempt[m.attempt].final
      BY DEF DbInv, JournalPart
    <3> QED BY <1>1, <2>0, <2>1, <2>3, <3>1
  <2> QED BY <2>2, <2>3
<1>10. JournalPart'
  BY <1>2, <1>8, <1>9 DEF DbInv, JournalPart
<1> QED BY <1>5, <1>10

\* The calls of the ended attempt are closed, the others are not touched.
LEMMA EndedCalls ==
  ASSUME DbInv, NEW s, NEW n, Ends(s, n), call' \in [Attempts -> CallRows],
         \A a \in Attempts : a # op.generation => call'[a] = call[a],
         call'[op.generation].status # "running",
         call'[op.generation].status = "none" \/ call'[op.generation].terminal
  PROVE  CallPart'
<1> DEFINE g == op.generation
<1>1. /\ attempt'[g].status = s /\ s \in Terminal
      /\ \A a \in Attempts : a # g => attempt'[a] = attempt[a]
  BY EndedAttempts DEF Ends
<1>2. ASSUME NEW a \in Attempts
      PROVE  /\ attempt'[a].status \in Unclaimed => call'[a].status = "none"
             /\ attempt'[a].status \in Terminal =>
                  call'[a].status # "running" /\ ~(call'[a].status # "none" /\ ~call'[a].terminal)
  <2>1. CASE a = g
    BY <1>1, <2>1 DEF Terminal, Unclaimed, Unfinished, Ends
  <2>2. CASE a # g
    BY <1>1, <2>2 DEF DbInv, CallPart, Unfinished
  <2> QED BY <2>1, <2>2
<1> QED BY <1>2 DEF CallPart, Unfinished

LEMMA EndedReceipts ==
  ASSUME DbInv, NEW s, NEW n, Ends(s, n),
         \A c \in Commands : \/ receipt'[c].applied
                             \/ receipt'[c] = receipt[c] /\ receipt[c].attempt # op.generation
  PROVE  ReceiptPart'
<1> SUFFICES ASSUME NEW c \in Commands, NEW a \in Attempts, receipt'[c].attempt = a,
                    attempt'[a].status # "running"
             PROVE  receipt'[c].applied
  BY DEF ReceiptPart
<1>1. CASE receipt'[c] = receipt[c] /\ receipt[c].attempt # op.generation
  BY <1>1, EndedAttempts DEF DbInv, ReceiptPart
<1> QED BY <1>1

LEMMA EndedOnward ==
  ASSUME DbInv, NEW s, NEW n, Ends(s, n), StopAccepted => StopAccepted'
  PROVE  Onward
<1>1. op.status \notin Final
  BY DEF Ends, Terminal, Final
<1>2. Current.status \notin Terminal
  BY CurrentFacts DEF Ends
<1>3. \A a \in Attempts : attempt[a].status \in Terminal => attempt'[a] = attempt[a]
  BY <1>2, EndedAttempts DEF Current
<1>4. op.sequence <= op'.sequence
  BY CurrentFacts DEF Ends
<1> QED BY <1>1, <1>3, <1>4 DEF Onward, Ends

\* No attempt goes back, and the root of a closed attempt keeps what it knows.
LEMMA EndedClaims ==
  ASSUME DbInv, NEW s, NEW n, Ends(s, n)
  PROVE  \A a \in Attempts : attempt[a].status \notin Unclaimed => attempt'[a].status \notin Unclaimed
<1>1. s \notin Unclaimed
  BY DEF Ends, Terminal, Unclaimed
<1> QED BY <1>1, EndedAttempts

-------------------------------------------------------------------------------
(* _finish, with and without the calls.                                     *)

LEMMA FinishEnds ==
  ASSUME DbInv, NEW s \in Terminal, NEW extra \in {0, 1}, op.status \notin Terminal,
         op.status = "stopping" => s = "stopped", FinishAs(s, extra), journal' = journal
  PROVE  /\ Ends(s, op.sequence + extra + 1)
         /\ receipt' \in [Commands -> ReceiptRows]
         /\ ReceiptPart' /\ StopHolds' /\ (StopAccepted => StopAccepted')
<1> DEFINE n == op.sequence + extra + 1
<1>1. op \in OpRows /\ op.sequence \in Nat /\ op.revision \in Nat /\ op.generation \in Attempts
  BY CurrentFacts
<1>2. n \in Nat /\ op.sequence < n /\ s \in OpStatus
  BY <1>1 DEF OpStatus
<1>4. /\ attempt' = [attempt EXCEPT ![op.generation] = [status |-> s, leased |-> FALSE, final |-> n]]
      /\ op' = [op EXCEPT !.status = s, !.revision = op.revision + 1, !.sequence = n]
  BY DEF FinishAs
<1> HIDE DEF n
<1>3. op' \in OpRows /\ op'.status = s /\ op'.generation = op.generation /\ op'.sequence = n
  <2> DEFINE r == op.revision + 1
  <2>1. op' = [op EXCEPT !.status = s, !.revision = r, !.sequence = n] /\ r \in Nat
    BY <1>1, <1>4
  <2> HIDE DEF r
  <2> QED BY <1>1, <1>2, <2>1 DEF OpRows
<1>5. Ends(s, n)
  BY <1>2, <1>3, <1>4 DEF Ends
<1>6. ASSUME NEW c \in Commands
      PROVE  /\ receipt'[c] \in ReceiptRows /\ receipt'[c].action = receipt[c].action
             /\ \/ receipt'[c].applied
                \/ receipt'[c] = receipt[c] /\ receipt[c].attempt # op.generation
  <2>1. receipt[c] \in ReceiptRows
    BY DEF DbInv, DbTypes
  <2>2. receipt'[c] = IF receipt[c].attempt = op.generation
                        THEN [receipt[c] EXCEPT !.applied = TRUE] ELSE receipt[c]
    BY DEF FinishAs
  <2> QED BY <2>1, <2>2 DEF ReceiptRows
<1>7. receipt' \in [Commands -> ReceiptRows]
  BY <1>6 DEF FinishAs
<1>8. ReceiptPart'
  BY <1>5, <1>6, EndedReceipts
<1>9. StopAccepted' <=> StopAccepted
  BY <1>6 DEF StopAccepted
<1>10. StopHolds'
  <2>1. StopAccepted => op.status = "stopping"
    BY CurrentFacts DEF Terminal
  <2> QED BY <1>3, <1>9, <2>1 DEF StopHolds, StopAccepted
<1> QED BY <1>5, <1>7, <1>8, <1>9, <1>10 DEF n

\* The calls of the attempt that ends, closed now or before.
ClosesCalls ==
  /\ call' \in [Attempts -> CallRows]
  /\ \A a \in Attempts : a # op.generation => call'[a] = call[a]
  /\ call'[op.generation].status # "running"
  /\ call'[op.generation].status = "none" \/ call'[op.generation].terminal

LEMMA ClosedCalls ==
  ASSUME DbInv, CloseCalls(op.generation)
  PROVE  /\ ClosesCalls
         /\ \A a \in Attempts : /\ call[a].status # "none" => call'[a].status # "none"
                                /\ call[a].status \notin {"none", "running"} =>
                                     call'[a].status \notin {"none", "running"}
                                /\ call[a].terminal => call'[a].terminal
<1> DEFINE g == op.generation
           k == [status |-> IF call[g].status = "running" THEN "cancelled" ELSE call[g].status,
                 terminal |-> call[g].terminal \/ call[g].status # "none"]
<1>1. g \in Attempts /\ call \in [Attempts -> CallRows] /\ call[g] \in CallRows
  BY CurrentFacts DEF DbInv, DbTypes
<1>2. k \in CallRows /\ k.status # "running" /\ ~(k.status # "none" /\ ~k.terminal)
      /\ (call[g].status # "none" => k.status # "none")
      /\ (call[g].status \notin {"none", "running"} => k.status \notin {"none", "running"})
      /\ (call[g].terminal => k.terminal)
  BY <1>1 DEF CallRows
<1>3. call' = [call EXCEPT ![g] = k]
  BY DEF CloseCalls
<1> HIDE DEF k
<1>4. call' \in [Attempts -> CallRows] /\ call'[g] = k /\ \A a \in Attempts : a # g => call'[a] = call[a]
  BY <1>1, <1>2, <1>3
<1>5. ClosesCalls
  BY <1>2, <1>4 DEF ClosesCalls
<1> QED BY <1>2, <1>4, <1>5

LEMMA FinishedDb ==
  ASSUME DbInv, NEW s \in Terminal, NEW extra \in {0, 1}, op.status \notin Terminal,
         op.status = "stopping" => s = "stopped", FinishAs(s, extra), journal' = journal, ClosesCalls
  PROVE  /\ DbInv' /\ Onward
         /\ \A a \in Attempts :
              attempt[a].status \notin Unclaimed => attempt'[a].status \notin Unclaimed
<1>1. /\ Ends(s, op.sequence + extra + 1)
      /\ receipt' \in [Commands -> ReceiptRows]
      /\ ReceiptPart' /\ StopHolds' /\ (StopAccepted => StopAccepted')
  BY FinishEnds
<1> DEFINE n == op.sequence + extra + 1
<1> HIDE DEF n
<1>2. Ends(s, n)
  BY <1>1 DEF n
<1>3. OpPart' /\ JournalPart'
  BY <1>2, EndedOp
<1>4. CallPart'
  BY <1>2, EndedCalls DEF ClosesCalls
<1>5. DbTypes'
  BY <1>1, <1>2, EndedAttempts DEF DbTypes, DbInv, ClosesCalls, Ends
<1>6. Onward
  BY <1>1, <1>2, EndedOnward
<1> QED BY <1>1, <1>2, <1>3, <1>4, <1>5, <1>6, EndedClaims DEF DbInv

LEMMA RequestedFacts ==
  ASSUME DbInv, op.status \in Busy, NEW s \in Terminal
  PROVE  /\ Requested(s) \in Terminal /\ (op.status = "stopping" => Requested(s) = "stopped")
         /\ Requested(s) = "completed" => s = "completed"
  BY DEF Requested, Busy, Terminal

\* finish or recover_expired on the current attempt, which runs.
LEMMA CloseAndFinishDb ==
  ASSUME DbInv, NEW s \in Terminal, op.status \in Busy,
         op.status = "stopping" => s = "stopped", CloseAndFinish(s), journal' = journal
  PROVE  /\ DbInv' /\ Onward
         /\ \A a \in Attempts :
              /\ attempt[a].status \notin Unclaimed => attempt'[a].status \notin Unclaimed
              /\ call[a].status # "none" => call'[a].status # "none"
              /\ call[a].status \notin {"none", "running"} =>
                   call'[a].status \notin {"none", "running"}
              /\ call[a].terminal => call'[a].terminal
<1> DEFINE extra == IF Unfinished(op.generation) THEN 1 ELSE 0
<1>1. extra \in {0, 1} /\ FinishAs(s, extra) /\ CloseCalls(op.generation)
  BY DEF CloseAndFinish
<1>2. op.status \notin Terminal
  BY DEF Busy, Terminal
<1> HIDE DEF extra
<1>3. /\ ClosesCalls
      /\ \A a \in Attempts : /\ call[a].status # "none" => call'[a].status # "none"
                             /\ call[a].status \notin {"none", "running"} =>
                                  call'[a].status \notin {"none", "running"}
                             /\ call[a].terminal => call'[a].terminal
  BY <1>1, ClosedCalls
<1>4. /\ DbInv' /\ Onward
      /\ \A a \in Attempts :
           attempt[a].status \notin Unclaimed => attempt'[a].status \notin Unclaimed
  BY <1>1, <1>2, <1>3, FinishedDb
<1> QED BY <1>3, <1>4

\* An attempt ends and its calls need no closing: none was made, or all ended.
LEMMA FinishOnlyDb ==
  ASSUME DbInv, NEW s \in Terminal, op.status \notin Terminal,
         op.status = "stopping" => s = "stopped", FinishOnly(s), journal' = journal,
         \/ op.status = "queued"
         \/ call[op.generation].status \notin {"none", "running"} /\ call[op.generation].terminal
  PROVE  /\ DbInv' /\ Onward /\ call' = call
         /\ \A a \in Attempts :
              attempt[a].status \notin Unclaimed => attempt'[a].status \notin Unclaimed
<1>1. call' = call /\ FinishAs(s, 0)
  BY DEF FinishOnly
<1>2. op.status = "queued" => call[op.generation].status = "none"
  BY CurrentFacts DEF DbInv, OpPart, CallPart, Unclaimed, Current
<1>3. ClosesCalls
  BY <1>1, <1>2, CurrentFacts DEF ClosesCalls, DbInv, DbTypes
<1> QED BY <1>1, <1>3, FinishedDb

LEMMA FinishPreserved ==
  ASSUME LifecycleInv, Finish
  PROVE  LifecycleInv'
<1>1. root' = NoRoot /\ journal' = journal /\ caller' = caller /\ root.step = "over" /\ Invoking
  BY DEF Finish, Invoking
<1>2. RootInv'
  BY <1>1, NoRootInv
<1>3. DbInv /\ DbTypes /\ CallerInv
  BY DEF LifecycleInv, DbInv
<1>4. DbInv' /\ Onward
  <2>1. CASE UNCHANGED <<op, attempt, call, receipt>>
    BY <1>1, <1>3, <2>1, DbKept DEF dbVars
  <2>2. CASE ~(root.lost \/ ~Owned)
    <3> DEFINE e == IF op.expired THEN "failed" ELSE IF root.interrupted THEN "interrupted"
                    ELSE IF root.end = "ok" THEN "completed" ELSE "failed"
               s == Requested(e)
    <3>1. Owned /\ op.status \in Busy
      BY <1>3, <2>2 DEF Owned, DbInv, OpPart
    <3>2. e \in Terminal /\ (e = "completed" => root.end = "ok")
      BY DEF Terminal
    <3>3. IF s = "completed" THEN FinishOnly(s) ELSE CloseAndFinish(s)
      BY <2>2 DEF Finish
    <3> HIDE DEF e
    <3>4. s \in Terminal /\ (op.status = "stopping" => s = "stopped") /\ (s = "completed" => e = "completed")
      BY <1>3, <3>1, <3>2, RequestedFacts
    <3>5. op.status \notin Terminal
      BY <3>1 DEF Busy, Terminal
    <3> HIDE DEF s
    <3>6. CASE s = "completed"
      <4>1. root.attempt = op.generation /\ root.end = "ok"
        BY <3>1, <3>2, <3>4, <3>6 DEF Owned
      <4>2. call[op.generation].status \notin {"none", "running"} /\ call[op.generation].terminal
        BY <1>1, <4>1 DEF LifecycleInv, RootInv, RootPart
      <4>3. FinishOnly(s)
        BY <3>3, <3>6
      <4> QED BY <1>1, <1>3, <3>4, <3>5, <4>2, <4>3, FinishOnlyDb
    <3>7. CASE s # "completed"
      BY <1>1, <1>3, <3>1, <3>3, <3>4, <3>7, CloseAndFinishDb
    <3> QED BY <3>6, <3>7
  <2> QED BY <2>1, <2>2 DEF Finish
<1>5. DbTypes'
  BY <1>4 DEF DbInv
<1>6. CallerInv'
  BY <1>1, <1>3, <1>4, <1>5, CallerKept
<1> QED BY <1>2, <1>4, <1>6 DEF LifecycleInv

LEMMA RecoverPreserved ==
  ASSUME LifecycleInv, Recover
  PROVE  LifecycleInv'
<1>1. DbInv /\ DbTypes /\ RootInv /\ CallerInv /\ op.status \in Busy
  BY DEF LifecycleInv, DbInv, Recover, OpPart
<1>2. journal' = journal /\ caller' = caller /\ root' = root
  BY DEF Recover
<1> DEFINE s == Requested("interrupted")
<1>3. CloseAndFinish(s)
  BY DEF Recover
<1>4. s \in Terminal /\ (op.status = "stopping" => s = "stopped")
  <2>1. "interrupted" \in Terminal
    BY DEF Terminal
  <2> QED BY <1>1, <2>1, RequestedFacts
<1> HIDE DEF s
<1>5. /\ DbInv' /\ Onward
      /\ \A a \in Attempts :
              /\ attempt[a].status \notin Unclaimed => attempt'[a].status \notin Unclaimed
              /\ call[a].status # "none" => call'[a].status # "none"
              /\ call[a].status \notin {"none", "running"} =>
                   call'[a].status \notin {"none", "running"}
              /\ call[a].terminal => call'[a].terminal
  BY <1>1, <1>2, <1>3, <1>4, CloseAndFinishDb
<1>6. RootInv'
  BY <1>1, <1>2, <1>5, RootKept
<1>7. DbTypes'
  BY <1>5 DEF DbInv
<1>8. CallerInv'
  BY <1>1, <1>2, <1>5, <1>7, CallerKept
<1> QED BY <1>5, <1>6, <1>8 DEF LifecycleInv

LEMMA ExpireQueuedPreserved ==
  ASSUME LifecycleInv, ExpireQueued
  PROVE  LifecycleInv'
<1>1. DbInv /\ DbTypes /\ RootInv /\ CallerInv
  BY DEF LifecycleInv, DbInv
<1>2. journal' = journal /\ caller' = caller /\ root' = root /\ op.status = "queued" /\ FinishOnly("failed")
  BY DEF ExpireQueued
<1>3. "failed" \in Terminal /\ op.status \notin Terminal /\ op.status # "stopping"
  BY <1>2 DEF Terminal
<1>4. /\ DbInv' /\ Onward /\ call' = call
      /\ \A a \in Attempts :
           attempt[a].status \notin Unclaimed => attempt'[a].status \notin Unclaimed
  BY <1>1, <1>2, <1>3, FinishOnlyDb
<1>5. RootInv'
  BY <1>1, <1>2, <1>4, RootKept
<1>6. DbTypes'
  BY <1>4 DEF DbInv
<1>7. CallerInv'
  BY <1>1, <1>2, <1>4, <1>6, CallerKept
<1> QED BY <1>4, <1>5, <1>7 DEF LifecycleInv

-------------------------------------------------------------------------------
(* claim                                                                    *)

LEMMA LeaseDb ==
  ASSUME DbInv, op.status = "queued", Lease, journal' = journal
  PROVE  DbInv' /\ Onward /\ attempt'[op.generation].status = "running"
<1> DEFINE g == op.generation
           r == [attempt[g] EXCEPT !.status = "running", !.leased = TRUE]
           v == op.revision + 1
<1>1. g \in Attempts /\ g \in Nat /\ Attempts \subseteq Nat /\ op \in OpRows /\ v \in Nat
      /\ attempt \in [Attempts -> AttemptRows] /\ attempt[g] \in AttemptRows /\ op.sequence \in Nat
  <2>1. g \in Attempts /\ op \in OpRows /\ op.revision \in Nat /\ op.sequence \in Nat
    BY CurrentFacts
  <2>2. attempt \in [Attempts -> AttemptRows] /\ Attempts \subseteq Nat
    BY ConstantFacts DEF DbInv, DbTypes
  <2>3. attempt[g] \in AttemptRows
    BY <2>1, <2>2
  <2>4. v \in Nat
    BY <2>1
  <2> HIDE DEF v
  <2> QED BY <2>1, <2>2, <2>3, <2>4
<1>2. /\ attempt[g].status = "queued" /\ ~StopAccepted
  BY CurrentFacts DEF DbInv, OpPart, Current
<1>3. r \in AttemptRows /\ r.status = "running" /\ r.final = attempt[g].final
  BY <1>1 DEF AttemptRows, AttemptStatus
<1>4. /\ op' = [op EXCEPT !.status = "running", !.revision = v]
      /\ attempt' = [attempt EXCEPT ![g] = r] /\ call' = call /\ receipt' = receipt
  BY <1>1 DEF Lease
<1> HIDE DEF r, v
<1>5. op' \in OpRows /\ op'.status = "running" /\ op'.generation = g /\ op'.sequence = op.sequence
  BY <1>1, <1>4 DEF OpRows, OpStatus
<1>6. /\ attempt' \in [Attempts -> AttemptRows] /\ attempt'[g].status = "running"
      /\ attempt'[g].final = attempt[g].final
      /\ \A a \in Attempts : a # g => attempt'[a] = attempt[a]
  BY <1>1, <1>3, <1>4
<1>7. OpPart'
  <2>1. Current'.status = "running"
    BY <1>5, <1>6 DEF Current
  <2>2. \A a \in Attempts : /\ a < g => attempt'[a].status \in Terminal
                            /\ a > g => attempt'[a].status = "none"
    BY <1>1, <1>6 DEF DbInv, OpPart
  <2> QED BY <1>5, <2>1, <2>2 DEF OpPart, Busy, Terminal
<1>8. CallPart'
  <2>1. ASSUME NEW a \in Attempts
        PROVE  /\ attempt'[a].status \in Unclaimed => call[a].status = "none"
               /\ attempt'[a].status \in Terminal => call[a].status # "running" /\ ~Unfinished(a)
    <3>1. CASE a = g
      BY <1>6, <3>1 DEF Unclaimed, Terminal
    <3>2. CASE a # g
      BY <1>6, <3>2 DEF DbInv, CallPart
    <3> QED BY <3>1, <3>2
  <2> QED BY <1>4, <2>1 DEF CallPart, Unfinished
<1>9. ReceiptPart'
  <2> SUFFICES ASSUME NEW c \in Commands, NEW a \in Attempts, receipt[c].attempt = a,
                      attempt'[a].status # "running"
               PROVE  receipt[c].applied
    BY <1>4 DEF ReceiptPart
  <2> QED BY <1>6 DEF DbInv, ReceiptPart
<1>10. JournalPart'
  <2>1. ASSUME NEW a \in Attempts
        PROVE  /\ attempt'[a].final = attempt[a].final
               /\ attempt'[a].status \in Terminal <=> attempt[a].status \in Terminal
    <3>1. CASE a = g
      BY <1>2, <1>6, <3>1 DEF Terminal
    <3>2. CASE a # g
      BY <1>6, <3>2
    <3> QED BY <3>1, <3>2
  <2>2. \A m \in journal : m.attempt \in Attempts
    BY DEF DbInv, DbTypes, MessageRows
  <2> QED BY <1>5, <2>1, <2>2 DEF DbInv, JournalPart
<1>11. StopHolds'
  BY <1>2, <1>4 DEF StopHolds, StopAccepted
<1>12. DbInv'
  BY <1>4, <1>5, <1>6, <1>7, <1>8, <1>9, <1>10, <1>11 DEF DbInv, DbTypes
<1>13. \A a \in Attempts : attempt[a].status \in Terminal => attempt'[a] = attempt[a]
  BY <1>2, <1>6 DEF Terminal
<1>14. Onward
  <2>1. op.status \notin Final /\ op.sequence <= op'.sequence
    BY <1>1, <1>5 DEF Final
  <2> QED BY <1>2, <1>13, <2>1 DEF Onward
<1> QED BY <1>6, <1>12, <1>14

LEMMA ClaimPreserved ==
  ASSUME LifecycleInv, Claim
  PROVE  LifecycleInv'
<1>1. DbInv /\ DbTypes /\ RootInv /\ CallerInv
  BY DEF LifecycleInv, DbInv
<1>2. root.phase = "claiming" /\ caller' = caller
  BY DEF Claim
<1>3. CASE root' = NoRoot /\ UNCHANGED dbVars
  <2>1. DbInv' /\ Onward /\ DbTypes'
    BY <1>1, <1>3, DbKept DEF DbInv
  <2>2. CallerInv'
    BY <1>1, <1>2, <2>1, CallerKept
  <2> QED BY <1>3, <2>1, <2>2, NoRootInv DEF LifecycleInv
<1>4. CASE op.status = "queued" /\ FinishOnly("failed") /\ root' = NoRoot /\ journal' = journal
  <2>1. "failed" \in Terminal /\ op.status \notin Terminal /\ op.status # "stopping"
    BY <1>4 DEF Terminal
  <2>2. DbInv' /\ Onward
    BY <1>1, <1>4, <2>1, FinishOnlyDb
  <2>3. CallerInv'
    BY <1>1, <1>2, <2>2, CallerKept DEF DbInv
  <2> QED BY <1>4, <2>2, <2>3, NoRootInv DEF LifecycleInv
<1>5. CASE /\ op.status = "queued" /\ Lease /\ journal' = journal
           /\ root' = [NoRoot EXCEPT !.phase = "watching", !.attempt = op.generation, !.step = "ready"]
  <2>1. DbInv' /\ Onward /\ attempt'[op.generation].status = "running"
    BY <1>1, <1>5, LeaseDb
  <2>2. op.generation \in Attempts
    BY <1>1, CurrentFacts
  <2>3. root' \in Roots /\ root'.attempt = op.generation /\ root'.step = "ready"
    BY <1>5, <2>2 DEF NoRoot, Roots
  <2>4. RootInv'
    BY <2>1, <2>3 DEF RootInv, RootPart, Unclaimed
  <2>5. CallerInv'
    BY <1>1, <1>2, <2>1, CallerKept DEF DbInv
  <2> QED BY <2>1, <2>4, <2>5 DEF LifecycleInv
<1> QED BY <1>3, <1>4, <1>5 DEF Claim

-------------------------------------------------------------------------------
(* Steps that change neither the statuses nor the commands.                 *)

\* The inference keeps its status and its attempt, and its sequence grows.
Steady ==
  /\ op' \in OpRows /\ op'.status = op.status /\ op'.generation = op.generation
  /\ op.sequence <= op'.sequence
  /\ UNCHANGED <<attempt, receipt>>

LEMMA SteadyDb ==
  ASSUME DbInv, Steady, call' \in [Attempts -> CallRows], CallPart', journal' = journal
  PROVE  DbInv' /\ Onward
<1>1. op.sequence \in Nat /\ op'.sequence \in Nat
  BY CurrentFacts DEF Steady, OpRows
<1>2. OpPart'
  BY DEF DbInv, OpPart, Steady, Current
<1>3. ReceiptPart' /\ StopHolds'
  BY DEF DbInv, ReceiptPart, StopHolds, Steady
<1>4. JournalPart'
  <2>1. \A m \in journal : m.sequence \in Nat
    BY DEF DbInv, DbTypes, MessageRows
  <2>2. \A a \in Attempts : attempt[a].final \in Nat
    BY DEF DbInv, DbTypes, AttemptRows
  <2>3. \A m \in journal : m.sequence <= op'.sequence
    BY <1>1, <2>1 DEF DbInv, JournalPart, Steady
  <2>4. \A a \in Attempts : attempt[a].final <= op'.sequence
    BY <1>1, <2>2 DEF DbInv, JournalPart, Steady
  <2> QED BY <2>3, <2>4 DEF DbInv, JournalPart, Steady
<1>5. DbTypes'
  BY DEF DbInv, DbTypes, Steady
<1>6. Onward
  BY DEF Onward, StopAccepted, Steady
<1> QED BY <1>2, <1>3, <1>4, <1>5, <1>6 DEF DbInv

LEMMA NextSequence ==
  ASSUME DbInv, op' = [op EXCEPT !.sequence = @ + 1], UNCHANGED <<attempt, receipt>>
  PROVE  Steady /\ op'.sequence = op.sequence + 1
<1> DEFINE n == op.sequence + 1
<1>1. op \in OpRows /\ n \in Nat /\ op.sequence <= n
  BY CurrentFacts
<1>2. op' = [op EXCEPT !.sequence = n]
  OBVIOUS
<1> HIDE DEF n
<1>3. op' \in OpRows /\ op'.status = op.status /\ op'.generation = op.generation /\ op'.sequence = n
  BY <1>1, <1>2 DEF OpRows
<1> QED BY <1>1, <1>3 DEF Steady, n

LEMMA CallPartKept ==
  ASSUME DbInv, UNCHANGED <<attempt, call>>
  PROVE  CallPart' /\ call' \in [Attempts -> CallRows]
  BY DEF DbInv, DbTypes, CallPart, Unfinished

-------------------------------------------------------------------------------
(* The invocation.                                                          *)

LEMMA OwnedFacts ==
  ASSUME LifecycleInv, Owned
  PROVE  /\ root.attempt = op.generation /\ root.attempt \in Attempts
         /\ attempt[root.attempt].status = "running"
  BY DEF LifecycleInv, RootInv, Roots, Owned, Current

\* A row of calls changes for an attempt that runs.
LEMMA RunningCall ==
  ASSUME DbInv, NEW g \in Attempts, attempt[g].status = "running", NEW k \in CallRows,
         call' = [call EXCEPT ![g] = k], attempt' = attempt
  PROVE  CallPart' /\ call' \in [Attempts -> CallRows] /\ call'[g] = k
<1>1. call' \in [Attempts -> CallRows] /\ call'[g] = k /\ \A a \in Attempts : a # g => call'[a] = call[a]
  BY DEF DbInv, DbTypes
<1>2. ASSUME NEW a \in Attempts
      PROVE  /\ attempt[a].status \in Unclaimed => call'[a].status = "none"
             /\ attempt[a].status \in Terminal =>
                  call'[a].status # "running" /\ ~(call'[a].status # "none" /\ ~call'[a].terminal)
  <2>1. CASE a = g
    BY <2>1 DEF Unclaimed, Terminal
  <2>2. CASE a # g
    BY <1>1, <2>2 DEF DbInv, CallPart, Unfinished
  <2> QED BY <2>1, <2>2
<1> QED BY <1>1, <1>2 DEF CallPart, Unfinished

LEMMA SameOp ==
  ASSUME DbInv, UNCHANGED <<op, attempt, receipt>>
  PROVE  Steady
  BY CurrentFacts DEF Steady

LEMMA CallStartPreserved ==
  ASSUME LifecycleInv, CallStart
  PROVE  LifecycleInv'
<1>1. DbInv /\ DbTypes /\ RootInv /\ CallerInv /\ root \in Roots
  BY DEF LifecycleInv, DbInv, RootInv
<1>2. UNCHANGED <<op, attempt, receipt>> /\ journal' = journal /\ caller' = caller /\ Invoking
  BY DEF CallStart
<1>3. CASE /\ Owned /\ call' = [call EXCEPT ![root.attempt] = [status |-> "running", terminal |-> FALSE]]
           /\ root' = [root EXCEPT !.step = "calling"]
  <2> DEFINE k == [status |-> "running", terminal |-> FALSE]
  <2>1. k \in CallRows /\ k.status = "running"
    BY DEF CallRows
  <2>2. call' = [call EXCEPT ![root.attempt] = k]
    BY <1>3
  <2> HIDE DEF k
  <2>3. CallPart' /\ call' \in [Attempts -> CallRows] /\ call'[root.attempt] = k
    BY <1>1, <1>2, <1>3, <2>1, <2>2, OwnedFacts, RunningCall
  <2>4. DbInv' /\ Onward
    BY <1>1, <1>2, <2>3, SameOp, SteadyDb
  <2>5. root' \in Roots /\ root'.step = "calling" /\ root'.attempt = root.attempt
    BY <1>1, <1>3 DEF Roots
  <2>6. RootInv'
    BY <1>1, <1>2, <2>1, <2>3, <2>5 DEF RootInv, RootPart
  <2>7. CallerInv'
    BY <1>1, <1>2, <2>4, CallerKept DEF DbInv
  <2> QED BY <2>4, <2>6, <2>7 DEF LifecycleInv
<1>4. CASE root' = [root EXCEPT !.step = "over", !.end = "error"] /\ call' = call
  <2>1. DbInv' /\ Onward
    BY <1>1, <1>2, <1>4, DbKept DEF dbVars
  <2>2. root' \in Roots /\ root'.step = "over" /\ root'.end = "error" /\ root'.attempt = root.attempt
    BY <1>1, <1>4 DEF Roots
  <2>3. RootInv'
    BY <1>1, <1>2, <1>4, <2>2, RootMoves
  <2>4. CallerInv'
    BY <1>1, <1>2, <2>1, CallerKept DEF DbInv
  <2> QED BY <2>1, <2>3, <2>4 DEF LifecycleInv
<1> QED BY <1>3, <1>4 DEF CallStart

\* finalize_call is not fenced: the attempt may have ended and its call been closed.
LEMMA CallFinalPreserved ==
  ASSUME LifecycleInv, NEW s \in {"completed", "error", "cancelled"}, CallFinal(s)
  PROVE  LifecycleInv'
<1> DEFINE g == root.attempt
           k == [call[g] EXCEPT !.status = s]
           e == IF s = "completed" THEN "ok" ELSE "error"
<1>1. DbInv /\ DbTypes /\ RootInv /\ CallerInv /\ root \in Roots /\ g \in Attempts
  BY DEF LifecycleInv, DbInv, RootInv, Roots
<1>2. /\ UNCHANGED <<op, attempt, receipt>> /\ journal' = journal /\ caller' = caller /\ Invoking
      /\ root.step = "calling" /\ call' = [call EXCEPT ![g] = k]
      /\ root' = [root EXCEPT !.step = "answered", !.end = e]
  BY DEF CallFinal
<1>3. /\ attempt[g].status \notin Unclaimed /\ call[g].status # "none"
      /\ call \in [Attempts -> CallRows] /\ call[g] \in CallRows
  BY <1>1, <1>2 DEF RootInv, RootPart, DbTypes
<1>4. attempt[g].status \in Terminal => call[g].terminal
  BY <1>1, <1>3 DEF DbInv, CallPart, Unfinished
<1>5. /\ k \in CallRows /\ k.status = s /\ k.terminal = call[g].terminal
  BY <1>3 DEF CallRows
<1>6. e \in {"ok", "error"}
  OBVIOUS
<1> HIDE DEF k, e
<1>7. /\ call' \in [Attempts -> CallRows] /\ call'[g] = k
      /\ \A a \in Attempts : a # g => call'[a] = call[a]
  BY <1>1, <1>2, <1>3, <1>5
<1>8. CallPart'
  <2>1. ASSUME NEW a \in Attempts
        PROVE  /\ attempt[a].status \in Unclaimed => call'[a].status = "none"
               /\ attempt[a].status \in Terminal =>
                    call'[a].status # "running" /\ ~(call'[a].status # "none" /\ ~call'[a].terminal)
    <3>1. CASE a = g
      BY <1>3, <1>4, <1>5, <1>7, <3>1
    <3>2. CASE a # g
      BY <1>1, <1>7, <3>2 DEF DbInv, CallPart, Unfinished
    <3> QED BY <3>1, <3>2
  <2> QED BY <1>2, <2>1 DEF CallPart, Unfinished
<1>9. DbInv' /\ Onward
  BY <1>1, <1>2, <1>7, <1>8, SameOp, SteadyDb
<1>10. root' \in Roots /\ root'.step = "answered" /\ root'.attempt = g
  BY <1>1, <1>2, <1>6 DEF Roots
<1>11. RootInv'
  BY <1>2, <1>3, <1>5, <1>7, <1>10 DEF RootInv, RootPart
<1>12. CallerInv'
  BY <1>1, <1>2, <1>9, CallerKept DEF DbInv
<1> QED BY <1>9, <1>11, <1>12 DEF LifecycleInv

LEMMA CallResultPreserved ==
  ASSUME LifecycleInv, CallResult
  PROVE  LifecycleInv'
<1> DEFINE g == root.attempt
           k == [call[g] EXCEPT !.terminal = TRUE]
<1>1. DbInv /\ DbTypes /\ RootInv /\ CallerInv /\ root \in Roots /\ g \in Attempts
  BY DEF LifecycleInv, DbInv, RootInv, Roots
<1>2. UNCHANGED <<attempt, receipt>> /\ journal' = journal /\ caller' = caller /\ Invoking
      /\ root.step = "answered"
  BY DEF CallResult
<1>3. CASE /\ Owned /\ op' = [op EXCEPT !.sequence = @ + 1]
           /\ call' = [call EXCEPT ![g] = [@ EXCEPT !.terminal = TRUE]]
           /\ root' = [root EXCEPT !.step = "over"]
  <2>1. call[g] \in CallRows /\ call' = [call EXCEPT ![g] = k]
    BY <1>1, <1>3 DEF DbTypes
  <2>2. k \in CallRows /\ k.status = call[g].status /\ k.terminal
    BY <2>1 DEF CallRows
  <2> HIDE DEF k
  <2>3. CallPart' /\ call' \in [Attempts -> CallRows] /\ call'[g] = k
    BY <1>1, <1>2, <1>3, <2>1, <2>2, OwnedFacts, RunningCall
  <2>4. Steady
    BY <1>1, <1>2, <1>3, NextSequence
  <2>5. DbInv' /\ Onward
    BY <1>1, <1>2, <2>3, <2>4, SteadyDb
  <2>6. root' \in Roots /\ root'.step = "over" /\ root'.attempt = g
    BY <1>1, <1>3 DEF Roots
  <2>7. call[g].status \notin {"none", "running"} /\ attempt[g].status \notin Unclaimed
    BY <1>1, <1>2 DEF RootInv, RootPart
  <2>8. RootInv'
    BY <1>2, <2>2, <2>3, <2>6, <2>7 DEF RootInv, RootPart
  <2>9. CallerInv'
    BY <1>1, <1>2, <2>5, CallerKept DEF DbInv
  <2> QED BY <2>5, <2>8, <2>9 DEF LifecycleInv
<1>4. CASE root' = [root EXCEPT !.step = "over", !.end = "error"] /\ UNCHANGED <<op, call>>
  <2>1. DbInv' /\ Onward
    BY <1>1, <1>2, <1>4, DbKept DEF dbVars
  <2>2. root' \in Roots /\ root'.step = "over" /\ root'.end = "error" /\ root'.attempt = root.attempt
    BY <1>1, <1>4 DEF Roots
  <2>3. RootInv'
    BY <1>1, <1>2, <1>4, <2>2, RootMoves
  <2>4. CallerInv'
    BY <1>1, <1>2, <2>1, CallerKept DEF DbInv
  <2> QED BY <2>1, <2>3, <2>4 DEF LifecycleInv
<1> QED BY <1>3, <1>4 DEF CallResult

LEMMA MessagePreserved ==
  ASSUME LifecycleInv, Message
  PROVE  LifecycleInv'
<1> DEFINE g == root.attempt
           n == op.sequence + 1
           m == [attempt |-> g, sequence |-> n]
<1>1. DbInv /\ DbTypes /\ RootInv /\ CallerInv /\ root \in Roots /\ g \in Attempts
  BY DEF LifecycleInv, DbInv, RootInv, Roots
<1>2. UNCHANGED <<attempt, call, receipt>> /\ caller' = caller /\ Invoking
  BY DEF Message
<1>3. CASE /\ Owned /\ op' = [op EXCEPT !.sequence = @ + 1] /\ root' = root
           /\ journal' = journal \cup {[attempt |-> g, sequence |-> op'.sequence]}
  <2>1. Steady /\ op'.sequence = n
    BY <1>1, <1>2, <1>3, NextSequence
  <2>2. n \in Nat /\ op.sequence \in Nat /\ op.sequence < n /\ 0 < n
    BY <1>1, CurrentFacts
  <2>3. journal' = journal \cup {m}
    BY <1>3, <2>1
  <2>4. m \in MessageRows /\ m.attempt = g /\ m.sequence = n
    BY <1>1, <2>2 DEF MessageRows
  <2> HIDE DEF m, n
  <2>5. attempt[g].status \notin Terminal
    BY <1>3, OwnedFacts DEF Terminal
  <2>6. OpPart' /\ ReceiptPart' /\ StopHolds'
    BY <1>1, <2>1 DEF DbInv, OpPart, ReceiptPart, StopHolds, Steady, Current
  <2>7. JournalPart'
    <3>1. IsFiniteSet(journal')
      BY <1>1, <2>3, FS_AddElement DEF DbInv, JournalPart
    <3>2. ASSUME NEW x \in journal'
          PROVE  /\ 0 < x.sequence /\ x.sequence <= n
                 /\ attempt[x.attempt].status \in Terminal => x.sequence < attempt[x.attempt].final
      <4>1. CASE x \in journal
        <5>1. x.sequence \in Nat
          BY <1>1, <4>1 DEF DbTypes, MessageRows
        <5> QED BY <1>1, <2>2, <4>1, <5>1 DEF DbInv, JournalPart
      <4>2. CASE x = m
        BY <2>2, <2>4, <2>5, <4>2
      <4> QED BY <2>3, <4>1, <4>2
    <3>3. ASSUME NEW a \in Attempts PROVE attempt[a].final <= n
      <4>1. attempt[a].final \in Nat /\ attempt[a].final <= op.sequence
        BY <1>1 DEF DbInv, DbTypes, AttemptRows, JournalPart
      <4> QED BY <2>2, <4>1
    <3> QED BY <1>1, <1>2, <2>1, <3>1, <3>2, <3>3 DEF DbInv, JournalPart
  <2>8. CallPart' /\ call' \in [Attempts -> CallRows]
    BY <1>1, <1>2, CallPartKept
  <2>9. DbTypes'
    BY <1>1, <1>2, <2>1, <2>3, <2>4 DEF DbTypes, Steady
  <2>10. DbInv'
    BY <2>6, <2>7, <2>8, <2>9 DEF DbInv
  <2>11. Onward
    BY <1>2, <2>1, <2>2, <2>3, <2>4, <2>5 DEF Onward, StopAccepted, Steady
  <2>12. RootInv'
    BY <1>1, <1>2, <1>3, RootKept
  <2>13. CallerInv'
    BY <1>1, <1>2, <2>9, <2>11, CallerKept
  <2> QED BY <2>10, <2>12, <2>13 DEF LifecycleInv
<1>4. CASE Raise /\ UNCHANGED <<op, journal>>
  <2>1. DbInv' /\ Onward
    BY <1>1, <1>2, <1>4, DbKept DEF dbVars
  <2>2. /\ root' \in Roots /\ root'.step = root.step /\ root'.end = "error"
        /\ root'.attempt = root.attempt
    BY <1>1, <1>4 DEF Raise, Roots
  <2>3. RootInv'
    BY <1>1, <1>2, <1>4, <2>2, RootMoves
  <2>4. CallerInv'
    BY <1>1, <1>2, <2>1, CallerKept DEF DbInv
  <2> QED BY <2>1, <2>3, <2>4 DEF LifecycleInv
<1> QED BY <1>3, <1>4 DEF Message

LEMMA DeadlinePreserved ==
  ASSUME LifecycleInv, DeadlinePasses
  PROVE  LifecycleInv'
<1>1. DbInv /\ DbTypes /\ RootInv /\ CallerInv
  BY DEF LifecycleInv, DbInv
<1>2. /\ UNCHANGED <<attempt, call, receipt>> /\ journal' = journal /\ caller' = caller /\ root' = root
      /\ op' = [op EXCEPT !.expired = TRUE]
  BY DEF DeadlinePasses
<1>3. op \in OpRows /\ op.sequence \in Nat
  BY <1>1, CurrentFacts
<1>4. /\ op' \in OpRows /\ op'.status = op.status /\ op'.generation = op.generation
      /\ op'.sequence = op.sequence
  BY <1>2, <1>3 DEF OpRows
<1>5. Steady
  BY <1>2, <1>3, <1>4 DEF Steady
<1>6. DbInv' /\ Onward
  BY <1>1, <1>2, <1>5, CallPartKept, SteadyDb
<1>7. RootInv'
  BY <1>1, <1>2, RootKept
<1>8. CallerInv'
  BY <1>1, <1>2, <1>6, CallerKept DEF DbInv
<1> QED BY <1>6, <1>7, <1>8 DEF LifecycleInv

LEMMA LeaseExpiresPreserved ==
  ASSUME LifecycleInv, LeaseExpires
  PROVE  LifecycleInv'
<1> DEFINE g == op.generation
           r == [attempt[g] EXCEPT !.leased = FALSE]
<1>1. DbInv /\ DbTypes /\ RootInv /\ CallerInv
  BY DEF LifecycleInv, DbInv
<1>2. /\ UNCHANGED <<op, call, journal, receipt>> /\ caller' = caller /\ root' = root
      /\ attempt' = [attempt EXCEPT ![g] = r] /\ attempt[g].status = "running"
  BY DEF LeaseExpires, Current
<1>3. g \in Attempts /\ attempt \in [Attempts -> AttemptRows] /\ op.sequence \in Nat
  BY <1>1, CurrentFacts DEF DbTypes
<1>4. r \in AttemptRows /\ r.status = attempt[g].status /\ r.final = attempt[g].final
  BY <1>3 DEF AttemptRows
<1> HIDE DEF r
<1>5. /\ attempt' \in [Attempts -> AttemptRows]
      /\ \A a \in Attempts : attempt'[a].status = attempt[a].status /\ attempt'[a].final = attempt[a].final
  BY <1>2, <1>3, <1>4
<1>6. OpPart' /\ CallPart' /\ ReceiptPart' /\ StopHolds'
  BY <1>1, <1>2, <1>3, <1>5 DEF DbInv, OpPart, CallPart, ReceiptPart, StopHolds, Current, Unfinished
<1>7. JournalPart'
  <2>1. \A m \in journal : m.attempt \in Attempts
    BY <1>1 DEF DbTypes, MessageRows
  <2> QED BY <1>1, <1>2, <1>5, <2>1 DEF DbInv, JournalPart
<1>8. DbTypes'
  BY <1>1, <1>2, <1>5 DEF DbTypes
<1>9. Onward
  <2>1. \A a \in Attempts : attempt[a].status \in Terminal => attempt'[a] = attempt[a]
    BY <1>2, <1>3 DEF Terminal
  <2> QED BY <1>2, <1>3, <2>1 DEF Onward, StopAccepted
<1>10. RootInv'
  BY <1>1, <1>2, <1>5, RootKept
<1>11. CallerInv'
  BY <1>1, <1>2, <1>8, <1>9, CallerKept
<1> QED BY <1>6, <1>7, <1>8, <1>10, <1>11 DEF LifecycleInv, DbInv

-------------------------------------------------------------------------------
(* command                                                                  *)

EffectStart ==
  /\ op.status = "prepared"
  /\ op' = [op EXCEPT !.status = "queued", !.revision = @ + 1]
  /\ attempt' = [attempt EXCEPT ![1].status = "queued"]

EffectResume ==
  /\ op.status \in {"paused", "interrupted"} /\ op.generation < MaxAttempts
  /\ op' = [op EXCEPT !.status = "queued", !.generation = @ + 1, !.revision = @ + 1]
  /\ attempt' = [attempt EXCEPT ![op.generation + 1] = NewAttempt("queued")]

EffectAsk(act) ==
  /\ op.status \in Busy /\ (act = "pause" => op.status # "stopping")
  /\ op' = [op EXCEPT !.status = IF act = "pause" THEN "pausing" ELSE "stopping", !.revision = @ + 1]
  /\ UNCHANGED attempt

EffectEnd(act) ==
  /\ op.status \in {"prepared", "queued"}
  /\ LET s == IF act = "pause" THEN "paused" ELSE "stopped"
     IN  /\ op' = [op EXCEPT !.status = s, !.revision = @ + 2, !.sequence = @ + 1]
         /\ attempt' = [attempt EXCEPT ![op.generation] =
                          [status |-> s, leased |-> FALSE, final |-> op.sequence + 1]]

EffectStopped ==
  /\ op.status \in Terminal \ Final
  /\ op' = [op EXCEPT !.status = "stopped", !.revision = @ + 1] /\ UNCHANGED attempt

EffectTouch ==
  /\ op.status \in Terminal \ Final
  /\ op' = [op EXCEPT !.revision = @ + 1] /\ UNCHANGED attempt

\* Each effect with what the acceptance of its command says of the inference.
LEMMA EffectCases ==
  ASSUME DbInv, NEW act \in Actions, Accepts(act), Effect(act)
  PROVE  \/ act = "start" /\ EffectStart
         \/ act = "resume" /\ EffectResume
         \/ act \in {"pause", "stop"} /\ EffectAsk(act)
         \/ act \in {"pause", "stop"} /\ EffectEnd(act)
         \/ act = "stop" /\ EffectStopped
         \/ act = "pause" /\ EffectTouch
         \/ act = "replay" /\ UNCHANGED <<op, attempt>>
<1>1. /\ act = "start" => op.status = "prepared"
      /\ act = "resume" => op.status \in {"paused", "interrupted"}
      /\ act = "pause" => op.status \notin Final /\ op.status # "stopping"
      /\ act = "stop" => op.status \notin Final
  BY DEF Accepts, Final
<1>2. /\ Current.status = "running" => op.status \in Busy
      /\ Current.status \in {"prepared", "queued"} => op.status \in {"prepared", "queued"}
      /\ Current.status \in Terminal => op.status \in Terminal
  BY CurrentFacts DEF DbInv, OpPart
<1> QED BY <1>1, <1>2 DEF Effect, EffectStart, EffectResume, EffectAsk, EffectEnd, EffectStopped, EffectTouch

\* A receipt is written for the attempt the command found.
Receives(c, act, r) ==
  /\ receipt[c].action = "none" /\ receipt' = [receipt EXCEPT ![c] = r]
  /\ r \in ReceiptRows /\ r.action = act /\ r.attempt = op.generation
  /\ r.applied \/ attempt'[op.generation].status = "running"

LEMMA ReceiptWritten ==
  ASSUME DbInv, NEW c \in Commands, NEW act \in Actions, NEW r, Receives(c, act, r),
         \A a \in Attempts : attempt[a].status = "running" => attempt'[a].status = "running"
  PROVE  /\ receipt' \in [Commands -> ReceiptRows] /\ ReceiptPart'
         /\ StopAccepted' <=> StopAccepted \/ act = "stop"
<1>1. /\ receipt' \in [Commands -> ReceiptRows] /\ receipt'[c] = r
      /\ \A d \in Commands : d # c => receipt'[d] = receipt[d]
  BY DEF Receives, DbInv, DbTypes
<1>2. ReceiptPart'
  <2> SUFFICES ASSUME NEW d \in Commands, NEW a \in Attempts, receipt'[d].attempt = a,
                      attempt'[a].status # "running"
               PROVE  receipt'[d].applied
    BY DEF ReceiptPart
  <2>1. CASE d = c
    BY <1>1, <2>1 DEF Receives
  <2>2. CASE d # c
    BY <1>1, <2>2 DEF DbInv, ReceiptPart
  <2> QED BY <2>1, <2>2
<1>3. receipt[c].action # "stop" /\ r.action = act
  BY DEF Receives
<1>4. StopAccepted' <=> StopAccepted \/ act = "stop"
  BY <1>1, <1>3 DEF StopAccepted
<1> QED BY <1>1, <1>2, <1>4

\* What the effect of a command leaves of the inference and its attempts.
Effected(act) ==
  /\ op' \in OpRows /\ attempt' \in [Attempts -> AttemptRows]
  /\ op.sequence <= op'.sequence
  /\ op.status \in Final => op'.status \in Final
  /\ op.status \in {"stopping", "stopped"} =>
       op'.status \in {"stopping", "stopped"} /\ op'.generation = op.generation
  /\ act = "stop" => op'.status \in {"stopping", "stopped"} /\ op'.generation = op.generation
  /\ op'.status \in {"pausing", "stopping"} => attempt'[op.generation].status = "running"
  /\ \A a \in Attempts :
       /\ attempt[a].status \in Terminal => attempt'[a] = attempt[a]
       /\ attempt[a].status = "running" => attempt'[a].status = "running"
       /\ attempt[a].status \notin Unclaimed => attempt'[a].status \notin Unclaimed
  /\ OpPart' /\ CallPart' /\ JournalPart'

\* Effects that leave the attempts alone.
LEMMA SameAttempts ==
  ASSUME DbInv, op' \in OpRows, op'.generation = op.generation, op'.sequence = op.sequence,
         UNCHANGED <<attempt, call, journal>>,
         \/ op'.status = op.status
         \/ op.status \in Busy /\ op'.status \in Busy
         \/ op.status \in Terminal /\ op'.status \in Terminal
  PROVE  OpPart' /\ CallPart' /\ JournalPart'
<1>1. Current' = Current
  BY DEF Current
<1>2. OpPart'
  BY <1>1 DEF DbInv, OpPart, Busy, Terminal
<1>3. CallPart' /\ JournalPart'
  BY DEF DbInv, CallPart, JournalPart, Unfinished
<1> QED BY <1>2, <1>3

LEMMA AskEffect ==
  ASSUME DbInv, NEW act \in {"pause", "stop"}, EffectAsk(act), UNCHANGED <<call, journal>>
  PROVE  Effected(act)
<1> DEFINE s == IF act = "pause" THEN "pausing" ELSE "stopping"
           v == op.revision + 1
<1>1. op \in OpRows /\ op.sequence \in Nat /\ v \in Nat /\ s \in Busy /\ s \in OpStatus
  BY CurrentFacts DEF Busy, OpStatus
<1>2. op' = [op EXCEPT !.status = s, !.revision = v] /\ attempt' = attempt /\ op.status \in Busy
  BY DEF EffectAsk
<1>3. (op.status \in {"stopping", "stopped"} => act = "stop") /\ (act = "stop" => s = "stopping")
  BY <1>2 DEF EffectAsk, Busy
<1> HIDE DEF s, v
<1>4. op' \in OpRows /\ op'.status = s /\ op'.generation = op.generation /\ op'.sequence = op.sequence
  BY <1>1, <1>2 DEF OpRows
<1>5. OpPart' /\ CallPart' /\ JournalPart'
  BY <1>1, <1>2, <1>4, SameAttempts
<1>6. attempt[op.generation].status = "running" /\ attempt \in [Attempts -> AttemptRows]
  BY <1>2 DEF DbInv, DbTypes, OpPart, Current
<1>7. op.status \notin Final
  BY <1>2 DEF Busy, Final
<1> QED BY <1>1, <1>2, <1>3, <1>4, <1>5, <1>6, <1>7 DEF Effected

LEMMA StoppedEffect ==
  ASSUME DbInv, EffectStopped, UNCHANGED <<call, journal>>
  PROVE  Effected("stop")
<1> DEFINE v == op.revision + 1
<1>1. op \in OpRows /\ op.sequence \in Nat /\ v \in Nat
  BY CurrentFacts
<1>2. op' = [op EXCEPT !.status = "stopped", !.revision = v] /\ attempt' = attempt
      /\ op.status \in Terminal /\ op.status \notin Final
  BY DEF EffectStopped
<1> HIDE DEF v
<1>3. op' \in OpRows /\ op'.status = "stopped" /\ op'.generation = op.generation /\ op'.sequence = op.sequence
  BY <1>1, <1>2 DEF OpRows, OpStatus, Terminal
<1>4. OpPart' /\ CallPart' /\ JournalPart'
  BY <1>2, <1>3, SameAttempts DEF Terminal
<1>5. attempt \in [Attempts -> AttemptRows]
  BY DEF DbInv, DbTypes
<1> QED BY <1>1, <1>2, <1>3, <1>4, <1>5 DEF Effected

LEMMA TouchEffect ==
  ASSUME DbInv, EffectTouch, UNCHANGED <<call, journal>>
  PROVE  Effected("pause")
<1> DEFINE v == op.revision + 1
<1>1. op \in OpRows /\ op.sequence \in Nat /\ v \in Nat
  BY CurrentFacts
<1>2. op' = [op EXCEPT !.revision = v] /\ attempt' = attempt
      /\ op.status \in Terminal /\ op.status \notin Final
  BY DEF EffectTouch
<1> HIDE DEF v
<1>3. op' \in OpRows /\ op'.status = op.status /\ op'.generation = op.generation /\ op'.sequence = op.sequence
  BY <1>1, <1>2 DEF OpRows
<1>4. OpPart' /\ CallPart' /\ JournalPart'
  BY <1>2, <1>3, SameAttempts
<1>5. attempt \in [Attempts -> AttemptRows] /\ op.status \notin {"pausing", "stopping"}
  BY <1>2 DEF DbInv, DbTypes, Terminal
<1> QED BY <1>1, <1>2, <1>3, <1>4, <1>5 DEF Effected

LEMMA EndEffect ==
  ASSUME DbInv, NEW act \in {"pause", "stop"}, EffectEnd(act), UNCHANGED <<call, journal>>
  PROVE  Effected(act)
<1> DEFINE s == IF act = "pause" THEN "paused" ELSE "stopped"
           v == op.revision + 2
           n == op.sequence + 1
<1>1. /\ op \in OpRows /\ op.sequence \in Nat /\ v \in Nat /\ n \in Nat /\ op.sequence < n
      /\ op.sequence <= n
  BY CurrentFacts
<1>2. /\ op' = [op EXCEPT !.status = s, !.revision = v, !.sequence = n]
      /\ attempt' = [attempt EXCEPT ![op.generation] = [status |-> s, leased |-> FALSE, final |-> n]]
      /\ op.status \in {"prepared", "queued"}
  BY DEF EffectEnd
<1>3. s \in Terminal /\ s \in OpStatus /\ (act = "stop" => s = "stopped")
      /\ s \notin {"pausing", "stopping"} /\ s \notin Unclaimed
  BY DEF Terminal, OpStatus, Unclaimed
<1>4. op.status \notin Terminal /\ op.status \notin Final /\ op.status \notin {"stopping", "stopped"}
  BY <1>2 DEF Terminal, Final
<1> HIDE DEF s, v, n
<1>5. op' \in OpRows /\ op'.status = s /\ op'.generation = op.generation /\ op'.sequence = n
  BY <1>1, <1>2, <1>3 DEF OpRows
<1>6. Ends(s, n)
  BY <1>1, <1>2, <1>3, <1>4, <1>5 DEF Ends
<1>7. /\ attempt' \in [Attempts -> AttemptRows]
      /\ \A a \in Attempts : a # op.generation => attempt'[a] = attempt[a]
      /\ attempt[op.generation].status \in {"prepared", "queued"}
  BY <1>2, <1>6, EndedAttempts, CurrentFacts
<1>8. OpPart' /\ JournalPart'
  BY <1>6, EndedOp
<1>9. CallPart'
  <2>1. call[op.generation].status = "none" /\ call \in [Attempts -> CallRows]
    BY <1>7, CurrentFacts DEF DbInv, DbTypes, CallPart, Unclaimed
  <2> QED BY <1>6, <2>1, EndedCalls
<1>10. ASSUME NEW a \in Attempts
       PROVE  /\ attempt[a].status \in Terminal => attempt'[a] = attempt[a]
              /\ attempt[a].status = "running" => attempt'[a].status = "running"
              /\ attempt[a].status \notin Unclaimed => attempt'[a].status \notin Unclaimed
  <2>1. CASE a = op.generation
    BY <1>7, <2>1 DEF Terminal, Unclaimed
  <2>2. CASE a # op.generation
    BY <1>7, <2>2
  <2> QED BY <2>1, <2>2
<1> QED BY <1>1, <1>3, <1>4, <1>5, <1>7, <1>8, <1>9, <1>10 DEF Effected

\* The attempt x, not claimed yet, is queued and is the current one.
Queues(x, r) ==
  /\ x \in Attempts /\ attempt[x].status \in Unclaimed
  /\ \A a \in Attempts : /\ a < x => attempt[a].status \in Terminal
                         /\ a > x => attempt[a].status = "none"
  /\ r \in AttemptRows /\ r.status = "queued" /\ r.final = 0
  /\ attempt' = [attempt EXCEPT ![x] = r]
  /\ op' \in OpRows /\ op'.status = "queued" /\ op'.generation = x /\ op'.sequence = op.sequence
  /\ op.status \notin Final \cup {"stopping"}

LEMMA QueueEffect ==
  ASSUME DbInv, NEW act \in {"start", "resume"}, NEW x, NEW r, Queues(x, r), UNCHANGED <<call, journal>>
  PROVE  Effected(act)
<1>1. /\ attempt' \in [Attempts -> AttemptRows] /\ attempt'[x] = r
      /\ \A a \in Attempts : a # x => attempt'[a] = attempt[a]
  BY DEF Queues, DbInv, DbTypes
<1>2. /\ x \in Attempts /\ attempt[x].status \in Unclaimed /\ r.status = "queued" /\ r.final = 0
      /\ op'.status = "queued" /\ op'.generation = x /\ op'.sequence = op.sequence /\ op' \in OpRows
      /\ op.status \notin Final \cup {"stopping"}
  BY DEF Queues
<1>3. op.sequence \in Nat /\ Attempts \subseteq Nat
  BY CurrentFacts, ConstantFacts
<1>4. OpPart'
  <2>1. Current'.status = "queued"
    BY <1>1, <1>2 DEF Current
  <2>2. \A a \in Attempts : /\ a < x => attempt'[a].status \in Terminal
                            /\ a > x => attempt'[a].status = "none"
    BY <1>1, <1>2, <1>3 DEF Queues
  <2> QED BY <1>2, <2>1, <2>2 DEF OpPart, Busy, Terminal
<1>5. CallPart'
  <2>1. ASSUME NEW a \in Attempts
        PROVE  /\ attempt'[a].status \in Unclaimed => call[a].status = "none"
               /\ attempt'[a].status \in Terminal => call[a].status # "running" /\ ~Unfinished(a)
    <3>1. CASE a = x
      BY <1>1, <1>2, <3>1 DEF DbInv, CallPart, Terminal
    <3>2. CASE a # x
      BY <1>1, <3>2 DEF DbInv, CallPart
    <3> QED BY <3>1, <3>2
  <2> QED BY <2>1 DEF CallPart, Unfinished
<1>6. JournalPart'
  <2>1. \A m \in journal : m.attempt \in Attempts
    BY DEF DbInv, DbTypes, MessageRows
  <2>2. \A m \in journal : attempt'[m.attempt].status \in Terminal => m.sequence < attempt'[m.attempt].final
    BY <1>1, <1>2, <2>1 DEF DbInv, JournalPart, Terminal
  <2>3. \A a \in Attempts : /\ attempt'[a].final <= op.sequence
                            /\ attempt'[a].final > 0 <=> attempt'[a].status \in Terminal
    <3> SUFFICES ASSUME NEW a \in Attempts
                 PROVE  /\ attempt'[a].final <= op.sequence
                        /\ attempt'[a].final > 0 <=> attempt'[a].status \in Terminal
      OBVIOUS
    <3>1. CASE a = x
      BY <1>1, <1>2, <1>3, <3>1 DEF Terminal
    <3>2. CASE a # x
      BY <1>1, <3>2 DEF DbInv, JournalPart
    <3> QED BY <3>1, <3>2
  <2> QED BY <1>2, <2>2, <2>3 DEF DbInv, JournalPart
<1>7. ASSUME NEW a \in Attempts
      PROVE  /\ attempt[a].status \in Terminal => attempt'[a] = attempt[a]
             /\ attempt[a].status = "running" => attempt'[a].status = "running"
             /\ attempt[a].status \notin Unclaimed => attempt'[a].status \notin Unclaimed
  <2>1. CASE a = x
    BY <1>2, <2>1 DEF Terminal, Unclaimed
  <2>2. CASE a # x
    BY <1>1, <2>2
  <2> QED BY <2>1, <2>2
<1> QED BY <1>1, <1>2, <1>3, <1>4, <1>5, <1>6, <1>7 DEF Effected, Final

LEMMA StartEffect ==
  ASSUME DbInv, EffectStart, UNCHANGED <<call, journal>>
  PROVE  Effected("start")
<1> DEFINE r == [attempt[1] EXCEPT !.status = "queued"]
           v == op.revision + 1
<1>1. op \in OpRows /\ op.sequence \in Nat /\ v \in Nat /\ 1 \in Attempts
  BY CurrentFacts, ConstantFacts
<1>2. attempt \in [Attempts -> AttemptRows] /\ attempt[1] \in AttemptRows
  BY <1>1 DEF DbInv, DbTypes
<1>3. op.status = "prepared" /\ op.generation = 1 /\ attempt[1].status = "prepared"
  BY DEF EffectStart, DbInv, OpPart, Current
<1>4. attempt[1].final = 0
  BY <1>1, <1>2, <1>3 DEF DbInv, JournalPart, AttemptRows, Terminal
<1>5. op' = [op EXCEPT !.status = "queued", !.revision = v] /\ attempt' = [attempt EXCEPT ![1] = r]
  BY <1>2 DEF EffectStart
<1>6. r \in AttemptRows /\ r.status = "queued" /\ r.final = 0
  BY <1>2, <1>4 DEF AttemptRows, AttemptStatus
<1> HIDE DEF r, v
<1>7. op' \in OpRows /\ op'.status = "queued" /\ op'.generation = 1 /\ op'.sequence = op.sequence
  BY <1>1, <1>3, <1>5 DEF OpRows, OpStatus
<1>8. \A a \in Attempts : /\ a < 1 => attempt[a].status \in Terminal
                          /\ a > 1 => attempt[a].status = "none"
  BY <1>3 DEF DbInv, OpPart
<1>9. Queues(1, r)
  BY <1>1, <1>3, <1>5, <1>6, <1>7, <1>8 DEF Queues, Unclaimed, Final
<1> QED BY <1>9, QueueEffect

LEMMA ResumeEffect ==
  ASSUME DbInv, EffectResume, UNCHANGED <<call, journal>>
  PROVE  Effected("resume")
<1> DEFINE r == NewAttempt("queued")
           v == op.revision + 1
           x == op.generation + 1
<1>1. op \in OpRows /\ op.sequence \in Nat /\ v \in Nat /\ op.generation \in Nat
  <2>1. op \in OpRows /\ op.sequence \in Nat /\ op.revision \in Nat /\ op.generation \in Attempts
    BY CurrentFacts
  <2>2. op.generation \in Nat
    BY <2>1, ConstantFacts
  <2> QED BY <2>1, <2>2
<1>2. op.status \in {"paused", "interrupted"} /\ op.generation < MaxAttempts
  BY DEF EffectResume
<1>3. x \in Attempts
  <2>1. op.generation \in 1 .. MaxAttempts /\ MaxAttempts \in Nat
    BY CurrentFacts, ConstantFacts DEF Attempts
  <2> QED BY <1>2, <2>1 DEF Attempts
<1>4. /\ op' = [op EXCEPT !.status = "queued", !.generation = x, !.revision = v]
      /\ attempt' = [attempt EXCEPT ![x] = r]
  BY DEF EffectResume
<1>5. r \in AttemptRows /\ r.status = "queued" /\ r.final = 0
  BY DEF NewAttempt, AttemptRows, AttemptStatus
<1>6. ASSUME NEW a \in Attempts
      PROVE  /\ a < x => attempt[a].status \in Terminal
             /\ a >= x => attempt[a].status = "none"
  <2>1. a \in Nat
    BY ConstantFacts
  <2>2. /\ a < op.generation => attempt[a].status \in Terminal
        /\ a > op.generation => attempt[a].status = "none"
    BY DEF DbInv, OpPart
  <2>3. attempt[op.generation].status \in Terminal
    BY <1>2, CurrentFacts DEF Terminal
  <2> QED BY <1>1, <2>1, <2>2, <2>3
<1>7. x >= x /\ \A a \in Attempts : a > x => a >= x
  BY <1>1, ConstantFacts
<1> HIDE DEF r, v, x
<1>8. op' \in OpRows /\ op'.status = "queued" /\ op'.generation = x /\ op'.sequence = op.sequence
  BY <1>1, <1>3, <1>4 DEF OpRows, OpStatus
<1>9. attempt[x].status \in Unclaimed
  BY <1>3, <1>6, <1>7 DEF Unclaimed
<1>10. op.status \notin Final \cup {"stopping"}
  BY <1>2 DEF Final
<1>11. Queues(x, r)
  BY <1>3, <1>4, <1>5, <1>6, <1>7, <1>8, <1>9, <1>10 DEF Queues
<1> QED BY <1>11, QueueEffect

LEMMA ReplayEffect ==
  ASSUME DbInv, UNCHANGED <<op, attempt, call, journal>>
  PROVE  Effected("replay")
<1>1. op \in OpRows /\ op.sequence \in Nat /\ op.generation \in Attempts
  BY CurrentFacts
<1>2. OpPart' /\ CallPart' /\ JournalPart'
  BY <1>1, SameAttempts
<1>3. op.status \in {"pausing", "stopping"} => attempt[op.generation].status = "running"
  BY DEF DbInv, OpPart, Current, Busy
<1>4. attempt \in [Attempts -> AttemptRows]
  BY DEF DbInv, DbTypes
<1> QED BY <1>1, <1>2, <1>3, <1>4 DEF Effected

LEMMA ApplyEffect ==
  ASSUME DbInv, NEW act \in Actions, Accepts(act), Effect(act), UNCHANGED <<call, journal>>
  PROVE  Effected(act)
  BY EffectCases, StartEffect, ResumeEffect, AskEffect, EndEffect, StoppedEffect, TouchEffect, ReplayEffect

LEMMA ApplyDb ==
  ASSUME DbInv, NEW c \in Commands, NEW act \in Actions, receipt[c].action = "none", Apply(c, act)
  PROVE  /\ DbInv' /\ Onward /\ call' = call
         /\ \A a \in Attempts : attempt[a].status \notin Unclaimed => attempt'[a].status \notin Unclaimed
         /\ act = "stop" => StopAccepted' /\ op'.generation = op.generation
<1> DEFINE ok == op'.status \notin {"pausing", "stopping"} \/ act = "replay"
           r == [action |-> act, attempt |-> op.generation, applied |-> ok]
<1>1. Effected(act) /\ call' = call /\ journal' = journal /\ receipt' = [receipt EXCEPT ![c] = r]
  BY ApplyEffect DEF Apply
<1>2. op.generation \in 0 .. MaxAttempts
  BY CurrentFacts, ConstantFacts DEF Attempts
<1>3. r \in ReceiptRows /\ r.action = act /\ r.attempt = op.generation /\ r.applied = ok
  BY <1>2 DEF ReceiptRows
<1>4. ok \/ attempt'[op.generation].status = "running"
  BY <1>1 DEF Effected
<1> HIDE DEF r
<1>5. Receives(c, act, r)
  BY <1>1, <1>3, <1>4 DEF Receives
<1>6. \A a \in Attempts : attempt[a].status = "running" => attempt'[a].status = "running"
  BY <1>1 DEF Effected
<1>7. /\ receipt' \in [Commands -> ReceiptRows] /\ ReceiptPart'
      /\ StopAccepted' <=> StopAccepted \/ act = "stop"
  BY <1>5, <1>6, ReceiptWritten
<1>8. StopAccepted => op.status \in {"stopping", "stopped"}
  BY CurrentFacts
<1>9. StopHolds'
  <2>1. StopAccepted' => op'.status \in {"stopping", "stopped"}
    BY <1>1, <1>7, <1>8 DEF Effected
  <2> QED BY <2>1 DEF StopHolds, StopAccepted
<1>10. DbTypes'
  BY <1>1, <1>7 DEF DbInv, DbTypes, Effected
<1>11. DbInv'
  BY <1>1, <1>7, <1>9, <1>10 DEF DbInv, Effected
<1>12. Onward
  BY <1>1, <1>7, <1>8 DEF Onward, Effected
<1> QED BY <1>1, <1>7, <1>11, <1>12 DEF Effected

LEMMA AppliedPreserved ==
  ASSUME LifecycleInv, NEW c \in Commands, NEW act \in Actions, receipt[c].action = "none",
         Apply(c, act), UNCHANGED <<root, caller>>
  PROVE  LifecycleInv'
<1>1. DbInv /\ DbTypes /\ RootInv /\ CallerInv
  BY DEF LifecycleInv, DbInv
<1>2. /\ DbInv' /\ Onward /\ call' = call
      /\ \A a \in Attempts : attempt[a].status \notin Unclaimed => attempt'[a].status \notin Unclaimed
  BY <1>1, ApplyDb
<1>3. RootInv'
  BY <1>1, <1>2, RootKept
<1>4. CallerInv'
  BY <1>1, <1>2, CallerKept DEF DbInv
<1> QED BY <1>2, <1>3, <1>4 DEF LifecycleInv

LEMMA CallerCancelledPreserved ==
  ASSUME LifecycleInv, NEW c \in Commands, CallerCancelled(c)
  PROVE  LifecycleInv'
<1>1. DbInv /\ DbTypes /\ RootInv /\ CallerInv /\ caller \in Readers
  BY DEF LifecycleInv, DbInv, CallerInv
<1>2. root' = root /\ receipt[c].action = "none" /\ "stop" \in Actions
  BY DEF CallerCancelled, Actions
<1>3. CASE Accepts("stop") /\ Apply(c, "stop") /\ OpenStream("drain", op.generation)
  <2>1. /\ DbInv' /\ Onward /\ call' = call
        /\ \A a \in Attempts : attempt[a].status \notin Unclaimed => attempt'[a].status \notin Unclaimed
        /\ StopAccepted' /\ op'.generation = op.generation
    BY <1>1, <1>2, <1>3, ApplyDb
  <2>2. RootInv'
    BY <1>1, <1>2, <2>1, RootKept
  <2>3. CallerInv'
    BY <1>1, <1>3, <2>1, DrainOpens
  <2> QED BY <2>1, <2>2, <2>3 DEF LifecycleInv
<1>4. CASE ~Accepts("stop") /\ UNCHANGED dbVars /\ caller' = [caller EXCEPT !.phase = "cancelled"]
  <2>1. DbInv' /\ RootInv'
    BY <1>1, <1>2, <1>4, RowsKept
  <2>2. op.status \in {"stopped", "completed", "failed"}
    BY <1>4 DEF Accepts
  <2>3. /\ caller' \in Readers /\ caller'.phase = "cancelled" /\ caller'.attempt = caller.attempt
        /\ caller'.cursor = caller.cursor /\ caller'.ended = caller.ended /\ caller'.got = caller.got
        /\ caller'.row = caller.row
    BY <1>1, <1>4 DEF Readers
  <2>4. UNCHANGED <<op, attempt, journal, receipt>>
    BY <1>4 DEF dbVars
  <2>5. StreamComplete'
    BY <1>1, <2>3, <2>4 DEF CallerInv, ReaderPart, StreamComplete, MessagesOf
  <2>6. ReaderPart'
    BY <1>1, <2>3, <2>4, <2>5 DEF CallerInv, ReaderPart
  <2>7. DrainPart' /\ CancelledCallerSettled'
    BY <2>2, <2>3, <2>4 DEF DrainPart, CancelledCallerSettled
  <2> QED BY <2>1, <2>3, <2>6, <2>7 DEF LifecycleInv, CallerInv
<1> QED BY <1>3, <1>4 DEF CallerCancelled

-------------------------------------------------------------------------------
(* The invariant.                                                           *)

LEMMA LifecycleInit ==
  ASSUME Init
  PROVE  LifecycleInv
<1>1. PICK s \in {"prepared", "queued"} :
        /\ op = [status |-> s, generation |-> 1, revision |-> 0, sequence |-> 0, expired |-> FALSE]
        /\ attempt = [a \in Attempts |-> NewAttempt(IF a = 1 THEN s ELSE "none")]
        /\ caller = [phase |-> IF s = "queued" THEN "look" ELSE "absent", attempt |-> 1,
                     cursor |-> 0, got |-> {}, ended |-> FALSE, row |-> NoRow]
  BY DEF Init
<1>2. /\ call = [a \in Attempts |-> [status |-> "none", terminal |-> FALSE]] /\ journal = {}
      /\ receipt = [c \in Commands |-> NoReceipt] /\ root = NoRoot
  BY DEF Init
<1>3. 1 \in Attempts /\ Attempts \subseteq Nat /\ \A a \in Attempts : a >= 1
  BY ConstantFacts DEF Attempts
<1>4. op \in OpRows /\ op.status = s /\ op.generation = 1 /\ op.sequence = 0
  BY <1>1, <1>3 DEF OpRows, OpStatus
<1>5. /\ \A a \in Attempts : attempt[a] = NewAttempt(IF a = 1 THEN s ELSE "none")
      /\ DOMAIN attempt = Attempts
  BY <1>1
<1>6. \A t \in {"prepared", "queued", "none"} : /\ NewAttempt(t) \in AttemptRows
                                              /\ NewAttempt(t).status = t /\ NewAttempt(t).final = 0
  BY DEF NewAttempt, AttemptRows, AttemptStatus
<1>7. /\ attempt \in [Attempts -> AttemptRows]
      /\ \A a \in Attempts : /\ attempt[a].status = IF a = 1 THEN s ELSE "none"
                             /\ attempt[a].final = 0
  <2>1. \A a \in Attempts : (IF a = 1 THEN s ELSE "none") \in {"prepared", "queued", "none"}
    OBVIOUS
  <2>2. \A a \in Attempts : attempt[a] \in AttemptRows
    BY <1>5, <1>6, <2>1
  <2> QED BY <1>1, <1>5, <1>6, <2>1, <2>2
<1>8. /\ call \in [Attempts -> CallRows] /\ \A a \in Attempts : call[a].status = "none"
  BY <1>2 DEF CallRows
<1>9. /\ receipt \in [Commands -> ReceiptRows]
      /\ \A c \in Commands : receipt[c].action = "none" /\ receipt[c].attempt = 0
  BY <1>2, ConstantFacts DEF NoReceipt, ReceiptRows
<1>10. root \in Roots /\ root.phase = "none"
  BY <1>2, <1>3 DEF NoRoot, Roots
<1>11. /\ caller \in Readers /\ caller.phase \in {"look", "absent"} /\ caller.cursor = 0
       /\ ~caller.ended /\ caller.row.final = 0
  BY <1>1, <1>3 DEF Readers, SeenRows, NoRow, AttemptStatus, Watching
<1>12. OpPart
  <2>1. Current.status = s
    BY <1>3, <1>4, <1>7 DEF Current
  <2>2. \A a \in Attempts : /\ a < 1 => attempt[a].status \in Terminal
                            /\ a > 1 => attempt[a].status = "none"
    BY <1>3, <1>7
  <2> QED BY <1>4, <2>1, <2>2 DEF OpPart, Busy, Terminal
<1>13. CallPart /\ ReceiptPart
  <2>1. \A a \in Attempts : a # 0
    BY <1>3
  <2> QED BY <1>8, <1>9, <2>1 DEF CallPart, ReceiptPart, Unfinished
<1>14. JournalPart
  <2>1. IsFiniteSet(journal)
    BY <1>2, FS_EmptySet
  <2>2. \A a \in Attempts : attempt[a].status \notin Terminal
    BY <1>7 DEF Terminal
  <2> QED BY <1>2, <1>4, <1>7, <2>1, <2>2 DEF JournalPart
<1>15. StopHolds
  BY <1>9 DEF StopHolds
<1>16. DbInv
  BY <1>2, <1>4, <1>7, <1>8, <1>9, <1>12, <1>13, <1>14, <1>15 DEF DbInv, DbTypes
<1>17. RootInv
  BY <1>10 DEF RootInv, RootPart, Invoking
<1>18. CallerInv
  BY <1>2, <1>4, <1>11 DEF CallerInv, ReaderPart, StreamComplete, MessagesOf, DrainPart, CancelledCallerSettled
<1> QED BY <1>16, <1>17, <1>18 DEF LifecycleInv

LEMMA RootStepPreserved ==
  ASSUME LifecycleInv, StartRoot \/ RootFails \/ Heartbeat \/ HeartbeatFails \/ Shutdown \/ Crash \/ NoCall
  PROVE  LifecycleInv'
<1>1. DbInv /\ DbTypes /\ RootInv /\ CallerInv
  BY DEF LifecycleInv, DbInv
<1>2. RootInv' /\ UNCHANGED dbVars /\ caller' = caller
  BY <1>1, RootOnlyPreserved
<1>3. DbInv' /\ Onward
  BY <1>1, <1>2, DbKept
<1>4. CallerInv'
  BY <1>1, <1>2, <1>3, CallerKept DEF DbInv
<1> QED BY <1>2, <1>3, <1>4 DEF LifecycleInv

LEMMA LifecycleStutter ==
  ASSUME LifecycleInv, UNCHANGED vars
  PROVE  LifecycleInv'
<1>1. DbInv /\ DbTypes /\ RootInv /\ CallerInv /\ UNCHANGED <<dbVars, root>> /\ caller' = caller
  BY DEF LifecycleInv, DbInv, vars, dbVars
<1>2. DbInv' /\ RootInv' /\ Onward
  BY <1>1, RowsKept, DbKept
<1>3. CallerInv'
  BY <1>1, <1>2, CallerKept DEF DbInv
<1> QED BY <1>2, <1>3 DEF LifecycleInv

LEMMA LifecycleStep ==
  ASSUME LifecycleInv, [Next]_vars
  PROVE  LifecycleInv'
<1>1. CASE StartRoot \/ RootFails \/ Heartbeat \/ HeartbeatFails \/ Shutdown \/ Crash \/ NoCall
  BY <1>1, RootStepPreserved
<1>2. CASE Claim
  BY <1>2, ClaimPreserved
<1>3. CASE Finish
  BY <1>3, FinishPreserved
<1>4. CASE CallStart \/ Message \/ CallResult
  BY <1>4, CallStartPreserved, MessagePreserved, CallResultPreserved
<1>5. ASSUME NEW s \in {"completed", "error", "cancelled"}, CallFinal(s) PROVE LifecycleInv'
  BY <1>5, CallFinalPreserved
<1>6. ASSUME NEW c \in Commands, NEW act \in Actions, Command(c, act) PROVE LifecycleInv'
  BY <1>6, AppliedPreserved DEF Command
<1>7. ASSUME NEW c \in Commands, NEW a \in Attempts, StopCall(c, a) PROVE LifecycleInv'
  <2>1. "stop" \in Actions /\ receipt[c].action = "none" /\ Apply(c, "stop") /\ UNCHANGED <<root, caller>>
    BY <1>7 DEF StopCall, Actions
  <2> QED BY <2>1, AppliedPreserved
<1>8. ASSUME NEW c \in Commands, CallerCancelled(c) PROVE LifecycleInv'
  BY <1>8, CallerCancelledPreserved
<1>9. CASE DeadlinePasses
  BY <1>9, DeadlinePreserved
<1>10. CASE Look \/ ReadRow \/ ReadPage \/ Check
  BY <1>10, LookPreserved, ReadRowPreserved, ReadPagePreserved, CheckPreserved
<1>11. CASE LeaseExpires \/ Recover \/ ExpireQueued
  BY <1>11, LeaseExpiresPreserved, RecoverPreserved, ExpireQueuedPreserved
<1>12. CASE UNCHANGED vars
  BY <1>12, LifecycleStutter
<1> QED BY <1>1, <1>2, <1>3, <1>4, <1>5, <1>6, <1>7, <1>8, <1>9, <1>10, <1>11, <1>12
        DEF Next, Invocation, Control, Reading

LEMMA LifecycleParts ==
  ASSUME LifecycleInv
  PROVE  TypeOK /\ StopHolds /\ AttemptClosed /\ StreamComplete /\ CancelledCallerSettled
<1>1. TypeOK
  BY TypeFacts DEF LifecycleInv, DbInv, RootInv, CallerInv
<1>2. AttemptClosed
  <2> SUFFICES ASSUME NEW a \in Attempts, attempt[a].status \in Terminal
               PROVE  /\ call[a].status # "running" /\ ~Unfinished(a)
                      /\ \A c \in Commands : receipt[c].attempt = a => receipt[c].applied
    BY DEF AttemptClosed
  <2>1. attempt[a].status # "running"
    BY DEF Terminal
  <2> QED BY <2>1 DEF LifecycleInv, DbInv, CallPart, ReceiptPart
<1> QED BY <1>1, <1>2 DEF LifecycleInv, DbInv, CallerInv, ReaderPart

\* The parts of the invariant hold together: the rows of the inference, its
\* root and its reader never disagree, whatever crashes, stalls, expires or is
\* commanded between two transactions of inference_store.
THEOREM LifecycleInvariant == Spec => []LifecycleInv
<1>1. Init => LifecycleInv
  BY LifecycleInit
<1>2. LifecycleInv /\ [Next]_vars => LifecycleInv'
  BY LifecycleStep
<1> QED BY <1>1, <1>2, PTL DEF Spec

\* Every state has its type.
THEOREM LifecycleTypeCorrect == Spec => []TypeOK
<1>1. LifecycleInv => TypeOK
  BY LifecycleParts
<1> QED BY <1>1, LifecycleInvariant, PTL

\* Once command has accepted a stop, neither finish, recover_expired, a
\* deadline nor another command ends the inference otherwise.
THEOREM StopIsFinal == Spec => []StopHolds
<1>1. LifecycleInv => StopHolds
  BY LifecycleParts
<1> QED BY <1>1, LifecycleInvariant, PTL

\* An attempt that finish or recover_expired ended has no running call, no call
\* journal without result and no waiting command, though finalize_call is not
\* fenced by the lease.
THEOREM EndedAttemptIsClosed == Spec => []AttemptClosed
<1>1. LifecycleInv => AttemptClosed
  BY LifecycleParts
<1> QED BY <1>1, LifecycleInvariant, PTL

\* read_event_batch reads the row of the attempt before the page of its
\* messages: for every page size the reader has skipped nothing behind its
\* cursor and has everything once it has the result.
THEOREM ReaderMissesNothing == Spec => []StreamComplete
<1>1. LifecycleInv => StreamComplete
  BY LifecycleParts
<1> QED BY <1>1, LifecycleInvariant, PTL

\* A cancelled _run leaves the inference ended: its stop was accepted and it has
\* drained the attempt that it stopped, or there was nothing left to stop.
THEOREM CancelledCallerLeavesNoWork == Spec => []CancelledCallerSettled
<1>1. LifecycleInv => CancelledCallerSettled
  BY LifecycleParts
<1> QED BY <1>1, LifecycleInvariant, PTL
===============================================================================

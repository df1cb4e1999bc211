----------------------- MODULE MediaGenerationsProofs -----------------------
(***************************************************************************)
(* Proofs about ActionAuthorizations and MediaGenerations: whatever        *)
(* callers, humans, administrators, jobs and the worker do, one agreement  *)
(* carries one effect and one file, a refusal is final, the report tells   *)
(* the outcome and the quota holds, for every set of operations, callers   *)
(* and users.                                                              *)
(*                                                                         *)
(* An effect is bounded by where its permit is: with the row while it can  *)
(* still be claimed, then in one caller's hand, then, once registered,     *)
(* with the generation until its submission is claimed.                    *)
(***************************************************************************)
EXTENDS MediaGenerations, FiniteSetTheorems, TLAPS

Held == {"permit", "effected", "registered"}

\* The statuses from which claim_action may still hand the permit out.
Unclaimed == {"absent"} \cup Open

\* The row of an operation against what was decided and what was done.
RowPart(o) ==
  /\ rows[o].status \in Unclaimed => effects[o] = 0 /\ ~rows[o].expected
  /\ rows[o].status = "approved" => verdict[o] = "yes"
  /\ rows[o].expected => verdict[o] = "yes" /\ o \notin RuntimeOps
  /\ effects[o] <= 1
  /\ effects[o] > 0 => verdict[o] = "yes"
  /\ verdict[o] = "no" => rows[o].status \in {"denied", "invalidated"}

\* What a caller's hand says about the row it claimed.
HandPart(c) ==
  LET o == hand[c].op
  IN /\ hand[c].stage = "idle" <=> o = "none"
     /\ hand[c].stage \in Held =>
          /\ verdict[o] = "yes" /\ rows[o].conf = hand[c].conf
          /\ rows[o].status \notin Unclaimed
          /\ hand[c].stage = "registered" <=> rows[o].expected
     /\ hand[c].stage = "permit" => effects[o] = 0

\* A permit is in one hand.
OneHand ==
  \A c, d \in Callers :
    hand[c].stage \in Held /\ hand[d].stage \in Held /\ hand[c].op = hand[d].op => c = d

PermitInv ==
  /\ \A o \in Ops : RowPart(o)
  /\ \A c \in Callers : HandPart(c)
  /\ OneHand

\* A generation j against its permit s and its effects e: it exists under a
\* registered permit only, its submission is claimed before the effect, and
\* only its own outcome completes or fails the permit.
PermitOf(s, j, e) ==
  /\ j.status # "absent" => s.expected
  /\ s.expected => s.status \notin {"denied", "expired"}
  /\ s.expected /\ j.submission = "none" => e = 0
  /\ s.expected /\ s.status = "completed" => j.status = "success"
  /\ s.expected /\ s.status = "failed" => j.status = "error"
  /\ j.settled => s.status \in Settled

\* A generation's own row, and the n files it wrote.
RecordOf(j, n) ==
  /\ j.status = "absent" => j.submission = "none" /\ ~j.settled
  /\ j.submission = "none" => j.provider = "none"
  /\ j.provider # "success" => j.receipt = "none"
  /\ j.receipt \in {"none", "held"} => n = 0
  /\ j.receipt = "delivered" => n = 1
  /\ j.status = "success" => j.receipt = "delivered"
  /\ n <= 1

\* The worker's stage against the generation it holds.
WorkerOn(stage, s, j, e, n) ==
  /\ j.status # "absent"
  /\ j.status \in Terminal <=> stage \in {"settle", "settled"}
  /\ stage = "post" => j.submission = "started" /\ j.provider = "none" /\ e = 0
  /\ stage = "create" => j.receipt = "started" /\ n = 0
  /\ stage = "record" => j.receipt = "started" /\ n = 1
  /\ stage = "settled" => s.status \in Settled

JobInv ==
  /\ \A o \in Ops : PermitOf(rows[o], job[o], effects[o]) /\ RecordOf(job[o], files[o])
  /\ worker.stage = "idle" <=> worker.op = "none"
  /\ worker.stage # "idle" =>
       WorkerOn(worker.stage, rows[worker.op], job[worker.op], effects[worker.op], files[worker.op])

\* The inductive invariant.
MediaInv == MediaTypeOK /\ PermitInv /\ JobInv

-----------------------------------------------------------------------------
(* Type correctness                                                          *)

\* The updates the actions make of a row stay rows.
LEMMA RowUpdates ==
  ASSUME NEW r \in Rows
  PROVE  /\ \A s \in Statuses : [r EXCEPT !.status = s] \in Rows /\ Closed(r, s) \in Rows
         /\ \A s \in Statuses : [r EXCEPT !.status = s, !.notice = FALSE] \in Rows
         /\ [r EXCEPT !.expected = TRUE] \in Rows /\ [r EXCEPT !.started = TRUE] \in Rows
         /\ [r EXCEPT !.early = FALSE] \in Rows /\ [r EXCEPT !.notice = FALSE] \in Rows
         /\ \A b \in BOOLEAN : [r EXCEPT !.wake = b] \in Rows
         /\ r.age < 2 => [r EXCEPT !.age = @ + 1] \in Rows
<1>1. \A s \in Statuses : [r EXCEPT !.status = s] \in Rows /\ Closed(r, s) \in Rows
  BY DEF Rows, Closed
<1>2. \A s \in Statuses : [r EXCEPT !.status = s, !.notice = FALSE] \in Rows
  BY DEF Rows
<1>3. [r EXCEPT !.expected = TRUE] \in Rows /\ [r EXCEPT !.started = TRUE] \in Rows
  BY DEF Rows
<1>4. [r EXCEPT !.early = FALSE] \in Rows /\ [r EXCEPT !.notice = FALSE] \in Rows
  BY DEF Rows
<1>5. \A b \in BOOLEAN : [r EXCEPT !.wake = b] \in Rows
  BY DEF Rows
<1>6. r.age < 2 => [r EXCEPT !.age = @ + 1] \in Rows
  BY DEF Rows
<1> QED BY <1>1, <1>2, <1>3, <1>4, <1>5, <1>6

\* What closing a row keeps: the agreed configuration, and whether the permit
\* was registered.
LEMMA ClosedKeeps ==
  ASSUME NEW r \in Rows, NEW s \in Statuses
  PROVE  /\ Closed(r, s).status = s /\ Closed(r, s).conf = r.conf
         /\ Closed(r, s).expected = r.expected
  BY DEF Rows, Closed

LEMMA Names ==
  /\ {"expired", "invalidated", "executing", "outcome_unknown", "approved", "denied", "completed",
      "failed", "pending", "absent"} = Statuses
  /\ Open \subseteq Statuses /\ Settled \subseteq Statuses
  BY DEF Statuses, Open, Settled

\* A step that changes rows only.
LEMMA RowsType ==
  ASSUME TypeOK, rows' \in [Ops -> Rows],
         UNCHANGED <<policy, conn, conf, perm, ctx, hand, notifier, waker, effects, verdict, changes, wanted>>
  PROVE  TypeOK'
  BY DEF TypeOK

LEMMA ModeType ==
  ASSUME TypeOK, NEW o \in Ops
  PROVE  ActionMode(o).state \in Modes /\ ActionMode(o).source \in {"software", "connection"}
  BY DEF TypeOK, ActionMode, Modes

LEMMA NewRowType ==
  ASSUME TypeOK, NEW o \in Ops, NEW cf \in Nat
  PROVE  /\ NewRow(o, cf) \in Rows /\ NewRow(o, cf).status \in Open /\ NewRow(o, cf).conf = cf
         /\ ~NewRow(o, cf).expected
         /\ NewRow(o, cf).status = "approved" => NewRow(o, cf).decision = "runtime_policy"
<1> DEFINE r == [status |-> "pending", conf |-> cf, mode |-> ActionMode(o).state,
            source |-> ActionMode(o).source, approver |-> policy.manager,
            version |-> policy.version, decision |-> "none", perm |-> 0,
            early |-> FALSE, expected |-> FALSE, started |-> FALSE,
            age |-> 0, notice |-> TRUE, wake |-> FALSE]
           a == [r EXCEPT !.status = "approved", !.decision = "runtime_policy", !.perm = perm.id]
<1>1. policy.manager \in Users /\ policy.version \in Nat /\ perm.id \in Nat
  BY DEF TypeOK
<1>2. r \in Rows
  BY <1>1, ModeType DEF Rows, Statuses
<1>3. r.status = "pending" /\ r.conf = cf /\ ~r.expected
  OBVIOUS
<1> HIDE DEF r
<1>4. a \in Rows
  BY <1>1, <1>2 DEF Rows, Statuses
<1>5. a.status = "approved" /\ a.conf = cf /\ ~a.expected /\ a.decision = "runtime_policy"
  BY <1>2, <1>3 DEF Rows
<1>6. NewRow(o, cf) = IF o \in RuntimeOps /\ MatchingPermission THEN a ELSE r
  BY DEF NewRow, r
<1> HIDE DEF a
<1> QED BY <1>2, <1>3, <1>4, <1>5, <1>6 DEF Open

\* The row as a claim sees it: the new one, or the stored one, closed by the
\* claim when it expired or lost its authority.
LEMMA RevalidatedFacts ==
  ASSUME TypeOK, NEW o \in Ops, NEW cf \in Nat
  PROVE  LET r == Revalidated(o, cf)
         IN /\ r \in Rows
            /\ rows[o].status = "absent" =>
                 r.conf = cf /\ ~r.expected
                 /\ r.status \in Open \cup {"expired", "invalidated"}
                 /\ (r.status = "approved" => r.decision = "runtime_policy")
            /\ rows[o].status \in Open =>
                 r.conf = rows[o].conf /\ r.expected = rows[o].expected
                 /\ r.status \in {rows[o].status, "expired", "invalidated"}
            /\ rows[o].status \notin Unclaimed => r = rows[o]
<1> DEFINE q == IF rows[o].status = "absent" THEN NewRow(o, cf) ELSE rows[o]
           r == Revalidated(o, cf)
<1>1. q \in Rows
  BY NewRowType DEF TypeOK
<1>2. \/ r = q
      \/ q.status \in Open /\ (r = Closed(q, "expired") \/ r = Closed(q, "invalidated"))
  BY DEF Revalidated
<1>3. q.status \notin Open => r = q
  BY DEF Revalidated
<1> HIDE DEF q, r
<1>4. \A s \in {"expired", "invalidated"} :
        Closed(q, s) \in Rows /\ Closed(q, s).status = s /\ Closed(q, s).conf = q.conf
        /\ Closed(q, s).expected = q.expected
  <2>1. {"expired", "invalidated"} \subseteq Statuses
    BY Names
  <2>2. \A s \in {"expired", "invalidated"} : Closed(q, s) \in Rows
    BY <1>1, <2>1, RowUpdates
  <2>3. \A s \in {"expired", "invalidated"} :
          Closed(q, s).status = s /\ Closed(q, s).conf = q.conf /\ Closed(q, s).expected = q.expected
    BY <1>1, <2>1, ClosedKeeps
  <2> QED BY <2>2, <2>3
<1>5. /\ r \in Rows /\ r.conf = q.conf /\ r.expected = q.expected
      /\ r.status \in {q.status, "expired", "invalidated"}
      /\ r.status \notin {"expired", "invalidated"} => r = q
  BY <1>1, <1>2, <1>4
<1>6. CASE rows[o].status = "absent"
  <2>1. q = NewRow(o, cf)
    BY <1>6 DEF q
  <2> QED BY <1>5, <1>6, <2>1, NewRowType DEF Open, Unclaimed, r
<1>7. CASE rows[o].status # "absent"
  <2>1. q = rows[o]
    BY <1>7 DEF q
  <2> QED BY <1>3, <1>5, <1>7, <2>1 DEF Open, Unclaimed, r
<1> QED BY <1>6, <1>7

\* What the worker's report makes of a row.
LEMMA FinishedFacts ==
  ASSUME NEW r \in Rows, NEW outcome \in {"completed", "failed"}
  PROVE  LET f == Finished(r, outcome, TRUE, TRUE)
         IN /\ f \in Rows /\ f.conf = r.conf /\ f.expected = r.expected
            /\ f.status = IF r.status \in {"executing", "outcome_unknown"} THEN outcome ELSE r.status
<1> DEFINE g == [r EXCEPT !.status = outcome]
<1>1. g \in Rows /\ g.conf = r.conf /\ g.expected = r.expected /\ g.status = outcome
  BY DEF Rows, Statuses
<1>2. Finished(r, outcome, TRUE, TRUE) = IF r.status \in {"executing", "outcome_unknown"} THEN g ELSE r
  BY DEF Finished
<1> HIDE DEF g
<1> QED BY <1>1, <1>2

-----------------------------------------------------------------------------
(* What a step does to the rows                                              *)

\* The changes that neither decide, claim nor report: the agreed configuration
\* and the registration stay; the status stays, or goes where no permit is.
Tame(r, s) ==
  /\ s.conf = r.conf /\ s.expected = r.expected
  /\ \/ s.status = r.status
     \/ s.status = "invalidated"
     \/ r.status \in Open /\ s.status = "expired"
     \/ r.status = "executing" /\ s.status = "outcome_unknown"

TameRows == rows' \in [Ops -> Rows] /\ \A o \in Ops : Tame(rows[o], rows'[o])

LEMMA TameSelf ==
  ASSUME NEW r PROVE Tame(r, r)
  BY DEF Tame

LEMMA TameClosed ==
  ASSUME NEW r \in Rows
  PROVE  /\ Closed(r, "invalidated") \in Rows /\ Tame(r, Closed(r, "invalidated"))
         /\ Closed(r, "expired") \in Rows
         /\ r.status \in Open \cup {"expired"} => Tame(r, Closed(r, "expired"))
<1>1. Closed(r, "invalidated") \in Rows /\ Closed(r, "expired") \in Rows
  <2>1. "invalidated" \in Statuses /\ "expired" \in Statuses
    BY Names
  <2> QED BY <2>1, RowUpdates
<1>2. Tame(r, Closed(r, "invalidated"))
  BY ClosedKeeps, Names DEF Tame
<1>3. r.status \in Open \cup {"expired"} => Tame(r, Closed(r, "expired"))
  BY ClosedKeeps, Names DEF Tame
<1> QED BY <1>1, <1>2, <1>3

\* One row changes, tamely.
LEMMA TameOne ==
  ASSUME TypeOK, NEW o \in Ops, NEW s \in Rows, Tame(rows[o], s), rows' = [rows EXCEPT ![o] = s]
  PROVE  TameRows
<1>1. \A p \in Ops : rows'[p] = IF p = o THEN s ELSE rows[p]
  BY DEF TypeOK
<1>2. rows' \in [Ops -> Rows]
  BY DEF TypeOK
<1> QED BY <1>1, <1>2, TameSelf DEF TameRows

\* The rows of a set are invalidated.
LEMMA TameSome ==
  ASSUME TypeOK, NEW S \in SUBSET Ops,
         rows' = [o \in Ops |-> IF o \in S THEN Closed(rows[o], "invalidated") ELSE rows[o]]
  PROVE  TameRows
<1>1. \A o \in Ops : rows[o] \in Rows
  BY DEF TypeOK
<1> QED BY <1>1, TameClosed, TameSelf DEF TameRows

\* Commands, contexts and jobs that write rows.
LEMMA TameCommands ==
  ASSUME TypeOK,
         (\E o \in Ops : CancelRequest(o)) \/ SetPermission \/ RevokeGrant \/ StartAttempt \/ EndContext
  PROVE  TameRows
<1>0. \A o \in Ops : rows[o] \in Rows
  BY DEF TypeOK
<1>1. ASSUME NEW o \in Ops, CancelRequest(o) PROVE TameRows
  BY <1>0, <1>1, TameClosed, TameOne DEF CancelRequest
<1>2. rows' = rows => TameRows
  BY TameSelf DEF TameRows, TypeOK
<1>3. CASE SetPermission
  <2> DEFINE S == {o \in Ops : rows[o].perm = perm.id /\ rows[o].status \in Open}
  <2>1. rows' = rows
        \/ rows' = [o \in Ops |-> IF o \in S THEN Closed(rows[o], "invalidated") ELSE rows[o]]
    BY <1>3 DEF SetPermission, WithoutPermission
  <2>2. S \in SUBSET Ops
    OBVIOUS
  <2> HIDE DEF S
  <2> QED BY <1>2, <2>1, <2>2, TameSome
<1>4. CASE RevokeGrant
  <2> DEFINE S == {o \in Ops : o \in RuntimeOps /\ rows[o].status \in Open}
  <2>1. rows' = [o \in Ops |-> IF o \in S THEN Closed(rows[o], "invalidated") ELSE rows[o]]
    BY <1>4 DEF RevokeGrant
  <2>2. S \in SUBSET Ops
    OBVIOUS
  <2> HIDE DEF S
  <2> QED BY <2>1, <2>2, TameSome
<1>5. CASE StartAttempt
  <2>1. ASSUME NEW r \in Rows
        PROVE  [r EXCEPT !.early = FALSE] \in Rows /\ Tame(r, [r EXCEPT !.early = FALSE])
    BY DEF Tame, Rows
  <2> QED BY <1>0, <1>5, <2>1 DEF StartAttempt, TameRows
<1>6. CASE EndContext
  <2> DEFINE S == {o \in Ops : rows[o].status \in Open}
  <2>1. rows' = rows
        \/ rows' = [o \in Ops |-> IF o \in S THEN Closed(rows[o], "invalidated") ELSE rows[o]]
    BY <1>6 DEF EndContext
  <2>2. S \in SUBSET Ops
    OBVIOUS
  <2> HIDE DEF S
  <2> QED BY <1>2, <2>1, <2>2, TameSome
<1> QED BY <1>1, <1>3, <1>4, <1>5, <1>6

LEMMA TameJobs ==
  ASSUME TypeOK, PermitInv,
         (\E o \in Ops : Age(o) \/ Reconcile(o)) \/ NoticeWrite \/ WakeAck
  PROVE  TameRows
<1>0. \A o \in Ops : rows[o] \in Rows
  BY DEF TypeOK
<1>1. ASSUME NEW o \in Ops, Age(o) PROVE TameRows
  <2> DEFINE s == [rows[o] EXCEPT !.age = @ + 1]
  <2>1. rows[o].age < 2
    BY <1>1 DEF Age
  <2>2. s \in Rows
    BY <1>0, <2>1, RowUpdates
  <2>3. Tame(rows[o], s)
    BY <1>0 DEF Tame, Rows
  <2>4. rows' = [rows EXCEPT ![o] = s]
    BY <1>1 DEF Age
  <2> HIDE DEF s
  <2> QED BY <2>2, <2>3, <2>4, TameOne
<1>2. ASSUME NEW o \in Ops, Reconcile(o) PROVE TameRows
  <2>1. CASE rows[o].status \in Open /\ rows' = [rows EXCEPT ![o] = Closed(@, "invalidated")]
    BY <1>0, <2>1, TameClosed, TameOne
  <2>2. CASE rows[o].status \in Open /\ rows' = [rows EXCEPT ![o] = Closed(@, "expired")]
    BY <1>0, <2>2, TameClosed, TameOne
  <2>3. CASE rows[o].status = "executing" /\ rows' = [rows EXCEPT ![o].status = "outcome_unknown"]
    <3> DEFINE s == [rows[o] EXCEPT !.status = "outcome_unknown"]
    <3>1. s \in Rows /\ Tame(rows[o], s)
      BY <1>0, <2>3 DEF Tame, Rows, Statuses
    <3>2. rows' = [rows EXCEPT ![o] = s]
      BY <2>3
    <3> HIDE DEF s
    <3> QED BY <3>1, <3>2, TameOne
  <2> QED BY <1>2, <2>1, <2>2, <2>3 DEF Reconcile
<1>3. CASE NoticeWrite
  <2> DEFINE o == notifier.op
             s == [rows[o] EXCEPT !.notice = FALSE]
  <2>1. CASE o \notin Ops
    <3>1. rows' = rows
      BY <1>3, <2>1 DEF NoticeWrite, TypeOK
    <3> QED BY <3>1, <1>0, TameSelf DEF TameRows, TypeOK
  <2>2. CASE o \in Ops
    <3>1. s \in Rows /\ Tame(rows[o], s)
      BY <1>0, <2>2 DEF Tame, Rows
    <3>2. \/ rows' = [rows EXCEPT ![o] = Closed(rows[o], "invalidated")]
          \/ rows' = [rows EXCEPT ![o] = s]
          \/ rows' = [rows EXCEPT ![o] = rows[o]]
      BY <1>3, <2>2 DEF NoticeWrite, TypeOK
    <3> HIDE DEF s, o
    <3> QED BY <1>0, <2>2, <3>1, <3>2, TameClosed, TameSelf, TameOne
  <2> QED BY <2>1, <2>2
<1>4. CASE WakeAck
  <2> DEFINE o == waker.op
             s == [rows[o] EXCEPT !.wake = waker.acked = "no"]
  <2>1. CASE o \notin Ops
    <3>1. rows' = rows
      BY <1>4, <2>1 DEF WakeAck, TypeOK
    <3> QED BY <3>1, <1>0, TameSelf DEF TameRows, TypeOK
  <2>2. CASE o \in Ops
    <3>1. s \in Rows /\ Tame(rows[o], s)
      BY <1>0, <2>2 DEF Tame, Rows
    <3>2. rows' = [rows EXCEPT ![o] = s]
      BY <1>4, <2>2 DEF WakeAck, TypeOK
    <3> HIDE DEF s, o
    <3> QED BY <2>2, <3>1, <3>2, TameOne
  <2> QED BY <2>1, <2>2
<1> QED BY <1>1, <1>2, <1>3, <1>4

-----------------------------------------------------------------------------
(* The actions, by what they change                                          *)

\* The operation of a caller that is not idle is one of Ops.
LEMMA HandOp ==
  ASSUME TypeOK, PermitInv, NEW c \in Callers
  PROVE  /\ hand[c].op \in Ops \cup {"none"} /\ "none" \notin Ops /\ hand[c].conf \in Nat
         /\ hand[c].stage \in {"idle", "bound", "permit", "effected", "registered"}
         /\ hand[c].stage # "idle" => hand[c].op \in Ops
         /\ hand[c].stage = "idle" <=> hand[c].op = "none"
  BY AuthorizationConstants DEF TypeOK, PermitInv, HandPart, AuthorizationConstants

\* The steps that write nothing a permit depends on.
Apart ==
  \/ ChangeScope \/ Suspend
  \/ \E o \in Ops : NoticeClaim(o) \/ WakeClaim(o)
  \/ NoticeRead \/ NoticeCrash \/ WakeContext \/ WakeCrash

\* The steps that write rows tamely and no hand.
RowsStep ==
  \/ \E o \in Ops : CancelRequest(o) \/ Age(o) \/ Reconcile(o)
  \/ SetPermission \/ RevokeGrant \/ StartAttempt \/ EndContext \/ NoticeWrite \/ WakeAck

\* The steps that only move hands where no permit is.
HandStep ==
  \/ \E c \in Callers : (\E o \in Ops : Bind(c, o)) \/ ClaimRefused(c) \/ CallerCrash(c)
  \/ AttemptLost

Answering == \E o \in Ops, u \in Users, approved, remember \in BOOLEAN : Answer(o, u, approved, remember)

LEMMA NextCases ==
  Next => \/ Apart \/ RowsStep \/ HandStep \/ Answering
          \/ \E c \in Callers : Claim(c) \/ Dispatch(c) \/ Finish(c)
  BY DEF Next, CallerNext, HumanNext, ContextNext, JobsNext, Apart, RowsStep, HandStep, Answering

\* The types of the variables, named.
Policies  == [manager : Users, version : Nat]
Conns     == [state : Modes, source : {"software", "connection"}]
Perms     == [id : Nat, allowed : BOOLEAN, conf : Nat, version : Nat, approver : Users]
Contexts  == [phase : {"running", "suspended", "queued", "done", "stopped"}, held : BOOLEAN,
              asked : SUBSET Ops, waits : SUBSET Ops, grant : BOOLEAN]
Hands     == [stage : {"idle", "bound", "permit", "effected", "registered"},
              op : Ops \cup {"none"}, conf : Nat, stale : BOOLEAN]
Notifiers == [op : Ops \cup {"none"}, usable : {"unread", "yes", "no"}]
Wakers    == [op : Ops \cup {"none"}, acked : {"unasked", "yes", "no"}]

TypeParts ==
  /\ rows \in [Ops -> Rows] /\ policy \in Policies /\ conn \in Conns /\ conf \in Nat
  /\ perm \in Perms /\ ctx \in Contexts /\ hand \in [Callers -> Hands]
  /\ notifier \in Notifiers /\ waker \in Wakers
  /\ effects \in [Ops -> 0 .. 2] /\ verdict \in [Ops -> {"none", "yes", "no"}]
  /\ changes \in 0 .. MaxChanges /\ wanted \subseteq Ops

LEMMA TypeEquiv == TypeOK <=> TypeParts
  BY DEF TypeOK, TypeParts, Policies, Conns, Perms, Contexts, Hands, Notifiers, Wakers

LEMMA ApartType ==
  ASSUME TypeParts, Apart
  PROVE  TypeParts' /\ UNCHANGED <<rows, hand, effects, verdict>>
<1>1. CASE ChangeScope
  <2>1. changes' \in 0 .. MaxChanges
    BY <1>1, AuthorizationConstants DEF ChangeScope, TypeParts, AuthorizationConstants
  <2>2. conn' \in Conns /\ conf' \in Nat /\ policy' \in Policies /\ ctx' \in Contexts
    <3>1. policy.version \in Nat
      BY DEF TypeParts, Policies
    <3>2. \A s \in Modes : [state |-> s, source |-> "connection"] \in Conns
      BY DEF Conns
    <3>3. \A u \in Users : [manager |-> u, version |-> policy.version + 1] \in Policies
      BY <3>1 DEF Policies
    <3>4. [ctx EXCEPT !.held = ~@] \in Contexts
      BY DEF TypeParts, Contexts
    <3> QED BY <1>1, <3>2, <3>3, <3>4 DEF ChangeScope, TypeParts
  <2> QED BY <1>1, <2>1, <2>2 DEF ChangeScope, TypeParts
<1>2. CASE Suspend \/ WakeContext
  <2>1. ctx' \in Contexts
    BY <1>2 DEF Suspend, WakeContext, TypeParts, Contexts
  <2>2. waker' \in Wakers
    BY <1>2 DEF Suspend, WakeContext, TypeParts, Wakers
  <2> QED BY <1>2, <2>1, <2>2 DEF Suspend, WakeContext, TypeParts
<1>3. ASSUME NEW o \in Ops, NoticeClaim(o) \/ WakeClaim(o)
      PROVE  TypeParts' /\ UNCHANGED <<rows, hand, effects, verdict>>
  <2>1. notifier' \in Notifiers /\ waker' \in Wakers
    BY <1>3 DEF NoticeClaim, WakeClaim, TypeParts, Notifiers, Wakers
  <2> QED BY <1>3, <2>1 DEF NoticeClaim, WakeClaim, TypeParts
<1>4. CASE NoticeRead \/ NoticeCrash \/ WakeCrash
  <2>1. notifier' \in Notifiers /\ waker' \in Wakers
    BY <1>4 DEF NoticeRead, NoticeCrash, WakeCrash, NoNotice, NoWake, TypeParts, Notifiers, Wakers
  <2> QED BY <1>4, <2>1 DEF NoticeRead, NoticeCrash, WakeCrash, TypeParts
<1> QED BY <1>1, <1>2, <1>3, <1>4 DEF Apart

LEMMA RowsStepType ==
  ASSUME TypeParts, PermitInv, RowsStep
  PROVE  TypeParts' /\ TameRows /\ UNCHANGED <<hand, effects, verdict>>
<1>1. TameRows
  BY TypeEquiv, TameCommands, TameJobs DEF RowsStep
<1>2. rows' \in [Ops -> Rows]
  BY <1>1 DEF TameRows
<1>3. ASSUME NEW o \in Ops, CancelRequest(o) \/ Age(o) \/ Reconcile(o)
      PROVE  TypeParts' /\ UNCHANGED <<hand, effects, verdict>>
  BY <1>2, <1>3 DEF CancelRequest, Age, Reconcile, TypeParts
<1>4. ASSUME changes < MaxChanges PROVE changes + 1 \in 0 .. MaxChanges
  BY <1>4, AuthorizationConstants DEF TypeParts, AuthorizationConstants
<1>5. CASE SetPermission
  <2>1. perm' \in Perms
    <3>1. changes \in Nat /\ conf \in Nat /\ policy.version \in Nat /\ policy.manager \in Users
      BY DEF TypeParts, Policies
    <3>2. PICK allowed \in {"yes", "no", "revoke"} :
            perm' = IF allowed = "revoke" THEN [perm EXCEPT !.id = 0]
                    ELSE [id |-> changes + 1, allowed |-> allowed = "yes", conf |-> conf,
                          version |-> policy.version, approver |-> policy.manager]
      BY <1>5 DEF SetPermission
    <3>3. [perm EXCEPT !.id = 0] \in Perms
      BY DEF TypeParts, Perms
    <3>4. [id |-> changes + 1, allowed |-> allowed = "yes", conf |-> conf,
           version |-> policy.version, approver |-> policy.manager] \in Perms
      BY <3>1 DEF Perms
    <3> QED BY <3>2, <3>3, <3>4
  <2> QED BY <1>2, <1>4, <1>5, <2>1, <1>1 DEF SetPermission, TypeParts
<1>6. CASE RevokeGrant \/ StartAttempt \/ EndContext
  <2>1. ctx' \in Contexts
    BY <1>6 DEF RevokeGrant, StartAttempt, EndContext, TypeParts, Contexts
  <2>2. changes' \in 0 .. MaxChanges
    BY <1>4, <1>6 DEF RevokeGrant, StartAttempt, EndContext, TypeParts
  <2> QED BY <1>1, <1>2, <1>6, <2>1, <2>2 DEF RevokeGrant, StartAttempt, EndContext, TypeParts
<1>7. CASE NoticeWrite \/ WakeAck
  <2>1. notifier' \in Notifiers /\ waker' \in Wakers
    BY <1>7 DEF NoticeWrite, WakeAck, NoNotice, NoWake, TypeParts, Notifiers, Wakers
  <2> QED BY <1>1, <1>2, <1>7, <2>1 DEF NoticeWrite, WakeAck, TypeParts
<1> QED BY <1>1, <1>3, <1>5, <1>6, <1>7 DEF RowsStep

\* A hand that loses what it held, or keeps it.
Looser(h, g) ==
  /\ g.stage = "idle" <=> g.op = "none"
  /\ g.stage \in Held => g.stage = h.stage /\ g.op = h.op /\ g.conf = h.conf

LEMMA IdleHand == Idle \in Hands /\ \A h : Looser(h, Idle)
  BY DEF Looser, Idle, Held, Hands

LEMMA HandStepType ==
  ASSUME TypeParts, PermitInv, HandStep
  PROVE  /\ TypeParts' /\ UNCHANGED <<rows, effects, verdict>>
         /\ \A c \in Callers : Looser(hand[c], hand'[c])
<1>0. \A d \in Callers : Looser(hand[d], hand[d]) /\ hand[d] \in Hands
  BY HandOp, TypeEquiv DEF Looser, TypeParts
<1>1. ASSUME NEW c \in Callers, NEW o \in Ops, Bind(c, o)
      PROVE  /\ TypeParts' /\ UNCHANGED <<rows, effects, verdict>>
             /\ \A d \in Callers : Looser(hand[d], hand'[d])
  <2> DEFINE g == [stage |-> "bound", op |-> o, conf |-> conf, stale |-> FALSE]
  <2>1. hand' = [hand EXCEPT ![c] = g]
    BY <1>1 DEF Bind
  <2>2. Looser(hand[c], g)
    BY AuthorizationConstants DEF Looser, Held, AuthorizationConstants
  <2>3. g \in Hands
    BY DEF TypeParts, Hands
  <2> HIDE DEF g
  <2>4. hand' \in [Callers -> Hands] /\ \A d \in Callers : Looser(hand[d], hand'[d])
    BY <1>0, <2>1, <2>2, <2>3 DEF TypeParts
  <2> QED BY <1>1, <2>4 DEF Bind, TypeParts
<1>2. ASSUME NEW c \in Callers, ClaimRefused(c) \/ CallerCrash(c)
      PROVE  /\ TypeParts' /\ UNCHANGED <<rows, effects, verdict>>
             /\ \A d \in Callers : Looser(hand[d], hand'[d])
  <2>1. hand' = [hand EXCEPT ![c] = Idle]
    BY <1>2 DEF ClaimRefused, CallerCrash
  <2>2. hand' \in [Callers -> Hands] /\ \A d \in Callers : Looser(hand[d], hand'[d])
    BY <1>0, <2>1, IdleHand DEF TypeParts
  <2> QED BY <1>2, <2>2 DEF ClaimRefused, CallerCrash, TypeParts
<1>3. CASE AttemptLost
  <2>1. ASSUME NEW d \in Callers
        PROVE  /\ [hand[d] EXCEPT !.stale = TRUE] \in Hands
               /\ Looser(hand[d], [hand[d] EXCEPT !.stale = TRUE])
    BY <1>0 DEF Hands, Looser
  <2>2. hand' \in [Callers -> Hands] /\ \A d \in Callers : Looser(hand[d], hand'[d])
    BY <1>3, <2>1, IdleHand DEF AttemptLost
  <2>3. ctx' \in Contexts
    BY <1>3 DEF AttemptLost, TypeParts, Contexts
  <2> QED BY <1>3, <2>2, <2>3 DEF AttemptLost, TypeParts
<1> QED BY <1>1, <1>2, <1>3 DEF HandStep

\* What a human answer does: the pending row expires, or is decided together
\* with the verdict.
LEMMA AnswerFacts ==
  ASSUME TypeParts, NEW o \in Ops, NEW u \in Users, NEW approved \in BOOLEAN, NEW remember \in BOOLEAN,
         Answer(o, u, approved, remember)
  PROVE  /\ rows[o].status = "pending" /\ UNCHANGED <<hand, effects>>
         /\ \E s \in Rows :
              /\ rows' = [rows EXCEPT ![o] = s]
              /\ s.conf = rows[o].conf /\ s.expected = rows[o].expected
              /\ \/ s.status = "expired" /\ UNCHANGED verdict
                 \/ s.status = "approved" /\ verdict' = [verdict EXCEPT ![o] = "yes"]
                 \/ s.status = "denied" /\ verdict' = [verdict EXCEPT ![o] = "no"]
<1> DEFINE r == rows[o]
           kept == [r EXCEPT
             !.perm   = IF remember /\ o \in RuntimeOps THEN changes + 1 ELSE @,
             !.mode   = IF remember /\ o \notin RuntimeOps
                        THEN IF approved THEN "enabled" ELSE "disabled" ELSE @,
             !.source = IF remember /\ o \notin RuntimeOps THEN "connection" ELSE @]
           status == IF approved THEN "approved" ELSE "denied"
           s == [Closed(kept, status) EXCEPT !.decision = "human", !.early = o \in RuntimeOps]
<1>1. r \in Rows /\ changes \in Nat
  BY DEF TypeParts
<1>2. /\ kept \in Rows /\ kept.conf = r.conf /\ kept.expected = r.expected
  <2> DEFINE p == IF remember /\ o \in RuntimeOps THEN changes + 1 ELSE r.perm
             m == IF remember /\ o \notin RuntimeOps
                  THEN IF approved THEN "enabled" ELSE "disabled" ELSE r.mode
             q == IF remember /\ o \notin RuntimeOps THEN "connection" ELSE r.source
  <2>1. p \in Nat
    BY <1>1 DEF Rows
  <2>2. m \in Modes
    BY <1>1 DEF Rows, Modes
  <2>3. q \in {"software", "connection"}
    BY <1>1 DEF Rows
  <2>4. kept = [r EXCEPT !.perm = p, !.mode = m, !.source = q]
    OBVIOUS
  <2> HIDE DEF p, m, q, kept, r
  <2>5. LET k == [r EXCEPT !.perm = p, !.mode = m, !.source = q]
        IN k \in Rows /\ k.conf = r.conf /\ k.expected = r.expected
    BY <1>1, <2>1, <2>2, <2>3 DEF Rows
  <2> QED BY <2>4, <2>5
<1>3. status \in Statuses
  BY DEF Statuses
<1>4. rows' = [rows EXCEPT ![o] = IF r.age > 0 THEN Closed(r, "expired") ELSE s]
  BY DEF Answer
<1> HIDE DEF kept
<1>5. /\ Closed(kept, status) \in Rows /\ Closed(kept, status).conf = r.conf
      /\ Closed(kept, status).expected = r.expected /\ Closed(kept, status).status = status
  BY <1>2, <1>3, RowUpdates, ClosedKeeps
<1>6. s \in Rows /\ s.conf = r.conf /\ s.expected = r.expected /\ s.status = status
  <2> DEFINE k == Closed(kept, status)
             b == o \in RuntimeOps
  <2>1. s = [k EXCEPT !.decision = "human", !.early = b]
    OBVIOUS
  <2>2. k \in Rows /\ k.conf = r.conf /\ k.expected = r.expected /\ k.status = status
    BY <1>5
  <2>3. b \in BOOLEAN
    OBVIOUS
  <2> HIDE DEF k, s, status, b, r
  <2>4. s \in Rows /\ s.conf = k.conf /\ s.expected = k.expected /\ s.status = k.status
    BY <2>1, <2>2, <2>3 DEF Rows
  <2> QED BY <2>2, <2>4
<1>7. /\ r.status = "pending" /\ UNCHANGED <<hand, effects>>
      /\ r.age > 0 => UNCHANGED verdict
      /\ ~(r.age > 0) => verdict' = [verdict EXCEPT ![o] = IF approved THEN "yes" ELSE "no"]
  BY DEF Answer
<1> HIDE DEF s
<1>8. CASE r.age > 0
  <2>1. /\ Closed(r, "expired") \in Rows /\ Closed(r, "expired").status = "expired"
        /\ Closed(r, "expired").conf = r.conf /\ Closed(r, "expired").expected = r.expected
    BY <1>1, RowUpdates, ClosedKeeps, Names
  <2> QED BY <1>4, <1>7, <1>8, <2>1
<1>9. CASE ~(r.age > 0)
  BY <1>4, <1>6, <1>7, <1>9
<1> QED BY <1>8, <1>9

LEMMA AnswerType ==
  ASSUME TypeParts, NEW o \in Ops, NEW u \in Users, NEW approved \in BOOLEAN, NEW remember \in BOOLEAN,
         Answer(o, u, approved, remember)
  PROVE  TypeParts'
<1>1. rows' \in [Ops -> Rows] /\ verdict' \in [Ops -> {"none", "yes", "no"}]
  BY AnswerFacts DEF TypeParts
<1>2. changes' \in 0 .. MaxChanges
  BY AuthorizationConstants DEF Answer, TypeParts, AuthorizationConstants
<1>3. perm' \in Perms
  <2>1. rows[o].conf \in Nat /\ rows[o].version \in Nat /\ changes \in Nat
    BY DEF TypeParts, Rows
  <2>2. [id |-> changes + 1, allowed |-> approved, conf |-> rows[o].conf,
         version |-> rows[o].version, approver |-> u] \in Perms
    BY <2>1 DEF Perms
  <2> QED BY <2>2 DEF Answer, TypeParts
<1>4. conn' \in Conns
  BY DEF Answer, TypeParts, Conns, Modes
<1> QED BY <1>1, <1>2, <1>3, <1>4 DEF Answer, TypeParts

\* What a claim does: the permit goes from an approved row, stored or new,
\* into the hand; or the hand is emptied and the row at most closed.
LEMMA ClaimFacts ==
  ASSUME TypeParts, PermitInv, NEW c \in Callers, Claim(c)
  PROVE  LET o == hand[c].op
         IN /\ o \in Ops /\ hand[c].stage = "bound" /\ Claimable(o, hand[c].conf)
            /\ UNCHANGED effects
            /\ \E s \in Rows, g \in Hands, v \in {"none", "yes", "no"} :
                 /\ rows' = [rows EXCEPT ![o] = s] /\ hand' = [hand EXCEPT ![c] = g]
                 /\ verdict' = [verdict EXCEPT ![o] = v]
                 /\ v = verdict[o] \/ (rows[o].status = "absent" /\ v = "yes")
                 /\ \/ /\ g = Idle
                       /\ \/ /\ rows[o].status = "absent" /\ ~s.expected
                             /\ s.status \in Open \cup {"expired", "invalidated"}
                             /\ s.status = "approved" => v = "yes"
                          \/ rows[o].status # "absent" /\ Tame(rows[o], s)
                    \/ /\ g.stage = "permit" /\ g.op = o /\ g.conf = hand[c].conf
                       /\ s.status = "executing" /\ s.conf = g.conf /\ ~s.expected
                       /\ rows[o].status \in {"absent", "approved"} /\ v = "yes"
<1> DEFINE o == hand[c].op
           cf == hand[c].conf
           r == Revalidated(o, cf)
           granted == r.status = "approved" /\ r.conf = cf /\ DispatchAvailable(o, r)
           s == IF granted THEN [r EXCEPT !.status = "executing", !.notice = FALSE]
                ELSE IF r.status \in {"expired", "invalidated"} THEN Closed(r, r.status) ELSE r
           g == IF granted THEN [hand[c] EXCEPT !.stage = "permit"] ELSE Idle
           v == IF rows[o].status = "absent" /\ r.decision = "runtime_policy" THEN "yes" ELSE verdict[o]
<1>1. /\ hand[c].stage = "bound" /\ Claimable(o, cf)
      /\ rows' = [rows EXCEPT ![o] = s] /\ hand' = [hand EXCEPT ![c] = g]
      /\ verdict' = [verdict EXCEPT ![o] = v] /\ UNCHANGED effects
  BY DEF Claim
<1>2. o \in Ops /\ cf \in Nat /\ hand[c] \in Hands /\ rows[o] \in Rows
      /\ verdict[o] \in {"none", "yes", "no"}
  BY <1>1, HandOp, TypeEquiv DEF TypeParts
<1>3. /\ r \in Rows
      /\ rows[o].status = "absent" =>
           r.conf = cf /\ ~r.expected /\ r.status \in Open \cup {"expired", "invalidated"}
           /\ (r.status = "approved" => r.decision = "runtime_policy")
      /\ rows[o].status \in Open =>
           r.conf = rows[o].conf /\ r.expected = rows[o].expected
           /\ r.status \in {rows[o].status, "expired", "invalidated"}
      /\ rows[o].status \notin Unclaimed => r = rows[o]
  BY <1>2, TypeEquiv, RevalidatedFacts
<1>4. RowPart(o)
  BY <1>2 DEF PermitInv
<1> HIDE DEF r
<1>5. v \in {"none", "yes", "no"} /\ (v = verdict[o] \/ (rows[o].status = "absent" /\ v = "yes"))
  BY <1>2
<1>6. CASE granted
  <2>1. /\ s \in Rows /\ s.status = "executing" /\ s.conf = r.conf /\ s.expected = r.expected
    BY <1>3, <1>6 DEF Rows, Statuses
  <2>2. g \in Hands /\ g.stage = "permit" /\ g.op = o /\ g.conf = cf
    BY <1>2, <1>6 DEF Hands
  <2>3. rows[o].status \in {"absent", "approved"} /\ ~r.expected
    BY <1>3, <1>4, <1>6 DEF RowPart, Unclaimed, Open
  <2>4. v = "yes"
    BY <1>3, <1>4, <1>6, <2>3 DEF RowPart
  <2> HIDE DEF s, g, v
  <2> QED BY <1>1, <1>2, <1>5, <1>6, <2>1, <2>2, <2>3, <2>4
<1>7. CASE ~granted
  <2>1. /\ s \in Rows /\ s.status = r.status /\ s.conf = r.conf /\ s.expected = r.expected
    <3>1. CASE r.status \in {"expired", "invalidated"}
      <4>1. s = Closed(r, r.status) /\ r.status \in Statuses
        BY <1>7, <3>1, Names
      <4> HIDE DEF s, granted
      <4>2. s \in Rows
        BY <1>3, <4>1, RowUpdates
      <4>3. s.status = r.status /\ s.conf = r.conf /\ s.expected = r.expected
        BY <1>3, <4>1, ClosedKeeps
      <4> QED BY <4>2, <4>3
    <3>2. CASE r.status \notin {"expired", "invalidated"}
      BY <1>3, <1>7, <3>2
    <3> QED BY <3>1, <3>2
  <2>2. g = Idle
    BY <1>7
  <2>3. CASE rows[o].status = "absent"
    <3>1. ~s.expected /\ s.status \in Open \cup {"expired", "invalidated"}
      BY <1>3, <2>1, <2>3
    <3>2. s.status = "approved" => v = "yes"
      BY <1>3, <2>1, <2>3
    <3> HIDE DEF s, g, v
    <3> QED BY <1>1, <1>2, <1>5, <2>1, <2>2, <2>3, <3>1, <3>2, IdleHand
  <2>4. CASE rows[o].status # "absent"
    <3>1. Tame(rows[o], s)
      BY <1>2, <1>3, <2>1, <2>4 DEF Tame, Unclaimed
    <3> HIDE DEF s, g, v
    <3> QED BY <1>1, <1>2, <1>5, <2>1, <2>2, <2>4, <3>1, IdleHand
  <2> QED BY <2>3, <2>4
<1> QED BY <1>6, <1>7

LEMMA ClaimType ==
  ASSUME TypeParts, PermitInv, NEW c \in Callers, Claim(c)
  PROVE  TypeParts'
<1>1. /\ rows' \in [Ops -> Rows] /\ hand' \in [Callers -> Hands]
      /\ verdict' \in [Ops -> {"none", "yes", "no"}] /\ hand[c].op \in Ops
  BY ClaimFacts DEF TypeParts
<1>2. ctx' \in Contexts
  BY <1>1 DEF Claim, TypeParts, Contexts
<1> QED BY <1>1, <1>2 DEF Claim, TypeParts

LEMMA DispatchFacts ==
  ASSUME TypeParts, PermitInv, NEW c \in Callers, Dispatch(c)
  PROVE  LET o == hand[c].op
         IN /\ o \in Ops /\ hand[c].stage = "permit" /\ TypeParts' /\ UNCHANGED <<rows, verdict>>
            /\ effects' = [effects EXCEPT ![o] = 1]
            /\ \E g \in Hands : /\ hand' = [hand EXCEPT ![c] = g]
                                /\ g.stage = "effected" /\ g.op = o /\ g.conf = hand[c].conf
<1> DEFINE o == hand[c].op
           g == [hand[c] EXCEPT !.stage = "effected"]
<1>1. hand[c].stage = "permit" /\ hand' = [hand EXCEPT ![c] = g] /\ UNCHANGED <<rows, verdict>>
  BY DEF Dispatch
<1>2. o \in Ops /\ effects[o] = 0
  BY <1>1, HandOp, TypeEquiv DEF PermitInv, HandPart
<1>3. effects' = [effects EXCEPT ![o] = 1]
  BY <1>2 DEF Dispatch, TypeParts
<1>4. g \in Hands /\ g.stage = "effected" /\ g.op = o /\ g.conf = hand[c].conf
  BY DEF TypeParts, Hands
<1> HIDE DEF g
<1>5. TypeParts'
  BY <1>1, <1>2, <1>3, <1>4 DEF Dispatch, TypeParts
<1> QED BY <1>1, <1>2, <1>3, <1>4, <1>5

\* What the report of a caller does.  On a registered permit it can only leave
\* the outcome open: a completion waits for the worker, a failure is reported
\* from the permit itself.
LEMMA FinishFacts ==
  ASSUME TypeParts, PermitInv, NEW c \in Callers, Finish(c)
  PROVE  LET o == hand[c].op
         IN /\ o \in Ops /\ TypeParts' /\ UNCHANGED <<effects, verdict>>
            /\ hand' = hand \/ hand' = [hand EXCEPT ![c] = Idle]
            /\ \E s \in Rows :
                 /\ rows' = [rows EXCEPT ![o] = s]
                 /\ s.conf = rows[o].conf /\ s.expected = rows[o].expected
                 /\ \/ s = rows[o]
                    \/ /\ rows[o].status \in {"executing", "outcome_unknown"}
                       /\ s.status \in {"completed", "failed", "outcome_unknown"}
                       /\ rows[o].expected => s.status = "outcome_unknown"
<1> DEFINE o == hand[c].op
<1>1. PICK outcome \in {"completed", "failed", "outcome_unknown"}, receipt \in BOOLEAN :
        /\ hand[c].stage \in Held
        /\ outcome = "failed" => hand[c].stage = "permit" \/ o \in RuntimeOps
        /\ rows' = [rows EXCEPT ![o] = Finished(@, outcome, receipt, FALSE)]
        /\ hand' = hand \/ hand' = [hand EXCEPT ![c] = Idle]
        /\ UNCHANGED <<policy, conn, conf, perm, ctx, notifier, waker, effects, verdict, changes, wanted>>
  BY DEF Finish, Held
<1>2. o \in Ops /\ rows[o] \in Rows
  BY <1>1, HandOp, TypeEquiv DEF Held, TypeParts
<1> DEFINE s == Finished(rows[o], outcome, receipt, FALSE)
<1>3. /\ s \in Rows /\ s.conf = rows[o].conf /\ s.expected = rows[o].expected
      /\ s = rows[o] \/ (/\ rows[o].status \in {"executing", "outcome_unknown"} /\ s.status = outcome
                         /\ ~(rows[o].expected /\ outcome = "completed"))
  <2> DEFINE r == rows[o]
             t == [r EXCEPT !.status = outcome]
  <2>1. r \in Rows
    BY <1>2
  <2> HIDE DEF r
  <2>2. t \in Rows /\ t.conf = r.conf /\ t.expected = r.expected /\ t.status = outcome
    BY <1>1, <2>1 DEF Rows, Statuses
  <2>3. s \in {r, t}
    BY DEF Finished, r
  <2> HIDE DEF t
  <2>4. s # r => /\ r.status \in {"executing", "outcome_unknown"}
                 /\ ~(r.expected /\ outcome = "completed")
    BY DEF Finished, r
  <2> HIDE DEF s
  <2> QED BY <2>1, <2>2, <2>3, <2>4 DEF r
<1>4. rows[o].expected => outcome # "failed"
  BY <1>1, <1>2 DEF PermitInv, HandPart, RowPart, Held
<1>5. rows' = [rows EXCEPT ![o] = s]
  BY <1>1
<1> HIDE DEF s
<1>6. TypeParts'
  BY <1>1, <1>2, <1>3, <1>5, IdleHand DEF TypeParts
<1> QED BY <1>1, <1>2, <1>3, <1>4, <1>5, <1>6

LEMMA RegisterFacts ==
  ASSUME TypeParts, PermitInv, NEW c \in Callers, RegisterDeferred(c)
  PROVE  LET o == hand[c].op
         IN /\ o \in Ops \ RuntimeOps /\ hand[c].stage = "permit" /\ TypeParts'
            /\ UNCHANGED <<effects, verdict>>
            /\ \E s \in Rows : /\ rows' = [rows EXCEPT ![o] = s] /\ s.expected
                               /\ s.status = "executing" /\ rows[o].status = "executing"
                               /\ s.conf = rows[o].conf
            /\ \E g \in Hands : /\ hand' = [hand EXCEPT ![c] = g]
                                /\ g.stage = "registered" /\ g.op = o /\ g.conf = hand[c].conf
<1> DEFINE o == hand[c].op
           g == [hand[c] EXCEPT !.stage = "registered"]
           s == [rows[o] EXCEPT !.expected = TRUE]
<1>1. /\ hand[c].stage = "permit" /\ o \notin RuntimeOps /\ rows[o].status = "executing"
      /\ hand' = [hand EXCEPT ![c] = g] /\ rows' = [rows EXCEPT ![o] = s] /\ UNCHANGED <<effects, verdict>>
  BY DEF RegisterDeferred
<1>2. o \in Ops /\ rows[o] \in Rows
  BY <1>1, HandOp, TypeEquiv DEF TypeParts
<1>3. g \in Hands /\ g.stage = "registered" /\ g.op = o /\ g.conf = hand[c].conf
  BY DEF TypeParts, Hands
<1>4. s \in Rows /\ s.expected /\ s.status = rows[o].status /\ s.conf = rows[o].conf
  BY <1>2 DEF Rows
<1> HIDE DEF g, s
<1>5. TypeParts'
  BY <1>1, <1>2, <1>3, <1>4 DEF RegisterDeferred, TypeParts
<1> QED BY <1>1, <1>2, <1>3, <1>4, <1>5
-----------------------------------------------------------------------------
(* The permit                                                                *)

\* What keeps the permit where it is: the agreed configuration and the
\* registration stay, no row becomes claimable again, a refusal stays one.
Kept(r, s) ==
  /\ s.conf = r.conf /\ s.expected = r.expected
  /\ s.status \in Unclaimed => s.status = r.status
  /\ r.status \in {"denied", "invalidated"} => s.status \in {"denied", "invalidated"}

LEMMA TameIsKept ==
  ASSUME NEW r, NEW s, Tame(r, s) PROVE Kept(r, s)
  BY DEF Tame, Kept, Unclaimed, Open

LEMMA PermitKept ==
  ASSUME TypeParts, TypeParts', PermitInv, UNCHANGED <<effects, verdict>>,
         \A o \in Ops : Kept(rows[o], rows'[o]),
         \A c \in Callers : Looser(hand[c], hand'[c])
  PROVE  PermitInv'
<1>1. ASSUME NEW o \in Ops PROVE RowPart(o)'
  BY <1>1 DEF PermitInv, RowPart, Kept, Unclaimed, Open
<1>2. ASSUME NEW c \in Callers PROVE HandPart(c)'
  <2>1. HandPart(c) /\ Looser(hand[c], hand'[c])
    BY <1>2 DEF PermitInv
  <2>2. hand'[c].stage = "idle" <=> hand'[c].op = "none"
    BY <2>1 DEF Looser
  <2>3. ASSUME hand'[c].stage \in Held
        PROVE  LET o == hand[c].op
               IN /\ hand'[c].stage = hand[c].stage /\ hand'[c].op = o /\ hand'[c].conf = hand[c].conf
                  /\ o \in Ops /\ Kept(rows[o], rows'[o])
    BY <1>2, <2>1, <2>3, HandOp, TypeEquiv DEF Looser, Held
  <2> QED BY <2>1, <2>2, <2>3 DEF HandPart, Kept, Unclaimed, Held
<1>3. OneHand'
  BY DEF PermitInv, OneHand, Looser
<1> QED BY <1>1, <1>2, <1>3 DEF PermitInv

\* A step on one row, its effects and its verdict, by the one hand that may
\* hold its permit.
Moves(c, o, s, g, e, v) ==
  /\ rows' = [rows EXCEPT ![o] = s] /\ hand' = [hand EXCEPT ![c] = g]
  /\ effects' = [effects EXCEPT ![o] = e] /\ verdict' = [verdict EXCEPT ![o] = v]
  /\ s.status \in Unclaimed => e = 0 /\ ~s.expected
  /\ s.status = "approved" => v = "yes"
  /\ s.expected => v = "yes" /\ o \notin RuntimeOps
  /\ e \in 0 .. 1 /\ (e > 0 => v = "yes")
  /\ v = "no" => s.status \in {"denied", "invalidated"}
  /\ g = Idle \/ (/\ g.stage \in Held /\ g.op = o /\ v = "yes" /\ s.conf = g.conf
                  /\ s.status \notin Unclaimed
                  /\ g.stage = "registered" <=> s.expected
                  /\ g.stage = "permit" => e = 0)
  /\ \A d \in Callers \ {c} : ~(hand[d].stage \in Held /\ hand[d].op = o)

LEMMA PermitMoves ==
  ASSUME TypeParts, PermitInv, NEW c \in Callers, NEW o \in Ops, NEW s, NEW g, NEW e, NEW v,
         Moves(c, o, s, g, e, v)
  PROVE  PermitInv'
<1>1. /\ \A p \in Ops : /\ rows'[p] = IF p = o THEN s ELSE rows[p]
                        /\ effects'[p] = IF p = o THEN e ELSE effects[p]
                        /\ verdict'[p] = IF p = o THEN v ELSE verdict[p]
      /\ \A d \in Callers : hand'[d] = IF d = c THEN g ELSE hand[d]
  BY DEF TypeParts, Moves
<1>2. ASSUME NEW p \in Ops PROVE RowPart(p)'
  BY <1>1, <1>2 DEF PermitInv, RowPart, Moves
<1>3. ASSUME NEW d \in Callers PROVE HandPart(d)'
  <2>1. CASE d = c /\ g = Idle
    BY <1>1, <2>1 DEF HandPart, Idle, Held
  <2>2. CASE d = c /\ g # Idle
    <3>1. "none" \notin Ops
      BY AuthorizationConstants DEF AuthorizationConstants
    <3> QED BY <1>1, <2>2, <3>1 DEF HandPart, Held, Moves
  <2>3. CASE d # c
    <3>1. HandPart(d) /\ hand'[d] = hand[d] /\ (hand[d].stage \in Held => hand[d].op \in Ops \ {o})
      BY <1>1, <1>3, <2>3, HandOp, TypeEquiv DEF PermitInv, Held, Moves
    <3> QED BY <1>1, <3>1 DEF HandPart, Held
  <2> QED BY <2>1, <2>2, <2>3
<1>4. OneHand'
  <2>1. ASSUME NEW d \in Callers, NEW k \in Callers, hand'[d].stage \in Held, hand'[k].stage \in Held,
               hand'[d].op = hand'[k].op
        PROVE  d = k
    BY <1>1, <2>1 DEF PermitInv, OneHand, Idle, Held, Moves
  <2> QED BY <2>1 DEF OneHand
<1> QED BY <1>2, <1>3, <1>4 DEF PermitInv

LEMMA ClaimPermit ==
  ASSUME TypeParts, PermitInv, NEW c \in Callers, Claim(c)
  PROVE  PermitInv'
<1> DEFINE o == hand[c].op
<1>1. o \in Ops /\ hand[c].stage = "bound" /\ UNCHANGED effects /\ TypeParts'
  BY ClaimFacts, ClaimType
<1>2. PICK s \in Rows, g \in Hands, v \in {"none", "yes", "no"} :
        /\ rows' = [rows EXCEPT ![o] = s] /\ hand' = [hand EXCEPT ![c] = g]
        /\ verdict' = [verdict EXCEPT ![o] = v]
        /\ v = verdict[o] \/ (rows[o].status = "absent" /\ v = "yes")
        /\ \/ /\ g = Idle
              /\ \/ /\ rows[o].status = "absent" /\ ~s.expected
                    /\ s.status \in Open \cup {"expired", "invalidated"}
                    /\ s.status = "approved" => v = "yes"
                 \/ rows[o].status # "absent" /\ Tame(rows[o], s)
           \/ /\ g.stage = "permit" /\ g.op = o /\ g.conf = hand[c].conf
              /\ s.status = "executing" /\ s.conf = g.conf /\ ~s.expected
              /\ rows[o].status \in {"absent", "approved"} /\ v = "yes"
  BY ClaimFacts
<1>3. RowPart(o) /\ \A d \in Callers : HandPart(d)
  BY <1>1 DEF PermitInv
<1> HIDE DEF o
<1>4. effects[o] \in 0 .. 2 /\ effects' = [effects EXCEPT ![o] = effects[o]]
  BY <1>1 DEF TypeParts
<1>5. CASE rows[o].status # "absent" /\ Tame(rows[o], s) /\ g = Idle
  <2>1. UNCHANGED verdict
    BY <1>1, <1>2, <1>5 DEF TypeParts
  <2>2. \A p \in Ops : Kept(rows[p], rows'[p])
    <3>1. \A p \in Ops : rows'[p] = IF p = o THEN s ELSE rows[p]
      BY <1>2 DEF TypeParts
    <3> QED BY <1>5, <3>1, TameIsKept, TameSelf
  <2>3. \A d \in Callers : Looser(hand[d], hand'[d])
    <3>1. \A d \in Callers : hand'[d] = IF d = c THEN Idle ELSE hand[d]
      BY <1>2, <1>5 DEF TypeParts
    <3>2. \A d \in Callers : Looser(hand[d], hand[d])
      BY HandOp, TypeEquiv DEF Looser
    <3> QED BY <3>1, <3>2, IdleHand
  <2> QED BY <1>1, <2>1, <2>2, <2>3, PermitKept
<1>6. CASE rows[o].status \in Unclaimed
           /\ ~(rows[o].status # "absent" /\ Tame(rows[o], s) /\ g = Idle)
  <2>1. \A d \in Callers \ {c} : ~(hand[d].stage \in Held /\ hand[d].op = o)
    BY <1>3, <1>6 DEF HandPart
  <2>2. effects[o] = 0
    BY <1>3, <1>6 DEF RowPart
  <2>3. v = "no" => FALSE
    BY <1>2, <1>3, <1>6 DEF RowPart, Unclaimed, Open
  <2>4. ~s.expected /\ (s.status = "approved" => v = "yes")
    BY <1>2, <1>6
  <2>5. g = Idle \/ (/\ g.stage \in Held /\ g.op = o /\ v = "yes" /\ s.conf = g.conf
                     /\ s.status \notin Unclaimed
                     /\ g.stage = "registered" <=> s.expected
                     /\ g.stage = "permit" => effects[o] = 0)
    BY <1>2, <1>6, <2>2 DEF Held, Unclaimed, Open
  <2>6. Moves(c, o, s, g, effects[o], v)
    BY <1>2, <1>4, <2>1, <2>2, <2>3, <2>4, <2>5 DEF Moves
  <2> QED BY <1>1, <2>6, PermitMoves
<1> QED BY <1>2, <1>5, <1>6 DEF Unclaimed, Open

LEMMA DispatchPermit ==
  ASSUME TypeParts, PermitInv, NEW c \in Callers, Dispatch(c)
  PROVE  PermitInv'
<1> DEFINE o == hand[c].op
<1>1. /\ o \in Ops /\ hand[c].stage = "permit" /\ UNCHANGED <<rows, verdict>>
      /\ effects' = [effects EXCEPT ![o] = 1]
  BY DispatchFacts
<1>2. PICK g \in Hands : /\ hand' = [hand EXCEPT ![c] = g]
                         /\ g.stage = "effected" /\ g.op = o /\ g.conf = hand[c].conf
  BY DispatchFacts
<1>3. RowPart(o) /\ HandPart(c)
  BY <1>1 DEF PermitInv
<1>4. \A d \in Callers \ {c} : ~(hand[d].stage \in Held /\ hand[d].op = o)
  BY <1>1 DEF PermitInv, OneHand, Held
<1>5. /\ rows[o] \in Rows /\ verdict[o] \in {"none", "yes", "no"}
      /\ rows' = [rows EXCEPT ![o] = rows[o]] /\ verdict' = [verdict EXCEPT ![o] = verdict[o]]
  BY <1>1 DEF TypeParts
<1>6. /\ verdict[o] = "yes" /\ rows[o].conf = hand[c].conf /\ rows[o].status \notin Unclaimed
      /\ ~rows[o].expected
  BY <1>1, <1>3 DEF HandPart, Held
<1> HIDE DEF o
<1>7. g.stage \in Held /\ g.stage # "registered" /\ g.stage # "permit" /\ 1 \in 0 .. 2
  BY <1>2 DEF Held
<1>8. rows[o].status # "approved"
  BY <1>6 DEF Unclaimed, Open
<1>9. Moves(c, o, rows[o], g, 1, verdict[o])
  <2>1. /\ g.stage \in Held /\ g.op = o /\ verdict[o] = "yes" /\ rows[o].conf = g.conf
        /\ rows[o].status \notin Unclaimed
        /\ g.stage = "registered" <=> rows[o].expected
        /\ g.stage = "permit" => 1 = 0
    BY <1>2, <1>6, <1>7
  <2>2. /\ rows' = [rows EXCEPT ![o] = rows[o]] /\ hand' = [hand EXCEPT ![c] = g]
        /\ effects' = [effects EXCEPT ![o] = 1] /\ verdict' = [verdict EXCEPT ![o] = verdict[o]]
    BY <1>1, <1>2, <1>5
  <2>3. /\ 1 \in 0 .. 1 /\ rows[o].status # "approved" /\ ~rows[o].expected
        /\ verdict[o] = "yes" /\ verdict[o] # "no"
    BY <1>6, <1>8
  <2> QED BY <1>4, <2>1, <2>2, <2>3 DEF Moves
<1> QED BY <1>1, <1>9, PermitMoves

LEMMA RegisterPermit ==
  ASSUME TypeParts, PermitInv, NEW c \in Callers, RegisterDeferred(c)
  PROVE  PermitInv'
<1> DEFINE o == hand[c].op
<1>1. o \in Ops \ RuntimeOps /\ hand[c].stage = "permit" /\ UNCHANGED <<effects, verdict>>
  BY RegisterFacts
<1>2. PICK g \in Hands : /\ hand' = [hand EXCEPT ![c] = g]
                         /\ g.stage = "registered" /\ g.op = o /\ g.conf = hand[c].conf
  BY RegisterFacts
<1>3. PICK s \in Rows : /\ rows' = [rows EXCEPT ![o] = s] /\ s.expected
                        /\ s.status = "executing" /\ s.conf = rows[o].conf
  BY RegisterFacts
<1>4. RowPart(o) /\ HandPart(c)
  BY <1>1 DEF PermitInv
<1>5. \A d \in Callers \ {c} : ~(hand[d].stage \in Held /\ hand[d].op = o)
  BY <1>1 DEF PermitInv, OneHand, Held
<1>6. /\ effects[o] \in 0 .. 2 /\ verdict[o] \in {"none", "yes", "no"}
      /\ effects' = [effects EXCEPT ![o] = effects[o]] /\ verdict' = [verdict EXCEPT ![o] = verdict[o]]
  BY <1>1 DEF TypeParts
<1>7. verdict[o] = "yes" /\ rows[o].conf = hand[c].conf /\ effects[o] <= 1
  BY <1>1, <1>4 DEF HandPart, RowPart, Held
<1> HIDE DEF o
<1>8. g.stage \in Held /\ g.stage # "permit" /\ s.status \notin Unclaimed /\ s.status # "approved"
  BY <1>2, <1>3 DEF Held, Unclaimed, Open
<1>9. Moves(c, o, s, g, effects[o], verdict[o])
  <2>1. /\ g.stage \in Held /\ g.op = o /\ verdict[o] = "yes" /\ s.conf = g.conf
        /\ s.status \notin Unclaimed
        /\ g.stage = "registered" <=> s.expected
        /\ g.stage = "permit" => effects[o] = 0
    BY <1>2, <1>3, <1>7, <1>8
  <2>2. /\ rows' = [rows EXCEPT ![o] = s] /\ hand' = [hand EXCEPT ![c] = g]
        /\ effects' = [effects EXCEPT ![o] = effects[o]]
        /\ verdict' = [verdict EXCEPT ![o] = verdict[o]]
    BY <1>2, <1>3, <1>6
  <2>3. /\ effects[o] \in 0 .. 1 /\ s.status # "approved" /\ o \notin RuntimeOps
        /\ verdict[o] = "yes" /\ verdict[o] # "no"
    BY <1>1, <1>6, <1>7, <1>8
  <2> QED BY <1>5, <2>1, <2>2, <2>3 DEF Moves
<1> QED BY <1>1, <1>9, PermitMoves

\* Nobody holds the permit of a row that is still to be answered.
LEMMA AnswerPermit ==
  ASSUME TypeParts, PermitInv, Answering
  PROVE  TypeParts' /\ PermitInv'
<1>1. PICK o \in Ops, u \in Users, approved \in BOOLEAN, remember \in BOOLEAN :
        Answer(o, u, approved, remember)
  BY DEF Answering
<1>2. TypeParts' /\ rows[o].status = "pending" /\ UNCHANGED <<hand, effects>>
  BY <1>1, AnswerFacts, AnswerType
<1>3. PICK s \in Rows :
        /\ rows' = [rows EXCEPT ![o] = s]
        /\ s.conf = rows[o].conf /\ s.expected = rows[o].expected
        /\ \/ s.status = "expired" /\ UNCHANGED verdict
           \/ s.status = "approved" /\ verdict' = [verdict EXCEPT ![o] = "yes"]
           \/ s.status = "denied" /\ verdict' = [verdict EXCEPT ![o] = "no"]
  BY <1>1, AnswerFacts
<1>4. \A p \in Ops : /\ rows'[p] = IF p = o THEN s ELSE rows[p]
                     /\ p # o => verdict'[p] = verdict[p]
  BY <1>3 DEF TypeParts
<1>5. \/ s.status = "expired" /\ verdict'[o] = verdict[o]
      \/ s.status = "approved" /\ verdict'[o] = "yes"
      \/ s.status = "denied" /\ verdict'[o] = "no"
  BY <1>3 DEF TypeParts
<1>6. RowPart(o) /\ \A d \in Callers : HandPart(d)
  BY DEF PermitInv
<1>7. effects[o] = 0 /\ ~rows[o].expected /\ verdict[o] # "no"
  BY <1>2, <1>6 DEF RowPart, Unclaimed, Open
<1>8. ASSUME NEW p \in Ops PROVE RowPart(p)'
  <2>1. CASE p = o
    BY <1>2, <1>3, <1>4, <1>5, <1>7, <2>1 DEF RowPart, Unclaimed, Open
  <2>2. CASE p # o
    BY <1>2, <1>4, <1>8, <2>2 DEF PermitInv, RowPart
  <2> QED BY <2>1, <2>2
<1>9. ASSUME NEW d \in Callers PROVE HandPart(d)'
  <2>1. hand[d].stage \in Held => hand[d].op \in Ops \ {o}
    BY <1>2, <1>6, <1>9, HandOp, TypeEquiv DEF HandPart, Unclaimed, Open, Held
  <2> QED BY <1>2, <1>4, <1>6, <1>9, <2>1 DEF HandPart, Held
<1>10. OneHand'
  BY <1>2 DEF PermitInv, OneHand
<1> QED BY <1>2, <1>8, <1>9, <1>10 DEF PermitInv

LEMMA FinishPermit ==
  ASSUME TypeParts, PermitInv, NEW c \in Callers, Finish(c)
  PROVE  PermitInv'
<1> DEFINE o == hand[c].op
<1>1. /\ o \in Ops /\ TypeParts' /\ UNCHANGED <<effects, verdict>>
      /\ hand' = hand \/ hand' = [hand EXCEPT ![c] = Idle]
  BY FinishFacts
<1>2. PICK s \in Rows :
        /\ rows' = [rows EXCEPT ![o] = s]
        /\ s.conf = rows[o].conf /\ s.expected = rows[o].expected
        /\ \/ s = rows[o]
           \/ /\ rows[o].status \in {"executing", "outcome_unknown"}
              /\ s.status \in {"completed", "failed", "outcome_unknown"}
  BY FinishFacts
<1> HIDE DEF o
<1>3. \A p \in Ops : Kept(rows[p], rows'[p])
  <2>1. \A p \in Ops : rows'[p] = IF p = o THEN s ELSE rows[p]
    BY <1>2 DEF TypeParts
  <2>2. Kept(rows[o], s)
    BY <1>2 DEF Kept, Unclaimed, Open
  <2>3. \A p \in Ops : Kept(rows[p], rows[p])
    BY DEF Kept
  <2> QED BY <2>1, <2>2, <2>3
<1>4. \A d \in Callers : Looser(hand[d], hand'[d])
  <2>1. \A d \in Callers : hand'[d] \in {Idle, hand[d]}
    BY <1>1 DEF TypeParts
  <2>2. \A d \in Callers : Looser(hand[d], hand[d])
    BY HandOp, TypeEquiv DEF Looser
  <2> QED BY <2>1, <2>2, IdleHand
<1> QED BY <1>1, <1>3, <1>4, PermitKept

\* The steps of ActionAuthorizations keep the types and the permits.
LEMMA NextPermit ==
  ASSUME TypeParts, PermitInv, Next
  PROVE  TypeParts' /\ PermitInv'
<1>0. /\ \A d \in Callers : Looser(hand[d], hand[d])
      /\ \A p \in Ops : Kept(rows[p], rows[p])
  BY HandOp, TypeEquiv DEF Looser, Kept
<1>1. CASE Apart
  BY <1>0, <1>1, ApartType, PermitKept
<1>2. CASE RowsStep
  <2>1. \A p \in Ops : Kept(rows[p], rows'[p])
    BY <1>2, RowsStepType, TameIsKept DEF TameRows
  <2> QED BY <1>0, <1>2, <2>1, RowsStepType, PermitKept
<1>3. CASE HandStep
  BY <1>0, <1>3, HandStepType, PermitKept
<1>4. ASSUME NEW c \in Callers, Claim(c) \/ Dispatch(c) \/ Finish(c) PROVE TypeParts' /\ PermitInv'
  BY <1>4, ClaimType, ClaimPermit, DispatchFacts, DispatchPermit, FinishFacts, FinishPermit
<1> QED BY <1>1, <1>2, <1>3, <1>4, AnswerPermit, NextCases
-----------------------------------------------------------------------------
(* The generation                                                            *)

\* What the authorizations' own steps may do under a generation: to a
\* registered permit, close it as invalidated or leave its outcome open; or
\* register it, before any effect.
JobSafe(o) ==
  \/ /\ rows'[o].expected = rows[o].expected
     /\ rows[o].expected =>
          /\ effects'[o] = effects[o]
          /\ rows'[o].status \in {rows[o].status, "invalidated", "outcome_unknown"}
          /\ rows[o].status \in Settled => rows'[o].status \in Settled
  \/ /\ ~rows[o].expected /\ rows'[o].expected
     /\ rows'[o].status = "executing" /\ effects'[o] = 0

LEMMA TameIsSafe ==
  ASSUME PermitInv, NEW o \in Ops, Tame(rows[o], rows'[o]), effects'[o] = effects[o]
  PROVE  JobSafe(o)
<1>1. RowPart(o)
  BY DEF PermitInv
<1>2. rows[o].expected => rows[o].status \notin Open
  BY <1>1 DEF RowPart, Unclaimed
<1> QED BY <1>2 DEF Tame, JobSafe, Open, Settled

LEMMA ClaimSafe ==
  ASSUME TypeParts, PermitInv, NEW c \in Callers, Claim(c), NEW p \in Ops
  PROVE  JobSafe(p)
<1> DEFINE o == hand[c].op
<1>1. o \in Ops /\ UNCHANGED effects
  BY ClaimFacts
<1>2. PICK s \in Rows :
        /\ rows' = [rows EXCEPT ![o] = s]
        /\ \/ rows[o].status \in Unclaimed /\ ~s.expected
           \/ Tame(rows[o], s)
  BY ClaimFacts DEF Unclaimed, Open
<1>3. rows'[p] = IF p = o THEN s ELSE rows[p]
  BY <1>2 DEF TypeParts
<1> HIDE DEF o
<1>4. CASE p = o /\ rows[o].status \in Unclaimed /\ ~s.expected
  <2>1. RowPart(o) /\ rows[o] \in Rows
    BY <1>1 DEF PermitInv, TypeParts
  <2>2. rows[o].expected = FALSE /\ s.expected = FALSE
    BY <1>4, <2>1 DEF RowPart, Rows
  <2> QED BY <1>3, <1>4, <2>2 DEF JobSafe
<1>5. CASE ~(p = o /\ rows[o].status \in Unclaimed /\ ~s.expected)
  <2>1. Tame(rows[p], rows'[p])
    BY <1>2, <1>3, <1>5, TameSelf
  <2> QED BY <1>1, <2>1, TameIsSafe
<1> QED BY <1>4, <1>5

LEMMA NextSafe ==
  ASSUME TypeParts, PermitInv, Next \/ \E c \in Callers : RegisterDeferred(c), NEW p \in Ops
  PROVE  JobSafe(p)
<1>0. rows' = rows /\ effects' = effects => JobSafe(p)
  BY DEF JobSafe
<1>1. CASE Apart \/ HandStep
  BY <1>0, <1>1, ApartType, HandStepType
<1>2. CASE RowsStep
  BY <1>2, RowsStepType, TameIsSafe DEF TameRows
<1>3. CASE Answering
  <2>1. PICK o \in Ops, u \in Users, approved \in BOOLEAN, remember \in BOOLEAN :
          Answer(o, u, approved, remember)
    BY <1>3 DEF Answering
  <2>2. /\ rows[o].status = "pending" /\ UNCHANGED effects
        /\ \E s \in Rows : rows' = [rows EXCEPT ![o] = s] /\ s.expected = rows[o].expected
    BY <2>1, AnswerFacts
  <2>3. ~rows[o].expected
    BY <2>2 DEF PermitInv, RowPart, Unclaimed, Open
  <2>4. CASE p = o
    BY <2>2, <2>3, <2>4 DEF JobSafe, TypeParts
  <2>5. CASE p # o
    <3>1. rows'[p] = rows[p]
      BY <2>2, <2>5 DEF TypeParts
    <3> QED BY <2>2, <3>1 DEF JobSafe
  <2> QED BY <2>4, <2>5
<1>4. ASSUME NEW c \in Callers, Dispatch(c) PROVE JobSafe(p)
  <2>1. /\ hand[c].op \in Ops /\ hand[c].stage = "permit" /\ UNCHANGED rows
        /\ effects' = [effects EXCEPT ![hand[c].op] = 1]
    BY <1>4, DispatchFacts
  <2>2. ~rows[hand[c].op].expected
    BY <2>1 DEF PermitInv, HandPart, Held
  <2> QED BY <2>1, <2>2 DEF JobSafe, TypeParts
<1>5. ASSUME NEW c \in Callers, Finish(c) PROVE JobSafe(p)
  <2> DEFINE o == hand[c].op
  <2>1. o \in Ops /\ UNCHANGED effects
    BY <1>5, FinishFacts
  <2>2. PICK s \in Rows :
          /\ rows' = [rows EXCEPT ![o] = s] /\ s.expected = rows[o].expected
          /\ \/ s = rows[o]
             \/ /\ rows[o].status \in {"executing", "outcome_unknown"}
                /\ rows[o].expected => s.status = "outcome_unknown"
    BY <1>5, FinishFacts
  <2>3. rows'[p] = IF p = o THEN s ELSE rows[p]
    BY <2>2 DEF TypeParts
  <2> HIDE DEF o
  <2> QED BY <2>1, <2>2, <2>3 DEF JobSafe, Settled
<1>6. ASSUME NEW c \in Callers, RegisterDeferred(c) PROVE JobSafe(p)
  <2> DEFINE o == hand[c].op
  <2>1. o \in Ops /\ hand[c].stage = "permit" /\ UNCHANGED effects
    BY <1>6, RegisterFacts
  <2>2. PICK s \in Rows : rows' = [rows EXCEPT ![o] = s] /\ s.expected /\ s.status = "executing"
    BY <1>6, RegisterFacts
  <2>3. ~rows[o].expected /\ effects[o] = 0
    BY <2>1 DEF PermitInv, HandPart, Held
  <2>4. rows'[p] = IF p = o THEN s ELSE rows[p]
    BY <2>2 DEF TypeParts
  <2> HIDE DEF o
  <2> QED BY <2>1, <2>2, <2>3, <2>4 DEF JobSafe
<1> QED BY <1>1, <1>2, <1>3, <1>4, <1>5, <1>6, ClaimSafe, NextCases

Workers == [stage : Stages, op : Ops \cup {"none"}]

JobTypes == job \in [Ops -> Jobs] /\ worker \in Workers /\ files \in [Ops -> 0 .. 2]

MediaParts == TypeParts /\ JobTypes /\ PermitInv /\ JobInv

LEMMA MediaEquiv == MediaInv <=> MediaParts
  BY TypeEquiv DEF MediaInv, MediaParts, MediaTypeOK, JobTypes, Workers

\* What a worker that is not idle finds.
LEMMA WorkerJob ==
  ASSUME MediaParts, worker.stage # "idle"
  PROVE  LET o == worker.op
         IN /\ o \in Ops
            /\ WorkerOn(worker.stage, rows[o], job[o], effects[o], files[o])
            /\ rows[o].expected
  BY AuthorizationConstants
     DEF MediaParts, JobTypes, Workers, JobInv, WorkerOn, PermitOf, AuthorizationConstants

LEMMA OpFacts ==
  ASSUME MediaParts, NEW o \in Ops
  PROVE  /\ rows[o] \in Rows /\ job[o] \in Jobs /\ effects[o] \in 0 .. 2 /\ files[o] \in 0 .. 2
         /\ PermitOf(rows[o], job[o], effects[o]) /\ RecordOf(job[o], files[o]) /\ RowPart(o)
         /\ rows = [rows EXCEPT ![o] = rows[o]] /\ job = [job EXCEPT ![o] = job[o]]
         /\ effects = [effects EXCEPT ![o] = effects[o]] /\ files = [files EXCEPT ![o] = files[o]]
  BY DEF MediaParts, TypeParts, JobTypes, JobInv, PermitInv

LEMMA BasePreserved ==
  ASSUME MediaParts, Next \/ \E c \in Callers : RegisterDeferred(c), UNCHANGED mediaVars
  PROVE  MediaParts'
<1>1. TypeParts' /\ PermitInv'
  BY NextPermit, RegisterFacts, RegisterPermit DEF MediaParts
<1>2. JobTypes' /\ UNCHANGED <<job, worker, files>>
  BY DEF MediaParts, JobTypes, mediaVars
<1>3. ASSUME NEW o \in Ops
      PROVE  /\ JobSafe(o) /\ PermitOf(rows[o], job[o], effects[o]) /\ RecordOf(job[o], files[o])
  BY <1>3, NextSafe DEF MediaParts, JobInv
<1>4. ASSUME NEW o \in Ops
      PROVE  PermitOf(rows'[o], job[o], effects'[o])
  BY <1>3, <1>4 DEF JobSafe, PermitOf, RecordOf, Settled
<1>5. ASSUME worker.stage # "idle"
      PROVE  LET o == worker.op IN WorkerOn(worker.stage, rows'[o], job[o], effects'[o], files[o])
  <2>1. /\ worker.op \in Ops /\ rows[worker.op].expected
        /\ WorkerOn(worker.stage, rows[worker.op], job[worker.op], effects[worker.op], files[worker.op])
    BY <1>5, WorkerJob
  <2> QED BY <1>3, <2>1 DEF JobSafe, WorkerOn
<1>6. JobInv'
  BY <1>2, <1>3, <1>4, <1>5 DEF MediaParts, JobInv
<1> QED BY <1>1, <1>2, <1>6 DEF MediaParts
-----------------------------------------------------------------------------
(* The steps of the generation and its worker                                *)

\* A step on the generation of one operation: what becomes of its row s, its
\* generation j, its effects e, its files n and the worker w.
JobStep(o, s, j, e, n, w) ==
  /\ rows' = [rows EXCEPT ![o] = s] /\ job' = [job EXCEPT ![o] = j]
  /\ effects' = [effects EXCEPT ![o] = e] /\ files' = [files EXCEPT ![o] = n]
  /\ worker' = w /\ j \in Jobs /\ n \in 0 .. 2
  /\ PermitOf(s, j, e) /\ RecordOf(j, n)
  /\ \/ w = NoWork
     \/ w \in Workers /\ w.op = o /\ w.stage # "idle" /\ WorkerOn(w.stage, s, j, e, n)
     \/ w = worker /\ worker.op # o

LEMMA JobMoves ==
  ASSUME MediaParts, NEW o \in Ops, NEW s, NEW j, NEW e, NEW n, NEW w, JobStep(o, s, j, e, n, w)
  PROVE  JobTypes' /\ JobInv'
<1>1. \A p \in Ops : /\ rows'[p] = IF p = o THEN s ELSE rows[p]
                     /\ job'[p] = IF p = o THEN j ELSE job[p]
                     /\ effects'[p] = IF p = o THEN e ELSE effects[p]
                     /\ files'[p] = IF p = o THEN n ELSE files[p]
  BY DEF MediaParts, TypeParts, JobTypes, JobStep
<1>2. NoWork \in Workers /\ NoWork.stage = "idle" /\ NoWork.op = "none"
  BY DEF NoWork, Workers, Stages
<1>3. JobTypes'
  BY <1>2 DEF MediaParts, JobTypes, JobStep
<1>4. \A p \in Ops : PermitOf(rows'[p], job'[p], effects'[p]) /\ RecordOf(job'[p], files'[p])
  BY <1>1 DEF MediaParts, JobInv, JobStep
<1>5. worker'.stage = "idle" <=> worker'.op = "none"
  BY <1>2, AuthorizationConstants DEF MediaParts, JobInv, JobStep, AuthorizationConstants
<1>6. ASSUME worker'.stage # "idle"
      PROVE  LET p == worker'.op IN WorkerOn(worker'.stage, rows'[p], job'[p], effects'[p], files'[p])
  <2>1. CASE w.op = o /\ WorkerOn(w.stage, s, j, e, n)
    BY <1>1, <2>1 DEF JobStep
  <2>2. CASE w = worker /\ worker.op # o
    BY <1>1, <1>6, <2>2, WorkerJob DEF JobStep
  <2> QED BY <1>2, <1>6, <2>1, <2>2 DEF JobStep
<1> QED BY <1>3, <1>4, <1>5, <1>6 DEF JobInv

\* Nothing a permit depends on changes.
LEMMA PermitApart ==
  ASSUME MediaParts, TypeParts', UNCHANGED <<rows, hand, effects, verdict>>
  PROVE  PermitInv'
<1>1. \A d \in Callers : Looser(hand[d], hand[d])
  BY HandOp, TypeEquiv DEF Looser, MediaParts
<1>2. \A p \in Ops : Kept(rows[p], rows[p])
  BY DEF Kept
<1> QED BY <1>1, <1>2, PermitKept DEF MediaParts

\* Only a generation and the worker change.
LEMMA OnlyJob ==
  ASSUME MediaParts, NEW o \in Ops, NEW j \in Jobs, NEW w, UNCHANGED <<vars, files>>,
         job' = [job EXCEPT ![o] = j], worker' = w,
         PermitOf(rows[o], j, effects[o]), RecordOf(j, files[o]),
         \/ w = NoWork
         \/ w \in Workers /\ w.op = o /\ w.stage # "idle"
            /\ WorkerOn(w.stage, rows[o], j, effects[o], files[o])
         \/ w = worker /\ worker.op # o
  PROVE  MediaParts'
<1>1. TypeParts'
  BY DEF MediaParts, TypeParts, vars
<1>2. PermitInv'
  BY <1>1, PermitApart DEF vars
<1>3. JobStep(o, rows[o], j, effects[o], files[o], w)
  BY OpFacts DEF JobStep, vars
<1> QED BY <1>1, <1>2, <1>3, JobMoves DEF MediaParts

\* Only the worker moves on.
LEMMA OnlyWorker ==
  ASSUME MediaParts, worker.stage # "idle", NEW stage \in Stages \ {"idle"},
         UNCHANGED <<vars, job, files>>, Goto(stage),
         LET o == worker.op IN WorkerOn(stage, rows[o], job[o], effects[o], files[o])
  PROVE  MediaParts'
<1> DEFINE w == [worker EXCEPT !.stage = stage]
           o == worker.op
<1>1. o \in Ops
  BY WorkerJob
<1>2. worker' = w /\ w \in Workers /\ w.op = o /\ w.stage = stage
  BY DEF Goto, MediaParts, JobTypes, Workers
<1>3. /\ job[o] \in Jobs /\ job' = [job EXCEPT ![o] = job[o]]
      /\ PermitOf(rows[o], job[o], effects[o]) /\ RecordOf(job[o], files[o])
  BY <1>1, OpFacts
<1> HIDE DEF w, o
<1>4. WorkerOn(stage, rows[o], job[o], effects[o], files[o])
  BY DEF o
<1> QED BY <1>1, <1>2, <1>3, <1>4, OnlyJob

\* The generation changes, and the worker moves on.
LEMMA JobAndStage ==
  ASSUME MediaParts, worker.stage # "idle", NEW stage \in Stages \ {"idle"}, NEW j \in Jobs,
         UNCHANGED <<vars, files>>, job' = [job EXCEPT ![worker.op] = j], Goto(stage),
         LET o == worker.op
         IN /\ PermitOf(rows[o], j, effects[o]) /\ RecordOf(j, files[o])
            /\ WorkerOn(stage, rows[o], j, effects[o], files[o])
  PROVE  MediaParts'
<1> DEFINE w == [worker EXCEPT !.stage = stage]
           o == worker.op
<1>1. o \in Ops
  BY WorkerJob
<1>2. worker' = w /\ w \in Workers /\ w.op = o /\ w.stage = stage
  BY DEF Goto, MediaParts, JobTypes, Workers
<1>3. /\ job' = [job EXCEPT ![o] = j] /\ PermitOf(rows[o], j, effects[o]) /\ RecordOf(j, files[o])
      /\ WorkerOn(stage, rows[o], j, effects[o], files[o])
  OBVIOUS
<1> HIDE DEF w, o
<1> QED BY <1>1, <1>2, <1>3, OnlyJob

\* What the lease and the claim marker do not change.
Alike(j, k) ==
  /\ k.status = j.status /\ k.submission = j.submission /\ k.provider = j.provider
  /\ k.receipt = j.receipt /\ k.settled = j.settled

LEMMA LeaseUpdates ==
  ASSUME NEW j \in Jobs
  PROVE  /\ [j EXCEPT !.leased = TRUE] \in Jobs /\ Alike(j, [j EXCEPT !.leased = TRUE])
         /\ [j EXCEPT !.leased = FALSE] \in Jobs /\ Alike(j, [j EXCEPT !.leased = FALSE])
         /\ [j EXCEPT !.claimed = TRUE] \in Jobs /\ Alike(j, [j EXCEPT !.claimed = TRUE])
  BY DEF Jobs, Alike

LEMMA AlikeKeeps ==
  ASSUME NEW s, NEW j, NEW k, NEW e, NEW n, NEW stage, Alike(j, k), PermitOf(s, j, e), RecordOf(j, n)
  PROVE  /\ PermitOf(s, k, e) /\ RecordOf(k, n)
         /\ WorkerOn(stage, s, j, e, n) => WorkerOn(stage, s, k, e, n)
  BY DEF Alike, PermitOf, RecordOf, WorkerOn

LEMMA ReleasePreserved ==
  ASSUME MediaParts, worker.stage # "idle", Release, UNCHANGED <<vars, files>>
  PROVE  MediaParts'
<1> DEFINE o == worker.op
           j == [job[o] EXCEPT !.leased = FALSE]
<1>1. o \in Ops
  BY WorkerJob
<1>2. j \in Jobs /\ Alike(job[o], j)
  BY <1>1, OpFacts, LeaseUpdates
<1>3. worker' = NoWork /\ job' = [job EXCEPT ![o] = j]
  BY DEF Release
<1>4. PermitOf(rows[o], job[o], effects[o]) /\ RecordOf(job[o], files[o])
  BY <1>1, OpFacts
<1> HIDE DEF j, o
<1>5. PermitOf(rows[o], j, effects[o]) /\ RecordOf(j, files[o])
  BY <1>2, <1>4, AlikeKeeps
<1> QED BY <1>1, <1>2, <1>3, <1>5, OnlyJob

LEMMA TickPreserved ==
  ASSUME MediaParts, NEW o \in Ops, Tick(o)
  PROVE  MediaParts'
<1> DEFINE j == [job[o] EXCEPT !.leased = TRUE]
           stage == IF job[o].status \in Terminal THEN "settle"
                    ELSE IF job[o].claimed THEN "continue" ELSE "claim"
           w == [op |-> o, stage |-> stage]
<1>1. job' = [job EXCEPT ![o] = j] /\ worker' = w /\ UNCHANGED <<vars, files>> /\ job[o].status # "absent"
  BY DEF Tick
<1>2. j \in Jobs /\ Alike(job[o], j)
  BY OpFacts, LeaseUpdates
<1>3. stage \in Stages \ {"idle", "settled", "post", "create", "record"}
      /\ (stage = "settle" <=> job[o].status \in Terminal)
  BY DEF Stages
<1> HIDE DEF j, stage
<1>4. w \in Workers /\ w.op = o /\ w.stage = stage
  BY <1>3 DEF Workers
<1> HIDE DEF w
<1>5. WorkerOn(stage, rows[o], job[o], effects[o], files[o])
  BY <1>1, <1>3 DEF WorkerOn
<1>6. PermitOf(rows[o], job[o], effects[o]) /\ RecordOf(job[o], files[o])
  BY OpFacts
<1>7. /\ PermitOf(rows[o], j, effects[o]) /\ RecordOf(j, files[o])
      /\ WorkerOn(stage, rows[o], j, effects[o], files[o])
  BY <1>2, <1>5, <1>6, AlikeKeeps
<1> QED BY <1>1, <1>2, <1>3, <1>4, <1>7, OnlyJob

\* A generation that is not ended: its permit was neither completed nor
\* failed, and an ending can be published.
LEMMA PublishedFacts ==
  ASSUME NEW s \in Rows, NEW j \in Jobs, NEW e, NEW n, NEW result \in Terminal,
         j.status \in {"open"}, PermitOf(s, j, e), RecordOf(j, n),
         result = "success" => j.receipt = "delivered"
  PROVE  LET k == Published(j, result)
         IN /\ k \in Jobs /\ PermitOf(s, k, e) /\ RecordOf(k, n)
            /\ WorkerOn("settle", s, k, e, n)
<1> DEFINE k == [j EXCEPT !.status = result]
<1>1. Published(j, result) = k
  BY DEF Published, Terminal
<1>2. /\ k \in Jobs /\ k.status = result /\ k.submission = j.submission /\ k.provider = j.provider
      /\ k.receipt = j.receipt /\ k.settled = j.settled
  BY DEF Jobs, Terminal
<1> HIDE DEF k
<1>3. PermitOf(s, k, e)
  BY <1>2 DEF PermitOf, Terminal
<1>4. RecordOf(k, n)
  BY <1>2 DEF RecordOf, Terminal
<1>5. WorkerOn("settle", s, k, e, n)
  BY <1>2 DEF WorkerOn, Terminal
<1> QED BY <1>1, <1>2, <1>3, <1>4, <1>5
\* What a worker finds before the generation ended.
LEMMA OpenJob ==
  ASSUME MediaParts, worker.stage \notin {"idle", "settle", "settled"}
  PROVE  job[worker.op].status = "open"
<1>1. worker.op \in Ops /\ worker.stage # "idle"
      /\ WorkerOn(worker.stage, rows[worker.op], job[worker.op], effects[worker.op], files[worker.op])
  BY WorkerJob
<1>2. job[worker.op] \in Jobs
  BY <1>1, OpFacts
<1> QED BY <1>1, <1>2 DEF WorkerOn, Jobs, Terminal

LEMMA AdmitPreserved ==
  ASSUME MediaParts, NEW c \in Callers, Admit(c)
  PROVE  MediaParts'
<1> DEFINE o == hand[c].op
           j == [job[o] EXCEPT !.status = "open"]
<1>1. /\ hand[c].stage = "registered" /\ job[o].status = "absent" /\ job' = [job EXCEPT ![o] = j]
      /\ worker' = worker /\ UNCHANGED <<vars, files>>
  BY DEF Admit
<1>2. o \in Ops /\ rows[o].expected
  BY <1>1, HandOp, TypeEquiv DEF MediaParts, PermitInv, HandPart, Held
<1>3. job[o] \in Jobs /\ PermitOf(rows[o], job[o], effects[o]) /\ RecordOf(job[o], files[o])
  BY <1>2, OpFacts
<1>4. worker.op # o
  BY <1>1, <1>2, WorkerJob, AuthorizationConstants
     DEF WorkerOn, MediaParts, JobInv, AuthorizationConstants
<1> HIDE DEF o
<1>5. /\ j \in Jobs /\ j.status = "open" /\ j.submission = job[o].submission
      /\ j.provider = job[o].provider /\ j.receipt = job[o].receipt /\ j.settled = job[o].settled
  BY <1>3 DEF Jobs
<1> HIDE DEF j
<1>6. PermitOf(rows[o], j, effects[o]) /\ RecordOf(j, files[o])
  BY <1>1, <1>2, <1>3, <1>5 DEF PermitOf, RecordOf
<1> QED BY <1>1, <1>2, <1>4, <1>5, <1>6, OnlyJob

\* A step of the worker on the row of its permit.
LEMMA RowAndStage ==
  ASSUME MediaParts, worker.stage # "idle", NEW stage \in Stages \ {"idle"}, NEW s \in Rows, NEW j \in Jobs,
         UNCHANGED <<policy, conn, conf, perm, ctx, hand, notifier, waker, effects, verdict, changes,
                     wanted, files>>,
         rows' = [rows EXCEPT ![worker.op] = s], job' = [job EXCEPT ![worker.op] = j], Goto(stage),
         Kept(rows[worker.op], s),
         LET o == worker.op
         IN /\ PermitOf(s, j, effects[o]) /\ RecordOf(j, files[o])
            /\ WorkerOn(stage, s, j, effects[o], files[o])
  PROVE  MediaParts'
<1> DEFINE w == [worker EXCEPT !.stage = stage]
           o == worker.op
<1>1. o \in Ops
  BY WorkerJob
<1>2. worker' = w /\ w \in Workers /\ w.op = o /\ w.stage = stage
  BY DEF Goto, MediaParts, JobTypes, Workers
<1>3. TypeParts'
  BY DEF MediaParts, TypeParts
<1>4. PermitInv'
  <2>1. \A p \in Ops : Kept(rows[p], rows'[p])
    <3>1. \A p \in Ops : rows'[p] = IF p = o THEN s ELSE rows[p]
      BY DEF MediaParts, TypeParts
    <3>2. \A p \in Ops : Kept(rows[p], rows[p])
      BY DEF Kept
    <3> QED BY <3>1, <3>2
  <2>2. \A d \in Callers : Looser(hand[d], hand[d])
    BY HandOp, TypeEquiv DEF Looser, MediaParts
  <2> QED BY <1>3, <2>1, <2>2, PermitKept DEF MediaParts
<1>5. /\ rows' = [rows EXCEPT ![o] = s] /\ job' = [job EXCEPT ![o] = j]
      /\ PermitOf(s, j, effects[o]) /\ RecordOf(j, files[o])
      /\ WorkerOn(stage, s, j, effects[o], files[o])
  OBVIOUS
<1>6. effects' = [effects EXCEPT ![o] = effects[o]] /\ files' = [files EXCEPT ![o] = files[o]]
      /\ files[o] \in 0 .. 2
  BY <1>1, OpFacts
<1> HIDE DEF w, o
<1>7. JobStep(o, s, j, effects[o], files[o], w)
  BY <1>2, <1>5, <1>6 DEF JobStep
<1> QED BY <1>1, <1>3, <1>4, <1>7, JobMoves DEF MediaParts

LEMMA RefusedPreserved ==
  ASSUME MediaParts, worker.stage \in {"claim", "continue"}, NEW continuation \in BOOLEAN,
         PermitRefused(continuation)
  PROVE  MediaParts'
<1> DEFINE o == worker.op
           s == IF DeferredOpen(rows[o], continuation) THEN DeferredRefused(rows[o]) ELSE rows[o]
           j == Published(job[o], "error")
<1>1. /\ rows' = [rows EXCEPT ![o] = s] /\ job' = [job EXCEPT ![o] = j] /\ Goto("settle")
      /\ UNCHANGED <<policy, conn, conf, perm, ctx, hand, notifier, waker, effects, verdict, changes,
                     wanted, files>>
  BY DEF PermitRefused
<1>2. o \in Ops /\ worker.stage # "idle" /\ job[o].status = "open"
  BY WorkerJob, OpenJob
<1>3. /\ rows[o] \in Rows /\ job[o] \in Jobs
      /\ PermitOf(rows[o], job[o], effects[o]) /\ RecordOf(job[o], files[o])
  BY <1>2, OpFacts
<1>4. /\ s \in Rows /\ s.conf = rows[o].conf /\ s.expected = rows[o].expected
      /\ s.status \in {rows[o].status, "invalidated"}
  BY <1>3 DEF DeferredRefused, Rows, Statuses
<1> HIDE DEF s
<1>5. Kept(rows[o], s) /\ PermitOf(s, job[o], effects[o])
  BY <1>3, <1>4 DEF Kept, PermitOf, Unclaimed, Open, Settled
<1>6. j \in Jobs /\ PermitOf(s, j, effects[o]) /\ RecordOf(j, files[o])
      /\ WorkerOn("settle", s, j, effects[o], files[o])
  <2> HIDE DEF o
  <2>1. "error" \in Terminal /\ "error" # "success"
    BY DEF Terminal
  <2> QED BY <1>2, <1>3, <1>4, <1>5, <2>1, PublishedFacts
<1>7. "settle" \in Stages \ {"idle"}
  BY DEF Stages
<1> HIDE DEF j
<1> QED BY <1>1, <1>2, <1>4, <1>5, <1>6, <1>7, RowAndStage

LEMMA ClaimStartPreserved ==
  ASSUME MediaParts, ClaimStart
  PROVE  MediaParts'
<1>0. worker.stage = "claim"
  BY DEF ClaimStart
<1>1. CASE PermitRefused(FALSE)
  BY <1>0, <1>1, RefusedPreserved
<1>2. CASE PermitSuspended(FALSE)
  BY <1>0, <1>2, ReleasePreserved DEF PermitSuspended
<1>3. CASE /\ rows' = [rows EXCEPT ![worker.op].started = TRUE] /\ Goto("mark")
           /\ UNCHANGED <<policy, conn, conf, perm, ctx, hand, notifier, waker, effects, verdict,
                          changes, wanted, job, files>>
  <2> DEFINE o == worker.op
             s == [rows[o] EXCEPT !.started = TRUE]
  <2>1. /\ o \in Ops /\ WorkerOn("claim", rows[o], job[o], effects[o], files[o])
    BY <1>0, WorkerJob
  <2>2. /\ rows[o] \in Rows /\ job[o] \in Jobs /\ job' = [job EXCEPT ![o] = job[o]]
        /\ PermitOf(rows[o], job[o], effects[o]) /\ RecordOf(job[o], files[o])
    BY <1>3, <2>1, OpFacts
  <2>3. rows' = [rows EXCEPT ![o] = s]
    BY <1>3
  <2>4. s \in Rows /\ s.conf = rows[o].conf /\ s.expected = rows[o].expected /\ s.status = rows[o].status
    BY <2>2 DEF Rows
  <2> HIDE DEF s
  <2>5. Kept(rows[o], s) /\ PermitOf(s, job[o], effects[o]) /\ "mark" \in Stages \ {"idle"}
    BY <2>2, <2>4 DEF Kept, PermitOf, Stages
  <2>6. WorkerOn("mark", s, job[o], effects[o], files[o])
    BY <2>1 DEF WorkerOn
  <2> QED BY <1>0, <1>3, <2>2, <2>3, <2>4, <2>5, <2>6, RowAndStage
<1> QED BY <1>1, <1>2, <1>3 DEF ClaimStart

LEMMA ContinuePreserved ==
  ASSUME MediaParts, Continue
  PROVE  MediaParts'
<1>0. worker.stage = "continue"
  BY DEF Continue
<1>1. CASE PermitRefused(TRUE)
  BY <1>0, <1>1, RefusedPreserved
<1>2. CASE PermitSuspended(TRUE)
  BY <1>0, <1>2, ReleasePreserved DEF PermitSuspended
<1>3. CASE Goto("submit") /\ UNCHANGED <<vars, job, files>>
  <2> DEFINE o == worker.op
  <2>1. WorkerOn("submit", rows[o], job[o], effects[o], files[o]) /\ "submit" \in Stages \ {"idle"}
    BY <1>0, WorkerJob DEF WorkerOn, Stages
  <2> QED BY <1>0, <1>3, <2>1, OnlyWorker
<1> QED BY <1>1, <1>2, <1>3 DEF Continue

LEMMA MarkClaimedPreserved ==
  ASSUME MediaParts, MarkClaimed
  PROVE  MediaParts'
<1> DEFINE o == worker.op
           j == [job[o] EXCEPT !.claimed = TRUE]
<1>1. worker.stage = "mark" /\ job' = [job EXCEPT ![o] = j] /\ Goto("continue") /\ UNCHANGED <<vars, files>>
  BY DEF MarkClaimed
<1>2. o \in Ops /\ WorkerOn("mark", rows[o], job[o], effects[o], files[o])
  BY <1>1, WorkerJob
<1>3. /\ j \in Jobs /\ Alike(job[o], j)
      /\ PermitOf(rows[o], job[o], effects[o]) /\ RecordOf(job[o], files[o])
  BY <1>2, OpFacts, LeaseUpdates
<1>4. WorkerOn("continue", rows[o], job[o], effects[o], files[o]) /\ "continue" \in Stages \ {"idle"}
  BY <1>2 DEF WorkerOn, Stages
<1> HIDE DEF j
<1>5. /\ PermitOf(rows[o], j, effects[o]) /\ RecordOf(j, files[o])
      /\ WorkerOn("continue", rows[o], j, effects[o], files[o])
  BY <1>3, <1>4, AlikeKeeps
<1> QED BY <1>1, <1>3, <1>4, <1>5, JobAndStage

LEMMA AccessLostPreserved ==
  ASSUME MediaParts, AccessLost
  PROVE  MediaParts'
<1> DEFINE o == worker.op
           j == Published(job[o], "error")
           w == [worker EXCEPT !.stage = "settle"]
<1>1. /\ worker.stage \in {"submit", "poll", "deliver"} /\ job' = [job EXCEPT ![o] = j] /\ worker' = w
      /\ changes < MaxChanges /\ changes' = changes + 1
      /\ UNCHANGED <<rows, policy, conn, conf, perm, ctx, hand, notifier, waker, effects, verdict,
                     wanted, files>>
  BY DEF AccessLost, Goto
<1>2. o \in Ops /\ worker.stage # "idle" /\ job[o].status = "open"
  BY <1>1, WorkerJob, OpenJob
<1>3. changes' \in 0 .. MaxChanges
  BY <1>1, AuthorizationConstants DEF MediaParts, TypeParts, AuthorizationConstants
<1>4. TypeParts'
  BY <1>1, <1>3 DEF MediaParts, TypeParts
<1>5. w \in Workers /\ w.op = o /\ w.stage = "settle"
  BY DEF MediaParts, JobTypes, Workers, Stages
<1>6. /\ rows[o] \in Rows /\ job[o] \in Jobs /\ files[o] \in 0 .. 2
      /\ PermitOf(rows[o], job[o], effects[o]) /\ RecordOf(job[o], files[o])
      /\ rows = [rows EXCEPT ![o] = rows[o]]
      /\ effects = [effects EXCEPT ![o] = effects[o]] /\ files = [files EXCEPT ![o] = files[o]]
  BY <1>2, OpFacts
<1> HIDE DEF o, w
<1>7. j \in Jobs /\ PermitOf(rows[o], j, effects[o]) /\ RecordOf(j, files[o])
      /\ WorkerOn("settle", rows[o], j, effects[o], files[o])
  <2>1. "error" \in Terminal /\ "error" # "success"
    BY DEF Terminal
  <2> QED BY <1>2, <1>6, <2>1, PublishedFacts
<1> HIDE DEF j
<1>8. JobStep(o, rows[o], j, effects[o], files[o], w)
  BY <1>1, <1>5, <1>6, <1>7 DEF JobStep
<1> QED BY <1>1, <1>2, <1>4, <1>8, JobMoves, PermitApart DEF MediaParts
LEMMA ClaimSubmissionPreserved ==
  ASSUME MediaParts, ClaimSubmission
  PROVE  MediaParts'
<1> DEFINE o == worker.op
           j == [job[o] EXCEPT !.submission = "started"]
<1>1. worker.stage = "submit" /\ UNCHANGED <<vars, files>>
  BY DEF ClaimSubmission
<1>2. o \in Ops /\ WorkerOn("submit", rows[o], job[o], effects[o], files[o]) /\ rows[o].expected
  BY <1>1, WorkerJob
<1>3. job[o] \in Jobs /\ PermitOf(rows[o], job[o], effects[o]) /\ RecordOf(job[o], files[o])
  BY <1>2, OpFacts
<1>4. {"post", "poll"} \subseteq Stages \ {"idle"}
  BY DEF Stages
<1>5. CASE job[o].submission = "none"
  <2>1. job' = [job EXCEPT ![o] = j] /\ Goto("post")
    BY <1>5 DEF ClaimSubmission
  <2>2. /\ j \in Jobs /\ j.submission = "started" /\ j.status = job[o].status
        /\ j.provider = job[o].provider /\ j.receipt = job[o].receipt /\ j.settled = job[o].settled
    BY <1>3 DEF Jobs
  <2> HIDE DEF j
  <2>3. /\ PermitOf(rows[o], j, effects[o]) /\ RecordOf(j, files[o])
    BY <1>2, <1>3, <2>2 DEF PermitOf, RecordOf, WorkerOn
  <2>4. WorkerOn("post", rows[o], j, effects[o], files[o])
    BY <1>2, <1>3, <1>5, <2>2 DEF PermitOf, RecordOf, WorkerOn
  <2> QED BY <1>1, <1>4, <2>1, <2>2, <2>3, <2>4, JobAndStage
<1>6. CASE job[o].submission # "none"
  <2>1. Goto("poll") /\ UNCHANGED <<vars, job, files>>
    BY <1>1, <1>6 DEF ClaimSubmission
  <2>2. WorkerOn("poll", rows[o], job[o], effects[o], files[o])
    BY <1>2 DEF WorkerOn
  <2> QED BY <1>1, <1>4, <2>1, <2>2, OnlyWorker
<1> QED BY <1>5, <1>6

\* The effect of a registered permit: nobody else can have had it.
LEMMA PostPermit ==
  ASSUME MediaParts, NEW o \in Ops, rows[o].expected, UNCHANGED <<rows, hand, verdict>>,
         effects' = [effects EXCEPT ![o] = 1]
  PROVE  PermitInv'
<1>1. /\ \A p \in Ops : effects'[p] = IF p = o THEN 1 ELSE effects[p]
      /\ PermitInv
  BY DEF MediaParts, TypeParts
<1>2. ASSUME NEW p \in Ops PROVE RowPart(p)'
  BY <1>1, <1>2 DEF PermitInv, RowPart
<1>3. ASSUME NEW d \in Callers PROVE HandPart(d)'
  <2>1. HandPart(d)
    BY <1>1, <1>3 DEF PermitInv
  <2>2. hand[d].stage = "permit" => hand[d].op # o
    BY <2>1 DEF HandPart, Held
  <2>3. hand[d].stage = "permit" => hand[d].op \in Ops
    BY <1>1, <1>3, HandOp, TypeEquiv DEF MediaParts
  <2> QED BY <1>1, <2>1, <2>2, <2>3 DEF HandPart
<1>4. OneHand'
  BY <1>1 DEF PermitInv, OneHand
<1> QED BY <1>2, <1>3, <1>4 DEF PermitInv

LEMMA PostPreserved ==
  ASSUME MediaParts, Post
  PROVE  MediaParts'
<1> DEFINE o == worker.op
           k == job[o]
           w == [worker EXCEPT !.stage = "poll"]
           j1 == [k EXCEPT !.submission = "accepted", !.provider = "running"]
           j2 == [k EXCEPT !.submission = "accepted", !.provider = "success", !.receipt = "held"]
           j3 == [k EXCEPT !.provider = "error"]
           j4 == [k EXCEPT !.submission = "unknown"]
<1>1. /\ worker.stage = "post" /\ worker' = w
      /\ UNCHANGED <<rows, policy, conn, conf, perm, ctx, hand, notifier, waker, verdict, changes,
                     wanted, files>>
  BY DEF Post, Goto
<1>2. o \in Ops /\ WorkerOn("post", rows[o], k, effects[o], files[o]) /\ rows[o].expected
  BY <1>1, WorkerJob
<1>3. /\ k \in Jobs /\ PermitOf(rows[o], k, effects[o]) /\ RecordOf(k, files[o])
      /\ rows = [rows EXCEPT ![o] = rows[o]] /\ files = [files EXCEPT ![o] = files[o]]
      /\ files[o] \in 0 .. 2
  BY <1>2, OpFacts
<1>4. effects' = [effects EXCEPT ![o] = 1]
  <2>1. effects[o] = 0
    BY <1>2 DEF WorkerOn
  <2> QED BY <2>1, <1>2 DEF Post, MediaParts, TypeParts
<1>5. PermitInv'
  BY <1>1, <1>2, <1>4, PostPermit
<1>6. TypeParts'
  <2> HIDE DEF o, w, k
  <2>0. effects \in [Ops -> 0 .. 2] /\ 1 \in 0 .. 2
    BY DEF MediaParts, TypeParts
  <2>1. effects' \in [Ops -> 0 .. 2]
    BY <1>4, <2>0
  <2> QED BY <1>1, <2>1 DEF MediaParts, TypeParts
<1>7. w \in Workers /\ w.op = o /\ w.stage = "poll"
  BY DEF MediaParts, JobTypes, Workers, Stages
<1>8. PICK j \in {j1, j2, j3, j4} : job' = [job EXCEPT ![o] = j]
  <2>1. \/ job' = [job EXCEPT ![o] = j1] \/ job' = [job EXCEPT ![o] = j2]
        \/ job' = [job EXCEPT ![o] = j3] \/ job' = [job EXCEPT ![o] = j4]
    <3>1. job \in [Ops -> Jobs]
      BY DEF MediaParts, JobTypes
    <3>2. CASE job' = [job EXCEPT ![o].submission = "accepted", ![o].provider = "running"]
      BY <1>2, <3>1, <3>2
    <3>3. CASE job' = [job EXCEPT ![o].submission = "accepted", ![o].provider = "success",
                                  ![o].receipt = "held"]
      BY <1>2, <3>1, <3>3
    <3>4. CASE job' = [job EXCEPT ![o].provider = "error"]
      BY <3>4
    <3>5. CASE job' = [job EXCEPT ![o].submission = "unknown"]
      BY <3>5
    <3> QED BY <3>2, <3>3, <3>4, <3>5 DEF Post
  <2> HIDE DEF j1, j2, j3, j4
  <2> QED BY <2>1
<1> HIDE DEF o, w, k
<1>9. /\ j \in Jobs /\ j.status = k.status /\ j.submission # "none" /\ j.settled = k.settled
      /\ j.provider # "success" => j.receipt = k.receipt
      /\ j.provider = "success" => j.receipt = "held"
  <2>1. k.submission = "started" /\ k.provider = "none"
    BY <1>2 DEF WorkerOn
  <2>2. CASE j = j1
    BY <1>3, <2>1, <2>2 DEF Jobs
  <2>3. CASE j = j2
    BY <1>3, <2>1, <2>3 DEF Jobs
  <2>4. CASE j = j3
    BY <1>3, <2>1, <2>4 DEF Jobs
  <2>5. CASE j = j4
    BY <1>3, <2>1, <2>5 DEF Jobs
  <2> HIDE DEF j1, j2, j3, j4
  <2> QED BY <1>8, <2>2, <2>3, <2>4, <2>5
<1> HIDE DEF j1, j2, j3, j4
<1>10. k.provider = "none" /\ k.receipt = "none" /\ files[o] = 0 /\ k.status # "absent"
       /\ k.status \notin Terminal
  BY <1>2, <1>3 DEF WorkerOn, RecordOf
<1>11. PermitOf(rows[o], j, 1)
  BY <1>3, <1>9 DEF PermitOf
<1>12. RecordOf(j, files[o])
  BY <1>3, <1>9, <1>10 DEF RecordOf, Terminal
<1>13. WorkerOn("poll", rows[o], j, 1, files[o])
  BY <1>9, <1>10 DEF WorkerOn
<1>14. JobStep(o, rows[o], j, 1, files[o], w)
  BY <1>1, <1>3, <1>4, <1>7, <1>8, <1>9, <1>11, <1>12, <1>13 DEF JobStep
<1> QED BY <1>2, <1>5, <1>6, <1>14, JobMoves DEF MediaParts

\* The worker publishes an ending of a generation that is still open.
LEMMA PublishPreserved ==
  ASSUME MediaParts, worker.stage \notin {"idle", "settle", "settled"}, NEW k \in Jobs,
         NEW result \in Terminal, UNCHANGED <<vars, files>>, k.status = "open",
         job' = [job EXCEPT ![worker.op] = Published(k, result)], Goto("settle"),
         PermitOf(rows[worker.op], k, effects[worker.op]), RecordOf(k, files[worker.op]),
         result = "success" => k.receipt = "delivered"
  PROVE  MediaParts'
<1> DEFINE o == worker.op
           j == Published(k, result)
<1>1. o \in Ops /\ worker.stage # "idle" /\ "settle" \in Stages \ {"idle"}
  BY WorkerJob DEF Stages
<1>2. rows[o] \in Rows
  BY <1>1, OpFacts
<1>3. j \in Jobs /\ PermitOf(rows[o], j, effects[o]) /\ RecordOf(j, files[o])
      /\ WorkerOn("settle", rows[o], j, effects[o], files[o])
  <2>1. PermitOf(rows[o], k, effects[o]) /\ RecordOf(k, files[o])
    OBVIOUS
  <2> HIDE DEF o
  <2> QED BY <1>2, <2>1, PublishedFacts
<1>4. job' = [job EXCEPT ![worker.op] = j]
  OBVIOUS
<1> HIDE DEF j
<1> QED BY <1>1, <1>3, <1>4, JobAndStage

LEMMA PollPreserved ==
  ASSUME MediaParts, Poll
  PROVE  MediaParts'
<1> DEFINE o == worker.op
           k == job[o]
           j2 == [k EXCEPT !.provider = "success", !.receipt = "held"]
           j3 == [k EXCEPT !.provider = "error"]
<1>1. worker.stage = "poll" /\ UNCHANGED <<vars, files>>
  BY DEF Poll
<1>2. o \in Ops /\ WorkerOn("poll", rows[o], k, effects[o], files[o]) /\ rows[o].expected
      /\ k.status = "open"
  BY <1>1, WorkerJob, OpenJob
<1>3. k \in Jobs /\ PermitOf(rows[o], k, effects[o]) /\ RecordOf(k, files[o])
  BY <1>2, OpFacts
<1>4. "deliver" \in Stages \ {"idle"} /\ "error" \in Terminal
  BY DEF Stages, Terminal
<1>5. CASE Release
  BY <1>1, <1>5, ReleasePreserved
<1>6. CASE k.provider = "error" /\ job' = [job EXCEPT ![o] = Published(@, "error")] /\ Goto("settle")
  <2>1. job' = [job EXCEPT ![worker.op] = Published(k, "error")]
    BY <1>6
  <2> HIDE DEF k
  <2> QED BY <1>1, <1>2, <1>3, <1>4, <1>6, <2>1, PublishPreserved
<1>7. CASE Goto("deliver") /\ UNCHANGED job
  <2>1. WorkerOn("deliver", rows[o], job[o], effects[o], files[o])
    BY <1>2 DEF WorkerOn
  <2> QED BY <1>1, <1>4, <1>7, <2>1, OnlyWorker
<1>8. CASE /\ k.provider = "running" /\ Goto("deliver")
           /\ job' = [job EXCEPT ![o].provider = "success", ![o].receipt = "held"]
  <2>1. job' = [job EXCEPT ![o] = j2]
    BY <1>2, <1>8 DEF MediaParts, JobTypes
  <2> HIDE DEF k
  <2>2. /\ j2 \in Jobs /\ j2.status = k.status /\ j2.submission = k.submission
        /\ j2.provider = "success" /\ j2.receipt = "held" /\ j2.settled = k.settled
    BY <1>3 DEF Jobs
  <2> HIDE DEF j2
  <2>3. files[o] = 0 /\ k.submission # "none"
    BY <1>3, <1>8 DEF RecordOf
  <2>4. PermitOf(rows[o], j2, effects[o]) /\ RecordOf(j2, files[o])
    BY <1>2, <1>3, <2>2, <2>3 DEF PermitOf, RecordOf
  <2>5. WorkerOn("deliver", rows[o], j2, effects[o], files[o])
    BY <1>2, <2>2 DEF WorkerOn
  <2> QED BY <1>1, <1>4, <1>8, <2>1, <2>2, <2>4, <2>5, JobAndStage
<1>9. CASE /\ k.provider = "running" /\ Goto("settle")
           /\ job' = [job EXCEPT ![o] = Published([@ EXCEPT !.provider = "error"], "error")]
  <2>1. job' = [job EXCEPT ![worker.op] = Published(j3, "error")]
    BY <1>9
  <2> HIDE DEF k
  <2>2. /\ j3 \in Jobs /\ j3.status = k.status /\ j3.submission = k.submission
        /\ j3.provider = "error" /\ j3.receipt = k.receipt /\ j3.settled = k.settled
    BY <1>3 DEF Jobs
  <2> HIDE DEF j3
  <2>3. PermitOf(rows[o], j3, effects[o]) /\ RecordOf(j3, files[o])
    BY <1>3, <1>9, <2>2 DEF PermitOf, RecordOf
  <2>4. /\ worker.stage \notin {"idle", "settle", "settled"} /\ UNCHANGED <<vars, files>>
        /\ j3.status = "open" /\ Goto("settle") /\ "error" # "success"
    BY <1>1, <1>2, <1>9, <2>2
  <2> QED BY <1>4, <2>1, <2>2, <2>3, <2>4, PublishPreserved
<1> QED BY <1>5, <1>6, <1>7, <1>8, <1>9 DEF Poll

LEMMA DeliverPreserved ==
  ASSUME MediaParts, Deliver
  PROVE  MediaParts'
<1> DEFINE o == worker.op
           k == job[o]
           j == [k EXCEPT !.receipt = "started"]
<1>1. worker.stage = "deliver" /\ UNCHANGED <<vars, files>>
  BY DEF Deliver
<1>2. o \in Ops /\ WorkerOn("deliver", rows[o], k, effects[o], files[o]) /\ k.status = "open"
  BY <1>1, WorkerJob, OpenJob
<1>3. k \in Jobs /\ PermitOf(rows[o], k, effects[o]) /\ RecordOf(k, files[o])
  BY <1>2, OpFacts
<1>4. "create" \in Stages \ {"idle"} /\ "success" \in Terminal
  BY DEF Stages, Terminal
<1>5. CASE Release
  BY <1>1, <1>5, ReleasePreserved
<1>6. CASE k.receipt = "held" /\ job' = [job EXCEPT ![o].receipt = "started"] /\ Goto("create")
  <2>1. job' = [job EXCEPT ![o] = j]
    BY <1>6
  <2> HIDE DEF k
  <2>2. /\ j \in Jobs /\ j.status = k.status /\ j.submission = k.submission
        /\ j.provider = k.provider /\ j.receipt = "started" /\ j.settled = k.settled
    BY <1>3 DEF Jobs
  <2> HIDE DEF j
  <2>3. PermitOf(rows[o], j, effects[o]) /\ RecordOf(j, files[o])
    BY <1>2, <1>3, <1>6, <2>2 DEF PermitOf, RecordOf
  <2>4. WorkerOn("create", rows[o], j, effects[o], files[o])
    BY <1>2, <1>3, <1>6, <2>2 DEF WorkerOn, RecordOf
  <2> QED BY <1>1, <1>4, <1>6, <2>1, <2>2, <2>3, <2>4, JobAndStage
<1>7. CASE k.receipt = "delivered" /\ job' = [job EXCEPT ![o] = Published(@, "success")] /\ Goto("settle")
  <2>1. job' = [job EXCEPT ![worker.op] = Published(k, "success")]
    BY <1>7
  <2> HIDE DEF k
  <2> QED BY <1>1, <1>2, <1>3, <1>4, <1>7, <2>1, PublishPreserved
<1> QED BY <1>5, <1>6, <1>7 DEF Deliver
LEMMA CreateFilePreserved ==
  ASSUME MediaParts, CreateFile
  PROVE  MediaParts'
<1> DEFINE o == worker.op
           w == [worker EXCEPT !.stage = "record"]
<1>1. worker.stage = "create" /\ worker' = w /\ UNCHANGED <<vars, job>>
  BY DEF CreateFile, Goto
<1>2. o \in Ops /\ WorkerOn("create", rows[o], job[o], effects[o], files[o])
  BY <1>1, WorkerJob
<1>3. /\ job[o] \in Jobs /\ PermitOf(rows[o], job[o], effects[o]) /\ RecordOf(job[o], files[o])
      /\ rows = [rows EXCEPT ![o] = rows[o]] /\ job = [job EXCEPT ![o] = job[o]]
      /\ effects = [effects EXCEPT ![o] = effects[o]]
  BY <1>2, OpFacts
<1>4. files' = [files EXCEPT ![o] = 1]
  <2>1. files[o] = 0
    BY <1>2 DEF WorkerOn
  <2> QED BY <1>2, <2>1 DEF CreateFile, MediaParts, JobTypes
<1>5. w \in Workers /\ w.op = o /\ w.stage = "record"
  BY DEF MediaParts, JobTypes, Workers, Stages
<1>6. TypeParts'
  BY <1>1 DEF MediaParts, TypeParts, vars
<1>7. PermitInv' /\ UNCHANGED <<rows, effects>>
  BY <1>1, <1>6, PermitApart DEF vars
<1> HIDE DEF o, w
<1>8. RecordOf(job[o], 1) /\ WorkerOn("record", rows[o], job[o], effects[o], 1) /\ 1 \in 0 .. 2
  BY <1>2, <1>3 DEF RecordOf, WorkerOn
<1>9. JobStep(o, rows[o], job[o], effects[o], 1, w)
  BY <1>1, <1>3, <1>4, <1>5, <1>7, <1>8 DEF JobStep
<1> QED BY <1>2, <1>6, <1>7, <1>9, JobMoves DEF MediaParts

LEMMA RecordFilePreserved ==
  ASSUME MediaParts, RecordFile
  PROVE  MediaParts'
<1> DEFINE o == worker.op
           k == job[o]
           j == [k EXCEPT !.receipt = "delivered"]
<1>1. worker.stage = "record" /\ UNCHANGED <<vars, files>> /\ job' = [job EXCEPT ![o] = j] /\ Goto("deliver")
  BY DEF RecordFile
<1>2. o \in Ops /\ WorkerOn("record", rows[o], k, effects[o], files[o])
  BY <1>1, WorkerJob
<1>3. k \in Jobs /\ PermitOf(rows[o], k, effects[o]) /\ RecordOf(k, files[o])
  BY <1>2, OpFacts
<1> HIDE DEF k
<1>4. /\ j \in Jobs /\ j.status = k.status /\ j.submission = k.submission
      /\ j.provider = k.provider /\ j.receipt = "delivered" /\ j.settled = k.settled
  BY <1>3 DEF Jobs
<1> HIDE DEF j
<1>5. PermitOf(rows[o], j, effects[o])
  BY <1>3, <1>4 DEF PermitOf
<1>6. RecordOf(j, files[o])
  BY <1>2, <1>3, <1>4 DEF RecordOf, WorkerOn
<1>7. WorkerOn("deliver", rows[o], j, effects[o], files[o]) /\ "deliver" \in Stages \ {"idle"}
  BY <1>2, <1>4 DEF WorkerOn, Stages
<1> QED BY <1>1, <1>4, <1>5, <1>6, <1>7, JobAndStage

LEMMA SettlePreserved ==
  ASSUME MediaParts, Settle
  PROVE  MediaParts'
<1> DEFINE o == worker.op
           outcome == IF job[o].status = "success" THEN "completed" ELSE "failed"
           s == Finished(rows[o], outcome, TRUE, TRUE)
<1>1. /\ worker.stage = "settle" /\ rows' = [rows EXCEPT ![o] = s] /\ Goto("settled")
      /\ UNCHANGED <<policy, conn, conf, perm, ctx, hand, notifier, waker, effects, verdict, changes,
                     wanted, job, files>>
  BY DEF Settle
<1>2. o \in Ops /\ WorkerOn("settle", rows[o], job[o], effects[o], files[o]) /\ rows[o].expected
  BY <1>1, WorkerJob
<1>3. /\ rows[o] \in Rows /\ job[o] \in Jobs /\ job = [job EXCEPT ![o] = job[o]] /\ RowPart(o)
      /\ PermitOf(rows[o], job[o], effects[o]) /\ RecordOf(job[o], files[o])
  BY <1>2, OpFacts
<1>4. /\ outcome \in {"completed", "failed"}
      /\ outcome = "completed" => job[o].status = "success"
      /\ outcome = "failed" => job[o].status = "error"
  BY <1>2 DEF WorkerOn, Terminal
<1> HIDE DEF outcome
<1>5. /\ s \in Rows /\ s.conf = rows[o].conf /\ s.expected = rows[o].expected
      /\ s.status = IF rows[o].status \in {"executing", "outcome_unknown"} THEN outcome ELSE rows[o].status
  BY <1>3, <1>4, FinishedFacts
<1> HIDE DEF s
<1>6. rows[o].status \in {"executing", "outcome_unknown", "completed", "failed", "invalidated"}
  BY <1>2, <1>3 DEF RowPart, PermitOf, Unclaimed, Open, Rows, Statuses
<1>7. Kept(rows[o], s)
  BY <1>4, <1>5, <1>6 DEF Kept, Unclaimed, Open
<1>8. s.status \in Settled
  BY <1>4, <1>5, <1>6 DEF Settled
<1>9. PermitOf(s, job[o], effects[o])
  BY <1>3, <1>4, <1>5, <1>6, <1>8 DEF PermitOf
<1>10. WorkerOn("settled", s, job[o], effects[o], files[o]) /\ "settled" \in Stages \ {"idle"}
  BY <1>2, <1>8 DEF WorkerOn, Stages
<1> QED BY <1>1, <1>3, <1>5, <1>7, <1>9, <1>10, RowAndStage

LEMMA MarkSettledPreserved ==
  ASSUME MediaParts, MarkSettled
  PROVE  MediaParts'
<1> DEFINE o == worker.op
           k == job[o]
           j == [k EXCEPT !.settled = TRUE, !.leased = FALSE]
<1>1. worker.stage = "settled" /\ worker' = NoWork /\ UNCHANGED <<vars, files>>
  BY DEF MarkSettled
<1>2. o \in Ops /\ WorkerOn("settled", rows[o], k, effects[o], files[o])
  BY <1>1, WorkerJob
<1>3. job' = [job EXCEPT ![o] = j]
  BY <1>2 DEF MarkSettled, MediaParts, JobTypes
<1>4. k \in Jobs /\ PermitOf(rows[o], k, effects[o]) /\ RecordOf(k, files[o])
  BY <1>2, OpFacts
<1> HIDE DEF k, o
<1>5. /\ j \in Jobs /\ j.status = k.status /\ j.submission = k.submission
      /\ j.provider = k.provider /\ j.receipt = k.receipt
  BY <1>4 DEF Jobs
<1> HIDE DEF j
<1>6. PermitOf(rows[o], j, effects[o])
  BY <1>2, <1>4, <1>5 DEF PermitOf, WorkerOn
<1>7. RecordOf(j, files[o])
  BY <1>2, <1>4, <1>5 DEF RecordOf, WorkerOn
<1> QED BY <1>1, <1>2, <1>3, <1>5, <1>6, <1>7, OnlyJob

LEMMA WorkerCrashPreserved ==
  ASSUME MediaParts, WorkerCrash
  PROVE  MediaParts'
<1> DEFINE o == worker.op
<1>1. worker # NoWork /\ worker' = NoWork /\ UNCHANGED <<vars, job, files>>
  BY DEF WorkerCrash
<1>2. worker.stage # "idle"
  BY <1>1 DEF NoWork, MediaParts, JobTypes, Workers, JobInv
<1>3. o \in Ops
  BY <1>2, WorkerJob
<1>4. /\ job[o] \in Jobs /\ job' = [job EXCEPT ![o] = job[o]]
      /\ PermitOf(rows[o], job[o], effects[o]) /\ RecordOf(job[o], files[o])
  BY <1>1, <1>3, OpFacts
<1> HIDE DEF o
<1> QED BY <1>1, <1>3, <1>4, OnlyJob

LEMMA LeaseLapsePreserved ==
  ASSUME MediaParts, NEW o \in Ops, LeaseLapse(o)
  PROVE  MediaParts'
<1> DEFINE j == [job[o] EXCEPT !.leased = FALSE]
<1>1. worker.op # o /\ job' = [job EXCEPT ![o] = j] /\ UNCHANGED <<vars, worker, files>>
  BY DEF LeaseLapse
<1>2. /\ j \in Jobs /\ Alike(job[o], j)
      /\ PermitOf(rows[o], job[o], effects[o]) /\ RecordOf(job[o], files[o])
  BY OpFacts, LeaseUpdates
<1> HIDE DEF j
<1>3. PermitOf(rows[o], j, effects[o]) /\ RecordOf(j, files[o])
  BY <1>2, AlikeKeeps
<1> QED BY <1>1, <1>2, <1>3, OnlyJob

LEMMA RepairPreserved ==
  ASSUME MediaParts, NEW o \in Ops, RepairDelivery(o)
  PROVE  MediaParts'
<1> DEFINE receipt == IF files[o] > 0 THEN "delivered" ELSE "held"
           j == [job[o] EXCEPT !.receipt = receipt]
<1>1. /\ job[o].status = "open" /\ job[o].receipt = "started" /\ worker.op # o
      /\ job' = [job EXCEPT ![o] = j] /\ UNCHANGED <<vars, worker, files>>
  BY DEF RepairDelivery
<1>2. /\ job[o] \in Jobs /\ files[o] \in 0 .. 2
      /\ PermitOf(rows[o], job[o], effects[o]) /\ RecordOf(job[o], files[o])
  BY OpFacts
<1>3. /\ receipt \in {"delivered", "held"}
      /\ receipt = "delivered" => files[o] = 1
      /\ receipt = "held" => files[o] = 0
  BY <1>2 DEF RecordOf
<1> HIDE DEF receipt
<1>4. /\ j \in Jobs /\ j.status = "open" /\ j.submission = job[o].submission
      /\ j.provider = job[o].provider /\ j.receipt = receipt /\ j.settled = job[o].settled
  BY <1>1, <1>2, <1>3 DEF Jobs
<1> HIDE DEF j
<1>5. PermitOf(rows[o], j, effects[o])
  BY <1>1, <1>2, <1>4 DEF PermitOf
<1>6. RecordOf(j, files[o])
  BY <1>1, <1>2, <1>3, <1>4 DEF RecordOf
<1> QED BY <1>1, <1>4, <1>5, <1>6, OnlyJob

-----------------------------------------------------------------------------
(* The theorems                                                              *)

LEMMA MediaInitially == MediaInit => MediaParts
<1> SUFFICES ASSUME MediaInit PROVE MediaParts
  OBVIOUS
<1>1. PICK u \in Users :
    /\ rows = [o \in Ops |->
         [status |-> "absent", conf |-> 0, mode |-> "ask",
          source |-> "software", approver |-> u, version |-> 0,
          decision |-> "none", perm |-> 0, early |-> FALSE,
          expected |-> FALSE, started |-> FALSE, age |-> 0,
          notice |-> FALSE, wake |-> FALSE]]
    /\ policy = [manager |-> u, version |-> 0]
    /\ conn = [state |-> "ask", source |-> "software"]
    /\ conf = 0
    /\ perm = [id |-> 0, allowed |-> FALSE, conf |-> 0, version |-> 0,
               approver |-> u]
    /\ ctx = [phase |-> "running", held |-> FALSE, asked |-> {},
              waits |-> {}, grant |-> TRUE]
    /\ hand = [c \in Callers |-> Idle]
    /\ notifier = NoNotice /\ waker = NoWake
    /\ effects = [o \in Ops |-> 0]
    /\ verdict = [o \in Ops |-> "none"]
    /\ changes \in 0 .. MaxChanges
    /\ wanted \in SUBSET Ops
  BY DEF MediaInit, Init
<1>2. rows \in [Ops -> Rows] /\ \A o \in Ops : rows[o].status = "absent" /\ ~rows[o].expected
  BY <1>1 DEF Rows, Statuses, Modes
<1>3. policy \in Policies /\ conn \in Conns /\ perm \in Perms
  BY <1>1 DEF Policies, Conns, Perms, Modes
<1>4. ctx \in Contexts /\ notifier \in Notifiers /\ waker \in Wakers
  BY <1>1 DEF Contexts, Notifiers, Wakers, NoNotice, NoWake
<1>5. hand \in [Callers -> Hands] /\ \A c \in Callers : hand[c] = Idle
  BY <1>1, IdleHand
<1>6. TypeParts
  <2>1. effects \in [Ops -> 0 .. 2] /\ verdict \in [Ops -> {"none", "yes", "no"}] /\ conf \in Nat
    BY <1>1
  <2>2. changes \in 0 .. MaxChanges /\ wanted \subseteq Ops
    BY <1>1
  <2> QED BY <1>2, <1>3, <1>4, <1>5, <2>1, <2>2 DEF TypeParts
<1>7. PermitInv
  BY <1>1, <1>2, <1>5 DEF PermitInv, RowPart, HandPart, OneHand, Idle, Held
<1>8. /\ job \in [Ops -> Jobs]
      /\ \A o \in Ops : /\ job[o].status = "absent" /\ job[o].submission = "none"
                        /\ job[o].provider = "none" /\ job[o].receipt = "none" /\ ~job[o].settled
  BY DEF MediaInit, Jobs
<1>9. worker \in Workers /\ worker.stage = "idle" /\ worker.op = "none"
      /\ files = [o \in Ops |-> 0]
  BY DEF MediaInit, NoWork, Workers, Stages
<1>10. JobInv
  BY <1>1, <1>2, <1>8, <1>9 DEF JobInv, PermitOf, RecordOf
<1> QED BY <1>6, <1>7, <1>8, <1>9, <1>10 DEF MediaParts, JobTypes

LEMMA MediaStep ==
  ASSUME MediaParts, [MediaNext]_allVars
  PROVE  MediaParts'
<1>1. CASE UNCHANGED allVars
  <2>1. UNCHANGED <<rows, policy, conn, conf, perm, ctx, hand, notifier, waker, effects, verdict, changes,
                    wanted, job, worker, files>>
    BY <1>1 DEF allVars, vars, mediaVars
  <2>2. TypeParts' /\ JobTypes'
    BY <2>1 DEF MediaParts, TypeParts, JobTypes
  <2>3. PermitInv'
    BY <2>1, <2>2, PermitApart
  <2>4. JobInv'
    BY <2>1 DEF MediaParts, JobInv
  <2> QED BY <2>2, <2>3, <2>4 DEF MediaParts
<1>2. CASE WorkerNext
  BY <1>2, TickPreserved, ClaimStartPreserved, MarkClaimedPreserved, ContinuePreserved,
     AccessLostPreserved, ClaimSubmissionPreserved, PostPreserved, PollPreserved, DeliverPreserved,
     CreateFilePreserved, RecordFilePreserved, SettlePreserved, MarkSettledPreserved DEF WorkerNext
<1>3. CASE WorkerCrash \/ \E o \in Ops : LeaseLapse(o) \/ RepairDelivery(o)
  BY <1>3, WorkerCrashPreserved, LeaseLapsePreserved, RepairPreserved
<1>4. CASE \E c \in Callers : Admit(c)
  BY <1>4, AdmitPreserved
<1>5. CASE (Next \/ \E c \in Callers : RegisterDeferred(c)) /\ UNCHANGED mediaVars
  BY <1>5, BasePreserved
<1> QED BY <1>1, <1>2, <1>3, <1>4, <1>5 DEF MediaNext

\* The inductive invariant holds of the authorizations and the generations
\* together: where the permit of each operation is, what was done under it and
\* what its generation reported.
THEOREM MediaInvariant == MediaSpec => []MediaInv
<1>1. MediaInit => MediaParts
  BY MediaInitially
<1>2. MediaParts /\ [MediaNext]_allVars => MediaParts'
  BY MediaStep
<1>3. MediaParts <=> MediaInv
  BY MediaEquiv
<1> QED BY <1>1, <1>2, <1>3, PTL DEF MediaSpec
\* MediaTypeOK for every behaviour: in particular no handler leaves a row, a
\* hand, a generation or the worker in a state the code has no name for.
THEOREM MediaTypeCorrect == MediaSpec => []MediaTypeOK
  BY MediaInvariant, PTL DEF MediaInv

\* SingleUse for any number of operations, callers and users: claim_action
\* hands the permit of an operation out once, and its deferred submission is
\* claimed before it is sent, whatever races, crashes and retries there are.
THEOREM PermitUsedOnce == MediaSpec => []SingleUse
<1>1. MediaInv => SingleUse
  BY DEF MediaInv, PermitInv, RowPart, SingleUse
<1> QED BY <1>1, MediaInvariant, PTL

\* AgreedFirst: an effect, and a permit in a caller's hand, follow an agreement
\* to the configuration the caller bound, not to a later one.
THEOREM AgreementFirst == MediaSpec => []AgreedFirst
<1>1. MediaInv => AgreedFirst
  BY DEF MediaInv, PermitInv, RowPart, HandPart, AgreedFirst, Held
<1> QED BY <1>1, MediaInvariant, PTL

\* RefusalFinal: what a human refused stays denied or invalidated, without an
\* effect and in nobody's hand, although jobs, permissions and a
\* reconfiguration write the row afterwards.
THEOREM RefusalIsFinal == MediaSpec => []RefusalFinal
<1>1. ASSUME MediaInv, NEW o \in Ops, verdict[o] = "no"
      PROVE  /\ rows[o].status \in {"denied", "invalidated"} /\ effects[o] = 0
             /\ \A c \in Callers : hand[c].op = o => hand[c].stage \in {"bound"}
  <2>1. TypeParts /\ PermitInv /\ RowPart(o)
    BY <1>1, MediaEquiv DEF MediaParts, PermitInv
  <2>2. rows[o].status \in {"denied", "invalidated"} /\ effects[o] = 0
    BY <1>1, <2>1 DEF RowPart, TypeParts
  <2>3. ASSUME NEW c \in Callers, hand[c].op = o PROVE hand[c].stage = "bound"
    <3>1. HandPart(c) /\ hand[c].stage \in {"idle", "bound", "permit", "effected", "registered"}
          /\ "none" \notin Ops
      BY <2>1, <2>3, HandOp, TypeEquiv DEF PermitInv
    <3> QED BY <1>1, <2>3, <3>1 DEF HandPart, Held
  <2> QED BY <2>2, <2>3
<1>2. MediaInv => RefusalFinal
  BY <1>1 DEF RefusalFinal
<1> QED BY <1>2, MediaInvariant, PTL

\* OneFile: a delivery that a crash interrupted is not repeated, by the worker
\* or by the operator's repair.
THEOREM FileWrittenOnce == MediaSpec => []OneFile
<1>1. MediaInv => OneFile
  BY DEF MediaInv, JobInv, RecordOf, OneFile
<1> QED BY <1>1, MediaInvariant, PTL

\* PermitTellsOutcome: settle_authorization closes the permit as what happened
\* to the generation, although the caller, the reconciliation and a stale
\* notification may have written the row before it.
THEOREM PermitOutcome == MediaSpec => []PermitTellsOutcome
<1>1. ASSUME MediaInv, NEW o \in Ops
      PROVE  /\ job[o].settled => rows[o].status \in Settled
             /\ job[o].settled /\ job[o].status = "success" =>
                  rows[o].status \in {"completed", "invalidated"} /\ files[o] = 1
             /\ job[o].status = "error" => rows[o].status # "completed"
  <2>1. PermitOf(rows[o], job[o], effects[o]) /\ RecordOf(job[o], files[o])
    BY <1>1 DEF MediaInv, JobInv
  <2>2. /\ job[o].settled => rows[o].status \in Settled
        /\ job[o].status = "error" => rows[o].status # "completed"
    BY <2>1 DEF PermitOf
  <2>3. ASSUME job[o].settled, job[o].status = "success"
        PROVE  rows[o].status \in {"completed", "invalidated"} /\ files[o] = 1
    <3>1. rows[o].expected /\ rows[o].status \in Settled \ {"denied", "expired", "failed"}
      BY <2>1, <2>3 DEF PermitOf
    <3>2. files[o] = 1
      BY <2>1, <2>3 DEF RecordOf
    <3> QED BY <3>1, <3>2 DEF Settled
  <2> QED BY <2>2, <2>3
<1>2. MediaInv => PermitTellsOutcome
  BY <1>1 DEF PermitTellsOutcome
<1> QED BY <1>2, MediaInvariant, PTL

-----------------------------------------------------------------------------
(* The quota                                                                 *)

Unsettleds == {o \in Ops : rows[o].status \in Unsettled}

\* No step but the claim of a new request adds an unsettled row.
LEMMA NoneAdded ==
  ASSUME WithinQuota, \A o \in Ops : rows'[o].status \in Unsettled => rows[o].status \in Unsettled
  PROVE  WithinQuota'
<1>1. Unsettleds' \subseteq Unsettleds /\ Unsettleds \subseteq Ops
  BY DEF Unsettleds
<1>2. IsFiniteSet(Unsettleds)
  BY <1>1, AuthorizationConstants, FS_Subset DEF AuthorizationConstants
<1>3. Cardinality(Unsettleds') <= Cardinality(Unsettleds)
  BY <1>1, <1>2, FS_Subset
<1>4. IsFiniteSet(Unsettleds')
  BY <1>1, <1>2, FS_Subset
<1>5. Cardinality(Unsettleds') \in Nat /\ Cardinality(Unsettleds) \in Nat
  BY <1>2, <1>4, FS_CardinalityType
<1> QED BY <1>3, <1>5, AuthorizationConstants DEF WithinQuota, Unsettleds, AuthorizationConstants

\* The quota is checked in the transaction that inserts the request.
LEMMA ClaimQuota ==
  ASSUME MediaParts, WithinQuota, NEW c \in Callers, Claim(c)
  PROVE  WithinQuota'
<1> DEFINE o == hand[c].op
<1>1. o \in Ops /\ Claimable(o, hand[c].conf) /\ TypeParts
  BY ClaimFacts DEF MediaParts
<1>2. PICK s \in Rows :
        /\ rows' = [rows EXCEPT ![o] = s]
        /\ \/ rows[o].status = "absent"
           \/ rows[o].status = "approved"
           \/ Tame(rows[o], s)
  BY ClaimFacts DEF MediaParts
<1>3. \A p \in Ops : rows'[p] = IF p = o THEN s ELSE rows[p]
  BY <1>1, <1>2 DEF TypeParts
<1> HIDE DEF o
<1>4. CASE rows[o].status # "absent"
  <2>1. s.status \in Unsettled => rows[o].status \in Unsettled
    BY <1>2, <1>4 DEF Tame, Unsettled, Open
  <2> QED BY <1>3, <2>1, NoneAdded
<1>5. CASE rows[o].status = "absent"
  <2>1. ~(Cardinality(Unsettleds) >= AgentQuota)
    BY <1>1, <1>5 DEF Claimable, QuotaReached, Unsettleds
  <2>2. Unsettleds' \subseteq Unsettleds \cup {o} /\ o \notin Unsettleds /\ Unsettleds \subseteq Ops
    BY <1>3, <1>5 DEF Unsettleds, Unsettled, Open
  <2>3. IsFiniteSet(Unsettleds) /\ Cardinality(Unsettleds) \in Nat
    BY <2>2, AuthorizationConstants, FS_Subset, FS_CardinalityType DEF AuthorizationConstants
  <2>4. /\ IsFiniteSet(Unsettleds \cup {o})
        /\ Cardinality(Unsettleds \cup {o}) = Cardinality(Unsettleds) + 1
    BY <2>2, <2>3, FS_AddElement
  <2>5. IsFiniteSet(Unsettleds') /\ Cardinality(Unsettleds') <= Cardinality(Unsettleds \cup {o})
    BY <2>2, <2>4, FS_Subset
  <2>6. Cardinality(Unsettleds') \in Nat
    BY <2>5, FS_CardinalityType
  <2>7. AgentQuota \in Nat
    BY AuthorizationConstants DEF AuthorizationConstants
  <2> QED BY <2>1, <2>3, <2>4, <2>5, <2>6, <2>7 DEF WithinQuota, Unsettleds
<1> QED BY <1>4, <1>5
\* The other steps of ActionAuthorizations settle rows, or keep them unsettled.
LEMMA NextQuota ==
  ASSUME MediaParts, WithinQuota, Next \/ \E c \in Callers : RegisterDeferred(c)
  PROVE  WithinQuota'
<1>0. TypeParts /\ PermitInv
  BY DEF MediaParts
<1>1. CASE Apart \/ HandStep
  BY <1>0, <1>1, ApartType, HandStepType, NoneAdded
<1>2. CASE RowsStep
  <2>1. \A o \in Ops : Tame(rows[o], rows'[o])
    BY <1>0, <1>2, RowsStepType DEF TameRows
  <2>2. \A o \in Ops : rows'[o].status \in Unsettled => rows[o].status \in Unsettled
    BY <2>1 DEF Tame, Unsettled, Open
  <2> QED BY <2>2, NoneAdded
<1>3. CASE Answering
  <2>1. PICK o \in Ops, u \in Users, approved \in BOOLEAN, remember \in BOOLEAN :
          Answer(o, u, approved, remember)
    BY <1>3 DEF Answering
  <2>2. rows[o].status = "pending" /\ \E s \in Rows : rows' = [rows EXCEPT ![o] = s]
    BY <1>0, <2>1, AnswerFacts
  <2>3. \A p \in Ops : rows'[p].status \in Unsettled => rows[p].status \in Unsettled
    BY <1>0, <2>2 DEF TypeParts, Unsettled, Open
  <2> QED BY <2>3, NoneAdded
<1>4. ASSUME NEW c \in Callers, Dispatch(c) PROVE WithinQuota'
  BY <1>0, <1>4, DispatchFacts, NoneAdded
<1>5. ASSUME NEW c \in Callers, Finish(c) PROVE WithinQuota'
  <2>1. PICK s \in Rows :
          /\ rows' = [rows EXCEPT ![hand[c].op] = s]
          /\ s = rows[hand[c].op] \/ rows[hand[c].op].status \in {"executing", "outcome_unknown"}
    BY <1>0, <1>5, FinishFacts
  <2>2. \A p \in Ops : rows'[p].status \in Unsettled => rows[p].status \in Unsettled
    BY <1>0, <2>1 DEF TypeParts, Unsettled
  <2> QED BY <2>2, NoneAdded
<1>6. ASSUME NEW c \in Callers, RegisterDeferred(c) PROVE WithinQuota'
  <2>1. PICK s \in Rows : /\ rows' = [rows EXCEPT ![hand[c].op] = s]
                          /\ rows[hand[c].op].status = "executing"
    BY <1>0, <1>6, RegisterFacts
  <2>2. \A p \in Ops : rows'[p].status \in Unsettled => rows[p].status \in Unsettled
    BY <1>0, <2>1 DEF TypeParts, Unsettled
  <2> QED BY <2>2, NoneAdded
<1> QED BY <1>1, <1>2, <1>3, <1>4, <1>5, <1>6, ClaimQuota, NextCases

\* So does the worker.
LEMMA WorkerQuota ==
  ASSUME MediaParts, WithinQuota, ClaimStart \/ Continue \/ Settle
  PROVE  WithinQuota'
<1> DEFINE o == worker.op
<1>0. worker.stage # "idle" /\ o \in Ops
  BY WorkerJob DEF ClaimStart, Continue, Settle
<1>1. rows[o] \in Rows /\ rows \in [Ops -> Rows]
  BY <1>0, OpFacts DEF MediaParts, TypeParts
<1>2. ASSUME NEW s, rows' = [rows EXCEPT ![o] = s],
             s.status \in Unsettled => rows[o].status \in Unsettled
      PROVE  WithinQuota'
  <2>1. \A p \in Ops : rows'[p].status \in Unsettled => rows[p].status \in Unsettled
    BY <1>1, <1>2
  <2> QED BY <2>1, NoneAdded
<1>3. ASSUME NEW continuation \in BOOLEAN, PermitRefused(continuation) PROVE WithinQuota'
  <2> DEFINE s == IF DeferredOpen(rows[o], continuation) THEN DeferredRefused(rows[o]) ELSE rows[o]
  <2>1. rows' = [rows EXCEPT ![o] = s]
    BY <1>3 DEF PermitRefused
  <2>2. s.status \in {rows[o].status, "invalidated"}
    BY <1>1 DEF DeferredRefused, Rows
  <2> HIDE DEF s, o
  <2>3. s.status \in Unsettled => rows[o].status \in Unsettled
    BY <2>2 DEF Unsettled, Open
  <2> QED BY <1>2, <2>1, <2>3
<1>4. rows' = rows => WithinQuota'
  BY NoneAdded
<1>5. CASE Continue
  BY <1>3, <1>4, <1>5 DEF Continue, PermitSuspended, vars
<1>6. CASE ClaimStart
  <2>1. CASE rows' = [rows EXCEPT ![o].started = TRUE]
    <3> DEFINE s == [rows[o] EXCEPT !.started = TRUE]
    <3>1. rows' = [rows EXCEPT ![o] = s] /\ s.status = rows[o].status
      BY <1>1, <2>1 DEF Rows
    <3> HIDE DEF s, o
    <3> QED BY <1>2, <3>1
  <2> QED BY <1>3, <1>4, <1>6, <2>1 DEF ClaimStart, PermitSuspended, vars
<1>7. CASE Settle
  <2> DEFINE outcome == IF job[o].status = "success" THEN "completed" ELSE "failed"
             s == Finished(rows[o], outcome, TRUE, TRUE)
  <2>1. rows' = [rows EXCEPT ![o] = s] /\ outcome \in {"completed", "failed"}
    BY <1>7 DEF Settle
  <2> HIDE DEF outcome
  <2>2. s.status \in {outcome, rows[o].status}
    BY <1>1, <2>1, FinishedFacts
  <2> HIDE DEF s, o
  <2>3. s.status \in Unsettled => rows[o].status \in Unsettled
    BY <2>1, <2>2 DEF Unsettled, Open
  <2> QED BY <1>2, <2>1, <2>3
<1> QED BY <1>5, <1>6, <1>7

LEMMA QuotaStep ==
  ASSUME MediaParts, WithinQuota, [MediaNext]_allVars
  PROVE  WithinQuota'
<1>0. UNCHANGED rows => WithinQuota'
  BY NoneAdded
<1>1. CASE UNCHANGED allVars
  BY <1>0, <1>1 DEF allVars, vars
<1>2. CASE WorkerNext
  BY <1>0, <1>2, WorkerQuota DEF WorkerNext, Tick, MarkClaimed, AccessLost, ClaimSubmission, Post, Poll,
     Deliver, CreateFile, RecordFile, MarkSettled, vars
<1>3. CASE WorkerCrash \/ \E o \in Ops : LeaseLapse(o) \/ RepairDelivery(o)
  BY <1>0, <1>3 DEF WorkerCrash, LeaseLapse, RepairDelivery, vars
<1>4. CASE \E c \in Callers : Admit(c)
  BY <1>0, <1>4 DEF Admit, vars
<1>5. CASE Next \/ \E c \in Callers : RegisterDeferred(c)
  BY <1>5, NextQuota
<1> QED BY <1>1, <1>2, <1>3, <1>4, <1>5 DEF MediaNext

\* WithinQuota for every quota and every finite set of operations: although
\* each claim counts the unsettled rows only when it inserts one, no order of
\* claims, answers, reports and reconciliations exceeds the quota.
THEOREM QuotaHolds == MediaSpec => []WithinQuota
<1>1. MediaInit => WithinQuota
  <2>1. ASSUME MediaInit PROVE Unsettleds = {}
    BY <2>1 DEF MediaInit, Init, Unsettleds, Unsettled, Open
  <2>2. Cardinality({}) = 0
    BY FS_EmptySet
  <2>3. WithinQuota <=> Cardinality(Unsettleds) <= AgentQuota
    BY DEF WithinQuota, Unsettleds
  <2>4. AgentQuota \in Nat
    BY AuthorizationConstants DEF AuthorizationConstants
  <2> QED BY <2>1, <2>2, <2>3, <2>4
<1>2. MediaParts /\ WithinQuota /\ [MediaNext]_allVars => WithinQuota'
  BY QuotaStep
<1>3. MediaInv <=> MediaParts
  BY MediaEquiv
<1> QED BY <1>1, <1>2, <1>3, MediaInvariant, PTL DEF MediaSpec
=============================================================================

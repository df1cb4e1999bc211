-------------------------- MODULE TaskCoordination --------------------------
(***************************************************************************)
(* What a Task waits for: the children it delegated or the peers it asked   *)
(* (task/collab.py), a human reply (task/input_requests.py), a permit, a    *)
(* user's hold, and instructions accepted while it works                    *)
(* (task/amendment_service.py).  One parent Task and its children; the      *)
(* parent's runs end in executor_service._update_task_after_execution,      *)
(* which decides between waiting and a terminal outcome.                    *)
(*                                                                         *)
(* One step is one transaction under the parent's row lock, or one event    *)
(* between two.  A claim is one run with its settling; late workers, lease  *)
(* expiry and retry limits belong to TaskScheduler.                         *)
(***************************************************************************)
EXTENDS Naturals, FiniteSets, Sequences, SequencesExt

CONSTANTS
  Children,       \* the coordination children the parent may create
  Delegated,      \* those created by task_run; the others await a peer or a process
  Questions,      \* 1 .. n, the human questions of the Task's activity, in order
  MaxRuns,        \* bound of the model: logical runs (request_run_id)
  MaxAmendments   \* bound of the model: accepted instructions

ASSUME CoordinationAssumption ==
  /\ IsFiniteSet(Children)
  /\ Delegated \subseteq Children
  /\ Questions \subseteq Nat \ {0}
  /\ MaxRuns \in Nat
  /\ MaxAmendments \in Nat

VARIABLES
  parent,  \* the parent's row, with its task_amendments
  child,   \* the children's rows
  run      \* the parent's newest run

vars == <<parent, child, run>>

-----------------------------------------------------------------------------
Statuses == {"CREATE", "DISPATCH", "EXEC", "SUCCESS", "ERROR"}
Terminal == {"SUCCESS", "ERROR"}
Reasons  == {"await", "child", "input", "approval", "user"}
Outcomes == {"success", "failure", "children", "approval"}

\* data.input_request.  asker is the request_run_id of the turn that asked.
Question == [key : Questions \cup {0}, status : {"none", "pending", "answered", "delivered"},
             asker : 0 .. MaxRuns, consumed : BOOLEAN]
NoQuestion == [key |-> 0, status |-> "none", asker |-> 0, consumed |-> FALSE]

\* A child's result in data.collab_context.
Contribution == [from : Children, outcome : Terminal]

Parent == [status    : Statuses,
           reasons   : SUBSET Reasons,          \* data.pause_reasons
           receipt   : {"clean", "admitted", "resumable"},  \* as in TaskScheduler
           context   : Seq(Contribution),       \* data.collab_context
           question  : Question,
           answers   : SUBSET Questions,        \* data.input_context
           objective : 0 .. MaxAmendments,      \* instructions merged into it
           pending   : 0 .. MaxAmendments]      \* task_amendments not yet applied

\* "failing" is an ERROR whose claim is not settled: it may still be retried.
Child == [status   : {"absent", "open", "failing"} \cup Terminal,
          folded   : BOOLEAN,     \* data.fanned_in
          reopened : BOOLEAN,     \* retried by a user after it was folded
          deleted  : BOOLEAN]     \* deleted_at

\* pc: "running" in the driver, "returned" once run_task has checked the
\* objective, then the settling transaction due.  saw, heard and objective are
\* what the run started from: the length of the context, the replies, the text.
Run == [pc : {"idle", "running", "returned", "done", "failed", "stopped"},
        id : 0 .. MaxRuns, saw : Nat, heard : SUBSET Questions,
        objective : 0 .. MaxAmendments, outcome : Outcomes]

Init ==
  /\ parent \in [status : {"CREATE", "DISPATCH"}, reasons : {{}}, receipt : {"clean"},
                 context : {<< >>}, question : {NoQuestion}, answers : {{}},
                 objective : {0}, pending : {0}]
  /\ child = [c \in Children |-> [status |-> "absent", folded |-> FALSE,
                                  reopened |-> FALSE, deleted |-> FALSE]]
  /\ run = [pc |-> "idle", id |-> 0, saw |-> 0, heard |-> {}, objective |-> 0,
            outcome |-> "success"]

-----------------------------------------------------------------------------
(* Views of the rows                                                         *)

HeldByUser == "user" \in parent.reasons
Waiting    == parent.reasons \cap {"await", "child"} # {}

\* get_children, through histo_filter: deleted rows are not seen.
Visible == {c \in Children : child[c].status # "absent" /\ ~child[c].deleted}

\* Mutant: a failed child has no outcome.
SucceededOnly(c) == child[c].status = "SUCCESS"

\* task_service.has_terminal_outcome.
HasTerminalOutcome(c) == child[c].status \in Terminal

\* Mutant: a child that ended during the run needs no synthesis.
OpenOnly == {c \in Visible : ~child[c].folded /\ ~HasTerminalOutcome(c)}

\* Coordination children whose result is not yet in the parent's context.
Fresh == {c \in Visible : ~child[c].folded}

\* operational_state.has_active_delegations and _active_waits read the bare
\* status, so an unsettled ERROR is no longer active to them.
ActiveDelegations == {c \in Visible \cap Delegated : child[c].status = "open"}
ActiveWaits       == {c \in Visible : child[c].status = "open"}

\* facade.objective_amendment_blocker: an admitted run without a checkpoint
\* that can be rebased.
AmendmentBlocked == parent.receipt = "admitted"

Interrupted(status) == IF status = "EXEC" THEN "DISPATCH" ELSE status

-----------------------------------------------------------------------------
(* The parent's runs                                                         *)

\* The dispatcher routes the Task to execution.
Route ==
  /\ run.pc = "idle" /\ parent.status = "CREATE" /\ parent.reasons = {}
  /\ parent' = [parent EXCEPT !.status = "DISPATCH"]
  /\ UNCHANGED <<child, run>>

\* START_EXECUTION and activate_agent_run.  The run keeps the identity of an
\* unfinished one (_persisted_request_run_id).
Start ==
  LET id == IF parent.receipt = "clean" THEN run.id + 1 ELSE run.id
  IN /\ run.pc = "idle" /\ parent.status = "DISPATCH" /\ parent.reasons = {}
     /\ id <= MaxRuns
     /\ parent' = [parent EXCEPT !.status = "EXEC",
                     !.receipt = IF @ = "resumable" THEN @ ELSE "admitted"]
     /\ run' = [pc |-> "running", id |-> id, saw |-> Len(parent.context),
                heard |-> parent.answers, objective |-> parent.objective,
                outcome |-> "success"]
     /\ UNCHANGED child

\* persist_agent_run_state: refused once the objective has changed.
SaveCheckpoint ==
  /\ run.pc = "running"
  /\ run.objective = parent.objective /\ parent.status \notin Terminal
  /\ \E receipt \in {"admitted", "resumable"} :
       parent' = [parent EXCEPT !.receipt = receipt]
  /\ UNCHANGED <<child, run>>

\* dispatch_question, dispatch_process_wait and apply_source_lineage: a tool
\* call of the run creates a child.
CreateChild(c) ==
  /\ run.pc = "running" /\ parent.status = "EXEC"
  /\ child[c].status = "absent"
  /\ child' = [child EXCEPT ![c].status = "open"]
  /\ UNCHANGED <<parent, run>>

\* activity_controls.ask_input and request_task_input, in one transaction.
Ask(q) ==
  /\ run.pc = "running" /\ parent.status \notin Terminal
  /\ parent.question.status # "pending" /\ ~parent.question.consumed
  /\ q = parent.question.key + 1
  /\ parent' = [parent EXCEPT
       !.question = [key |-> q, status |-> "pending", asker |-> run.id, consumed |-> FALSE],
       !.reasons = IF parent.status = "EXEC" THEN @ ELSE @ \cup {"input"}]
  /\ UNCHANGED <<child, run>>

\* activity_controls.answer_input and answer_task_input.
Answer ==
  /\ parent.question.status = "pending" /\ parent.status \notin Terminal
  /\ parent' = [parent EXCEPT
       !.question.status = IF parent.status = "EXEC" THEN "answered" ELSE "delivered",
       !.answers = @ \cup {parent.question.key},
       !.reasons = IF parent.status = "EXEC" THEN @ ELSE @ \ {"input"}]
  /\ UNCHANGED <<child, run>>

\* activity_controls.submit_result and consume_task_input: the run that is
\* under way has used the reply.
Consume ==
  /\ run.pc = "running" /\ parent.status \notin Terminal
  /\ parent.question.status \in {"answered", "delivered"}
  /\ parent' = [parent EXCEPT !.question.status = "delivered", !.question.consumed = TRUE,
                              !.reasons = @ \ {"input"}]
  /\ run' = [run EXCEPT !.heard = @ \cup parent.answers]
  /\ UNCHANGED child

\* facade.run_task: the driver returned; _ensure_request_objective_is_current
\* raises StaleAgentRunError when an instruction was merged meanwhile.
Return ==
  /\ run.pc = "running"
  /\ \E o \in Outcomes :
       run' = [run EXCEPT !.outcome = o,
                 !.pc = IF run.objective = parent.objective THEN "returned" ELSE "stopped"]
  /\ UNCHANGED <<parent, child>>

\* The action raises, or its worker dies: nothing of the run is recorded.
Raise ==
  /\ run.pc = "running"
  /\ run' = [run EXCEPT !.pc = "failed"]
  /\ UNCHANGED <<parent, child>>

\* The cancellation that accompanies a hold or an instruction reaches the run.
Revoked ==
  /\ run.pc \in {"running", "returned"} /\ parent.status # "EXEC"
  /\ run' = [run EXCEPT !.pc = "stopped"]
  /\ UNCHANGED <<parent, child>>

-----------------------------------------------------------------------------
(* _update_task_after_execution                                              *)

\* _apply_run_result: the identity goes; a checkpoint goes too after a success
\* or a wait for children.
ReceiptAfter ==
  IF run.outcome \in {"success", "children"} THEN {"clean"}
  ELSE IF parent.receipt = "resumable" THEN {"resumable"}
  ELSE {"clean", "admitted"}

\* Mutant: a reply that arrived during the run does not hold its result back.
WaitsForPendingInput == parent.question.status = "pending"

\* suspend_on_pending_input: a question is open, its reply came while the run
\* was under way, or this very run asked it and has not used the reply.
WaitsForInput ==
  \/ parent.question.status \in {"pending", "answered"}
  \/ /\ parent.question.status = "delivered" /\ ~parent.question.consumed
     /\ parent.question.asker = run.id

\* task_port.suspend(task, "approval"), which leaves EXEC.
ApprovalReason == IF run.outcome = "approval" THEN {"approval"} ELSE {}

WaitForInput ==
  /\ WaitsForInput
  /\ parent' \in
       {[parent EXCEPT !.status = Interrupted(@), !.receipt = r,
           !.question.status = IF @ = "pending" THEN @ ELSE "delivered",
           !.reasons = ApprovalReason \cup
              (IF parent.question.status = "pending" THEN @ \cup {"input"} ELSE @ \ {"input"})]
        : r \in ReceiptAfter}

\* suspend_on_pending_children: INTERRUPT_EXECUTION is a transition from EXEC
\* only, and an approval wait has left EXEC already.
WaitForChildren ==
  /\ ~WaitsForInput /\ Fresh # {}
  /\ parent.status = "EXEC" /\ run.outcome # "approval"
  /\ parent' \in
       {[parent EXCEPT !.status = "DISPATCH", !.receipt = r,
           !.reasons = (IF Fresh \ Delegated # {} THEN {"await"} ELSE {})
                       \cup (IF Fresh \cap Delegated # {} THEN {"child"} ELSE {})]
        : r \in ReceiptAfter}

WaitForApproval ==
  /\ ~WaitsForInput /\ Fresh = {} /\ run.outcome = "approval"
  /\ parent.status \notin Terminal
  /\ parent' \in {[parent EXCEPT !.status = Interrupted(@), !.receipt = r,
                                 !.reasons = @ \cup {"approval"}] : r \in ReceiptAfter}

\* EXECUTION_SUCCEEDED or EXECUTION_FAILED, with every pause cleared.
End ==
  /\ ~WaitsForInput /\ Fresh = {} /\ run.outcome # "approval"
  /\ parent.status = "EXEC"
  /\ parent' \in {[parent EXCEPT !.reasons = {}, !.receipt = r,
                     !.status = IF run.outcome = "success" THEN "SUCCESS" ELSE "ERROR"]
                  : r \in ReceiptAfter}

Finish ==
  /\ run.pc = "returned"
  /\ WaitForInput \/ WaitForChildren \/ WaitForApproval \/ End
  /\ run' = [run EXCEPT !.pc = "done"]
  /\ UNCHANGED child

\* InvalidTaskTransition: the row was moved while the run returned, or the run
\* waits for a permit and for children at once.  Nothing is saved.
FinishRejected ==
  /\ run.pc = "returned"
  /\ ~WaitsForInput
  /\ \/ parent.status # "EXEC" /\ (Fresh # {} \/ run.outcome # "approval")
     \/ Fresh # {} /\ run.outcome = "approval"
  /\ run' = [run EXCEPT !.pc = "failed"]
  /\ UNCHANGED <<parent, child>>

-----------------------------------------------------------------------------
(* Settling the claim, abridged from TaskScheduler                           *)

\* _retry_is_safe.
RetryIsSafe == parent.receipt \in {"clean", "resumable"}

\* _fail_claim: a retry where it is safe and the limit allows, or the end.
FailedRows ==
  {[parent EXCEPT !.status = "ERROR", !.reasons = {}]} \cup
  (IF RetryIsSafe /\ ~HeldByUser
   THEN {[parent EXCEPT !.status = IF @ \in {"EXEC", "ERROR"} THEN "DISPATCH" ELSE @]}
   ELSE {})

\* _complete_claim, _fail_claim or _release_cancelled_claim.
Settle ==
  /\ \/ run.pc = "done" /\ UNCHANGED parent
     \/ run.pc = "done" /\ parent.status = "ERROR" /\ parent' \in FailedRows
     \/ run.pc = "failed" /\ parent' \in FailedRows
     \/ run.pc = "stopped" /\ parent' = [parent EXCEPT !.status = Interrupted(@)]
  /\ run' = [run EXCEPT !.pc = "idle", !.outcome = "success"]
  /\ UNCHANGED child

-----------------------------------------------------------------------------
(* The children                                                              *)

\* resolve_from_peer_task, resolve_process_await and resolve_external_await:
\* the peer or the process answered, or failed.
AwaitResolved(c) ==
  /\ c \in Visible \ Delegated /\ child[c].status = "open"
  /\ \E s \in Terminal : child' = [child EXCEPT ![c].status = s]
  /\ UNCHANGED <<parent, run>>

\* resume_expired_awaits, once the deadline has passed.
AwaitExpires(c) ==
  /\ c \in Visible \ Delegated /\ child[c].status = "open"
  /\ child' = [child EXCEPT ![c].status = "ERROR"]
  /\ UNCHANGED <<parent, run>>

\* A delegated child's run ends; its failure is provisional.
ChildEnds(c) ==
  /\ c \in Visible \cap Delegated /\ child[c].status = "open"
  /\ \E s \in {"SUCCESS", "failing"} : child' = [child EXCEPT ![c].status = s]
  /\ UNCHANGED <<parent, run>>

\* _complete_claim and _fail_claim of the child: a retry, or its final ERROR.
ChildSettles(c) ==
  /\ child[c].status = "failing"
  /\ \E s \in {"open", "ERROR"} : child' = [child EXCEPT ![c].status = s]
  /\ UNCHANGED <<parent, run>>

\* Mutant: applied instructions are not marked, and are applied again.
AppliedUnmarked(p) == [p EXCEPT !.objective = @ + p.pending]

\* Mutant: the fan-in leaves the accepted instructions where they are.
NothingApplied(p) == p

\* apply_pending_amendments.
Applied(p) == [p EXCEPT !.objective = @ + p.pending, !.pending = 0]

\* The conditions under which maybe_fan_in goes on to its writes.
FanInReady ==
  /\ parent.status \notin Terminal /\ Waiting /\ ~HeldByUser
  /\ \A c \in Visible : HasTerminalOutcome(c)
  /\ Fresh # {}
  /\ ~(parent.pending > 0 /\ AmendmentBlocked)

\* maybe_fan_in: under the parent's lock, the instructions accepted meanwhile,
\* the results, the consumed markers and the release are one transaction.
FanIn ==
  /\ FanInReady
  /\ parent.status = "DISPATCH"
  /\ LET Result(c) == [from |-> c, outcome |-> child[c].status]
         order     == SetToSeq(Fresh)
     IN parent' = [Applied(parent) EXCEPT
          !.context = @ \o [i \in DOMAIN order |-> Result(order[i])],
          !.reasons = @ \ {"await", "child"}]
  /\ child' = [c \in Children |->
       IF c \in Fresh THEN [child[c] EXCEPT !.folded = TRUE] ELSE child[c]]
  /\ UNCHANGED run

-----------------------------------------------------------------------------
(* Commands                                                                  *)

\* _set_tree_paused and _interrupt_running_action, on the parent.
Hold ==
  /\ parent.status \notin Terminal /\ ~HeldByUser
  /\ parent' = [parent EXCEPT !.status = Interrupted(@), !.reasons = @ \cup {"user"}]
  /\ UNCHANGED <<child, run>>

Resume ==
  /\ HeldByUser
  /\ parent' = [parent EXCEPT !.reasons = @ \ {"user"}]
  /\ UNCHANGED <<child, run>>

\* _wake_authorization_context: the permit was decided.
Approve ==
  /\ "approval" \in parent.reasons /\ run.pc = "idle" /\ ~HeldByUser
  /\ parent' = [parent EXCEPT !.reasons = @ \ {"approval"}]
  /\ UNCHANGED <<child, run>>

\* amend_task at its lock: deferred while a delegated child works or earlier
\* instructions wait; otherwise merged now, which interrupts the run.
Amend ==
  /\ parent.status \notin Terminal
  /\ ~AmendmentBlocked /\ (run.pc # "idle" => parent.receipt = "resumable")
  /\ parent.objective + parent.pending < MaxAmendments
  /\ IF ActiveDelegations # {} \/ parent.pending > 0
     THEN parent' = [parent EXCEPT !.pending = @ + 1]
     ELSE parent' = [parent EXCEPT !.objective = @ + 1,
            !.status = IF ActiveWaits # {} \/ Waiting THEN Interrupted(@) ELSE "CREATE"]
  /\ UNCHANGED <<child, run>>

\* task_service.retry of the failed parent.
RetryParent ==
  /\ parent.status = "ERROR" /\ run.pc = "idle"
  /\ parent' = [parent EXCEPT !.status = "DISPATCH", !.reasons = {}]
  /\ UNCHANGED <<child, run>>

\* task_service.retry of a failed delegated child; data.fanned_in stays.
RetryChild(c) ==
  /\ c \in Visible \cap Delegated /\ child[c].status = "ERROR"
  /\ child' = [child EXCEPT ![c].status = "open", ![c].reopened = child[c].folded]
  /\ UNCHANGED <<parent, run>>

\* task_service.delete of a child: it is terminated, then hidden.
DeleteChild(c) ==
  /\ c \in Visible
  /\ child' = [child EXCEPT ![c].deleted = TRUE,
                 ![c].status = IF @ \in Terminal THEN @ ELSE "ERROR"]
  /\ UNCHANGED <<parent, run>>

-----------------------------------------------------------------------------
RunStep ==
  \/ Route \/ Start \/ SaveCheckpoint \/ Consume \/ Return \/ Raise \/ Revoked
  \/ Finish \/ FinishRejected \/ Settle
  \/ \E c \in Children : CreateChild(c)
  \/ \E q \in Questions : Ask(q)

ChildStep ==
  \E c \in Children :
    AwaitResolved(c) \/ AwaitExpires(c) \/ ChildEnds(c) \/ ChildSettles(c)

Command ==
  \/ Answer \/ Hold \/ Resume \/ Approve \/ Amend \/ RetryParent
  \/ \E c \in Children : RetryChild(c) \/ DeleteChild(c)

Next == RunStep \/ ChildStep \/ FanIn \/ Command

\* Callers of maybe_fan_in may fail or come too early, and a peer may stay
\* silent; the scheduler's maintenance pass repeats the one and expires the
\* other (resume_completed_await_parents, resume_expired_awaits).
Fairness ==
  /\ WF_vars(FanIn)
  /\ \A c \in Children : WF_vars(AwaitExpires(c))

Spec == Init /\ [][Next]_vars /\ Fairness

-----------------------------------------------------------------------------
(* Properties                                                                *)

\* The rows and the run are well formed.
TypeOK ==
  /\ parent \in Parent
  /\ child \in [Children -> Child]
  /\ run \in Run /\ run.saw <= Len(parent.context)

\* The results that the parent's newest run started from.
Seen == SubSeq(parent.context, 1, run.saw)
CountSeen(c) == Cardinality({i \in DOMAIN Seen : Seen[i].from = c})

\* A Task succeeds only on a run that started with the result of every child it
\* created, each once and each with the outcome the child ended with (unless a
\* user reopened the child afterwards): suspend_on_pending_children and
\* maybe_fan_in against children that end, fail provisionally or are retried at
\* any moment of the run.
SynthesisComplete ==
  parent.status = "SUCCESS" =>
    \A c \in Visible :
      /\ CountSeen(c) = 1
      /\ child[c].reopened \/ \E i \in DOMAIN Seen :
                                Seen[i] = [from |-> c, outcome |-> child[c].status]

\* A Task never succeeds with its question open, nor on a run that neither
\* started with the reply nor used it: suspend_on_pending_input against a reply
\* that arrives while the run that asked is finishing.
ReplyUsed ==
  parent.status = "SUCCESS" =>
    /\ parent.question.status \in {"none", "delivered"}
    /\ parent.answers \subseteq run.heard

\* A Task succeeds on a run of its current objective, and with no accepted
\* instruction left over, unless a user deleted or reopened one of the children
\* the instruction was waiting for: amend_task, the objective check of run_task
\* and apply_pending_amendments against each other.
InstructionsHonoured ==
  parent.status = "SUCCESS" =>
    /\ run.objective = parent.objective
    /\ parent.pending = 0 \/ \E c \in Children : child[c].deleted \/ child[c].reopened

\* A parent suspended on children does not wait forever: it resumes once its
\* peers have answered or timed out, unless a delegated child is at work, a user
\* holds the parent or has deleted a child, or an unsafe checkpoint blocks the
\* instructions it has accepted.  suspend_on_pending_children, maybe_fan_in and
\* the scheduler's two maintenance passes, against children that end before,
\* while and after the parent is suspended.
WaitingParentResumes ==
  Waiting ~> \/ ~Waiting \/ HeldByUser
             \/ parent.pending > 0 /\ AmendmentBlocked
             \/ \E c \in Children : child[c].deleted
             \/ \E c \in Visible \cap Delegated : ~HasTerminalOutcome(c)

\* "Call-stack coordination keeps a parent suspended while peer or delegated
\* children are pending" (executor_service.py): the result of a run that
\* returns while its Task is in EXEC is never refused.
ResultAccepted == [][FinishRejected => parent.status # "EXEC"]_vars
=============================================================================

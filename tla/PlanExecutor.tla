---------------------------- MODULE PlanExecutor ----------------------------
(***************************************************************************)
(* PlanExecutor (app/domain/workflow/plan_executor.py) on one execution,    *)
(* with the HTTP handlers that drive it (document_workflows.py, intake.py,  *)
(* interrupts.py, production.py) and the InterruptRegistry that writes the  *)
(* same row.                                                                *)
(*                                                                          *)
(* The execution is a database row.  Every request works on a copy of its   *)
(* own: it loads the row, awaits a node executor (an LLM call, seconds to   *)
(* minutes), and writes the whole copy back.  Nothing locks or versions     *)
(* the row, so requests interleave between those points and the last save   *)
(* wins.  A save's own SELECT, UPDATE and commit are one step here, and so  *)
(* are loads with only reads between them; everything else that awaits is   *)
(* a boundary between two actions.                                          *)
(*                                                                          *)
(* Left out: prompts, station events, conversation threads, QA feedback     *)
(* text, gate_outcome, the governance audit row, child documents.           *)
(***************************************************************************)
EXTENDS EdgeRouter

CONSTANTS
    Requests,      \* HTTP requests that may be in flight together
    Ops,           \* the operations clients use in this instance
    MaxSteps,      \* run_to_completion_or_pause's max_steps (100)
    MaxDocuments,  \* bound: document rows published
    MaxAnswerRows, \* bound: pgc_answers rows
    CrashAllowed   \* whether a request may die half way

NoInput    == "no input"
ChoiceOnly == "choice"    \* selected_option_id without user_input
Inputs     == Answers \cup {NoInput, ChoiceOnly}

Commands == {"cancel", "initialize", "edit", "resolve", "escalate"}
AllOps   == Commands \cup {"step", "events", "run", "input", "message"}

ASSUME ExecutorAssumption ==
    /\ Ops \subseteq AllOps
    /\ MaxSteps \in Nat /\ MaxDocuments \in Nat /\ MaxAnswerRows \in Nat
    /\ CrashAllowed \in BOOLEAN
    /\ {NoInput, ChoiceOnly, NoAnswers, NoDraft} \cap Answers = {}

\* In every shipped plan nothing leaves an end node, and no end has an outcome
\* that an operator's command writes as well.
ASSUME OutcomeAssumption ==
    /\ \A i \in DOMAIN Edges : Edges[i].from \notin EndNodes
    /\ {NoOutcome, "cancelled", "escalated"} \cap PlanOutcomes = {}

VARIABLES
    row,        \* the workflow_executions row
    req,        \* req[r]: where request r stands and the copy it holds
    documents,  \* is_latest documents rows of this project and type
    answerRows  \* pgc_answers rows of this execution

vars == <<row, req, documents, answerRows>>

\* pc: check = top of the run loop, load = execute_step's load, exec = awaiting
\* the node executor, save = document published and state not yet saved, spawn =
\* saved once and spawning child documents, command = a handler between its
\* load and its save.
Points == {"idle", "check", "load", "exec", "save", "spawn", "command"}

RequestStates ==
    [op : AllOps \cup {"none"}, pc : Points, st : States, input : Inputs,
     steps : Nat, answered : Answers \cup {NoAnswers}]

Idle == [op |-> "none", pc |-> "idle", st |-> NewState, input |-> NoInput,
         steps |-> 0, answered |-> NoAnswers]

TypeOK ==
    /\ row \in States
    /\ req \in [Requests -> RequestStates]
    /\ documents \in Nat
    /\ answerRows \in Seq(Answers)

\* start_execution has just saved the execution (module DocumentLine models how).
Init ==
    /\ row = NewState
    /\ req = [r \in Requests |-> Idle]
    /\ documents = 0
    /\ answerRows = <<>>

(***************************************************************************)
(* Saving                                                                   *)
(***************************************************************************)

\* Where a request goes once execute_step has returned state st to it.
AfterStep(q, st) ==
    LET next == [q EXCEPT !.st = NewState, !.input = NoInput,
                          !.answered = NoAnswers] IN
    IF q.op \in {"run", "message"} THEN [next EXCEPT !.op = "run", !.pc = "check"]
    ELSE IF q.op = "events" /\ st.status \notin Finished
         THEN [next EXCEPT !.pc = "load"]
         ELSE Idle

\* The pgc_answers rows request r's session sees: a PGCAnswer it added is
\* flushed at once, and commits with its next save.
AnswersSeen(r) ==
    IF req[r].answered = NoAnswers THEN answerRows
    ELSE Append(answerRows, req[r].answered)

FileAnswers(r) == answerRows' = AnswersSeen(r)

\* execute_step's closing save.
Commit(r, st) ==
    /\ row' = Saved(st)
    /\ FileAnswers(r)
    /\ req' = [req EXCEPT ![r] = AfterStep(@, st)]

(***************************************************************************)
(* Requests arriving                                                        *)
(***************************************************************************)

Arrives(r, q) == req[r].pc = "idle" /\ req' = [req EXCEPT ![r] = q]

\* POST /step, POST /run and the intake event stream.
BeginWork(r) ==
    /\ \E op \in Ops \cap {"step", "run", "events"} :
          Arrives(r, [Idle EXCEPT !.op = op,
                                  !.pc = IF op = "run" THEN "check" ELSE "load"])
    /\ UNCHANGED <<row, documents, answerRows>>

\* POST /input and /message: submit_user_input accepts a paused execution only;
\* /input also adds a PGCAnswer when the pending payload holds questions.
SubmitInput(r) ==
    /\ row.status = "paused"
    /\ \E op \in Ops \cap {"input", "message"} :
       \E i \in IF op = "message" THEN Answers ELSE Inputs :
          LET files == op = "input" /\ row.payload /\ i \in Answers IN
          /\ files => Len(answerRows) < MaxAnswerRows
          /\ Arrives(r, [Idle EXCEPT !.op = op, !.pc = "load", !.input = i,
                                     !.answered = IF files THEN i ELSE NoAnswers])
    /\ UNCHANGED <<row, documents, answerRows>>

\* Mutant: resolve takes an interrupt that is no longer pending.
AdmitsResolved(op, st) ==
    \/ op = "cancel" /\ st.status \in {"running", "paused"}
    \/ op = "resolve"
    \/ op = "escalate" /\ st.pending

\* What a command's handler requires of the row it loads.  The escalation
\* route has no place here: handle_escalation_choice asks for a flag that no
\* load sets (Saved) and so turns every call away.
Admits(op, st) ==
    \/ op = "cancel" /\ st.status \in {"running", "paused"}
    \/ op \in {"resolve", "escalate"} /\ st.pending
    \/ op \in {"initialize", "edit"} /\ st.ctx.phase = "review"

BeginCommand(r) ==
    /\ \E op \in Ops \cap Commands :
          /\ Admits(op, row)
          /\ Arrives(r, [Idle EXCEPT !.op = op, !.pc = "command", !.st = row])
    /\ UNCHANGED <<row, documents, answerRows>>

(***************************************************************************)
(* run_to_completion_or_pause and the entry of execute_step                 *)
(***************************************************************************)

At(r, pc) == req[r].pc = pc

\* The loop ends: on a settled row, or by raising after max_steps.
RunEnds(r) ==
    /\ At(r, "check")
    /\ \/ req[r].steps >= MaxSteps
       \/ row.status \in Finished \cup {"paused"}
    /\ req' = [req EXCEPT ![r] = Idle]
    /\ UNCHANGED <<row, documents, answerRows>>

\* Mutant: the loop steps on through a pause.
RunsThroughPause(r) ==
    /\ At(r, "check")
    /\ req[r].steps < MaxSteps /\ row.status \notin Finished
    /\ req' = [req EXCEPT ![r].pc = "load", ![r].steps = @ + 1]
    /\ UNCHANGED <<row, documents, answerRows>>

RunContinues(r) ==
    /\ At(r, "check")
    /\ req[r].steps < MaxSteps
    /\ row.status \notin Finished \cup {"paused"}
    /\ req' = [req EXCEPT ![r].pc = "load", ![r].steps = @ + 1]
    /\ UNCHANGED <<row, documents, answerRows>>

\* execute_step on a finished execution returns it; the route then commits.
StepReturns(r) ==
    /\ At(r, "load")
    /\ row.status \in Finished
    /\ FileAnswers(r)
    /\ req' = [req EXCEPT ![r] = AfterStep(@, row)]
    /\ UNCHANGED <<row, documents>>

\* _load_pgc_answers_for_qa: without clarifications in the context, the
\* answers filed by /input replace those in the context.
\* The lookup expects one row: with two it raises and the load is skipped.
WithFiledAnswers(st, filed) ==
    IF IsQaGate(st.node) /\ st.ctx.clarified = NoAnswers /\ Len(filed) = 1
    THEN [st EXCEPT !.ctx.questions = TRUE, !.ctx.answers = filed[1],
                    !.ctx.clarified = filed[1]]
    ELSE st

Resumed(st, input) ==
    IF st.pending /\ input # NoInput THEN ClearPause(st) ELSE st

AnswersPgcNode(r) ==
    Kind[row.node] = "pgc" /\ row.pending /\ req[r].input \in Answers

\* Mutant: a finished execution is executed again.
StepExecutesAny(r) ==
    /\ At(r, "load")
    /\ ~AnswersPgcNode(r)
    /\ req' = [req EXCEPT ![r].pc = "exec", ![r].st = [row EXCEPT !.status = "running"]]
    /\ UNCHANGED <<row, documents, answerRows>>

\* The copy is marked running whatever it was, paused included.
StepExecutes(r) ==
    /\ At(r, "load")
    /\ row.status \notin Finished
    /\ ~AnswersPgcNode(r)
    /\ LET st == [Resumed(row, req[r].input) EXCEPT !.status = "running"] IN
       req' = [req EXCEPT ![r].pc = "exec", ![r].st = WithFiledAnswers(st, AnswersSeen(r))]
    /\ UNCHANGED <<row, documents, answerRows>>

\* _handle_pgc_user_answers (plans with a node of type pgc): merge, advance,
\* save, and execute_step again, without input.  The pause was cleared before
\* the questions are looked up, so they come from the filed answer.
PgcNodeAnswered(r) ==
    /\ At(r, "load")
    /\ row.status \notin Finished
    /\ AnswersPgcNode(r)
    /\ LET a  == req[r].input
           st == [ClearPause(row) EXCEPT
                    !.ctx.answers = a,
                    !.ctx.clarified = IF Len(AnswersSeen(r)) = 1 THEN a
                                      ELSE NoAnswers] IN
       \E e \in Selected(st, "success") :
          /\ e.to # NoNode
          /\ row' = Saved([st EXCEPT !.node = e.to])
    /\ FileAnswers(r)
    /\ req' = [req EXCEPT ![r].input = NoInput, ![r].answered = NoAnswers]
    /\ UNCHANGED documents

(***************************************************************************)
(* _handle_result: routing an outcome                                       *)
(***************************************************************************)

\* Mutant: a QA gate's renamed outcome is not recognised.
TrackedUnlessRenamed(st, outcome) ==
    IF IsQaGate(st.node) /\ outcome = "failed" /\ GeneratingNode(st) # NoNode
    THEN [st EXCEPT !.gen = GeneratingNode(st)] ELSE st

\* _prepare_qa_retry_tracking
Tracked(st, outcome) ==
    IF IsQaGate(st.node) /\ outcome \in Rejections /\ GeneratingNode(st) # NoNode
    THEN [st EXCEPT !.gen = GeneratingNode(st)] ELSE st

FindsNoEdge(r, st, outcome) ==
    /\ Selected(st, outcome) = {}
    /\ Commit(r, SetFailed(st))
    /\ UNCHANGED documents

\* A non-advancing edge: with options it trips the breaker, without it stays.
StaysPut(r, st, e) ==
    /\ e.to = NoNode
    /\ Commit(r, IF e.options = {} THEN st ELSE SetEscalation(st, e.options))
    /\ UNCHANGED documents

\* Mutant: the rejection is not counted.
AdvancesUncounted(r, st, e, outcome) ==
    /\ e.to # NoNode /\ e.to \notin EndNodes
    /\ Commit(r, [st EXCEPT !.node = e.to])
    /\ UNCHANGED documents

\* _advance_to_next_node, then _handle_qa_retry_feedback.
Advances(r, st, e, outcome) ==
    /\ e.to # NoNode /\ e.to \notin EndNodes
    /\ LET next == [st EXCEPT !.node = e.to] IN
       Commit(r, IF IsQaGate(st.node) /\ outcome \in Rejections /\ st.gen # NoNode
                 THEN IncrementRetry(next, st.gen) ELSE next)
    /\ UNCHANGED documents

\* Mutant: the execution does not move to its end node.
CompletedInPlace(st, e) == SetCompleted(st, EndOutcome[e.to])

Completed(st, e) == SetCompleted([st EXCEPT !.node = e.to], EndOutcome[e.to])

\* Nothing to persist, or persisting failed, which the executor only logs.
CompletesUnpublished(r, st, e) ==
    /\ e.to \in EndNodes
    /\ Commit(r, Completed(st, e))
    /\ UNCHANGED documents

\* _persist_produced_documents commits the Document before the state is saved.
CompletesPublishing(r, st, e) ==
    /\ e.to \in EndNodes /\ EndOutcome[e.to] = "stabilized"
    /\ DraftIsDocument /\ st.ctx.draft # NoDraft
    /\ documents < MaxDocuments
    /\ documents' = documents + 1
    /\ FileAnswers(r)
    /\ req' = [req EXCEPT ![r].pc = "save", ![r].st = Completed(st, e),
                          ![r].answered = NoAnswers]
    /\ UNCHANGED row

\* It then saves the state, and after the child documents, which fail
\* separately, execute_step saves the same copy again.
SavePublished(r) ==
    /\ At(r, "save")
    /\ row' = Saved(req[r].st)
    /\ req' = [req EXCEPT ![r].pc = "spawn"]
    /\ UNCHANGED <<documents, answerRows>>

SaveCompleted(r) ==
    /\ At(r, "spawn")
    /\ Commit(r, req[r].st)
    /\ UNCHANGED documents

Routes(r, st0, outcome) ==
    LET st == Tracked(st0, outcome) IN
    \/ FindsNoEdge(r, st, outcome)
    \/ \E e \in Selected(st, outcome) :
          \/ StaysPut(r, st, e)
          \/ Advances(r, st, e, outcome)
          \/ CompletesUnpublished(r, st, e)
          \/ CompletesPublishing(r, st, e)

(***************************************************************************)
(* Node executors: what each may report for the copy the request holds      *)
(***************************************************************************)

Executing(r, kinds) == At(r, "exec") /\ Kind[req[r].st.node] \in kinds

\* The copy with the node's execution recorded in its history.
Recorded(r) == RecordExecution(req[r].st, req[r].st.node)

\* _handle_user_input_pause
Pauses(r, st, payload) ==
    /\ Commit(r, SetPaused(st, payload))
    /\ UNCHANGED documents

\* Mutant: the gate does not wait for the answers.
HasQuestions(st) == st.ctx.questions

HasMerge(st) == st.ctx.questions /\ st.ctx.answers # NoAnswers

\* PGC gate, pass_a: generates the questions and pauses with them, or fails.
PgcGateAsks(r) ==
    /\ Executing(r, {"pgc_gate"})
    /\ ~req[r].st.ctx.questions
    /\ \/ Pauses(r, [Recorded(r) EXCEPT !.ctx.questions = TRUE], TRUE)
       \/ Routes(r, Recorded(r), "failed")

\* PGC gate, entry: pauses again; the questions are passed as metadata, so
\* the pending payload becomes NULL.
PgcGateWaits(r) ==
    /\ Executing(r, {"pgc_gate"})
    /\ req[r].st.ctx.questions /\ ~HasMerge(req[r].st)
    /\ Pauses(r, Recorded(r), FALSE)

PgcGateMerges(r) ==
    /\ Executing(r, {"pgc_gate"})
    /\ HasMerge(req[r].st)
    /\ Routes(r, [Recorded(r) EXCEPT !.ctx.phase = "merge"], "qualified")

\* A node of type pgc always generates questions: answers never reach it here.
PgcNodeAsks(r) ==
    /\ Executing(r, {"pgc"})
    /\ \/ Pauses(r, Recorded(r), TRUE)
       \/ Routes(r, Recorded(r), "failed")

Spoken(r) == req[r].input \in Answers

\* Intake gate, first phase: no text, an unclear one, or a provider outage.
IntakeAsks(r) ==
    /\ Executing(r, {"intake_gate"})
    /\ req[r].st.ctx.gatePhase = "initial"
    /\ Pauses(r, Recorded(r), FALSE)

IntakeClassifies(r) ==
    /\ Executing(r, {"intake_gate"})
    /\ req[r].st.ctx.gatePhase = "initial"
    /\ Spoken(r)
    /\ Pauses(r, [Recorded(r) EXCEPT !.ctx.gatePhase = "awaiting_confirmation"], FALSE)

\* Out of scope, or a model that answers with no classification at all.
IntakeRejects(r) ==
    /\ Executing(r, {"intake_gate"})
    /\ req[r].st.ctx.gatePhase = "initial"
    /\ Spoken(r)
    /\ \E outcome \in {"out_of_scope", "failed"} : Routes(r, Recorded(r), outcome)

\* Second phase: any execution of the gate confirms, with the operator's reply
\* when there is one and with {"confirmed": True} when there is none.
IntakeConfirms(r) ==
    /\ Executing(r, {"intake_gate"})
    /\ req[r].st.ctx.gatePhase = "awaiting_confirmation"
    /\ Routes(r, [Recorded(r) EXCEPT
                    !.ctx.gatePhase = "complete", !.ctx.phase = "review",
                    !.ctx.confirmed = IF Spoken(r) THEN "operator" ELSE "default"],
              "qualified")

\* A gate already confirmed reports failed, which no plan has an edge for.
IntakeIsComplete(r) ==
    /\ Executing(r, {"intake_gate"})
    /\ req[r].st.ctx.gatePhase = "complete"
    /\ Routes(r, Recorded(r), "failed")

TaskRuns(r) ==
    /\ Executing(r, {"task"})
    /\ LET st == Recorded(r)
           made == IF st.node \in Producing
                   THEN [st EXCEPT !.ctx.draft = st.ctx.answers] ELSE st IN
       Routes(r, made, "success") \/ Routes(r, st, "failed")

\* A QA gate renames success and everything else to pass and fail.
QaJudges(r) ==
    /\ Executing(r, {"qa", "qa_gate"})
    /\ \E outcome \in IF Kind[req[r].st.node] = "qa_gate"
                      THEN {"pass", "fail"} ELSE {"success", "failed"} :
          Routes(r, Recorded(r), outcome)

\* An end node only runs when a finished row was set running again.
EndReports(r) ==
    /\ Executing(r, {"end"})
    /\ Routes(r, Recorded(r), EndOutcome[req[r].st.node])

\* Task executors turn every exception into an outcome; gates and QA may raise.
MayRaise(r) ==
    LET st == req[r].st IN
    \/ IsQaGate(st.node)
    \/ Kind[st.node] = "pgc_gate" /\ HasMerge(st)
    \/ Kind[st.node] = "intake_gate" /\ Spoken(r)

NodeRaises(r) ==
    /\ At(r, "exec") /\ MayRaise(r)
    /\ row' = Saved(SetFailed(req[r].st))
    /\ FileAnswers(r)
    /\ req' = [req EXCEPT ![r] = Idle]
    /\ UNCHANGED documents

(***************************************************************************)
(* Commands: handlers that write without executing a node                   *)
(***************************************************************************)

Commanded(r, op) == At(r, "command") /\ req[r].op = op

Answered(r) == req' = [req EXCEPT ![r] = Idle]

\* cancel_execution
Cancels(r) ==
    /\ Commanded(r, "cancel")
    /\ LET st   == ClearEscalation(req[r].st)
           open == IF st.pending THEN ClearPause(st) ELSE st IN
       row' = Saved(RecordExecution(SetCompleted(open, "cancelled"), open.node))
    /\ Answered(r)
    /\ UNCHANGED <<documents, answerRows>>

\* PATCH /field: writes the interpretation, and with it the whole copy.  It
\* is admitted by the phase alone (Admits), which a finished intake keeps
\* unless /initialize moved it on: that one is rewritten and saved as well.
EditsField(r) ==
    /\ Commanded(r, "edit")
    /\ row' = Saved([req[r].st EXCEPT !.ctx.edited = TRUE])
    /\ Answered(r)
    /\ UNCHANGED <<documents, answerRows>>

\* POST /initialize
Initializes(r) ==
    /\ Commanded(r, "initialize")
    /\ row' = Saved(ClearPause([req[r].st EXCEPT !.ctx.phase = "generating"]))
    /\ Answered(r)
    /\ UNCHANGED <<documents, answerRows>>

\* InterruptRegistry.resolve, then the route's run loop.  Only the columns
\* whose value differs from the row it selected are written.
Resolves(r) ==
    /\ Commanded(r, "resolve")
    /\ LET old == req[r].st IN
       \E a \in Answers \cup {old.ctx.answers} :
          row' = [row EXCEPT
                    !.pending = FALSE,
                    !.payload = @ /\ ~old.payload,
                    !.status = IF old.status = "running" THEN @ ELSE "running",
                    !.ctx = [old.ctx EXCEPT !.answers = a]]
    /\ req' = [req EXCEPT ![r] = [Idle EXCEPT !.op = "run", !.pc = "check"]]
    /\ UNCHANGED <<documents, answerRows>>

\* InterruptRegistry.escalate selects the row again and checks nothing.
Escalates(r) ==
    /\ Commanded(r, "escalate")
    /\ row' = [SetCompleted(row, "escalated") EXCEPT !.pending = FALSE,
                                                     !.payload = FALSE]
    /\ Answered(r)
    /\ UNCHANGED <<documents, answerRows>>

(***************************************************************************)
(* Requests ending early                                                    *)
(***************************************************************************)

\* The event stream's client disconnects between two steps.
Disconnects(r) ==
    /\ At(r, "load") /\ req[r].op = "events"
    /\ Answered(r)
    /\ UNCHANGED <<row, documents, answerRows>>

\* The worker dies; whatever its session had not committed is gone.
Crash(r) ==
    /\ CrashAllowed
    /\ ~At(r, "idle")
    /\ Answered(r)
    /\ UNCHANGED <<row, documents, answerRows>>

Arrival(r) == BeginWork(r) \/ SubmitInput(r) \/ BeginCommand(r)

Stepping(r) ==
    \/ RunEnds(r) \/ RunContinues(r) \/ StepReturns(r)
    \/ StepExecutes(r) \/ PgcNodeAnswered(r) \/ SavePublished(r) \/ SaveCompleted(r)

Executor(r) ==
    \/ PgcGateAsks(r) \/ PgcGateWaits(r) \/ PgcGateMerges(r) \/ PgcNodeAsks(r)
    \/ IntakeAsks(r) \/ IntakeClassifies(r) \/ IntakeRejects(r) \/ IntakeConfirms(r)
    \/ IntakeIsComplete(r) \/ TaskRuns(r) \/ QaJudges(r) \/ EndReports(r) \/ NodeRaises(r)

Command(r) ==
    \/ Cancels(r) \/ EditsField(r) \/ Initializes(r)
    \/ Resolves(r) \/ Escalates(r)

Next ==
    \E r \in Requests :
        \/ Arrival(r) \/ Stepping(r) \/ Executor(r) \/ Command(r)
        \/ Disconnects(r) \/ Crash(r)

\* The event loop keeps scheduling an accepted request, and an executor's
\* LLM call returns or raises.  Clients owe nothing: no fairness on Arrival.
Fairness ==
    \A r \in Requests : WF_vars(Stepping(r) \/ Executor(r) \/ Command(r))

Spec == Init /\ [][Next]_vars
FairSpec == Spec /\ Fairness

(***************************************************************************)
(* Properties                                                               *)
(***************************************************************************)

\* No node's QA rejections exceed the circuit breaker's limit, however many
\* requests step the execution at once: the counter is checked by the edge
\* (_get_condition_value) and raised after routing (_handle_qa_retry_feedback),
\* both on a copy the executor loaded before awaiting the QA model.
RetryBudget == \A n \in Nodes : row.retries[n] <= MaxRetries

\* A plan outcome in the row is the outcome of the end node it stands at: no
\* interleaving of saves and column updates leaves "stabilized" on an
\* execution that is elsewhere in the plan.
OutcomeOfItsEnd ==
    row.terminal \in PlanOutcomes =>
        row.node \in EndNodes /\ EndOutcome[row.node] = row.terminal

\* Nothing is written before the clarification questions are answered.
DraftedFromAnswers == row.ctx.draft # NoAnswers

\* QA judged the document against the answers it was written from.
JudgedOnItsAnswers ==
    row.terminal = "stabilized" => row.ctx.answers = row.ctx.draft

\* A paused execution waits for an input, or its breaker has tripped.
PausedForAReason ==
    row.status = "paused" =>
        \/ row.pending
        \/ IsQaGate(row.node) /\ row.retries[GeneratingNode(row)] >= MaxRetries

\* One run of the loop takes at most one pass of the plan and one further
\* pass for each retry, far from max_steps.
RunIsShort == \A r \in Requests : req[r].steps <= 3 + 2 * MaxRetries

\* An execution stopped by its breaker offers the operator the plan's choices:
\* "the user must choose how to proceed" (handle_escalation).
BreakerOffersChoice ==
    row.status = "paused" /\ ~row.pending => row.offered # {}

\* The classification went on because the operator replied to it.
ConfirmedByOperator == row.ctx.confirmed # "default"

\* A cancelled execution stays cancelled.
CancelledStays ==
    [][row.terminal = "cancelled" => row'.terminal = "cancelled"]_row

\* A run ends, and leaves the execution finished or waiting.
RunSettles ==
    \A r \in Requests :
        req[r].op = "run" ~>
            req[r].pc = "idle" /\ row.status \in Finished \cup {"paused"}
=============================================================================

----------------------------- MODULE StepWorkflow -----------------------------
(* The step workflow engine: WorkflowExecutor drives a workflow of production *)
(* and iteration steps, StepExecutor executes one production step with its    *)
(* clarification gate, its schema check and its remediation loop, the state   *)
(* and the scoped document store are WorkflowState and WorkflowContext.       *)
(* A run holds the workflow from a call of start, process_acceptance or       *)
(* process_clarification until it returns; each call of the model is one step.*)
EXTENDS Naturals, Sequences, SequencesExt

CONSTANTS
    Plan,         \* the top-level steps, in order
    Nested,       \* the nested steps of each iteration step, in order
    Source,       \* the document type each iteration step goes over
    Produces,     \* the document type each production step produces
    Inputs,       \* the required inputs of each production step: project
                  \* documents, or Item for the entity the iteration is at
    Guarded,      \* the document types that require acceptance
    Collections,  \* the collections a source document may hold
    MaxAttempts,
    Item, Root, None

Iterations == DOMAIN Nested
Steps == DOMAIN Produces
Types == Range(Produces)
Entities == UNION {Range(c) : c \in Collections}

\* A step is of one kind, and is found by its identifier, which no two steps of
\* one iteration share.
ASSUME PlanAssumption ==
    /\ MaxAttempts \in Nat \ {0}
    /\ Plan \in Seq(Steps \cup Iterations) /\ Steps \cap Iterations = {}
    /\ DOMAIN Source = Iterations
    /\ \A s \in Iterations :
          Nested[s] # <<>> /\ Nested[s] \in Seq(Steps) /\ IsInjective(Nested[s])
    /\ \A c \in Collections : c \in Seq(Range(c))
    /\ Root \notin Entities /\ None \notin Steps

\* What the loader does not check and an iteration relies on: its source is made
\* by steps of the plan before it, and by no nested step. Else expand() could
\* answer with another collection between two pauses of one iteration, and
\* instances[current_index] be another entity, or none.
SourcesFirst ==
    \A s \in Iterations, n \in Steps :
        Produces[n] = Source[s] =>
            /\ \A i \in DOMAIN Plan : Plan[i] = s =>
                  \E j \in DOMAIN Plan : j < i /\ Plan[j] = n
            /\ \A t \in Iterations : n \notin Range(Nested[t])

\* Each document that requires acceptance is made by one step.
MadeByOne ==
    \A s, n \in Steps : Produces[s] = Produces[n] /\ Produces[s] \in Guarded => s = n

\* A document, like a decision, is kept under its type and a scope.
Keys == Types \X (Entities \cup {Root})

VARIABLES
    status, completed, steps, progress,
    pending,      \* pending_acceptance and its scope
    asked,        \* pending_clarification_step_id
    decisions, docs, collections,
    at,           \* where the run is: with its caller, at the head of its loop,
                  \* between two nested steps, or awaiting the model
    current,      \* the production step being executed, and its scope
    mayAsk,       \* allow_clarification
    agreed,       \* the editions a person accepted (history)
    clarified,    \* the documents drafted from answers (history)
    served        \* the nested steps done, by entity (history)

history == <<agreed, clarified, served>>
pausing == <<pending, asked, decisions>>
vars == <<status, completed, steps, progress, pausing, docs, collections,
          at, current, mayAsk, history>>

Statuses == {"pending", "running", "waiting_acceptance", "waiting_clarification",
             "completed", "failed"}
StepStatuses == {"pending", "executing", "clarifying", "remediating", "completed",
                 "failed"}

Init ==
    /\ status = "pending" /\ completed = {}
    /\ steps = [s \in Steps |-> [status |-> "pending", attempt |-> 0]]
    /\ progress = [s \in Iterations |-> 0]
    /\ pending = None /\ asked = None
    /\ decisions = [k \in Keys |-> None]
    /\ docs = [k \in Keys |-> 0]
    /\ collections = [t \in Range(Source) |-> <<>>]
    /\ at = "caller" /\ current = None /\ mayAsk = TRUE
    /\ agreed = [k \in Keys |-> 0] /\ clarified = {} /\ served = {}

-------------------------------------------------------------------------------
(* One production step: StepExecutor. *)

\* Item resolves through the scope stack, which is empty outside an iteration;
\* a document that was never stored is not found.
Resolves(s, scope) ==
    \A i \in Inputs[s] : IF i = Item THEN scope # Root ELSE docs[<<i, Root>>] > 0

\* StepState.start counts an attempt for every execution of the step, whichever
\* entity it is for; the missing input fails step and workflow.
Begins(s, scope, attempt, ask) ==
    /\ steps' = [steps EXCEPT ![s] =
                    [status |-> IF Resolves(s, scope) THEN "executing" ELSE "failed",
                     attempt |-> attempt]]
    /\ \/ /\ Resolves(s, scope)
          /\ at' = "call" /\ current' = <<s, scope>> /\ mayAsk' = ask
          /\ UNCHANGED status
       \/ /\ ~Resolves(s, scope)
          /\ at' = "caller" /\ status' = "failed"
          /\ UNCHANGED <<current, mayAsk>>

\* Mutant: every execution is a first attempt.
ExecutesAfresh(s, scope) == Begins(s, scope, 1, TRUE)
Executes(s, scope) == Begins(s, scope, steps[s].attempt + 1, TRUE)

\* make_decision_key.
DecisionKeyOfType(t, scope) == <<t, Root>>      \* mutant: without the scope
DecisionKey(t, scope) == <<t, scope>>

\* mark_step_complete.
MarksDocument(s) == completed' = completed \cup {Produces[current[1]]}  \* mutant
MarksComplete(s) == completed' = completed \cup {s}

\* store_document: an output that is empty passes the checks and is not stored.
Stores(k, full) ==
    /\ docs' = IF full THEN [docs EXCEPT ![k] = @ + 1] ELSE docs
    /\ IF full /\ k[1] \in DOMAIN collections /\ k[2] = Root
       THEN \E c \in Collections : collections' = [collections EXCEPT ![k[1]] = c]
       ELSE UNCHANGED collections

StepOf == current[1]
Attempt == steps[StepOf].attempt
StepBecomes(st, attempt) ==
    steps' = [steps EXCEPT ![StepOf] = [status |-> st, attempt |-> attempt]]

\* The model asks, and is heard on the first attempt only. Later a question set
\* is an output like any other: see Passes.
Asks ==
    /\ mayAsk /\ Attempt = 1
    /\ StepBecomes("clarifying", Attempt)
    /\ status' = "waiting_clarification" /\ asked' = StepOf /\ at' = "caller"
    /\ UNCHANGED <<completed, progress, pending, decisions, docs, collections,
                   current, mayAsk, history>>

\* The output does not parse or breaks its schema, and is sent back.
Remediates ==
    /\ Attempt < MaxAttempts
    /\ StepBecomes("remediating", Attempt + 1)
    /\ UNCHANGED <<status, completed, progress, pausing, docs, collections, at,
                   current, mayAsk, history>>

\* The attempts are used up, or the call itself raised.
Fails ==
    /\ StepBecomes("failed", Attempt)
    /\ status' = "failed" /\ at' = "caller"
    /\ UNCHANGED <<completed, progress, pausing, docs, collections, current, mayAsk,
                   history>>

NeedsAcceptance(t, scope) ==
    t \in Guarded /\ decisions[DecisionKey(t, scope)] = None

\* WorkflowState.resume, which a run does after the questions are answered.
StillAsked == asked                             \* mutant: not cleared
AskedAfter == IF mayAsk THEN asked ELSE None

\* An output that passes. A step continued after its questions is complete; any
\* other first waits for a decision on its document, if none is recorded.
Passes(full) ==
    LET scope == current[2]
        key == <<Produces[StepOf], scope>>
        waits == mayAsk /\ full /\ NeedsAcceptance(Produces[StepOf], scope)
    IN
    /\ StepBecomes("completed", Attempt)
    /\ Stores(key, full)
    /\ clarified' = IF full /\ ~mayAsk THEN clarified \cup {key} ELSE clarified
    /\ \/ /\ waits
          /\ status' = "waiting_acceptance" /\ pending' = key /\ at' = "caller"
          /\ UNCHANGED <<completed, served, asked>>
       \/ /\ ~waits
          /\ MarksComplete(StepOf)
          /\ served' = IF scope = Root THEN served ELSE served \cup {current}
          /\ at' = IF scope = Root THEN "loop" ELSE "nested"
          /\ asked' = AskedAfter
          /\ status' = "running"
          /\ UNCHANGED pending
    /\ UNCHANGED <<progress, decisions, current, mayAsk, agreed>>

ModelReplies ==
    /\ at = "call"
    /\ Asks \/ Remediates \/ Fails \/ \E full \in BOOLEAN : Passes(full)

-------------------------------------------------------------------------------
(* The run: WorkflowExecutor. *)

Items(s) == collections[Source[s]]

\* _execute_iteration_step: the instance the progress points at starts with the
\* first nested step, also when the run comes back to it after a pause.
EntersInstance(s) ==
    /\ progress' = [progress EXCEPT ![s] = IF @ = 0 THEN 1 ELSE @]
    /\ Executes(Nested[s][1], Items(s)[progress'[s]])
    /\ UNCHANGED completed

\* _get_next_step: the first step of the plan that is not complete.
Open == {i \in DOMAIN Plan : Plan[i] \notin completed}
Due == Plan[Min(Open)]

NextStep ==
    /\ at = "loop"
    /\ \/ /\ Open = {}
          /\ status' = "completed" /\ at' = "caller"
          /\ UNCHANGED <<completed, steps, progress, current, mayAsk>>
       \/ /\ Open # {}
          /\ LET s == Due IN
             \/ /\ s \in Steps
                /\ Executes(s, Root)
                /\ UNCHANGED <<completed, progress>>
             \/ /\ s \in Iterations /\ Items(s) = <<>>
                /\ MarksComplete(s)
                /\ UNCHANGED <<status, steps, progress, at, current, mayAsk>>
             \/ /\ s \in Iterations /\ Items(s) # <<>>
                /\ EntersInstance(s)
    /\ UNCHANGED <<pausing, docs, collections, history>>

\* IterationProgress, counted from the instance at work.
IsLastOffByOne(s) == progress[s] + 1 >= Len(Items(s))       \* mutant
IsLast(s) == progress[s] >= Len(Items(s))

\* The next nested step, else the next instance, else the step is complete.
AdvancesInstance(s) ==
    /\ progress' = [progress EXCEPT ![s] = @ + 1]
    /\ \/ /\ ~IsLast(s)
          /\ Executes(Nested[s][1], Items(s)[progress[s] + 1])
          /\ UNCHANGED completed
       \/ /\ IsLast(s)
          /\ MarksComplete(s)
          /\ at' = "loop"
          /\ UNCHANGED <<status, steps, current, mayAsk>>

NextNested ==
    /\ at = "nested"
    /\ LET s == Due
           done == CHOOSE i \in DOMAIN Nested[s] : Nested[s][i] = StepOf
       IN
       \/ /\ done < Len(Nested[s])
          /\ Executes(Nested[s][done + 1], current[2])
          /\ UNCHANGED <<completed, progress>>
       \/ /\ done = Len(Nested[s])
          /\ AdvancesInstance(s)
    /\ UNCHANGED <<pausing, docs, collections, history>>

Start ==
    /\ status = "pending"
    /\ status' = "running" /\ at' = "loop"
    /\ UNCHANGED <<completed, steps, progress, pausing, docs, collections, current,
                   mayAsk, history>>

\* process_acceptance: recorded, then resumed or failed. Resuming runs the step
\* of the accepted document again.
ProcessAcceptance ==
    /\ status = "waiting_acceptance"
    /\ \E accepted \in BOOLEAN :
        /\ decisions' = [decisions EXCEPT
                ![DecisionKey(pending[1], pending[2])] = accepted]
        /\ status' = IF accepted THEN "running" ELSE "failed"
        /\ at' = IF accepted THEN "loop" ELSE "caller"
        /\ pending' = IF accepted THEN None ELSE pending
        /\ agreed' = IF accepted THEN [agreed EXCEPT ![pending] = docs[pending]]
                     ELSE agreed
        /\ asked' = IF accepted THEN None ELSE asked
    /\ UNCHANGED <<completed, steps, progress, docs, collections, current, mayAsk,
                   clarified, served>>

\* process_clarification: the step goes on outside its scope, which the pause
\* has popped; the status stays as it was until the step is through.
ProcessClarification ==
    /\ status = "waiting_clarification" /\ at = "caller"
    /\ Begins(asked, Root, steps[asked].attempt, FALSE)
    /\ UNCHANGED <<completed, progress, pausing, docs, collections, history>>

Runs == ModelReplies \/ NextStep \/ NextNested
Answers == ProcessAcceptance \/ ProcessClarification
Next == Start \/ Runs \/ Answers

Spec == Init /\ [][Next]_vars /\ WF_vars(Runs) /\ WF_vars(Answers)
-------------------------------------------------------------------------------
Finished == status \in {"completed", "failed"}

\* The workflow state, the context and the run keep their types.
TypeOK ==
    /\ status \in Statuses
    /\ completed \subseteq Steps \cup Iterations
    /\ steps \in [Steps -> [status : StepStatuses, attempt : Nat]]
    /\ progress \in [Iterations -> Nat]
    /\ pending \in Keys \cup {None} /\ asked \in Steps \cup {None}
    /\ decisions \in [Keys -> BOOLEAN \cup {None}]
    /\ docs \in [Keys -> Nat]
    /\ \A t \in Range(Source) : collections[t] \in Collections \cup {<<>>}
    /\ at \in {"caller", "loop", "nested", "call"}
    /\ current \in (Steps \X (Entities \cup {Root})) \cup {None}

\* Only one answer is waited for: the decision on a stored document that has
\* none, or the answers to the step that asked. (workflow_state.py, wait_for_*)
WaitsForOne ==
    at = "caller" =>
        /\ status = "waiting_acceptance" =>
               /\ asked = None
               /\ docs[pending] > 0 /\ decisions[pending] = None
        /\ status = "waiting_clarification" =>
               /\ pending = None
               /\ steps[asked].status = "clarifying"

\* The workflow goes on past a document that requires acceptance only after a
\* person accepted an edition of it under its own scope, unless it was drafted
\* from answers; outside iterations at most one edition follows the accepted one.
\* That edition is put to nobody: an acceptance has the step executed again
\* (process_acceptance, run_until_pause), and its decision is already recorded.
\* So what goes on is not what was accepted, against ADR-012-Interaction-Model:176,
\* "No output requiring acceptance may proceed without it".
AcceptedOrRedrafted ==
    status \in {"running", "completed"} =>
        \A k \in Keys :
            k[1] \in Guarded /\ docs[k] > 0 /\ k \notin clarified =>
                agreed[k] > 0 /\ (k[2] = Root => docs[k] <= agreed[k] + 1)

\* An iteration is complete when every nested step was done for every entity,
\* however many pauses interrupted it.
EachEntityServed ==
    \A s \in Iterations \cap completed :
        \A e \in Range(Items(s)), n \in Range(Nested[s]) : <<n, e>> \in served

\* Once started the workflow completes or fails, whatever the model replies, if
\* pauses are answered: neither remediation, nor iteration, nor running a step
\* again after a decision goes on for ever.
Settles == status # "pending" ~> Finished
===============================================================================

----------------------- MODULE DocumentWorkflowState -----------------------
(***************************************************************************)
(* DocumentWorkflowState (app/domain/workflow/document_workflow_state.py):  *)
(* the record one execution is, its mutators, and what a save keeps of it   *)
(* (pg_state_persistence.py, state_mapping.py).  Mutators are functions     *)
(* from a record to a record: the code mutates a detached copy and only a   *)
(* later save publishes it.                                                 *)
(*                                                                          *)
(* node_history is reduced to the two entries _find_generating_node looks   *)
(* for: the first producing task and the first task.  context_state is      *)
(* reduced to the keys that steer the executor.                             *)
(***************************************************************************)
EXTENDS WorkflowPlan

CONSTANTS
    Answers,   \* operator answer sets (or intake messages)
    Options    \* escalation options the plan may offer

ASSUME OptionsAssumption ==
    \A i \in DOMAIN Edges : Edges[i].options \subseteq Options

NoAnswers == "no answers"
NoDraft   == "no draft"
NoOutcome == "no outcome"

Statuses == {"pending", "running", "paused", "completed", "failed"}
Finished == {"completed", "failed"}
Outcomes == PlanOutcomes \cup {NoOutcome, "cancelled", "escalated"}

Contexts ==
    [questions : BOOLEAN,                        \* pgc_questions
     answers   : Answers \cup {NoAnswers},       \* pgc_answers
     clarified : Answers \cup {NoAnswers},       \* pgc_clarifications, by origin
     draft     : Answers \cup {NoAnswers, NoDraft}, \* the answers the produced
                                                    \* document was written from
     gatePhase : {"initial", "awaiting_confirmation", "complete"},
     confirmed : {"no", "operator", "default"},  \* intake_confirmation
     phase     : {"describe", "merge", "review", "generating"},
     edited    : BOOLEAN]                        \* the user rewrote a field of
                                                 \* the interpretation

States ==
    [status   : Statuses,
     node     : Nodes,
     pending  : BOOLEAN,             \* pending_user_input
     payload  : BOOLEAN,             \* pending payload holds questions
     retries  : [Nodes -> Nat],
     gen      : Nodes \cup {NoNode}, \* generating_node_id
     offered  : SUBSET Options,      \* escalation_options; {} = not active
     terminal : Outcomes,
     made     : Nodes \cup {NoNode}, \* first producing task in node_history
     task     : Nodes \cup {NoNode}, \* first task in node_history
     ctx      : Contexts]

NewState ==
    [status |-> "pending", node |-> Entry, pending |-> FALSE, payload |-> FALSE,
     retries |-> [n \in Nodes |-> 0], gen |-> NoNode, offered |-> {},
     terminal |-> NoOutcome, made |-> NoNode, task |-> NoNode,
     ctx |-> [questions |-> FALSE, answers |-> NoAnswers, clarified |-> NoAnswers,
              draft |-> NoDraft, gatePhase |-> "initial", confirmed |-> "no",
              phase |-> "describe", edited |-> FALSE]]

\* Mutant: the last producing task counts, as it once did.
RecordLastTask(st, n) ==
    IF Kind[n] = "task" THEN [st EXCEPT !.made = n, !.task = n] ELSE st

RecordExecution(st, n) ==
    IF Kind[n] # "task" THEN st
    ELSE [st EXCEPT !.made = IF @ = NoNode /\ n \in Producing THEN n ELSE @,
                    !.task = IF @ = NoNode THEN n ELSE @]

\* Mutant: the pending flag is forgotten.
SetPausedOnly(st, payload) == [st EXCEPT !.status = "paused", !.payload = payload]

SetPaused(st, payload) ==
    [st EXCEPT !.status = "paused", !.pending = TRUE, !.payload = payload]

ClearPause(st) ==
    [st EXCEPT !.status = "running", !.pending = FALSE, !.payload = FALSE]

\* Unlike SetPaused this leaves pending_user_input alone.
SetEscalation(st, options) ==
    [st EXCEPT !.offered = options, !.status = "paused"]

ClearEscalation(st) == [st EXCEPT !.offered = {}]

\* Mutant: the terminal outcome is taken for the status.
SetCompletedAs(st, outcome) ==
    [st EXCEPT !.status = outcome, !.terminal = outcome]

SetCompleted(st, outcome) ==
    [st EXCEPT !.status = "completed", !.terminal = outcome]

SetFailed(st) == RecordExecution([st EXCEPT !.status = "failed"], st.node)

IncrementRetry(st, n) == [st EXCEPT !.retries[n] = @ + 1]

\* _find_generating_node
GeneratingNode(st) == IF st.made # NoNode THEN st.made ELSE st.task

\* What a later load returns: the table has no column for the escalation
\* flags nor for generating_node_id.
Saved(st) == [st EXCEPT !.offered = {}, !.gen = NoNode]
=============================================================================

# A TLA+ verification of The Combine

The Combine turns a conversation with an operator into governed documents
(project discovery, technical architecture, implementation plan) by walking each
through a *workflow plan*: questions, drafting by a language model, QA by a language
model, remediation, publication. Around this stand a registry of plans, an older step
engine with iterations, projects and their workflow instances, a work binder that
breaks a plan down into packages and statements, and an admin workbench that edits the
configuration in git. This project models these parts with the HTTP handlers that
drive them, model-checks them with TLC and proves the central results with TLAPS.

Paths below are relative to the repository; `W/` is `app/domain/workflow/`, `R/` is
`app/api/v1/routers/`, `S/` is `app/domain/services/` and `A/` is `app/api/services/`,
all under `src/`.

## 1. Inventory

### The system

| Component | State it keeps | Operations | Correct when |
|---|---|---|---|
| **Plan executor** `W/plan_executor.py` | none of its own; works on copies of an execution | start, step, run, submit input, choose escalation, cancel | the plan's control is followed whatever requests arrive; rejections are bounded; the end is final |
| **Edge router** `W/edge_router.py` | none (pure) | which edge an outcome takes | first matching edge in plan order; counters compared as the plan says |
| **Workflow state** `W/document_workflow_state.py` | status, node, pause, escalation, counters, context, history | mutators | a paused execution has a reason, an outcome belongs to an end node |
| **Persistence** `W/pg_state_persistence.py`, `W/state_mapping.py` | the `workflow_executions` row | save, load, load by document | what is saved is what is loaded |
| **Plans** `W/plan_models.py`, `combine-config/workflows` | read-only data | | loops guarded, outcomes routed |
| **Plan registry** `W/plan_registry.py`, `plan_loader.py`, `plan_validator.py` | a registry per process | create, load, validate, register, get | what is served can be executed, and what is missing is known |
| **Node executors** `W/nodes/` | none; write the context | pgc gate, intake gate, QA, task, end | every situation is reported with an outcome the plan routes |
| **Interrupts** `W/interrupt_registry.py`, `R/interrupts.py` | the same row | list, resolve, escalate | only what is pending is resolved |
| **Workflow routes** `R/document_workflows.py` | `pgc_answers` rows | start, step, run, input, escalation, cancel | answers reach whoever asked |
| **Intake routes** `R/intake.py` | the same row, projects | start, message, field, initialize, event stream | an intake is confirmed by its operator |
| **Publication** `S/display_id_service.py`, `app/api/models/document.py`, `R/production.py` | `documents` rows | start production, mint an id, publish | ids unique and in order, one latest document |
| **Projects, workflow instances** `R/projects.py`, `A/project_creation_service.py`, `A/workflow_instance_service.py` | projects, instances, their history | create (form, intake, stream), archive, delete, assign, replace, complete | ids free, one project per intake, history accounts for drift |
| **Work binder** `R/work_binder.py`, `S/ws_*.py`, `S/wp_*.py` | candidates, packages with their index, statements | import, promote, create, propose, reorder, edit, stabilize | the index and the statements agree, READY is complete |
| **Work states** `S/work_package_state.py`, `S/work_statement_state.py` | a status each | transitions | only listed transitions |
| **Step engine** `W/workflow_executor.py`, `step_executor.py`, `iteration.py`, `context.py`, `gates/` | a workflow in memory, its documents and decisions | start, run, accept, clarify | what is to be accepted is put to a person, every entity is served, a run ends |
| **Workspaces, git, releases** `A/workspace_service.py`, `git_service.py`, `release_service.py` | workspaces in memory, branches, one index and working tree | open, edit, stage, commit, discard, activate, roll back, close, expire | indexes agree, no switch of branch loses an edit, a commit takes what somebody chose |
| **Configuration packages** `app/config/package_loader.py` | caches | load, invalidate | what is cached is there |
| Child documents `W/child_document_helpers.py` | `documents` rows | upsert, supersede | idempotent per parent |
| Production orchestrator `W/project_orchestrator.py` | tracks in memory | run a line of documents | a track starts when its inputs are stable |
| LLM threads `S/thread_execution_service.py` | threads, work items, ledger | create, enqueue, execute | one thread per key |
| Documents, staleness `A/document_service.py`, `S/staleness_service.py` | version chains, relations | create version, mark stale | one latest version |
| Authentication `app/auth/` | sessions, tokens, links | login, verify, revoke, expire | no session after revocation or expiry |
| Events `R/production.py`, `R/sse.py`, `R/websocket.py` | queues in memory | subscribe, publish | nobody blocks a publisher |
| Prompt assembly, rendering, LLM providers, telemetry, secrets, rate limits, metrics, front end | none, or counters | | text, I/O or worker-local |

Those in bold are modelled, most of them with the omissions that `PROJECT.json` names.

### How they interact

A FastAPI handler gets a database session, builds its services on it and calls one
operation; what outlives a request is in the database, in git's working tree, or in two
process-wide singletons (plan registry, workspace service).

`execute_step` *loads* an execution's row, awaits a node executor (seconds to minutes of language
model), routes the outcome and *saves the whole copy*; the save has no version check
and takes no lock. `InterruptRegistry` updates columns of the same row directly. Answers reach a
clarification gate by either of two routes: an interrupt's resolution writes them into the
row's context, `/input` files a `pgc_answers` row. Stabilizing commits a `documents` row
before the state is saved. A finished intake is turned into a project by whichever reading of it
comes first: the running stream, a reconnected one, a message or a plain GET. The work binder
and the workflow instances keep JSON columns that are loaded, changed in a copy and written back
whole. The workbench calls git synchronously on the event loop, so its requests are
atomic but share one HEAD, one index and one tree. The plan registry is filled when
`R/document_workflows.py` is imported, before any request.

### What is hard

* two requests on one row between a load and a save: stale copies, lost updates, in
  executions, packages, statements and workflow instances;
* look-up-then-create and read-maximum-then-insert without a lock: executions, display ids,
  packages of a candidate, project numbers, projects of an intake;
* a crash between the document's commit and the state's save; fields that a save does not keep;
* answers given by both routes, in either order, more than once;
* a retry counter kept under another node's name, read before routing and raised after;
* handlers that each guard finished or paused executions their own way, or not;
* a cleanup of which git refuses one step; commits into a tree and from an index others are editing;
* pauses inside an iteration, and an attempt counter shared by all its entities;
* one unreadable definition among many, when all are loaded at import;
* display numbers compared as strings, project numbers past their padding.

`PROJECT.json` lists each hazard at its line, with the properties that watch it, and those
no property covers with the reason.

## 2. Modules

    WorkflowPlan              the plan as constants, and what the engine assumes of it
      DocumentWorkflowState     the execution record, its mutators, what a save keeps
        EdgeRouter                routing and conditions
          PlanExecutor              requests, the step, node executors, commands; properties
            PlanLibrary               all shipped plans side by side (with ShippedPlans)
              MCPlans                   the same for TLC
              PlanExecutorProofs        types, retry budget, outcomes; every shipped plan
            MCPlanExecutor            one shipped plan (with ShippedPlans)
              PlanExecutorRefinement    PlanExecutor implements GovernedProduction
                PlanExecutorRefinementProofs  that it does, and what the row holds at each node
    ShippedPlans              the plans combine-config ships, as values for the constants
    GovernedProduction        abstract: what producing a document promises
    DocumentLine              executions of one document, and their publication
      DocumentLineProofs        display ids are dense, unique and in order
    PlanRegistry              how plans come to be served       (MCPlanRegistry, PlanRegistryProofs)
    Projects                  projects and workflow instances   (MCProjects, ProjectsProofs)
    WorkBinder                candidates, packages, statements  (MCWorkBinder, WorkBinderProofs)
    Workspaces                workspaces, git and releases      (MCWorkspaces, WorkspacesProofs)
    StepWorkflow              the step engine                   (MCStepWorkflow, StepWorkflowProofs)

**WorkflowPlan** (`W/plan_models.py`). Nodes, kinds, edges with conditions and options.
`PlanAssumption` is the loader's well-formedness, `BreakerAssumption` says of a plan what
all shipped plans satisfy: an edge that sends a rejected draft round again is
guarded by `retry_count < MaxRetries`. `OutcomeAssumption` (in PlanExecutor) adds that nothing leaves an
end node, and that no end has an outcome which an operator's command writes as well. TLC
evaluates all three on every plan it is given.

**DocumentWorkflowState**. An execution is a record and each mutator of the class a
function from record to record. `Saved` is what survives a save and a load: the escalation
fields and `generating_node_id` do not, the table has no columns for them. (The in-memory store, which
keeps them, is used by tests only.) The context dictionary is reduced to what steers the engine: whether questions exist, whose answers
it holds, whose clarifications, which answers the draft was written from, and the intake gate's phase,
confirmation and whether the operator edited its interpretation. Drafts and questions have no other content. The node history is reduced to
the two entries `_find_generating_node` looks for.

**EdgeRouter**. `Selected` is the first edge, in plan order, of the node and outcome whose
conditions hold; the counter a condition reads is that of the generating node when known.

**PlanExecutor**. Variables: `row`, the execution's row; `req[r]`, where request `r` stands
and the copy it holds; `documents` and `answerRows`, counts and contents of the two other
tables. A request goes through points that correspond to the code's awaits:

| `pc` | the request is | code |
|---|---|---|
| `idle` | not there | |
| `check` | at the top of the run loop | `run_to_completion_or_pause`, 498 |
| `load` | about to load the row | `execute_step`, 309 |
| `exec` | awaiting the node executor, holding its copy | `_execute_node` |
| `save` | past the document's commit, state not saved | `_persist_produced_documents`, 1851 |
| `spawn` | saved once, spawning child documents, to save again | 1856 to 384 |
| `command` | a handler between its load and its save | cancel, edit, resolve, ... |

Actions: `BeginWork`, `SubmitInput`, `BeginCommand` are requests arriving; `RunEnds`, `RunContinues`,
`StepReturns`, `StepExecutes`, `PgcNodeAnswered` the run loop and the entry of a step; one action per node
executor and phase (`PgcGateAsks` ... `EndReports`), each followed in the same step by the
whole of `_handle_result` (`Routes`) and the closing save (`Commit`); `Cancels`,
`EditsField`, `Initializes`, `Resolves`, `Escalates` the commands; `NodeRaises`, `Disconnects` and
`Crash` the early ends. `handle_escalation_choice` has no action: it asks for a flag that no load sets, so it
refuses every call. What a language model answers is a nondeterministic choice. One database
operation with its commit is one step, and so are reads in a row; everything between is
interleaved.

**PlanLibrary** runs every shipped plan at once (`MCPlans` for TLC): the first state chooses a plan by its entry node, and the action
constraint `AsDriven` lets the plan's clients ask only for the operations its UI uses (an intake is
driven by messages and its stream, a discovery by steps, runs and interrupts). Its last section names the hypotheses of the theorems
about it: `SideBySide` (the constants are the shipped plans; an assumption of `MCPlans`, which TLC evaluates), `OneRequest`,
and `OperatorDriven` (what the screens of an intake ask for, or an operator who escalates its interrupt).

**GovernedProduction** states what the discovery, architecture and implementation plans promise, with no
requests, copies or routing: clarify, write, judge, rewrite at most `Limit` times, stop for an
operator, publish once and only of a judged draft, close once. **PlanExecutorRefinement** reads it off the saved row and
the count of documents. Its `DiscoveryAssumption` names what is refined: the shipped discovery plan,
one request at a time; answers, operations and bounds are free.

**DocumentLine** looks at one document type of a project from outside its executions:
`start_execution`'s look-up and creation, separated by an await, and the minting and insertion of
a display id, separated by another. `Place` is the order in which PostgreSQL compares the padded ids, so the
model's maximum is the string's and not the number's; `Cap` is 1000 in the code. A number beyond
`Cap` sorts between 100 and 101, and numbers above `Cap` are never minted.

**PlanRegistry** loads the active definitions in their order: each is opened, walked by the validator with its queue and judged,
then what was gathered is registered. One thread does all of it, once, because the module of the routes asks for the registry when it is imported
(`R/document_workflows.py:57`). A definition is what the validator looks at: node types, edges, entries, gate
outcomes, breaker; and its form, where `Raises` is what `load_all`'s handlers do not catch. The walk is a loop of steps, in any order of its queue,
so it can be proved about.

**Projects**. A request is a record in flight (`make`, `hand`, `assign`, `replace` ...), so the
looking, minting and inserting of a project, and the loading and saving of an instance, are separate steps. `IntakeEnds` and
`Withdraws` are the environment. A workflow is its step ids in order and one number for its name, description and tags;
the content of a step is what neither `_detect_changes` nor the drift compares, and is left out. `ReplaceSaves` tells changes
against the copy it loaded, as the code does.

**WorkBinder**. A request holds the copies its handler loaded and writes them back whole; `crowd` chooses
who is there and with which operations. Display ids and order keys are numbers, an index the set of its statements. A patch
stores whatever it is sent but a few fields: modelled are content and a statement's state. Patches of what names and links the documents (`wp_id`, `ws_index`,
`source_candidate_ids`, `ws_id`, `parent_wp_id`, `order_key`, `revision`) are left out: with them an index is whatever a client says.

**Workspaces**. One request is one step, because the handlers never await. `tip` is what each branch
holds, `index` git's staging area, `tree` the working tree, `head` the branch checked out, `loaded` the package loader's caches. `Carries` and
`Over` are git's rules for switching over an index and a tree with changes. A day may have passed before any look at a workspace, so expiry is left to
chance. `Cleaned` is the cleanup of a closed or expired workspace with git's refusals. `PanelStages`, `PanelCommits` and
`PanelDiscards` are the git panel's own calls; `Activates` commits the index, so what the panel had staged goes along. `ModifiedArtifacts` is what tier 1 looks at, less the
first file, as `get_status` parses it. One abstraction remains: a rename next to an unstaged deletion counts as dirty.

**StepWorkflow**. The run of one workflow between its pauses, one step per call of the model; `agreed`, `clarified` and `served`
are history variables. The attempt counter is the shared one of the code. `Due` is the first step of the plan that
is not completed (`_get_next_step`). `SourcesFirst` says that an iteration's source is made by steps before it and by none nested in
an iteration, `MadeByOne` that each document to be accepted is made by one step. The loader checks neither, so they are hypotheses of theorems, not
assumptions of the module; `MCStepWorkflow` has TLC evaluate them on the plan the run uses.

## 3. Runs

Passing (`expect: pass`):

| Run | Instance | Shows |
|---|---|---|
| `plans_alone` | every shipped plan, 1 request at a time, 2 answer sets, all operations of its UI, crashes | nothing is drafted unanswered; an intake goes on because its operator replied; a pause has a reason; a run takes a number of steps far below `max_steps`; a finished execution stays as it is, but for edits of an intake's interpretation |
| `plans_together` | discovery and intake, 2 interchangeable requests, the event stream | rejections stay within the limit and an outcome belongs to its end node, whatever updates are lost |
| `discovery_refinement` | discovery, 1 request, every operation but `/input`, no crash, fairness | implements `GovernedProduction`; judged on the answers drafted from; a run settles |
| `line_concurrent` | 2 clients, failing executions, the padding limit two documents away | display ids dense, unique, in order under racing mints |
| `plan_registry` | every plan with 2 or 3 edges on three nodes; pairs of definitions with each single fault; three of any form | runs of served plans meet only nodes they can execute; the walk finds what is reachable; just what the handlers let through is served; loading ends |
| `projects` | 2 clients in six crowds, a deleted project with number 999 and a live one with 998 | minted numbers are free and an intake has one project for a client alone; drift is explained for any; the history tells the steps |
| `work_binder` | one client with every operation, three pairs that interleave | indexes name their own statements, stabilizing makes complete ones READY, for any number of clients; nothing left out, promoted once, for one |
| `workspaces` | 2 administrators, 2 ids, 1 type in 2 versions, the git panel with its staging, expiry, restarts | the two indexes agree; no switch of branch loses an edit; a release commits its pointer and what was staged before; every commit takes all there is, additions and deletions too, or just what was staged |
| `step_workflow` | the last steps of the shipped development workflow; no package, two, one named twice | one answer is waited for; past a document that requires acceptance only after one, with at most one edition more; each entity is served; it settles |

Each violation run refutes one statement of the repository, quoted in `findings`:

| Run | The code does |
|---|---|
| `cancel_undone` | a step in flight saves over a cancellation |
| `breaker_choice_lost` | a tripped breaker saves none of the choices it sets, so the operator is offered none |
| `started_twice` | a failed execution found first by an unordered `LIMIT 1` hides the active one, and another is started |

### What the passing runs leave out, and why

Some properties hold only in the use their run describes. The modules show the
following when that use is widened; each was met while modelling.

*Document workflows*

* A worker that dies between the document's commit and the state's save leaves an execution that publishes again
  (`W/plan_executor.py:1851`): `ImplementsProduction` with `CrashAllowed = TRUE`.
* The PGC gate reads the context only, so answers posted to `/input` are filed but never reach the gate (`W/nodes/gate.py:400`), which
  asks again. When the operator then resolves the interrupt with other answers, the document is
  drafted from those, and QA replaces them by the filed ones (`W/plan_executor.py:806`): `ImplementsProduction` and
  `JudgedOnItsAnswers` with `"input"` in `Ops`.
* The context phase stays `review` when an intake is run to its end without `/initialize`, and `/initialize` checks
  nothing else (`R/intake.py:353`): it sets the finished execution running. `FinishedStays` with `"initialize"` in `IntakeOps`.
* A step executes a paused execution's gate and takes a missing reply for a yes (`W/nodes/intake_gate_profile.py:210`).
  `IntakeConfirmedByOperator` with `"step"` in `IntakeOps`; the stream of `plans_together` does it too.
* A second request saves a stale copy over a finished row (`W/plan_executor.py:384`), and two resolutions write the context
  column each from its own copy (`W/interrupt_registry.py:323`): `FinishedStays` and `DiscoveryDraftedFromAnswers` with two
  requests.
* A paused execution of the earlier plan that is stepped again asks again, which no edge routes, and fails; its pending
  interrupt stays (`set_failed` clears no pause), and resolving that sets it running. `FinishedStays` leaves that plan out.
* An edit asks for the phase `review` only, which a finished intake keeps without `/initialize`: it rewrites the interpretation of the finished
  execution and saves it (`R/intake.py:312`). `FinishedStays` allows for just that.
* A failed execution has no outcome, so it may be found instead of the active one (`W/pg_state_persistence.py:145`).
* Past the padding limit the string maximum stays at `PREFIX-999`, every mint is `PREFIX-1000` and
  the unique index refuses it (`S/display_id_service.py:70`). The executor logs this and completes the
  execution as stabilized. `IdsInOrder` holds, because nothing is published any more.
* A reply that declines an intake's confirmation qualifies it as well (`W/nodes/intake_gate_profile.py:240`), and a reply that
  is not JSON counts as a yes (`:208`). The property therefore says that the operator replied, not what.
* The PGC gate's merge does not store the clarifications it merges (`W/nodes/gate.py:416`), so `ctx.clarified` is only
  ever set by `_load_pgc_answers_for_qa` or by the earlier plan's pgc node.

*Plan registry*

* `load_all` catches `JSONDecodeError` and `PlanLoadError`, logs and goes on, though its docstring says "Raises PlanLoadError: If any
  plan fails to load" (`W/plan_loader.py:119`). Anything else ends all loading and the registry stays empty: a file that cannot be opened or decoded,
  a mapping without `gate_outcome` (`W/plan_validator.py:386`), an accepted definition that `from_dict` cannot read (a `concierge` node, an
  empty circuit breaker). A repeated `workflow_id` ends the registering. `NoneMissing` says what is served in each case.
* The validator accepts plans that only go round: no rule asks that an end be reachable. `ServesExecutable` is about the nodes a run meets.

*Projects*

* Two streams on one finished intake make two projects, after which `scalar_one_or_none` raises at every reading and no project is
  shown (`R/intake.py:519`). `OneProjectPerIntake` is for one client.
* A stream opened on a finished intake makes a project without asking for the outcome (`R/intake.py:430`), where the running stream,
  a message and a GET ask for `qualified` (`:472` "create project if qualified").
* `/projects/from-intake` commits the project before it assigns a workflow, and looks for no project of the
  execution: a withdrawn definition answers 500 and a retry makes another project.
* `verify_project_not_archived` (`app/core/dependencies/archive.py`) is used by no route, so archived projects take new workflows;
  `get_project` finds deleted ones.
* A changed content of a step is neither told nor drift. Two replacements at once leave one workflow and the changes of both,
  so `HistoryTellsSteps` is for one client. Inserts that a unique constraint refuses answer 500, not 409.

*Work binder*

* Two creators on one package lose an index entry, two promotions make two packages: the properties about these are for one client.
* READY does not stay READY, not even for one client: a patch stores the state its request names, with no look at the transitions
  (`R/work_binder.py:864`), and an edit that was loaded before a stabilization writes DRAFT back. So no property says it.
* `propose` does not ask whether the architecture's pin is pending, as creating does (`docs/work-statements/WP-WB-001.md:108`).
* The screen moves a statement by sending the list in its new order with the old order keys, and `reorder_ws_index` sorts by them: the
  move is undone (`S/ws_crud_service.py:262`, `spa/src/components/WorkBinder/index.jsx:292`).
* A slow writer may set an edition back.

*Workspaces*

* `get_status` strips git's output before splitting it, so the first modified file loses the first letter of its name and is no
  artifact: tier 1 does not look at it, and a commit brings what it rejects (`A/git_service.py:199`, against
  `A/workspace_service.py:666` "block commit").
* A commit lands on whatever branch HEAD is at, be it another workspace's or `main` (against
  `docs/adr/ADR-044-addendum-A-git-ux-primitive.md:42`). Closing deletes unmerged commits (`branch -D`).
* An activation and a rollback commit git's whole index: what the panel has staged goes with "a single commit to active_releases.json"
  (`A/release_service.py:270`, `A/git_service.py:614`). A commit of the panel takes the index unless it asks for everything (`R/admin_git.py:95`),
  hence `ReleaseTakesStaged` and `CommitTakesChosen`. A discard leaves what is staged.
* A version that has gone from the tree can be activated from the cache. The git panel's activation does not invalidate the caches, and
  `enforce_immutability` (`A/release_service.py:452`) is never called.

*Step engine*

* What goes on is not what was accepted: an acceptance has the step executed again, and the edition it then drafts is put to nobody
  (`W/workflow_executor.py:123`), nor is a document drafted from answers (`:164`); against `docs/adr/012-interaction-model/ADR-012-Interaction-Model.md:176`,
  "No output requiring acceptance may proceed without it". `AcceptedOrRedrafted` says how far that goes: an edition was accepted under the
  document's scope, and at most one more follows it. Inside an iteration that names an entity twice there may be more.
* From the second attempt on a set of questions is stored as the document. Later entities get fewer repairs, because the
  counter is shared. Items without an id get a new one at each expansion. A clarification inside an iteration loses its scope.
  A workflow saved while it waits for answers cannot be loaded (`W/step_state.py:238`).

### Bounds, and why they are enough

* **Requests, clients, users**: one or two. Nothing in the code relates more than two copies of a row at a time: a
  lost update needs a reader and a writer. The theorems hold for any number.
* **Crowds** (`work_binder`, `projects`): a client alone has every operation; pairs have those that meet in one row or one
  number, which keeps the product of two requests small without leaving a race out.
* **Answers**: two sets where they are compared (drafted from one, judged on the other), one otherwise.
* **MaxRetries** 2 is the plans' value. **MaxSteps** 100, the code's, with one request. With two it is 2, so that a run ending by
  its limit interleaves as well; a run that is cut short can be started again, so no behaviour of the row is lost.
* **MaxDocuments**, **MaxAnswerRows**: 2. One is the normal case, two the anomaly.
* **Executions** 3 or 4 per line: one failed, one active and one being created, or several publishing. **Existing** 8 with **Cap** 10:
  the limit of the padding, 1000 in the code, is two documents away and is crossed.
* **Plans of the registry**: three nodes and two or three edges give every shape of loop, dead end and missing node the rules
  tell apart. Faults come one at a time, in either of two definitions, which may share their id; three definitions show what comes after one
  that is refused and one that is repeated.
* **Work binder**: 1 candidate, `MaxPackages` 2, `MaxStatements` 2, `MaxEditions` 4: two of a kind is what a race or a reorder
  needs. **Projects**: `MaxProjects` 4 (two are there already), `MaxHistory` 4, five workflows and two sources, which differ in
  each way the code compares, or not at all.
* **Workspaces**: `MaxEdits` 2 (one edit to be lost and one to be made meanwhile), one accepted content and one broken. Users and ids
  are interchangeable, hence the symmetry. One type in two versions gives files to stage apart, to rename and to activate; with it no type has
  inputs, so the guard of an activation on `required_inputs` is in the theorems but not in the run.
* **Step engine**: `MaxAttempts` 3, the default, two entities or one named twice.

`CHECK_DEADLOCK FALSE` stands where the bounded resources run out (`line_concurrent`, `started_twice`, `projects`, `work_binder`,
`workspaces`) and where what is modelled ends (`step_workflow`, `plan_registry`). `PlanExecutor` is checked for deadlock, a new request may
always arrive.

### Fairness

* `PlanExecutor!FairSpec` assumes weak fairness of each request's own steps. The event loop schedules an accepted
  request's task again and again, and a model call returns or raises (every provider call has a timeout). Nothing is
  assumed of clients (`Arrival`), of disconnections or of crashes. `RunSettles` is checked under it.
* `StepWorkflow` assumes that a run goes on (`Runs`, as above) and that pauses are answered (`Answers`), the latter because `Settles` is
  about what the engine does with answers.
* `PlanRegistry!FairSpec` assumes that the loading thread goes on: its steps are file reads and loops without a wait.

## 4. Proofs

| Theorem | States |
|---|---|
| `PlanExecutorProofs!TypeCorrect`, `BudgetKept` | types; no counter of rejections exceeds the limit |
| `PlanExecutorProofs!OutcomeStandsAtItsEnd` | a plan's outcome stands only at its own end node |
| `PlanExecutorProofs!OperatorConfirmsIntake`, `AnswersPrecedeDraft`, `DiscoveryPausesForAReason`, `EveryPlanRunsShort`, `FinishedIsLeftAlone` | of every shipped plan: the operator's reply before a classification, answers before drafts, a reason for each pause of a discovery, at most seven nodes a run, a finished row stays but for edits of an intake (not the earlier plan's); hypotheses: `SideBySide`, `OneRequest`, `OperatorDriven`, and requests as `AsDriven` says |
| `PlanExecutorRefinementProofs!ProductionImplemented` | the executor implements `GovernedProduction`; hypotheses: no crash, no `/input` |
| `PlanExecutorRefinementProofs!JudgedAsWritten` | QA judged on the answers drafted from; hypothesis: no `/input` |
| `PlanExecutorRefinementProofs!DraftsHaveAnswers`, `PausesExplained`, `RunsAreShort`, `FinishedIsFinal` | of a discovery by itself, with one request at a time and any operations: the same, read off the invariant of the refinement |
| `DocumentLineProofs!LineTyped`, `IdsStayInOrder` | types; display ids are dense, unique and in order |
| `PlanRegistryProofs!LoaderTyped`, `PlansAreExecutable`, `WalkIsExact` | types; runs of served plans meet no missing node and none without an edge or an outcome; the walk ends with what is reachable |
| `PlanRegistryProofs!NoPlanIsMissing` | once loading has ended, just the acceptable plans up to a repeated id are served, or none if a definition raised |
| `ProjectsProofs!ProjectsTyped`, `DriftAlwaysExplained` | types; an instance that differs from its source has a change in its history |
| `ProjectsProofs!MintedStaysFree`, `OneProjectEach`, `HistoryAlwaysTellsSteps` | for a client alone: minted numbers are free, an intake has one project, an instance has the steps its history tells |
| `WorkBinderProofs!BinderTyped`, `IndexesNameTheirOwn`, `ReadyIsComplete` | types; the index lists statements of its package; READY statements were complete |
| `WorkBinderProofs!NoStatementLeftOut`, `CandidatePromotedOnce` | for a client alone: the index lists every statement, one package of a candidate |
| `WorkspacesProofs!WorkspacesTyped`, `IndexesAlwaysAgree`, `SwitchesKeepEdits`, `ReleasesTakeStaged`, `CommitsTakeChosen` | types; indexes agree; edits are kept; a release commits the pointer and what was staged, every commit the whole tree or what was staged |
| `StepWorkflowProofs!RunsProceedOnAcceptance` | past a document that requires acceptance only after one of its editions was accepted or from answers, with at most one edition more; hypotheses: `SourcesFirst`, `MadeByOne` |
| `StepWorkflowProofs!RunsKeepTheirTypes`, `RunsWaitForOneAnswer`, `IterationsServeAll` | types; one answer is waited for; each entity is served; hypothesis: `SourcesFirst` |

They hold for every value of the constants that satisfies the modules' named assumptions: every plan, definition, crowd, bound,
and number of requests, clients and users, except for what the hypotheses above name. Each hypothesis is one
the code needs: section 3 tells what happens without it, and for `SourcesFirst` and `MadeByOne` section 2.

**Retry budget.** `RetryBudget` is not inductive: a stale copy with a high counter could be published. The
invariant `Inv` says of *every copy in flight* what it says of the row. The argument is then local
to one copy. Only `Advances` raises a counter, after an edge that does not end has been selected for a
rejection (`LoopsWithinBudget`). By `BreakerAssumption` that edge carried a condition on
`retry_count`, evaluated on this very copy after `_prepare_qa_retry_tracking` had named the generating
node; so the counter was below the limit when it was read, and routing does not change
it. Lost updates lower counters and never raise them above a copy that was within the budget. What it does not say:
a lost update may lower the counter, so the *number* of QA calls is not
bounded by the limit when requests overlap. Without overlap, `RunIsShort` bounds it.

**Outcomes.** `Honest` too speaks of every copy: its terminal outcome, if it is one of the plan's, is that of the end node
it stands at (`Ended`). Mutators that move a copy clear no outcome, so the invariant needs that a copy at an end goes nowhere
(no edge leaves one) and that what commands write is no plan's outcome, the two parts of `OutcomeAssumption`.

**Every plan.** The three plans have one course: a gate that waits for the operator, a writer, a judge that sends what it rejects
to a rewriter, ends. `NodeFacts` and `LibraryLegs` say so of each node and each edge, by evaluating the plans' data once; after that the
proofs speak of `Gates`, `Writers`, `Judges`, `Rewriters` and `Ends` and of the writer a node's plan has (`Author`), never of a single plan, except
where the gates differ. `Coursing` is the invariant. Of a row and of every copy it says what the node presupposes (`OnCourse`): rejections are
charged to the plan's own writer, past the gate there are answers (`Informed`), a pause is for a question or at a spent budget (`Waiting`).
Of the request in flight it says how its copy stands to the row (`Underway`), which no one else writes meanwhile: an executor that awaits holds
the row's node and counters, a command the row itself, a save comes from a copy at an end of the same plan. Three things make it inductive that none of
the properties mentions. An intake that awaits its confirmation is paused or over, so a run turns away from it and the gate is entered with a reply in
hand only (`Awaiting`); a resumed copy therefore never meets the default "yes". A pending question of a discovery is there only until answers are,
so an interrupt cannot be resolved on a finished one. And `ToGo`, the nodes a run may still execute, falls with each node: a rejection
leads back over two nodes, and what is left is measured two lower for each. `StepProceeds` carries `Coursing` through all actions and shows on the way that none of
them changes a finished row, but for an edit its interpretation (`Proceeds`, `EditedOnCourse`), which gives the action property from the same cases.

**Production.** With one request at a time `IInv` relates three things. What a row, or a copy, may be at each node (`Walks`,
`Judged`): past the gate there are answers, at QA the draft is of those answers, a pause is for a question or at a spent budget. How far
a copy may be from the row (`Carries`): same node, same counters and, without `/input`, same answers, because nobody else
writes while the executor is awaited. What is outside both: no document before a copy says so (`Published`), no filed answers. The step simulation
is then by the kind of write: of everything a request does, only a save, a publication or a command changes what
the refinement mapping reads (`RowSteps`), and each of these is a step of `GovernedProduction` or none (`DeliveryRefines`, `PublicationRefines`,
`ClosingRefines`, `CommandRefines`). A crash after the commit leaves a second publication, `/input` a document judged on
other answers; so both are excluded, as in the run. `RunsAreShort` is a variant: `Left` bounds the nodes still to
come, falls with every node, and is carried with the steps the run has counted.

**Display ids.** The invariant adds that a minted number is at most one more than the number of documents, when minted and
ever after, since documents only grow. `HighestIdExists` shows that the string order has a maximum on
`1..k` for every `k`, on both sides of `Cap`; being one of `1..k` is all the argument needs of it.
A number that is inserted was not in use, hence above all in use, hence the next.

**Plans are executable.** `IInv` follows a definition through the loading: the walk's found set is closed under edges but for the queue
(`Walked`), what is gathered was accepted and parsed (`Holding`), what is registered was gathered (`Registered`). An accepted definition has
its targets among its nodes and an edge from each that is no end, so a run that starts at its entries stays inside. `WalkIsExact` is
the same invariant read at an empty queue, with the converse that nothing is found that no run reaches.

**No plan is missing.** `Gathered` says of each stage what is there: while loading, the good definitions so far and none that raises; while
registering, all good ones in their order, of which those before the place at hand are in. A repeated id stops the registering there,
which is why `Promised` ends before it.

**Drift is explained.** `IInv` says that the history accounts not only for the row but for *every copy in flight*. A
replacement is told against its copy: if the new workflow differs from the copy, the change is told (`DifferenceIsTold`); if it
does not, it differs from the source only if the copy does (`LikeOfLike`), which the history accounts for. Histories only grow
(`ToldAmongOthers`), so what was accounted for stays so.

**A client alone** (projects and work binder). The properties say `Alone`: every other client's crowd is empty. `Solo` says that then all others are idle, and
that what the one client carries between two of its steps is still true: its copies are the rows, the number it
minted is free, the package or project it found missing is missing (`Kept`, `Stands`). A save from such a copy loses nothing. The invariant must also speak of
the screens, since a move sends the list the screen shows, and of what is there at the start, whence
`OneProjectEach`'s hypothesis `SeedOneEach`: the projects there to begin with are not two of one intake. For the history, the
copy being the row is all that is needed: what a replacement adds to the history are the steps that differ from the copy, so what was told
of the copy's steps becomes what is told of the new ones (`CompleteSavesTells`). `StepsTold` reads a history without replaying it: a step is told if some entry
has it as there and no later one as removed. That is a statement about positions, which one more entry extends, where a fold would need an
induction over the history.

**Work binder.** `Inv` adds to the types a bound on order keys (so that a maximum exists, `MaxOfBounded`), and of every request and
screen that it carries copies of statements of the package it names. A stabilization writes back the copies it validated,
which were complete; that is why `ReadyIsComplete` holds though rows are overwritten.

**Workspaces.** `IndexesAgree` is inductive with the types: each handler changes both indexes or neither. The three action properties
follow by cases over git's rules for a checkout and for staging.

**Step engine.** `AcceptanceInv` ties decisions to the editions a person accepted and follows a document from its storing to the
pause, so that a run that goes on has either asked or had answers. `Redrafts` adds that a document outside the iterations is ahead of its
acceptance only when the pause is for it or its step is complete; since the step at hand is due, hence open, it drafts at most once after a
decision. `RunInv` says where a run stands. `Waiting`: a status and the one thing it waits
for. `Calling`, `Between`: the step at hand is the one due, or nested in the iteration due, at the item of its index
(`AtWork`), and what precedes it was served. `Served`: every item before an iteration's index was. The index is kept across
pauses while items are read anew at each expansion, so the invariant needs that a collection stays as it is once its iteration
has begun; that is what `SourcesFirst` gives.

**Only model-checked.** Liveness (`RunSettles`, `LoadingEnds`, `Settles`) is beyond this prover; every other property of the
passing runs is stated by a theorem, under hypotheses which the run's instance meets. Every passing
property has a mutant in `PROJECT.json`, a plausible slip in one mapped definition, under which TLC finds the property violated.

## 5. Plan

Done: the workflow engine with its persistence, routes, interrupts and intake; publication; the registry of plans; projects
and workflow instances; the work binder; workspaces and releases; the step engine. Next, in order of importance:

1. **DocumentVersions**: versions, `is_latest`, staleness through relations, child documents upserted by parent. Composed with
   DocumentLine.
2. **Accounts**: sessions, tokens and links, their expiry and revocation.
3. **ThreadQueue**: threads by idempotency key, work items claimed and executed, with crashes.
4. **Interrupts in full** (register, audit fields) and **EventFanout** (subscribers, queues).
5. Clarification merge and drift rules as pure operators against reference definitions.

Theorems to add: the new modules' invariants; of the executor, what two requests on one execution keep beyond the budget and the outcome.

## 6. Not modelled

* Wording and data that nothing branches on: prompts, QA feedback text, station events, conversations, governance records, names
  and descriptions. Child documents: no shipped handler overrides `get_child_documents`. Consent and outcome gates, which no shipped plan
  uses; `InterruptRegistry.register`, which nothing calls; read-only routes.
* The orchestrator uses production states that the enum no longer has (`QUEUED`, `STABILIZED` ...), so it cannot run as it stands.
* Document versions and staleness: the command that builds a document passes `build()` an argument it does not take, and what works is a
  deprecated endpoint, of which two at once make two latest versions. Rejected documents are still used as inputs (against
  `app/api/routers/document_status_router.py:204`), and `clear_stale` does not set the lifecycle state back.
* Plan registry: the flat directory read when there is no `active_releases.json`, `replace`, `clear` and `load_file`, which nothing
  calls, duplicate node ids, and the schema of edge conditions.
* Authentication: rows with an expiry, one statement per request, and no interplay with the rest. Event streams: copies of what the
  modelled handlers save. Providers, parsing, telemetry, secrets, rate limits, metrics: I/O, text or counters.
* A save's own SELECT, UPDATE and commit, a few milliseconds, are one step: two saves inside that window behave as one after the
  other, except that unchanged columns are not written.

`PROJECT.json` lists every part with its reason.

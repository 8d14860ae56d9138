------------------------------ MODULE Projects ------------------------------
(***************************************************************************)
(* Projects and their workflow instances (app/api/v1/routers/projects.py,   *)
(* project_creation_service.py, workflow_instance_service.py) and the       *)
(* creation of a project at the end of an intake (intake.py).               *)
(*                                                                          *)
(* A handler's SELECTs and its closing commit are steps of their own; no row *)
(* is locked or versioned.  SQLAlchemy writes the columns whose value is not *)
(* the one loaded, so archiving, deleting and completing do not undo one     *)
(* another, while a replaced workflow is written whole.                     *)
(*                                                                          *)
(* Names, descriptions and metadata (PATCH) are left out: they steer nothing *)
(* here.  So is a project's intake document, committed with the project.    *)
(***************************************************************************)
EXTENDS Naturals, Sequences, SequencesExt

CONSTANTS
    Clients,      \* browsers and scripts, one request at a time each
    Crowds,       \* who may be there: each client's operations
    Executions,   \* intake executions
    Initials,     \* initials of project names
    PrefixOf,     \* those of each execution's intake document
    Steps,        \* step ids of workflows
    Sources,      \* workflow definitions in combine-config, by id and version
    Flows,        \* workflows a client may store instead
    Seed,         \* the projects there are to begin with
    Largest,      \* no number of theirs is larger
    MaxProjects,  \* bound: projects
    MaxHistory,   \* bound: history entries of an instance
    Nothing       \* no execution, no ending yet, no workflow to assign

Ops == {"create", "post", "ask", "reconnect", "archive", "unarchive", "delete",
        "assign", "replace", "complete"}

\* A definition: its step ids in order, and its name, description and tags.
IsFlow(f) == DOMAIN f = {"steps", "meta"} /\ f.steps \in Seq(Steps) /\ f.meta \in Nat

Project ==
    [prefix : Initials, number : Nat, execution : Executions \cup {Nothing},
     archived : BOOLEAN, deleted : BOOLEAN]

\* How an intake ends, and whether it leaves a document: drafts that failed QA
\* and cancelled intakes may have one.
Endings ==
    [outcome : {"qualified"}, document : {TRUE}]
    \cup [outcome : {"not_ready", "operator_cancelled"}, document : BOOLEAN]
    \cup [outcome : {"none"}, document : {FALSE}]

ASSUME ProjectsAssumption ==
    /\ Crowds \subseteq [Clients -> SUBSET Ops]
    /\ PrefixOf \in [Executions -> Initials]
    /\ \A w \in DOMAIN Sources : IsFlow(Sources[w])
    /\ \A f \in Flows : IsFlow(f)
    /\ Seed \in Seq(Project) /\ Largest \in Nat
    /\ \A i \in DOMAIN Seed : Seed[i].number <= Largest
    /\ MaxProjects \in Nat /\ MaxHistory \in Nat
    /\ Nothing \notin Executions \cup DOMAIN Sources \cup Endings

VARIABLES
    crowd,      \* the crowd of this behaviour
    ended,      \* ended[x]: how execution x ended
    projects,   \* projects, in the order of their commits
    instances,  \* workflow_instances, by project
    history,    \* workflow_instance_history, by project, oldest first
    gone,       \* definitions that are no longer in combine-config
    req         \* req[c]: the request client c has in flight

vars == <<crowd, ended, projects, instances, history, gone, req>>
rows == <<projects, instances, history>>

Kinds == {"created", "step_added", "step_removed", "step_reordered",
          "metadata_changed", "updated", "status_changed"}
Entry == [kind : Kinds, ids : SUBSET Steps]
InstanceStatuses == {"active", "completed"}

Idle == [op |-> "idle"]

Init ==
    /\ crowd \in Crowds
    /\ ended = [x \in Executions |-> Nothing]
    /\ projects = Seed
    /\ instances = <<>>
    /\ history = <<>>
    /\ gone = {}
    /\ req = [c \in Clients |-> Idle]

Begins(c, r) == req[c] = Idle /\ req' = [req EXCEPT ![c] = r]
Continues(c, r) == req' = [req EXCEPT ![c] = r]
Ends(c) == Continues(c, Idle)

\* _resolve_project: deleted ones are not found, archived ones are.
Live == {i \in DOMAIN projects : ~projects[i].deleted}

(***************************************************************************)
(* Outside: intakes end, and definitions are withdrawn in a workspace.      *)
(***************************************************************************)

IntakeEnds(x) ==
    /\ ended[x] = Nothing
    /\ \E e \in Endings : ended' = [ended EXCEPT ![x] = e]
    /\ UNCHANGED <<crowd, rows, gone, req>>

Withdraws(w) ==
    /\ w \notin gone
    /\ gone' = gone \cup {w}
    /\ UNCHANGED <<crowd, ended, rows, req>>

(***************************************************************************)
(* Making a project                                                         *)
(***************************************************************************)

Making(prefix, x, source) ==
    [op |-> "make", prefix |-> prefix, execution |-> x, source |-> source, number |-> 0]

\* POST /projects
Creates(c) ==
    /\ "create" \in crowd[c]
    /\ \E p \in Initials : Begins(c, Making(p, Nothing, Nothing))
    /\ UNCHANGED <<crowd, ended, rows, gone>>

\* POST /projects/from-intake: the client sends the document, and nobody looks
\* for a project of its execution.
Posts(c) ==
    /\ "post" \in crowd[c]
    /\ \E x \in Executions, w \in DOMAIN Sources \cup {Nothing} :
          Begins(c, Making(PrefixOf[x], x, w))
    /\ UNCHANGED <<crowd, ended, rows, gone>>

MadeFor(x) == {i \in DOMAIN projects : projects[i].execution = x}

\* Mutant: a project is made without looking for one.
AsksBlindly(c) ==
    /\ "ask" \in crowd[c]
    /\ \E x \in Executions :
          /\ ended[x] # Nothing /\ ended[x].outcome = "qualified"
          /\ Begins(c, Making(PrefixOf[x], x, Nothing))
    /\ UNCHANGED <<crowd, ended, rows, gone>>

\* GET state, a message and the running stream: a qualified intake's project
\* is looked for (_get_created_project).  One is returned, several raise.
Asks(c) ==
    /\ "ask" \in crowd[c]
    /\ \E x \in Executions :
          /\ ended[x] # Nothing /\ ended[x].outcome = "qualified"
          /\ MadeFor(x) = {}
          /\ Begins(c, Making(PrefixOf[x], x, Nothing))
    /\ UNCHANGED <<crowd, ended, rows, gone>>

\* A stream opened on an intake that has ended: its outcome is not asked, only
\* whether there is a document.
Reconnects(c) ==
    /\ "reconnect" \in crowd[c]
    /\ \E x \in Executions :
          /\ ended[x] # Nothing /\ ended[x].document
          /\ MadeFor(x) = {}
          /\ Begins(c, Making(PrefixOf[x], x, Nothing))
    /\ UNCHANGED <<crowd, ended, rows, gone>>

Numbers(prefix) ==
    {projects[i].number : i \in {j \in DOMAIN projects : projects[j].prefix = prefix}}

\* Mutant: deleted projects do not count.
NextOfLive(prefix) ==
    1 + Max({0} \cup {projects[i].number : i \in {j \in Live : projects[j].prefix = prefix}})

\* generate_unique_project_id: one more than the largest number, as a number.
NextNumber(prefix) == 1 + Max({0} \cup Numbers(prefix))

Mints(c) ==
    /\ req[c].op = "make" /\ req[c].number = 0
    /\ Len(projects) < MaxProjects
    /\ Continues(c, [req[c] EXCEPT !.number = NextNumber(req[c].prefix)])
    /\ UNCHANGED <<crowd, ended, rows, gone>>

\* The unique constraint refuses an id that was taken meanwhile.
MakeRefused(c) ==
    /\ req[c].op = "make" /\ req[c].number # 0
    /\ req[c].number \in Numbers(req[c].prefix)
    /\ Ends(c)
    /\ UNCHANGED <<crowd, ended, rows, gone>>

Makes(c) ==
    /\ req[c].op = "make" /\ req[c].number # 0
    /\ req[c].number \notin Numbers(req[c].prefix)
    /\ projects' = Append(projects,
          [prefix |-> req[c].prefix, number |-> req[c].number,
           execution |-> req[c].execution, archived |-> FALSE, deleted |-> FALSE])
    /\ IF req[c].source = Nothing THEN Ends(c)
       ELSE Continues(c, [op |-> "hand", project |-> Len(projects) + 1,
                          source |-> req[c].source])
    /\ UNCHANGED <<crowd, ended, instances, history, gone>>

(***************************************************************************)
(* Archiving and deleting                                                   *)
(***************************************************************************)

HideLoads(c) ==
    /\ \E i \in Live :
          \/ "archive" \in crowd[c] /\ ~projects[i].archived
             /\ Begins(c, [op |-> "archive", project |-> i])
          \/ "unarchive" \in crowd[c] /\ projects[i].archived
             /\ Begins(c, [op |-> "unarchive", project |-> i])
          \/ "delete" \in crowd[c] /\ Begins(c, [op |-> "delete", project |-> i])
    /\ UNCHANGED <<crowd, ended, rows, gone>>

HideSaves(c) ==
    /\ \/ /\ req[c].op \in {"archive", "unarchive"}
          /\ projects' = [projects EXCEPT ![req[c].project].archived = req[c].op = "archive"]
       \/ /\ req[c].op = "delete"
          /\ projects' = [projects EXCEPT ![req[c].project].deleted = TRUE]
    /\ Ends(c)
    /\ UNCHANGED <<crowd, ended, instances, history, gone>>

(***************************************************************************)
(* Workflow instances                                                       *)
(***************************************************************************)

HasInstance(i) == i \in DOMAIN instances

\* POST /projects/{id}/workflow
AssignLooks(c) ==
    /\ "assign" \in crowd[c]
    /\ \E i \in Live, w \in DOMAIN Sources \ gone :
          ~HasInstance(i) /\ Begins(c, [op |-> "assign", project |-> i, source |-> w])
    /\ UNCHANGED <<crowd, ended, rows, gone>>

\* The same behind from-intake, for the project just committed: an instance
\* there already is a warning, a withdrawn definition an error 500.
HandLooks(c) ==
    /\ req[c].op = "hand"
    /\ IF req[c].source \in gone \/ HasInstance(req[c].project) THEN Ends(c)
       ELSE Continues(c, [req[c] EXCEPT !.op = "assign"])
    /\ UNCHANGED <<crowd, ended, rows, gone>>

Extended(f, i, v) == [k \in DOMAIN f \cup {i} |-> IF k = i THEN v ELSE f[k]]

\* Mutant: the history is written by a later transaction that fails.
AssignInsertsUnrecorded(c) ==
    /\ req[c].op = "assign"
    /\ IF HasInstance(req[c].project) THEN UNCHANGED instances
       ELSE instances' = Extended(instances, req[c].project,
               [source |-> req[c].source, flow |-> Sources[req[c].source],
                status |-> "active"])
    /\ Ends(c)
    /\ UNCHANGED <<crowd, ended, projects, history, gone>>

\* The instance and its first history entry are committed together; project_id
\* is unique, so an instance inserted meanwhile refuses both.
AssignInserts(c) ==
    /\ req[c].op = "assign"
    /\ IF HasInstance(req[c].project) THEN UNCHANGED <<instances, history>>
       ELSE LET flow == Sources[req[c].source] IN
            /\ instances' = Extended(instances, req[c].project,
                  [source |-> req[c].source, flow |-> flow, status |-> "active"])
            /\ history' = Extended(history, req[c].project,
                  <<[kind |-> "created", ids |-> Range(flow.steps)]>>)
    /\ Ends(c)
    /\ UNCHANGED <<crowd, ended, projects, gone>>

Added(old, new) == Range(new.steps) \ Range(old.steps)

Kept(steps, ids) == SelectSeq(steps, LAMBDA s : s \in ids)

\* The steps of one that the other has too, in their order.
Common(one, other) == Kept(one.steps, Range(other.steps))

Told(condition, kind, ids) == IF condition THEN <<[kind |-> kind, ids |-> ids]>> ELSE <<>>

\* Mutant: steps in another order are told as mere content.
DetectedUnordered(old, new) ==
    LET changes == Told(Added(old, new) # {}, "step_added", Added(old, new))
                   \o Told(Added(new, old) # {}, "step_removed", Added(new, old))
                   \o Told(old.meta # new.meta, "metadata_changed", {})
    IN IF changes = <<>> THEN Told(TRUE, "updated", {}) ELSE changes

\* _detect_changes
Detected(old, new) ==
    LET changes == Told(Added(old, new) # {}, "step_added", Added(old, new))
                   \o Told(Added(new, old) # {}, "step_removed", Added(new, old))
                   \o Told(Common(old, new) # Common(new, old), "step_reordered", {})
                   \o Told(old.meta # new.meta, "metadata_changed", {})
    IN IF changes = <<>> THEN Told(TRUE, "updated", {}) ELSE changes

Records(i, entries) == history' = [history EXCEPT ![i] = @ \o entries]
Recordable(i) == HasInstance(i) /\ Len(history[i]) < MaxHistory

\* PUT /projects/{id}/workflow
ReplaceLoads(c) ==
    /\ "replace" \in crowd[c]
    /\ \E i \in Live, f \in Flows :
          /\ Recordable(i)
          /\ Begins(c, [op |-> "replace", project |-> i, copy |-> instances[i].flow,
                        flow |-> f])
    /\ UNCHANGED <<crowd, ended, rows, gone>>

\* Mutant: what changed is told against the source, not the workflow replaced.
ReplaceSavesFromSource(c) ==
    /\ req[c].op = "replace"
    /\ LET i == req[c].project IN
         /\ instances' = [instances EXCEPT ![i].flow = req[c].flow]
         /\ Records(i, Detected(Sources[instances[i].source], req[c].flow))
    /\ Ends(c)
    /\ UNCHANGED <<crowd, ended, projects, gone>>

\* What changed is told against the copy that was loaded.  A workflow equal to
\* the copy is no change to flush, whatever the row holds by now.
ReplaceSaves(c) ==
    /\ req[c].op = "replace"
    /\ LET i == req[c].project IN
         /\ instances' = IF req[c].flow = req[c].copy THEN instances
                         ELSE [instances EXCEPT ![i].flow = req[c].flow]
         /\ Records(i, Detected(req[c].copy, req[c].flow))
    /\ Ends(c)
    /\ UNCHANGED <<crowd, ended, projects, gone>>

\* POST /projects/{id}/workflow/complete, also of one that is completed.
CompleteLoads(c) ==
    /\ "complete" \in crowd[c]
    /\ \E i \in Live : Recordable(i) /\ Begins(c, [op |-> "complete", project |-> i])
    /\ UNCHANGED <<crowd, ended, rows, gone>>

CompleteSaves(c) ==
    /\ req[c].op = "complete"
    /\ instances' = [instances EXCEPT ![req[c].project].status = "completed"]
    /\ Records(req[c].project, Told(TRUE, "status_changed", {}))
    /\ Ends(c)
    /\ UNCHANGED <<crowd, ended, projects, gone>>

Next ==
    \/ \E x \in Executions : IntakeEnds(x)
    \/ \E w \in DOMAIN Sources : Withdraws(w)
    \/ \E c \in Clients :
          \/ Creates(c) \/ Posts(c) \/ Asks(c) \/ Reconnects(c)
          \/ Mints(c) \/ MakeRefused(c) \/ Makes(c)
          \/ HideLoads(c) \/ HideSaves(c)
          \/ AssignLooks(c) \/ HandLooks(c) \/ AssignInserts(c)
          \/ ReplaceLoads(c) \/ ReplaceSaves(c)
          \/ CompleteLoads(c) \/ CompleteSaves(c)

Spec == Init /\ [][Next]_vars

-----------------------------------------------------------------------------

Requests ==
    {Idle}
    \cup [op : {"make"}, prefix : Initials, execution : Executions \cup {Nothing},
          source : DOMAIN Sources \cup {Nothing}, number : Nat]
    \cup [op : {"archive", "unarchive", "delete", "complete"}, project : DOMAIN projects]
    \cup [op : {"hand", "assign"}, project : DOMAIN projects, source : DOMAIN Sources]

IsReplace(r) ==
    /\ DOMAIN r = {"op", "project", "copy", "flow"}
    /\ r.op = "replace" /\ r.project \in DOMAIN instances
    /\ IsFlow(r.copy) /\ IsFlow(r.flow)

\* Projects, instances, their histories and the requests are of their kinds.
TypeOK ==
    /\ crowd \in Crowds /\ gone \subseteq DOMAIN Sources
    /\ ended \in [Executions -> Endings \cup {Nothing}]
    /\ projects \in Seq(Project)
    /\ DOMAIN instances \subseteq DOMAIN projects /\ DOMAIN history = DOMAIN instances
    /\ \A i \in DOMAIN instances :
          /\ DOMAIN instances[i] = {"source", "flow", "status"}
          /\ instances[i].source \in DOMAIN Sources /\ IsFlow(instances[i].flow)
          /\ instances[i].status \in InstanceStatuses
          /\ history[i] \in Seq(Entry)
    /\ DOMAIN req = Clients
    /\ \A c \in Clients : req[c] \in Requests \/ IsReplace(req[c])

Alone == \E c \in Clients : \A d \in Clients \ {c} : crowd[d] = {}

\* A client alone never mints an id that is taken, by a deleted project or
\* past the number that outgrows its three digits, so it can always make a
\* project (generate_unique_project_id, project_creation_service.py:44).
MintedIsFree ==
    Alone => \A c \in Clients :
        req[c].op = "make" /\ req[c].number # 0 =>
            req[c].number \notin Numbers(req[c].prefix)

\* However often a client asks, drops its stream and comes back, an intake has
\* one project ("Idempotent: checks if project already exists", intake.py:502).
\* Two clients at once do make two, after which asking raises.
OneProjectPerIntake ==
    Alone /\ (\A c \in Clients : "post" \notin crowd[c]) =>
        \A i, j \in DOMAIN projects :
            projects[i].execution = projects[j].execution =>
                i = j \/ projects[i].execution = Nothing

\* _compute_drift_summary: steps and metadata count, the content of a step
\* does not.
Differs(source, flow) ==
    \/ Added(source, flow) # {} \/ Added(flow, source) # {}
    \/ Common(source, flow) # Common(flow, source)
    \/ source.meta # flow.meta

\* compute_drift: without its source an instance has drifted.
Drifted(i) ==
    instances[i].source \in gone \/ Differs(Sources[instances[i].source], instances[i].flow)

Changes == {"step_added", "step_removed", "step_reordered", "metadata_changed"}

\* However clients overwrite one another's workflow, and though each tells its
\* change against a copy that may be stale, an instance that differs from its
\* source has a change in its history (workflow_instance_service.py:143).
DriftIsExplained ==
    \A i \in DOMAIN instances :
        Drifted(i) /\ instances[i].source \notin gone =>
            \E k \in DOMAIN history[i] : history[i][k].kind \in Changes

\* The steps a history tells of: each was told as there, and not as removed since.
StepsTold(entries) ==
    {s \in Steps : \E k \in DOMAIN entries :
        /\ entries[k].kind \in {"created", "step_added"} /\ s \in entries[k].ids
        /\ \A j \in DOMAIN entries :
              j > k /\ entries[j].kind = "step_removed" => s \notin entries[j].ids}

\* With one client at a time the history tells what steps an instance has.
\* Two that replace it at once leave the steps of the one and the changes of
\* both.
HistoryTellsSteps ==
    Alone => \A i \in DOMAIN instances :
                 StepsTold(history[i]) = Range(instances[i].flow.steps)
=============================================================================

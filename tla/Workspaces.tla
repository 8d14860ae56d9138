----------------------------- MODULE Workspaces -----------------------------
(***************************************************************************)
(* The admin workbench: workspaces, commits and releases of combine-config *)
(* (src/app/api/services/workspace_service.py, git_service.py and          *)
(* release_service.py, with the routers admin_workspaces.py, admin_git.py  *)
(* and admin_releases.py).                                                 *)
(*                                                                         *)
(* WorkspaceService keeps its workspaces in memory, one per user, each     *)
(* named after a git branch; git keeps everything else.  There is one      *)
(* repository, so one working tree and one HEAD for all workspaces.  Every *)
(* handler calls the services synchronously on the event loop, so one      *)
(* request is one step.                                                    *)
(*                                                                         *)
(* Abstractions.  combine-config is a release of some types at some        *)
(* versions, each release one file (its manifest, or a workflow's          *)
(* definition) that tier 1 accepts or not, and the pointer file            *)
(* _active/active_releases.json.  Roles, templates, schemas and workflows  *)
(* are created the way types are and stand behind the same action.  A file *)
(* the panel stages, unstages or discards is one per call; files are alike *)
(* to git, which shows renames, when they are equal, and a branch's base   *)
(* is a branch.  A day may pass between any two calls, so any workspace    *)
(* may be found expired.                                                   *)
(***************************************************************************)
EXTENDS Naturals, FiniteSets, Functions

CONSTANTS
    Users,      \* administrators, at most one workspace each
    Ids,        \* workspace ids; the branch workspace/<id> is named by the id
    Types,      \* document types, numbered in path order
    Versions,   \* versions of a release, numbered in path order
    Releases,   \* the pairs of a type and a version there may be a file of
    Inputs,     \* required_inputs of each type, from its manifest
    Texts,      \* contents tier 1 accepts
    Broken,     \* a content tier 1 reports errors for
    Main,       \* the branch "main"
    Active,     \* the path of the pointer file
    Absent,     \* no file, no pointer, nothing cached
    Panel,      \* whether the git panel's own endpoints (admin_git.py) are used
    MaxEdits    \* bound: changes made to the working tree

Contents == Texts \union {Broken}

Pointers == [Types -> Versions \union {Absent}]

Paths == Releases \union {Active}

ASSUME NamesApart ==
    /\ Main \notin Ids /\ Active \notin Releases
    /\ Absent \notin Contents \union Versions \union Pointers
    /\ Inputs \in [Types -> SUBSET Types]

ASSUME ReleasesAreVersions == Releases \subseteq Types \X Versions

\* What a branch's tip, git's index or the working tree holds of combine-config.
Snapshots ==
    {s \in [Paths -> Contents \union {Absent} \union Pointers] :
        s[Active] \in Pointers /\ \A p \in Releases : s[p] \in Contents \union {Absent}}

ASSUME BoundIsNatural == MaxEdits \in Nat

ASSUME SomethingToShip ==
    /\ \E v \in Versions : \A u \in Versions : v <= u
    /\ Texts # {}

VARIABLES
    workspaces,     \* WorkspaceService._workspaces: id -> user
    userWorkspace,  \* WorkspaceService._user_workspaces: user -> id
    tip,            \* local branches: name -> snapshot at its tip
    head,           \* the branch HEAD is on
    index,          \* git's index: what the next commit takes
    tree,           \* the working tree
    loaded,         \* PackageLoader's caches: pointers and packages
    edits

vars == <<workspaces, userWorkspace, tip, head, index, tree, loaded, edits>>
registered == <<workspaces, userWorkspace>>
git == <<tip, head, index, tree>>

Nothing == [active |-> Absent, packages |-> {}]

With(f, key, value) == [x \in DOMAIN f \union {key} |-> IF x = key THEN value ELSE f[x]]

Without(f, S) == Restrict(f, DOMAIN f \ S)

(***************************************************************************)
(* Git.  GitService.get_status lists a path whose index differs from HEAD  *)
(* or whose tree differs from the index; it counts no staged rename.       *)
(***************************************************************************)
Committed == tip[head]

Listed(p) == index[p] # Committed[p] \/ tree[p] # index[p]

Deleted(c) == {p \in Releases : Committed[p] = c /\ index[p] = Absent}
Added(c) == {p \in Releases : Committed[p] = Absent /\ index[p] = c}

OnlyRenames ==
    /\ tree = index /\ index[Active] = Committed[Active]
    /\ \A p \in Releases : Listed(p) => Absent \in {Committed[p], index[p]}
    /\ \A c \in Contents : Cardinality(Deleted(c)) = Cardinality(Added(c))

Dirty == ~OnlyRenames

(***************************************************************************)
(* The artifacts tier 1 validates.  get_status strips git's output before  *)
(* it splits it, so the first line loses the blank its code may start with *)
(* and its path the first letter: an unstaged change listed first matches  *)
(* no artifact.  Tracked files come before untracked ones, in path order,  *)
(* the pointer file first; the untracked files of a release are one line   *)
(* for their directory, which matches no artifact either, and a rename's   *)
(* line names two paths; a file that was deleted is no package to validate.*)
(***************************************************************************)
Before(p, q) == p[1] < q[1] \/ (p[1] = q[1] /\ p[2] < q[2])

TrackedChanges ==
    {p \in Releases : Listed(p) /\ {Committed[p], index[p]} # {Absent}}

FirstListed(p) == ~Listed(Active) /\ ~\E q \in TrackedChanges : Before(q, p)

ModifiedArtifacts ==
    {p \in TrackedChanges :
        /\ tree[p] # Absent
        /\ FirstListed(p) => index[p] # Committed[p]
        /\ Committed[p] # Absent \/ Deleted(index[p]) = {}}

TierOnePasses == \A p \in ModifiedArtifacts : tree[p] # Broken

(***************************************************************************)
(* What git checks out over the tree: a path may stay as it is where the   *)
(* new commit does not differ from HEAD, or the index has the new content  *)
(* already; any other change stops the checkout, but for a deletion that   *)
(* is not staged, which is undone.                                         *)
(***************************************************************************)
Stays(p, s) == s[p] = Committed[p] \/ index[p] = s[p]

Carries(s) ==
    \A p \in Paths :
        \/ s[p] = Committed[p]
        \/ index[p] = s[p] /\ (index[p] = Absent => tree[p] = Absent)
        \/ index[p] = Committed[p] /\ tree[p] \in {index[p], Absent}

Over(t, s) == [p \in Paths |-> IF Stays(p, s) THEN t[p] ELSE s[p]]

\* checkout_branch refuses a dirty tree, then asks git.
MayCheckOut(b) == ~Dirty /\ Carries(tip[b])

TakenOver(s) ==
    /\ index' = Over(index, s)
    /\ tree' = Over(tree, s)

CheckedOut(b) == head' = b /\ TakenOver(tip[b])

\* create_branch: checkout -b, on a base, with no look at the status.
BranchCreated(b, base) ==
    /\ Carries(tip[base])
    /\ tip' = With(tip, b, tip[base])
    /\ head' = b
    /\ TakenOver(tip[base])

\* stage_files of one path, or unstage_files: HEAD's, and stage_all.
Staged(p, content) == [index EXCEPT ![p] = content]

\* Mutant: git add -u: new files are left out.
StagedKnown == [p \in Paths |-> IF index[p] = Absent THEN Absent ELSE tree[p]]

StagedAll == tree

\* commit: the index as it is; that nothing is staged is an error.
Committing(i) ==
    /\ index' = i
    /\ tip' = [tip EXCEPT ![head] = i]

\* Mutant: git add -A where the pointer file alone is meant.
StagedPointersToo(active) == [tree EXCEPT ![Active] = active]

\* stage_files of the pointer file, by itself.
StagedPointers(active) == Staged(Active, active)

(***************************************************************************)
(* Workspaces.  Every call on a workspace but current, create and close    *)
(* touches it first, which moves its expiry.                               *)
(***************************************************************************)
Touched(w) ==
    /\ w \in DOMAIN workspaces
    /\ UNCHANGED registered

Edited(t) ==
    /\ edits < MaxEdits
    /\ edits' = edits + 1
    /\ tree' = t

\* Mutant: the branch is deleted though the checkout of main was refused.
CleanedAnyway(w) ==
    /\ workspaces' = Without(workspaces, {w})
    /\ userWorkspace' = Without(userWorkspace, {workspaces[w]})
    /\ tip' = Without(tip, {w})
    /\ IF MayCheckOut(Main) THEN CheckedOut(Main) ELSE UNCHANGED <<head, index, tree>>
    /\ UNCHANGED <<loaded, edits>>

\* Mutant: only the workspace's own entry is dropped.
CleanedHalf(w) ==
    /\ workspaces' = Without(workspaces, {w})
    /\ UNCHANGED userWorkspace
    /\ IF MayCheckOut(Main) THEN CheckedOut(Main) /\ tip' = Without(tip, {w})
                            ELSE UNCHANGED git
    /\ UNCHANGED <<loaded, edits>>

\* Mutant: main is checked out with -f.
CleanedByForce(w) ==
    /\ workspaces' = Without(workspaces, {w})
    /\ userWorkspace' = Without(userWorkspace, {workspaces[w]})
    /\ head' = Main /\ index' = tip[Main] /\ tree' = tip[Main]
    /\ tip' = Without(tip, {w})
    /\ UNCHANGED <<loaded, edits>>

\* _cleanup_workspace: the indexes first, then main is checked out and the
\* branch deleted, best effort: a dirty tree stops the checkout, and HEAD
\* stays on the branch of a workspace that is gone.
Cleaned(w) ==
    /\ workspaces' = Without(workspaces, {w})
    /\ userWorkspace' = Without(userWorkspace, {workspaces[w]})
    /\ IF MayCheckOut(Main) THEN CheckedOut(Main) /\ tip' = Without(tip, {w})
                            ELSE UNCHANGED git
    /\ UNCHANGED <<loaded, edits>>

CreateWorkspace(u) ==
    /\ u \notin DOMAIN userWorkspace
    /\ \E w \in Ids \ (DOMAIN tip \union DOMAIN workspaces) :
        /\ BranchCreated(w, head)
        /\ workspaces' = With(workspaces, w, u)
        /\ userWorkspace' = With(userWorkspace, u, w)
    /\ UNCHANGED <<loaded, edits>>

\* get_current_workspace, of a workspace nobody touched for a day.
GetCurrentWorkspace(u) ==
    /\ u \in DOMAIN userWorkspace
    /\ Cleaned(userWorkspace[u])

CloseWorkspace(w, force) ==
    /\ w \in DOMAIN workspaces
    /\ ~Dirty \/ force
    /\ Cleaned(w)

\* get_preview: drops the loader's caches and loads the package afresh.
GetPreview(w, p) ==
    /\ Touched(w)
    /\ loaded' = [Nothing EXCEPT !.packages = {p} \ {q \in Releases : tree[q] = Absent}]
    /\ UNCHANGED <<git, edits>>

\* write_artifact: the file is written where the tree is, released or not.
WriteArtifact(w, p, text) ==
    /\ Touched(w)
    /\ tree[p] # text
    /\ Edited([tree EXCEPT ![p] = text])
    /\ UNCHANGED <<tip, head, index, loaded>>

Exists(t) == \E p \in Releases : p[1] = t /\ tree[p] # Absent

\* create_document_type (and the other creations): a skeleton and its pointer.
CreateDocumentType(w, p) ==
    /\ Touched(w)
    /\ ~Exists(p[1])
    /\ \E text \in Texts :
        Edited([tree EXCEPT ![p] = text, ![Active] = [@ EXCEPT ![p[1]] = p[2]]])
    /\ UNCHANGED <<tip, head, index, loaded>>

DeleteDocumentType(w, t) ==
    /\ Touched(w)
    /\ Exists(t)
    /\ Edited([p \in Paths |->
          IF p = Active THEN [tree[p] EXCEPT ![t] = Absent]
          ELSE IF p[1] = t THEN Absent ELSE tree[p]])
    /\ UNCHANGED <<tip, head, index, loaded>>

\* commit: on whatever branch HEAD is.
Commit(w) ==
    /\ Touched(w)
    /\ TierOnePasses
    /\ Committing(StagedAll)
    /\ UNCHANGED <<head, tree, loaded, edits>>

\* discard_changes: checkout of the index and clean; what is staged stays.
Discard(w) ==
    /\ Touched(w)
    /\ tree' = index
    /\ UNCHANGED <<tip, head, index, loaded, edits>>

(***************************************************************************)
(* Releases.  The loader answers from its caches; only an activation, a    *)
(* rollback or a preview drops them.                                       *)
(***************************************************************************)
ActiveRead == IF loaded.active = Absent THEN tree[Active] ELSE loaded.active

Loads(p) == p \in loaded.packages \/ tree[p] # Absent

Filled(p) == [active |-> ActiveRead, packages |-> loaded.packages \union {p}]

\* GitService.update_active_release: the pointer file is rewritten and staged,
\* and the index committed; when HEAD has it all already, the commit fails and
\* the caches stay as the call filled them.
Activates(t, v, filled, after) ==
    LET active == [tree[Active] EXCEPT ![t] = v] IN
    /\ IF active = tree[Active]
          THEN UNCHANGED <<tree, edits>>
          ELSE Edited([tree EXCEPT ![Active] = active])
    /\ Committing(StagedPointers(active))
    /\ loaded' = IF index' = Committed THEN filled ELSE after
    /\ UNCHANGED <<registered, head>>

\* get_release_info, list_releases, and the runtime's own reads: the pointers
\* are read, and kept, before the package is looked for.
ReadRelease(p) ==
    /\ loaded' = IF Loads(p) THEN Filled(p) ELSE [loaded EXCEPT !.active = ActiveRead]
    /\ UNCHANGED <<registered, git, edits>>

\* ReleaseService.activate_release: validate_activation, then the pointer.
ActivateRelease(p) ==
    /\ Loads(p)
    /\ \A i \in Inputs[p[1]] : ActiveRead[i] # Absent
    /\ Activates(p[1], p[2], Filled(p), Nothing)

Rollback(p) ==
    /\ ActiveRead[p[1]] \notin {Absent, p[2]}
    /\ Loads(p)
    /\ Activates(p[1], p[2], Filled(p), Nothing)

(***************************************************************************)
(* The git panel's own endpoints (admin_git.py): no workspace, no tier 1,  *)
(* no validation, and the loader is not told.                              *)
(***************************************************************************)
PanelSwitches ==
    /\ Panel
    /\ \/ \E b \in Ids \ (DOMAIN tip \union DOMAIN workspaces), base \in DOMAIN tip :
            BranchCreated(b, base)
       \/ \E b \in DOMAIN tip : MayCheckOut(b) /\ CheckedOut(b) /\ UNCHANGED tip
    /\ UNCHANGED <<registered, loaded, edits>>

\* stage, unstage and stage-all.
PanelStages ==
    /\ Panel
    /\ \/ \E p \in Paths : index' = Staged(p, tree[p]) \/ index' = Staged(p, Committed[p])
       \/ index' = StagedAll
    /\ UNCHANGED <<registered, tip, head, tree, loaded, edits>>

PanelCommits ==
    /\ Panel
    /\ Committing(StagedAll) \/ Committing(index)
    /\ UNCHANGED <<registered, head, tree, loaded, edits>>

PanelDiscards ==
    /\ Panel
    /\ \/ tree' = index
       \/ \E p \in Paths : index[p] # Absent /\ tree' = [tree EXCEPT ![p] = index[p]]
    /\ UNCHANGED <<registered, tip, head, index, loaded, edits>>

PanelActivates(p) ==
    /\ Panel
    /\ Activates(p[1], p[2], loaded, loaded)

\* The process restarts: memory is gone, the repository stays as it was.
Restart ==
    /\ workspaces' = <<>>
    /\ userWorkspace' = <<>>
    /\ loaded' = Nothing
    /\ UNCHANGED <<git, edits>>

\* main holds the first version, released, of every type that needs no input.
InitialSnapshot ==
    LET first == CHOOSE v \in Versions : \A u \in Versions : v <= u
        shipped(t) == Inputs[t] = {}
        text == CHOOSE c \in Texts : TRUE
    IN  [p \in Paths |->
            IF p = Active THEN [t \in Types |-> IF shipped(t) THEN first ELSE Absent]
            ELSE IF shipped(p[1]) /\ p[2] = first THEN text ELSE Absent]

Init ==
    /\ workspaces = <<>>
    /\ userWorkspace = <<>>
    /\ tip = [b \in {Main} |-> InitialSnapshot]
    /\ head = Main
    /\ index = InitialSnapshot
    /\ tree = InitialSnapshot
    /\ loaded = Nothing
    /\ edits = 0

Next ==
    \/ \E u \in Users : CreateWorkspace(u) \/ GetCurrentWorkspace(u)
    \/ \E w \in Ids :
        \/ \E force \in BOOLEAN : CloseWorkspace(w, force)
        \/ \E p \in Releases : GetPreview(w, p) \/ CreateDocumentType(w, p)
        \/ \E p \in Releases, text \in Contents : WriteArtifact(w, p, text)
        \/ \E t \in Types : DeleteDocumentType(w, t)
        \/ Commit(w)
        \/ Discard(w)
    \/ \E p \in Releases :
        ReadRelease(p) \/ ActivateRelease(p) \/ Rollback(p) \/ PanelActivates(p)
    \/ PanelSwitches \/ PanelStages \/ PanelCommits \/ PanelDiscards
    \/ Restart

Spec == Init /\ [][Next]_vars

-----------------------------------------------------------------------------
(***************************************************************************)
(* Properties.                                                             *)
(***************************************************************************)
TypeOK ==
    /\ DOMAIN workspaces \subseteq Ids /\ \A w \in DOMAIN workspaces : workspaces[w] \in Users
    /\ DOMAIN userWorkspace \subseteq Users /\ \A u \in DOMAIN userWorkspace : userWorkspace[u] \in Ids
    /\ DOMAIN tip \subseteq Ids \union {Main} /\ \A b \in DOMAIN tip : tip[b] \in Snapshots
    /\ head \in DOMAIN tip
    /\ index \in Snapshots /\ tree \in Snapshots
    /\ loaded \in [active : {Absent} \union Pointers,
                  packages : SUBSET Releases]
    /\ edits \in 0 .. MaxEdits

\* The two indexes agree: a user's entry names a workspace of that user, every
\* workspace is its user's entry, and its branch exists, so no user is locked
\* out of creating a workspace by one that is gone, through cleanups that fail
\* half way, expiries and restarts (create_workspace, _cleanup_workspace).
IndexesAgree ==
    /\ \A u \in DOMAIN userWorkspace :
          userWorkspace[u] \in DOMAIN workspaces /\ workspaces[userWorkspace[u]] = u
    /\ \A w \in DOMAIN workspaces :
          /\ workspaces[w] \in DOMAIN userWorkspace /\ userWorkspace[workspaces[w]] = w
          /\ w \in DOMAIN tip

\* No switch of branch loses an uncommitted edit, staged or not: whichever user,
\* expiry, forced close or panel moves HEAD (checkout_branch, create_branch), and
\* whatever get_status missed, a path that differs from HEAD is in the index and
\* in the tree as before. Only a deletion that is not staged may be undone, by
\* a branch made from another base.
SwitchKeepsEdits ==
    [][head' # head =>
        \A p \in Paths :
            index[p] # Committed[p] \/ tree[p] \notin {index[p], Absent}
                => index'[p] = index[p] /\ tree'[p] = tree[p]]_vars

\* The commit an activation or a rollback makes takes no release file that was
\* only edited with it: it holds the pointer file as the tree now has it, and
\* of all else what was staged before (update_active_release). What the panel
\* had staged does go with it, though a rollback is documented as "a single
\* commit to active_releases.json".
ReleaseTakesStaged ==
    [][(head' = head /\ tip'[head] # Committed /\ tree' # tree)
        => tip'[head] = [index EXCEPT ![Active] = tree'[Active]]]_vars

\* A commit that changes a release file takes either all that is in the tree
\* ("Commit all changes in the workspace"), new files and deleted ones too, or
\* just what somebody had staged: never a part nobody chose, whether a
\* workspace, the panel or an activation makes it, and in any order of stages,
\* unstages, edits and discards by others.
CommitTakesChosen ==
    [][(head' = head /\ tip'[head] # Committed)
        => tip'[head] = tree' \/ \A p \in Releases : tip'[head][p] = index[p]]_vars
=============================================================================

-------------------------- MODULE WorkspacesProofs --------------------------
(***************************************************************************)
(* Proofs about module Workspaces, for any users, ids, types and versions: *)
(* the state is well typed, the two indexes of the workspace service       *)
(* agree, no switch of branch loses an edit, a release commits what was    *)
(* staged and its pointers, and any commit that or all there is.           *)
(***************************************************************************)
EXTENDS Workspaces, TLAPS

(***************************************************************************)
(* The indexes.                                                            *)
(***************************************************************************)
Registered ==
    /\ IndexesAgree
    /\ DOMAIN workspaces \subseteq Ids

LEMMA RegisteredInitially == Init => Registered
BY DEF Init, Registered, IndexesAgree

LEMMA CleanedKeepsRegistered ==
    ASSUME Registered, NEW w \in DOMAIN workspaces, Cleaned(w)
    PROVE  Registered'
<1>1. /\ DOMAIN workspaces' = DOMAIN workspaces \ {w}
      /\ \A x \in DOMAIN workspaces' : workspaces'[x] = workspaces[x]
  BY DEF Cleaned, Without, Restrict
<1>2. /\ DOMAIN userWorkspace' = DOMAIN userWorkspace \ {workspaces[w]}
      /\ \A u \in DOMAIN userWorkspace' : userWorkspace'[u] = userWorkspace[u]
  BY DEF Cleaned, Without, Restrict
<1>3. DOMAIN tip \ {w} \subseteq DOMAIN tip'
  BY DEF Cleaned, git, Without, Restrict
<1> QED BY <1>1, <1>2, <1>3 DEF Registered, IndexesAgree

LEMMA BranchKeepsBranches ==
    ASSUME NEW b, NEW base, BranchCreated(b, base)
    PROVE  DOMAIN tip' = DOMAIN tip \union {b}
BY DEF BranchCreated, With

LEMMA CreateKeepsRegistered ==
    ASSUME Registered, NEW u \in Users, CreateWorkspace(u)
    PROVE  Registered'
<1>1. PICK w \in Ids \ (DOMAIN tip \union DOMAIN workspaces) :
        /\ BranchCreated(w, head)
        /\ workspaces' = With(workspaces, w, u)
        /\ userWorkspace' = With(userWorkspace, u, w)
  BY DEF CreateWorkspace
<1>2. /\ DOMAIN workspaces' = DOMAIN workspaces \union {w}
      /\ workspaces'[w] = u
      /\ \A x \in DOMAIN workspaces : workspaces'[x] = workspaces[x]
  BY <1>1 DEF With
<1>3. u \notin DOMAIN userWorkspace
  BY DEF CreateWorkspace
<1>4. /\ DOMAIN userWorkspace' = DOMAIN userWorkspace \union {u}
      /\ userWorkspace'[u] = w
      /\ \A x \in DOMAIN userWorkspace : userWorkspace'[x] = userWorkspace[x]
  BY <1>1, <1>3 DEF With
<1>5. DOMAIN tip' = DOMAIN tip \union {w}
  BY <1>1, BranchKeepsBranches
<1> QED BY <1>2, <1>3, <1>4, <1>5 DEF Registered, IndexesAgree

\* Every other step leaves the indexes alone, and no branch goes.
LEMMA CommittingKeepsBranches ==
    ASSUME NEW i, Committing(i)
    PROVE  DOMAIN tip' = DOMAIN tip
BY DEF Committing

LEMMA UntouchedKeepsRegistered ==
    ASSUME Registered, UNCHANGED registered, DOMAIN tip \subseteq DOMAIN tip'
    PROVE  Registered'
BY DEF Registered, IndexesAgree, registered

LEMMA ActivatesKeepsRegistered ==
    ASSUME Registered, NEW t, NEW v, NEW filled, NEW after, Activates(t, v, filled, after)
    PROVE  Registered'
BY UntouchedKeepsRegistered, CommittingKeepsBranches DEF Activates

LEMMA RegisteredPreserved == Registered /\ [Next]_vars => Registered'
<1> SUFFICES ASSUME Registered, [Next]_vars PROVE Registered'
  OBVIOUS
<1> USE UntouchedKeepsRegistered, CommittingKeepsBranches
<1>1. ASSUME NEW u \in Users, CreateWorkspace(u) PROVE Registered'
  BY <1>1, CreateKeepsRegistered
<1>2. ASSUME NEW u \in Users, GetCurrentWorkspace(u) PROVE Registered'
  <2>1. userWorkspace[u] \in DOMAIN workspaces
    BY <1>2 DEF GetCurrentWorkspace, Registered, IndexesAgree
  <2> QED BY <1>2, <2>1, CleanedKeepsRegistered DEF GetCurrentWorkspace
<1>3. ASSUME NEW w \in Ids, NEW force \in BOOLEAN, CloseWorkspace(w, force) PROVE Registered'
  BY <1>3, CleanedKeepsRegistered DEF CloseWorkspace
<1>4. ASSUME NEW w \in Ids, Discard(w) \/ Commit(w) PROVE Registered'
  BY <1>4 DEF Discard, Commit, Touched
<1>5. ASSUME NEW w \in Ids, NEW p \in Releases, GetPreview(w, p) \/ CreateDocumentType(w, p)
      PROVE Registered'
  BY <1>5 DEF GetPreview, CreateDocumentType, Touched, git
<1>6. ASSUME NEW w \in Ids, NEW p \in Releases, NEW text \in Contents, WriteArtifact(w, p, text)
      PROVE Registered'
  BY <1>6 DEF WriteArtifact, Touched
<1>7. ASSUME NEW w \in Ids, NEW t \in Types, DeleteDocumentType(w, t) PROVE Registered'
  BY <1>7 DEF DeleteDocumentType, Touched
<1>8. ASSUME NEW p \in Releases, ReadRelease(p) PROVE Registered'
  BY <1>8 DEF ReadRelease, git
<1>9. ASSUME NEW p \in Releases, ActivateRelease(p) \/ Rollback(p) \/ PanelActivates(p)
      PROVE Registered'
  BY <1>9, ActivatesKeepsRegistered DEF ActivateRelease, Rollback, PanelActivates
<1>10. CASE PanelSwitches
  BY <1>10, BranchKeepsBranches DEF PanelSwitches
<1>11. CASE PanelStages \/ PanelCommits \/ PanelDiscards
  BY <1>11 DEF PanelStages, PanelCommits, PanelDiscards
<1>12. CASE Restart
  BY <1>12 DEF Restart, Registered, IndexesAgree
<1>13. CASE UNCHANGED vars
  BY <1>13 DEF vars, registered
<1> QED BY <1>1, <1>2, <1>3, <1>4, <1>5, <1>6, <1>7, <1>8, <1>9, <1>10, <1>11, <1>12, <1>13
        DEF Next

(***************************************************************************)
(* The two indexes of the workspace service agree in every reachable       *)
(* state, whatever fails half way: the "inconsistent state" that           *)
(* get_current_workspace repairs does not arise.                           *)
(***************************************************************************)
THEOREM IndexesAlwaysAgree == Spec => []IndexesAgree
<1>1. Registered => IndexesAgree
  BY DEF Registered
<1> QED BY <1>1, RegisteredInitially, RegisteredPreserved, PTL DEF Spec

(***************************************************************************)
(* Edits and branches.                                                     *)
(***************************************************************************)
Unchanged(p) == index'[p] = index[p] /\ tree'[p] = tree[p]

Kept ==
    \A p \in Paths :
        index[p] # Committed[p] \/ tree[p] \notin {index[p], Absent} => Unchanged(p)

LEMMA TakenOverKeeps ==
    ASSUME NEW s, Carries(s), TakenOver(s)
    PROVE  Kept
<1> SUFFICES ASSUME NEW p \in Paths,
                    index[p] # Committed[p] \/ tree[p] \notin {index[p], Absent}
             PROVE  Unchanged(p)
  BY DEF Kept
<1>1. Stays(p, s)
  BY DEF Carries, Stays
<1> QED BY <1>1 DEF TakenOver, Over, Unchanged

LEMMA CleanedSwitches ==
    ASSUME NEW w, Cleaned(w)
    PROVE  UNCHANGED git \/ (head' = Main /\ Kept)
BY TakenOverKeeps DEF Cleaned, MayCheckOut, CheckedOut

LEMMA BranchKeeps ==
    ASSUME NEW b, NEW base, BranchCreated(b, base)
    PROVE  Kept
BY TakenOverKeeps DEF BranchCreated

LEMMA StepSwitches == [Next]_vars => (head' # head => Kept)
<1> SUFFICES ASSUME [Next]_vars, head' # head PROVE Kept
  OBVIOUS
<1> USE CleanedSwitches DEF git
<1>1. ASSUME NEW u \in Users, CreateWorkspace(u) PROVE Kept
  BY <1>1, BranchKeeps DEF CreateWorkspace
<1>2. ASSUME NEW u \in Users, GetCurrentWorkspace(u) PROVE Kept
  BY <1>2 DEF GetCurrentWorkspace
<1>3. ASSUME NEW w \in Ids, NEW force \in BOOLEAN, CloseWorkspace(w, force) PROVE Kept
  BY <1>3 DEF CloseWorkspace
<1>4. ASSUME NEW w \in Ids, Discard(w) \/ Commit(w) PROVE FALSE
  BY <1>4 DEF Discard, Commit
<1>5. ASSUME NEW w \in Ids, NEW p \in Releases, GetPreview(w, p) \/ CreateDocumentType(w, p)
      PROVE FALSE
  BY <1>5 DEF GetPreview, CreateDocumentType
<1>6. ASSUME NEW w \in Ids, NEW p \in Releases, NEW text \in Contents, WriteArtifact(w, p, text)
      PROVE FALSE
  BY <1>6 DEF WriteArtifact
<1>7. ASSUME NEW w \in Ids, NEW t \in Types, DeleteDocumentType(w, t) PROVE FALSE
  BY <1>7 DEF DeleteDocumentType
<1>8. ASSUME NEW p \in Releases, ReadRelease(p) \/ ActivateRelease(p) \/ Rollback(p) \/ PanelActivates(p)
      PROVE FALSE
  BY <1>8 DEF ReadRelease, ActivateRelease, Rollback, PanelActivates, Activates
<1>9. CASE PanelSwitches
  BY <1>9, BranchKeeps, TakenOverKeeps DEF PanelSwitches, MayCheckOut, CheckedOut
<1>10. CASE PanelStages \/ PanelCommits \/ PanelDiscards \/ Restart \/ UNCHANGED vars
  BY <1>10 DEF PanelStages, PanelCommits, PanelDiscards, Restart, vars
<1> QED BY <1>1, <1>2, <1>3, <1>4, <1>5, <1>6, <1>7, <1>8, <1>9, <1>10 DEF Next

(***************************************************************************)
(* No step that moves HEAD loses an uncommitted edit.                      *)
(***************************************************************************)
THEOREM SwitchesKeepEdits == Spec => SwitchKeepsEdits
BY StepSwitches, PTL DEF Spec, SwitchKeepsEdits, Kept, Unchanged

(***************************************************************************)
(* Types.                                                                  *)
(***************************************************************************)
\* TypeOK, with main a branch, by the part of the state it speaks of.
Members ==
    /\ DOMAIN workspaces \subseteq Ids /\ \A w \in DOMAIN workspaces : workspaces[w] \in Users
    /\ DOMAIN userWorkspace \subseteq Users /\ \A u \in DOMAIN userWorkspace : userWorkspace[u] \in Ids

Repository ==
    /\ DOMAIN tip \subseteq Ids \union {Main} /\ \A b \in DOMAIN tip : tip[b] \in Snapshots
    /\ Main \in DOMAIN tip
    /\ head \in DOMAIN tip

Contained ==
    /\ index \in Snapshots /\ tree \in Snapshots
    /\ edits \in 0 .. MaxEdits

Cached ==
    loaded \in [active : {Absent} \union Pointers,
                packages : SUBSET Releases]

Typed == Members /\ Repository /\ Contained /\ Cached

LEMMA TypedImpliesTypeOK == Typed => TypeOK
BY DEF Typed, TypeOK, Members, Repository, Contained, Cached

LEMMA InitialSnapshotTyped == InitialSnapshot \in Snapshots
<1> DEFINE first == CHOOSE v \in Versions : \A u \in Versions : v <= u
           text == CHOOSE c \in Texts : TRUE
<1>1. first \in Versions /\ text \in Texts
  BY SomethingToShip
<1> QED BY <1>1, NamesApart DEF InitialSnapshot, Snapshots, Contents, Paths, Pointers

LEMMA TypedInitially == Init => Typed
BY InitialSnapshotTyped, BoundIsNatural
   DEF Init, Typed, Members, Repository, Contained, Cached, Nothing

LEMMA TouchedKeepsMembers ==
    ASSUME Members, NEW w, Touched(w)
    PROVE  Members' /\ w \in Ids
BY DEF Members, Touched, registered

LEMMA OverTyped ==
    ASSUME NEW t \in Snapshots, NEW s \in Snapshots
    PROVE  Over(t, s) \in Snapshots
BY DEF Over, Snapshots, Paths

LEMMA CleanedKeepsTyped ==
    ASSUME Typed, NEW w \in DOMAIN workspaces, Cleaned(w)
    PROVE  Typed'
<1> USE DEF Typed
<1>1. Members'
  BY DEF Cleaned, Members, Without, Restrict
<1>2. w \in Ids /\ w # Main
  BY NamesApart DEF Members
<1>3. Cached' /\ edits' = edits
  BY DEF Cleaned, Cached
<1>4. CASE UNCHANGED git
  BY <1>1, <1>3, <1>4 DEF git, Repository, Contained
<1>5. CASE CheckedOut(Main) /\ tip' = Without(tip, {w})
  <2>1. Repository'
    BY <1>2, <1>5 DEF Repository, CheckedOut, Without, Restrict
  <2>2. Contained'
    BY <1>3, <1>5, OverTyped DEF Contained, CheckedOut, TakenOver, Repository
  <2> QED BY <1>1, <1>3, <2>1, <2>2
<1> QED BY <1>4, <1>5 DEF Cleaned

LEMMA BranchKeepsRepository ==
    ASSUME Typed, NEW b \in Ids, NEW base \in DOMAIN tip, BranchCreated(b, base)
    PROVE  Repository' /\ index' \in Snapshots /\ tree' \in Snapshots
<1>1. Repository'
  BY DEF Typed, BranchCreated, Repository, With
<1>2. index' \in Snapshots /\ tree' \in Snapshots
  BY OverTyped DEF Typed, BranchCreated, TakenOver, Repository, Contained
<1> QED BY <1>1, <1>2

LEMMA StagedTyped ==
    ASSUME Typed
    PROVE  /\ \A p \in Paths :
                Staged(p, tree[p]) \in Snapshots /\ Staged(p, Committed[p]) \in Snapshots
           /\ \A active \in Pointers : StagedPointers(active) \in Snapshots
           /\ StagedAll \in Snapshots
<1>1. index \in Snapshots /\ tree \in Snapshots /\ Committed \in Snapshots
  BY DEF Typed, Repository, Contained, Committed
<1>2. Active \notin Releases
  BY NamesApart
<1> QED BY <1>1, <1>2 DEF Staged, StagedPointers, StagedAll, Snapshots, Paths

LEMMA CommittingTyped ==
    ASSUME Typed, NEW i \in Snapshots, Committing(i), head' = head
    PROVE  Repository' /\ index' \in Snapshots
BY DEF Typed, Committing, Repository

LEMMA ActivatesKeepsTyped ==
    ASSUME Typed, NEW p \in Releases, NEW filled, NEW after,
           Activates(p[1], p[2], filled, after),
           filled \in [active : {Absent} \union Pointers,
                       packages : SUBSET Releases],
           after \in [active : {Absent} \union Pointers,
                      packages : SUBSET Releases]
    PROVE  Typed'
<1> USE DEF Typed
<1> DEFINE active == [tree[Active] EXCEPT ![p[1]] = p[2]]
<1>1. p[1] \in Types /\ p[2] \in Versions
  BY ReleasesAreVersions
<1>2. active \in Pointers
  BY <1>1 DEF Contained, Snapshots, Pointers
<1>3. Members' /\ head' = head /\ Cached'
  BY DEF Activates, Members, Cached, registered
<1>4. Repository' /\ index' \in Snapshots
  BY <1>2, <1>3, StagedTyped, CommittingTyped DEF Activates
<1>5. [tree EXCEPT ![Active] = active] \in Snapshots
  BY <1>2, NamesApart DEF Contained, Snapshots, Paths
<1>6. tree' \in Snapshots /\ edits' \in 0 .. MaxEdits
  BY <1>5, BoundIsNatural DEF Activates, Edited, Contained
<1> QED BY <1>3, <1>4, <1>6 DEF Contained

LEMMA EditKeepsTyped ==
    ASSUME Typed, NEW w, Touched(w), NEW snapshot \in Snapshots, Edited(snapshot),
           UNCHANGED <<tip, head, index, loaded>>
    PROVE  Typed'
<1>1. Members'
  BY TouchedKeepsMembers DEF Typed
<1>2. Contained'
  BY BoundIsNatural DEF Typed, Contained, Edited
<1> QED BY <1>1, <1>2 DEF Typed, Repository, Cached

LEMMA WrittenTyped ==
    ASSUME Typed, NEW p \in Releases, NEW text \in Contents, NEW v \in Versions
    PROVE  /\ [tree EXCEPT ![p] = text] \in Snapshots
           /\ p[1] \in Types =>
                [tree EXCEPT ![p] = text, ![Active] = [@ EXCEPT ![p[1]] = v]] \in Snapshots
<1>1. tree \in Snapshots /\ p # Active /\ p \in Paths /\ Active \in Paths
  BY NamesApart DEF Typed, Contained, Paths
<1>2. [tree EXCEPT ![p] = text] \in Snapshots
  BY <1>1, NamesApart DEF Snapshots, Paths
<1>3. ASSUME p[1] \in Types
      PROVE  [tree EXCEPT ![p] = text, ![Active] = [@ EXCEPT ![p[1]] = v]] \in Snapshots
  <2>1. [tree[Active] EXCEPT ![p[1]] = v] \in Pointers
    BY <1>1, <1>3 DEF Snapshots, Pointers
  <2> QED BY <1>1, <2>1, NamesApart DEF Snapshots, Paths
<1> QED BY <1>2, <1>3

LEMMA DeletedTyped ==
    ASSUME Typed, NEW t \in Types
    PROVE  [p \in Paths |->
              IF p = Active THEN [tree[p] EXCEPT ![t] = Absent]
              ELSE IF p[1] = t THEN Absent ELSE tree[p]] \in Snapshots
<1>1. [tree[Active] EXCEPT ![t] = Absent] \in Pointers
  BY DEF Typed, Contained, Snapshots, Pointers
<1> QED BY <1>1, NamesApart DEF Typed, Contained, Snapshots, Paths

LEMMA FilledTyped ==
    ASSUME Typed, NEW p \in Releases
    PROVE  /\ ActiveRead \in Pointers
           /\ Filled(p) \in [active : {Absent} \union Pointers,
                             packages : SUBSET Releases]
           /\ Nothing \in [active : {Absent} \union Pointers,
                           packages : SUBSET Releases]
BY DEF Typed, Filled, ActiveRead, Nothing, Cached, Contained, Snapshots

LEMMA TypedPreserved == Typed /\ Registered /\ [Next]_vars => Typed'
<1> SUFFICES ASSUME Typed, Registered, [Next]_vars PROVE Typed'
  OBVIOUS
<1> USE TouchedKeepsMembers
<1>1. ASSUME NEW u \in Users, CreateWorkspace(u) PROVE Typed'
  <2>1. PICK w \in Ids \ (DOMAIN tip \union DOMAIN workspaces) :
          /\ BranchCreated(w, head)
          /\ workspaces' = With(workspaces, w, u)
          /\ userWorkspace' = With(userWorkspace, u, w)
    BY <1>1 DEF CreateWorkspace
  <2>2. UNCHANGED <<loaded, edits>>
    BY <1>1 DEF CreateWorkspace
  <2>3. Members'
    BY <2>1, <2>2 DEF Typed, Members, With
  <2>4. Repository' /\ index' \in Snapshots /\ tree' \in Snapshots
    BY <2>1, BranchKeepsRepository DEF Typed, Repository
  <2> QED BY <2>2, <2>3, <2>4 DEF Typed, Contained, Cached
<1>2. ASSUME NEW u \in Users, GetCurrentWorkspace(u) PROVE Typed'
  <2>1. userWorkspace[u] \in DOMAIN workspaces
    BY <1>2 DEF GetCurrentWorkspace, Registered, IndexesAgree
  <2> QED BY <1>2, <2>1, CleanedKeepsTyped DEF GetCurrentWorkspace
<1>3. ASSUME NEW w \in Ids, NEW force \in BOOLEAN, CloseWorkspace(w, force) PROVE Typed'
  BY <1>3, CleanedKeepsTyped DEF CloseWorkspace
<1>4. ASSUME NEW w \in Ids, NEW p \in Releases, GetPreview(w, p) PROVE Typed'
  BY <1>4 DEF GetPreview, Nothing, Typed, Repository, Contained, Cached, git
<1>5. ASSUME NEW w \in Ids, NEW p \in Releases, CreateDocumentType(w, p) PROVE Typed'
  <2>1. p[1] \in Types /\ p[2] \in Versions
    BY ReleasesAreVersions
  <2>2. PICK text \in Texts :
          Edited([tree EXCEPT ![p] = text, ![Active] = [@ EXCEPT ![p[1]] = p[2]]])
    BY <1>5 DEF CreateDocumentType
  <2> QED BY <1>5, <2>1, <2>2, WrittenTyped, EditKeepsTyped DEF CreateDocumentType, Contents
<1>6. ASSUME NEW w \in Ids, NEW p \in Releases, NEW text \in Contents, WriteArtifact(w, p, text)
      PROVE  Typed'
  BY <1>6, WrittenTyped, EditKeepsTyped, SomethingToShip DEF WriteArtifact
<1>7. ASSUME NEW w \in Ids, NEW t \in Types, DeleteDocumentType(w, t) PROVE Typed'
  BY <1>7, DeletedTyped, EditKeepsTyped DEF DeleteDocumentType
<1>8. ASSUME NEW w \in Ids, Commit(w) PROVE Typed'
  <2>1. Repository' /\ index' \in Snapshots
    BY <1>8, StagedTyped, CommittingTyped DEF Commit
  <2> QED BY <1>8, <2>1 DEF Commit, Typed, Contained, Cached
<1>9. ASSUME NEW w \in Ids, Discard(w) PROVE Typed'
  BY <1>9 DEF Discard, Typed, Repository, Contained, Cached
<1>10. ASSUME NEW p \in Releases, ReadRelease(p) PROVE Typed'
  <2>1. Cached'
    BY <1>10, FilledTyped DEF ReadRelease, Typed, Cached
  <2> QED BY <1>10, <2>1 DEF ReadRelease, Typed, Members, Repository, Contained, git, registered
<1>11. ASSUME NEW p \in Releases, ActivateRelease(p) \/ Rollback(p) PROVE Typed'
  BY <1>11, FilledTyped, ActivatesKeepsTyped DEF ActivateRelease, Rollback
<1>12. ASSUME NEW p \in Releases, PanelActivates(p) PROVE Typed'
  BY <1>12, ActivatesKeepsTyped DEF PanelActivates, Typed, Cached
<1>13. CASE PanelSwitches
  <2>1. Members' /\ Cached' /\ edits' = edits
    BY <1>13 DEF PanelSwitches, Typed, Members, Cached, registered
  <2>2. ASSUME NEW b \in Ids, NEW base \in DOMAIN tip, BranchCreated(b, base) PROVE Typed'
    BY <2>1, <2>2, BranchKeepsRepository DEF Typed, Contained
  <2>3. ASSUME NEW b \in DOMAIN tip, CheckedOut(b), UNCHANGED tip PROVE Typed'
    BY <2>1, <2>3, OverTyped DEF CheckedOut, TakenOver, Typed, Repository, Contained
  <2> QED BY <1>13, <2>2, <2>3 DEF PanelSwitches
<1>14. CASE PanelStages
  <2>1. index' \in Snapshots
    BY <1>14, StagedTyped DEF PanelStages
  <2> QED BY <1>14, <2>1 DEF PanelStages, Typed, Members, Repository, Contained, Cached, registered
<1>15. CASE PanelCommits
  <2>1. Repository' /\ index' \in Snapshots
    BY <1>15, StagedTyped, CommittingTyped DEF PanelCommits, Typed, Contained
  <2> QED BY <1>15, <2>1 DEF PanelCommits, Typed, Members, Contained, Cached, registered
<1>16. CASE PanelDiscards
  <2>1. \A p \in Paths : [tree EXCEPT ![p] = index[p]] \in Snapshots
    BY NamesApart DEF Typed, Contained, Snapshots, Paths
  <2>2. tree' \in Snapshots
    BY <1>16, <2>1 DEF PanelDiscards, Typed, Contained
  <2> QED BY <1>16, <2>2 DEF PanelDiscards, Typed, Members, Repository, Contained, Cached, registered
<1>17. CASE Restart
  BY <1>17 DEF Restart, Nothing, Typed, Members, Repository, Contained, Cached, git
<1>18. CASE UNCHANGED vars
  BY <1>18 DEF vars, Typed, Members, Repository, Contained, Cached
<1> QED BY <1>1, <1>2, <1>3, <1>4, <1>5, <1>6, <1>7, <1>8, <1>9, <1>10, <1>11, <1>12, <1>13,
           <1>14, <1>15, <1>16, <1>17, <1>18
        DEF Next

(***************************************************************************)
(* Every reachable state is well typed; in particular HEAD is on a branch  *)
(* that exists, whichever cleanups were refused.                           *)
(***************************************************************************)
THEOREM WorkspacesTyped == Spec => []TypeOK
<1>1. Init => Typed /\ Registered
  BY TypedInitially, RegisteredInitially
<1>2. Typed /\ Registered /\ [Next]_vars => Typed' /\ Registered'
  BY TypedPreserved, RegisteredPreserved
<1> QED BY <1>1, <1>2, TypedImpliesTypeOK, PTL DEF Spec

(***************************************************************************)
(* Commits.  What HEAD's branch holds changes by a commit alone.           *)
(***************************************************************************)
PointersAndStaged ==
    (head' = head /\ tip'[head] # Committed /\ tree' # tree)
        => tip'[head] = [index EXCEPT ![Active] = tree'[Active]]

Chosen ==
    (head' = head /\ tip'[head] # Committed)
        => tip'[head] = tree' \/ \A p \in Releases : tip'[head][p] = index[p]

\* Deleting the branch of a workspace leaves main's tip alone, and HEAD is
\* moved to main before.
LEMMA CleanedCommitsNothing ==
    ASSUME Typed, NEW w \in Ids, Cleaned(w), head' = head
    PROVE  tip'[head] = Committed
<1>1. CASE UNCHANGED git
  BY <1>1 DEF git, Committed
<1>2. CASE head' = Main /\ tip' = Without(tip, {w})
  <2>1. head \in DOMAIN tip \ {w}
    BY <1>2, NamesApart DEF Typed, Repository
  <2> QED BY <1>2, <2>1 DEF Without, Restrict, Committed
<1> QED BY <1>1, <1>2 DEF Cleaned, CheckedOut

LEMMA BranchCommitsNothing ==
    ASSUME Typed, NEW b \in Ids \ DOMAIN tip, NEW base, BranchCreated(b, base)
    PROVE  tip'[head] = Committed
BY DEF Typed, Repository, BranchCreated, With, Committed

LEMMA ActivatesCommits ==
    ASSUME Typed, NEW p \in Releases, NEW filled, NEW after,
           Activates(p[1], p[2], filled, after)
    PROVE  PointersAndStaged /\ Chosen
<1> DEFINE active == [tree[Active] EXCEPT ![p[1]] = p[2]]
<1>1. /\ head \in DOMAIN tip
      /\ index \in Snapshots /\ tree \in Snapshots
      /\ Active \notin Releases
  BY NamesApart DEF Typed, Repository, Contained
<1>2. tip'[head] = [index EXCEPT ![Active] = active]
  BY <1>1 DEF Activates, Committing, StagedPointers, Staged
<1>3. Chosen
  BY <1>1, <1>2 DEF Chosen, Snapshots, Paths
<1>4. ASSUME tree' # tree PROVE tree'[Active] = active
  BY <1>1, <1>4 DEF Activates, Edited, Snapshots, Paths
<1> QED BY <1>2, <1>3, <1>4 DEF PointersAndStaged

LEMMA StepCommits == Typed /\ Registered /\ [Next]_vars => PointersAndStaged /\ Chosen
<1> SUFFICES ASSUME Typed, Registered, [Next]_vars, head' = head, tip'[head] # Committed
             PROVE  PointersAndStaged /\ Chosen
  BY DEF PointersAndStaged, Chosen
<1>1. head \in DOMAIN tip
  BY DEF Typed, Repository
<1>2. ASSUME NEW u \in Users, CreateWorkspace(u) PROVE FALSE
  BY <1>2, BranchCommitsNothing DEF CreateWorkspace
<1>3. ASSUME NEW u \in Users, GetCurrentWorkspace(u) PROVE FALSE
  <2>1. userWorkspace[u] \in Ids
    BY <1>3 DEF GetCurrentWorkspace, Typed, Members
  <2> QED BY <1>3, <2>1, CleanedCommitsNothing DEF GetCurrentWorkspace
<1>4. ASSUME NEW w \in Ids, NEW force \in BOOLEAN, CloseWorkspace(w, force) PROVE FALSE
  BY <1>4, CleanedCommitsNothing DEF CloseWorkspace
<1>5. ASSUME NEW w \in Ids, Commit(w) PROVE tree' = tree /\ tip'[head] = tree'
  BY <1>1, <1>5 DEF Commit, Committing, StagedAll
<1>6. ASSUME NEW w \in Ids, Discard(w) PROVE FALSE
  BY <1>6 DEF Discard, Committed
<1>7. ASSUME NEW w \in Ids, NEW p \in Releases, GetPreview(w, p) \/ CreateDocumentType(w, p)
      PROVE FALSE
  BY <1>7 DEF GetPreview, CreateDocumentType, git, Committed
<1>8. ASSUME NEW w \in Ids, NEW p \in Releases, NEW text \in Contents, WriteArtifact(w, p, text)
      PROVE FALSE
  BY <1>8 DEF WriteArtifact, Committed
<1>9. ASSUME NEW w \in Ids, NEW t \in Types, DeleteDocumentType(w, t) PROVE FALSE
  BY <1>9 DEF DeleteDocumentType, Committed
<1>10. ASSUME NEW p \in Releases, ReadRelease(p) PROVE FALSE
  BY <1>10 DEF ReadRelease, git, Committed
<1>11. ASSUME NEW p \in Releases, ActivateRelease(p) \/ Rollback(p) \/ PanelActivates(p)
       PROVE PointersAndStaged /\ Chosen
  BY <1>11, ActivatesCommits DEF ActivateRelease, Rollback, PanelActivates
<1>12. CASE PanelSwitches
  BY <1>12, BranchCommitsNothing DEF PanelSwitches, Committed
<1>13. CASE PanelCommits
  <2>1. tree' = tree /\ (tip'[head] = tree' \/ tip'[head] = index)
    BY <1>1, <1>13 DEF PanelCommits, Committing, StagedAll
  <2> QED BY <2>1 DEF PointersAndStaged, Chosen
<1>14. CASE PanelStages \/ PanelDiscards \/ Restart \/ UNCHANGED vars
  BY <1>14 DEF PanelStages, PanelDiscards, Restart, vars, git, Committed
<1>15. ASSUME NEW w \in Ids, Commit(w) PROVE PointersAndStaged /\ Chosen
  BY <1>5, <1>15 DEF PointersAndStaged, Chosen
<1> QED BY <1>2, <1>3, <1>4, <1>6, <1>7, <1>8, <1>9, <1>10, <1>11, <1>12, <1>13, <1>14, <1>15
        DEF Next

(***************************************************************************)
(* The commit of an activation or a rollback holds the pointers the tree   *)
(* has and, of all else, what was staged before: no edit that was not.     *)
(***************************************************************************)
THEOREM ReleasesTakeStaged == Spec => ReleaseTakesStaged
<1>1. Init => Typed /\ Registered
  BY TypedInitially, RegisteredInitially
<1>2. Typed /\ Registered /\ [Next]_vars => Typed' /\ Registered'
  BY TypedPreserved, RegisteredPreserved
<1>3. Typed /\ Registered /\ [Next]_vars => [PointersAndStaged]_vars
  BY StepCommits
<1> QED BY <1>1, <1>2, <1>3, PTL DEF Spec, ReleaseTakesStaged, PointersAndStaged

(***************************************************************************)
(* Every commit takes all that is in the tree or, of the release files,    *)
(* just what was staged, whether a workspace, the git panel or a release   *)
(* makes it and whoever edited the tree; no other step changes HEAD's tip. *)
(***************************************************************************)
THEOREM CommitsTakeChosen == Spec => CommitTakesChosen
<1>1. Init => Typed /\ Registered
  BY TypedInitially, RegisteredInitially
<1>2. Typed /\ Registered /\ [Next]_vars => Typed' /\ Registered'
  BY TypedPreserved, RegisteredPreserved
<1>3. Typed /\ Registered /\ [Next]_vars => [Chosen]_vars
  BY StepCommits
<1> QED BY <1>1, <1>2, <1>3, PTL DEF Spec, CommitTakesChosen, Chosen
=============================================================================

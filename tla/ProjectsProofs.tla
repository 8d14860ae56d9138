--------------------------- MODULE ProjectsProofs ---------------------------
(***************************************************************************)
(* Proofs about module Projects, for any clients, crowds, executions,       *)
(* definitions and bounds: the state is well typed, and an instance that    *)
(* differs from its source has a change in its history, however clients     *)
(* overwrite one another's workflow.  Where one client is at work (Solo),   *)
(* what it looked up still stands when it inserts: minted numbers are free, *)
(* an intake has one project, and the history tells what steps an instance  *)
(* has.                                                                     *)
(***************************************************************************)
EXTENDS Projects, SequenceTheorems, WellFoundedInduction, TLAPS

(***************************************************************************)
(* Comparing workflows                                                      *)
(***************************************************************************)

\* A workflow does not differ from itself.
LEMMA SameDoesNotDiffer ==
    ASSUME NEW f PROVE ~Differs(f, f)
BY DEF Differs, Added, Common

\* Not to differ is transitive: what is like a workflow that is like the
\* source is like the source.
LEMMA LikeOfLike ==
    ASSUME NEW f, NEW g, NEW h, ~Differs(f, g), ~Differs(g, h)
    PROVE  ~Differs(f, h)
<1>1. Range(f.steps) = Range(g.steps) /\ Range(g.steps) = Range(h.steps)
  BY DEF Differs, Added
<1>2. Kept(f.steps, Range(h.steps)) = Kept(g.steps, Range(h.steps))
  BY <1>1 DEF Differs, Common
<1>3. Kept(g.steps, Range(f.steps)) = Kept(h.steps, Range(f.steps))
  BY <1>1 DEF Differs, Common
<1>4. Common(f, h) = Common(h, f)
  BY <1>1, <1>2, <1>3 DEF Common
<1> QED BY <1>1, <1>4 DEF Differs, Added

\* The steps of a workflow are steps.
LEMMA RangeOfFlow ==
    ASSUME NEW f, IsFlow(f) PROVE Range(f.steps) \subseteq Steps
BY DEF IsFlow, Range

(***************************************************************************)
(* What is told of a replacement                                            *)
(***************************************************************************)

Explained(entries) == \E k \in DOMAIN entries : entries[k].kind \in Changes

LEMMA ToldIsEntries ==
    ASSUME NEW condition \in BOOLEAN, NEW kind \in Kinds, NEW ids \in SUBSET Steps
    PROVE  Told(condition, kind, ids) \in Seq(Entry)
<1> DEFINE e == [kind |-> kind, ids |-> ids]
<1>1. e \in Entry
  BY DEF Entry
<1> HIDE DEF e
<1>2. <<e>> \in Seq(Entry) /\ <<>> \in Seq(Entry)
  BY <1>1
<1>3. Told(condition, kind, ids) = IF condition THEN <<e>> ELSE <<>>
  BY DEF Told, e
<1>4. CASE condition
  BY <1>2, <1>3, <1>4
<1>5. CASE ~condition
  BY <1>2, <1>3, <1>5
<1> QED BY <1>4, <1>5

LEMMA DetectedIsEntries ==
    ASSUME NEW f, NEW g, IsFlow(f), IsFlow(g)
    PROVE  Detected(f, g) \in Seq(Entry)
<1>1. Added(f, g) \in SUBSET Steps /\ Added(g, f) \in SUBSET Steps
  BY RangeOfFlow DEF Added
<1> DEFINE a == Told(Added(f, g) # {}, "step_added", Added(f, g))
           b == Told(Added(g, f) # {}, "step_removed", Added(g, f))
           c == Told(Common(f, g) # Common(g, f), "step_reordered", {})
           d == Told(f.meta # g.meta, "metadata_changed", {})
           e == Told(TRUE, "updated", {})
<1>2. a \in Seq(Entry) /\ b \in Seq(Entry)
  BY <1>1, ToldIsEntries DEF Kinds
<1>3. c \in Seq(Entry) /\ d \in Seq(Entry) /\ e \in Seq(Entry)
  BY ToldIsEntries DEF Kinds
<1>4. Detected(f, g) = IF a \o b \o c \o d = <<>> THEN e ELSE a \o b \o c \o d
  BY DEF Detected
<1> HIDE DEF a, b, c, d, e
<1> QED BY <1>2, <1>3, <1>4

\* An entry told among others is there.
LEMMA ToldAmongOthers ==
    ASSUME NEW s \in Seq(Entry), NEW t \in Seq(Entry),
           Explained(s) \/ Explained(t)
    PROVE  Explained(s \o t)
<1>1. CASE Explained(s)
  <2>1. PICK k \in DOMAIN s : s[k].kind \in Changes
    BY <1>1 DEF Explained
  <2>2. k \in DOMAIN (s \o t) /\ (s \o t)[k] = s[k]
    OBVIOUS
  <2> QED BY <2>1, <2>2 DEF Explained
<1>2. CASE Explained(t)
  <2>1. PICK k \in DOMAIN t : t[k].kind \in Changes
    BY <1>2 DEF Explained
  <2>2. Len(s) + k \in DOMAIN (s \o t) /\ (s \o t)[Len(s) + k] = t[k]
    OBVIOUS
  <2> QED BY <2>1, <2>2 DEF Explained
<1> QED BY <1>1, <1>2

LEMMA ToldIsThere ==
    ASSUME NEW condition \in BOOLEAN, condition, NEW kind \in Changes, NEW ids
    PROVE  Explained(Told(condition, kind, ids))
BY DEF Told, Explained

\* Whatever _detect_changes compares shows in what it tells.
LEMMA DifferenceIsTold ==
    ASSUME NEW f, NEW g, IsFlow(f), IsFlow(g), Differs(f, g)
    PROVE  Explained(Detected(f, g))
<1>1. Added(f, g) \in SUBSET Steps /\ Added(g, f) \in SUBSET Steps
  BY RangeOfFlow DEF Added
<1> DEFINE a == Told(Added(f, g) # {}, "step_added", Added(f, g))
           b == Told(Added(g, f) # {}, "step_removed", Added(g, f))
           c == Told(Common(f, g) # Common(g, f), "step_reordered", {})
           d == Told(f.meta # g.meta, "metadata_changed", {})
<1>2. a \in Seq(Entry) /\ b \in Seq(Entry)
  BY <1>1, ToldIsEntries DEF Kinds
<1>3. c \in Seq(Entry) /\ d \in Seq(Entry)
  BY ToldIsEntries DEF Kinds
<1>4. Explained(a) \/ Explained(b) \/ Explained(c) \/ Explained(d)
  BY ToldIsThere DEF Differs, Changes
<1>5. Detected(f, g) = IF a \o b \o c \o d = <<>> THEN Told(TRUE, "updated", {})
                       ELSE a \o b \o c \o d
  BY DEF Detected
<1> HIDE DEF a, b, c, d
<1>6. Explained(a \o b) \/ Explained(c) \/ Explained(d)
  BY <1>2, <1>4, ToldAmongOthers
<1>7. Explained(a \o b \o c) \/ Explained(d)
  <2>1. a \o b \in Seq(Entry)
    BY <1>2
  <2> QED BY <1>3, <1>6, <2>1, ToldAmongOthers
<1>8. Explained(a \o b \o c \o d)
  <2>1. a \o b \o c \in Seq(Entry)
    BY <1>2, <1>3
  <2> QED BY <1>3, <1>7, <2>1, ToldAmongOthers
<1>9. a \o b \o c \o d # <<>>
  BY <1>8 DEF Explained
<1> QED BY <1>5, <1>8, <1>9

(***************************************************************************)
(* Project numbers: a set of naturals with a bound has a maximum.          *)
(***************************************************************************)
LEMMA MaxOfBounded ==
    ASSUME NEW S \in SUBSET Nat, S # {}, NEW b \in Nat, \A y \in S : y <= b
    PROVE  Max(S) \in S /\ \A y \in S : y <= Max(S)
<1> DEFINE bounds == {n \in Nat : \A y \in S : y <= n}
           less == {pair \in Nat \X Nat : pair[1] < pair[2]}
<1>1. IsWellFoundedOn(less, Nat)
  BY NatLessThanWellFounded DEF OpToRel
<1>2. PICK m \in bounds : \A n \in bounds : ~ (<<n, m>> \in less)
  <2>1. bounds \subseteq Nat /\ bounds # {}
    OBVIOUS
  <2> HIDE DEF bounds, less
  <2> QED BY <1>1, <2>1, WFMin
<1>3. m \in S
  <2>1. SUFFICES ASSUME m \notin S PROVE FALSE
    OBVIOUS
  <2>2. m \in Nat /\ \A y \in S : y \in Nat /\ y < m
    BY <1>2, <2>1
  <2>3. m - 1 \in bounds
    <3>1. PICK z \in S : TRUE
      OBVIOUS
    <3>2. m - 1 \in Nat
      BY <2>2, <3>1
    <3>3. \A y \in S : y <= m - 1
      BY <2>2
    <3> QED BY <3>2, <3>3
  <2>4. <<m - 1, m>> \in less
    BY <2>2, <2>3
  <2> QED BY <1>2, <2>3, <2>4
<1>4. \A y \in S : m >= y
  BY <1>2
<1> QED BY <1>3, <1>4 DEF Max

(***************************************************************************)
(* The invariant: beside its type, the numbers have a bound, and the row    *)
(* and every copy of a workflow in flight are accounted for by the history. *)
(***************************************************************************)
Accounted(i, f) == Differs(Sources[instances[i].source], f) => Explained(history[i])

Rows ==
    /\ projects \in Seq(Project)
    /\ \E b \in Nat : \A i \in DOMAIN projects : projects[i].number <= b
    /\ DOMAIN instances \subseteq DOMAIN projects /\ DOMAIN history = DOMAIN instances
    /\ \A i \in DOMAIN instances :
          /\ DOMAIN instances[i] = {"source", "flow", "status"}
          /\ instances[i].source \in DOMAIN Sources /\ IsFlow(instances[i].flow)
          /\ instances[i].status \in InstanceStatuses
          /\ history[i] \in Seq(Entry)
          /\ Accounted(i, instances[i].flow)

Fits(r) ==
    \/ r \in Requests
    \/ IsReplace(r) /\ Accounted(r.project, r.copy)

IInv ==
    /\ crowd \in Crowds /\ gone \subseteq DOMAIN Sources
    /\ ended \in [Executions -> Endings \cup {Nothing}]
    /\ Rows
    /\ DOMAIN req = Clients
    /\ \A c \in Clients : Fits(req[c])

LEMMA InvTyped == IInv => TypeOK
BY DEF IInv, Rows, Fits, TypeOK

\* What a row accounts for, a later one that kept the source and what was told
\* accounts for.
Keeps ==
    /\ DOMAIN projects \subseteq DOMAIN projects'
    /\ DOMAIN instances \subseteq DOMAIN instances'
    /\ \A i \in DOMAIN instances :
          /\ instances'[i].source = instances[i].source
          /\ Explained(history[i]) => Explained(history'[i])

LEMMA RequestsKept ==
    ASSUME NEW r, Fits(r), Keeps PROVE Fits(r)'
<1>1. CASE r \in Requests
  <2>1. r \in Requests'
    BY <1>1 DEF Requests, Keeps
  <2> QED BY <2>1 DEF Fits
<1>2. CASE IsReplace(r) /\ Accounted(r.project, r.copy)
  <2>1. IsReplace(r)' /\ r.project \in DOMAIN instances
    BY <1>2 DEF IsReplace, Keeps
  <2>2. Accounted(r.project, r.copy)'
    BY <1>2, <2>1 DEF Accounted, Keeps
  <2> QED BY <2>1, <2>2 DEF Fits
<1> QED BY <1>1, <1>2 DEF Fits

\* A step of a client that leaves the rows sound and its own request fitting.
LEMMA StepOfClient ==
    ASSUME IInv, NEW c \in Clients, NEW r, Fits(r)', req' = [req EXCEPT ![c] = r],
           Rows', Keeps, UNCHANGED <<crowd, ended, gone>>
    PROVE  IInv'
<1>1. ASSUME NEW d \in Clients PROVE Fits(req[d])'
  <2>1. CASE d = c
    BY <2>1 DEF IInv
  <2>2. CASE d # c
    <3>1. req'[d] = req[d] /\ Fits(req[d])
      BY <2>2 DEF IInv
    <3>2. PICK r0 : r0 = req[d]
      OBVIOUS
    <3>3. Fits(r0)'
      BY <3>1, <3>2, RequestsKept
    <3> QED BY <3>1, <3>2, <3>3
  <2> QED BY <2>1, <2>2
<1> QED BY <1>1 DEF IInv

\* The same of a step that only reads.
LEMMA RequestStep ==
    ASSUME IInv, NEW c \in Clients, NEW r, Fits(r), req' = [req EXCEPT ![c] = r],
           UNCHANGED <<crowd, ended, rows, gone>>
    PROVE  IInv'
<1>1. Rows' /\ Keeps
  BY DEF IInv, Rows, rows, Keeps, Accounted
<1>2. Fits(r)'
  BY RequestsKept, <1>1
<1> QED BY <1>1, <1>2, StepOfClient

LEMMA IdleFits == Fits(Idle)
BY DEF Fits, Requests

(***************************************************************************)
(* The steps                                                                *)
(***************************************************************************)

LEMMA InitHolds == Init => IInv
<1> SUFFICES ASSUME Init PROVE IInv
  OBVIOUS
<1>1. Rows
  BY ProjectsAssumption DEF Init, Rows
<1>2. \A c \in Clients : Fits(req[c])
  BY IdleFits DEF Init
<1> QED BY <1>1, <1>2 DEF Init, IInv

\* The client's intentions are taken from the projects and instances there are.
LEMMA LooksKeepInv ==
    ASSUME IInv, NEW c \in Clients,
           Creates(c) \/ Posts(c) \/ Asks(c) \/ Reconnects(c) \/ HideLoads(c)
           \/ AssignLooks(c) \/ CompleteLoads(c)
    PROVE  IInv'
<1>1. CASE Creates(c) \/ Posts(c) \/ Asks(c) \/ Reconnects(c)
  <2>1. PICK p \in Initials, x \in Executions \cup {Nothing},
             w \in DOMAIN Sources \cup {Nothing} :
          /\ req' = [req EXCEPT ![c] = Making(p, x, w)]
          /\ UNCHANGED <<crowd, ended, rows, gone>>
    BY <1>1, ProjectsAssumption DEF Creates, Posts, Asks, Reconnects, Begins
  <2>2. Fits(Making(p, x, w))
    BY DEF Fits, Requests, Making
  <2> QED BY <2>1, <2>2, RequestStep
<1>2. CASE HideLoads(c)
  <2>1. PICK i \in Live, op \in {"archive", "unarchive", "delete"} :
          /\ req' = [req EXCEPT ![c] = [op |-> op, project |-> i]]
          /\ UNCHANGED <<crowd, ended, rows, gone>>
    BY <1>2 DEF HideLoads, Begins
  <2>2. Fits([op |-> op, project |-> i])
    BY DEF Fits, Requests, Live
  <2> QED BY <2>1, <2>2, RequestStep
<1>3. CASE AssignLooks(c)
  <2>1. PICK i \in Live, w \in DOMAIN Sources \ gone :
          /\ req' = [req EXCEPT ![c] = [op |-> "assign", project |-> i, source |-> w]]
          /\ UNCHANGED <<crowd, ended, rows, gone>>
    BY <1>3 DEF AssignLooks, Begins
  <2>2. Fits([op |-> "assign", project |-> i, source |-> w])
    BY DEF Fits, Requests, Live
  <2> QED BY <2>1, <2>2, RequestStep
<1>4. CASE CompleteLoads(c)
  <2>1. PICK i \in Live :
          /\ req' = [req EXCEPT ![c] = [op |-> "complete", project |-> i]]
          /\ UNCHANGED <<crowd, ended, rows, gone>>
    BY <1>4 DEF CompleteLoads, Begins
  <2>2. Fits([op |-> "complete", project |-> i])
    BY DEF Fits, Requests, Live
  <2> QED BY <2>1, <2>2, RequestStep
<1> QED BY <1>1, <1>2, <1>3, <1>4

\* A client that replaces carries a copy of the row, for which the history
\* accounts.
LEMMA ReplaceLoadsKeepsInv ==
    ASSUME IInv, NEW c \in Clients, ReplaceLoads(c) PROVE IInv'
<1>1. PICK i \in Live, f \in Flows :
        /\ Recordable(i)
        /\ req' = [req EXCEPT ![c] = [op |-> "replace", project |-> i,
                                      copy |-> instances[i].flow, flow |-> f]]
        /\ UNCHANGED <<crowd, ended, rows, gone>>
  BY DEF ReplaceLoads, Begins
<1>2. PICK r : r = [op |-> "replace", project |-> i, copy |-> instances[i].flow,
                    flow |-> f]
  OBVIOUS
<1>3. Fits(r)
  BY <1>1, <1>2, ProjectsAssumption
     DEF Fits, IsReplace, IInv, Rows, Recordable, HasInstance
<1>4. req' = [req EXCEPT ![c] = r]
  BY <1>1, <1>2
<1> QED BY <1>1, <1>3, <1>4, RequestStep

LEMMA NextNumberIsNat ==
    ASSUME Rows, NEW prefix PROVE NextNumber(prefix) \in Nat
<1>1. PICK b \in Nat : \A i \in DOMAIN projects : projects[i].number <= b
  BY DEF Rows
<1>2. \A i \in DOMAIN projects : projects[i].number \in Nat
  <2>1. \A i \in DOMAIN projects : projects[i] \in Project
    BY DEF Rows
  <2> QED BY <2>1 DEF Project
<1>3. Numbers(prefix) \in SUBSET Nat /\ \A n \in Numbers(prefix) : n <= b
  BY <1>1, <1>2 DEF Numbers
<1> DEFINE S == {0} \cup Numbers(prefix)
<1>4. S \in SUBSET Nat /\ S # {} /\ \A n \in S : n <= b
  BY <1>3
<1> HIDE DEF S
<1>5. Max(S) \in Nat
  BY <1>4, MaxOfBounded
<1> QED BY <1>5 DEF NextNumber, S

LEMMA MintsKeepsInv ==
    ASSUME IInv, NEW c \in Clients, Mints(c) PROVE IInv'
<1>1. PICK r : r = [req[c] EXCEPT !.number = NextNumber(req[c].prefix)]
  OBVIOUS
<1>2. req[c] \in Requests /\ req[c].op = "make"
  BY DEF IInv, Fits, IsReplace, Mints
<1>3. NextNumber(req[c].prefix) \in Nat
  BY NextNumberIsNat DEF IInv
<1>4. Fits(r)
  BY <1>1, <1>2, <1>3 DEF Fits, Requests, Idle
<1>5. req' = [req EXCEPT ![c] = r]
  BY <1>1 DEF Mints, Continues
<1> QED BY <1>4, <1>5, RequestStep DEF Mints

LEMMA LeavesKeepInv ==
    ASSUME IInv, NEW c \in Clients, MakeRefused(c) \/ HandLooks(c)
    PROVE  IInv'
<1>1. CASE req' = [req EXCEPT ![c] = Idle]
  BY <1>1, IdleFits, RequestStep DEF MakeRefused, HandLooks
<1>2. CASE HandLooks(c) /\ req' = [req EXCEPT ![c] = [req[c] EXCEPT !.op = "assign"]]
  <2>1. PICK r : r = [req[c] EXCEPT !.op = "assign"]
    OBVIOUS
  <2>2. req[c] \in Requests /\ req[c].op = "hand"
    BY <1>2 DEF IInv, Fits, IsReplace, HandLooks
  <2>3. Fits(r)
    BY <2>1, <2>2 DEF Fits, Requests, Idle
  <2> QED BY <1>2, <2>1, <2>3, RequestStep DEF HandLooks
<1> QED BY <1>1, <1>2 DEF MakeRefused, HandLooks, Ends, Continues

\* Projects are only appended, below a new bound.
LEMMA MakesKeepsInv ==
    ASSUME IInv, NEW c \in Clients, Makes(c) PROVE IInv'
<1>1. req[c] \in Requests /\ req[c].op = "make"
  BY DEF IInv, Fits, IsReplace, Makes
<1>2. /\ req[c].prefix \in Initials /\ req[c].number \in Nat
      /\ req[c].execution \in Executions \cup {Nothing}
      /\ req[c].source \in DOMAIN Sources \cup {Nothing}
  BY <1>1 DEF Requests, Idle
<1>3. PICK p : p = [prefix |-> req[c].prefix, number |-> req[c].number,
                    execution |-> req[c].execution, archived |-> FALSE, deleted |-> FALSE]
  OBVIOUS
<1>4. p \in Project
  BY <1>2, <1>3 DEF Project
<1>5. projects \in Seq(Project) /\ projects' = Append(projects, p)
  BY <1>3 DEF Makes, IInv, Rows
<1>6. /\ projects' \in Seq(Project) /\ DOMAIN projects \subseteq DOMAIN projects'
      /\ Len(projects) + 1 \in DOMAIN projects'
      /\ \A i \in DOMAIN projects' : projects'[i] = p \/ i \in DOMAIN projects
      /\ \A i \in DOMAIN projects : projects'[i] = projects[i]
  BY <1>4, <1>5
<1>7. \E b \in Nat : \A i \in DOMAIN projects' : projects'[i].number <= b
  <2>1. PICK b \in Nat : \A i \in DOMAIN projects : projects[i].number <= b
    BY DEF IInv, Rows
  <2>2. PICK n \in Nat : n = p.number
    BY <1>2, <1>3
  <2>3. \A i \in DOMAIN projects' : projects'[i].number <= b + n
    <3> TAKE i \in DOMAIN projects'
    <3>1. CASE projects'[i] = p
      BY <2>2, <3>1
    <3>2. CASE i \in DOMAIN projects
      <4>1. projects[i] \in Project
        BY <1>5, <3>2
      <4>2. projects[i].number \in Nat
        BY <4>1 DEF Project
      <4> QED BY <1>6, <2>1, <3>2, <4>2
    <3> QED BY <1>6, <3>1, <3>2
  <2>4. b + n \in Nat
    OBVIOUS
  <2> QED BY <2>3, <2>4
<1>8. Rows' /\ Keeps
  BY <1>6, <1>7 DEF IInv, Rows, Keeps, Makes, Accounted
<1>9. CASE req' = [req EXCEPT ![c] = Idle]
  <2>1. Fits(Idle)'
    BY DEF Fits, Requests
  <2> QED BY <1>8, <1>9, <2>1, StepOfClient DEF Makes
<1>10. CASE req[c].source # Nothing
  <2>1. PICK r : r = [op |-> "hand", project |-> Len(projects) + 1,
                      source |-> req[c].source]
    OBVIOUS
  <2>2. Fits(r)'
    BY <1>2, <1>6, <1>10, <2>1 DEF Fits, Requests
  <2>3. req' = [req EXCEPT ![c] = r]
    BY <1>10, <2>1 DEF Makes, Continues
  <2> QED BY <1>8, <2>2, <2>3, StepOfClient DEF Makes
<1> QED BY <1>9, <1>10 DEF Makes, Ends, Continues

LEMMA HideSavesKeepsInv ==
    ASSUME IInv, NEW c \in Clients, HideSaves(c) PROVE IInv'
<1>1. req[c] \in Requests /\ req[c].op \in {"archive", "unarchive", "delete"}
  BY DEF IInv, Fits, IsReplace, HideSaves
<1>2. PICK k \in DOMAIN projects : k = req[c].project
  BY <1>1 DEF Requests, Idle
<1>3. projects \in Seq(Project)
  BY DEF IInv, Rows
<1>4. \/ \E a \in BOOLEAN : projects' = [projects EXCEPT ![k].archived = a]
      \/ projects' = [projects EXCEPT ![k].deleted = TRUE]
  BY <1>2 DEF HideSaves
<1>5. PICK p \in Project : projects' = [projects EXCEPT ![k] = p]
                           /\ p.number = projects[k].number
  <2>1. projects[k] \in Project
    BY <1>3
  <2>2. ASSUME NEW a \in BOOLEAN
        PROVE  /\ [projects[k] EXCEPT !.archived = a] \in Project
               /\ [projects[k] EXCEPT !.deleted = a] \in Project
    BY <2>1 DEF Project
  <2> QED BY <1>4, <2>1, <2>2 DEF Project
<1>6. projects' \in Seq(Project) /\ DOMAIN projects' = DOMAIN projects
  BY <1>3, <1>5
<1>7. \A i \in DOMAIN projects : projects'[i].number = projects[i].number
  BY <1>3, <1>5
<1>8. Rows' /\ Keeps
  BY <1>6, <1>7 DEF IInv, Rows, Keeps, HideSaves, Accounted
<1>9. Fits(Idle)'
  BY DEF Fits, Requests
<1> QED BY <1>8, <1>9, StepOfClient DEF HideSaves, Ends, Continues

\* An instance begins as its source, so there is nothing to explain.
LEMMA AssignInsertsKeepsInv ==
    ASSUME IInv, NEW c \in Clients, AssignInserts(c) PROVE IInv'
<1>1. req[c] \in Requests /\ req[c].op = "assign"
  BY DEF IInv, Fits, IsReplace, AssignInserts
<1>2. req[c].project \in DOMAIN projects /\ req[c].source \in DOMAIN Sources
  BY <1>1 DEF Requests, Idle
<1>3. Fits(Idle)'
  BY DEF Fits, Requests
<1>4. CASE HasInstance(req[c].project)
  BY <1>4, IdleFits, RequestStep DEF AssignInserts, Ends, Continues, rows
<1>5. CASE ~HasInstance(req[c].project)
  <2>1. PICK k, w : k = req[c].project /\ w = req[c].source
    OBVIOUS
  <2>2. PICK new : new = [source |-> w, flow |-> Sources[w], status |-> "active"]
    OBVIOUS
  <2>3. PICK told : told = <<[kind |-> "created", ids |-> Range(Sources[w].steps)]>>
    OBVIOUS
  <2>4. instances' = Extended(instances, k, new) /\ history' = Extended(history, k, told)
    BY <1>5, <2>1, <2>2, <2>3 DEF AssignInserts
  <2>5. IsFlow(Sources[w])
    BY <1>2, <2>1, ProjectsAssumption
  <2>6. told \in Seq(Entry)
    <3>1. [kind |-> "created", ids |-> Range(Sources[w].steps)] \in Entry
      BY <2>5, RangeOfFlow DEF Entry, Kinds
    <3> QED BY <2>3, <3>1
  <2>7. /\ DOMAIN instances' = DOMAIN instances \cup {k}
        /\ DOMAIN history' = DOMAIN instances \cup {k}
        /\ \A i \in DOMAIN instances : /\ instances'[i] = instances[i]
                                       /\ history'[i] = history[i]
        /\ instances'[k] = new /\ history'[k] = told
    BY <1>5, <2>1, <2>4 DEF Extended, HasInstance, IInv, Rows
  <2>8. Keeps
    BY <2>7 DEF Keeps, AssignInserts
  <2>9. ASSUME NEW i \in DOMAIN instances'
        PROVE  /\ DOMAIN instances'[i] = {"source", "flow", "status"}
               /\ instances'[i].source \in DOMAIN Sources /\ IsFlow(instances'[i].flow)
               /\ instances'[i].status \in InstanceStatuses
               /\ history'[i] \in Seq(Entry)
               /\ Accounted(i, instances[i].flow)'
    <3>1. CASE i \in DOMAIN instances
      BY <2>7, <3>1 DEF IInv, Rows, Accounted
    <3>2. CASE i = k
      BY <1>2, <2>1, <2>2, <2>5, <2>6, <2>7, <3>2, SameDoesNotDiffer
         DEF Accounted, InstanceStatuses
    <3> QED BY <2>7, <3>1, <3>2
  <2>10. Rows'
    BY <1>2, <2>1, <2>7, <2>9 DEF IInv, Rows, AssignInserts
  <2> QED BY <1>3, <2>8, <2>10, StepOfClient DEF AssignInserts, Ends, Continues
<1> QED BY <1>4, <1>5

\* A row whose workflow is replaced, or kept, and whose history grows.
LEMMA TellingStep ==
    ASSUME IInv, NEW c \in Clients, NEW k \in DOMAIN instances, NEW f, IsFlow(f),
           NEW s \in InstanceStatuses, NEW told \in Seq(Entry),
           instances' = [instances EXCEPT ![k].flow = f, ![k].status = s],
           history' = [history EXCEPT ![k] = @ \o told],
           Differs(Sources[instances[k].source], f) => Explained(history[k] \o told),
           req' = [req EXCEPT ![c] = Idle], UNCHANGED <<crowd, ended, projects, gone>>
    PROVE  IInv'
<1>1. Fits(Idle)'
  BY DEF Fits, Requests
<1>2. history[k] \in Seq(Entry) /\ k \in DOMAIN history
  BY DEF IInv, Rows
<1>3. Explained(history[k]) => Explained(history[k] \o told)
  BY <1>2, ToldAmongOthers
<1>4. /\ DOMAIN instances' = DOMAIN instances /\ DOMAIN history' = DOMAIN history
      /\ \A i \in DOMAIN instances \ {k} : /\ instances'[i] = instances[i]
                                           /\ history'[i] = history[i]
      /\ instances'[k].source = instances[k].source
      /\ DOMAIN instances'[k] = {"source", "flow", "status"}
      /\ instances'[k].flow = f /\ instances'[k].status = s
      /\ history'[k] = history[k] \o told
  BY <1>2 DEF IInv, Rows
<1>5. Keeps
  BY <1>3, <1>4 DEF Keeps
<1>6. ASSUME NEW i \in DOMAIN instances'
      PROVE  /\ DOMAIN instances'[i] = {"source", "flow", "status"}
             /\ instances'[i].source \in DOMAIN Sources /\ IsFlow(instances'[i].flow)
             /\ instances'[i].status \in InstanceStatuses
             /\ history'[i] \in Seq(Entry)
             /\ Accounted(i, instances[i].flow)'
  <2>1. CASE i # k
    BY <1>4, <2>1 DEF IInv, Rows, Accounted
  <2>2. CASE i = k
    BY <1>2, <1>4, <2>2 DEF IInv, Rows, Accounted
  <2> QED BY <2>1, <2>2
<1>7. Rows'
  BY <1>4, <1>6 DEF IInv, Rows
<1> QED BY <1>1, <1>5, <1>7, StepOfClient

\* What changed is told against the copy.  If the new workflow differs from the
\* copy that is told; if it does not, then it differs from the source only if
\* the copy does, for which the history accounts already.
LEMMA ReplaceSavesKeepsInv ==
    ASSUME IInv, NEW c \in Clients, ReplaceSaves(c) PROVE IInv'
<1>1. IsReplace(req[c]) /\ Accounted(req[c].project, req[c].copy)
  <2>1. req[c] \notin Requests
    BY DEF ReplaceSaves, Requests, Idle
  <2> QED BY <2>1 DEF IInv, Fits
<1>2. PICK k \in DOMAIN instances : k = req[c].project
  BY <1>1 DEF IsReplace
<1>3. PICK copy, flow : copy = req[c].copy /\ flow = req[c].flow
  OBVIOUS
<1>4. IsFlow(copy) /\ IsFlow(flow) /\ Accounted(k, copy)
  BY <1>1, <1>2, <1>3 DEF IsReplace
<1>5. PICK told : told = Detected(copy, flow)
  OBVIOUS
<1>6. told \in Seq(Entry) /\ history[k] \in Seq(Entry)
  BY <1>4, <1>5, DetectedIsEntries DEF IInv, Rows
<1>7. /\ DOMAIN instances[k] = {"source", "flow", "status"}
      /\ IsFlow(instances[k].flow) /\ instances[k].status \in InstanceStatuses
      /\ Accounted(k, instances[k].flow)
  BY DEF IInv, Rows
<1>8. history' = [history EXCEPT ![k] = @ \o told]
  BY <1>2, <1>3, <1>5 DEF ReplaceSaves, Records
<1>9. CASE flow = copy
  <2>1. instances' = instances
    BY <1>3, <1>9 DEF ReplaceSaves
  <2>2. Differs(Sources[instances[k].source], instances[k].flow)
          => Explained(history[k] \o told)
    BY <1>6, <1>7, ToldAmongOthers DEF Accounted
  <2>3. Keeps
    BY <1>6, <1>8, <2>1, ToldAmongOthers DEF Keeps, ReplaceSaves, IInv, Rows
  <2>4. \A i \in DOMAIN instances : history'[i] \in Seq(Entry)
    BY <1>6, <1>8 DEF IInv, Rows
  <2>5. Rows'
    BY <1>8, <2>1, <2>3, <2>4 DEF IInv, Rows, ReplaceSaves, Accounted, Keeps
  <2>6. Fits(Idle)'
    BY DEF Fits, Requests
  <2> QED BY <2>3, <2>5, <2>6, StepOfClient DEF ReplaceSaves, Ends, Continues
<1>10. CASE flow # copy
  <2>0. PICK s \in InstanceStatuses : s = instances[k].status
    BY <1>7
  <2>1. instances' = [instances EXCEPT ![k].flow = flow, ![k].status = s]
    <3>1. instances' = [instances EXCEPT ![k].flow = flow]
      BY <1>2, <1>3, <1>10 DEF ReplaceSaves
    <3> QED BY <1>7, <2>0, <3>1
  <2>2. Differs(Sources[instances[k].source], flow) => Explained(history[k] \o told)
    <3>1. CASE Differs(copy, flow)
      BY <1>4, <1>5, <1>6, <3>1, DifferenceIsTold, ToldAmongOthers
    <3>2. CASE ~Differs(copy, flow)
      <4>1. Differs(Sources[instances[k].source], flow)
              => Differs(Sources[instances[k].source], copy)
        BY <3>2, LikeOfLike
      <4> QED BY <1>4, <1>6, <4>1, ToldAmongOthers DEF Accounted
    <3> QED BY <3>1, <3>2
  <2>3. req' = [req EXCEPT ![c] = Idle] /\ UNCHANGED <<crowd, ended, projects, gone>>
    BY DEF ReplaceSaves, Ends, Continues
  <2> QED BY <1>4, <1>6, <1>8, <2>1, <2>2, <2>3, TellingStep
<1> QED BY <1>9, <1>10

LEMMA CompleteSavesKeepsInv ==
    ASSUME IInv, NEW c \in Clients, CompleteSaves(c) PROVE IInv'
<1>1. req[c] \in Requests /\ req[c].op = "complete"
  BY DEF IInv, Fits, IsReplace, CompleteSaves
<1>2. PICK k : k = req[c].project
  OBVIOUS
<1>3. PICK told : told = Told(TRUE, "status_changed", {})
  OBVIOUS
<1>4. told \in Seq(Entry)
  BY <1>3, ToldIsEntries DEF Kinds
<1>5. instances' = [instances EXCEPT ![k].status = "completed"]
  BY <1>2 DEF CompleteSaves
<1>6. history' = [history EXCEPT ![k] = @ \o told]
  BY <1>2, <1>3 DEF CompleteSaves, Records
<1>7. CASE k \in DOMAIN instances
  <2>1. /\ DOMAIN instances[k] = {"source", "flow", "status"}
        /\ IsFlow(instances[k].flow) /\ history[k] \in Seq(Entry)
        /\ Accounted(k, instances[k].flow)
    BY <1>7 DEF IInv, Rows
  <2>2. instances' = [instances EXCEPT ![k].flow = instances[k].flow,
                                       ![k].status = "completed"]
    BY <1>5, <1>7, <2>1
  <2>3. Differs(Sources[instances[k].source], instances[k].flow)
          => Explained(history[k] \o told)
    BY <1>4, <2>1, ToldAmongOthers DEF Accounted
  <2> QED BY <1>4, <1>6, <1>7, <2>1, <2>2, <2>3, TellingStep
          DEF CompleteSaves, Ends, Continues, InstanceStatuses
<1>8. CASE k \notin DOMAIN instances
  <2>1. Rows' /\ Keeps
    BY <1>5, <1>6, <1>8 DEF IInv, Rows, Keeps, CompleteSaves, Accounted
  <2>2. Fits(Idle)'
    BY DEF Fits, Requests
  <2> QED BY <2>1, <2>2, StepOfClient DEF CompleteSaves, Ends, Continues
<1> QED BY <1>7, <1>8

\* Intakes end and definitions are withdrawn outside of the requests.
LEMMA OutsideKeepsInv ==
    ASSUME IInv,
           (\E x \in Executions : IntakeEnds(x))
           \/ (\E w \in DOMAIN Sources : Withdraws(w))
           \/ UNCHANGED vars
    PROVE  IInv'
<1>1. UNCHANGED <<crowd, rows, req>>
  BY DEF IntakeEnds, Withdraws, vars, rows
<1>2. Rows' /\ Keeps
  BY <1>1 DEF IInv, Rows, rows, Keeps, Accounted
<1>3. \A c \in Clients : Fits(req[c])'
  BY <1>1 DEF IInv, Fits, IsReplace, Requests, Accounted, rows
<1>4. ended' \in [Executions -> Endings \cup {Nothing}] /\ gone' \subseteq DOMAIN Sources
  BY DEF IInv, IntakeEnds, Withdraws, vars
<1> QED BY <1>1, <1>2, <1>3, <1>4 DEF IInv

LEMMA NextKeepsInv == IInv /\ [Next]_vars => IInv'
<1> SUFFICES ASSUME IInv, [Next]_vars PROVE IInv'
  OBVIOUS
<1>1. CASE \E c \in Clients :
             \/ Creates(c) \/ Posts(c) \/ Asks(c) \/ Reconnects(c) \/ HideLoads(c)
             \/ AssignLooks(c) \/ CompleteLoads(c)
  BY <1>1, LooksKeepInv
<1>2. CASE \E c \in Clients : Mints(c) \/ MakeRefused(c) \/ Makes(c) \/ HandLooks(c)
  BY <1>2, MintsKeepsInv, LeavesKeepInv, MakesKeepsInv
<1>3. CASE \E c \in Clients : HideSaves(c) \/ AssignInserts(c)
  BY <1>3, HideSavesKeepsInv, AssignInsertsKeepsInv
<1>4. CASE \E c \in Clients : ReplaceLoads(c) \/ ReplaceSaves(c) \/ CompleteSaves(c)
  BY <1>4, ReplaceLoadsKeepsInv, ReplaceSavesKeepsInv, CompleteSavesKeepsInv
<1>5. CASE (\E x \in Executions : IntakeEnds(x))
           \/ (\E w \in DOMAIN Sources : Withdraws(w)) \/ UNCHANGED vars
  BY <1>5, OutsideKeepsInv
<1> QED BY <1>1, <1>2, <1>3, <1>4, <1>5 DEF Next

LEMMA InvHolds == Spec => []IInv
BY InitHolds, NextKeepsInv, PTL DEF Spec

\* The projects, instances, histories and requests are always of their kinds,
\* whoever asks for what at once (projects.py, workflow_instance_service.py).
THEOREM ProjectsTyped == Spec => []TypeOK
BY InvHolds, InvTyped, PTL

\* An instance that differs from its source always has a change in its history,
\* for any number of clients and any workflows: the changes are told against
\* copies that may be stale, yet no way back to a difference goes untold
\* (update_instance, workflow_instance_service.py).
THEOREM DriftAlwaysExplained == Spec => []DriftIsExplained
<1>1. IInv => DriftIsExplained
  BY DEF IInv, Rows, DriftIsExplained, Drifted, Accounted, Explained
<1> QED BY <1>1, InvHolds, PTL

-----------------------------------------------------------------------------
(***************************************************************************)
(* One client at a time.  Between the look and the commit of a client that  *)
(* is alone nobody makes a project, so its number stays free and the intake *)
(* it looked for stays without one.                                         *)
(***************************************************************************)
Sole(c) == \A d \in Clients \ {c} : crowd[d] = {}

OneEach ==
    \A i, j \in DOMAIN projects :
        projects[i].execution = projects[j].execution =>
            i = j \/ projects[i].execution = Nothing

NumberFree(r) == r.op = "make" /\ r.number # 0 => r.number \notin Numbers(r.prefix)

Unmade(r) == r.op = "make" /\ r.execution # Nothing => MadeFor(r.execution) = {}

\* The projects there are to begin with have an intake each, or none.
SeedOneEach ==
    \A i, j \in DOMAIN Seed :
        Seed[i].execution = Seed[j].execution => i = j \/ Seed[i].execution = Nothing

\* Nobody makes an intake's project without looking for one.
AllAsk == SeedOneEach /\ \A d \in Clients : "post" \notin crowd[d]

Stands(c) ==
    /\ \A d \in Clients \ {c} : req[d] = Idle
    /\ NumberFree(req[c])
    /\ AllAsk => OneEach /\ Unmade(req[c])

Solo == \A c \in Clients : Sole(c) => Stands(c)

Acts(c) ==
    \/ Creates(c) \/ Posts(c) \/ Asks(c) \/ Reconnects(c)
    \/ Mints(c) \/ MakeRefused(c) \/ Makes(c)
    \/ HideLoads(c) \/ HideSaves(c)
    \/ AssignLooks(c) \/ HandLooks(c) \/ AssignInserts(c)
    \/ ReplaceLoads(c) \/ ReplaceSaves(c)
    \/ CompleteLoads(c) \/ CompleteSaves(c)

LEMMA CrowdStays ==
    ASSUME [Next]_vars
    PROVE  UNCHANGED crowd
<1>1. CASE UNCHANGED vars
  BY <1>1 DEF vars
<1>2. CASE \E c \in Clients : Acts(c)
  BY <1>2 DEF Acts, Creates, Posts, Asks, Reconnects, Mints, MakeRefused, Makes, HideLoads,
       HideSaves, AssignLooks, HandLooks, AssignInserts, ReplaceLoads, ReplaceSaves,
       CompleteLoads, CompleteSaves
<1>3. CASE (\E x \in Executions : IntakeEnds(x)) \/ (\E w \in DOMAIN Sources : Withdraws(w))
  BY <1>3 DEF IntakeEnds, Withdraws
<1> QED BY <1>1, <1>2, <1>3 DEF Next, Acts

\* A client without operations that has no request in flight does nothing.
LEMMA OnlyTheSoleActs ==
    ASSUME NEW c \in Clients, Sole(c), Stands(c), NEW d \in Clients, Acts(d)
    PROVE  d = c
<1> SUFFICES ASSUME d # c PROVE FALSE
  OBVIOUS
<1>1. crowd[d] = {} /\ req[d].op = "idle"
  BY DEF Sole, Stands, Idle
<1>2. ~ (Creates(d) \/ Posts(d) \/ Asks(d) \/ Reconnects(d) \/ HideLoads(d) \/ AssignLooks(d)
         \/ ReplaceLoads(d) \/ CompleteLoads(d))
  BY <1>1 DEF Creates, Posts, Asks, Reconnects, HideLoads, AssignLooks, ReplaceLoads,
              CompleteLoads
<1>3. ~ (Mints(d) \/ MakeRefused(d) \/ Makes(d) \/ HideSaves(d) \/ HandLooks(d)
         \/ AssignInserts(d) \/ ReplaceSaves(d) \/ CompleteSaves(d))
  BY <1>1 DEF Mints, MakeRefused, Makes, HideSaves, HandLooks, AssignInserts, ReplaceSaves,
              CompleteSaves
<1> QED BY <1>2, <1>3 DEF Acts

\* A step that leaves the projects' names and intakes as they are, and the
\* client with a request that stands.
LEMMA StandsAfter ==
    ASSUME IInv, NEW c \in Clients, Stands(c), NEW r, req' = [req EXCEPT ![c] = r],
           NumberFree(r),
           AllAsk => Unmade(r),
           DOMAIN projects' = DOMAIN projects,
           \A i \in DOMAIN projects : /\ projects'[i].prefix = projects[i].prefix
                                      /\ projects'[i].number = projects[i].number
                                      /\ projects'[i].execution = projects[i].execution,
           UNCHANGED crowd
    PROVE  Stands(c)'
<1>1. req'[c] = r /\ \A d \in Clients \ {c} : req'[d] = Idle
  BY DEF IInv, Stands
<1>2. \A prefix, x : Numbers(prefix)' = Numbers(prefix) /\ MadeFor(x)' = MadeFor(x)
  BY DEF Numbers, MadeFor
<1>3. NumberFree(req[c])'
  BY <1>1, <1>2 DEF NumberFree
<1>4. AllAsk' => OneEach' /\ Unmade(req[c])'
  BY <1>1, <1>2 DEF Stands, AllAsk, OneEach, Unmade
<1> QED BY <1>1, <1>3, <1>4 DEF Stands

LEMMA LooksStand ==
    ASSUME IInv, NEW c \in Clients, Stands(c),
           \/ Creates(c) \/ Posts(c) \/ Asks(c) \/ Reconnects(c) \/ HideLoads(c)
           \/ AssignLooks(c) \/ ReplaceLoads(c) \/ CompleteLoads(c)
    PROVE  Stands(c)'
<1>0. UNCHANGED <<crowd, projects>>
  BY DEF Creates, Posts, Asks, Reconnects, HideLoads, AssignLooks, ReplaceLoads,
         CompleteLoads, rows
<1>1. CASE Creates(c) \/ Posts(c) \/ Asks(c) \/ Reconnects(c)
  <2>1. PICK p, x, w :
          /\ req' = [req EXCEPT ![c] = Making(p, x, w)]
          /\ x = Nothing \/ "post" \in crowd[c] \/ MadeFor(x) = {}
    BY <1>1 DEF Creates, Posts, Asks, Reconnects, Begins
  <2>2. NumberFree(Making(p, x, w))
    BY DEF NumberFree, Making
  <2>3. AllAsk => Unmade(Making(p, x, w))
    BY <2>1 DEF AllAsk, Unmade, Making
  <2> QED BY <1>0, <2>1, <2>2, <2>3, StandsAfter
<1>2. CASE HideLoads(c) \/ AssignLooks(c) \/ ReplaceLoads(c) \/ CompleteLoads(c)
  <2>1. PICK r : req' = [req EXCEPT ![c] = r] /\ r.op # "make"
    <3>1. CASE HideLoads(c)
      <4>1. PICK i \in Live, op \in {"archive", "unarchive", "delete"} :
               req' = [req EXCEPT ![c] = [op |-> op, project |-> i]]
        BY <3>1, Zenon DEF HideLoads, Begins
      <4>2. [op |-> op, project |-> i].op # "make"
        OBVIOUS
      <4> QED BY <4>1, <4>2
    <3>2. CASE AssignLooks(c)
      <4>1. PICK i, w :
               req' = [req EXCEPT ![c] = [op |-> "assign", project |-> i, source |-> w]]
        BY <3>2 DEF AssignLooks, Begins
      <4>2. [op |-> "assign", project |-> i, source |-> w].op # "make"
        OBVIOUS
      <4> QED BY <4>1, <4>2
    <3>3. CASE ReplaceLoads(c)
      <4>1. PICK i, f :
               req' = [req EXCEPT ![c] = [op |-> "replace", project |-> i,
                                          copy |-> instances[i].flow, flow |-> f]]
        BY <3>3 DEF ReplaceLoads, Begins
      <4>2. [op |-> "replace", project |-> i, copy |-> instances[i].flow, flow |-> f].op
               # "make"
        OBVIOUS
      <4> QED BY <4>1, <4>2
    <3>4. CASE CompleteLoads(c)
      <4>1. PICK i : req' = [req EXCEPT ![c] = [op |-> "complete", project |-> i]]
        BY <3>4 DEF CompleteLoads, Begins
      <4>2. [op |-> "complete", project |-> i].op # "make"
        OBVIOUS
      <4> QED BY <4>1, <4>2
    <3> QED BY <1>2, <3>1, <3>2, <3>3, <3>4
  <2> QED BY <1>0, <2>1, StandsAfter DEF NumberFree, Unmade
<1> QED BY <1>1, <1>2

\* The next number is above every number of the prefix.
LEMMA NextNumberIsFree ==
    ASSUME Rows, NEW prefix PROVE NextNumber(prefix) \notin Numbers(prefix)
<1>1. PICK b \in Nat : \A i \in DOMAIN projects : projects[i].number <= b
  BY DEF Rows
<1>2. \A i \in DOMAIN projects : projects[i].number \in Nat
  <2>1. \A i \in DOMAIN projects : projects[i] \in Project
    BY DEF Rows
  <2> QED BY <2>1 DEF Project
<1>3. Numbers(prefix) \in SUBSET Nat /\ \A n \in Numbers(prefix) : n <= b
  BY <1>1, <1>2 DEF Numbers
<1> DEFINE S == {0} \cup Numbers(prefix)
<1>4. S \in SUBSET Nat /\ S # {} /\ \A n \in S : n <= b
  BY <1>3
<1>5. Numbers(prefix) \subseteq S
  OBVIOUS
<1> HIDE DEF S
<1>6. Max(S) \in Nat /\ \A n \in S : n <= Max(S)
  BY <1>4, MaxOfBounded
<1>7. NextNumber(prefix) = 1 + Max(S)
  BY DEF NextNumber, S
<1>8. ASSUME NextNumber(prefix) \in S PROVE FALSE
  BY <1>6, <1>7, <1>8
<1> QED BY <1>5, <1>8

LEMMA MintsStand ==
    ASSUME IInv, NEW c \in Clients, Stands(c), Mints(c)
    PROVE  Stands(c)'
<1>1. PICK r : r = [req[c] EXCEPT !.number = NextNumber(req[c].prefix)]
  OBVIOUS
<1>2. req[c] \in Requests /\ req[c].op = "make"
  BY DEF IInv, Fits, IsReplace, Mints
<1>3. /\ r.op = "make" /\ r.number = NextNumber(r.prefix)
      /\ r.execution = req[c].execution
  BY <1>1, <1>2 DEF Requests, Idle
<1>4. NumberFree(r)
  BY <1>3, NextNumberIsFree DEF NumberFree, IInv
<1>5. AllAsk => Unmade(r)
  BY <1>2, <1>3 DEF Stands, Unmade
<1>6. req' = [req EXCEPT ![c] = r] /\ UNCHANGED <<crowd, projects>>
  BY <1>1 DEF Mints, Continues, rows
<1> QED BY <1>4, <1>5, <1>6, StandsAfter

LEMMA MakesStand ==
    ASSUME IInv, NEW c \in Clients, Stands(c), Makes(c)
    PROVE  Stands(c)'
<1>1. PICK p : p = [prefix |-> req[c].prefix, number |-> req[c].number,
                    execution |-> req[c].execution, archived |-> FALSE, deleted |-> FALSE]
  OBVIOUS
<1>2. projects \in Seq(Project) /\ projects' = Append(projects, p)
  BY <1>1 DEF Makes, IInv, Rows
<1>3. /\ DOMAIN projects' = DOMAIN projects \cup {Len(projects) + 1}
      /\ \A i \in DOMAIN projects : projects'[i] = projects[i]
      /\ projects'[Len(projects) + 1] = p
  BY <1>2
<1>4. PICK r : req' = [req EXCEPT ![c] = r] /\ r.op # "make"
  <2> DEFINE hand == [op |-> "hand", project |-> Len(projects) + 1, source |-> req[c].source]
  <2>1. hand.op # "make" /\ Idle.op # "make"
    BY DEF Idle
  <2>2. req' = [req EXCEPT ![c] = Idle] \/ req' = [req EXCEPT ![c] = hand]
    BY DEF Makes, Ends, Continues
  <2> HIDE DEF hand
  <2> QED BY <2>1, <2>2
<1>5. req'[c] = r /\ UNCHANGED crowd /\ \A d \in Clients \ {c} : req'[d] = Idle
  BY <1>4 DEF IInv, Stands, Makes
<1>6. NumberFree(req[c])' /\ Unmade(req[c])'
  BY <1>4, <1>5 DEF NumberFree, Unmade
<1>7. ASSUME AllAsk'
      PROVE  OneEach'
  <2>1. OneEach /\ Unmade(req[c]) /\ p.execution = req[c].execution
    BY <1>1, <1>5, <1>7 DEF Stands, AllAsk
  <2>2. \A i \in DOMAIN projects :
            p.execution # Nothing => projects[i].execution # p.execution
    BY <2>1 DEF Unmade, MadeFor, Makes
  <2> QED BY <1>3, <2>1, <2>2 DEF OneEach
<1> QED BY <1>5, <1>6, <1>7 DEF Stands

LEMMA OthersStand ==
    ASSUME IInv, NEW c \in Clients, Stands(c),
           \/ MakeRefused(c) \/ HideSaves(c) \/ HandLooks(c) \/ AssignInserts(c)
           \/ ReplaceSaves(c) \/ CompleteSaves(c)
    PROVE  Stands(c)'
<1>1. PICK r : req' = [req EXCEPT ![c] = r] /\ r.op # "make"
  <2>1. CASE HandLooks(c) /\ req' = [req EXCEPT ![c] = [req[c] EXCEPT !.op = "assign"]]
    <3>1. req[c] \in Requests /\ req[c].op = "hand"
      BY <2>1 DEF IInv, Fits, IsReplace, HandLooks
    <3>2. [req[c] EXCEPT !.op = "assign"].op = "assign"
      BY <3>1 DEF Requests, Idle
    <3> QED BY <2>1, <3>2
  <2>2. CASE req' = [req EXCEPT ![c] = Idle]
    <3>1. Idle.op # "make"
      BY DEF Idle
    <3> QED BY <2>2, <3>1
  <2> QED BY <2>1, <2>2 DEF MakeRefused, HideSaves, HandLooks, AssignInserts, ReplaceSaves,
                            CompleteSaves, Ends, Continues
<1>2. NumberFree(r) /\ Unmade(r)
  BY <1>1 DEF NumberFree, Unmade
<1>3. /\ UNCHANGED crowd /\ DOMAIN projects' = DOMAIN projects
      /\ \A i \in DOMAIN projects : /\ projects'[i].prefix = projects[i].prefix
                                    /\ projects'[i].number = projects[i].number
                                    /\ projects'[i].execution = projects[i].execution
  <2>1. CASE HideSaves(c)
    <3>1. PICK k : \/ \E a \in BOOLEAN : projects' = [projects EXCEPT ![k].archived = a]
                   \/ projects' = [projects EXCEPT ![k].deleted = TRUE]
      BY <2>1 DEF HideSaves
    <3>2. projects \in Seq(Project)
      BY DEF IInv, Rows
    <3>3. \A i \in DOMAIN projects : projects[i] \in Project
      BY <3>2
    <3> QED BY <2>1, <3>1, <3>2, <3>3 DEF HideSaves, Project
  <2>2. CASE UNCHANGED <<crowd, projects>>
    BY <2>2
  <2> QED BY <2>1, <2>2 DEF MakeRefused, HandLooks, AssignInserts, ReplaceSaves,
                            CompleteSaves, rows
<1> QED BY <1>1, <1>2, <1>3, StandsAfter

LEMMA SoloKept ==
    ASSUME IInv, Solo, [Next]_vars
    PROVE  Solo'
<1> SUFFICES ASSUME NEW c \in Clients, Sole(c)' PROVE Stands(c)'
  BY DEF Solo
<1>1. Sole(c)
  BY CrowdStays DEF Sole
<1>2. Stands(c)
  BY <1>1 DEF Solo
<1>3. CASE UNCHANGED <<crowd, projects, req>>
  BY <1>2, <1>3 DEF Stands, AllAsk, NumberFree, Numbers, OneEach, Unmade, MadeFor
<1>4. CASE (\E x \in Executions : IntakeEnds(x)) \/ (\E w \in DOMAIN Sources : Withdraws(w))
           \/ UNCHANGED vars
  BY <1>3, <1>4 DEF IntakeEnds, Withdraws, rows, vars
<1>5. CASE \E d \in Clients : Acts(d)
  <2>1. Acts(c)
    BY <1>1, <1>2, <1>5, OnlyTheSoleActs
  <2>2. CASE \/ Creates(c) \/ Posts(c) \/ Asks(c) \/ Reconnects(c) \/ HideLoads(c)
             \/ AssignLooks(c) \/ ReplaceLoads(c) \/ CompleteLoads(c)
    BY <1>2, <2>2, LooksStand
  <2>3. CASE Mints(c) \/ Makes(c)
    BY <1>2, <2>3, MintsStand, MakesStand
  <2>4. CASE \/ MakeRefused(c) \/ HideSaves(c) \/ HandLooks(c) \/ AssignInserts(c)
             \/ ReplaceSaves(c) \/ CompleteSaves(c)
    BY <1>2, <2>4, OthersStand
  <2> QED BY <2>1, <2>2, <2>3, <2>4 DEF Acts
<1> QED BY <1>4, <1>5 DEF Next, Acts

LEMMA SoloHolds == Spec => [](IInv /\ Solo)
<1>1. Init => IInv /\ Solo
  <2> SUFFICES ASSUME Init, NEW c \in Clients PROVE Stands(c)
    BY InitHolds DEF Solo
  <2>1. (SeedOneEach => OneEach) /\ \A d \in Clients : req[d] = Idle
    BY DEF Init, OneEach, SeedOneEach
  <2> QED BY <2>1 DEF Stands, AllAsk, NumberFree, Unmade, Idle
<1>2. IInv /\ Solo /\ [Next]_vars => (IInv /\ Solo)'
  BY NextKeepsInv, SoloKept
<1> QED BY <1>1, <1>2, PTL DEF Spec

\* MintedIsFree: the number a client that is alone minted is not taken when it
\* commits, whatever projects were deleted or outgrew the three digits, so it
\* can always make a project (generate_unique_project_id).
THEOREM MintedStaysFree == Spec => []MintedIsFree
<1>1. Solo => MintedIsFree
  <2> SUFFICES ASSUME Solo, NEW c \in Clients, Sole(c), NEW d \in Clients,
                      req[d].op = "make", req[d].number # 0
               PROVE  req[d].number \notin Numbers(req[d].prefix)
    BY DEF MintedIsFree, Alone, Sole
  <2>1. Stands(c)
    BY DEF Solo
  <2>2. d = c
    BY <2>1 DEF Stands, Idle
  <2> QED BY <2>1, <2>2 DEF Stands, NumberFree
<1> QED BY <1>1, SoloHolds, PTL

\* OneProjectPerIntake: however a client that is alone asks, drops its stream
\* and comes back, an intake gets one project (_get_created_project,
\* intake.py), if those there are to begin with have an intake each or none.
THEOREM OneProjectEach ==
    ASSUME SeedOneEach
    PROVE  Spec => []OneProjectPerIntake
<1>1. Solo => OneProjectPerIntake
  BY DEF Solo, Sole, Stands, AllAsk, OneEach, OneProjectPerIntake, Alone
<1> QED BY <1>1, SoloHolds, PTL

-----------------------------------------------------------------------------
(***************************************************************************)
(* What the history tells.  The copy a client that is alone carries is the  *)
(* row's workflow, so the changes it tells lead from the steps there were   *)
(* to the steps there are.                                                  *)
(***************************************************************************)

Adds(e, s) == e.kind \in {"created", "step_added"} /\ s \in e.ids
Drops(e, s) == e.kind = "step_removed" /\ s \in e.ids

\* One more entry adds its steps, or takes them away, or tells of none.
LEMMA OneMoreEntry ==
    ASSUME NEW h \in Seq(Entry), NEW e \in Entry
    PROVE  StepsTold(h \o <<e>>) =
             IF e.kind \in {"created", "step_added"} THEN StepsTold(h) \cup e.ids
             ELSE IF e.kind = "step_removed" THEN StepsTold(h) \ e.ids
             ELSE StepsTold(h)
<1> DEFINE g == h \o <<e>>
           n == Len(h) + 1
<1>1. /\ DOMAIN h = 1 .. Len(h) /\ Len(h) \in Nat
      /\ DOMAIN g = 1 .. n /\ g[n] = e /\ \A k \in 1 .. Len(h) : g[k] = h[k]
  OBVIOUS
<1>2. e.ids \subseteq Steps
  BY DEF Entry
<1>3. ASSUME NEW f \in Seq(Entry), NEW s
      PROVE  s \in StepsTold(f) <=>
               /\ s \in Steps
               /\ \E k \in DOMAIN f :
                    Adds(f[k], s) /\ \A j \in DOMAIN f : j > k => ~Drops(f[j], s)
  BY DEF StepsTold, Adds, Drops
<1>4. g \in Seq(Entry)
  OBVIOUS
<1> HIDE DEF g
<1>5. ASSUME NEW s \in Steps
      PROVE  s \in StepsTold(g) <=> Adds(e, s) \/ (s \in StepsTold(h) /\ ~Drops(e, s))
  <2>1. ASSUME s \in StepsTold(g), ~Adds(e, s)
        PROVE  s \in StepsTold(h) /\ ~Drops(e, s)
    <3>1. PICK k \in DOMAIN g :
            Adds(g[k], s) /\ \A j \in DOMAIN g : j > k => ~Drops(g[j], s)
      BY <1>3, <1>4, <2>1
    <3>2. k \in 1 .. Len(h) /\ k < n
      BY <1>1, <2>1, <3>1
    <3>3. ~Drops(e, s)
      BY <1>1, <3>1, <3>2
    <3>4. Adds(h[k], s) /\ \A j \in DOMAIN h : j > k => ~Drops(h[j], s)
      BY <1>1, <3>1, <3>2
    <3> QED BY <1>1, <1>3, <3>2, <3>3, <3>4
  <2>2. ASSUME Adds(e, s)
        PROVE  s \in StepsTold(g)
    <3>1. n \in DOMAIN g /\ Adds(g[n], s) /\ \A j \in DOMAIN g : ~(j > n)
      BY <1>1, <2>2
    <3> QED BY <1>3, <1>4, <3>1
  <2>3. ASSUME s \in StepsTold(h), ~Drops(e, s)
        PROVE  s \in StepsTold(g)
    <3>1. PICK k \in DOMAIN h :
            Adds(h[k], s) /\ \A j \in DOMAIN h : j > k => ~Drops(h[j], s)
      BY <1>3, <2>3
    <3>2. k \in DOMAIN g /\ Adds(g[k], s)
      BY <1>1, <3>1
    <3>3. \A j \in DOMAIN g : j > k => ~Drops(g[j], s)
      BY <1>1, <2>3, <3>1
    <3> QED BY <1>3, <1>4, <3>2, <3>3
  <2> QED BY <2>1, <2>2, <2>3
<1>6. StepsTold(g) \subseteq Steps /\ StepsTold(h) \subseteq Steps
  BY DEF StepsTold
<1>7. CASE e.kind \in {"created", "step_added"}
  BY <1>2, <1>5, <1>6, <1>7 DEF Adds, Drops, g
<1>8. CASE e.kind \notin {"created", "step_added"}
  BY <1>2, <1>5, <1>6, <1>8 DEF Adds, Drops, g
<1> QED BY <1>7, <1>8

\* The same of an entry that is told unless it has no steps to tell of.
ToldIf(t, kind, ids) == t = <<[kind |-> kind, ids |-> ids]>> \/ (t = <<>> /\ ids = {})

LEMMA OneMoreTold ==
    ASSUME NEW h \in Seq(Entry), NEW kind \in Kinds, NEW ids \in SUBSET Steps, NEW t,
           ToldIf(t, kind, ids)
    PROVE  /\ h \o t \in Seq(Entry)
           /\ kind = "step_added" => StepsTold(h \o t) = StepsTold(h) \cup ids
           /\ kind = "step_removed" => StepsTold(h \o t) = StepsTold(h) \ ids
           /\ kind \notin {"created", "step_added", "step_removed"} =>
                 StepsTold(h \o t) = StepsTold(h)
<1>1. PICK e : e = [kind |-> kind, ids |-> ids]
  OBVIOUS
<1>2. e \in Entry /\ e.kind = kind /\ e.ids = ids
  BY <1>1 DEF Entry
<1>3. CASE t = <<e>>
  <2>1. h \o t \in Seq(Entry)
    BY <1>2, <1>3
  <2>2. StepsTold(h \o t) =
             IF e.kind \in {"created", "step_added"} THEN StepsTold(h) \cup e.ids
             ELSE IF e.kind = "step_removed" THEN StepsTold(h) \ e.ids
             ELSE StepsTold(h)
    BY <1>2, <1>3, OneMoreEntry
  <2> QED BY <1>2, <2>1, <2>2
<1>4. CASE t = <<>> /\ ids = {}
  <2>1. h \o t = h
    BY <1>4
  <2> QED BY <1>4, <2>1
<1> QED BY <1>1, <1>3, <1>4 DEF ToldIf

LEMMA EntriesJoin ==
    ASSUME NEW h \in Seq(Entry), NEW s \in Seq(Entry), NEW t \in Seq(Entry)
    PROVE  h \o (s \o t) = (h \o s) \o t
BY ConcatAssociative

\* What _detect_changes tells leads from the steps of the one to the other's.
LEMMA DetectedTells ==
    ASSUME NEW f, NEW g, IsFlow(f), IsFlow(g), NEW h \in Seq(Entry),
           StepsTold(h) = Range(f.steps)
    PROVE  StepsTold(h \o Detected(f, g)) = Range(g.steps)
<1>1. Added(f, g) \in SUBSET Steps /\ Added(g, f) \in SUBSET Steps
  BY RangeOfFlow DEF Added
<1> DEFINE a == Told(Added(f, g) # {}, "step_added", Added(f, g))
           b == Told(Added(g, f) # {}, "step_removed", Added(g, f))
           c == Told(Common(f, g) # Common(g, f), "step_reordered", {})
           d == Told(f.meta # g.meta, "metadata_changed", {})
           e == Told(TRUE, "updated", {})
<1>2. a \in Seq(Entry) /\ b \in Seq(Entry)
  BY <1>1, ToldIsEntries DEF Kinds
<1>3. c \in Seq(Entry) /\ d \in Seq(Entry) /\ e \in Seq(Entry)
  BY ToldIsEntries DEF Kinds
<1>4. /\ ToldIf(a, "step_added", Added(f, g)) /\ ToldIf(b, "step_removed", Added(g, f))
      /\ ToldIf(c, "step_reordered", {}) /\ ToldIf(d, "metadata_changed", {})
      /\ ToldIf(e, "updated", {})
  BY DEF Told, ToldIf
<1>5. Detected(f, g) = IF a \o b \o c \o d = <<>> THEN e ELSE a \o b \o c \o d
  BY DEF Detected
<1> HIDE DEF a, b, c, d, e
<1>6. h \o a \in Seq(Entry) /\ StepsTold(h \o a) = StepsTold(h) \cup Added(f, g)
  <2>1. "step_added" \in Kinds
    BY DEF Kinds
  <2> QED BY <1>1, <1>4, <2>1, OneMoreTold
<1>7. /\ (h \o a) \o b \in Seq(Entry)
      /\ StepsTold((h \o a) \o b) = StepsTold(h \o a) \ Added(g, f)
  <2>1. "step_removed" \in Kinds /\ ToldIf(b, "step_removed", Added(g, f))
    BY <1>4 DEF Kinds
  <2>2. PICK k \in Seq(Entry) : k = h \o a
    BY <1>6
  <2>3. k \o b \in Seq(Entry) /\ StepsTold(k \o b) = StepsTold(k) \ Added(g, f)
    <3>1. PICK ids \in SUBSET Steps : ids = Added(g, f)
      BY <1>1
    <3>2. ToldIf(b, "step_removed", ids)
      BY <2>1, <3>1
    <3>3. k \o b \in Seq(Entry) /\ StepsTold(k \o b) = StepsTold(k) \ ids
      BY <2>1, <3>2, OneMoreTold
    <3> QED BY <3>1, <3>3
  <2> QED BY <2>2, <2>3
<1>8. ASSUME NEW k \in Seq(Entry)
      PROVE  /\ k \o c \in Seq(Entry) /\ StepsTold(k \o c) = StepsTold(k)
             /\ StepsTold(k \o d) = StepsTold(k) /\ StepsTold(k \o e) = StepsTold(k)
  <2>1. {} \in SUBSET Steps
    OBVIOUS
  <2>2. k \o c \in Seq(Entry) /\ StepsTold(k \o c) = StepsTold(k)
    <3>1. "step_reordered" \in Kinds /\ ToldIf(c, "step_reordered", {})
      BY <1>4 DEF Kinds
    <3> QED BY <2>1, <3>1, OneMoreTold
  <2>3. StepsTold(k \o d) = StepsTold(k)
    <3>1. "metadata_changed" \in Kinds /\ ToldIf(d, "metadata_changed", {})
      BY <1>4 DEF Kinds
    <3> QED BY <2>1, <3>1, OneMoreTold
  <2>4. StepsTold(k \o e) = StepsTold(k)
    <3>1. "updated" \in Kinds /\ ToldIf(e, "updated", {})
      BY <1>4 DEF Kinds
    <3> QED BY <2>1, <3>1, OneMoreTold
  <2> QED BY <2>2, <2>3, <2>4
<1>9. StepsTold((((h \o a) \o b) \o c) \o d) = Range(g.steps)
  <2>1. StepsTold((((h \o a) \o b) \o c) \o d) = StepsTold((h \o a) \o b)
    BY <1>7, <1>8
  <2>2. (Range(f.steps) \cup Added(f, g)) \ Added(g, f) = Range(g.steps)
    BY DEF Added
  <2> QED BY <1>6, <1>7, <2>1, <2>2
<1>10. h \o (a \o b \o c \o d) = (((h \o a) \o b) \o c) \o d
  <2>1. h \o (a \o b) = (h \o a) \o b
    BY <1>2, EntriesJoin
  <2>2. a \o b \in Seq(Entry) /\ (a \o b) \o c \in Seq(Entry)
    BY <1>2, <1>3
  <2>3. h \o ((a \o b) \o c) = (h \o (a \o b)) \o c
    BY <1>3, <2>2, EntriesJoin
  <2>4. h \o (((a \o b) \o c) \o d) = (h \o ((a \o b) \o c)) \o d
    BY <1>3, <2>2, EntriesJoin
  <2> QED BY <2>1, <2>3, <2>4
<1>11. CASE a \o b \o c \o d = <<>>
  <2>1. h \o <<>> = h
    OBVIOUS
  <2> QED BY <1>5, <1>8, <1>9, <1>10, <1>11, <2>1
<1>12. CASE a \o b \o c \o d # <<>>
  BY <1>5, <1>9, <1>10, <1>12
<1> QED BY <1>11, <1>12

Tells(c) ==
    /\ \A i \in DOMAIN instances : StepsTold(history[i]) = Range(instances[i].flow.steps)
    /\ req[c].op = "replace" => req[c].copy = instances[req[c].project].flow

Telling == \A c \in Clients : Sole(c) => Tells(c)

\* A step that leaves instances and their histories alone.
LEMMA TellsAfter ==
    ASSUME IInv, NEW c \in Clients, Tells(c), NEW r, req' = [req EXCEPT ![c] = r],
           r.op = "replace" => r.copy = instances[r.project].flow,
           UNCHANGED <<instances, history>>
    PROVE  Tells(c)'
<1>1. req'[c] = r
  BY DEF IInv
<1> QED BY <1>1 DEF Tells

LEMMA LooksTell ==
    ASSUME IInv, NEW c \in Clients, Tells(c),
           \/ Creates(c) \/ Posts(c) \/ Asks(c) \/ Reconnects(c) \/ HideLoads(c)
           \/ AssignLooks(c) \/ ReplaceLoads(c) \/ CompleteLoads(c)
    PROVE  Tells(c)'
<1>0. UNCHANGED <<instances, history>>
  BY DEF Creates, Posts, Asks, Reconnects, HideLoads, AssignLooks, ReplaceLoads,
         CompleteLoads, rows
<1>1. PICK r : /\ req' = [req EXCEPT ![c] = r]
               /\ r.op = "replace" => r.copy = instances[r.project].flow
  <2>1. CASE Creates(c) \/ Posts(c) \/ Asks(c) \/ Reconnects(c)
    <3>1. PICK p, x, w : req' = [req EXCEPT ![c] = Making(p, x, w)]
      BY <2>1 DEF Creates, Posts, Asks, Reconnects, Begins
    <3>2. Making(p, x, w).op # "replace"
      BY DEF Making
    <3> QED BY <3>1, <3>2
  <2>2. CASE HideLoads(c)
    <3>1. PICK i \in Live, op \in {"archive", "unarchive", "delete"} :
             req' = [req EXCEPT ![c] = [op |-> op, project |-> i]]
      BY <2>2, Zenon DEF HideLoads, Begins
    <3>2. [op |-> op, project |-> i].op # "replace"
      OBVIOUS
    <3> QED BY <3>1, <3>2
  <2>3. CASE AssignLooks(c)
    <3>1. PICK i, w :
             req' = [req EXCEPT ![c] = [op |-> "assign", project |-> i, source |-> w]]
      BY <2>3 DEF AssignLooks, Begins
    <3>2. [op |-> "assign", project |-> i, source |-> w].op # "replace"
      OBVIOUS
    <3> QED BY <3>1, <3>2
  <2>4. CASE ReplaceLoads(c)
    <3>1. PICK i, f :
             req' = [req EXCEPT ![c] = [op |-> "replace", project |-> i,
                                        copy |-> instances[i].flow, flow |-> f]]
      BY <2>4 DEF ReplaceLoads, Begins
    <3> DEFINE r == [op |-> "replace", project |-> i, copy |-> instances[i].flow, flow |-> f]
    <3>2. r.copy = instances[r.project].flow
      OBVIOUS
    <3>3. req' = [req EXCEPT ![c] = r]
      BY <3>1
    <3> HIDE DEF r
    <3> QED BY <3>2, <3>3
  <2>5. CASE CompleteLoads(c)
    <3>1. PICK i : req' = [req EXCEPT ![c] = [op |-> "complete", project |-> i]]
      BY <2>5 DEF CompleteLoads, Begins
    <3>2. [op |-> "complete", project |-> i].op # "replace"
      OBVIOUS
    <3> QED BY <3>1, <3>2
  <2> QED BY <2>1, <2>2, <2>3, <2>4, <2>5
<1> QED BY <1>0, <1>1, TellsAfter

LEMMA ProjectStepsTell ==
    ASSUME IInv, NEW c \in Clients, Tells(c),
           Mints(c) \/ MakeRefused(c) \/ Makes(c) \/ HideSaves(c) \/ HandLooks(c)
    PROVE  Tells(c)'
<1>0. UNCHANGED <<instances, history>>
  BY DEF Mints, MakeRefused, Makes, HideSaves, HandLooks, rows
<1>1. PICK r : req' = [req EXCEPT ![c] = r] /\ r.op # "replace"
  <2>1. Idle.op # "replace"
    BY DEF Idle
  <2>2. CASE req' = [req EXCEPT ![c] = Idle]
    BY <2>1, <2>2
  <2>3. CASE Mints(c)
    <3>1. req[c] \in Requests /\ req[c].op = "make"
      BY <2>3 DEF IInv, Fits, IsReplace, Mints
    <3>2. [req[c] EXCEPT !.number = NextNumber(req[c].prefix)].op = "make"
      BY <3>1 DEF Requests, Idle
    <3> QED BY <2>3, <3>2 DEF Mints, Continues
  <2>4. CASE HandLooks(c) /\ req' = [req EXCEPT ![c] = [req[c] EXCEPT !.op = "assign"]]
    <3>1. req[c] \in Requests /\ req[c].op = "hand"
      BY <2>4 DEF IInv, Fits, IsReplace, HandLooks
    <3>2. [req[c] EXCEPT !.op = "assign"].op = "assign"
      BY <3>1 DEF Requests, Idle
    <3> QED BY <2>4, <3>2
  <2>5. CASE req' = [req EXCEPT ![c] = [op |-> "hand", project |-> Len(projects) + 1,
                                        source |-> req[c].source]]
    <3>1. [op |-> "hand", project |-> Len(projects) + 1, source |-> req[c].source].op = "hand"
      OBVIOUS
    <3> QED BY <2>5, <3>1
  <2> QED BY <2>2, <2>3, <2>4, <2>5
          DEF MakeRefused, Makes, HideSaves, HandLooks, Ends, Continues
<1> QED BY <1>0, <1>1, TellsAfter

LEMMA AssignInsertsTells ==
    ASSUME IInv, NEW c \in Clients, Tells(c), AssignInserts(c)
    PROVE  Tells(c)'
<1>0. req'[c] = Idle /\ Idle.op # "replace"
  BY DEF IInv, AssignInserts, Ends, Continues, Idle
<1>1. CASE HasInstance(req[c].project)
  BY <1>0, <1>1 DEF AssignInserts, Tells
<1>2. CASE ~HasInstance(req[c].project)
  <2>1. req[c] \in Requests /\ req[c].op = "assign"
    BY DEF IInv, Fits, IsReplace, AssignInserts
  <2>2. PICK k, w : k = req[c].project /\ w = req[c].source
    OBVIOUS
  <2>3. IsFlow(Sources[w])
    <3>1. w \in DOMAIN Sources
      BY <2>1, <2>2 DEF Requests, Idle
    <3> QED BY <3>1, ProjectsAssumption
  <2> DEFINE new == [source |-> w, flow |-> Sources[w], status |-> "active"]
             first == [kind |-> "created", ids |-> Range(Sources[w].steps)]
  <2>4. first \in Entry /\ first.kind = "created" /\ first.ids = Range(Sources[w].steps)
    BY <2>3, RangeOfFlow DEF Entry, Kinds
  <2>5. new.flow = Sources[w]
    OBVIOUS
  <2>6. instances' = Extended(instances, k, new) /\ history' = Extended(history, k, <<first>>)
    BY <1>2, <2>2 DEF AssignInserts
  <2> HIDE DEF new, first
  <2>7. /\ DOMAIN instances' = DOMAIN instances \cup {k}
        /\ \A i \in DOMAIN instances : /\ instances'[i] = instances[i]
                                       /\ history'[i] = history[i]
        /\ instances'[k] = new /\ history'[k] = <<first>>
    BY <1>2, <2>2, <2>6 DEF Extended, HasInstance, IInv, Rows
  <2>8. StepsTold(<<first>>) = first.ids
    <3>1. <<>> \in Seq(Entry) /\ <<>> \o <<first>> = <<first>>
      BY <2>4
    <3>2. StepsTold(<<>>) = {}
      BY DEF StepsTold
    <3> QED BY <2>4, <3>1, <3>2, OneMoreEntry
  <2> QED BY <1>0, <2>4, <2>5, <2>7, <2>8 DEF Tells
<1> QED BY <1>1, <1>2

LEMMA ReplaceSavesTells ==
    ASSUME IInv, NEW c \in Clients, Tells(c), ReplaceSaves(c)
    PROVE  Tells(c)'
<1>0. req'[c] = Idle /\ Idle.op # "replace"
  BY DEF IInv, ReplaceSaves, Ends, Continues, Idle
<1>1. IsReplace(req[c])
  <2>1. req[c] \notin Requests
    BY DEF ReplaceSaves, Requests, Idle
  <2> QED BY <2>1 DEF IInv, Fits
<1>2. PICK k \in DOMAIN instances : k = req[c].project
  BY <1>1 DEF IsReplace
<1>3. PICK copy, flow : copy = req[c].copy /\ flow = req[c].flow
  OBVIOUS
<1>4. IsFlow(copy) /\ IsFlow(flow) /\ copy = instances[k].flow
  BY <1>1, <1>2, <1>3 DEF IsReplace, Tells, ReplaceSaves
<1>5. history[k] \in Seq(Entry) /\ DOMAIN history = DOMAIN instances
  BY DEF IInv, Rows
<1>6. StepsTold(history[k] \o Detected(copy, flow)) = Range(flow.steps)
  BY <1>4, <1>5, DetectedTells DEF Tells
<1>7. history' = [history EXCEPT ![k] = @ \o Detected(copy, flow)]
  BY <1>2, <1>3 DEF ReplaceSaves, Records
<1>8. /\ DOMAIN instances' = DOMAIN instances
      /\ \A i \in DOMAIN instances \ {k} : instances'[i] = instances[i]
      /\ instances'[k].flow = flow
  <2>1. DOMAIN instances[k] = {"source", "flow", "status"}
    BY DEF IInv, Rows
  <2> QED BY <1>2, <1>3, <1>4, <2>1 DEF ReplaceSaves
<1> QED BY <1>0, <1>5, <1>6, <1>7, <1>8 DEF Tells

LEMMA CompleteSavesTells ==
    ASSUME IInv, NEW c \in Clients, Tells(c), CompleteSaves(c)
    PROVE  Tells(c)'
<1>0. req'[c] = Idle /\ Idle.op # "replace"
  BY DEF IInv, CompleteSaves, Ends, Continues, Idle
<1>1. PICK k, told : k = req[c].project /\ told = Told(TRUE, "status_changed", {})
  OBVIOUS
<1>2. history' = [history EXCEPT ![k] = @ \o told]
  BY <1>1 DEF CompleteSaves, Records
<1>3. DOMAIN history = DOMAIN instances
  BY DEF IInv, Rows
<1>4. /\ DOMAIN instances' = DOMAIN instances
      /\ \A i \in DOMAIN instances : instances'[i].flow = instances[i].flow
  <2>1. \A i \in DOMAIN instances : DOMAIN instances[i] = {"source", "flow", "status"}
    BY DEF IInv, Rows
  <2> QED BY <2>1 DEF CompleteSaves
<1>5. ASSUME NEW i \in DOMAIN instances
      PROVE  StepsTold(history'[i]) = StepsTold(history[i])
  <2>1. CASE i = k
    <3>1. history[k] \in Seq(Entry)
      BY <2>1 DEF IInv, Rows
    <3>2. /\ ToldIf(told, "status_changed", {})
          /\ "status_changed" \in Kinds /\ {} \in SUBSET Steps
      BY <1>1 DEF Told, ToldIf, Kinds
    <3>3. StepsTold(history[k] \o told) = StepsTold(history[k])
      BY <3>1, <3>2, OneMoreTold
    <3> QED BY <1>2, <1>3, <2>1, <3>3
  <2>2. CASE i # k
    BY <1>2, <1>3, <2>2
  <2> QED BY <2>1, <2>2
<1> QED BY <1>0, <1>4, <1>5 DEF Tells

LEMMA TellingKept ==
    ASSUME IInv, Solo, Telling, [Next]_vars
    PROVE  Telling'
<1> SUFFICES ASSUME NEW c \in Clients, Sole(c)' PROVE Tells(c)'
  BY DEF Telling
<1>1. Sole(c)
  BY CrowdStays DEF Sole
<1>2. Stands(c) /\ Tells(c)
  BY <1>1 DEF Solo, Telling
<1>3. CASE (\E x \in Executions : IntakeEnds(x)) \/ (\E w \in DOMAIN Sources : Withdraws(w))
           \/ UNCHANGED vars
  BY <1>2, <1>3 DEF IntakeEnds, Withdraws, rows, vars, Tells
<1>4. CASE \E d \in Clients : Acts(d)
  <2>1. Acts(c)
    BY <1>1, <1>2, <1>4, OnlyTheSoleActs
  <2>2. CASE \/ Creates(c) \/ Posts(c) \/ Asks(c) \/ Reconnects(c) \/ HideLoads(c)
             \/ AssignLooks(c) \/ ReplaceLoads(c) \/ CompleteLoads(c)
    BY <1>2, <2>2, LooksTell
  <2>3. CASE Mints(c) \/ MakeRefused(c) \/ Makes(c) \/ HideSaves(c) \/ HandLooks(c)
    BY <1>2, <2>3, ProjectStepsTell
  <2>4. CASE AssignInserts(c) \/ ReplaceSaves(c) \/ CompleteSaves(c)
    BY <1>2, <2>4, AssignInsertsTells, ReplaceSavesTells, CompleteSavesTells
  <2> QED BY <2>1, <2>2, <2>3, <2>4 DEF Acts
<1> QED BY <1>3, <1>4 DEF Next, Acts

\* HistoryTellsSteps: a client that is alone leaves a history that tells what
\* steps each instance has, whatever workflows it stores and in whatever order
\* (_detect_changes, update_instance, workflow_instance_service.py).
THEOREM HistoryAlwaysTellsSteps == Spec => []HistoryTellsSteps
<1>1. Init => Telling
  <2> SUFFICES ASSUME Init, NEW c \in Clients PROVE Tells(c)
    BY DEF Telling
  <2>1. DOMAIN instances = {} /\ req[c] = Idle
    BY DEF Init
  <2> QED BY <2>1 DEF Tells, Idle
<1>2. IInv /\ Solo /\ Telling /\ [Next]_vars => Telling'
  BY TellingKept
<1>3. Spec => []Telling
  BY <1>1, <1>2, SoloHolds, PTL DEF Spec
<1>4. Telling => HistoryTellsSteps
  BY DEF Telling, Sole, Tells, HistoryTellsSteps, Alone
<1> QED BY <1>3, <1>4, PTL
=============================================================================

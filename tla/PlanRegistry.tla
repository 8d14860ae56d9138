----------------------------- MODULE PlanRegistry -----------------------------
(* How plans come to be served (plan_loader.py, plan_validator.py,            *)
(* plan_registry.py).  document_workflows.py calls get_plan_registry when it is *)
(* imported: the global registry is created, every active definition is loaded *)
(* and each that passes the validator is registered.  Every later call finds   *)
(* the registry there and only reads it, so one thread does all of this, once. *)
EXTENDS Naturals, Sequences

CONSTANTS
    Names,        \* node ids, those of nodes and those only edges mention
    WorkflowIds, DocumentTypes, Outcomes,
    ActiveLists,  \* the lists of active definitions the program may start with
    Nothing       \* no target of an edge, no document type, no gate outcome

(***************************************************************************)
(* A definition: its form on disk, and of a plan its identity, the types of *)
(* its nodes, which of them name a terminal outcome, its edges and entries, *)
(* the outcomes of its gates and those it maps, and its circuit breaker.    *)
(* What an edge's conditions say and every other text is left out.          *)
(***************************************************************************)

\* "garbled" is no JSON; "unopenable" may not be read, or is no UTF-8.
Forms == {"absent", "garbled", "unopenable", "steps", "plan"}
Breakers == {"none", "empty", "unbounded", "bounded"}
ValidTypes == {"concierge", "intake_gate", "task", "qa", "gate", "end", "pgc"}
NodeTypes  == {"intake_gate", "task", "qa", "gate", "end", "pgc"}

Edge == [from : Names, to : Names \cup {Nothing}]

IsDefinition(d) ==
    /\ DOMAIN d = {"form", "id", "doc", "types", "closing", "edges", "entries",
                   "gates", "mapped", "breaker"}
    /\ d.form \in Forms /\ d.id \in WorkflowIds /\ d.breaker \in Breakers
    /\ d.doc \in DocumentTypes \cup {Nothing}
    /\ DOMAIN d.types \subseteq Names /\ d.closing \subseteq Names
    /\ d.edges \subseteq Edge /\ d.entries \subseteq Names
    /\ d.gates \subseteq Outcomes /\ d.mapped \subseteq Outcomes \cup {Nothing}

ASSUME RegistryAssumption ==
    /\ Nothing \notin Names \cup DocumentTypes \cup Outcomes
    /\ \A list \in ActiveLists : Len(list) \in Nat /\ DOMAIN list = 1..Len(list)
    /\ \A list \in ActiveLists : \A i \in DOMAIN list : IsDefinition(list[i])

VARIABLES
    active,    \* the active definitions, in the order of active_releases.json
    plans,     \* the registry: by id, the place in active of the plan's definition
    byType,    \* and by document type
    pc,        \* where loading is
    at,        \* the definition, or the loaded plan, that is next
    queue, reached,  \* of the validator's walk
    loaded     \* what load_all has gathered

registry == <<plans, byType>>
walk == <<queue, reached>>
vars == <<active, registry, pc, at, walk, loaded>>

-----------------------------------------------------------------------------

(***************************************************************************)
(* The validator.                                                           *)
(***************************************************************************)

Ids(d) == DOMAIN d.types
Ends(d) == {n \in Ids(d) : d.types[n] = "end"}

\* Mutant: an edge that leaves a run where it is has a target too.
TargetsOrNone(d, n) == {e.to : e \in {f \in d.edges : f.from = n}}

Targets(d, n) == {e.to : e \in {f \in d.edges : f.from = n}} \ {Nothing}

\* _validate_schema: required fields and enumerations.
SchemaErrors(d) ==
    \/ d.entries = {}
    \/ \E n \in Ids(d) : d.types[n] \notin ValidTypes
    \/ ~(Ends(d) \subseteq d.closing)

\* Mutant: the target of an edge goes unchecked.
SourcesOnly(d) ==
    \/ \E e \in d.edges : e.from \notin Ids(d)
    \/ ~(d.entries \subseteq Ids(d))
    \/ \E n \in Ids(d) \ Ends(d) : \A e \in d.edges : e.from # n

\* _validate_graph_integrity, its errors.
GraphErrors(d) ==
    \/ \E e \in d.edges : e.from \notin Ids(d)
    \/ \E e \in d.edges : e.to # Nothing /\ e.to \notin Ids(d)
    \/ ~(d.entries \subseteq Ids(d))
    \/ \E n \in Ids(d) \ Ends(d) : \A e \in d.edges : e.from # n

\* _validate_outcome_mapping: without gate outcomes nothing is asked.
MappingErrors(d) == ~(d.gates \subseteq d.mapped)

\* _validate_governance: an empty breaker counts as none.
GovernanceErrors(d) == d.breaker = "unbounded"

\* WorkflowPlan.from_dict: NodeType knows fewer types than the validator, and
\* an empty circuit breaker has no max_retries to read.
Parses(d) ==
    /\ \A n \in Ids(d) : d.types[n] \in NodeTypes
    /\ d.breaker # "empty"

Accepted(d) ==
    /\ d.form = "plan"
    /\ ~SchemaErrors(d) /\ ~GraphErrors(d) /\ ~MappingErrors(d) /\ ~GovernanceErrors(d)

\* What load_all's handler does not catch, neither JSONDecodeError nor
\* PlanLoadError: a file that cannot be read, a mapping without gate_outcome
\* (the validator reads it), a plan from_dict cannot read.
Raises(d) ==
    \/ d.form = "unopenable"
    \/ /\ d.form = "plan" /\ ~SchemaErrors(d)
       /\ Nothing \in d.mapped \/ (Accepted(d) /\ ~Parses(d))

-----------------------------------------------------------------------------

Points == {"open", "walk", "register", "served"}

Init ==
    /\ active \in ActiveLists
    /\ plans = << >> /\ byType = << >>
    /\ pc = "open" /\ at = 1
    /\ queue = {} /\ reached = {}
    /\ loaded = << >>

\* The end of loading, whether done or given up: get_plan_registry logs what
\* was raised and returns the registry as it is.
Returns ==
    /\ pc' = "served" /\ at' = 1
    /\ queue' = {} /\ reached' = {}
    /\ loaded' = << >>

\* On to the next definition.
Follows(gathered) ==
    /\ pc' = "open" /\ at' = at + 1
    /\ queue' = {} /\ reached' = {}
    /\ loaded' = gathered
    /\ UNCHANGED registry

Refused(d) == d.form \in {"absent", "garbled", "steps"} \/ (d.form = "plan" /\ SchemaErrors(d))

\* Mutant: a definition that is refused ends the loading, as the docstring of
\* load_all says.
GivesUp ==
    /\ pc = "open" /\ at <= Len(active)
    /\ Refused(active[at])
    /\ Returns
    /\ UNCHANGED <<active, registry>>

\* load_all, the next definition: one that is missing, no JSON, no plan or
\* refused by its schema is passed over with a warning.
PassesOver ==
    /\ pc = "open" /\ at <= Len(active)
    /\ Refused(active[at])
    /\ Follows(loaded)
    /\ UNCHANGED active

\* A file that cannot be opened or decoded raises past the loop.
Breaks ==
    /\ pc = "open" /\ at <= Len(active)
    /\ active[at].form = "unopenable"
    /\ Returns
    /\ UNCHANGED <<active, registry>>

Opens ==
    /\ pc = "open" /\ at <= Len(active)
    /\ active[at].form = "plan" /\ ~SchemaErrors(active[at])
    /\ pc' = "walk"
    /\ queue' = active[at].entries /\ reached' = active[at].entries
    /\ UNCHANGED <<active, registry, at, loaded>>

\* Mutant: a node already reached is queued again.
QueuesAgain ==
    /\ pc = "walk"
    /\ \E n \in queue :
         LET met == Targets(active[at], n) IN
         queue' = (queue \ {n}) \cup met /\ reached' = reached \cup met
    /\ UNCHANGED <<active, registry, pc, at, loaded>>

\* Mutant: what is met is reached, but not walked on from.
WalksOneStep ==
    /\ pc = "walk"
    /\ \E n \in queue :
         LET met == Targets(active[at], n) IN
         queue' = queue \ {n} /\ reached' = reached \cup met
    /\ UNCHANGED <<active, registry, pc, at, loaded>>

\* One turn of _find_reachable_nodes.  The code takes the queue in order; no
\* order is assumed here.
Walks ==
    /\ pc = "walk"
    /\ \E n \in queue :
         LET met == Targets(active[at], n) \ reached IN
         queue' = (queue \ {n}) \cup met /\ reached' = reached \cup met
    /\ UNCHANGED <<active, registry, pc, at, loaded>>

\* The walk is over, and the mapping is read: a plan with errors is passed over,
\* an accepted one is parsed.  An unreachable node is only a warning.
Judges ==
    /\ pc = "walk" /\ queue = {}
    /\ LET d == active[at] IN
         \/ Raises(d) /\ Returns /\ UNCHANGED registry
         \/ ~Raises(d) /\ ~Accepted(d) /\ Follows(loaded)
         \/ ~Raises(d) /\ Accepted(d) /\ Follows(Append(loaded, at))
    /\ UNCHANGED active

LoadsAll ==
    /\ pc = "open" /\ at > Len(active)
    /\ pc' = "register" /\ at' = 1
    /\ UNCHANGED <<active, registry, walk, loaded>>

Kept(f, k, v) == [x \in DOMAIN f \cup {k} |-> IF x = k THEN v ELSE f[x]]

\* register: an id that is taken raises, and what is left is not registered.
Refuses ==
    /\ pc = "register" /\ at <= Len(loaded)
    /\ active[loaded[at]].id \in DOMAIN plans
    /\ Returns
    /\ UNCHANGED <<active, registry>>

Registers ==
    /\ pc = "register" /\ at <= Len(loaded)
    /\ LET i == loaded[at] IN
         /\ active[i].id \notin DOMAIN plans
         /\ plans' = Kept(plans, active[i].id, i)
         /\ byType' = IF active[i].doc = Nothing THEN byType
                      ELSE Kept(byType, active[i].doc, i)
    /\ at' = at + 1
    /\ UNCHANGED <<active, pc, walk, loaded>>

RegistersAll ==
    /\ pc = "register" /\ at > Len(loaded)
    /\ Returns
    /\ UNCHANGED <<active, registry>>

Next ==
    \/ PassesOver \/ Breaks \/ Opens \/ Walks \/ Judges \/ LoadsAll
    \/ Refuses \/ Registers \/ RegistersAll

Spec == Init /\ [][Next]_vars
FairSpec == Spec /\ WF_vars(Next)

-----------------------------------------------------------------------------

(***************************************************************************)
(* What the loader promises the engine.                                     *)
(***************************************************************************)

\* The nodes a run of the plan may come to: those in every set of names that
\* holds the entries and is closed under the edges.
ClosedUnder(d, S) == d.entries \subseteq S /\ \A n \in S : Targets(d, n) \subseteq S
Reachable(d) ==
    LET closed == {S \in SUBSET Names : ClosedUnder(d, S)}
    IN {n \in Names : \A S \in closed : n \in S}

\* What PlanExecutor relies on wherever a run may stand: the node exists, an
\* executor knows its type, an end names its outcome and an edge leaves every
\* other node, be it one that leads nowhere.
Executable(d) ==
    \A n \in Reachable(d) :
        /\ n \in Ids(d) /\ d.types[n] \in NodeTypes
        /\ n \in Ends(d) => n \in d.closing
        /\ n \notin Ends(d) => \E e \in d.edges : e.from = n

\* Places, queues and the registry are of their kinds.
TypeOK ==
    /\ \A i \in DOMAIN active : IsDefinition(active[i])
    /\ DOMAIN plans \subseteq WorkflowIds
    /\ \A id \in DOMAIN plans : plans[id] \in DOMAIN active
    /\ DOMAIN byType \subseteq DocumentTypes
    /\ pc \in Points /\ at \in Nat \ {0}
    /\ reached \in SUBSET Names /\ queue \subseteq reached
    /\ loaded \in Seq(DOMAIN active)

\* Whatever definitions are active, a run that follows the edges of a plan the
\* registry serves, under its id or its document type, comes from the entries
\* to no node that is missing, of a type no executor knows, an end without
\* outcome, or without an edge (plan_loader.py:75).  That an end is ever
\* reached is not said: the validator accepts a plan that only goes round.
ServesExecutable ==
    /\ \A id \in DOMAIN plans :
          active[plans[id]].id = id /\ Executable(active[plans[id]])
    /\ \A doc \in DOMAIN byType :
          LET d == active[byType[doc]] IN
          d.doc = doc /\ d.id \in DOMAIN plans /\ byType[doc] = plans[d.id]

\* The nodes the validator's walk ends with are those a run may come to, in
\* whatever order its queue is taken: it warns of orphans and of nothing else
\* (plan_validator.py:334).
WalkFindsReachable ==
    pc = "walk" /\ queue = {} => reached = Reachable(active[at])

\* The definitions that are to be served: none when one of them, accepted or
\* not, raises what load_all does not catch; else every acceptable one up to
\* the first id that is repeated.
Good == {i \in DOMAIN active : Accepted(active[i])}
Promised ==
    IF \E i \in DOMAIN active : Raises(active[i]) THEN {}
    ELSE {i \in Good : \A j, k \in Good :
                         j < k /\ k <= i => active[j].id # active[k].id}
Served == {plans[id] : id \in DOMAIN plans}

\* Once loading has ended the registry serves exactly these, by id and by
\* document type: one definition that is refused costs the others nothing,
\* one that raises costs all of them (plan_loader.py:144).
NoneMissing ==
    pc = "served" =>
        /\ Served = Promised
        /\ \A i \in Promised : active[i].doc \in DOMAIN byType \cup {Nothing}

\* Loading ends, so the program starts, though plans loop and definitions fail.
LoadingEnds == <>(pc = "served")
=============================================================================

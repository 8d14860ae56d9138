-------------------------- MODULE PlanRegistryProofs --------------------------
(* Whatever definitions are active, the registry serves executable plans only, *)
(* the validator's walk finds exactly the nodes a run may come to, and once    *)
(* loading has ended what is served is what was to be.                         *)
EXTENDS PlanRegistry, TLAPS

\* What the walk has reached lies between the entries and what is reachable,
\* and is closed but for what is queued.
Exact(d, pending, found) ==
    /\ d.entries \subseteq found /\ found \subseteq Reachable(d)
    /\ \A n \in found \ pending : Targets(d, n) \subseteq found

Passed(d) == Accepted(d) /\ Parses(d)

Walked == pc = "walk" => at \in DOMAIN active /\ Exact(active[at], queue, reached)

Holding == \A k \in DOMAIN loaded : Passed(active[loaded[k]])

Registered ==
    /\ \A id \in DOMAIN plans :
          active[plans[id]].id = id /\ Passed(active[plans[id]])
    /\ \A doc \in DOMAIN byType :
          LET d == active[byType[doc]] IN
          d.doc = doc /\ d.id \in DOMAIN plans /\ byType[doc] = plans[d.id]

\* What has been gathered: the good definitions so far, each once and in order.
Listed == {loaded[k] : k \in DOMAIN loaded}
Before == {loaded[k] : k \in {m \in DOMAIN loaded : m < at}}

Gathered ==
    /\ \A k, m \in DOMAIN loaded : k < m => loaded[k] < loaded[m]
    /\ pc \in {"open", "walk"} =>
          /\ Listed = {i \in Good : i < at}
          /\ \A i \in DOMAIN active : i < at => ~Raises(active[i])
          /\ Served = {}
    /\ pc = "register" =>
          /\ Listed = Good /\ \A i \in DOMAIN active : ~Raises(active[i])
          /\ Served = Before
    /\ pc = "served" => Served = Promised

Typed == \A i \in Served : active[i].doc \in DOMAIN byType \cup {Nothing}

IInv ==
    /\ active \in ActiveLists
    /\ TypeOK /\ Walked /\ Holding /\ Registered /\ Gathered /\ Typed

-----------------------------------------------------------------------------

(***************************************************************************)
(* Definitions and their graphs.                                            *)
(***************************************************************************)

\* The active definitions are what the assumption says.
LEMMA ActiveAreDefinitions ==
    ASSUME NEW list \in ActiveLists
    PROVE  /\ \A i \in DOMAIN list : IsDefinition(list[i])
           /\ DOMAIN list = 1..Len(list) /\ Len(list) \in Nat
BY RegistryAssumption

\* A set closed under the edges holds what is reachable.
LEMMA ReachableIsLeast ==
    ASSUME NEW d, NEW S \in SUBSET Names, ClosedUnder(d, S)
    PROVE  Reachable(d) \subseteq S
BY DEF Reachable

\* What is reachable is closed itself.
LEMMA ReachableIsClosed ==
    ASSUME NEW d, IsDefinition(d)
    PROVE  Reachable(d) \in SUBSET Names /\ ClosedUnder(d, Reachable(d))
<1>1. d.entries \subseteq Reachable(d)
  BY DEF Reachable, ClosedUnder, IsDefinition
<1>2. ASSUME NEW n \in Reachable(d), NEW m \in Targets(d, n)
      PROVE  m \in Reachable(d)
  <2>1. m \in Names
    BY <1>2 DEF Targets, IsDefinition, Edge
  <2>2. ASSUME NEW S \in SUBSET Names, ClosedUnder(d, S)  PROVE m \in S
    BY <1>2, <2>2 DEF Reachable, ClosedUnder
  <2> QED BY <2>1, <2>2 DEF Reachable
<1> QED BY <1>1, <1>2 DEF ClosedUnder, Reachable

\* An accepted plan that parses can be run: its nodes hold its entries and are
\* closed under its edges, so they hold what is reachable.
LEMMA PassedIsExecutable ==
    ASSUME NEW d, IsDefinition(d), Passed(d)
    PROVE  Executable(d)
<1>1. Ids(d) \in SUBSET Names
  BY DEF IsDefinition, Ids
<1>2. ~GraphErrors(d) /\ ~SchemaErrors(d) /\ Parses(d)
  BY DEF Passed, Accepted
<1>3. ClosedUnder(d, Ids(d))
  BY <1>2 DEF ClosedUnder, GraphErrors, Targets
<1>4. Reachable(d) \subseteq Ids(d)
  BY <1>1, <1>3, ReachableIsLeast
<1> QED BY <1>2, <1>4 DEF Executable, GraphErrors, SchemaErrors, Parses, Ends

\* When nothing is queued, what is reached is what is reachable.
LEMMA EndOfWalk ==
    ASSUME NEW d, IsDefinition(d), NEW found \in SUBSET Names, Exact(d, {}, found)
    PROVE  found = Reachable(d)
<1>1. ClosedUnder(d, found)
  BY DEF Exact, ClosedUnder
<1> QED BY <1>1, ReachableIsLeast DEF Exact

\* A walk starts at the entries.
LEMMA StartOfWalk ==
    ASSUME NEW d, IsDefinition(d)
    PROVE  Exact(d, d.entries, d.entries)
BY ReachableIsClosed DEF Exact, ClosedUnder

\* One turn of the walk keeps it exact.
LEMMA TurnOfWalk ==
    ASSUME NEW d, IsDefinition(d), NEW pending, NEW found \in SUBSET Names,
           pending \subseteq found, Exact(d, pending, found), NEW n \in pending
    PROVE  LET met == Targets(d, n) \ found IN
           /\ found \cup met \in SUBSET Names
           /\ Exact(d, (pending \ {n}) \cup met, found \cup met)
<1> DEFINE met == Targets(d, n) \ found
<1>1. Targets(d, n) \subseteq Reachable(d)
  BY ReachableIsClosed DEF Exact, ClosedUnder
<1>2. found \cup met \in SUBSET Names
  BY <1>1 DEF Reachable
<1>3. found \cup met \subseteq Reachable(d)
  BY <1>1 DEF Exact
<1>4. ASSUME NEW k \in (found \cup met) \ ((pending \ {n}) \cup met)
      PROVE  Targets(d, k) \subseteq found \cup met
  BY <1>4 DEF Exact
<1> QED BY <1>2, <1>3, <1>4 DEF Exact

-----------------------------------------------------------------------------

(***************************************************************************)
(* The invariant is kept.                                                   *)
(***************************************************************************)

\* At first nothing is loaded.
LEMMA IInvInit == Init => IInv
<1> SUFFICES ASSUME Init PROVE IInv
  OBVIOUS
<1>1. active \in ActiveLists /\ \A i \in DOMAIN active : IsDefinition(active[i]) /\ i >= 1
  BY ActiveAreDefinitions DEF Init
<1>2. TypeOK
  BY <1>1 DEF Init, TypeOK, Points
<1>3. Walked /\ Holding /\ Registered /\ Typed
  BY DEF Init, Walked, Holding, Registered, Typed, Served
<1>4. Gathered
  <2>1. Listed = {} /\ Served = {}
    BY DEF Init, Listed, Served
  <2>2. {i \in Good : i < at} = {} /\ \A i \in DOMAIN active : ~(i < at)
    BY <1>1, ActiveAreDefinitions DEF Init, Good
  <2> QED BY <2>1, <2>2 DEF Init, Gathered
<1> QED BY <1>1, <1>2, <1>3, <1>4 DEF IInv

\* Where loading ends, only what is served has to be right.
LEMMA ReturnKept ==
    ASSUME IInv, Returns, UNCHANGED <<active, registry>>, Served = Promised
    PROVE  IInv'
<1>1. TypeOK'
  BY DEF IInv, TypeOK, Returns, registry, Points
<1>2. (Walked /\ Holding /\ Registered /\ Typed)'
  BY DEF IInv, Walked, Holding, Registered, Typed, Served, Returns, registry
<1>3. Gathered'
  <2>1. Served' = Served /\ Promised' = Promised
    BY DEF Served, Promised, Good, registry
  <2>2. pc' = "served" /\ loaded' = << >>
    BY DEF Returns
  <2> QED BY <2>1, <2>2 DEF Gathered
<1> QED BY <1>1, <1>2, <1>3 DEF IInv

\* One definition that raises takes all the others along.
LEMMA RaisingServesNothing ==
    ASSUME IInv, pc \in {"open", "walk"}, NEW i \in DOMAIN active, Raises(active[i])
    PROVE  Served = Promised
BY DEF IInv, Gathered, Promised

\* The next definition is looked at, when this one was good or was not.
LEMMA FollowKept ==
    ASSUME IInv, pc \in {"open", "walk"}, at \in DOMAIN active, UNCHANGED active,
           ~Raises(active[at]),
           \/ ~Accepted(active[at]) /\ Follows(loaded)
           \/ Accepted(active[at]) /\ Follows(Append(loaded, at))
    PROVE  IInv'
<1> DEFINE more == IF Accepted(active[at]) THEN Append(loaded, at) ELSE loaded
<1>1. Follows(more)
  OBVIOUS
<1>2. /\ loaded \in Seq(DOMAIN active) /\ at \in Nat \ {0}
      /\ \A i \in DOMAIN active : i \in Nat
  BY ActiveAreDefinitions DEF IInv, TypeOK
<1>3. more \in Seq(DOMAIN active)
  <2>1. Append(loaded, at) \in Seq(DOMAIN active)
    BY <1>2
  <2> QED BY <1>2, <2>1
<1>4. \A k \in DOMAIN more :
         \/ k \in DOMAIN loaded /\ more[k] = loaded[k] /\ loaded[k] < at
         \/ Accepted(active[at]) /\ k = Len(loaded) + 1 /\ more[k] = at
  <2>1. \A k \in DOMAIN loaded : loaded[k] < at
    BY DEF IInv, Gathered, Listed
  <2> QED BY <1>2, <2>1
<1>5. Passed(active[at]) \/ ~Accepted(active[at])
  BY DEF Passed, Raises, Accepted
<1>6. {more[k] : k \in DOMAIN more} = {i \in Good : i < at + 1}
  <2>1. Listed = {i \in Good : i < at}
    BY DEF IInv, Gathered
  <2>2. \A i \in Good : i < at + 1 <=> i < at \/ i = at
    BY <1>2 DEF Good
  <2>3. CASE Accepted(active[at])
    <3>1. more = Append(loaded, at) /\ at \in Good
      BY <2>3 DEF Good
    <3>2. {more[k] : k \in DOMAIN more} = Listed \cup {at}
      <4>1. DOMAIN more = DOMAIN loaded \cup {Len(loaded) + 1} /\ more[Len(loaded) + 1] = at
        BY <1>2, <3>1
      <4>2. \A k \in DOMAIN loaded : more[k] = loaded[k]
        BY <1>2, <3>1
      <4> HIDE DEF more
      <4> QED BY <4>1, <4>2 DEF Listed
    <3>3. \A i : i \in Listed \cup {at} <=> i \in Good /\ i < at + 1
      BY <2>1, <2>2, <3>1
    <3>4. Listed \cup {at} = {i \in Good : i < at + 1}
      BY <3>3
    <3> QED BY <3>2, <3>4
  <2>4. CASE ~Accepted(active[at])
    BY <2>1, <2>2, <2>4 DEF Good, Listed
  <2> QED BY <2>3, <2>4
<1>7. \A k, m \in DOMAIN more : k < m => more[k] < more[m]
  <2>1. \A k, m \in DOMAIN loaded : k < m => loaded[k] < loaded[m]
    BY DEF IInv, Gathered
  <2>2. \A k \in DOMAIN loaded : k \in Nat /\ k <= Len(loaded)
    BY <1>2
  <2> QED BY <1>2, <1>4, <2>1, <2>2
<1> HIDE DEF more
<1>8. TypeOK'
  BY <1>1, <1>2, <1>3 DEF IInv, TypeOK, Follows, registry, Points
<1>9. Holding'
  BY <1>1, <1>4, <1>5 DEF IInv, Holding, Follows
<1>10. (Walked /\ Registered /\ Typed)'
  BY <1>1 DEF IInv, Walked, Registered, Typed, Served, Follows, registry
<1>11. Gathered'
  <2>1. pc' = "open" /\ at' = at + 1 /\ loaded' = more /\ Served' = Served /\ Good' = Good
    BY <1>1 DEF Follows, registry, Served, Good
  <2>2. Served = {} /\ \A i \in DOMAIN active : i < at => ~Raises(active[i])
    BY DEF IInv, Gathered
  <2>3. \A i \in DOMAIN active : i < at + 1 => ~Raises(active[i])
    BY <1>2, <2>2
  <2>4. Listed' = {i \in Good : i < at + 1}
    BY <1>6, <2>1 DEF Listed
  <2> QED BY <1>7, <2>1, <2>2, <2>3, <2>4 DEF Gathered
<1> QED BY <1>8, <1>9, <1>10, <1>11 DEF IInv

\* Opening a definition and walking it.
LEMMA WalkKept ==
    ASSUME IInv, Opens \/ Walks
    PROVE  IInv'
<1>1. /\ UNCHANGED <<active, registry, at, loaded>> /\ pc' = "walk"
      /\ pc \in {"open", "walk"} /\ at \in DOMAIN active /\ IsDefinition(active[at])
  BY ActiveAreDefinitions DEF IInv, TypeOK, Walked, Opens, Walks
<1>2. /\ reached' \in SUBSET Names /\ queue' \subseteq reached'
      /\ Exact(active[at], queue', reached')
  <2>1. CASE Opens
    BY <1>1, <2>1, StartOfWalk DEF Opens, IsDefinition
  <2>2. CASE Walks
    <3>1. PICK n \in queue :
             LET met == Targets(active[at], n) \ reached IN
             queue' = (queue \ {n}) \cup met /\ reached' = reached \cup met
      BY <2>2 DEF Walks
    <3>2. reached \in SUBSET Names /\ queue \subseteq reached
          /\ Exact(active[at], queue, reached)
      BY <2>2 DEF IInv, TypeOK, Walked, Walks
    <3> DEFINE met == Targets(active[at], n) \ reached
    <3>3. reached \cup met \in SUBSET Names
          /\ Exact(active[at], (queue \ {n}) \cup met, reached \cup met)
      BY <1>1, <3>2, TurnOfWalk
    <3> QED BY <3>1, <3>2, <3>3
  <2> QED BY <2>1, <2>2
<1>3. TypeOK'
  BY <1>1, <1>2 DEF IInv, TypeOK, registry, Points
<1>4. (Walked /\ Holding /\ Registered /\ Typed)'
  BY <1>1, <1>2 DEF IInv, Walked, Holding, Registered, Typed, Served, registry
<1>5. Gathered'
  BY <1>1 DEF IInv, Gathered, Listed, Served, Good, registry
<1> QED BY <1>1, <1>3, <1>4, <1>5 DEF IInv

\* Passing over, breaking off and judging.
LEMMA JudgementKept ==
    ASSUME IInv, PassesOver \/ Breaks \/ Judges
    PROVE  IInv'
<1>1. at \in DOMAIN active
  BY ActiveAreDefinitions DEF IInv, TypeOK, Walked, PassesOver, Breaks, Judges
<1>2. CASE PassesOver
  <2>1. ~Accepted(active[at]) /\ ~Raises(active[at])
    BY <1>2 DEF PassesOver, Refused, Accepted, Raises
  <2> QED BY <1>1, <1>2, <2>1, FollowKept DEF PassesOver
<1>3. CASE Breaks
  <2>1. Served = Promised
    BY <1>1, <1>3, RaisingServesNothing DEF Breaks, Raises
  <2> QED BY <1>3, <2>1, ReturnKept DEF Breaks
<1>4. CASE Judges
  <2>1. CASE Raises(active[at])
    BY <1>1, <1>4, <2>1, RaisingServesNothing, ReturnKept DEF Judges
  <2>2. CASE ~Raises(active[at])
    BY <1>1, <1>4, <2>2, FollowKept DEF Judges
  <2> QED BY <2>1, <2>2
<1> QED BY <1>2, <1>3, <1>4

\* When all definitions are loaded, nothing is registered yet.
LEMMA LoadsAllKept ==
    ASSUME IInv, LoadsAll
    PROVE  IInv'
<1>1. /\ pc = "open" /\ pc' = "register" /\ at' = 1
      /\ UNCHANGED <<active, registry, walk, loaded>>
  BY DEF LoadsAll
<1>2. \A i \in DOMAIN active : i < at
  BY ActiveAreDefinitions DEF IInv, TypeOK, LoadsAll
<1>3. (TypeOK /\ Walked /\ Holding /\ Registered /\ Typed)'
  BY <1>1 DEF IInv, TypeOK, Walked, Holding, Registered, Typed, Served, registry, walk, Points
<1>4. Gathered'
  <2>1. Served' = {} /\ Listed' = Listed /\ Good' = Good
    BY <1>1 DEF IInv, Gathered, Served, Listed, Good, registry
  <2>2. Before' = {}
    <3>1. \A k \in DOMAIN loaded : ~(k < 1)
      BY DEF IInv, TypeOK
    <3> QED BY <1>1, <3>1 DEF Before
  <2>3. Listed = Good
    BY <1>1, <1>2 DEF IInv, Gathered, Good
  <2> QED BY <1>1, <1>2, <2>1, <2>2, <2>3 DEF IInv, Gathered
<1> QED BY <1>1, <1>3, <1>4 DEF IInv

\* A plan that finds its id taken ends the registering: what is in already are
\* the good ones up to the first repeated id.
LEMMA RefusalServesPromised ==
    ASSUME IInv, Refuses
    PROVE  Served = Promised
<1>1. pc = "register" /\ at \in DOMAIN loaded /\ active[loaded[at]].id \in DOMAIN plans
  BY DEF Refuses, IInv, TypeOK
<1>2. /\ Served = Before /\ Listed = Good
      /\ \A i \in DOMAIN active : ~Raises(active[i])
      /\ \A k, m \in DOMAIN loaded : k < m => loaded[k] < loaded[m]
  BY <1>1 DEF IInv, Gathered
<1> DEFINE g == loaded[at]
           f == plans[active[g].id]
<1>3. f \in Served /\ active[f].id = active[g].id
  BY <1>1 DEF Served, IInv, Registered
<1>4. \A i \in Good : i \in Nat
  BY ActiveAreDefinitions DEF Good, IInv
<1>5. f \in Good /\ g \in Good /\ f < g
  <2>1. PICK k \in DOMAIN loaded : k < at /\ f = loaded[k]
    BY <1>2, <1>3 DEF Before
  <2> QED BY <1>1, <1>2, <2>1 DEF Listed
<1>6. \A i \in Served : i \in Good /\ i < g
  <2>1. \A k \in DOMAIN loaded : k < at => loaded[k] < g
    BY <1>1, <1>2
  <2> QED BY <1>2, <2>1 DEF Before, Listed
<1>7. \A i \in Good : i < g => i \in Served
  <2> SUFFICES ASSUME NEW i \in Good, i < g PROVE i \in Served
    OBVIOUS
  <2>1. PICK k \in DOMAIN loaded : i = loaded[k]
    BY <1>2 DEF Listed
  <2>2. ~(at < k) /\ k # at /\ k \in Nat /\ at \in Nat
    <3>1. \A a, b \in Nat : a < b => ~(b < a) /\ a # b
      OBVIOUS
    <3>2. at < k => g < i
      BY <1>1, <1>2, <2>1
    <3>3. k # at
      BY <1>4, <1>5, <2>1, <3>1
    <3> QED BY <1>1, <1>4, <1>5, <2>1, <3>1, <3>2, <3>3 DEF IInv, TypeOK
  <2>3. k < at
    BY <2>2
  <2> QED BY <1>2, <2>1, <2>3 DEF Before
<1>8. \A j, k \in Served : active[j].id = active[k].id => j = k
  BY DEF Served, IInv, Registered
<1> HIDE DEF f, g
<1>9. ASSUME NEW i \in Served  PROVE i \in Promised
  <2>1. \A j, k \in Good : j < k /\ k <= i => j \in Served /\ k \in Served /\ j # k
    BY <1>4, <1>5, <1>6, <1>7, <1>9
  <2>2. \A j, k \in Good : j < k /\ k <= i => active[j].id # active[k].id
    BY <1>8, <2>1
  <2> QED BY <1>2, <1>6, <1>9, <2>2 DEF Promised
<1>10. ASSUME NEW i \in Promised  PROVE i \in Served
  <2>1. i \in Good /\ (f < g /\ g <= i => active[f].id # active[g].id)
    BY <1>2, <1>5, <1>10 DEF Promised
  <2>2. i < g
    BY <1>3, <1>4, <1>5, <2>1
  <2> QED BY <1>7, <2>1, <2>2
<1> QED BY <1>9, <1>10

\* When all are registered, every good one is and no id was repeated.
LEMMA CompletionServesPromised ==
    ASSUME IInv, RegistersAll
    PROVE  Served = Promised
<1>1. pc = "register" /\ \A k \in DOMAIN loaded : k < at
  BY DEF RegistersAll, IInv, TypeOK
<1>2. Served = Good /\ \A i \in DOMAIN active : ~Raises(active[i])
  BY <1>1 DEF IInv, Gathered, Before, Listed
<1>3. \A j, k \in Good : j < k => active[j].id # active[k].id
  <2>1. \A j, k \in Served : active[j].id = active[k].id => j = k
    BY DEF Served, IInv, Registered
  <2>2. \A j \in Good : j \in Nat
    BY ActiveAreDefinitions DEF Good, IInv
  <2> QED BY <1>2, <2>1, <2>2
<1> QED BY <1>2, <1>3 DEF Promised

\* Registering adds a plan that passed, under an id that was free, so what was
\* registered before stays as it is.
LEMMA RegistrationKept ==
    ASSUME IInv, Registers
    PROVE  IInv'
<1> DEFINE i == loaded[at]
<1>1. /\ pc = "register" /\ at \in DOMAIN loaded /\ at \in Nat \ {0}
      /\ at' = at + 1 /\ UNCHANGED <<active, pc, walk, loaded>>
      /\ active[i].id \notin DOMAIN plans
      /\ plans' = Kept(plans, active[i].id, i)
      /\ byType' = IF active[i].doc = Nothing THEN byType ELSE Kept(byType, active[i].doc, i)
  BY DEF Registers, IInv, TypeOK
<1>2. i \in DOMAIN active /\ Passed(active[i])
  BY <1>1 DEF IInv, TypeOK, Holding
<1>3. /\ active[i].id \in WorkflowIds
      /\ active[i].doc \in DocumentTypes \cup {Nothing}
  BY <1>2, ActiveAreDefinitions DEF IInv, IsDefinition
<1> HIDE DEF i
<1>4. /\ DOMAIN plans' = DOMAIN plans \cup {active[i].id}
      /\ plans'[active[i].id] = i
      /\ \A id \in DOMAIN plans : plans'[id] = plans[id]
  BY <1>1 DEF Kept
<1>5. \A doc \in DOMAIN byType' :
         \/ doc = active[i].doc /\ doc \in DocumentTypes /\ byType'[doc] = i
         \/ doc \in DOMAIN byType /\ byType'[doc] = byType[doc]
  BY <1>1, <1>3 DEF Kept
<1>6. TypeOK'
  <2>1. DOMAIN plans' \subseteq WorkflowIds /\ \A id \in DOMAIN plans' : plans'[id] \in DOMAIN active
    BY <1>2, <1>3, <1>4 DEF IInv, TypeOK
  <2>2. DOMAIN byType' \subseteq DocumentTypes
    BY <1>5 DEF IInv, TypeOK
  <2> QED BY <1>1, <2>1, <2>2 DEF IInv, TypeOK, walk
<1>7. Registered'
  <2>1. \A id \in DOMAIN plans' : active[plans'[id]].id = id /\ Passed(active[plans'[id]])
    BY <1>2, <1>4 DEF IInv, Registered
  <2>2. \A doc \in DOMAIN byType' :
           LET d == active[byType'[doc]] IN
           d.doc = doc /\ d.id \in DOMAIN plans' /\ byType'[doc] = plans'[d.id]
    BY <1>4, <1>5 DEF IInv, Registered
  <2> QED BY <1>1, <2>1, <2>2 DEF Registered
<1>8. Served' = Served \cup {i}
  BY <1>1, <1>4 DEF Served
<1>9. Typed'
  <2>1. DOMAIN byType \subseteq DOMAIN byType' /\ active[i].doc \in DOMAIN byType' \cup {Nothing}
    BY <1>1 DEF Kept
  <2> QED BY <1>1, <1>8, <2>1 DEF IInv, Typed
<1>10. Gathered'
  <2>1. Before' = Before \cup {i}
    <3>1. \A k \in DOMAIN loaded : k < at + 1 <=> k < at \/ k = at
      BY <1>1 DEF IInv, TypeOK
    <3>2. Before' = {loaded[k] : k \in {m \in DOMAIN loaded : m < at + 1}}
      BY <1>1 DEF Before
    <3> QED BY <1>1, <3>1, <3>2 DEF Before, i
  <2>2. Served' = Before'
    BY <1>1, <1>8, <2>1 DEF IInv, Gathered
  <2>3. Listed' = Listed /\ Good' = Good
    BY <1>1 DEF Listed, Good
  <2> QED BY <1>1, <2>2, <2>3 DEF IInv, Gathered
<1>11. (Walked /\ Holding)'
  BY <1>1 DEF IInv, Walked, Holding
<1> QED BY <1>1, <1>6, <1>7, <1>9, <1>10, <1>11 DEF IInv

\* So every step keeps the invariant.
LEMMA IInvNext == IInv /\ [Next]_vars => IInv'
<1> SUFFICES ASSUME IInv, [Next]_vars PROVE IInv'
  OBVIOUS
<1>1. CASE Refuses
  BY <1>1, RefusalServesPromised, ReturnKept DEF Refuses
<1>2. CASE RegistersAll
  BY <1>2, CompletionServesPromised, ReturnKept DEF RegistersAll
<1>3. CASE Next /\ ~Refuses /\ ~RegistersAll
  BY <1>3, WalkKept, JudgementKept, LoadsAllKept, RegistrationKept DEF Next
<1>4. CASE UNCHANGED vars
  <2>1. UNCHANGED <<active, registry, pc, at, walk, loaded>>
    BY <1>4 DEF vars
  <2>2. (TypeOK /\ Walked /\ Holding /\ Registered)'
    BY <2>1 DEF registry, walk, IInv, TypeOK, Walked, Holding, Registered
  <2>3. Served' = Served /\ Listed' = Listed /\ Before' = Before /\ Good' = Good
        /\ Promised' = Promised
    BY <2>1 DEF registry, Served, Listed, Before, Good, Promised
  <2>4. (Gathered /\ Typed)'
    BY <2>1, <2>3 DEF registry, IInv, Gathered, Typed
  <2> QED BY <2>1, <2>2, <2>4 DEF IInv
<1> QED BY <1>1, <1>2, <1>3, <1>4

LEMMA IInvAlways == Spec => []IInv
<1> QED BY IInvInit, IInvNext, PTL DEF Spec

-----------------------------------------------------------------------------

\* The loader's places, queues and registry are of their kinds, for any active
\* definitions.
THEOREM LoaderTyped == Spec => []TypeOK
<1>1. IInv => TypeOK
  BY DEF IInv
<1> QED BY <1>1, IInvAlways, PTL

\* A run that follows the edges of a served plan comes to no node that is
\* missing, of an unknown type, an end without outcome, or without an edge.
THEOREM PlansAreExecutable == Spec => []ServesExecutable
<1>1. IInv => ServesExecutable
  <2> SUFFICES ASSUME IInv PROVE ServesExecutable
    OBVIOUS
  <2>1. ASSUME NEW id \in DOMAIN plans
        PROVE  active[plans[id]].id = id /\ Executable(active[plans[id]])
    <3>1. IsDefinition(active[plans[id]])
      BY DEF IInv, TypeOK
    <3> QED BY <3>1, PassedIsExecutable DEF IInv, Registered
  <2> QED BY <2>1 DEF IInv, Registered, ServesExecutable
<1> QED BY <1>1, IInvAlways, PTL

\* The validator's walk ends with the nodes a run may come to and no others,
\* in whatever order the queue is taken.
THEOREM WalkIsExact == Spec => []WalkFindsReachable
<1>1. IInv => WalkFindsReachable
  <2> SUFFICES ASSUME IInv, pc = "walk", queue = {}
               PROVE  reached = Reachable(active[at])
    BY DEF WalkFindsReachable
  <2>1. /\ at \in DOMAIN active /\ reached \in SUBSET Names
        /\ IsDefinition(active[at]) /\ Exact(active[at], {}, reached)
    BY DEF IInv, TypeOK, Walked
  <2> QED BY <2>1, EndOfWalk
<1> QED BY <1>1, IInvAlways, PTL

\* What is served once loading has ended: every acceptable plan up to the first
\* repeated id, or nothing when a definition raised.
THEOREM NoPlanIsMissing == Spec => []NoneMissing
<1>1. IInv => NoneMissing
  BY DEF IInv, Gathered, Typed, NoneMissing
<1> QED BY <1>1, IInvAlways, PTL
=============================================================================

---------------------------- MODULE MCPlanRegistry ----------------------------
(* Definitions for TLC: one plan of any shape on three nodes, two plans with   *)
(* each thing that may be wrong with a definition, and three of any form.      *)
EXTENDS PlanRegistry, FiniteSets, TLC

Plan(id) ==
    [form |-> "plan", id |-> id, doc |-> "discovery",
     types |-> ("a" :> "task" @@ "b" :> "qa" @@ "c" :> "end"),
     closing |-> {"c"},
     edges |-> {[from |-> "a", to |-> "b"], [from |-> "b", to |-> "a"],
                [from |-> "b", to |-> "c"]},
     entries |-> {"a"}, gates |-> {}, mapped |-> {}, breaker |-> "bounded"]

\* A name no node has: "x".
AllEdges == [from : {"a", "b", "c"}, to : {"a", "b", "c", "x", Nothing}]

Shapes ==
    {[Plan("p") EXCEPT !.edges = es] :
        es \in {s \in SUBSET AllEdges : Cardinality(s) \in 2..3}}

Forming(id) ==
    {Plan(id)} \cup {[Plan(id) EXCEPT !.form = f] : f \in Forms \ {"plan"}}

Faults(id) ==
    LET p == Plan(id) IN
    Forming(id) \cup
    {[p EXCEPT !.doc = "intake"], [p EXCEPT !.doc = Nothing],
     [p EXCEPT !.types["a"] = "concierge"], [p EXCEPT !.types["a"] = "unheard of"],
     [p EXCEPT !.closing = {}], [p EXCEPT !.entries = {}], [p EXCEPT !.entries = {"x"}],
     [p EXCEPT !.edges = {e \in @ : e.from # "b"}],
     [p EXCEPT !.edges = @ \cup {[from |-> "x", to |-> "a"]}],
     [p EXCEPT !.gates = {"qualified"}],
     [p EXCEPT !.gates = {"qualified"}, !.mapped = {"qualified"}],
     [p EXCEPT !.mapped = {Nothing}], [p EXCEPT !.gates = {"qualified"}, !.mapped = {Nothing}],
     [p EXCEPT !.breaker = "empty"], [p EXCEPT !.breaker = "unbounded"]}

Lists ==
    {<<d>> : d \in Shapes} \cup
    {<<d, e>> : d \in Faults("p"), e \in Faults("q") \cup Forming("p")} \cup
    {<<d, e, f>> : d \in Forming("p"), e \in Forming("p"), f \in Forming("q")}
=============================================================================

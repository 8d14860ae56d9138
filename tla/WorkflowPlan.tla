---------------------------- MODULE WorkflowPlan ----------------------------
(***************************************************************************)
(* A workflow plan (app/domain/workflow/plan_models.py): the graph one      *)
(* document execution walks.  A plan is data, loaded from combine-config/   *)
(* workflows/<id>/releases/<version>/definition.json, so it is a parameter  *)
(* here; module ShippedPlans gives the plans the repository ships.          *)
(***************************************************************************)
EXTENDS Naturals, Sequences

CONSTANTS
    Nodes,           \* node ids of the plan
    Kind,            \* [Nodes -> Kinds]: node type, a gate split by its internals
    Producing,       \* the nodes with a "produces" entry
    EndOutcome,      \* [end nodes -> terminal_outcome]
    Entry,           \* the entry node
    Edges,           \* sequence of edges, in plan order
    DraftIsDocument, \* the produced key is the plan's own document_type
    MaxRetries       \* the circuit breaker's limit

NoNode == "no node"

\* NodeType, with a GATE named after the executor its internals select.
Kinds == {"pgc_gate", "intake_gate", "qa_gate", "qa", "task", "pgc", "end"}

\* is_qa_gate: type QA, or a GATE whose gate_kind is "qa".
IsQaGate(n) == Kind[n] \in {"qa", "qa_gate"}

EndNodes == {n \in Nodes : Kind[n] = "end"}
PlanOutcomes == {EndOutcome[n] : n \in EndNodes}


\* The outcomes under which the executor counts a QA rejection.
Rejections == {"fail", "failed"}

\* An edge that sends rejected content round again.
LoopsBack(e) ==
    /\ IsQaGate(e.from) /\ e.outcome \in Rejections
    /\ e.to \in Nodes /\ Kind[e.to] # "end"

ASSUME PlanAssumption ==
    /\ NoNode \notin Nodes
    /\ Kind \in [Nodes -> Kinds]
    /\ Producing \subseteq Nodes
    /\ Entry \in Nodes
    /\ DraftIsDocument \in BOOLEAN
    /\ MaxRetries \in Nat
    /\ \A n \in EndNodes : n \in DOMAIN EndOutcome
    /\ \A i \in DOMAIN Edges :
          Edges[i].from \in Nodes /\ Edges[i].to \in Nodes \cup {NoNode}

\* Every shipped plan guards the edges that loop back with
\* retry_count < 2 (MaxRetries); nothing else bounds the loop.
ASSUME BreakerAssumption ==
    \A i \in DOMAIN Edges :
        LoopsBack(Edges[i]) =>
            \E c \in Edges[i].conditions :
                /\ c.type = "retry_count" /\ c.op = "lt"
                /\ c.value \in Nat /\ c.value <= MaxRetries
=============================================================================

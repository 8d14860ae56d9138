---------------------------- MODULE ShippedPlans ----------------------------
(***************************************************************************)
(* The plans combine-config ships, as values for the constants of module    *)
(* PlanExecutor.                                                            *)
(***************************************************************************)
EXTENDS Naturals, Sequences

\* The circuit breaker's limit, in every plan.
BreakerLimit == 2

\* WorkflowPlan's NoNode: an edge that leaves the execution where it is.
Nowhere == "no node"

edge(from, outcome, to) ==
    [from |-> from, outcome |-> outcome, to |-> to, conditions |-> {}, options |-> {}]

retries(op) == [type |-> "retry_count", op |-> op, value |-> BreakerLimit]

\* project_discovery 2.0.0; technical_architecture 2.0.0 and
\* implementation_plan 1.0.0 have the same shape.
DiscoveryKind ==
    [pgc_gate |-> "pgc_gate", generation |-> "task", qa_gate |-> "qa_gate",
     remediation |-> "task", end_stabilized |-> "end", end_blocked |-> "end"]

DiscoveryEdges ==
    <<edge("pgc_gate", "qualified", "generation"),
      edge("pgc_gate", "needs_user_input", Nowhere),
      edge("generation", "success", "qa_gate"),
      edge("generation", "failed", "end_blocked"),
      edge("qa_gate", "pass", "end_stabilized"),
      [edge("qa_gate", "fail", "remediation") EXCEPT !.conditions = {retries("lt")}],
      [edge("qa_gate", "fail", Nowhere) EXCEPT !.conditions = {retries("gte")},
                                           !.options = {"retry", "abandon"}],
      edge("remediation", "success", "qa_gate"),
      edge("remediation", "failed", "end_blocked")>>

\* concierge_intake 1.4.0 (1.3.0 has the same shape), its nodes prefixed so
\* that plans can stand side by side.
IntakeKind ==
    [intake_gate |-> "intake_gate", intake_generation |-> "task", intake_qa |-> "qa",
     intake_remediation |-> "task", intake_stabilized |-> "end",
     intake_blocked |-> "end", intake_abandoned |-> "end"]

IntakeEdges ==
    <<edge("intake_gate", "qualified", "intake_generation"),
      edge("intake_gate", "needs_clarification", Nowhere),
      edge("intake_gate", "out_of_scope", "intake_abandoned"),
      edge("intake_generation", "success", "intake_qa"),
      edge("intake_generation", "failed", "intake_blocked"),
      edge("intake_qa", "success", "intake_stabilized"),
      [edge("intake_qa", "failed", "intake_remediation") EXCEPT !.conditions = {retries("lt")}],
      [edge("intake_qa", "failed", "intake_blocked") EXCEPT !.conditions = {retries("gte")}],
      edge("intake_remediation", "success", "intake_qa"),
      edge("intake_remediation", "failed", "intake_blocked")>>

\* project_discovery 1.8.0, the form with a node of type pgc, prefixed too.
LegacyKind ==
    [pgc |-> "pgc", old_generation |-> "task", old_qa |-> "qa",
     old_remediation |-> "task", old_complete |-> "end", old_failed |-> "end"]

LegacyEdges ==
    <<edge("pgc", "success", "old_generation"),
      edge("pgc", "needs_user_input", Nowhere),
      edge("old_generation", "success", "old_qa"),
      edge("old_generation", "failed", "old_failed"),
      edge("old_qa", "success", "old_complete"),
      [edge("old_qa", "failed", "old_remediation") EXCEPT !.conditions = {retries("lt")}],
      [edge("old_qa", "failed", "old_failed") EXCEPT !.conditions = {retries("gte")}],
      edge("old_remediation", "success", "old_qa"),
      edge("old_remediation", "failed", "old_failed")>>

DiscoveryNodes == DOMAIN DiscoveryKind
IntakeNodes    == DOMAIN IntakeKind
LegacyNodes    == DOMAIN LegacyKind

PlanEnds ==
    [end_stabilized |-> "stabilized", end_blocked |-> "blocked",
     intake_stabilized |-> "stabilized", intake_blocked |-> "blocked",
     intake_abandoned |-> "abandoned",
     old_complete |-> "stabilized", old_failed |-> "blocked"]

\* The nodes that produce the plan's document; the intake's produce none.
DiscoveryTasks == {"generation", "remediation"}
LegacyTasks    == {"old_generation", "old_remediation"}

-----------------------------------------------------------------------------

(***************************************************************************)
(* The plans side by side: an execution starts at the entry of its plan and *)
(* no edge leaves the plan, so the node tells which plan it follows.        *)
(***************************************************************************)

Library ==
    [nodes   |-> DiscoveryNodes \cup IntakeNodes \cup LegacyNodes,
     kind    |-> [n \in DiscoveryNodes \cup IntakeNodes \cup LegacyNodes |->
                    IF n \in DiscoveryNodes THEN DiscoveryKind[n]
                    ELSE IF n \in IntakeNodes THEN IntakeKind[n]
                    ELSE LegacyKind[n]],
     makes   |-> DiscoveryTasks \cup LegacyTasks,
     entries |-> {"pgc_gate", "intake_gate", "pgc"},
     edges   |-> DiscoveryEdges \o IntakeEdges \o LegacyEdges]

LibraryNodes == Library.nodes
LibraryKind  == Library.kind
LibraryTasks == Library.makes
LibraryEdges == Library.edges
=============================================================================

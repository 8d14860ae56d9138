----------------------- MODULE PlanExecutorRefinement -----------------------
(***************************************************************************)
(* PlanExecutor implements GovernedProduction, read off the saved row: the  *)
(* copies requests hold are internal.                                       *)
(***************************************************************************)
EXTENDS MCPlanExecutor

\* What is refined: executions of the discovery plan, driven by
\* one request at a time.
ASSUME DiscoveryAssumption ==
    /\ Nodes = DiscoveryNodes /\ Kind = DiscoveryKind /\ Producing = DiscoveryTasks
    /\ EndOutcome = PlanEnds /\ Entry = "pgc_gate" /\ Edges = DiscoveryEdges
    /\ MaxRetries = BreakerLimit
    /\ \A r, s \in Requests : r = s

StageOf ==
    [pgc_gate |-> "clarify", generation |-> "write", qa_gate |-> "judge",
     remediation |-> "rewrite", end_stabilized |-> "closed", end_blocked |-> "closed"]

Production ==
    INSTANCE GovernedProduction WITH
        Nothing    <- NoAnswers,
        Limit      <- MaxRetries,
        stage      <- IF row.status \in Finished THEN "closed" ELSE StageOf[row.node],
        answers    <- row.ctx.answers,
        rejections <- row.retries["generation"],
        stopped    <- StageOf[row.node] = "judge" /\ row.status = "paused",
        verdict    <- IF row.status = "failed" THEN "failed"
                      ELSE IF row.status = "completed" THEN row.terminal ELSE "open",
        published   <- documents

\* Every save of the executor and of the operator commands is a step of the
\* production protocol or no step at all: no order of requests, input, runs
\* and operator commands makes the row do anything the protocol does not.
ImplementsProduction == Production!Spec
=============================================================================

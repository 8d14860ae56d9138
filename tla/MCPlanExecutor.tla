--------------------------- MODULE MCPlanExecutor ---------------------------
(***************************************************************************)
(* Module PlanExecutor with the plans combine-config ships, for TLC.        *)
(***************************************************************************)
EXTENDS PlanExecutor, ShippedPlans
=============================================================================

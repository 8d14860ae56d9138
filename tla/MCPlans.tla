------------------------------ MODULE MCPlans ------------------------------
(***************************************************************************)
(* Module PlanLibrary for TLC: run plans_alone has one request at a time    *)
(* and crashes, plans_together several requests in flight on one execution. *)
(***************************************************************************)
EXTENDS PlanLibrary, TLC

\* Both runs are given the library's plans.
ASSUME MCSideBySide == SideBySide

\* Requests are interchangeable: nothing orders or names them.
RequestSymmetry == Permutations(Requests)
=============================================================================

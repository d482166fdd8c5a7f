--------------------------- MODULE MCPlanExecution ---------------------------
(* Model values and bounds for the TLC run of PlanExecution. *)
EXTENDS PlanExecution, TLC

CONSTANTS p1, p2

TwoPlans == {p1, p2}
=============================================================================

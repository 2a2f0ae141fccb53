---------------------------- MODULE MCPlanOutbox ----------------------------
(* One plan and two workers, given as model values in the configuration.    *)
EXTENDS PlanOutbox
=============================================================================

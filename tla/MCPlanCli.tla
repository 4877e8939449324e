----------------------------- MODULE MCPlanCli ------------------------------
(***************************************************************************)
(* Small instances of PlanCli for TLC.                                     *)
(***************************************************************************)
EXTENDS PlanCli
=============================================================================

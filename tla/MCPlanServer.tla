---------------------------- MODULE MCPlanServer ----------------------------
(***************************************************************************)
(* Small instances of PlanServer for TLC: two contents of a diagram, which *)
(* the hash tells apart, or two connection details, which it does not.     *)
(***************************************************************************)
EXTENDS PlanServer, TLC

ClientSymmetry == Permutations(Client)

(* ReviewedRuns ("what you reviewed is what runs", server/jobs.go:97) and  *)
(* EditsSurvive without their exceptions; the configurations               *)
(* MCServerReviewed and MCServerLostEdit show how each goes wrong.         *)
AlwaysReviewed == [][Runs(Srv) => planFile = work[Srv].reviewed]_vars
EveryEditSurvives == [][work' # work => DiagramOf(docFile') = DiagramOf(docFile)]_vars
=============================================================================

------------------------------- MODULE PlanCli ------------------------------
(***************************************************************************)
(* The commands `iagram plan`, `apply`, `drift` and `destroy` of           *)
(* src/internal/cli/terraform.go, one process at a time, on a diagram its  *)
(* user edits between and during commands (canvas, editor or git).  Any    *)
(* step may fail and any process may be killed.                            *)
(***************************************************************************)
EXTENDS Workspace

CONSTANTS
  Cli,          \* the worker that executes the commands
  MaxSerial     \* bound: no command that applies starts past this serial

ASSUME CliAssumption == Cli \in Worker /\ MaxSerial \in Nat

VARIABLES
  cmd,         \* the command that runs, or "none"
  confirmed,   \* the user typed the diagram name (or gave --yes)
  spent        \* history: tofu has carried plan.tfplan out, wholly or in part

cliVars == <<cmd, confirmed, spent>>
vars == <<docFile, config, modules, planFile, infra, work, cmd, confirmed, spent>>

Command == {"none", "generate", "plan", "apply", "drift", "destroy"}

CliInit ==
  /\ WorkspaceInit
  /\ cmd = "none"
  /\ confirmed = FALSE
  /\ spent = FALSE

(* Any edit of the diagram.                                                *)
Edit(d) ==
  /\ docFile' = d
  /\ UNCHANGED <<config, modules, planFile, infra, work, cliVars>>

(* A command loads the document and starts its operation: generate is the  *)
(* beginning of plan, apply passes the document to Workspace.Apply without *)
(* looking at the plan.                                                    *)
OpOf(c) == IF c = "generate" THEN "plan" ELSE c

StartCommand(c) ==
  /\ cmd = "none"
  /\ c \in {"apply", "destroy"} => infra.serial < MaxSerial
  /\ cmd' = c
  /\ confirmed' = FALSE
  /\ work' = [work EXCEPT ![Cli] = NewWork(OpOf(c), docFile, NoPlan)]
  /\ UNCHANGED <<docFile, config, modules, planFile, infra, spent>>

Generated == cmd = "generate" /\ At(Cli, "init")

CommandStep ==
  /\ ~Generated
  /\ WorkStep(Cli)
  /\ spent' = (((spent /\ ~Writes(Cli)) \/ Runs(Cli)) /\ planFile' # NoPlan)
  /\ UNCHANGED <<cmd, confirmed>>

(* runDestroy asks when its plan has something to destroy.                 *)
MakesChanges(p) == Target(p) # infra.deployed
Asks == /\ At(Cli, "returned") /\ work[Cli].ok /\ work[Cli].op = "destroy"
        /\ MakesChanges(work[Cli].shown)

(* Variant: destroy reads the diagram and the plan file again.             *)
ConfirmWithPresentDocument ==
  /\ Asks
  /\ confirmed' = TRUE
  /\ work' = [work EXCEPT ![Cli] = NewWork("apply", docFile, planFile)]
  /\ UNCHANGED <<docFile, config, modules, planFile, infra, cmd, spent>>

(* Given the diagram name it applies, with the document it loaded.         *)
Confirm ==
  /\ Asks
  /\ confirmed' = TRUE
  /\ work' = [work EXCEPT ![Cli] = NewWork("apply", work[Cli].doc, work[Cli].shown)]
  /\ UNCHANGED <<docFile, config, modules, planFile, infra, cmd, spent>>

(* The command ends: its operation returned and it has nothing to ask, or  *)
(* the user typed another name ("aborted").                                *)
EndCommand ==
  /\ At(Cli, "returned") \/ Generated
  /\ cmd' = "none"
  /\ confirmed' = FALSE
  /\ work' = [work EXCEPT ![Cli] = NoWork]
  /\ UNCHANGED <<docFile, config, modules, planFile, infra, spent>>

(* The process dies, at any step and also at the question: the files stay  *)
(* as they are.                                                            *)
Kill ==
  /\ Faults
  /\ cmd # "none"
  /\ cmd' = "none"
  /\ confirmed' = FALSE
  /\ work' = [work EXCEPT ![Cli] = NoWork]
  /\ UNCHANGED <<docFile, config, modules, planFile, infra, spent>>

Edited == [sem : Sem, wire : Wire, outs : {0, docFile.outs}]

CliNext ==
  \/ \E d \in Edited : Edit(d)
  \/ \E c \in Command \ {"none"} : StartCommand(c)
  \/ CommandStep
  \/ Confirm
  \/ EndCommand
  \/ Kill

CliSpec == CliInit /\ [][CliNext]_vars

-----------------------------------------------------------------------------
(* Every variable stays within its set.                                    *)
TypeOK ==
  /\ WorkspaceTypeOK
  /\ cmd \in Command
  /\ confirmed \in BOOLEAN
  /\ spent \in BOOLEAN

(* The infrastructure moves at most once for each time tofu wrote the plan *)
(* file, although the file stays when its removal fails, when tofu apply   *)
(* stops half way, and when the process dies between the two, and although *)
(* `iagram apply` runs whatever file is there.                             *)
PlanTakesEffectOnce == [][infra' # infra => ~spent]_vars

(* `iagram destroy` runs the teardown it showed, for the diagram it was    *)
(* planned from, whatever happens to the file in the meantime.             *)
DestroyRunsWhatWasShown ==
  [][Runs(Cli) /\ work[Cli].reviewed # NoPlan =>
       /\ planFile = work[Cli].reviewed
       /\ planFile.config = DiagramOf(work[Cli].doc)]_vars

(* Workspace.Apply: "The document passed must be the one that was planned; *)
(* the caller enforces that."  runApply passes what is in the file.        *)
PlannedIsApplied ==
  [][Runs(Cli) => planFile.config = DiagramOf(work[Cli].doc)]_vars

(* `iagram destroy` will "plan the teardown, ask for the diagram name,     *)
(* apply" (README.md): nothing is torn down that was not confirmed.        *)
TeardownIsConfirmed ==
  [][Runs(Cli) /\ planFile.kind = "destroy" /\ MakesChanges(planFile) => confirmed]_vars
=============================================================================

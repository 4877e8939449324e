---------------------------- MODULE PlanCliProofs ----------------------------
(***************************************************************************)
(* Proofs about the commands plan, apply, drift and destroy, for any       *)
(* contents of diagrams, any bound on the state serial, and with failures, *)
(* kills and edits at any moment.                                          *)
(***************************************************************************)
EXTENDS PlanCli, WorkspaceProofs

LEMMA CliTypeInit == CliInit => TypeOK
<1> SUFFICES ASSUME CliInit PROVE TypeOK
  OBVIOUS
<1>1. docFile \in Document
  BY DEF CliInit, WorkspaceInit, Document
<1>2. WorkspaceTypeOK
  BY <1>1, NoWorkType, DiagramOfType
     DEF CliInit, WorkspaceInit, WorkspaceTypeOK, Infra
<1> QED
  BY <1>2 DEF CliInit, TypeOK, Command

LEMMA CliTypeNext == TypeOK /\ [CliNext]_vars => TypeOK'
<1> SUFFICES ASSUME TypeOK, [CliNext]_vars
             PROVE  TypeOK'
  OBVIOUS
<1> USE CliAssumption
<1>0. WorkspaceTypeOK /\ docFile \in Document /\ work[Cli] \in Work
      /\ cmd \in Command /\ confirmed \in BOOLEAN /\ spent \in BOOLEAN
  BY DEF TypeOK, WorkspaceTypeOK
<1>1. ASSUME NEW d \in Edited, Edit(d)
      PROVE  TypeOK'
  <2>1. d \in Document
    BY <1>0 DEF Edited, Document
  <2> QED
    BY <1>0, <1>1, <2>1 DEF Edit, TypeOK, WorkspaceTypeOK, cliVars
<1>2. ASSUME NEW c \in Command \ {"none"}, StartCommand(c)
      PROVE  TypeOK'
  <2>1. NewWork(OpOf(c), docFile, NoPlan) \in Work
    BY <1>0, NewWorkType DEF OpOf, Op, Command
  <2> QED
    BY <1>0, <1>2, <2>1 DEF StartCommand, TypeOK, WorkspaceTypeOK
<1>3. CASE CommandStep
  <2>1. WorkspaceTypeOK'
    BY <1>0, <1>3, WorkStepType DEF CommandStep
  <2> QED
    BY <1>0, <1>3, <2>1 DEF CommandStep, TypeOK
<1>4. CASE Confirm
  <2>1. NewWork("apply", work[Cli].doc, work[Cli].shown) \in Work
    BY <1>0, NewWorkType DEF Op, Work
  <2> QED
    BY <1>0, <1>4, <2>1 DEF Confirm, TypeOK, WorkspaceTypeOK
<1>5. CASE EndCommand \/ Kill
  BY <1>0, <1>5, NoWorkType DEF EndCommand, Kill, TypeOK, WorkspaceTypeOK, Command
<1>6. CASE UNCHANGED vars
  BY <1>0, <1>6 DEF vars, TypeOK, WorkspaceTypeOK
<1> QED
  BY <1>1, <1>2, <1>3, <1>4, <1>5, <1>6 DEF CliNext

(* Type correctness of the commands and the workspace under them.          *)
THEOREM CliTypeOK == CliSpec => []TypeOK
  BY CliTypeInit, CliTypeNext, PTL DEF CliSpec

-----------------------------------------------------------------------------
(* A plan file that was carried out can do no more (Harmless).             *)
FileInv ==
  /\ Shape(Cli)
  /\ cmd = "none" => Idle(Cli)
  /\ Harmless(spent)

LEMMA FileInvInit == CliInit => FileInv
  BY CliAssumption
     DEF CliInit, WorkspaceInit, FileInv, Shape, Harmless, At, Idle, NoWork, NewWork

(* Between the steps of operations commands leave the files alone.  What   *)
(* they give the worker is nothing, an operation with no plan reviewed, or *)
(* the apply that destroy is confirmed for.                                *)
Begins ==
  \E op \in Op \ {"none"}, d \in Document : work'[Cli] = NewWork(op, d, NoPlan)

Confirms ==
  /\ At(Cli, "returned") /\ work[Cli].ok /\ work[Cli].op = "destroy"
  /\ work'[Cli] = NewWork("apply", work[Cli].doc, work[Cli].shown)

LEMMA BetweenOperations ==
  ASSUME TypeOK, FileInv, [CliNext]_vars, ~CommandStep
  PROVE  /\ UNCHANGED <<config, planFile, infra, spent>>
         /\ \/ UNCHANGED <<work, cmd>>
            \/ cmd' # "none" /\ (Begins \/ Confirms)
            \/ work'[Cli] = NoWork
<1> USE CliAssumption
<1>0. work \in [Worker -> Work] /\ docFile \in Document
  BY DEF TypeOK, WorkspaceTypeOK
<1>1. ASSUME NEW c \in Command \ {"none"}, StartCommand(c)
      PROVE  Begins
  <2>1. OpOf(c) \in Op \ {"none"}
    BY DEF OpOf, Op, Command
  <2>2. work'[Cli] = NewWork(OpOf(c), docFile, NoPlan)
    BY <1>0, <1>1 DEF StartCommand
  <2> QED
    BY <1>0, <2>1, <2>2 DEF Begins
<1>2. Confirm => Confirms /\ cmd' # "none"
  BY <1>0 DEF Confirm, Asks, Confirms, FileInv, At, NewWork
<1>3. EndCommand \/ Kill => work'[Cli] = NoWork
  BY <1>0 DEF EndCommand, Kill
<1> QED
  BY <1>0, <1>1, <1>2, <1>3
     DEF CliNext, Edit, StartCommand, Confirm, EndCommand, Kill, vars, cliVars

LEMMA FileInvNext ==
  ASSUME TypeOK, FileInv, [CliNext]_vars
  PROVE  FileInv' /\ (infra' # infra => ~spent)
<1> USE CliAssumption
<1>0. /\ work \in [Worker -> Work] /\ Shape(Cli) /\ (cmd = "none" => Idle(Cli))
      /\ Harmless(spent) /\ spent \in BOOLEAN /\ WorkspaceTypeOK
  BY DEF TypeOK, WorkspaceTypeOK, FileInv
<1>1. CASE ~CommandStep
  <2>1. Harmless(spent)' /\ UNCHANGED infra
    BY <1>0, <1>1, BetweenOperations DEF Harmless, Target
  <2>2. CASE UNCHANGED <<work, cmd>>
    BY <1>0, <2>1, <2>2 DEF FileInv, Shape, At, Idle
  <2>3. CASE cmd' # "none" /\ (Begins \/ Confirms)
    <3>1. Shape(Cli)'
      <4>1. PICK op, d, p : work'[Cli] = NewWork(op, d, p)
        BY <2>3 DEF Begins, Confirms
      <4> QED
        BY <4>1 DEF Shape, At, Idle, NewWork
    <3> QED
      BY <2>1, <2>3, <3>1 DEF FileInv
  <2>4. CASE work'[Cli] = NoWork
    BY <2>1, <2>4 DEF FileInv, Shape, At, Idle, NoWork, NewWork
  <2> QED
    BY <1>1, <2>2, <2>3, <2>4, BetweenOperations
<1>2. CASE CommandStep
  <2>1. /\ WorkStep(Cli) /\ UNCHANGED cmd
        /\ spent' = (((spent /\ ~Writes(Cli)) \/ Runs(Cli)) /\ planFile' # NoPlan)
    BY <1>2 DEF CommandStep
  <2>2. Shape(Cli)' /\ cmd' # "none"
    BY <1>0, <2>1, ShapeStep, StepKeeps DEF Idle
  <2>3. Harmless(spent)' /\ (infra' # infra => ~spent)
    BY <1>0, <2>1, TakesEffectStep
  <2> QED
    BY <2>2, <2>3 DEF FileInv
<1> QED
  BY <1>1, <1>2

(* The infrastructure moves at most once for each plan file that tofu      *)
(* writes: applies that are killed or repeated and files that cannot be    *)
(* removed do not lead to a second effect (workspace.go:202-206).          *)
THEOREM PlanHasOneEffect == CliSpec => PlanTakesEffectOnce
<1>1. TypeOK /\ FileInv /\ [CliNext]_vars => FileInv'
  BY FileInvNext
<1>2. TypeOK /\ FileInv /\ [CliNext]_vars => [infra' # infra => ~spent]_vars
  BY FileInvNext
<1> QED
  BY <1>1, <1>2, FileInvInit, CliTypeOK, PTL DEF CliSpec, PlanTakesEffectOnce

-----------------------------------------------------------------------------
(* The plan a destroy shows is in the plan file and of the diagram the     *)
(* command loaded, from tofu show on until its apply carries it out:       *)
(* editing the diagram changes neither.                                    *)
PlannedOf(w) ==
  /\ At(w, "sync") \/ At(w, "init") \/ At(w, "plan") => config = DiagramOf(work[w].doc)
  /\ At(w, "show") /\ planFile # NoPlan => planFile.config = DiagramOf(work[w].doc)
  /\ At(w, "returned") /\ work[w].ok /\ work[w].op \in {"plan", "destroy"} =>
       /\ planFile # NoPlan /\ work[w].shown = planFile
       /\ planFile.config = DiagramOf(work[w].doc)

ReviewedOf(w) ==
  /\ work[w].op # "apply" => work[w].reviewed = NoPlan
  /\ work[w].reviewed # NoPlan /\ (At(w, "stat") \/ At(w, "apply")) =>
       /\ planFile = work[w].reviewed
       /\ planFile.config = DiagramOf(work[w].doc)

ShownInv == PlannedOf(Cli) /\ ReviewedOf(Cli)

LEMMA ShownInvInit == CliInit => ShownInv
  BY CliAssumption
     DEF CliInit, WorkspaceInit, ShownInv, PlannedOf, ReviewedOf, At, Idle, NoWork, NewWork

(* Each step of an operation keeps what PlannedOf promises of it: either   *)
(* the step moves it to where nothing is promised, or it makes it so.      *)
LEMMA PlannedStep ==
  ASSUME WorkspaceTypeOK, NEW w \in Worker, Shape(w), PlannedOf(w), WorkStep(w)
  PROVE  PlannedOf(w)'
<1>0. /\ work \in [Worker -> Work]
      /\ work'[w].op = work[w].op /\ work'[w].doc = work[w].doc
  BY StepKeeps DEF WorkspaceTypeOK
<1>1. CASE Failed(w)'
  BY <1>1 DEF PlannedOf, Failed, At
<1>2. CASE Generate(w)
  <2>1. work'[w].pc = "sync" /\ config' = DiagramOf(work[w].doc)
    BY <1>0, <1>2, StepLeads DEF Generate
  <2> QED
    BY <1>0, <2>1 DEF PlannedOf, At
<1>3. CASE (SyncModules(w) \/ TofuInit(w)) /\ ~Failed(w)'
  <2>1. /\ work'[w].pc \in {"init", "plan"} /\ UNCHANGED config
        /\ config = DiagramOf(work[w].doc)
    BY <1>0, <1>3, StepLeads DEF SyncModules, TofuInit, PlannedOf
  <2> QED
    BY <1>0, <2>1 DEF PlannedOf, At
<1>4. CASE TofuPlan(w) /\ ~Failed(w)'
  <2>1. work'[w].pc = "show" /\ config = DiagramOf(work[w].doc)
    BY <1>0, <1>4, StepLeads DEF TofuPlan, PlannedOf
  <2>2. modules
    BY <1>0, <1>4, WorkMoved DEF TofuPlan, Failed, Step
  <2>3. planFile'.config = config
    BY <1>4, <2>2 DEF TofuPlan, NewPlan
  <2> QED
    BY <1>0, <2>1, <2>3 DEF PlannedOf, At
<1>5. CASE ShowPlan(w) /\ ~Failed(w)'
  <2>1. /\ planFile # NoPlan /\ work'[w].shown = planFile /\ UNCHANGED planFile
        /\ planFile.config = DiagramOf(work[w].doc)
        /\ work'[w].pc \in {"discard", "returned"}
    BY <1>0, <1>5, StepLeads DEF ShowPlan, PlannedOf
  <2> QED
    BY <1>0, <2>1 DEF PlannedOf, At
<1>6. CASE DiscardPlan(w)
  <2>1. work[w].op = "drift" /\ work'[w].pc = "returned"
    BY <1>0, <1>6, StepLeads DEF DiscardPlan, Shape
  <2> QED
    BY <1>0, <2>1 DEF PlannedOf, At
<1>7. CASE StatPlan(w) \/ TofuApply(w) \/ RemovePlan(w) \/ ReadOutputs(w) \/ WriteBack(w)
  <2>1. /\ work[w].op = "apply"
        /\ work'[w].pc \in {"apply", "remove", "outputs", "writeback", "returned"}
    BY <1>0, <1>7, StepLeads
       DEF StatPlan, TofuApply, RemovePlan, ReadOutputs, WriteBack, Shape, Failed
  <2> QED
    BY <1>0, <2>1 DEF PlannedOf, At
<1> QED
  BY <1>0, <1>1, <1>2, <1>3, <1>4, <1>5, <1>6, <1>7, StepLeads DEF WorkStep

(* No step before tofu apply changes the file.                             *)
LEMMA ReviewedStep ==
  ASSUME WorkspaceTypeOK, NEW w \in Worker, Shape(w), ReviewedOf(w), WorkStep(w)
  PROVE  ReviewedOf(w)'
<1>0. /\ work \in [Worker -> Work]
      /\ work'[w].op = work[w].op /\ work'[w].doc = work[w].doc
      /\ work'[w].reviewed = work[w].reviewed
  BY StepKeeps DEF WorkspaceTypeOK
<1>1. CASE StatPlan(w)
  <2>1. UNCHANGED planFile /\ At(w, "stat")
    BY <1>1 DEF StatPlan
  <2> QED
    BY <1>0, <2>1 DEF ReviewedOf, At, Idle
<1>2. CASE ~StatPlan(w)
  <2>1. work'[w].pc \notin {"stat", "apply"}
    BY <1>0, <1>2, StepLeads DEF WorkStep, Failed
  <2> QED
    BY <1>0, <2>1 DEF ReviewedOf, At
<1> QED
  BY <1>1, <1>2

LEMMA ShownInvNext ==
  ASSUME TypeOK, FileInv, ShownInv, [CliNext]_vars
  PROVE  ShownInv'
<1> USE CliAssumption
<1>0. WorkspaceTypeOK /\ Shape(Cli) /\ work[Cli] \in Work
  BY DEF TypeOK, WorkspaceTypeOK, FileInv
<1>1. CASE CommandStep
  BY <1>0, <1>1, PlannedStep, ReviewedStep DEF CommandStep, ShownInv
<1>2. CASE ~CommandStep
  <2>1. UNCHANGED <<config, planFile>>
    BY <1>2, BetweenOperations
  <2>2. CASE UNCHANGED work
    BY <2>1, <2>2 DEF ShownInv, PlannedOf, ReviewedOf, At, Idle
  <2>3. CASE Begins
    <3>1. PICK op, d : work'[Cli] = NewWork(op, d, NoPlan)
      BY <2>3 DEF Begins
    <3> QED
      BY <3>1 DEF ShownInv, PlannedOf, ReviewedOf, At, NewWork
  <2>4. CASE Confirms
    <3>1. /\ planFile # NoPlan /\ work[Cli].shown = planFile
          /\ planFile.config = DiagramOf(work[Cli].doc)
      BY <2>4 DEF Confirms, ShownInv, PlannedOf
    <3>2. /\ work'[Cli].op = "apply" /\ work'[Cli].pc = "stat"
          /\ work'[Cli].reviewed = planFile /\ work'[Cli].doc = work[Cli].doc
      BY <2>4, <3>1 DEF Confirms, NewWork
    <3> QED
      BY <2>1, <3>1, <3>2 DEF ShownInv, PlannedOf, ReviewedOf, At
  <2>5. CASE work'[Cli] = NoWork
    BY <2>5 DEF ShownInv, PlannedOf, ReviewedOf, At, Idle, NoWork, NewWork
  <2> QED
    BY <1>2, <2>2, <2>3, <2>4, <2>5, BetweenOperations
<1> QED
  BY <1>1, <1>2

(* `iagram destroy` runs the teardown it showed and asked about, of the    *)
(* diagram it was planned from, whatever is edited meanwhile and whatever  *)
(* failed or was killed before (runDestroy keeps the document it loaded).  *)
THEOREM DestroyRunsWhatItShowed == CliSpec => DestroyRunsWhatWasShown
<1>1. TypeOK /\ FileInv /\ [CliNext]_vars => FileInv'
  BY FileInvNext
<1>2. TypeOK /\ FileInv /\ ShownInv /\ [CliNext]_vars => ShownInv'
  BY ShownInvNext
<1>3. ShownInv => [Runs(Cli) /\ work[Cli].reviewed # NoPlan =>
                     /\ planFile = work[Cli].reviewed
                     /\ planFile.config = DiagramOf(work[Cli].doc)]_vars
  BY DEF ShownInv, ReviewedOf, Runs
<1> QED
  BY <1>1, <1>2, <1>3, FileInvInit, ShownInvInit, CliTypeOK, PTL
     DEF CliSpec, DestroyRunsWhatWasShown
=============================================================================

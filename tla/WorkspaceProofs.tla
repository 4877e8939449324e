--------------------------- MODULE WorkspaceProofs ---------------------------
(***************************************************************************)
(* Lemmas about the operations of the workspace, whoever executes them:    *)
(* the server's job (PlanServerProofs) or a command (PlanCliProofs).       *)
(***************************************************************************)
EXTENDS Workspace, TLAPS

LEMMA NullDocumentType == NullDocument \in Document
  BY WorkspaceAssumption DEF NullDocument, Document

LEMMA DiagramOfType == ASSUME NEW d \in Document PROVE DiagramOf(d) \in Diagram
  BY DEF DiagramOf, Document, Diagram

LEMMA NewWorkType ==
  ASSUME NEW op \in Op, NEW d \in Document, NEW p \in Plan \cup {NoPlan}
  PROVE  NewWork(op, d, p) \in Work
  BY DEF NewWork, Work, Op, Step

LEMMA NoWorkType == NoWork \in Work
<1>1. NewWork("none", NullDocument, NoPlan) \in Work
  BY NewWorkType, NullDocumentType DEF Op
<1> QED
  BY <1>1 DEF NoWork, Work, Step

(* The three ways a worker moves keep its record a record of Work.         *)
LEMMA MoveType ==
  ASSUME work \in [Worker -> Work], NEW w \in Worker,
         Fail(w) \/ Succeed(w) \/ \E pc \in Step : Advance(w, pc)
  PROVE  work' \in [Worker -> Work]
<1>1. \A j \in Work : \A pc \in Step, ok \in BOOLEAN :
        /\ [j EXCEPT !.pc = pc] \in Work
        /\ [j EXCEPT !.pc = pc, !.ok = ok] \in Work
  BY DEF Work
<1>2. CASE \E pc \in Step : Advance(w, pc)
  <2>1. PICK pc \in Step : work' = [work EXCEPT ![w].pc = pc]
    BY <1>2 DEF Advance
  <2>2. [work[w] EXCEPT !.pc = pc] \in Work
    BY DEF Work
  <2> QED
    BY <2>1, <2>2
<1>3. CASE Fail(w)
  BY <1>1, <1>3 DEF Fail, Step
<1>4. CASE Succeed(w)
  BY <1>1, <1>4 DEF Succeed, Step
<1> QED
  BY <1>2, <1>3, <1>4

LEMMA WorkStepType ==
  ASSUME WorkspaceTypeOK, NEW w \in Worker, WorkStep(w)
  PROVE  WorkspaceTypeOK'
<1> USE DEF WorkspaceTypeOK
<1>0. work[w] \in Work /\ work[w].doc \in Document
  BY DEF Work
<1>1. DiagramOf(work[w].doc) \in Diagram
  BY <1>0, DiagramOfType
<1>2. NewPlan(w) \in Plan
  BY DEF NewPlan, KindOf, Plan, Kind, Infra
<1>3. planFile # NoPlan => Applied(planFile) \in Infra
  BY DEF Applied, Target, Infra, Plan
<1>4. [serial |-> infra.serial + 1, deployed |-> Partial] \in Infra
  BY DEF Infra
<1>5. planFile # NoPlan => Stopped(planFile) \subseteq Infra
  BY <1>3, <1>4 DEF Stopped
<1>6. CASE Generate(w) \/ SyncModules(w) \/ TofuInit(w) \/ TofuPlan(w) \/ DiscardPlan(w)
           \/ StatPlan(w) \/ TofuApply(w) \/ RemovePlan(w) \/ FailStep(w)
           \/ FailAfterPlan(w) \/ FailMidApply(w)
  <2>1. Fail(w) \/ Succeed(w) \/ \E pc \in Step : Advance(w, pc)
    BY <1>6 DEF Generate, SyncModules, TofuInit, TofuPlan, DiscardPlan, StatPlan,
                TofuApply, RemovePlan, FailStep, FailAfterPlan, FailMidApply, Step
  <2>2. work' \in [Worker -> Work]
    BY <2>1, MoveType
  <2>3. /\ docFile' \in Document /\ config' \in Diagram /\ modules' \in BOOLEAN
        /\ planFile' \in Plan \cup {NoPlan}
    BY <1>1, <1>2, <1>6
       DEF Generate, SyncModules, TofuInit, TofuPlan, DiscardPlan, StatPlan, Removed,
           TofuApply, RemovePlan, FailStep, FailAfterPlan, FailMidApply
  <2>4. infra' \in Infra
    BY <1>3, <1>5, <1>6
       DEF Generate, SyncModules, TofuInit, TofuPlan, DiscardPlan, StatPlan, Applicable,
           TofuApply, RemovePlan, FailStep, FailAfterPlan, FailMidApply
  <2> QED
    BY <2>2, <2>3, <2>4
<1>7. CASE ShowPlan(w)
  <2>1. CASE planFile = NoPlan
    BY <1>7, <2>1, MoveType DEF ShowPlan
  <2>2. CASE planFile # NoPlan
    BY <1>7, <2>2 DEF ShowPlan, Work, Step
  <2> QED
    BY <2>1, <2>2
<1>8. CASE ReadOutputs(w)
  <2>1. infra.serial \in Nat
    BY DEF Infra
  <2>2. \A n \in Nat : [work[w] EXCEPT !.pc = "writeback", !.outs = n] \in Work
    BY <1>0 DEF Work, Step
  <2>3. PICK n \in Nat : work' = [work EXCEPT ![w].pc = "writeback", ![w].outs = n]
    BY <1>8, <2>1 DEF ReadOutputs
  <2>4. work' \in [Worker -> Work]
    BY <2>2, <2>3
  <2> QED
    BY <1>8, <2>4 DEF ReadOutputs
<1>9. CASE WriteBack(w)
  <2>1. docFile' \in Document
    BY <1>0, <1>9 DEF WriteBack, Document, Work
  <2> QED
    BY <1>9, <2>1, MoveType DEF WriteBack
<1> QED
  BY <1>6, <1>7, <1>8, <1>9 DEF WorkStep

-----------------------------------------------------------------------------
(* Which steps touch the plan file and the state.                          *)
LEMMA StepTouches ==
  ASSUME NEW w \in Worker, WorkStep(w)
  PROVE  /\ UNCHANGED planFile \/ planFile' = NoPlan \/ (At(w, "plan") /\ planFile' = NewPlan(w))
         /\ \/ UNCHANGED infra
            \/ At(w, "apply") /\ Applicable /\ infra' \in Stopped(planFile)
         /\ At(w, "apply") => UNCHANGED planFile
  BY DEF WorkStep, Generate, SyncModules, TofuInit, TofuPlan, ShowPlan, DiscardPlan, Removed,
         StatPlan, TofuApply, RemovePlan, ReadOutputs, WriteBack, FailStep, FailAfterPlan,
         FailMidApply, Stopped, At

(* What a move of a worker leaves in its record.                           *)
LEMMA WorkMoved ==
  ASSUME work \in [Worker -> Work], NEW w \in Worker, NEW pc \in Step
  PROVE  /\ Advance(w, pc) => /\ work'[w].pc = pc
                              /\ work'[w].op = work[w].op
                              /\ work'[w].ok = work[w].ok
         /\ Fail(w) => /\ work'[w].pc = "returned" /\ work'[w].op = work[w].op
                       /\ work'[w].ok = FALSE
         /\ Succeed(w) => /\ work'[w].pc = "returned" /\ work'[w].op = work[w].op
                          /\ work'[w].ok = TRUE
  BY DEF Work, Advance, Fail, Succeed

(* The steps of an operation that plans are not those of an apply.         *)
Shape(w) ==
  /\ At(w, "discard") => work[w].op = "drift"
  /\ \A pc \in {"generate", "sync", "init", "plan", "show", "discard"} :
       At(w, pc) => work[w].op # "apply"
  /\ \A pc \in {"stat", "apply", "remove", "outputs", "writeback"} :
       At(w, pc) => work[w].op = "apply"

(* A step keeps the document, the operation and the reviewed plan.         *)
LEMMA StepKeeps ==
  ASSUME work \in [Worker -> Work], NEW w \in Worker, WorkStep(w)
  PROVE  /\ work'[w].op = work[w].op /\ work'[w].doc = work[w].doc
         /\ work'[w].reviewed = work[w].reviewed
         /\ ~Idle(w)
  BY DEF WorkStep, Generate, SyncModules, TofuInit, TofuPlan, ShowPlan, DiscardPlan,
         StatPlan, TofuApply, RemovePlan, ReadOutputs, WriteBack, FailStep, FailAfterPlan,
         FailMidApply, Advance, Fail, Succeed, At, Work

(* Where each step leads, whether it succeeds or fails.                    *)
Failed(w) == work[w].pc = "returned" /\ ~work[w].ok

LEMMA StepLeads ==
  ASSUME work \in [Worker -> Work], NEW w \in Worker
  PROVE  /\ Generate(w) => work'[w].pc = "sync"
         /\ SyncModules(w) => work'[w].pc = "init"
         /\ TofuInit(w) => work'[w].pc = "plan" \/ Failed(w)'
         /\ TofuPlan(w) => work'[w].pc = "show" \/ Failed(w)'
         /\ ShowPlan(w) => \/ Failed(w)'
                           \/ /\ planFile # NoPlan /\ work'[w].shown = planFile
                              /\ work'[w].pc = IF work[w].op = "drift" THEN "discard" ELSE "returned"
         /\ DiscardPlan(w) => work'[w].pc = "returned"
         /\ StatPlan(w) => Failed(w)' \/ work'[w].pc = "apply"
         /\ TofuApply(w) => Failed(w)' \/ (Applicable /\ work'[w].pc = "remove")
         /\ RemovePlan(w) => work'[w].pc = "outputs"
         /\ ReadOutputs(w) => work'[w].pc = "writeback"
         /\ WriteBack(w) => work'[w].pc = "returned"
         /\ FailStep(w) \/ FailAfterPlan(w) \/ FailMidApply(w) => Failed(w)'
  BY DEF Generate, SyncModules, TofuInit, TofuPlan, ShowPlan, DiscardPlan,
         StatPlan, TofuApply, RemovePlan, ReadOutputs, WriteBack, FailStep, FailAfterPlan,
         FailMidApply, Advance, Fail, Succeed, Work, Failed

LEMMA ShapeStep ==
  ASSUME work \in [Worker -> Work], NEW w \in Worker, Shape(w), WorkStep(w)
  PROVE  Shape(w)'
  BY StepKeeps, StepLeads
     DEF Shape, At, Idle, WorkStep, Generate, SyncModules, TofuInit, TofuPlan, ShowPlan,
         DiscardPlan, StatPlan, TofuApply, RemovePlan, ReadOutputs, WriteBack, Failed

(* Outputs are read from the state and saved by steps that do not change   *)
(* it, and only tofu apply, which comes before both, does.  They stay in   *)
(* the file unless (b) somebody else replaces it.                          *)
Present == IF infra.deployed = Nothing THEN 0 ELSE infra.serial

WritesBack(w, b) ==
  /\ At(w, "writeback") => work[w].outs = Present
  /\ b /\ work[w].op = "apply" /\ work[w].pc \in {"returned", "recorded"} /\ work[w].ok
       => docFile.outs = Present

LEMMA WritesBackStep ==
  ASSUME WorkspaceTypeOK, NEW w \in Worker, NEW b \in BOOLEAN, Shape(w), WritesBack(w, b),
         WorkStep(w)
  PROVE  WritesBack(w, b)'
<1>0. /\ work \in [Worker -> Work] /\ work[w] \in Work
      /\ work'[w].op = work[w].op
  BY StepKeeps DEF WorkspaceTypeOK
<1>1. CASE ReadOutputs(w)
  <2>1. work'[w].pc = "writeback" /\ work'[w].outs = Present /\ UNCHANGED infra
    BY <1>0, <1>1 DEF ReadOutputs, Present, Work
  <2> QED
    BY <2>1 DEF WritesBack, Present
<1>2. CASE WriteBack(w)
  <2>1. /\ work[w].outs = Present /\ work'[w].pc = "returned" /\ UNCHANGED infra
        /\ docFile' = [work[w].doc EXCEPT !.outs = work[w].outs]
    BY <1>0, <1>2, StepLeads DEF WriteBack, WritesBack
  <2>2. docFile'.outs = Present
    BY <1>0, <2>1 DEF Work, Document
  <2> QED
    BY <2>1, <2>2 DEF WritesBack, Present, At
<1>3. CASE ~ReadOutputs(w) /\ ~WriteBack(w)
  <2>1. \/ work'[w].pc \notin {"writeback", "returned", "recorded"}
        \/ Failed(w)'
        \/ work[w].op # "apply" /\ work'[w].pc = "returned"
    BY <1>0, <1>3, StepLeads
       DEF WorkStep, Shape, ShowPlan, DiscardPlan
  <2> QED
    BY <1>0, <2>1 DEF WritesBack, Failed, At
<1> QED
  BY <1>1, <1>2, <1>3

-----------------------------------------------------------------------------
(* A plan file that was carried out (b) is one tofu refuses, its serial    *)
(* being that of an older state, or one that has nothing left to do.       *)
Harmless(b) ==
  planFile # NoPlan =>
    /\ planFile.base <= infra.serial
    /\ b => planFile.base < infra.serial \/ Target(planFile) = infra.deployed

LEMMA AppliedWhat ==
  ASSUME infra \in Infra, NEW p \in Plan, NEW i \in Stopped(p)
  PROVE  i = infra \/ (i.serial = infra.serial + 1 /\ Target(p) # infra.deployed)
  BY DEF Stopped, Applied, Infra

LEMMA TakesEffectStep ==
  ASSUME WorkspaceTypeOK, NEW w \in Worker, WorkStep(w), NEW b \in BOOLEAN, Harmless(b),
         NEW c \in BOOLEAN, c = (((b /\ ~Writes(w)) \/ Runs(w)) /\ planFile' # NoPlan)
  PROVE  Harmless(c)' /\ (infra' # infra => ~b)
<1>0. /\ infra \in Infra /\ infra.serial \in Nat /\ planFile \in Plan \cup {NoPlan}
      /\ work \in [Worker -> Work]
      /\ planFile # NoPlan => planFile.base \in Nat
  BY DEF WorkspaceTypeOK, Infra, Plan
<1>1. CASE At(w, "apply") /\ Applicable /\ infra' \in Stopped(planFile) /\ infra' # infra
  <2>1. /\ planFile # NoPlan /\ planFile.base = infra.serial
        /\ infra'.serial = infra.serial + 1 /\ Target(planFile) # infra.deployed
    BY <1>0, <1>1, AppliedWhat DEF Applicable
  <2>2. ~b
    BY <1>0, <2>1 DEF Harmless
  <2>3. planFile' = planFile
    BY <1>1, StepTouches
  <2> QED
    BY <1>0, <2>1, <2>2, <2>3 DEF Harmless
<1>2. CASE UNCHANGED infra /\ planFile' # NoPlan /\ UNCHANGED planFile
  <2>1. CASE Runs(w)
    <3>1. At(w, "apply") /\ work'[w].pc = "remove"
      BY <1>2, <2>1 DEF Runs
    <3>2. TofuApply(w) /\ Applicable
      BY <1>0, <3>1, StepLeads DEF WorkStep, Failed, Generate, SyncModules, TofuInit,
         TofuPlan, ShowPlan, DiscardPlan, StatPlan, RemovePlan, ReadOutputs, WriteBack, At
    <3>3. Applied(planFile) = infra
      BY <1>2, <3>2 DEF TofuApply
    <3>4. Target(planFile) = infra.deployed
      BY <1>0, <3>3 DEF Applied, Infra
    <3>5. Target(planFile)' = Target(planFile)
      BY <1>2 DEF Target
    <3> QED
      BY <1>0, <1>2, <3>4, <3>5 DEF Harmless
  <2>2. CASE ~Runs(w)
    <3>1. Target(planFile)' = Target(planFile)
      BY <1>2 DEF Target
    <3> QED
      BY <1>0, <1>2, <2>2, <3>1 DEF Harmless
  <2> QED
    BY <2>1, <2>2
<1>3. CASE UNCHANGED infra /\ planFile' # planFile /\ planFile' # NoPlan
  <2>1. At(w, "plan") /\ planFile' = NewPlan(w)
    BY <1>3, StepTouches
  <2>2. ~c /\ planFile'.base = infra.serial
    BY <1>3, <2>1 DEF Writes, Runs, At, NewPlan
  <2> QED
    BY <1>0, <1>3, <2>2 DEF Harmless
<1>4. CASE UNCHANGED infra /\ planFile' = NoPlan
  BY <1>4 DEF Harmless
<1> QED
  BY <1>1, <1>2, <1>3, <1>4, StepTouches
=============================================================================

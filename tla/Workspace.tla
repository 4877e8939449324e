----------------------------- MODULE Workspace ------------------------------
(***************************************************************************)
(* The per-diagram working directory of src/internal/workspace and the     *)
(* operations on it: plan, plan -destroy, drift and apply, each a sequence *)
(* of steps on shared files.  A worker is whoever executes an operation:   *)
(* the job of `iagram up` or a command-line process.                       *)
(*                                                                         *)
(* Data.  A diagram is what Terraform generation depends on: sem, the part *)
(* that the server's hashDoc covers, and wire, the connection details it   *)
(* does not (an edge's attr, output, type, name and props).  A document is *)
(* a diagram plus the outputs written back onto its nodes, named by the    *)
(* serial of the state they were read from (0: no outputs).                *)
(*                                                                         *)
(* tofu and the files of the directory are external to src/: a plan file   *)
(* names the configuration it was made from and the state serial it is     *)
(* valid for, and tofu refuses to apply it to another serial.              *)
(***************************************************************************)
EXTENDS Naturals

CONSTANTS
  Sem, Wire,      \* contents of diagrams
  Worker,         \* who executes operations
  NoPlan,         \* no plan file, no plan result
  Nothing,        \* nothing is deployed
  Partial,        \* an apply stopped half way
  Faults          \* steps may fail or be killed

Diagram == [sem : Sem, wire : Wire]
Document == [sem : Sem, wire : Wire, outs : Nat]
Kind == {"update", "destroy", "refresh"}
Plan == [kind : Kind, config : Diagram, base : Nat]
Infra == [serial : Nat, deployed : Diagram \cup {Nothing, Partial}]

ASSUME WorkspaceAssumption ==
  /\ Sem # {} /\ Wire # {}
  /\ NoPlan \notin Plan
  /\ Nothing \notin Diagram /\ Partial \notin Diagram /\ Nothing # Partial
  /\ Faults \in BOOLEAN

VARIABLES
  docFile,     \* the diagram file
  config,      \* .iagram/tf/main.tf.json
  modules,     \* .iagram/tf/modules is complete
  planFile,    \* .iagram/tf/plan.tfplan
  infra,       \* the Terraform state and what it describes
  work         \* [Worker -> Work], the operation each worker executes

wsVars == <<docFile, config, modules, planFile, infra, work>>

Op == {"none", "plan", "destroy", "drift", "apply"}
Step == {"generate", "sync", "init", "plan", "show", "discard",
         "stat", "apply", "remove", "outputs", "writeback", "returned", "recorded"}
Work == [op : Op, pc : Step, doc : Document, reviewed : Plan \cup {NoPlan},
         shown : Plan \cup {NoPlan}, outs : Nat, ok : BOOLEAN]

DiagramOf(d) == [sem |-> d.sem, wire |-> d.wire]
(* Variant: the kind of a plan is the name of the operation.               *)
KindIsOp(op) == op

(* The flags each operation gives to tofu plan.                            *)
KindOf(op) == CASE op = "destroy" -> "destroy" [] op = "drift" -> "refresh" [] OTHER -> "update"

(* An operation starts with the document its caller loaded.                *)
NewWork(op, doc, reviewed) ==
  [op |-> op, pc |-> IF op = "apply" THEN "stat" ELSE "generate", doc |-> doc,
   reviewed |-> reviewed, shown |-> NoPlan, outs |-> 0, ok |-> FALSE]

(* An idle worker has no local state.                                      *)
NullDocument == [sem |-> CHOOSE s \in Sem : TRUE, wire |-> CHOOSE x \in Wire : TRUE, outs |-> 0]
NoWork == [NewWork("none", NullDocument, NoPlan) EXCEPT !.pc = "returned"]

Idle(w) == work[w].op = "none"
At(w, pc) == ~Idle(w) /\ work[w].pc = pc
Advance(w, pc) == work' = [work EXCEPT ![w].pc = pc]
Succeed(w) == work' = [work EXCEPT ![w].pc = "returned", ![w].ok = TRUE]
Fail(w) == work' = [work EXCEPT ![w].pc = "returned", ![w].ok = FALSE]

WorkspaceInit ==
  /\ docFile \in [sem : Sem, wire : Wire, outs : {0}]
  /\ config = DiagramOf(docFile)
  /\ modules = FALSE
  /\ planFile = NoPlan
  /\ infra = [serial |-> 0, deployed |-> Nothing]
  /\ work = [w \in Worker |-> NoWork]

-----------------------------------------------------------------------------
(* Workspace.Generate, up to syncModules: main.tf.json is written and the  *)
(* modules directory is removed, ...                                       *)
Generate(w) ==
  /\ At(w, "generate")
  /\ config' = DiagramOf(work[w].doc)
  /\ modules' = FALSE
  /\ Advance(w, "sync")
  /\ UNCHANGED <<docFile, planFile, infra>>

(* ... then copied again.                                                  *)
SyncModules(w) ==
  /\ At(w, "sync")
  /\ modules' = TRUE
  /\ Advance(w, "init")
  /\ UNCHANGED <<docFile, config, planFile, infra>>

(* tofu.Ensure and tofu init, which loads the local modules.               *)
TofuInit(w) ==
  /\ At(w, "init")
  /\ IF modules THEN Advance(w, "plan") ELSE Fail(w)
  /\ UNCHANGED <<docFile, config, modules, planFile, infra>>

(* tofu plan -out=plan.tfplan, with -destroy or -refresh-only.             *)
NewPlan(w) == [kind |-> KindOf(work[w].op), config |-> config, base |-> infra.serial]

TofuPlan(w) ==
  /\ At(w, "plan")
  /\ IF modules
     THEN planFile' = NewPlan(w) /\ Advance(w, "show")
     ELSE Fail(w) /\ UNCHANGED planFile
  /\ UNCHANGED <<docFile, config, modules, infra>>

(* tofu show reads the plan file back.                                     *)
ShowPlan(w) ==
  /\ At(w, "show")
  /\ IF planFile = NoPlan
     THEN Fail(w)
     ELSE work' = [work EXCEPT ![w].shown = planFile,
                               ![w].pc = IF work[w].op = "drift" THEN "discard" ELSE "returned",
                               ![w].ok = work[w].op # "drift"]
  /\ UNCHANGED <<docFile, config, modules, planFile, infra>>

(* _ = os.Remove(plan.tfplan): when it fails the file stays.               *)
Removed == planFile' = NoPlan \/ (Faults /\ UNCHANGED planFile)

(* Drift removes the plan file; an error of os.Remove is ignored.          *)
DiscardPlan(w) ==
  /\ At(w, "discard")
  /\ Removed
  /\ Succeed(w)
  /\ UNCHANGED <<docFile, config, modules, infra>>

-----------------------------------------------------------------------------
(* Workspace.Apply: os.Stat of the plan file, tofu.Ensure,                 *)
StatPlan(w) ==
  /\ At(w, "stat")
  /\ IF planFile = NoPlan THEN Fail(w) ELSE Advance(w, "apply")
  /\ UNCHANGED <<docFile, config, modules, planFile, infra>>

(* tofu apply plan.tfplan: refused when there is no file or the state has  *)
(* moved since; otherwise the state becomes what the plan says, with a new *)
(* serial unless nothing changes.                                          *)
Applicable == planFile # NoPlan /\ planFile.base = infra.serial

Target(p) ==
  CASE p.kind = "update" -> p.config
    [] p.kind = "destroy" -> Nothing
    [] OTHER -> infra.deployed

Applied(p) ==
  IF Target(p) = infra.deployed THEN infra
  ELSE [serial |-> infra.serial + 1, deployed |-> Target(p)]

(* Variant: tofu apply is not given the plan file and plans again.         *)
ApplyConfiguration(w) ==
  /\ At(w, "apply")
  /\ infra' = Applied([kind |-> "update", config |-> config, base |-> infra.serial])
  /\ Advance(w, "remove")
  /\ UNCHANGED <<docFile, config, modules, planFile>>

(* The error of tofu apply is returned before the file is removed.         *)
TofuApply(w) ==
  /\ At(w, "apply")
  /\ IF Applicable
     THEN infra' = Applied(planFile) /\ Advance(w, "remove")
     ELSE Fail(w) /\ UNCHANGED infra
  /\ UNCHANGED <<docFile, config, modules, planFile>>

(* "The plan file is single-use", but an error of os.Remove is ignored.    *)
RemovePlan(w) ==
  /\ At(w, "remove")
  /\ Removed
  /\ Advance(w, "outputs")
  /\ UNCHANGED <<docFile, config, modules, infra>>

(* tofu output; after a destroy there is none.                             *)
ReadOutputs(w) ==
  /\ At(w, "outputs")
  /\ work' = [work EXCEPT ![w].pc = "writeback",
                          ![w].outs = IF infra.deployed = Nothing THEN 0 ELSE infra.serial]
  /\ UNCHANGED <<docFile, config, modules, planFile, infra>>

(* Variant: the document is saved without its new outputs.                 *)
WriteBackNothing(w) ==
  /\ At(w, "writeback")
  /\ docFile' = work[w].doc
  /\ Succeed(w)
  /\ UNCHANGED <<config, modules, planFile, infra>>

(* Variant: the outputs are written onto the diagram that was planned.     *)
WriteBackPlanned(w) ==
  /\ At(w, "writeback")
  /\ docFile' = [sem |-> config.sem, wire |-> config.wire, outs |-> work[w].outs]
  /\ Succeed(w)
  /\ UNCHANGED <<config, modules, planFile, infra>>

(* WriteOutputs sets or clears the outputs of every node of the document   *)
(* the operation was given, and d.Save replaces the diagram file by it.    *)
WriteBack(w) ==
  /\ At(w, "writeback")
  /\ docFile' = [work[w].doc EXCEPT !.outs = work[w].outs]
  /\ Succeed(w)
  /\ UNCHANGED <<config, modules, planFile, infra>>

-----------------------------------------------------------------------------
(* Errors and cancellation.  Any step may fail before it has an effect     *)
(* (validation, download, tofu's own errors, a kill).  The two removals    *)
(* return no error and look at no context: they fail in Removed.  That the *)
(* process itself dies is a step of the modules that run operations.       *)
FailStep(w) ==
  /\ Faults
  /\ ~Idle(w) /\ work[w].pc \notin {"remove", "discard", "returned", "recorded"}
  /\ Fail(w)
  /\ UNCHANGED <<docFile, config, modules, planFile, infra>>

(* tofu plan may be killed after it wrote the plan file;                   *)
FailAfterPlan(w) ==
  /\ Faults
  /\ At(w, "plan") /\ modules
  /\ planFile' = NewPlan(w)
  /\ Fail(w)
  /\ UNCHANGED <<docFile, config, modules, infra>>

(* tofu apply may stop after it changed some resources, or all of them.    *)
Stopped(p) ==
  {Applied(p)} \cup
  {i \in {[serial |-> infra.serial + 1, deployed |-> Partial]} : Target(p) # infra.deployed}

FailMidApply(w) ==
  /\ Faults
  /\ At(w, "apply") /\ Applicable
  /\ infra' \in Stopped(planFile)
  /\ Fail(w)
  /\ UNCHANGED <<docFile, config, modules, planFile>>

WorkStep(w) ==
  \/ Generate(w) \/ SyncModules(w) \/ TofuInit(w) \/ TofuPlan(w) \/ ShowPlan(w)
  \/ DiscardPlan(w)
  \/ StatPlan(w) \/ TofuApply(w) \/ RemovePlan(w) \/ ReadOutputs(w) \/ WriteBack(w)
  \/ FailStep(w) \/ FailAfterPlan(w) \/ FailMidApply(w)

(* What a step of w does to the plan file: tofu plan writes it, tofu apply *)
(* carries it out, wholly or in part.                                      *)
Writes(w) == At(w, "plan") /\ (work'[w].pc = "show" \/ planFile' # planFile)
Runs(w) == At(w, "apply") /\ (work'[w].pc = "remove" \/ infra' # infra)

WorkspaceTypeOK ==
  /\ docFile \in Document
  /\ config \in Diagram
  /\ modules \in BOOLEAN
  /\ planFile \in Plan \cup {NoPlan}
  /\ infra \in Infra
  /\ work \in [Worker -> Work]
=============================================================================

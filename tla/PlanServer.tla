----------------------------- MODULE PlanServer -----------------------------
(***************************************************************************)
(* The plan, apply, drift, generate and document handlers of               *)
(* src/internal/server, over the workspace.  Each request is a process     *)
(* that takes s.mu for short sections and lets it go between them; a job   *)
(* is the worker Srv of Workspace, at most one at a time as SerialExecutor *)
(* promises, followed by the epilogue its closure runs under s.mu.         *)
(*                                                                         *)
(* Refused requests (400, 409) that change nothing are not actions, and    *)
(* the drift result that the server keeps for the overlay is left out:     *)
(* GET /api/plan reads it and nothing else does.                           *)
(***************************************************************************)
EXTENDS Workspace

CONSTANTS
  Client,       \* browser tabs and API callers; one request each at a time
  Srv,          \* the worker that executes the server's jobs
  NoHash,       \* the empty lastPlanHash
  Asked,        \* bound: the jobs, apply apart, that requests ask for
  MaxSerial     \* bound: no apply is requested past this state serial

ASSUME ServerAssumption ==
  /\ Srv \in Worker /\ Srv \notin Client
  /\ NoHash \notin Sem
  /\ Asked \subseteq {"plan", "destroy", "drift"}
  /\ MaxSerial \in Nat

VARIABLES
  mu,          \* s.mu: "free" or held by the generate handler
  lastPlan,    \* s.lastPlan: what the plan job showed, or NoPlan
  lastHash,    \* s.lastPlanHash
  req          \* [Client -> Request], the handler's local variables

(* History.  No guard looks at these, only properties do.                  *)
VARIABLES
  stray,       \* the job that wrote plan.tfplan has not recorded it: a drift
               \* check, or a plan job that has not ended well
  spent,       \* tofu has carried plan.tfplan out, wholly or in part
  current,     \* an apply job runs whose request had read the plan and the
               \* hash that were still the last ones when it started
  regenerated, \* GET /api/generate replaced the configuration of the job
               \* by another one before tofu plan read it
  swapped,     \* that happened to the job that recorded lastPlan
  outdated     \* requests, and Srv for the job, that loaded a document
               \* before another edit was accepted or a job reverted one

srvVars == <<mu, lastPlan, lastHash, req>>
history == <<stray, spent, current, regenerated, swapped, outdated>>
vars == <<docFile, config, modules, planFile, infra, work,
          mu, lastPlan, lastHash, req,
          stray, spent, current, regenerated, swapped, outdated>>

Request == [op : Op, pc : {"idle", "load", "start"}, doc : Document,
            plan : Plan \cup {NoPlan}, hash : Sem \cup {NoHash}]

NoRequest == [op |-> "none", pc |-> "idle", doc |-> NullDocument, plan |-> NoPlan,
              hash |-> NoHash]

(* hashDoc covers the name, the nodes and the ends of the edges.           *)
hashDoc(d) == d.sem

ServerInit ==
  /\ WorkspaceInit
  /\ mu = "free"
  /\ lastPlan = NoPlan
  /\ lastHash = NoHash
  /\ req = [c \in Client |-> NoRequest]
  /\ stray = FALSE /\ spent = FALSE /\ current = FALSE
  /\ regenerated = FALSE /\ swapped = FALSE
  /\ outdated = {}

-----------------------------------------------------------------------------
(* A client waits for the answer to its request, not for the job it        *)
(* started: Save, the generated files and every other request stay         *)
(* possible while a job runs.                                              *)
Waiting(c) == req[c].pc # "idle"
MaySend(c) == ~Waiting(c)

Answer(c) == req' = [req EXCEPT ![c] = NoRequest]

(* Who has loaded a document and not finished with it.                     *)
Loaded == {c \in Client : req[c].pc = "start"}
Holders == Loaded \cup {w \in {Srv} : ~Idle(w)}

(* PUT /api/document: the whole handler is one section of s.mu.            *)
Put(c, d) ==
  /\ MaySend(c)
  /\ mu = "free"
  /\ docFile' = d
  /\ outdated' = outdated \cup Holders
  /\ UNCHANGED <<config, modules, planFile, infra, work, srvVars,
                 stray, spent, current, regenerated, swapped>>

(* POST /api/plan, /api/plan/destroy, /api/drift: load under s.mu, ...     *)
RequestRun(c, op) ==
  /\ MaySend(c)
  /\ mu = "free"
  /\ req' = [req EXCEPT ![c] = [NoRequest EXCEPT !.op = op, !.pc = "start", !.doc = docFile]]
  /\ UNCHANGED <<wsVars, mu, lastPlan, lastHash, history>>

(* POST /api/apply: read the last plan under s.mu, ...                     *)
RequestApply(c) ==
  /\ MaySend(c)
  /\ mu = "free"
  /\ lastPlan # NoPlan
  /\ infra.serial < MaxSerial
  /\ req' = [req EXCEPT ![c] = [NoRequest EXCEPT
                                  !.op = "apply", !.pc = "load",
                                  !.plan = lastPlan, !.hash = lastHash]]
  /\ UNCHANGED <<wsVars, mu, lastPlan, lastHash, history>>

(* ... load the document in a second section and compare its hash, ...     *)
LoadForApply(c) ==
  /\ req[c].pc = "load"
  /\ mu = "free"
  /\ IF hashDoc(docFile) = req[c].hash
     THEN req' = [req EXCEPT ![c].pc = "start", ![c].doc = docFile]
     ELSE Answer(c)
  /\ UNCHANGED <<wsVars, mu, lastPlan, lastHash, history>>

(* The document and the plan of a request become those of its job.         *)
Inherit(c) ==
  /\ current' = (req[c].op = "apply" /\ req[c].plan = lastPlan /\ req[c].hash = lastHash)
  /\ regenerated' = FALSE
  /\ outdated' = (outdated \ {c, Srv}) \cup {w \in {Srv} : c \in outdated}

(* ... then Jobs.Start, without s.mu; ErrBusy answers 409.                 *)
StartJob(c) ==
  /\ req[c].pc = "start"
  /\ IF Idle(Srv)
     THEN /\ work' = [work EXCEPT ![Srv] = NewWork(req[c].op, req[c].doc, req[c].plan)]
          /\ Inherit(c)
     ELSE /\ outdated' = outdated \ {c}
          /\ UNCHANGED <<work, current, regenerated>>
  /\ Answer(c)
  /\ UNCHANGED <<docFile, config, modules, planFile, infra,
                 mu, lastPlan, lastHash, stray, spent, swapped>>

(* Variant: the generate handler returns with s.mu held.                   *)
GenerateKeepsLock ==
  /\ mu = "generate"
  /\ modules' = TRUE
  /\ UNCHANGED <<docFile, config, planFile, infra, work, srvVars, history>>

(* GET /api/generate: s.mu is held while the files are rewritten.  The job *)
(* that is about to read them does not hold it.                            *)
Generating == \E pc \in {"sync", "init", "plan"} : At(Srv, pc)

GenerateHandler(c) ==
  /\ MaySend(c)
  /\ mu = "free"
  /\ mu' = "generate"
  /\ config' = DiagramOf(docFile)
  /\ modules' = FALSE
  /\ regenerated' = (regenerated \/ (Generating /\ config' # DiagramOf(work[Srv].doc)))
  /\ UNCHANGED <<docFile, planFile, infra, work, lastPlan, lastHash, req,
                 stray, spent, current, swapped, outdated>>

GenerateReturns ==
  /\ mu = "generate"
  /\ mu' = "free"
  /\ modules' = TRUE
  /\ UNCHANGED <<docFile, config, planFile, infra, work, lastPlan, lastHash, req,
                 history>>

-----------------------------------------------------------------------------
(* A step of the job inside the workspace operation.                       *)
JobStep ==
  /\ WorkStep(Srv)
  /\ stray' = ((stray \/ Writes(Srv)) /\ planFile' # NoPlan)
  /\ spent' = (((spent /\ ~Writes(Srv)) \/ Runs(Srv)) /\ planFile' # NoPlan)
  /\ swapped' = (swapped /\ ~Writes(Srv) /\ planFile' # NoPlan)
  /\ outdated' = outdated \cup {c \in Loaded : DiagramOf(docFile') # DiagramOf(docFile)}
  /\ UNCHANGED <<srvVars, current, regenerated>>

Recorded(j) == j.ok /\ j.op \in {"plan", "destroy"}

(* The closures' epilogues.  A plan is remembered with its hash; an apply  *)
(* forgets the plan, whatever its outcome; a drift check leaves it.        *)
Epilogue(plan, hash) ==
  /\ At(Srv, "returned") /\ mu = "free"
  /\ CASE Recorded(work[Srv]) ->
              lastPlan' = plan /\ lastHash' = hash /\ stray' = FALSE /\ swapped' = regenerated
       [] work[Srv].op = "apply" ->
              lastPlan' = NoPlan /\ lastHash' = NoHash /\ swapped' = FALSE /\ UNCHANGED stray
       [] OTHER -> UNCHANGED <<lastPlan, lastHash, stray, swapped>>
  /\ Advance(Srv, "recorded")
  /\ current' = FALSE /\ regenerated' = FALSE
  /\ UNCHANGED <<docFile, config, modules, planFile, infra, req, spent, outdated>>

(* Variants: the hash is that of the present document; a plan that is      *)
(* remembered already is kept; a drift check returns with s.mu held.       *)
RecordPresentHash == Epilogue(work[Srv].shown, hashDoc(docFile)) /\ UNCHANGED mu

RecordFirstPlan ==
  /\ Epilogue(IF lastPlan = NoPlan THEN work[Srv].shown ELSE lastPlan, hashDoc(work[Srv].doc))
  /\ UNCHANGED mu


(* The hash is that of the document the job was started with.              *)
Record == Epilogue(work[Srv].shown, hashDoc(work[Srv].doc)) /\ UNCHANGED mu

(* The goroutine of the manager then gives the job its outcome.            *)
EndJob ==
  /\ At(Srv, "recorded")
  /\ work' = [work EXCEPT ![Srv] = NoWork]
  /\ outdated' = outdated \ {Srv}
  /\ UNCHANGED <<docFile, config, modules, planFile, infra, srvVars,
                 stray, spent, current, regenerated, swapped>>

(* The process is stopped and started again, at any moment: what it knew   *)
(* is gone, the files stay as they are.  (runUp shuts the listener down    *)
(* and exits; it waits for no job.)                                        *)
Restart ==
  /\ Faults
  /\ mu' = "free"
  /\ lastPlan' = NoPlan
  /\ lastHash' = NoHash
  /\ req' = [c \in Client |-> NoRequest]
  /\ work' = [work EXCEPT ![Srv] = NoWork]
  /\ current' = FALSE /\ regenerated' = FALSE /\ swapped' = FALSE /\ outdated' = {}
  /\ UNCHANGED <<docFile, config, modules, planFile, infra, stray, spent>>

-----------------------------------------------------------------------------
(* A client's document carries the outputs it loaded, or none.             *)
Posted == [sem : Sem, wire : Wire, outs : {0, docFile.outs}]

ClientStep(c) ==
  \/ \E d \in Posted : Put(c, d)
  \/ \E op \in Asked : RequestRun(c, op)
  \/ RequestApply(c)
  \/ GenerateHandler(c)

HandlerStep(c) == LoadForApply(c) \/ StartJob(c)

ServerNext ==
  \/ \E c \in Client : ClientStep(c) \/ HandlerStep(c)
  \/ GenerateReturns
  \/ JobStep
  \/ Record
  \/ EndJob
  \/ Restart

ServerSpec == ServerInit /\ [][ServerNext]_vars

(* Fairness: handlers and the job's goroutine run, and the commands the    *)
(* job executes return.  A step that waits for s.mu gets it in the end     *)
(* although others take it in between: Go's mutex hands itself to a waiter *)
(* that starves, hence strong fairness for those.                          *)
ServerLiveSpec ==
  /\ ServerSpec
  /\ \A c \in Client : SF_vars(LoadForApply(c)) /\ WF_vars(StartJob(c))
  /\ WF_vars(GenerateReturns)
  /\ WF_vars(JobStep) /\ SF_vars(Record) /\ WF_vars(EndJob)

-----------------------------------------------------------------------------
(* Every variable stays within its set.                                    *)
TypeOK ==
  /\ WorkspaceTypeOK
  /\ mu \in {"free", "generate"}
  /\ lastPlan \in Plan \cup {NoPlan}
  /\ lastHash \in Sem \cup {NoHash}
  /\ req \in [Client -> Request]
  /\ stray \in BOOLEAN /\ spent \in BOOLEAN /\ current \in BOOLEAN
  /\ regenerated \in BOOLEAN /\ swapped \in BOOLEAN
  /\ outdated \subseteq Client \cup {Srv}

(* "Apply runs the exact plan you reviewed" (README.md): what tofu carries *)
(* out is the plan the server showed when Apply was pressed, however       *)
(* requests, jobs, failures and restarts interleave.  Two things defeat    *)
(* it and nothing else does: a plan or an apply job ended between the      *)
(* request and its job, or the plan file was written by a job that has not *)
(* recorded it (a drift check, a plan that stopped after tofu plan).       *)
ReviewedRuns == [][Runs(Srv) /\ current /\ ~stray => planFile = work[Srv].reviewed]_vars

(* startApply "refuses if the saved diagram differs from the one that was  *)
(* planned": the plan that runs was made from a diagram with the contents, *)
(* as far as the hash tells them apart, of the document the job holds.     *)
(* Besides the two cases of ReviewedRuns, only GET /api/generate with      *)
(* another diagram, between the job's own files and its tofu plan, leads   *)
(* to a plan that is recorded with the hash of a diagram it is not of.     *)
Hashed == current /\ ~stray /\ ~swapped

PlannedHashRuns == [][Runs(Srv) /\ Hashed => planFile.config.sem = work[Srv].doc.sem]_vars

(* The same for all of the diagram, connection details included.           *)
PlannedDiagramRuns ==
  [][Runs(Srv) /\ Hashed => planFile.config = DiagramOf(work[Srv].doc)]_vars

(* Drift "does not write a plan the UI could apply": tofu never applies a  *)
(* refresh-only plan.                                                      *)
DriftPlanNeverRuns == [][Runs(Srv) => planFile.kind # "refresh"]_vars

(* The infrastructure moves at most once for each time tofu wrote the plan *)
(* file, also when its removal fails, when an apply stops half way and is  *)
(* tried again, when the server dies before the removal, and when Apply    *)
(* was pressed twice.                                                      *)
PlanTakesEffectOnce == [][infra' # infra => ~spent]_vars

(* The only write of a job that changes the diagram in the file is that of *)
(* an apply whose document was loaded before the file changed: no edit     *)
(* that was accepted before the job's document was loaded is reverted.     *)
EditsSurvive ==
  [][work' # work /\ Srv \notin outdated => DiagramOf(docFile') = DiagramOf(docFile)]_vars

(* An apply job that succeeded left the outputs of the present state in    *)
(* the diagram file, none after a destroy, unless an edit was accepted     *)
(* since the job's document was loaded.                                    *)
OutputsWritten ==
  /\ At(Srv, "recorded") /\ work[Srv].op = "apply" /\ work[Srv].ok
  /\ Srv \notin outdated
  => docFile.outs = IF infra.deployed = Nothing THEN 0 ELSE infra.serial

JobsEnd == ~Idle(Srv) ~> Idle(Srv)
=============================================================================

-------------------------- MODULE PlanServerProofs --------------------------
(***************************************************************************)
(* Proofs about the plan and apply handlers, for any contents of diagrams, *)
(* any number of clients whose requests overlap each other and the running *)
(* job, any bound on the state serial, and with failures and restarts.     *)
(***************************************************************************)
EXTENDS PlanServer, WorkspaceProofs

LEMMA NoRequestType == NoRequest \in Request
  BY NullDocumentType DEF NoRequest, Request, Op

LEMMA NoWorkIdle == NoWork.op = "none"
  BY DEF NoWork, NewWork

LEMMA TypeInit == ServerInit => TypeOK
<1> SUFFICES ASSUME ServerInit PROVE TypeOK
  OBVIOUS
<1>1. docFile \in Document /\ docFile \in [sem : Sem, wire : Wire, outs : {0}]
  BY DEF ServerInit, WorkspaceInit, Document
<1>2. WorkspaceTypeOK
  BY <1>1, NoWorkType, DiagramOfType
     DEF ServerInit, WorkspaceInit, WorkspaceTypeOK, Infra
<1> QED
  BY <1>1, <1>2, NoRequestType, DiagramOfType DEF ServerInit, TypeOK

LEMMA TypeNext == TypeOK /\ [ServerNext]_vars => TypeOK'
<1> SUFFICES ASSUME TypeOK, [ServerNext]_vars
             PROVE  TypeOK'
  OBVIOUS
<1> USE ServerAssumption DEF TypeOK
<1>0. docFile \in Document /\ work[Srv] \in Work
  BY DEF WorkspaceTypeOK
<1>1. ASSUME NEW c \in Client, NEW d \in Posted, Put(c, d)
      PROVE  TypeOK'
  <2>1. d \in Document
    BY <1>0 DEF Posted, Document
  <2> QED
    BY <1>0, <1>1, <2>1 DEF Put, Holders, Loaded, WorkspaceTypeOK, srvVars
<1>2. ASSUME NEW c \in Client, NEW op \in Asked, RequestRun(c, op)
      PROVE  TypeOK'
  <2>1. [NoRequest EXCEPT !.op = op, !.pc = "start", !.doc = docFile] \in Request
    BY <1>0, NoRequestType DEF Request, Op
  <2> QED
    BY <1>2, <2>1 DEF RequestRun, WorkspaceTypeOK, wsVars, history
<1>3. ASSUME NEW c \in Client, RequestApply(c)
      PROVE  TypeOK'
  <2>1. [NoRequest EXCEPT !.op = "apply", !.pc = "load", !.plan = lastPlan,
                          !.hash = lastHash] \in Request
    BY NoRequestType DEF Request, Op
  <2> QED
    BY <1>3, <2>1 DEF RequestApply, WorkspaceTypeOK, wsVars, history
<1>4. ASSUME NEW c \in Client, LoadForApply(c)
      PROVE  TypeOK'
  BY <1>0, <1>4, NoRequestType
     DEF LoadForApply, Answer, Request, WorkspaceTypeOK, wsVars, history
<1>5. ASSUME NEW c \in Client, StartJob(c)
      PROVE  TypeOK'
  <2>1. NewWork(req[c].op, req[c].doc, req[c].plan) \in Work
    BY NewWorkType DEF Request
  <2> QED
    BY <1>5, <2>1, NoRequestType DEF StartJob, Inherit, Answer, WorkspaceTypeOK
<1>6. ASSUME NEW c \in Client, GenerateHandler(c)
      PROVE  TypeOK'
  BY <1>0, <1>6, DiagramOfType DEF GenerateHandler, Generating, At, Idle, WorkspaceTypeOK
<1>8. CASE GenerateReturns
  BY <1>8 DEF GenerateReturns, WorkspaceTypeOK, history
<1>9. CASE JobStep
  BY <1>9, WorkStepType DEF JobStep, Loaded, Writes, Runs, At, Idle, srvVars
<1>10. CASE Record
  <2>1. lastHash' \in Sem \cup {NoHash} /\ lastPlan' \in Plan \cup {NoPlan}
        /\ stray' \in BOOLEAN /\ swapped' \in BOOLEAN
    BY <1>0, <1>10 DEF Record, Epilogue, Recorded, Work, Document, hashDoc
  <2>2. work' \in [Worker -> Work]
    BY <1>10, MoveType DEF Record, Epilogue, Step, WorkspaceTypeOK
  <2> QED
    BY <1>10, <2>1, <2>2 DEF Record, Epilogue, WorkspaceTypeOK
<1>11. CASE EndJob
  BY <1>11, NoWorkType DEF EndJob, WorkspaceTypeOK, srvVars
<1>12. CASE Restart
  BY <1>12, NoWorkType, NoRequestType DEF Restart, WorkspaceTypeOK
<1>13. CASE UNCHANGED vars
  BY <1>13 DEF vars, WorkspaceTypeOK
<1> QED
  BY <1>1, <1>2, <1>3, <1>4, <1>5, <1>6, <1>8, <1>9, <1>10, <1>11, <1>12, <1>13
     DEF ServerNext, ClientStep, HandlerStep

(* Type correctness of the server and the workspace under it.              *)
THEOREM ServerTypeOK == ServerSpec => []TypeOK
  BY TypeInit, TypeNext, PTL DEF ServerSpec

-----------------------------------------------------------------------------
(* What each step leaves alone.  Clients and handlers touch neither the    *)
(* job nor the plan; the manager's steps touch no file.                    *)
LEMMA ClientKeeps ==
  ASSUME NEW c \in Client, ClientStep(c) \/ LoadForApply(c)
  PROVE  UNCHANGED <<work, planFile, infra, lastPlan, lastHash, stray, spent, current, swapped>>
  BY DEF ClientStep, Put, RequestRun, RequestApply, GenerateHandler, LoadForApply, wsVars,
         srvVars, history

LEMMA ManagerKeeps ==
  ASSUME TypeOK, Record \/ EndJob \/ Restart
  PROVE  /\ UNCHANGED <<docFile, config, planFile, infra, spent>>
         /\ Record => /\ At(Srv, "returned") /\ work'[Srv] = [work[Srv] EXCEPT !.pc = "recorded"]
                      /\ UNCHANGED <<req, outdated>>
         /\ EndJob \/ Restart => work'[Srv] = NoWork /\ UNCHANGED stray
         /\ EndJob => At(Srv, "recorded") /\ UNCHANGED <<lastPlan, lastHash, req, swapped>>
  BY ServerAssumption
     DEF Record, Epilogue, EndJob, Restart, Advance, TypeOK, WorkspaceTypeOK, srvVars

LEMMA StartKeeps ==
  ASSUME TypeOK, NEW c \in Client, StartJob(c)
  PROVE  /\ UNCHANGED <<docFile, config, planFile, infra, lastPlan, lastHash, stray, spent, swapped>>
         /\ req[c].pc = "start" /\ req' = [req EXCEPT ![c] = NoRequest]
         /\ \/ /\ Idle(Srv) /\ Inherit(c)
               /\ work'[Srv] = NewWork(req[c].op, req[c].doc, req[c].plan)
            \/ /\ UNCHANGED <<work, current, regenerated>> /\ outdated' = outdated \ {c}
  BY ServerAssumption DEF StartJob, Answer, TypeOK, WorkspaceTypeOK

LEMMA ServerSteps ==
  ASSUME [ServerNext]_vars
  PROVE  \/ \E c \in Client : ClientStep(c) \/ LoadForApply(c)
         \/ \E c \in Client : StartJob(c)
         \/ GenerateReturns
         \/ JobStep
         \/ Record \/ EndJob \/ Restart
         \/ UNCHANGED vars
  BY DEF ServerNext, HandlerStep

-----------------------------------------------------------------------------
(* A plan file that was carried out can do no more (Harmless), whoever     *)
(* asks for it again.                                                      *)
FileInv == Shape(Srv) /\ Harmless(spent)

LEMMA FileInvInit == ServerInit => FileInv
  BY ServerAssumption
     DEF ServerInit, WorkspaceInit, FileInv, Shape, Harmless, At, Idle, NoWork, NewWork

LEMMA FileInvNext ==
  ASSUME TypeOK, FileInv, [ServerNext]_vars
  PROVE  FileInv' /\ (infra' # infra => ~spent)
<1> USE ServerAssumption
<1>0. /\ work \in [Worker -> Work] /\ Shape(Srv) /\ Harmless(spent) /\ spent \in BOOLEAN
      /\ WorkspaceTypeOK
  BY DEF TypeOK, WorkspaceTypeOK, FileInv
<1>1. ASSUME UNCHANGED <<planFile, infra, spent>>, Shape(Srv)'
      PROVE  FileInv' /\ UNCHANGED infra
  BY <1>0, <1>1 DEF FileInv, Harmless, Target
<1>2. ASSUME UNCHANGED work
      PROVE  Shape(Srv)'
  BY <1>0, <1>2 DEF Shape, At, Idle
<1>3. CASE JobStep
  <2>1. /\ WorkStep(Srv)
        /\ spent' = (((spent /\ ~Writes(Srv)) \/ Runs(Srv)) /\ planFile' # NoPlan)
    BY <1>3 DEF JobStep
  <2>2. spent' \in BOOLEAN
    BY <2>1
  <2>3. Harmless(spent)' /\ (infra' # infra => ~spent)
    BY <1>0, <2>1, <2>2, TakesEffectStep
  <2> QED
    BY <1>0, <2>1, <2>3, ShapeStep DEF FileInv
<1>4. ASSUME NEW c \in Client, ClientStep(c) \/ LoadForApply(c)
      PROVE  FileInv' /\ UNCHANGED infra
  BY <1>1, <1>2, <1>4, ClientKeeps
<1>5. ASSUME NEW c \in Client, StartJob(c)
      PROVE  FileInv' /\ UNCHANGED infra
  <2>1. CASE UNCHANGED work
    BY <1>1, <1>2, <1>5, <2>1, StartKeeps
  <2>2. CASE work'[Srv] = NewWork(req[c].op, req[c].doc, req[c].plan)
    <3>1. Shape(Srv)'
      BY <2>2 DEF Shape, At, Idle, NewWork
    <3> QED
      BY <1>1, <1>5, <3>1, StartKeeps
  <2> QED
    BY <1>5, <2>1, <2>2, StartKeeps
<1>6. CASE Record \/ EndJob \/ Restart
  <2>1. CASE Record
    BY <1>0, <1>1, <2>1, ManagerKeeps DEF Shape, At, Idle, Work
  <2>2. CASE EndJob \/ Restart
    BY <1>1, <2>2, ManagerKeeps DEF Shape, At, Idle, NoWork, NewWork
  <2> QED
    BY <1>6, <2>1, <2>2
<1>7. CASE GenerateReturns \/ UNCHANGED vars
  BY <1>1, <1>2, <1>7 DEF GenerateReturns, vars, history
<1> QED
  BY <1>3, <1>4, <1>5, <1>6, <1>7, ServerSteps

(* The infrastructure moves at most once for each plan file that tofu      *)
(* writes: two clients that press Apply, an apply that stops half way, a   *)
(* server that dies before it removes the file and a removal that fails do *)
(* not lead to a second effect.                                            *)
THEOREM PlanHasOneEffect == ServerSpec => PlanTakesEffectOnce
<1>1. TypeOK /\ FileInv /\ [ServerNext]_vars => FileInv'
  BY FileInvNext
<1>2. TypeOK /\ FileInv /\ [ServerNext]_vars => [infra' # infra => ~spent]_vars
  BY FileInvNext
<1> QED
  BY <1>1, <1>2, FileInvInit, ServerTypeOK, PTL DEF ServerSpec, PlanTakesEffectOnce

-----------------------------------------------------------------------------
(* A request and a job that are not outdated hold the diagram of the file, *)
(* and a job writes back the outputs of the present state.                 *)
DocInv ==
  /\ \A c \in Loaded : c \notin outdated => DiagramOf(req[c].doc) = DiagramOf(docFile)
  /\ ~Idle(Srv) /\ Srv \notin outdated => DiagramOf(work[Srv].doc) = DiagramOf(docFile)
  /\ WritesBack(Srv, Srv \notin outdated)

LEMMA DocInvInit == ServerInit => DocInv
  BY ServerAssumption
     DEF ServerInit, WorkspaceInit, DocInv, Loaded, NoRequest, WritesBack, At, Idle, NoWork, NewWork

(* A step of the job changes the diagram in the file only by writing its   *)
(* own document to it.                                                     *)
LEMMA StepWrites ==
  ASSUME WorkspaceTypeOK, NEW w \in Worker, WorkStep(w)
  PROVE  DiagramOf(docFile') \in {DiagramOf(docFile), DiagramOf(work[w].doc)}
<1>1. work[w].doc \in Document
  BY DEF WorkspaceTypeOK, Work
<1> QED
  BY <1>1
     DEF WorkStep, Generate, SyncModules, TofuInit, TofuPlan, ShowPlan, DiscardPlan, StatPlan,
         TofuApply, RemovePlan, ReadOutputs, WriteBack, FailStep, FailAfterPlan, FailMidApply,
         DiagramOf, Document

LEMMA DocInvNext ==
  ASSUME TypeOK, FileInv, DocInv, [ServerNext]_vars
  PROVE  /\ DocInv'
         /\ work' # work /\ Srv \notin outdated => DiagramOf(docFile') = DiagramOf(docFile)
<1> USE ServerAssumption
<1>0. /\ WorkspaceTypeOK /\ Shape(Srv) /\ work \in [Worker -> Work]
      /\ req \in [Client -> Request] /\ outdated \subseteq Client \cup {Srv}
  BY DEF TypeOK, WorkspaceTypeOK, FileInv
<1>1. ASSUME NEW c \in Client, NEW d \in Posted, Put(c, d)
      PROVE  DocInv' /\ UNCHANGED work
  <2>1. UNCHANGED <<work, req, infra>> /\ outdated' = outdated \cup Holders
    BY <1>1 DEF Put, srvVars
  <2>2. Loaded \subseteq outdated' /\ Loaded' = Loaded
    BY <2>1 DEF Holders, Loaded
  <2>3. Idle(Srv) \/ Srv \in outdated'
    BY <2>1 DEF Holders
  <2>4. WritesBack(Srv, Srv \notin outdated)'
    BY <1>0, <2>1, <2>3 DEF WritesBack, At, Idle, Present, DocInv
  <2> QED
    BY <2>1, <2>2, <2>3, <2>4 DEF DocInv, Idle
<1>2. ASSUME UNCHANGED <<docFile, work, infra, outdated>>,
             \A c \in Loaded' : (c \in Loaded /\ req'[c].doc = req[c].doc) \/ req'[c].doc = docFile
      PROVE  DocInv' /\ UNCHANGED work
  <2>1. WritesBack(Srv, Srv \notin outdated)'
    BY <1>2 DEF WritesBack, At, Idle, Present, DocInv
  <2> QED
    BY <1>2, <2>1 DEF DocInv, Idle
<1>3. ASSUME NEW c \in Client, (\E op \in Asked : RequestRun(c, op)) \/ RequestApply(c)
             \/ GenerateHandler(c) \/ LoadForApply(c)
      PROVE  DocInv' /\ UNCHANGED work
  <2>1. UNCHANGED <<docFile, work, infra, outdated>>
    BY <1>3 DEF RequestRun, RequestApply, GenerateHandler, LoadForApply, wsVars, history
  <2>2. \A e \in Client : e # c => req'[e] = req[e]
    BY <1>0, <1>3 DEF RequestRun, RequestApply, GenerateHandler, LoadForApply, Answer
  <2>3. req'[c].pc = "start" => req'[c].doc = docFile \/ req'[c] = req[c]
    <3>1. NoRequest \in Request /\ req[c] \in Request /\ NoRequest.pc = "idle"
      BY <1>0, NoRequestType DEF NoRequest
    <3>2. ASSUME NEW op \in Asked, RequestRun(c, op)
          PROVE  req'[c].doc = docFile
      BY <1>0, <3>1, <3>2 DEF RequestRun, Request
    <3>3. CASE RequestApply(c)
      <4>1. req'[c].pc = "load"
        BY <1>0, <3>1, <3>3 DEF RequestApply, Request
      <4> QED
        BY <4>1
    <3>4. CASE GenerateHandler(c)
      BY <3>4 DEF GenerateHandler
    <3>5. CASE LoadForApply(c)
      BY <1>0, <3>1, <3>5 DEF LoadForApply, Answer, Request
    <3> QED
      BY <1>3, <3>2, <3>3, <3>4, <3>5
  <2> QED
    BY <1>2, <2>1, <2>2, <2>3 DEF Loaded
<1>4. ASSUME NEW c \in Client, StartJob(c)
      PROVE  DocInv' /\ UNCHANGED docFile
  <2>1. UNCHANGED <<docFile, infra>> /\ req' = [req EXCEPT ![c] = NoRequest] /\ c \in Loaded
    BY <1>4, StartKeeps DEF Loaded
  <2>2. Loaded' = Loaded \ {c} /\ \A e \in Loaded' : req'[e] = req[e]
    BY <1>0, <2>1 DEF Loaded, NoRequest
  <2>3. CASE Idle(Srv) /\ Inherit(c) /\ work'[Srv] = NewWork(req[c].op, req[c].doc, req[c].plan)
    <3>1. outdated' = (outdated \ {c, Srv}) \cup {w \in {Srv} : c \in outdated}
      BY <2>3 DEF Inherit
    <3>2. \A e \in Loaded' : e \notin outdated' => DiagramOf(req'[e].doc) = DiagramOf(docFile')
      BY <2>1, <2>2, <3>1 DEF DocInv, Loaded
    <3>3. Srv \notin outdated' => DiagramOf(work'[Srv].doc) = DiagramOf(docFile')
      BY <2>1, <2>3, <3>1 DEF DocInv, NewWork
    <3>4. WritesBack(Srv, Srv \notin outdated)'
      BY <2>3 DEF WritesBack, At, Idle, NewWork
    <3> QED
      BY <2>1, <3>2, <3>3, <3>4 DEF DocInv
  <2>4. CASE UNCHANGED work /\ outdated' = outdated \ {c}
    <3>1. WritesBack(Srv, Srv \notin outdated)'
      BY <2>1, <2>4 DEF WritesBack, At, Idle, Present, DocInv
    <3> QED
      BY <2>1, <2>2, <2>4, <3>1 DEF DocInv, Idle
  <2> QED
    BY <1>4, <2>1, <2>3, <2>4, StartKeeps
<1>5. CASE JobStep
  <2>1. /\ WorkStep(Srv) /\ UNCHANGED req
        /\ outdated' = outdated \cup {c \in Loaded : DiagramOf(docFile') # DiagramOf(docFile)}
    BY <1>5 DEF JobStep, srvVars
  <2>2. Loaded' = Loaded /\ (Srv \notin outdated' <=> Srv \notin outdated)
    BY <2>1 DEF Loaded
  <2>3. ~Idle(Srv) /\ work'[Srv].doc = work[Srv].doc
    BY <1>0, <2>1, StepKeeps
  <2>4. Srv \notin outdated => DiagramOf(docFile') = DiagramOf(docFile)
    BY <1>0, <2>1, <2>3, StepWrites DEF DocInv
  <2>5. WritesBack(Srv, Srv \notin outdated)'
    <3> DEFINE b == Srv \notin outdated
    <3>1. WritesBack(Srv, b) /\ b \in BOOLEAN /\ b' = b
      BY <2>2 DEF DocInv
    <3> HIDE DEF b
    <3>2. WritesBack(Srv, b)'
      BY <1>0, <2>1, <3>1, WritesBackStep
    <3> QED
      BY <3>2 DEF b
  <2> QED
    BY <2>1, <2>2, <2>3, <2>4, <2>5 DEF DocInv
<1>6. CASE Record
  <2>1. /\ UNCHANGED <<docFile, infra, req, outdated>> /\ At(Srv, "returned")
        /\ work'[Srv] = [work[Srv] EXCEPT !.pc = "recorded"]
    BY <1>6, ManagerKeeps
  <2>2. /\ work'[Srv].doc = work[Srv].doc /\ work'[Srv].op = work[Srv].op
        /\ work'[Srv].ok = work[Srv].ok /\ work'[Srv].pc = "recorded"
    BY <1>0, <2>1 DEF Work
  <2>3. WritesBack(Srv, Srv \notin outdated)'
    BY <2>1, <2>2 DEF WritesBack, At, Idle, Present, DocInv
  <2> QED
    BY <2>1, <2>2, <2>3 DEF DocInv, Loaded, Idle
<1>7. CASE EndJob
  <2>1. UNCHANGED <<docFile, req>> /\ Idle(Srv)' /\ outdated' = outdated \ {Srv}
    BY <1>0, <1>7, NoWorkIdle DEF EndJob, Idle, srvVars
  <2>2. WritesBack(Srv, Srv \notin outdated)'
    BY <2>1 DEF WritesBack, At, Idle
  <2> QED
    BY <2>1, <2>2 DEF DocInv, Loaded
<1>8. CASE Restart
  <2>1. UNCHANGED docFile /\ Idle(Srv)' /\ Loaded' = {}
    BY <1>0, <1>8, NoWorkIdle DEF Restart, Loaded, NoRequest, Idle
  <2>2. WritesBack(Srv, Srv \notin outdated)'
    BY <2>1 DEF WritesBack, At, Idle
  <2> QED
    BY <2>1, <2>2 DEF DocInv
<1>9. CASE GenerateReturns \/ UNCHANGED vars
  BY <1>2, <1>9 DEF GenerateReturns, Loaded, vars, history
<1> QED
  BY <1>1, <1>3, <1>4, <1>5, <1>6, <1>7, <1>8, <1>9, ServerSteps, ManagerKeeps DEF ClientStep

LEMMA DocAlways == ServerSpec => [](FileInv /\ DocInv)
<1>1. TypeOK /\ FileInv /\ DocInv /\ [ServerNext]_vars => FileInv' /\ DocInv'
  BY FileInvNext, DocInvNext
<1> QED
  BY <1>1, FileInvInit, DocInvInit, ServerTypeOK, PTL DEF ServerSpec

(* A job never reverts an edit that was accepted before its document was   *)
(* loaded, also when Apply is pressed while an older apply is still        *)
(* writing, and when the server died in between.                           *)
THEOREM NoEditIsLost == ServerSpec => EditsSurvive
<1>1. TypeOK /\ FileInv /\ DocInv /\ [ServerNext]_vars =>
        [work' # work /\ Srv \notin outdated => DiagramOf(docFile') = DiagramOf(docFile)]_vars
  BY DocInvNext
<1> QED
  BY <1>1, DocAlways, ServerTypeOK, PTL DEF ServerSpec, EditsSurvive

(* The outputs in the diagram file after an apply that reported success    *)
(* are those of the state it left, whatever failed before.                 *)
THEOREM OutputsAreWritten == ServerSpec => []OutputsWritten
<1>1. DocInv => OutputsWritten
  BY DEF DocInv, WritesBack, Present, OutputsWritten, At
<1> QED
  BY <1>1, DocAlways, PTL

-----------------------------------------------------------------------------
(* What runs is what was shown.  (1) An apply request carries a plan and   *)
(* the hash of the document it loaded.                                     *)
RequestInv ==
  \A c \in Client :
    /\ req[c].pc = "load" => req[c].op = "apply"
    /\ req[c].op = "apply" =>
         /\ req[c].plan # NoPlan
         /\ req[c].pc = "start" => hashDoc(req[c].doc) = req[c].hash

(* (2) Unless another configuration came in between, the configuration of  *)
(* a planning job is that of its document, and then so is its plan.        *)
JobInv ==
  /\ Generating /\ ~regenerated => config = DiagramOf(work[Srv].doc)
  /\ At(Srv, "show") => /\ planFile # NoPlan
                        /\ ~regenerated => planFile.config = DiagramOf(work[Srv].doc)
  /\ At(Srv, "returned") /\ Recorded(work[Srv]) =>
       /\ planFile # NoPlan /\ planFile = work[Srv].shown
       /\ ~regenerated => planFile.config = DiagramOf(work[Srv].doc)

(* (3) The plan file, if it is not stray, is the last plan.                *)
Settled ==
  lastPlan # NoPlan /\ ~stray /\ planFile # NoPlan =>
    /\ planFile = lastPlan
    /\ ~swapped => planFile.config.sem = lastHash

(* (4) An apply job that is current was asked for the last plan.           *)
Carries ==
  (At(Srv, "stat") \/ At(Srv, "apply")) /\ current =>
    lastPlan # NoPlan /\ lastPlan = work[Srv].reviewed /\ lastHash = hashDoc(work[Srv].doc)

PlanInv == RequestInv /\ JobInv /\ Settled /\ Carries

LEMMA PlanInvInit == ServerInit => PlanInv
  BY ServerAssumption
     DEF ServerInit, WorkspaceInit, PlanInv, RequestInv, JobInv, Settled, Carries, Generating,
         NoRequest, Recorded, At, Idle, NoWork, NewWork

LEMMA RequestInvNext ==
  ASSUME TypeOK, RequestInv, [ServerNext]_vars
  PROVE  RequestInv'
<1> USE ServerAssumption DEF RequestInv
<1>0. req \in [Client -> Request]
  BY DEF TypeOK
<1>1. ASSUME NEW c \in Client, NEW r, req' = [req EXCEPT ![c] = r],
             r.pc = "load" => r.op = "apply",
             r.op = "apply" => r.plan # NoPlan /\ (r.pc = "start" => hashDoc(r.doc) = r.hash)
      PROVE  RequestInv'
  BY <1>0, <1>1
<1>2. NoRequest.pc = "idle" /\ NoRequest.op = "none"
  BY DEF NoRequest
<1>3. ASSUME NEW c \in Client, NEW op \in Asked, RequestRun(c, op)
      PROVE  RequestInv'
  BY <1>1, <1>3 DEF RequestRun, NoRequest
<1>4. ASSUME NEW c \in Client, RequestApply(c)
      PROVE  RequestInv'
  BY <1>1, <1>4 DEF RequestApply, NoRequest
<1>5. ASSUME NEW c \in Client, LoadForApply(c)
      PROVE  RequestInv'
  <2>1. CASE Answer(c)
    BY <1>1, <1>2, <2>1 DEF Answer
  <2>2. CASE /\ hashDoc(docFile) = req[c].hash
             /\ req' = [req EXCEPT ![c].pc = "start", ![c].doc = docFile]
    <3> DEFINE r == [req[c] EXCEPT !.pc = "start", !.doc = docFile]
    <3>1. r.op = req[c].op /\ r.plan = req[c].plan /\ r.hash = req[c].hash /\ r.pc = "start"
          /\ r.doc = docFile
      BY <1>0 DEF Request
    <3>2. req' = [req EXCEPT ![c] = r]
      BY <2>2
    <3>3. r.op = "apply" => r.plan # NoPlan /\ hashDoc(r.doc) = r.hash
      BY <2>2, <3>1
    <3> HIDE DEF r
    <3> QED
      BY <1>1, <3>1, <3>2, <3>3
  <2> QED
    BY <1>5, <2>1, <2>2 DEF LoadForApply
<1>6. ASSUME NEW c \in Client, StartJob(c)
      PROVE  RequestInv'
  BY <1>1, <1>2, <1>6, StartKeeps
<1>7. CASE Restart
  BY <1>2, <1>7 DEF Restart
<1>8. CASE UNCHANGED req
  BY <1>8
<1> QED
  BY <1>3, <1>4, <1>5, <1>6, <1>7, <1>8, ServerSteps, ManagerKeeps
     DEF ClientStep, Put, GenerateHandler, GenerateReturns, JobStep, vars, srvVars

(* What tofu apply needs to run.                                           *)
LEMMA RunsApplicable ==
  ASSUME work \in [Worker -> Work], NEW w \in Worker, WorkStep(w), Runs(w)
  PROVE  At(w, "apply") /\ Applicable
<1>1. CASE infra' # infra
  BY <1>1, StepTouches DEF Runs
<1>2. CASE work'[w].pc = "remove"
  BY <1>2, StepLeads
     DEF Runs, WorkStep, Failed, Generate, SyncModules, TofuInit, TofuPlan, ShowPlan,
         DiscardPlan, StatPlan, RemovePlan, ReadOutputs, WriteBack, At
<1> QED
  BY <1>1, <1>2 DEF Runs

(* Where a planning job stands after a step, and what it leaves.           *)
LEMMA PlanStep ==
  ASSUME WorkspaceTypeOK, NEW w \in Worker, Shape(w), WorkStep(w)
  PROVE  /\ work'[w].pc = "sync" => config' = DiagramOf(work[w].doc)
         /\ work'[w].pc \in {"init", "plan"} =>
              (At(w, "sync") \/ At(w, "init")) /\ UNCHANGED config
         /\ work'[w].pc = "show" =>
              At(w, "plan") /\ planFile' = NewPlan(w) /\ Writes(w)
         /\ work'[w].pc = "returned" /\ Recorded(work'[w]) =>
              At(w, "show") /\ planFile # NoPlan /\ UNCHANGED planFile
              /\ work'[w].shown = planFile
         /\ work'[w].pc \in {"stat", "apply"} => At(w, "stat")
         /\ UNCHANGED planFile \/ planFile' = NoPlan \/ Writes(w)
<1>0. work \in [Worker -> Work] /\ work'[w].op = work[w].op
  BY StepKeeps DEF WorkspaceTypeOK
<1>1. CASE Generate(w)
  BY <1>0, <1>1, StepLeads DEF Generate
<1>2. CASE SyncModules(w) \/ TofuInit(w)
  BY <1>0, <1>2, StepLeads DEF SyncModules, TofuInit, Failed, Recorded
<1>3. CASE TofuPlan(w)
  <2>1. CASE modules
    <3>1. At(w, "plan") /\ planFile' = NewPlan(w) /\ Advance(w, "show")
      BY <1>3, <2>1 DEF TofuPlan
    <3>2. work'[w].pc = "show"
      BY <1>0, <3>1, WorkMoved DEF Step
    <3> QED
      BY <3>1, <3>2 DEF Writes
  <2>2. CASE ~modules
    <3>1. Fail(w) /\ UNCHANGED planFile
      BY <1>3, <2>2 DEF TofuPlan
    <3>2. work'[w].pc = "returned" /\ work'[w].ok = FALSE
      BY <1>0, <3>1, WorkMoved DEF Step
    <3> QED
      BY <3>1, <3>2 DEF Recorded
  <2> QED
    BY <2>1, <2>2
<1>4. CASE ShowPlan(w)
  BY <1>0, <1>4, StepLeads DEF ShowPlan, Failed, Recorded
<1>5. CASE DiscardPlan(w) \/ StatPlan(w) \/ TofuApply(w) \/ RemovePlan(w)
           \/ ReadOutputs(w) \/ WriteBack(w)
  BY <1>0, <1>5, StepLeads
     DEF DiscardPlan, Removed, StatPlan, TofuApply, RemovePlan, ReadOutputs, WriteBack, Failed,
         Recorded, Shape
<1>6. CASE FailStep(w) \/ FailMidApply(w)
  BY <1>0, <1>6, StepLeads DEF FailStep, FailMidApply, Failed, Recorded
<1>7. CASE FailAfterPlan(w)
  BY <1>0, <1>7, StepLeads DEF FailAfterPlan, Failed, Recorded, Writes
<1>8. \/ Generate(w) \/ SyncModules(w) \/ TofuInit(w) \/ TofuPlan(w) \/ ShowPlan(w)
      \/ DiscardPlan(w) \/ StatPlan(w) \/ TofuApply(w) \/ RemovePlan(w)
      \/ ReadOutputs(w) \/ WriteBack(w)
      \/ FailStep(w) \/ FailAfterPlan(w) \/ FailMidApply(w)
  BY DEF WorkStep
<1> QED
  BY <1>1, <1>2, <1>3, <1>4, <1>5, <1>6, <1>7, <1>8

LEMMA JobInvNext ==
  ASSUME TypeOK, FileInv, JobInv, [ServerNext]_vars
  PROVE  JobInv'
<1> USE ServerAssumption
<1>0. /\ WorkspaceTypeOK /\ Shape(Srv) /\ work \in [Worker -> Work]
      /\ regenerated \in BOOLEAN
  BY DEF TypeOK, WorkspaceTypeOK, FileInv
<1>1. CASE JobStep
  <2>1. WorkStep(Srv) /\ UNCHANGED regenerated
    BY <1>1 DEF JobStep
  <2>2. work'[Srv].doc = work[Srv].doc
    BY <1>0, <2>1, StepKeeps
  <2>3. Generating' /\ ~regenerated' => config' = DiagramOf(work'[Srv].doc)
    BY <1>0, <2>1, <2>2, PlanStep DEF JobInv, Generating, At
  <2>4. At(Srv, "show")' => /\ planFile' # NoPlan
                            /\ ~regenerated' => planFile'.config = DiagramOf(work'[Srv].doc)
    <3>1. SUFFICES ASSUME At(Srv, "show")'
                   PROVE  /\ planFile' # NoPlan
                          /\ ~regenerated' => planFile'.config = DiagramOf(work'[Srv].doc)
      OBVIOUS
    <3>2. At(Srv, "plan") /\ planFile' = NewPlan(Srv)
      BY <1>0, <2>1, <3>1, PlanStep DEF At
    <3>3. NewPlan(Srv) \in Plan /\ NewPlan(Srv).config = config
      BY <1>0 DEF NewPlan, KindOf, Plan, Kind, Infra, WorkspaceTypeOK
    <3>4. ~regenerated => config = DiagramOf(work[Srv].doc)
      BY <3>2 DEF JobInv, Generating
    <3> QED
      BY <2>1, <2>2, <3>2, <3>3, <3>4, WorkspaceAssumption
  <2>5. At(Srv, "returned")' /\ Recorded(work'[Srv]) =>
          /\ planFile' # NoPlan /\ planFile' = work'[Srv].shown
          /\ ~regenerated' => planFile'.config = DiagramOf(work'[Srv].doc)
    BY <1>0, <2>1, <2>2, PlanStep DEF JobInv, At
  <2> QED
    BY <2>3, <2>4, <2>5 DEF JobInv
<1>2. ASSUME NEW c \in Client, GenerateHandler(c)
      PROVE  JobInv'
  <2>1. /\ UNCHANGED <<work, planFile>>
        /\ regenerated' = (regenerated \/ (Generating /\ config' # DiagramOf(work[Srv].doc)))
    BY <1>2 DEF GenerateHandler
  <2> QED
    BY <1>0, <2>1 DEF JobInv, Generating, At, Idle
<1>3. ASSUME UNCHANGED <<work, planFile, config, regenerated>>
      PROVE  JobInv'
  BY <1>3 DEF JobInv, Generating, At, Idle
<1>4. ASSUME NEW c \in Client, ClientStep(c) \/ LoadForApply(c), ~GenerateHandler(c)
      PROVE  JobInv'
  BY <1>3, <1>4 DEF ClientStep, Put, RequestRun, RequestApply, LoadForApply, wsVars, history
<1>5. ASSUME NEW c \in Client, StartJob(c)
      PROVE  JobInv'
  <2>1. CASE work'[Srv] = NewWork(req[c].op, req[c].doc, req[c].plan)
    BY <2>1 DEF JobInv, Generating, At, Idle, NewWork
  <2> QED
    BY <1>3, <1>5, <2>1, StartKeeps
<1>6. CASE Record
  <2>1. work'[Srv].pc = "recorded"
    BY <1>0, <1>6, ManagerKeeps DEF Work
  <2> QED
    BY <2>1 DEF JobInv, Generating, At
<1>7. CASE EndJob \/ Restart
  <2>1. Idle(Srv)'
    BY <1>7, ManagerKeeps, NoWorkIdle DEF Idle
  <2> QED
    BY <2>1 DEF JobInv, Generating, At
<1>8. CASE GenerateReturns \/ UNCHANGED vars
  BY <1>3, <1>8 DEF GenerateReturns, vars, history
<1> QED
  BY <1>1, <1>2, <1>4, <1>5, <1>6, <1>7, <1>8, ServerSteps

(* A recorded plan is that of the job, and describes the file unless its   *)
(* configuration was replaced; every other plan file is stray.             *)
LEMMA SettledNext ==
  ASSUME TypeOK, FileInv, JobInv, Settled, [ServerNext]_vars
  PROVE  Settled'
<1> USE ServerAssumption
<1>0. WorkspaceTypeOK /\ Shape(Srv) /\ stray \in BOOLEAN /\ swapped \in BOOLEAN
  BY DEF TypeOK, FileInv
<1>1. ASSUME UNCHANGED <<planFile, lastPlan, lastHash, stray, swapped>>
      PROVE  Settled'
  BY <1>1 DEF Settled
<1>2. CASE JobStep
  <2>1. /\ WorkStep(Srv) /\ UNCHANGED <<lastPlan, lastHash>>
        /\ stray' = ((stray \/ Writes(Srv)) /\ planFile' # NoPlan)
        /\ swapped' = (swapped /\ ~Writes(Srv) /\ planFile' # NoPlan)
    BY <1>2 DEF JobStep, srvVars
  <2>2. UNCHANGED planFile \/ planFile' = NoPlan \/ Writes(Srv)
    BY <1>0, <2>1, PlanStep
  <2> QED
    BY <1>0, <2>1, <2>2 DEF Settled
<1>3. CASE Record
  <2>1. At(Srv, "returned") /\ UNCHANGED planFile
    BY <1>3, ManagerKeeps
  <2>2. CASE Recorded(work[Srv])
    <3>1. lastPlan' = work[Srv].shown /\ lastHash' = hashDoc(work[Srv].doc) /\ swapped' = regenerated
      BY <1>3, <2>2 DEF Record, Epilogue, Recorded
    <3>2. ~regenerated => planFile.config.sem = hashDoc(work[Srv].doc)
      BY <2>1, <2>2 DEF JobInv, DiagramOf, hashDoc
    <3> QED
      BY <2>1, <2>2, <3>1, <3>2 DEF Settled, JobInv
  <2>3. CASE ~Recorded(work[Srv])
    BY <1>1, <1>3, <2>1, <2>3, WorkspaceAssumption DEF Record, Epilogue, Settled
  <2> QED
    BY <2>2, <2>3
<1>4. CASE EndJob
  BY <1>1, <1>4, ManagerKeeps
<1>5. CASE Restart
  BY <1>5 DEF Restart, Settled
<1>6. ASSUME NEW c \in Client, ClientStep(c) \/ LoadForApply(c) \/ StartJob(c)
      PROVE  Settled'
  BY <1>1, <1>6, ClientKeeps, StartKeeps
<1>7. CASE GenerateReturns \/ UNCHANGED vars
  BY <1>1, <1>7 DEF GenerateReturns, vars, history
<1> QED
  BY <1>2, <1>3, <1>4, <1>5, <1>6, <1>7, ServerSteps

LEMMA CarriesNext ==
  ASSUME TypeOK, FileInv, RequestInv, Carries, [ServerNext]_vars
  PROVE  Carries'
<1> USE ServerAssumption
<1>0. WorkspaceTypeOK /\ work \in [Worker -> Work] /\ Shape(Srv) /\ req \in [Client -> Request]
  BY DEF TypeOK, WorkspaceTypeOK, FileInv
<1>1. ASSUME UNCHANGED <<work, lastPlan, lastHash, current>>
      PROVE  Carries'
  BY <1>1 DEF Carries, At, Idle
<1>2. CASE JobStep
  <2>1. WorkStep(Srv) /\ UNCHANGED <<lastPlan, lastHash, current>>
    BY <1>2 DEF JobStep, srvVars
  <2>2. At(Srv, "stat")' \/ At(Srv, "apply")' => At(Srv, "stat")
    BY <1>0, <2>1, PlanStep DEF At
  <2>3. work'[Srv].doc = work[Srv].doc /\ work'[Srv].reviewed = work[Srv].reviewed
    BY <1>0, <2>1, StepKeeps
  <2> QED
    BY <2>1, <2>2, <2>3 DEF Carries
<1>3. ASSUME NEW c \in Client, StartJob(c)
      PROVE  Carries'
  <2>1. CASE Inherit(c) /\ work'[Srv] = NewWork(req[c].op, req[c].doc, req[c].plan)
    <3>1. SUFFICES ASSUME At(Srv, "stat")' \/ At(Srv, "apply")', current'
                   PROVE  /\ lastPlan' # NoPlan /\ lastPlan' = work'[Srv].reviewed
                          /\ lastHash' = hashDoc(work'[Srv].doc)
      BY DEF Carries
    <3>2. req[c].op = "apply" /\ work'[Srv].reviewed = req[c].plan /\ work'[Srv].doc = req[c].doc
      BY <2>1, <3>1 DEF NewWork, At
    <3>3. req[c].plan = lastPlan /\ req[c].hash = lastHash /\ req[c].pc = "start"
          /\ UNCHANGED <<lastPlan, lastHash>>
      BY <1>3, <2>1, <3>1, StartKeeps DEF Inherit
    <3> QED
      BY <3>2, <3>3 DEF RequestInv
  <2>2. CASE UNCHANGED <<work, current, lastPlan, lastHash>>
    BY <1>1, <2>2
  <2> QED
    BY <1>3, <2>1, <2>2, StartKeeps
<1>4. CASE Record
  <2>1. work'[Srv].pc = "recorded"
    BY <1>0, <1>4, ManagerKeeps DEF Work
  <2> QED
    BY <2>1 DEF Carries, At
<1>5. CASE EndJob \/ Restart
  <2>1. Idle(Srv)'
    BY <1>5, ManagerKeeps, NoWorkIdle DEF Idle
  <2> QED
    BY <2>1 DEF Carries, At
<1>6. ASSUME NEW c \in Client, ClientStep(c) \/ LoadForApply(c)
      PROVE  Carries'
  BY <1>1, <1>6, ClientKeeps
<1>7. CASE GenerateReturns \/ UNCHANGED vars
  BY <1>1, <1>7 DEF GenerateReturns, vars, history
<1> QED
  BY <1>2, <1>3, <1>4, <1>5, <1>6, <1>7, ServerSteps

LEMMA PlanAlways == ServerSpec => [](FileInv /\ PlanInv)
<1>1. TypeOK /\ FileInv /\ PlanInv /\ [ServerNext]_vars => FileInv' /\ PlanInv'
  BY FileInvNext, RequestInvNext, JobInvNext, SettledNext, CarriesNext DEF PlanInv
<1> QED
  BY <1>1, FileInvInit, PlanInvInit, ServerTypeOK, PTL DEF ServerSpec

(* Only a step of the job runs a plan file.                                *)
LEMMA OnlyTheJobRuns ==
  ASSUME TypeOK, [ServerNext]_vars, Runs(Srv)
  PROVE  JobStep
<1> USE ServerAssumption
<1>1. ASSUME UNCHANGED <<work, infra>>
      PROVE  FALSE
  BY <1>1 DEF Runs, At
<1>2. ASSUME NEW c \in Client, StartJob(c)
      PROVE  FALSE
  BY <1>1, <1>2, StartKeeps DEF Runs, At
<1>3. ASSUME NEW c \in Client, ClientStep(c) \/ LoadForApply(c)
      PROVE  FALSE
  BY <1>1, <1>3, ClientKeeps
<1>4. CASE Record \/ EndJob \/ Restart
  <2>1. UNCHANGED infra /\ (Record \/ EndJob => ~At(Srv, "apply"))
    BY <1>4, ManagerKeeps DEF At
  <2>2. Restart => work'[Srv].pc # "remove"
    BY ManagerKeeps DEF NoWork, NewWork
  <2> QED
    BY <1>4, <2>1, <2>2 DEF Runs
<1>5. CASE GenerateReturns \/ UNCHANGED vars
  BY <1>1, <1>5 DEF GenerateReturns, vars
<1> QED
  BY <1>2, <1>3, <1>4, <1>5, ServerSteps

LEMMA RunsTheLastPlan ==
  ASSUME TypeOK, PlanInv, [ServerNext]_vars, Runs(Srv), current, ~stray
  PROVE  /\ planFile = work[Srv].reviewed
         /\ ~swapped => planFile.config.sem = work[Srv].doc.sem
<1>1. At(Srv, "apply") /\ Applicable
  BY OnlyTheJobRuns, RunsApplicable, ServerAssumption DEF JobStep, TypeOK, WorkspaceTypeOK
<1> QED
  BY <1>1 DEF PlanInv, Carries, Settled, Applicable, hashDoc

(* "Apply runs the exact plan you reviewed": whatever requests overlap the *)
(* plan and the apply job, and whatever failed or died before, tofu runs   *)
(* the plan that was shown when Apply was pressed, unless another job has  *)
(* ended since the request read it or left its own file unrecorded.        *)
THEOREM WhatIsReviewedRuns == ServerSpec => ReviewedRuns
<1>1. TypeOK /\ PlanInv /\ [ServerNext]_vars =>
        [Runs(Srv) /\ current /\ ~stray => planFile = work[Srv].reviewed]_vars
  BY RunsTheLastPlan
<1> QED
  BY <1>1, PlanAlways, ServerTypeOK, PTL DEF ServerSpec, ReviewedRuns

(* Under the same conditions the plan was made from a diagram that has the *)
(* hash of the document the apply job holds, unless the generated files of *)
(* another diagram were what tofu plan read.                               *)
THEOREM WhatRunsWasHashed == ServerSpec => PlannedHashRuns
<1>1. TypeOK /\ PlanInv /\ [ServerNext]_vars =>
        [Runs(Srv) /\ Hashed => planFile.config.sem = work[Srv].doc.sem]_vars
  BY RunsTheLastPlan DEF Hashed
<1> QED
  BY <1>1, PlanAlways, ServerTypeOK, PTL DEF ServerSpec, PlannedHashRuns
=============================================================================

------------------------------- MODULE Canvas -------------------------------
(***************************************************************************)
(* One browser tab and its server: the store of the canvas                 *)
(* (web/src/store.ts) and what it sends.  Requests go over connections of  *)
(* their own, so the server may handle them, and the answers may come, in  *)
(* any order; one that gets lost ends in the catch of the function that    *)
(* sent it.  A diagram is a model value; node positions, selection, the    *)
(* mirrored tabs and drift are left out.                                   *)
(***************************************************************************)
EXTENDS Naturals, FiniteSets, Sequences, SequencesExt

CONSTANTS
  Diagram,        \* what may be drawn
  Broken,         \* those of them the validator refuses
  Blank,          \* nothing drawn
  First,          \* what the file has at the start
  Field,          \* fields one types in: changes of one coalesce
  Unset,
  NoPlan,
  NoJob,
  HistoryLimit,   \* HISTORY_LIMIT
  MaxActs,        \* bound: what the user does, twice when hasty, and connections that break
  MaxWire,        \* bound: requests at a time
  MaxLost         \* bound: connections that break

Start == {"plan", "destroy", "apply"}
Status == {"running", "succeeded", "failed"}
Plan == [of : Diagram, destroy : BOOLEAN]

ASSUME CanvasAssumption ==
  /\ {Blank, First} \subseteq Diagram \ Broken /\ Broken \subseteq Diagram
  /\ HistoryLimit \in Nat \ {0, 1}
  /\ MaxWire \in Nat \ {0}
  /\ Unset \notin Field /\ Unset \notin [job : Nat]
  /\ NoPlan \notin Plan
  /\ NoJob \notin [id : Nat, status : Status]

VARIABLES
  store,          \* the state of the store, which set() patches
  wire,           \* requests without an answer, in the order they were sent
  server,         \* the file, the last plan and the jobs
  watch           \* what happened, for the properties

vars == <<store, wire, server, watch>>

(* A record over another one, and a request as it leaves.                  *)
p ++ q == [f \in DOMAIN p \cup DOMAIN q |-> IF f \in DOMAIN p THEN p[f] ELSE q[f]]

Request(r) ==
  r ++ [at |-> "out", doc |-> Unset, then |-> "none", late |-> FALSE, about |-> Unset,
        reply |-> Unset]

(* The tab has been opened: the file is loaded and the last plan, which is *)
(* of some diagram that was in the file, asked for.                        *)
Init ==
  /\ store = [canvas |-> First, dirty |-> FALSE, problems |-> First, past |-> <<>>, future |-> <<>>,
              key |-> Unset, timer |-> FALSE, plan |-> NoPlan, stale |-> FALSE,
              confirm |-> FALSE, job |-> NoJob, streams |-> {}]
  /\ \E last \in {NoPlan} \cup [of : Diagram \ Broken, destroy : BOOLEAN] :
       server = [file |-> First, planned |-> last, jobs |-> <<>>]
  /\ wire = <<Request([kind |-> "latest"])>>
  /\ watch = [acts |-> 0, lost |-> 0, hasty |-> FALSE, blind |-> FALSE, behind |-> FALSE,
              crossed |-> FALSE, unsure |-> FALSE, disordered |-> FALSE]

set(patch) == store' = patch ++ store
On(kinds) == \E i \in DOMAIN wire : wire[i].kind \in kinds
Running == {j \in DOMAIN server.jobs : server.jobs[j].status = "running"}
ApplyRuns == \E j \in Running : server.jobs[j].kind = "apply"
JobRuns == store.job # NoJob /\ store.job.status = "running"

(* A request leaves after those of rest.                                   *)
Sending(rest, r) ==
  /\ Len(rest) < MaxWire
  /\ wire' = Append(rest, Request(r))

Gone(i) == RemoveAt(wire, i)

(* What the answers to those before n say is wrong is late by now.         *)
Older(n, rest) == [k \in DOMAIN rest |-> [rest[k] EXCEPT !.late = @ \/ k < n]]

(* A job is about to start.                                                *)
Starting == \E i \in DOMAIN wire : wire[i].kind \in Start \/ wire[i].then # "none"

Applying == On({"apply"}) \/ (JobRuns /\ server.jobs[store.job.id].kind = "apply")

(* Between the canvas and the file something else may come: another save or *)
(* load, an apply or an edit crosses the one on its way.                   *)
Crossed == ApplyRuns \/ On({"save", "load"})

(* What the user does, who is hasty when the canvas is on its way to or from *)
(* the file, when asking for a job while one is about to start and when    *)
(* saving while one applies.                                               *)
Acted(busy) ==
  LET hasty == busy \/ On({"save", "load"}) IN
  [watch EXCEPT !.acts = @ + (IF hasty THEN 2 ELSE 1), !.hasty = @ \/ hasty]

Acts(acted) == acted.acts + acted.lost <= MaxActs /\ watch' = acted

Calls(busy, crossed) == Acts([Acted(busy) EXCEPT !.crossed = crossed])

Edits(disordered) ==
  /\ Acts([Acted(FALSE) EXCEPT !.crossed = TRUE, !.unsure = FALSE, !.disordered = disordered])
  /\ UNCHANGED server

Drawing == Edits(watch.disordered) /\ UNCHANGED wire
-----------------------------------------------------------------------------
(* Variant: one snapshot too many is kept.                                 *)
KeptOneMore(past) == SubSeq(past, Len(past) - HistoryLimit + 1, Len(past))

(* commit: the canvas goes into the history before it changes, unless the  *)
(* same field was changed within the last second.                          *)
Kept(past) == SubSeq(past, Len(past) - HistoryLimit + 2, Len(past))

Commits(key) ==
  LET past == IF Len(store.past) < HistoryLimit THEN store.past ELSE Kept(store.past) IN
  {[past |-> Append(past, store.canvas), future |-> <<>>, key |-> key,
    stale |-> store.stale \/ store.plan # NoPlan]}
  \cup {p \in {<<>>} : key # Unset /\ key = store.key}

Drawn(d) == [canvas |-> d, dirty |-> TRUE, timer |-> TRUE]

(* addNode, connect, updateNode, removeNodes, paste and the like.          *)
Edit ==
  \E d \in Diagram \ {store.canvas}, key \in Field \cup {Unset} :
    \E c \in Commits(key) : set(Drawn(d) ++ c) /\ Drawing

(* Variant: the canvas is taken for saved.                                 *)
UndoneClean(d) == [canvas |-> d, dirty |-> FALSE, timer |-> TRUE]

(* Variant: nothing is validated.                                          *)
UndoneUnchecked(d) == [canvas |-> d, dirty |-> TRUE, timer |-> FALSE]

Undone(d) == [canvas |-> d, dirty |-> TRUE, timer |-> TRUE]

undo ==
  /\ store.past # <<>>
  /\ set(Undone(Last(store.past))
         ++ [past |-> Front(store.past), future |-> <<store.canvas>> \o store.future, key |-> Unset])
  /\ Drawing

redo ==
  /\ store.future # <<>>
  /\ set(Undone(Head(store.future))
         ++ [past |-> Append(store.past, store.canvas), future |-> Tail(store.future), key |-> Unset])
  /\ Drawing

(* loadDocument: a file, an import or a template; newDiagram.  They need   *)
(* the mouse, which the dialog keeps.                                      *)
DialogOpen == store.confirm /\ store.plan # NoPlan

NoPlanShown == [plan |-> NoPlan, stale |-> FALSE]

loadDocument ==
  /\ ~DialogOpen
  /\ \E d \in Diagram, c \in Commits(Unset) : set(Drawn(d) ++ NoPlanShown ++ c)
  /\ Drawing

newDiagram ==
  /\ ~DialogOpen
  /\ \E c \in Commits(Unset) :
       set([canvas |-> Blank, dirty |-> TRUE, problems |-> Blank] ++ NoPlanShown ++ c)
  /\ wire' = Older(Len(wire) + 1, wire) /\ Edits(FALSE)

clearPlan ==
  /\ ~DialogOpen /\ store.plan # NoPlan /\ ~JobRuns
  /\ set(NoPlanShown) /\ Calls(FALSE, watch.crossed) /\ UNCHANGED <<wire, server>>
-----------------------------------------------------------------------------
(* save: with the button or the shortcut, or because a plan was asked for, *)
(* which then follows the answer.                                          *)
Saving(then) == Sending(wire, [kind |-> "save", doc |-> store.canvas, then |-> then])

save ==
  /\ Calls(Applying, Crossed) /\ Saving("none")
  /\ UNCHANGED <<store, server>>

Planning(kind) ==
  /\ ~DialogOpen /\ ~JobRuns
  /\ IF store.dirty THEN Saving(kind) /\ Calls(Starting, Crossed)
     ELSE Sending(wire, [kind |-> kind]) /\ Calls(Starting, watch.crossed)
  /\ UNCHANGED <<store, server>>

runPlan == store.problems \notin Broken /\ Planning("plan")
runDestroyPlan == Planning("destroy")

(* The Apply button opens the dialog; its own button starts the apply.     *)
CanApply == store.plan # NoPlan /\ ~store.stale /\ ~JobRuns /\ ~store.dirty

openDialog ==
  /\ CanApply /\ ~store.confirm
  /\ set([confirm |-> TRUE]) /\ Calls(Starting, watch.crossed) /\ UNCHANGED <<wire, server>>

closeDialog ==
  /\ DialogOpen
  /\ set([confirm |-> FALSE]) /\ Calls(FALSE, watch.crossed) /\ UNCHANGED <<wire, server>>

runApply ==
  /\ DialogOpen
  /\ set([confirm |-> FALSE])
  /\ Sending(wire, [kind |-> "apply",
                    about |-> [plan |-> store.plan, canvas |-> store.canvas, dirty |-> store.dirty]])
  /\ Calls(Starting, watch.crossed)
  /\ UNCHANGED server

(* validateSoon, 350 ms after the last change; what the server answers does *)
(* not depend on when it handles the request.                              *)
validateSoon ==
  /\ store.timer
  /\ set([timer |-> FALSE])
  /\ Sending(wire, [kind |-> "validate", at |-> "in", doc |-> store.canvas])
  /\ UNCHANGED <<server, watch>>
-----------------------------------------------------------------------------
(* The server handles a request.                                           *)
Replies(i, x) == wire' = [wire EXCEPT ![i] = [@ EXCEPT !.at = "in", !.reply = x]]

Put(i, r) ==
  /\ r.kind = "save"
  /\ server' = [server EXCEPT !.file = r.doc]
  /\ Replies(i, Unset)
  /\ UNCHANGED watch

Ask(i, r) ==
  /\ r.kind \in {"load", "latest", "job"}
  /\ Replies(i, CASE r.kind = "load" -> server.file
                  [] r.kind = "latest" -> server.planned
                  [] OTHER -> [status |-> server.jobs[r.about.job].status])
  /\ UNCHANGED <<server, watch>>

(* Variant: the diagram is not compared with the one that was planned.     *)
AcceptsAnyDiagram(kind) == Running = {} /\ (kind = "apply" => server.planned # NoPlan)

Accepts(kind) ==
  /\ Running = {}
  /\ kind = "apply" => server.planned # NoPlan /\ server.file = server.planned.of

StartJob(i, r) ==
  /\ r.kind \in Start
  /\ IF Accepts(r.kind)
     THEN /\ server' = [server EXCEPT !.jobs = Append(@,
                [kind |-> r.kind, doc |-> server.file, status |-> "running"])]
          /\ Replies(i, [job |-> Len(server.jobs) + 1])
          /\ watch' = [watch EXCEPT !.crossed = @ \/ r.kind = "apply"]
     ELSE Replies(i, Unset) /\ UNCHANGED <<server, watch>>

Handle ==
  /\ \E i \in DOMAIN wire :
       wire[i].at = "out" /\ (Put(i, wire[i]) \/ Ask(i, wire[i]) \/ StartJob(i, wire[i]))
  /\ UNCHANGED store

(* A job ends.  A plan is of the diagram that was in the file when it was  *)
(* asked for; an apply writes that diagram back, with its outputs.         *)
PlanOf(j) == [of |-> server.jobs[j].doc, destroy |-> server.jobs[j].kind = "destroy"]

Succeeds(j) ==
  IF server.jobs[j].kind = "apply"
  THEN [server EXCEPT !.file = server.jobs[j].doc, !.planned = NoPlan,
                      !.jobs[j].status = "succeeded"]
  ELSE [server EXCEPT !.planned = PlanOf(j), !.jobs[j].status = "succeeded"]

Fails(j) ==
  [server EXCEPT !.planned = IF server.jobs[j].kind = "apply" THEN NoPlan ELSE @,
                 !.jobs[j].status = "failed"]

JobEnds ==
  \E j \in Running :
    /\ server' \in {Fails(j)} \cup {s \in {Succeeds(j)} : server.jobs[j].doc \notin Broken}
    /\ UNCHANGED <<store, wire, watch>>
-----------------------------------------------------------------------------
(* The answer to request i says what is wrong with a diagram, so those of  *)
(* the older requests are late, and it is out of order when it is late     *)
(* itself.                                                                 *)
Overtaken(i) == IF wire[i].late THEN Gone(i) ELSE Older(i, Gone(i))

(* What follows a save: the job it was for, unless the canvas is unsaved.  *)
Then(r, rest, dirty) ==
  IF r.then # "none" /\ ~dirty THEN Sending(rest, [kind |-> r.then]) ELSE wire' = rest

Saved(i, r) ==
  /\ r.kind = "save"
  /\ set([problems |-> r.doc, dirty |-> FALSE])
  /\ Then(r, Overtaken(i), FALSE)
  /\ watch' = [watch EXCEPT !.disordered = r.late, !.unsure = watch.crossed]

Validated(i, r) ==
  /\ r.kind = "validate"
  /\ set([problems |-> r.doc])
  /\ wire' = Overtaken(i)
  /\ watch' = [watch EXCEPT !.disordered = r.late]

(* load: what the file has replaces the canvas, and its history.           *)
Loaded(i, r) ==
  /\ r.kind = "load"
  /\ set([canvas |-> r.reply, dirty |-> FALSE, problems |-> r.reply, past |-> <<>>,
          future |-> <<>>])
  /\ Sending(Older(Len(wire), Gone(i)), [kind |-> "latest"])
  /\ watch' = [watch EXCEPT !.disordered = FALSE, !.unsure = watch.crossed]

(* The answer counts whatever has been planned since; it is behind when    *)
(* the server has another plan by then.                                    *)
Latest(i, r) ==
  /\ r.kind = "latest"
  /\ IF r.reply = NoPlan THEN UNCHANGED store ELSE set([plan |-> r.reply, stale |-> FALSE])
  /\ wire' = Gone(i)
  /\ watch' = [watch EXCEPT !.behind = @ \/ r.reply \notin {NoPlan, server.planned}]

(* streamJob: the log of the job is followed to its end.                   *)
Started(i, r) ==
  /\ r.kind \in Start
  /\ IF r.reply = Unset THEN UNCHANGED store
     ELSE set([job |-> [id |-> r.reply.job, status |-> "running"],
               streams |-> store.streams \cup {r.reply.job}])
  /\ wire' = Gone(i) /\ UNCHANGED watch

(* Variant: only a job that went well is shown to have ended.              *)
EndedWell(id) ==
  IF server.jobs[id].status # "succeeded" THEN [streams |-> store.streams \ {id}]
  ELSE [job |-> [id |-> id, status |-> "succeeded"], streams |-> store.streams \ {id}]

Ended(id) ==
  [job |-> [id |-> id, status |-> server.jobs[id].status], streams |-> store.streams \ {id}]

(* onDone, with the requests that stay.                                    *)
Done(id, rest) ==
  LET job == server.jobs[id]
      ok == job.status = "succeeded"
      applied == job.kind = "apply" /\ ok
  IN  /\ CASE job.kind = "apply" -> set(NoPlanShown ++ Ended(id))
           [] job.kind = "destroy" /\ ok ->
                set([plan |-> PlanOf(id), stale |-> FALSE, confirm |-> TRUE] ++ Ended(id))
           [] job.kind = "plan" /\ ok -> set([plan |-> PlanOf(id), stale |-> FALSE] ++ Ended(id))
           [] OTHER -> set(Ended(id))
      /\ IF applied
         THEN Sending(rest, [kind |-> "load"]) /\ watch' = [watch EXCEPT !.crossed = Crossed]
         ELSE wire' = rest /\ UNCHANGED watch

Asked(i, r) ==
  /\ r.kind = "job"
  /\ IF r.reply.status = "running"
     THEN UNCHANGED store /\ wire' = Gone(i) /\ watch' = [watch EXCEPT !.blind = TRUE]
     ELSE Done(r.about.job, Gone(i))

Answer ==
  /\ \E i \in DOMAIN wire :
       LET r == wire[i] IN
       r.at = "in" /\ (Saved(i, r) \/ Validated(i, r) \/ Loaded(i, r) \/ Latest(i, r)
                        \/ Started(i, r) \/ Asked(i, r))
  /\ UNCHANGED server

StreamDone ==
  /\ \E id \in store.streams \ Running : Done(id, wire)
  /\ UNCHANGED server

(* Connections break: of a request, before or after it was handled, and of *)
(* the stream, after which the job is asked for once.  It is blind when a   *)
(* job goes on that the canvas does not follow; an answer that says what   *)
(* is wrong with the canvas may get lost, with those of older ones to come. *)
Breaks(blind, disordered) ==
  /\ watch.lost < MaxLost /\ watch.acts + watch.lost < MaxActs
  /\ watch' = [watch EXCEPT !.lost = @ + 1, !.blind = @ \/ blind,
                           !.disordered = @ \/ disordered]
  /\ UNCHANGED server

RequestBreaks ==
  /\ \E i \in DOMAIN wire :
       LET r == wire[i]
           checks == r.kind \in {"save", "validate"}
       IN  /\ Then(r, IF checks THEN Overtaken(i) ELSE Gone(i), store.dirty)
           /\ Breaks(r.kind \in Start \cup {"job"}, checks /\ ~r.late)
  /\ UNCHANGED store

StreamBreaks ==
  \E id \in store.streams :
    /\ set([streams |-> store.streams \ {id}])
    /\ Sending(wire, [kind |-> "job", about |-> [job |-> id]])
    /\ Breaks(FALSE, FALSE)

UserActs ==
  \/ Edit \/ undo \/ redo \/ loadDocument \/ newDiagram \/ clearPlan \/ save
  \/ runPlan \/ runDestroyPlan \/ openDialog \/ closeDialog \/ runApply

Next ==
  \/ UserActs \/ validateSoon
  \/ Handle \/ JobEnds \/ Answer \/ StreamDone
  \/ RequestBreaks \/ StreamBreaks

Spec == Init /\ [][Next]_vars

(* The server handles what arrives, jobs end, answers and events are       *)
(* delivered and timers fire; the user need not do anything.  Nothing of    *)
(* it goes on for ever by itself, so it is enough that some of it goes on. *)
System == Handle \/ JobEnds \/ Answer \/ StreamDone \/ validateSoon

Fairness == WF_vars(System)
LiveSpec == Spec /\ Fairness
-----------------------------------------------------------------------------
TypeOK ==
  /\ {store.canvas, store.problems, server.file} \subseteq Diagram
  /\ Len(store.past) + Len(store.future) <= HistoryLimit
  /\ Cardinality(Running) <= 1
  /\ store.streams \subseteq DOMAIN server.jobs

(* What is not marked as unsaved is in the file: save clears the mark when *)
(* the answer comes, undo may return to what was saved, an apply writes    *)
(* the file itself.  Not so when the last answer to a save or a load was   *)
(* to one that an edit, another one or an apply had crossed, which holds   *)
(* until the next edit or the next answer.                                 *)
UnsavedIsMarked == store.dirty \/ store.canvas = server.file \/ watch.unsure

(* Without exception: dirty says what the Save button shows.               *)
UnsavedIsAlwaysMarked == store.dirty \/ store.canvas = server.file

(* What is applied is the plan that was shown, of the diagram that was on  *)
(* the canvas or marked as unsaved, although a plan may be of what was     *)
(* saved before the last edit, the dialog opens by itself after a destroy  *)
(* plan and does not look at the canvas again.  Not so when the canvas     *)
(* was told of a plan that the server has replaced since, when it missed   *)
(* how a job went on, or once the user has been hasty.                     *)
AppliesShown(shown) ==
  /\ server.planned = shown.plan
  /\ shown.dirty \/ server.planned.of = shown.canvas

AppliesOther(i) ==
  /\ wire[i].kind = "apply" /\ server'.jobs # server.jobs /\ wire'[i] # wire[i]
  /\ ~watch.blind /\ ~watch.hasty /\ ~AppliesShown(wire[i].about)

ShownIsApplied == [][\A i \in DOMAIN wire : AppliesOther(i) => watch.behind]_vars

(* "Apply runs the exact plan you reviewed" (README.md): the plan that     *)
(* Apply carries out is the one the canvas shows.                          *)
ReviewedIsApplied == [][\A i \in DOMAIN wire : ~AppliesOther(i)]_vars

(* When nothing is under way the problems shown are those of the canvas,   *)
(* in whatever order answers came before and whichever got lost, unless    *)
(* the last of them was late or a newer one than it got lost.              *)
ProblemsAreOfCanvas ==
  wire = <<>> /\ ~store.timer /\ ~watch.disordered => store.problems = store.canvas

(* A job that the canvas shows as running is shown to have ended, unless   *)
(* connections break.                                                      *)
JobIsShown == JobRuns ~> (~JobRuns \/ watch.blind)
=============================================================================

-------------------------------- MODULE Jobs --------------------------------
(***************************************************************************)
(* The job manager of src/internal/jobs/jobs.go, and the server-sent-event *)
(* handler streamJob of src/internal/server/jobs.go that consumes it.      *)
(*                                                                         *)
(* Actors: callers of Start and Cancel, one goroutine per job that runs    *)
(* the body fn and then finishes the job, and one stream handler per       *)
(* connected client.  A line of the log is its index in j.lines: what it   *)
(* says is of no concern here, its position and its delivery are.          *)
(*                                                                         *)
(* j.mu is held across two steps only by the finishing goroutine           *)
(* (body = "finishing"); every other critical section is one action.       *)
(***************************************************************************)
EXTENDS Naturals, Sequences, Functions

CONSTANTS
  MaxJobs,      \* bound: jobs started during a behaviour
  MaxLines,     \* bound: lines one job emits
  ChanCap,      \* capacity of a subscriber's channel (256 in the code)
  Stream        \* stream handlers, one per connected client

ASSUME JobsAssumption ==
  /\ MaxJobs \in Nat
  /\ MaxLines \in Nat
  /\ ChanCap \in Nat \ {0}

VARIABLES
  seq,        \* m.seq; the keys of m.jobs are 1..seq
  busy,       \* m.busy: a job, or NoJob
  status,     \* j.Status
  body,       \* control of the job's goroutine
  pending,    \* complete lines of Log.buf that Write has still to emit
  partial,    \* Log.buf holds text without its newline
  lines,      \* Len(j.lines)
  result,     \* what fn returned: "none", "ok" or "err"
  ctxDone,    \* the job's context is cancelled
  subs,       \* j.subs: the streams whose channel is registered
  phase,      \* control of a stream handler
  sjob,       \* the job a stream is attached to
  backlog,    \* lines of the backlog the handler has still to send
  chan,       \* content of the stream's channel
  closed,     \* the channel is closed
  sent,       \* line events the client got
  doneStatus, \* status carried by the done event
  dropped     \* history: lines a full channel made emit drop

jobVars == <<seq, busy, status, body, pending, partial, lines, result, ctxDone>>
streamVars == <<phase, sjob, backlog, sent, doneStatus>>
vars == <<seq, busy, status, body, pending, partial, lines, result, ctxDone,
          subs, phase, sjob, backlog, chan, closed, sent, doneStatus, dropped>>

Job == 1..MaxJobs
NoJob == 0
Final == {"succeeded", "failed", "cancelled"}
Status == {"none", "running"} \cup Final
Body == {"absent", "executing", "returned", "finishing", "ended"}
Phase == {"off", "attached", "backlog", "live", "done", "gone"}
Line == 1..MaxLines

(* Every line the handler has, in the order the client gets them.          *)
Delivery(s) == sent[s] \o backlog[s] \o chan[s]

Init ==
  /\ seq = 0
  /\ busy = NoJob
  /\ status = [j \in Job |-> "none"]
  /\ body = [j \in Job |-> "absent"]
  /\ pending = [j \in Job |-> 0]
  /\ partial = [j \in Job |-> FALSE]
  /\ lines = [j \in Job |-> 0]
  /\ result = [j \in Job |-> "none"]
  /\ ctxDone = [j \in Job |-> FALSE]
  /\ subs = [j \in Job |-> {}]
  /\ phase = [s \in Stream |-> "off"]
  /\ sjob = [s \in Stream |-> NoJob]
  /\ backlog = [s \in Stream |-> <<>>]
  /\ chan = [s \in Stream |-> <<>>]
  /\ closed = [s \in Stream |-> FALSE]
  /\ sent = [s \in Stream |-> <<>>]
  /\ doneStatus = [s \in Stream |-> "none"]
  /\ dropped = [s \in Stream |-> {}]

-----------------------------------------------------------------------------
(* Start reads m.busy.Status under m.mu but not under j.mu: while the      *)
(* finishing goroutine is inside its critical section the read is a race   *)
(* and returns the old status or the new one.                              *)
StatusSeen(j) ==
  IF body[j] = "finishing" THEN {"running", status[j]} ELSE {status[j]}

(* Variant: Start does not look at m.busy.                                 *)
StartIgnoringBusy ==
  /\ seq < MaxJobs
  /\ LET j == seq + 1 IN
       /\ seq' = j
       /\ busy' = j
       /\ status' = [status EXCEPT ![j] = "running"]
       /\ body' = [body EXCEPT ![j] = "executing"]
  /\ UNCHANGED <<pending, partial, lines, result, ctxDone, subs, chan, closed,
                 dropped, streamVars>>

(* Manager.Start when it does not return ErrBusy (ErrBusy changes nothing).*)
Start ==
  /\ seq < MaxJobs
  /\ busy # NoJob => \E seen \in StatusSeen(busy) : seen # "running"
  /\ LET j == seq + 1 IN
       /\ seq' = j
       /\ busy' = j
       /\ status' = [status EXCEPT ![j] = "running"]
       /\ body' = [body EXCEPT ![j] = "executing"]
  /\ UNCHANGED <<pending, partial, lines, result, ctxDone, subs, chan, closed,
                 dropped, streamVars>>

(* Variant: Cancel sets the status itself.                                 *)
CancelMarksJob(j) ==
  /\ j <= seq
  /\ ctxDone' = [ctxDone EXCEPT ![j] = TRUE]
  /\ status' = [status EXCEPT ![j] = "cancelled"]
  /\ UNCHANGED <<seq, busy, body, pending, partial, lines, result, subs, chan,
                 closed, dropped, streamVars>>

(* Manager.Cancel of any job of the map, ended ones included.              *)
Cancel(j) ==
  /\ j <= seq
  /\ ctxDone' = [ctxDone EXCEPT ![j] = TRUE]
  /\ UNCHANGED <<seq, busy, status, body, pending, partial, lines, result, subs,
                 chan, closed, dropped, streamVars>>

-----------------------------------------------------------------------------
(* The body writes a chunk with k newlines to its Log; tail says whether   *)
(* text follows the last one.  Write then emits line by line.              *)
LogWrite(j, k, tail) ==
  /\ body[j] = "executing"
  /\ pending[j] = 0
  /\ k + (IF tail THEN 1 ELSE 0) > 0
  /\ lines[j] + k <= MaxLines
  /\ pending' = [pending EXCEPT ![j] = k]
  /\ partial' = [partial EXCEPT ![j] = tail \/ (k = 0 /\ partial[j])]
  /\ UNCHANGED <<seq, busy, status, body, lines, result, ctxDone, subs, chan,
                 closed, dropped, streamVars>>

HasRoom(s) == Len(chan[s]) < ChanCap

(* Variant: every channel takes every line.                                *)
EmitUnbounded(j) ==
  /\ pending[j] > 0
  /\ pending' = [pending EXCEPT ![j] = @ - 1]
  /\ lines' = [lines EXCEPT ![j] = @ + 1]
  /\ chan' = [s \in Stream |->
                IF s \in subs[j] THEN Append(chan[s], lines[j] + 1) ELSE chan[s]]
  /\ UNCHANGED <<seq, busy, status, body, partial, result, ctxDone, subs, closed,
                 dropped, streamVars>>

(* Variant: emit waits for room in every channel.                          *)
EmitBlocking(j) ==
  /\ pending[j] > 0
  /\ \A s \in subs[j] : HasRoom(s)
  /\ pending' = [pending EXCEPT ![j] = @ - 1]
  /\ lines' = [lines EXCEPT ![j] = @ + 1]
  /\ chan' = [s \in Stream |->
                IF s \in subs[j] THEN Append(chan[s], lines[j] + 1) ELSE chan[s]]
  /\ UNCHANGED <<seq, busy, status, body, partial, result, ctxDone, subs, closed,
                 dropped, streamVars>>

(* Log.emit: append the line and offer it to every registered channel      *)
(* without blocking.                                                       *)
Emit(j) ==
  /\ pending[j] > 0
  /\ pending' = [pending EXCEPT ![j] = @ - 1]
  /\ lines' = [lines EXCEPT ![j] = @ + 1]
  /\ chan' = [s \in Stream |->
                IF s \in subs[j] /\ HasRoom(s)
                THEN Append(chan[s], lines[j] + 1) ELSE chan[s]]
  /\ dropped' = [s \in Stream |->
                   IF s \in subs[j] /\ ~HasRoom(s)
                   THEN dropped[s] \cup {lines[j] + 1} ELSE dropped[s]]
  /\ UNCHANGED <<seq, busy, status, body, partial, result, ctxDone, subs, closed,
                 streamVars>>

(* fn returns.                                                             *)
Return(j, r) ==
  /\ body[j] = "executing"
  /\ pending[j] = 0
  /\ body' = [body EXCEPT ![j] = "returned"]
  /\ result' = [result EXCEPT ![j] = r]
  /\ UNCHANGED <<seq, busy, status, pending, partial, lines, ctxDone, subs, chan,
                 closed, dropped, streamVars>>

(* The switch on the context first, the error second.                      *)
Outcome(j) ==
  CASE ctxDone[j] -> "cancelled"
    [] ~ctxDone[j] /\ result[j] = "err" -> "failed"
    [] OTHER -> "succeeded"

(* The goroutine takes j.mu and records the outcome ...                    *)
Finish(j) ==
  /\ body[j] = "returned"
  /\ body' = [body EXCEPT ![j] = "finishing"]
  /\ status' = [status EXCEPT ![j] = Outcome(j)]
  /\ UNCHANGED <<seq, busy, pending, partial, lines, result, ctxDone, subs, chan,
                 closed, dropped, streamVars>>

(* Variant: the channels are forgotten but not closed.                     *)
CloseSubsForgetting(j) ==
  /\ body[j] = "finishing"
  /\ body' = [body EXCEPT ![j] = "ended"]
  /\ subs' = [subs EXCEPT ![j] = {}]
  /\ ctxDone' = [ctxDone EXCEPT ![j] = TRUE]
  /\ UNCHANGED <<seq, busy, status, pending, partial, lines, result, chan, closed,
                 dropped, streamVars>>

(* ... then closes the channels, forgets them, unlocks and, deferred,      *)
(* cancels the context.                                                    *)
CloseSubs(j) ==
  /\ body[j] = "finishing"
  /\ body' = [body EXCEPT ![j] = "ended"]
  /\ closed' = [s \in Stream |-> closed[s] \/ s \in subs[j]]
  /\ subs' = [subs EXCEPT ![j] = {}]
  /\ ctxDone' = [ctxDone EXCEPT ![j] = TRUE]
  /\ UNCHANGED <<seq, busy, status, pending, partial, lines, result, chan, dropped,
                 streamVars>>

-----------------------------------------------------------------------------
(* streamJob: look the job up,                                             *)
Attach(s, j) ==
  /\ phase[s] = "off"
  /\ j <= seq
  /\ phase' = [phase EXCEPT ![s] = "attached"]
  /\ sjob' = [sjob EXCEPT ![s] = j]
  /\ UNCHANGED <<jobVars, subs, backlog, chan, closed, sent, doneStatus, dropped>>

(* Variant: the copied backlog misses its last line.                       *)
SubscribeLosingBacklogEnd(s) ==
  LET j == sjob[s] IN
  /\ phase[s] = "attached"
  /\ body[j] # "finishing"
  /\ phase' = [phase EXCEPT ![s] = "backlog"]
  /\ backlog' = [backlog EXCEPT ![s] = [i \in 1..(lines[j] - 1) |-> i]]
  /\ IF status[j] = "running"
     THEN subs' = [subs EXCEPT ![j] = @ \cup {s}] /\ UNCHANGED closed
     ELSE closed' = [closed EXCEPT ![s] = TRUE] /\ UNCHANGED subs
  /\ UNCHANGED <<jobVars, sjob, chan, sent, doneStatus, dropped>>

(* Job.Subscribe: copy the backlog and register, in one critical section   *)
(* (not while the finishing goroutine holds j.mu).                         *)
Subscribe(s) ==
  LET j == sjob[s] IN
  /\ phase[s] = "attached"
  /\ body[j] # "finishing"
  /\ phase' = [phase EXCEPT ![s] = "backlog"]
  /\ backlog' = [backlog EXCEPT ![s] = [i \in 1..lines[j] |-> i]]
  /\ IF status[j] = "running"
     THEN subs' = [subs EXCEPT ![j] = @ \cup {s}] /\ UNCHANGED closed
     ELSE closed' = [closed EXCEPT ![s] = TRUE] /\ UNCHANGED subs
  /\ UNCHANGED <<jobVars, sjob, chan, sent, doneStatus, dropped>>

(* Variant: the channel is read before the backlog is sent.                *)
GoLiveEarly(s) ==
  /\ phase[s] = "backlog"
  /\ phase' = [phase EXCEPT ![s] = "live"]
  /\ UNCHANGED <<jobVars, subs, sjob, backlog, chan, closed, sent, doneStatus, dropped>>

(* The handler sends the backlog before it looks at the channel.           *)
SendBacklog(s) ==
  /\ phase[s] = "backlog"
  /\ backlog[s] # <<>>
  /\ sent' = [sent EXCEPT ![s] = Append(@, Head(backlog[s]))]
  /\ backlog' = [backlog EXCEPT ![s] = Tail(@)]
  /\ UNCHANGED <<jobVars, subs, phase, sjob, chan, closed, doneStatus, dropped>>

GoLive(s) ==
  /\ phase[s] = "backlog"
  /\ backlog[s] = <<>>
  /\ phase' = [phase EXCEPT ![s] = "live"]
  /\ UNCHANGED <<jobVars, subs, sjob, backlog, chan, closed, sent, doneStatus, dropped>>

(* The select loop: a line arrives,                                        *)
Receive(s) ==
  /\ phase[s] = "live"
  /\ chan[s] # <<>>
  /\ sent' = [sent EXCEPT ![s] = Append(@, Head(chan[s]))]
  /\ chan' = [chan EXCEPT ![s] = Tail(@)]
  /\ UNCHANGED <<jobVars, subs, phase, sjob, backlog, closed, doneStatus, dropped>>

(* Variant: done is sent at the close, before what is queued.              *)
DoneOnClose(s) ==
  /\ phase[s] = "live"
  /\ closed[s]
  /\ doneStatus' = [doneStatus EXCEPT ![s] = status[sjob[s]]]
  /\ phase' = [phase EXCEPT ![s] = "done"]
  /\ UNCHANGED <<jobVars, subs, sjob, backlog, chan, closed, sent, dropped>>

(* or the channel is closed and drained: send done with the job's status.  *)
Done(s) ==
  /\ phase[s] = "live"
  /\ chan[s] = <<>>
  /\ closed[s]
  /\ doneStatus' = [doneStatus EXCEPT ![s] = status[sjob[s]]]
  /\ phase' = [phase EXCEPT ![s] = "done"]
  /\ UNCHANGED <<jobVars, subs, sjob, backlog, chan, closed, sent, dropped>>

(* or the client went away.  The channel stays registered in j.subs.       *)
Disconnect(s) ==
  /\ phase[s] = "live"
  /\ phase' = [phase EXCEPT ![s] = "gone"]
  /\ UNCHANGED <<jobVars, subs, sjob, backlog, chan, closed, sent, doneStatus, dropped>>

-----------------------------------------------------------------------------
Goroutine(j) ==
  \/ \E k \in 0..MaxLines, tail \in BOOLEAN : LogWrite(j, k, tail)
  \/ Emit(j)
  \/ \E r \in {"ok", "err"} : Return(j, r)
  \/ Finish(j)
  \/ CloseSubs(j)

Handler(s) ==
  \/ \E j \in Job : Attach(s, j)
  \/ Subscribe(s)
  \/ SendBacklog(s)
  \/ GoLive(s)
  \/ Receive(s)
  \/ Done(s)
  \/ Disconnect(s)

Next ==
  \/ Start
  \/ \E j \in Job : Cancel(j)
  \/ \E j \in Job : Goroutine(j)
  \/ \E s \in Stream : Handler(s)

Spec == Init /\ [][Next]_vars

(* Fairness.  The goroutine runs: what it has begun to emit it emits, and  *)
(* what fn returned it records.  fn itself need not return on its own; it  *)
(* does once its context is cancelled, since exec.CommandContext kills the *)
(* tofu process.  No fairness is asked of Start, Cancel or the clients.    *)
JobFairness ==
  \A j \in Job :
    /\ WF_vars(Emit(j))
    /\ WF_vars(ctxDone[j] /\ \E r \in {"ok", "err"} : Return(j, r))
    /\ WF_vars(Finish(j))
    /\ WF_vars(CloseSubs(j))

(* The handler of a client that keeps reading keeps sending.               *)
StreamFairness ==
  \A s \in Stream :
    WF_vars(Subscribe(s) \/ SendBacklog(s) \/ GoLive(s) \/ Receive(s) \/ Done(s))

JobLiveSpec == Spec /\ JobFairness

-----------------------------------------------------------------------------
(* Every variable stays within its set; a channel never exceeds its        *)
(* capacity and only registered, unclosed channels are in j.subs.          *)
TypeOK ==
  /\ seq \in 0..MaxJobs
  /\ busy \in Job \cup {NoJob}
  /\ status \in [Job -> Status]
  /\ body \in [Job -> Body]
  /\ pending \in [Job -> 0..MaxLines]
  /\ partial \in [Job -> BOOLEAN]
  /\ lines \in [Job -> 0..MaxLines]
  /\ result \in [Job -> {"none", "ok", "err"}]
  /\ ctxDone \in [Job -> BOOLEAN]
  /\ subs \in [Job -> SUBSET Stream]
  /\ phase \in [Stream -> Phase]
  /\ sjob \in [Stream -> Job \cup {NoJob}]
  /\ backlog \in [Stream -> Seq(Line)]
  /\ chan \in [Stream -> Seq(Line)]
  /\ closed \in [Stream -> BOOLEAN]
  /\ sent \in [Stream -> Seq(Line)]
  /\ doneStatus \in [Stream -> Status]
  /\ dropped \in [Stream -> SUBSET Line]
  /\ \A s \in Stream : Len(chan[s]) <= ChanCap

(* "Only one job runs at a time because they all share the same working    *)
(* directory and state": two bodies never execute together, although Start *)
(* reads Status without the job's lock.                                    *)
OneBodyAtATime ==
  \A i, j \in Job : body[i] = "executing" /\ body[j] = "executing" => i = j

(* A client sees lines in the order of the log and none twice, across the  *)
(* seam between the copied backlog and the channel registered with it.     *)
StreamInOrder ==
  \A s \in Stream :
    \A a, b \in DOMAIN Delivery(s) : a < b => Delivery(s)[a] < Delivery(s)[b]

(* A connected client misses no line of the log except those emit dropped  *)
(* because the client's channel was full.                                  *)
CompleteUnlessSlow ==
  \A s \in Stream :
    phase[s] \in {"backlog", "live", "done"} =>
      Range(Delivery(s)) \cup dropped[s] = 1..lines[sjob[s]]

(* The done event comes after every queued line and carries the outcome,   *)
(* never "running", although streamJob reads the job without its lock.     *)
DoneIsLast ==
  \A s \in Stream :
    phase[s] = "done" =>
      /\ doneStatus[s] \in Final
      /\ doneStatus[s] = status[sjob[s]]
      /\ Range(sent[s]) \cup dropped[s] = 1..lines[sjob[s]]

(* Once a job has an outcome neither it nor the log changes any more: no   *)
(* late cancel rewrites it, no line is added after it.                     *)
OutcomeIsFinal ==
  [][\A j \in Job : status[j] \in Final =>
        status'[j] = status[j] /\ lines'[j] = lines[j]]_vars

(* A cancelled job ends, whatever its subscribers do: "slow subscriber:    *)
(* drop rather than block the job".                                        *)
CancelEndsJob ==
  \A j \in Job : (ctxDone[j] ~> status[j] \in Final)

(* A stream of a job that has ended ends too, if its client keeps reading: *)
(* the channel of every subscriber is closed, those that subscribed too    *)
(* late included.                                                          *)
StreamEnds ==
  StreamFairness =>
    \A s \in Stream :
      (sjob[s] # NoJob /\ status[sjob[s]] \in Final) ~> phase[s] \in {"done", "gone"}

(* The manager is a serial executor: a body begins only when none executes *)
(* and never begins twice.                                                 *)
Stage(j) ==
  CASE body[j] = "absent" -> "new"
    [] body[j] = "executing" -> "executing"
    [] OTHER -> "ended"

Executor == INSTANCE SerialExecutor WITH stage <- [j \in Job |-> Stage(j)]

ImplementsExecutor == Executor!Spec
=============================================================================

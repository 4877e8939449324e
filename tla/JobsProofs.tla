----------------------------- MODULE JobsProofs -----------------------------
(***************************************************************************)
(* Proofs about the job manager, for any number of jobs, lines, clients    *)
(* and any channel capacity.                                               *)
(***************************************************************************)
EXTENDS Jobs, TLAPS

(* Who may execute: the body of a job runs only while the job is the busy  *)
(* one and its status is still "running"; and a job has an outcome exactly *)
(* from the moment its goroutine starts to finish.                         *)
SlotInv ==
  /\ busy # NoJob => body[busy] # "absent"
  /\ \A j \in Job :
       /\ body[j] = "absent" <=> j > seq
       /\ body[j] = "absent" => status[j] = "none"
       /\ body[j] \in {"executing", "returned"} => status[j] = "running" /\ busy = j
       /\ body[j] \in {"finishing", "ended"} => status[j] \in Final
       /\ body[j] # "executing" => pending[j] = 0
       /\ lines[j] + pending[j] <= MaxLines

JobTypeOK ==
  /\ seq \in 0..MaxJobs
  /\ busy \in Job \cup {NoJob}
  /\ status \in [Job -> Status]
  /\ body \in [Job -> Body]
  /\ pending \in [Job -> 0..MaxLines]
  /\ partial \in [Job -> BOOLEAN]
  /\ lines \in [Job -> 0..MaxLines]
  /\ result \in [Job -> {"none", "ok", "err"}]
  /\ ctxDone \in [Job -> BOOLEAN]

JobInv == JobTypeOK /\ SlotInv

(* Steps of the stream handlers leave every variable of JobInv alone.      *)
LEMMA HandlerKeepsJobs ==
  ASSUME NEW s \in Stream, Handler(s)
  PROVE  UNCHANGED jobVars
  BY DEF Handler, Attach, Subscribe, SendBacklog, GoLive, Receive, Done,
         Disconnect, jobVars

LEMMA JobInvInit == Init => JobInv
  BY JobsAssumption DEF Init, JobInv, JobTypeOK, SlotInv, Job, NoJob, Status, Final,
                        Body

LEMMA JobInvNext == JobInv /\ [Next]_vars => JobInv'
<1> SUFFICES ASSUME JobInv, [Next]_vars
             PROVE  JobInv'
  OBVIOUS
<1> USE JobsAssumption DEF JobInv, JobTypeOK, SlotInv, Job, NoJob, Status, Final, Body
<1>1. CASE Start
  <2>1. \A j \in Job : body[j] \notin {"executing", "returned"}
    BY <1>1 DEF Start, StatusSeen
  <2> QED
    BY <1>1, <2>1 DEF Start
<1>2. ASSUME NEW j \in Job, Cancel(j)
      PROVE  JobInv'
  BY <1>2 DEF Cancel
<1>3. ASSUME NEW j \in Job, NEW k \in 0..MaxLines, NEW tail \in BOOLEAN,
             LogWrite(j, k, tail)
      PROVE  JobInv'
  BY <1>3 DEF LogWrite
<1>4. ASSUME NEW j \in Job, Emit(j)
      PROVE  JobInv'
  <2>1. /\ pending[j] > 0
        /\ pending' = [pending EXCEPT ![j] = @ - 1]
        /\ lines' = [lines EXCEPT ![j] = @ + 1]
        /\ UNCHANGED <<seq, busy, status, body, partial, result, ctxDone>>
    BY <1>4 DEF Emit
  <2> QED
    BY <2>1
<1>5. ASSUME NEW j \in Job, NEW r \in {"ok", "err"}, Return(j, r)
      PROVE  JobInv'
  BY <1>5 DEF Return
<1>6. ASSUME NEW j \in Job, Finish(j)
      PROVE  JobInv'
  <2>1. Outcome(j) \in Final
    BY DEF Outcome
  <2> QED
    BY <1>6, <2>1 DEF Finish
<1>7. ASSUME NEW j \in Job, CloseSubs(j)
      PROVE  JobInv'
  BY <1>7 DEF CloseSubs
<1>8. CASE UNCHANGED jobVars
  BY <1>8 DEF jobVars
<1>9. ASSUME NEW s \in Stream, Handler(s)
      PROVE  JobInv'
  BY <1>8, <1>9, HandlerKeepsJobs
<1>10. ASSUME NEW j \in Job, Goroutine(j)
       PROVE  JobInv'
  BY <1>3, <1>4, <1>5, <1>6, <1>7, <1>10 DEF Goroutine
<1>11. CASE UNCHANGED vars
  BY <1>8, <1>11 DEF vars, jobVars
<1> QED
  BY <1>1, <1>2, <1>9, <1>10, <1>11 DEF Next

(* The job manager's own state keeps its invariant.                        *)
THEOREM JobInvariant == Spec => []JobInv
  BY JobInvInit, JobInvNext, PTL DEF Spec

(* At most one operation body executes, although Start looks at the status *)
(* of the previous job without its lock (jobs.go, Start): the unlocked     *)
(* read can only be early, never before fn has returned.                   *)
THEOREM OneBody == Spec => []OneBodyAtATime
<1>1. JobInv => OneBodyAtATime
  BY DEF JobInv, SlotInv, OneBodyAtATime
<1> QED
  BY <1>1, JobInvariant, PTL

-----------------------------------------------------------------------------
(* A job with an outcome keeps it, and its log gets no further line: a     *)
(* cancel that arrives late changes nothing a client can see.              *)
THEOREM OutcomeNeverRewritten == Spec => OutcomeIsFinal
<1>1. ASSUME JobInv, [Next]_vars, NEW j \in Job, status[j] \in Final
      PROVE  status'[j] = status[j] /\ lines'[j] = lines[j]
  <2> USE <1>1 DEF JobInv, JobTypeOK, SlotInv, Job, Status, Final, Body
  <2>1. CASE Start
    BY <2>1, JobsAssumption DEF Start, NoJob
  <2>2. ASSUME NEW i \in Job, Cancel(i)
        PROVE  status'[j] = status[j] /\ lines'[j] = lines[j]
    BY <2>2 DEF Cancel
  <2>3. ASSUME NEW i \in Job, Goroutine(i)
        PROVE  status'[j] = status[j] /\ lines'[j] = lines[j]
    <3>1. CASE Emit(i)
      <4>1. /\ pending[i] > 0
            /\ lines' = [lines EXCEPT ![i] = @ + 1]
            /\ UNCHANGED status
        BY <3>1 DEF Emit
      <4> QED
        BY <4>1, JobsAssumption
    <3>2. CASE Finish(i)
      BY <3>2 DEF Finish
    <3> QED
      BY <2>3, <3>1, <3>2 DEF Goroutine, LogWrite, Return, CloseSubs
  <2> QED
    BY <2>1, <2>2, <2>3, HandlerKeepsJobs DEF Next, vars, jobVars
<1>2. JobInv /\ [Next]_vars =>
        [\A j \in Job : status[j] \in Final =>
            status'[j] = status[j] /\ lines'[j] = lines[j]]_vars
  BY <1>1
<1> QED
  BY <1>2, JobInvariant, PTL DEF Spec, OutcomeIsFinal

-----------------------------------------------------------------------------
(* The job manager implements the serial executor: every step begins a     *)
(* body when none executes, ends the one that executes, or does neither.   *)
stageMap == [j \in Job |-> Stage(j)]

LEMMA ExecutorStep == JobInv /\ [Next]_vars => [Executor!Next]_stageMap
<1> SUFFICES ASSUME JobInv, [Next]_vars
             PROVE  Executor!Next \/ UNCHANGED stageMap
  BY DEF stageMap
<1> USE DEF JobInv, JobTypeOK, SlotInv, Stage, stageMap, Job, Body, NoJob
<1>1. CASE Start
  <2>1. \A j \in Job : body[j] \notin {"executing", "returned"}
    BY <1>1 DEF Start, StatusSeen
  <2>2. PICK k \in Job : k = seq + 1
    BY <1>1, JobsAssumption DEF Start
  <2>3. Stage(k) = "new"
    BY <2>2, JobsAssumption
  <2>4. \A i \in Job : Stage(i)' = IF i = k THEN "executing" ELSE Stage(i)
    BY <1>1, <2>2 DEF Start
  <2>5. Executor!Executing = {}
    BY <2>1 DEF Executor!Executing
  <2>6. Executor!Begin(k)
    BY <2>3, <2>4, <2>5 DEF Executor!Begin
  <2> QED
    BY <2>6 DEF Executor!Next
<1>2. ASSUME NEW j \in Job, NEW r \in {"ok", "err"}, Return(j, r)
      PROVE  Executor!Next
  BY <1>2 DEF Return, Executor!Next, Executor!End
<1>3. ASSUME NEW j \in Job, Finish(j) \/ CloseSubs(j)
      PROVE  UNCHANGED stageMap
  BY <1>3 DEF Finish, CloseSubs
<1>4. CASE UNCHANGED body
  BY <1>4
<1> QED
  BY <1>1, <1>2, <1>3, <1>4, HandlerKeepsJobs
     DEF Next, Goroutine, Cancel, LogWrite, Emit, vars, jobVars

THEOREM JobsImplementExecutor == Spec => ImplementsExecutor
<1>1. Init => Executor!Init
  BY DEF Init, Executor!Init, Stage
<1> QED
  BY <1>1, JobInvariant, ExecutorStep, PTL DEF Spec, ImplementsExecutor, Executor!Spec, stageMap

-----------------------------------------------------------------------------
(* The log streams of jobs: what a client is sent, in which order, and     *)
(* when its stream ends.                                                   *)

(* Log lines are numbered, so order and repetition are arithmetic.         *)
Increasing(p) == \A a, b \in DOMAIN p : a < b => p[a] < p[b]
Below(p, q) == \A a \in DOMAIN p, b \in DOMAIN q : p[a] < q[b]

(* What the prover knows of Append and Tail only place by place.           *)
LEMMA AppendFacts ==
  ASSUME NEW S, NEW p \in Seq(S), NEW n \in S
  PROVE  /\ Append(p, n) \in Seq(S)
         /\ DOMAIN Append(p, n) = 1..(Len(p) + 1)
         /\ DOMAIN p = 1..Len(p) /\ Len(p) \in Nat
         /\ \A i \in 1..Len(p) : Append(p, n)[i] = p[i]
         /\ Append(p, n)[Len(p) + 1] = n
  OBVIOUS

LEMMA TailFacts ==
  ASSUME NEW S, NEW q \in Seq(S), q # <<>>
  PROVE  /\ Tail(q) \in Seq(S)
         /\ Head(q) \in S
         /\ DOMAIN q = 1..Len(q) /\ Len(q) \in Nat \ {0}
         /\ DOMAIN Tail(q) = 1..(Len(q) - 1)
         /\ \A i \in 1..(Len(q) - 1) : Tail(q)[i] = q[i + 1]
         /\ Head(q) = q[1]
  OBVIOUS

(* The contents of a sequence that grows or shrinks by one.                *)
LEMMA AppendRange ==
  ASSUME NEW S, NEW p \in Seq(S), NEW n \in S
  PROVE  Range(Append(p, n)) = Range(p) \cup {n}
<1> DEFINE a == Append(p, n)
<1>1. /\ DOMAIN a = 1..(Len(p) + 1)
      /\ DOMAIN p = 1..Len(p) /\ Len(p) \in Nat
      /\ \A i \in 1..Len(p) : a[i] = p[i]
      /\ a[Len(p) + 1] = n
  BY AppendFacts
<1> HIDE DEF a
<1>2. \A x : (\E i \in DOMAIN a : x = a[i]) <=> (x = n \/ \E i \in DOMAIN p : x = p[i])
  BY <1>1
<1> QED
  BY <1>2 DEF Range, a

LEMMA TailRange ==
  ASSUME NEW S, NEW q \in Seq(S), q # <<>>
  PROVE  Range(q) = {Head(q)} \cup Range(Tail(q))
<1> DEFINE t == Tail(q)
           h == Head(q)
<1>1. /\ DOMAIN q = 1..Len(q) /\ Len(q) \in Nat \ {0}
      /\ DOMAIN t = 1..(Len(q) - 1)
      /\ \A i \in 1..(Len(q) - 1) : t[i] = q[i + 1]
      /\ h = q[1]
  BY TailFacts
<1> HIDE DEF t, h
<1>2. ASSUME NEW i \in DOMAIN q
      PROVE  q[i] = h \/ \E k \in DOMAIN t : q[i] = t[k]
  <2>1. CASE i = 1
    BY <1>1, <2>1
  <2>2. CASE i # 1
    <3>1. i - 1 \in DOMAIN t /\ q[i] = t[i - 1]
      BY <1>1, <2>2
    <3> QED
      BY <3>1
  <2> QED
    BY <2>1, <2>2
<1>3. ASSUME NEW k \in DOMAIN t
      PROVE  \E i \in DOMAIN q : t[k] = q[i]
  <2>1. k + 1 \in DOMAIN q /\ t[k] = q[k + 1]
    BY <1>1
  <2> QED
    BY <2>1
<1>4. 1 \in DOMAIN q
  BY <1>1
<1> QED
  BY <1>1, <1>2, <1>3, <1>4 DEF Range, t, h

(* One element moves from the head of q to the end of p.                   *)
LEMMA MoveHead ==
  ASSUME NEW S \in SUBSET Nat, NEW p \in Seq(S), NEW q \in Seq(S), q # <<>>,
         Increasing(p), Increasing(q), Below(p, q)
  PROVE  /\ Append(p, Head(q)) \in Seq(S) /\ Tail(q) \in Seq(S)
         /\ Increasing(Append(p, Head(q)))
         /\ Increasing(Tail(q))
         /\ Below(Append(p, Head(q)), Tail(q))
<1> DEFINE t == Tail(q)
           h == Head(q)
           a == Append(p, h)
<1>1. /\ h \in S
      /\ DOMAIN q = 1..Len(q) /\ Len(q) \in Nat \ {0}
      /\ DOMAIN t = 1..(Len(q) - 1)
      /\ \A i \in 1..(Len(q) - 1) : t[i] = q[i + 1]
      /\ h = q[1]
  BY TailFacts
<1>2. /\ DOMAIN a = 1..(Len(p) + 1)
      /\ DOMAIN p = 1..Len(p) /\ Len(p) \in Nat
      /\ \A i \in 1..Len(p) : a[i] = p[i]
      /\ a[Len(p) + 1] = h
  BY <1>1, AppendFacts
<1> HIDE DEF t, h, a
<1>3. ASSUME NEW i \in DOMAIN a, NEW k \in DOMAIN a, i < k
      PROVE  a[i] < a[k]
  <2>1. i \in 1..Len(p) /\ a[i] = p[i]
    BY <1>2, <1>3
  <2>2. CASE k = Len(p) + 1
    <3>1. 1 \in DOMAIN q
      BY <1>1
    <3> QED
      BY <1>1, <1>2, <2>1, <2>2, <3>1 DEF Below
  <2>3. CASE k # Len(p) + 1
    <3>1. k \in 1..Len(p) /\ a[k] = p[k]
      BY <1>2, <2>3
    <3> QED
      BY <1>2, <1>3, <2>1, <3>1 DEF Increasing
  <2> QED
    BY <2>2, <2>3
<1>4. ASSUME NEW i \in DOMAIN t, NEW k \in DOMAIN t, i < k
      PROVE  t[i] < t[k]
  <2>1. \A x \in DOMAIN t : x \in Nat /\ x + 1 \in DOMAIN q /\ t[x] = q[x + 1]
    BY <1>1
  <2>2. i + 1 < k + 1
    BY <1>4, <2>1
  <2> QED
    BY <2>1, <2>2 DEF Increasing
<1>5. ASSUME NEW i \in DOMAIN a, NEW k \in DOMAIN t
      PROVE  a[i] < t[k]
  <2>1. /\ 1 \in DOMAIN q /\ k + 1 \in DOMAIN q /\ 1 < k + 1
        /\ t[k] = q[k + 1]
    BY <1>1
  <2>2. CASE i = Len(p) + 1
    BY <1>1, <1>2, <2>1, <2>2 DEF Increasing
  <2>3. CASE i # Len(p) + 1
    <3>1. i \in DOMAIN p /\ a[i] = p[i]
      BY <1>2, <2>3
    <3> QED
      BY <2>1, <3>1 DEF Below
  <2> QED
    BY <2>2, <2>3
<1>6. Increasing(a) /\ Increasing(t) /\ Below(a, t)
  BY <1>3, <1>4, <1>5 DEF Increasing, Below
<1> QED
  BY <1>6, AppendFacts, TailFacts DEF t, h, a

(* What follows q stays behind both.                                       *)
LEMMA MoveHeadBelow ==
  ASSUME NEW S \in SUBSET Nat, NEW p \in Seq(S), NEW q \in Seq(S), q # <<>>, NEW r,
         Below(p, r), Below(q, r)
  PROVE  Below(Append(p, Head(q)), r) /\ Below(Tail(q), r)
<1> DEFINE t == Tail(q)
           h == Head(q)
           a == Append(p, h)
<1>1. /\ h \in S
      /\ DOMAIN q = 1..Len(q) /\ Len(q) \in Nat \ {0}
      /\ DOMAIN t = 1..(Len(q) - 1)
      /\ \A i \in 1..(Len(q) - 1) : t[i] = q[i + 1]
      /\ h = q[1]
  BY TailFacts
<1>2. /\ DOMAIN a = 1..(Len(p) + 1)
      /\ DOMAIN p = 1..Len(p) /\ Len(p) \in Nat
      /\ \A i \in 1..Len(p) : a[i] = p[i]
      /\ a[Len(p) + 1] = h
  BY <1>1, AppendFacts
<1> HIDE DEF t, h, a
<1>3. ASSUME NEW i \in DOMAIN a, NEW k \in DOMAIN r
      PROVE  a[i] < r[k]
  <2>1. 1 \in DOMAIN q
    BY <1>1
  <2>2. CASE i = Len(p) + 1
    BY <1>1, <1>2, <2>1, <2>2 DEF Below
  <2>3. CASE i # Len(p) + 1
    <3>1. i \in DOMAIN p /\ a[i] = p[i]
      BY <1>2, <2>3
    <3> QED
      BY <3>1 DEF Below
  <2> QED
    BY <2>2, <2>3
<1>4. ASSUME NEW i \in DOMAIN t, NEW k \in DOMAIN r
      PROVE  t[i] < r[k]
  <2>1. i + 1 \in DOMAIN q /\ t[i] = q[i + 1]
    BY <1>1
  <2> QED
    BY <2>1 DEF Below
<1>5. Below(a, r) /\ Below(t, r)
  BY <1>3, <1>4 DEF Below
<1> QED
  BY <1>5 DEF t, h, a

(* A line later than all the others is put at the end.                     *)
LEMMA AppendLast ==
  ASSUME NEW S \in SUBSET Nat, NEW p \in Seq(S), NEW q \in Seq(S), NEW n \in S,
         \A i \in DOMAIN p : p[i] < n
  PROVE  /\ Below(q, p) /\ (\A i \in DOMAIN q : q[i] < n) => Below(q, Append(p, n))
         /\ Increasing(p) => Increasing(Append(p, n))
<1> DEFINE a == Append(p, n)
<1>1. /\ DOMAIN a = 1..(Len(p) + 1)
      /\ DOMAIN p = 1..Len(p) /\ Len(p) \in Nat
      /\ \A i \in 1..Len(p) : a[i] = p[i]
      /\ a[Len(p) + 1] = n
  BY AppendFacts
<1> HIDE DEF a
<1>2. \A k \in DOMAIN a : k = Len(p) + 1 \/ (k \in DOMAIN p /\ a[k] = p[k])
  BY <1>1
<1>3. Below(q, p) /\ (\A i \in DOMAIN q : q[i] < n) => Below(q, a)
  BY <1>1, <1>2 DEF Below
<1>4. ASSUME Increasing(p), NEW i \in DOMAIN a, NEW k \in DOMAIN a, i < k
      PROVE  a[i] < a[k]
  <2>1. i \in DOMAIN p /\ a[i] = p[i]
    BY <1>1, <1>4
  <2> QED
    BY <1>1, <1>2, <1>4, <2>1 DEF Increasing
<1> QED
  BY <1>3, <1>4 DEF Increasing, a

-----------------------------------------------------------------------------
(* The variables of the streams stay within their sets, and a channel      *)
(* within its capacity.                                                    *)
StreamTypeOK ==
  /\ subs \in [Job -> SUBSET Stream]
  /\ phase \in [Stream -> Phase]
  /\ sjob \in [Stream -> Job \cup {NoJob}]
  /\ backlog \in [Stream -> Seq(Line)]
  /\ chan \in [Stream -> Seq(Line)]
  /\ closed \in [Stream -> BOOLEAN]
  /\ sent \in [Stream -> Seq(Line)]
  /\ doneStatus \in [Stream -> Status]
  /\ dropped \in [Stream -> SUBSET Line]
  /\ \A s \in Stream : Len(chan[s]) <= ChanCap

(* Where a stream stands: before it subscribes it has nothing; afterwards  *)
(* its channel is registered with its job, which has not ended, or closed, *)
(* when its job has.                                                       *)
Subscribed(s) == phase[s] \notin {"off", "attached"}

Placed(s) ==
  /\ sjob[s] <= seq
  /\ phase[s] # "off" => sjob[s] # NoJob
  /\ ~Subscribed(s) => /\ sent[s] = <<>> /\ backlog[s] = <<>> /\ chan[s] = <<>>
                       /\ ~closed[s] /\ dropped[s] = {}
  /\ \A j \in Job : s \in subs[j] => sjob[s] = j /\ Subscribed(s) /\ body[j] # "ended"
  /\ Subscribed(s) => s \in subs[sjob[s]] \/ closed[s]
  /\ closed[s] => body[sjob[s]] = "ended"
  /\ phase[s] \in {"live", "done", "gone"} => backlog[s] = <<>>
  /\ phase[s] = "done" => chan[s] = <<>> /\ closed[s] /\ doneStatus[s] = status[sjob[s]]

(* What was sent comes before the rest of the backlog, and that before     *)
(* what is in the channel.                                                 *)
Ordered(s) ==
  /\ Increasing(sent[s]) /\ Increasing(backlog[s]) /\ Increasing(chan[s])
  /\ Below(sent[s], backlog[s]) /\ Below(sent[s], chan[s]) /\ Below(backlog[s], chan[s])

(* Every line of the log is with the client, on its way, or dropped.       *)
Accounted(s) ==
  Subscribed(s) =>
    Range(sent[s]) \cup Range(backlog[s]) \cup Range(chan[s]) \cup dropped[s]
      = 1..lines[sjob[s]]

StreamInv ==
  /\ StreamTypeOK
  /\ \A s \in Stream : Placed(s) /\ Ordered(s) /\ Accounted(s)

(* No stream is attached to begin with.                                    *)
LEMMA StreamInvInit == Init => StreamInv
<1> SUFFICES ASSUME Init
             PROVE  StreamInv
  OBVIOUS
<1>1. StreamTypeOK
  BY JobsAssumption DEF Init, StreamTypeOK, Status, Phase, NoJob, Line
<1>2. ASSUME NEW s \in Stream
      PROVE  Placed(s) /\ Ordered(s) /\ Accounted(s)
  BY <1>2, JobsAssumption
     DEF Init, Placed, Ordered, Accounted, Subscribed, Increasing, Below, NoJob
<1> QED
  BY <1>1, <1>2 DEF StreamInv

(* Steps of the manager that add no line.                                  *)
LEMMA ManagerKeepsStreams ==
  ASSUME JobInv, StreamInv, UNCHANGED <<streamVars, chan, dropped, lines>>,
         NEW j \in Job, Start \/ Cancel(j) \/ Goroutine(j) \/ UNCHANGED vars
  PROVE  StreamInv'
<1> USE JobsAssumption
<1>1. StreamTypeOK'
  <2>1. UNCHANGED <<subs, closed>> \/ CloseSubs(j)
    BY DEF Goroutine, Start, Cancel, LogWrite, Emit, Return, Finish, vars
  <2>2. subs' \in [Job -> SUBSET Stream] /\ closed' \in [Stream -> BOOLEAN]
    BY <2>1 DEF CloseSubs, StreamInv, StreamTypeOK
  <2> QED
    BY <2>2 DEF StreamInv, StreamTypeOK, streamVars
<1>2. ASSUME NEW s \in Stream
      PROVE  Ordered(s)' /\ Accounted(s)'
  BY <1>2 DEF StreamInv, Ordered, Accounted, Subscribed, streamVars, Increasing, Below
<1>3. ASSUME NEW s \in Stream
      PROVE  Placed(s)'
  <2>1. /\ Placed(s) /\ Subscribed(s)' = Subscribed(s)
        /\ UNCHANGED <<phase, sjob, backlog, chan, sent, doneStatus, dropped>>
    BY <1>3 DEF StreamInv, streamVars, Subscribed
  <2>2. sjob[s] \in Nat /\ (Subscribed(s) => sjob[s] \in Job /\ body[sjob[s]] # "absent")
    <3>1. sjob[s] \in Job \cup {NoJob} /\ sjob[s] <= seq /\ (phase[s] # "off" => sjob[s] # NoJob)
      BY <1>3, <2>1 DEF StreamInv, StreamTypeOK, Placed
    <3>2. \A i \in Job : body[i] = "absent" <=> i > seq
      BY DEF JobInv, SlotInv
    <3>3. seq \in Nat
      BY DEF JobInv, JobTypeOK
    <3> QED
      BY <3>1, <3>2, <3>3 DEF Subscribed, NoJob, Job
  <2> DEFINE Goal ==
        /\ sjob[s] <= seq'
        /\ \A i \in Job : s \in subs'[i] => s \in subs[i] /\ body'[i] # "ended"
        /\ Subscribed(s) => s \in subs'[sjob[s]] \/ closed'[s]
        /\ closed[s] => closed'[s]
        /\ closed'[s] => Subscribed(s) /\ body'[sjob[s]] = "ended"
        /\ Subscribed(s) /\ closed[s] => status'[sjob[s]] = status[sjob[s]]
  <2>3. SUFFICES Goal
    BY <2>1, <2>2 DEF Placed, Subscribed
  <2>4. /\ sjob[s] <= seq
        /\ \A i \in Job : s \in subs[i] => sjob[s] = i /\ Subscribed(s) /\ body[i] # "ended"
        /\ Subscribed(s) => s \in subs[sjob[s]] \/ closed[s]
        /\ closed[s] => Subscribed(s) /\ body[sjob[s]] = "ended"
    BY <2>1 DEF Placed
  <2>5. /\ seq \in Nat
        /\ body \in [Job -> Body] /\ status \in [Job -> Status]
        /\ subs \in [Job -> SUBSET Stream] /\ closed \in [Stream -> BOOLEAN]
        /\ \A i \in Job : body[i] = "absent" <=> i > seq
    BY DEF JobInv, JobTypeOK, SlotInv, StreamInv, StreamTypeOK
  <2> HIDE DEF Subscribed
  <2> USE <1>3, <2>2, <2>4, <2>5
  <2>6. CASE Start
    <3>1. /\ seq' = seq + 1 /\ UNCHANGED <<subs, closed>>
          /\ body' = [body EXCEPT ![seq + 1] = "executing"]
          /\ status' = [status EXCEPT ![seq + 1] = "running"]
      BY <2>6 DEF Start
    <3>2. sjob[s] # seq + 1 /\ \A i \in Job : s \in subs[i] => i # seq + 1
      OBVIOUS
    <3>3. \A i \in Job : i # seq + 1 => body'[i] = body[i] /\ status'[i] = status[i]
      BY <3>1
    <3> QED
      BY <3>1, <3>2, <3>3
  <2>7. ASSUME UNCHANGED <<seq, subs, closed, body, status>>
        PROVE  Goal
    BY <2>7
  <2>8. CASE Cancel(j) \/ UNCHANGED vars
    BY <2>7, <2>8 DEF Cancel, vars
  <2>9. ASSUME NEW k \in 0..MaxLines, NEW tail \in BOOLEAN, LogWrite(j, k, tail)
        PROVE  Goal
    BY <2>7, <2>9 DEF LogWrite
  <2>10. CASE Emit(j)
    <3>1. UNCHANGED <<seq, subs, closed, body, status>>
      BY <2>10 DEF Emit
    <3> QED
      BY <2>7, <3>1
  <2>11. ASSUME UNCHANGED <<seq, subs, closed>>,
                NEW b \in {"returned", "finishing"}, body' = [body EXCEPT ![j] = b],
                body[j] # "ended", \A i \in Job : i # j => status'[i] = status[i]
         PROVE  Goal
    BY <2>11
  <2>12. ASSUME NEW r \in {"ok", "err"}, Return(j, r)
         PROVE  Goal
    BY <2>11, <2>12 DEF Return
  <2>13. CASE Finish(j)
    BY <2>11, <2>13 DEF Finish
  <2>14. CASE CloseSubs(j)
    <3>1. /\ seq' = seq /\ status' = status
          /\ body' = [body EXCEPT ![j] = "ended"] /\ body[j] = "finishing"
          /\ subs' = [subs EXCEPT ![j] = {}]
          /\ closed' = [x \in Stream |-> closed[x] \/ x \in subs[j]]
      BY <2>14 DEF CloseSubs
    <3>2. /\ subs'[j] = {} /\ body'[j] = "ended"
          /\ \A i \in Job : i # j => subs'[i] = subs[i] /\ body'[i] = body[i]
          /\ closed'[s] <=> closed[s] \/ s \in subs[j]
      BY <3>1
    <3> QED
      BY <3>1, <3>2
  <2> HIDE DEF Goal
  <2> QED
    BY <2>6, <2>8, <2>9, <2>10, <2>12, <2>13, <2>14 DEF Goroutine
<1> QED
  BY <1>1, <1>2, <1>3 DEF StreamInv

(* emit: every registered channel is offered the line after the last one.  *)
LEMMA EmitKeepsStreams ==
  ASSUME JobInv, StreamInv, NEW j \in Job, Emit(j)
  PROVE  StreamInv'
<1> DEFINE n == lines[j] + 1
<1>1. /\ n \in Line /\ body[j] = "executing" /\ j <= seq
      /\ lines \in [Job -> 0..MaxLines] /\ lines' = [lines EXCEPT ![j] = n]
  BY JobsAssumption DEF JobInv, JobTypeOK, SlotInv, Emit, Line, Job
<1>2. /\ UNCHANGED <<seq, status, body, subs, phase, sjob, backlog, closed, sent, doneStatus>>
      /\ chan' = [s \in Stream |-> IF s \in subs[j] /\ HasRoom(s)
                                   THEN Append(chan[s], n) ELSE chan[s]]
      /\ dropped' = [s \in Stream |-> IF s \in subs[j] /\ ~HasRoom(s)
                                      THEN dropped[s] \cup {n} ELSE dropped[s]]
  BY DEF Emit, streamVars
<1>3. /\ StreamTypeOK
      /\ \A s \in Stream : Placed(s) /\ Ordered(s) /\ Accounted(s)
  BY DEF StreamInv
<1> HIDE DEF n
<1>4. ASSUME NEW s \in Stream
      PROVE  /\ chan[s] \in Seq(Line) /\ backlog[s] \in Seq(Line) /\ sent[s] \in Seq(Line)
             /\ Append(chan[s], n) \in Seq(Line)
             /\ Len(Append(chan[s], n)) = Len(chan[s]) + 1 /\ Len(chan[s]) \in Nat
             /\ dropped[s] \in SUBSET Line
  BY <1>1, <1>3, <1>4 DEF StreamTypeOK
<1>5. StreamTypeOK'
  <2>1. chan' \in [Stream -> Seq(Line)] /\ dropped' \in [Stream -> SUBSET Line]
    BY <1>1, <1>2, <1>4
  <2>2. \A s \in Stream : Len(chan'[s]) <= ChanCap
    BY <1>2, <1>3, <1>4, JobsAssumption DEF StreamTypeOK, HasRoom
  <2> QED
    BY <1>2, <1>3, <2>1, <2>2 DEF StreamTypeOK
<1>6. ASSUME NEW s \in Stream
      PROVE  Placed(s)' /\ Ordered(s)' /\ Accounted(s)'
  <2>1. Placed(s) /\ Ordered(s) /\ Accounted(s)
    BY <1>3, <1>6
  <2>2. CASE s \notin subs[j]
    <3>1. chan'[s] = chan[s] /\ dropped'[s] = dropped[s]
      BY <1>2, <1>6, <2>2
    <3>2. Subscribed(s) => sjob[s] # j
      BY <1>1, <2>1, <2>2 DEF Placed
    <3>3. Subscribed(s) => lines'[sjob[s]] = lines[sjob[s]]
      BY <1>1, <3>2
    <3> QED
      BY <1>2, <2>1, <3>1, <3>3 DEF Placed, Ordered, Accounted, Subscribed
  <2>3. CASE s \in subs[j]
    <3>1. /\ sjob[s] = j /\ Subscribed(s) /\ ~closed[s] /\ phase[s] # "done"
          /\ lines'[sjob[s]] = n
      BY <1>1, <2>1, <2>3 DEF Placed
    <3>2. Placed(s)'
      BY <1>2, <2>1, <3>1 DEF Placed, Subscribed
    <3>3. Range(sent[s]) \cup Range(backlog[s]) \cup Range(chan[s]) \cup dropped[s] = 1..lines[j]
      BY <2>1, <3>1 DEF Accounted
    <3>4. 1..n = (1..lines[j]) \cup {n}
      BY <1>1 DEF n
    <3>5. CASE HasRoom(s)
      <4>1. chan'[s] = Append(chan[s], n) /\ dropped'[s] = dropped[s]
        BY <1>2, <1>6, <2>3, <3>5
      <4>2. Range(chan'[s]) = Range(chan[s]) \cup {n}
        BY <1>1, <1>4, <1>6, <4>1, AppendRange
      <4>3. Accounted(s)'
        BY <1>2, <3>1, <3>3, <3>4, <4>1, <4>2 DEF Accounted
      <4>4. Ordered(s)'
        <5>1. \A x \in 1..lines[j] : x < n
          BY <1>1 DEF n
        <5>2. /\ \A a \in DOMAIN sent[s] : sent[s][a] < n
              /\ \A a \in DOMAIN backlog[s] : backlog[s][a] < n
              /\ \A a \in DOMAIN chan[s] : chan[s][a] < n
          BY <3>3, <5>1 DEF Range
        <5>3. /\ Increasing(Append(chan[s], n))
              /\ Below(sent[s], Append(chan[s], n)) /\ Below(backlog[s], Append(chan[s], n))
          <6>1. Line \in SUBSET Nat /\ n \in Line
            BY <1>1, JobsAssumption DEF Line
          <6>2. /\ chan[s] \in Seq(Line) /\ backlog[s] \in Seq(Line) /\ sent[s] \in Seq(Line)
            BY <1>4, <1>6
          <6>3. /\ Increasing(chan[s]) /\ Below(sent[s], chan[s]) /\ Below(backlog[s], chan[s])
            BY <2>1 DEF Ordered
          <6> QED
            BY <5>2, <6>1, <6>2, <6>3, AppendLast
        <5> QED
          BY <1>2, <2>1, <4>1, <5>3 DEF Ordered
      <4> QED
        BY <3>2, <4>3, <4>4
    <3>6. CASE ~HasRoom(s)
      <4>1. chan'[s] = chan[s] /\ dropped'[s] = dropped[s] \cup {n}
        BY <1>2, <1>6, <2>3, <3>6
      <4> QED
        BY <1>2, <2>1, <3>1, <3>2, <3>3, <3>4, <4>1 DEF Ordered, Accounted
    <3> QED
      BY <3>5, <3>6
  <2> QED
    BY <2>2, <2>3
<1> QED
  BY <1>5, <1>6 DEF StreamInv

(* A step of the handler of one stream leaves the other streams alone.     *)
LEMMA OtherStreams ==
  ASSUME StreamInv, UNCHANGED <<seq, status, body, lines, dropped>>,
         NEW t \in Stream,
         /\ phase'[t] = phase[t] /\ sjob'[t] = sjob[t] /\ backlog'[t] = backlog[t]
         /\ chan'[t] = chan[t] /\ closed'[t] = closed[t] /\ sent'[t] = sent[t]
         /\ doneStatus'[t] = doneStatus[t],
         \A j \in Job : t \in subs'[j] <=> t \in subs[j],
         sjob[t] = NoJob \/ sjob[t] \in Job
  PROVE  Placed(t)' /\ Ordered(t)' /\ Accounted(t)'
<1>1. Placed(t) /\ Ordered(t) /\ Accounted(t)
  BY DEF StreamInv
<1>2. Placed(t)'
  BY <1>1 DEF Placed, Subscribed
<1> QED
  BY <1>1, <1>2 DEF Ordered, Accounted, Subscribed

(* Steps of the handler of one stream.                                     *)
LEMMA HandlerKeepsStreams ==
  ASSUME JobInv, StreamInv, NEW s \in Stream, Handler(s)
  PROVE  StreamInv'
<1>1. /\ UNCHANGED <<seq, status, body, lines>>
      /\ seq \in Nat /\ lines \in [Job -> 0..MaxLines]
      /\ \A j \in Job : /\ body[j] = "absent" <=> j > seq
                        /\ body[j] \in Body
                        /\ body[j] = "ended" => status[j] # "running"
                        /\ body[j] \in {"executing", "returned"} => status[j] = "running"
                        /\ lines[j] \in 0..MaxLines
  BY HandlerKeepsJobs DEF jobVars, JobInv, JobTypeOK, SlotInv, Final
<1>2. StreamTypeOK /\ Placed(s) /\ Ordered(s) /\ Accounted(s)
  BY DEF StreamInv
<1>3. /\ subs \in [Job -> SUBSET Stream] /\ phase \in [Stream -> Phase]
      /\ sjob \in [Stream -> Job \cup {NoJob}] /\ closed \in [Stream -> BOOLEAN]
      /\ backlog \in [Stream -> Seq(Line)] /\ chan \in [Stream -> Seq(Line)]
      /\ sent \in [Stream -> Seq(Line)] /\ doneStatus \in [Stream -> Status]
      /\ dropped \in [Stream -> SUBSET Line] /\ \A t \in Stream : Len(chan[t]) <= ChanCap
  BY <1>2 DEF StreamTypeOK
<1>4. Line \in SUBSET Nat
  BY JobsAssumption DEF Line
<1> DEFINE Keeps == StreamTypeOK' /\ Placed(s)' /\ Ordered(s)' /\ Accounted(s)'
<1>5. ASSUME NEW j \in Job, Attach(s, j)
      PROVE  Keeps
  <2>1. /\ phase[s] = "off" /\ j <= seq
        /\ phase' = [phase EXCEPT ![s] = "attached"] /\ sjob' = [sjob EXCEPT ![s] = j]
        /\ UNCHANGED <<subs, backlog, chan, closed, sent, doneStatus, dropped>>
    BY <1>5 DEF Attach
  <2>2. StreamTypeOK'
    BY <1>3, <2>1 DEF StreamTypeOK, Phase
  <2>3. /\ phase'[s] = "attached" /\ sjob'[s] = j /\ j # NoJob
        /\ \A i \in Job : s \notin subs[i]
    BY <1>2, <1>3, <2>1 DEF Placed, Subscribed, Job, NoJob
  <2>4. Placed(s)'
    BY <1>1, <1>2, <2>1, <2>3 DEF Placed, Subscribed
  <2> QED
    BY <1>2, <2>1, <2>2, <2>3, <2>4 DEF Ordered, Accounted, Subscribed
<1>6. ASSUME GoLive(s)
      PROVE  Keeps
  <2>1. /\ phase[s] = "backlog" /\ backlog[s] = <<>>
        /\ phase' = [phase EXCEPT ![s] = "live"]
        /\ UNCHANGED <<subs, sjob, backlog, chan, closed, sent, doneStatus, dropped>>
    BY <1>6 DEF GoLive
  <2>2. StreamTypeOK'
    BY <1>3, <2>1 DEF StreamTypeOK, Phase
  <2>3. phase'[s] = "live"
    BY <1>3, <2>1
  <2> QED
    BY <1>1, <1>2, <2>1, <2>2, <2>3 DEF Placed, Ordered, Accounted, Subscribed
<1>7. ASSUME Disconnect(s)
      PROVE  Keeps
  <2>1. /\ phase[s] = "live"
        /\ phase' = [phase EXCEPT ![s] = "gone"]
        /\ UNCHANGED <<subs, sjob, backlog, chan, closed, sent, doneStatus, dropped>>
    BY <1>7 DEF Disconnect
  <2>2. StreamTypeOK'
    BY <1>3, <2>1 DEF StreamTypeOK, Phase
  <2>3. phase'[s] = "gone"
    BY <1>3, <2>1
  <2> QED
    BY <1>1, <1>2, <2>1, <2>2, <2>3 DEF Placed, Ordered, Accounted, Subscribed
<1>8. ASSUME Done(s)
      PROVE  Keeps
  <2>1. /\ phase[s] = "live" /\ chan[s] = <<>> /\ closed[s]
        /\ doneStatus' = [doneStatus EXCEPT ![s] = status[sjob[s]]]
        /\ phase' = [phase EXCEPT ![s] = "done"]
        /\ UNCHANGED <<subs, sjob, backlog, chan, closed, sent, dropped>>
    BY <1>8 DEF Done
  <2>2. sjob[s] \in Job
    BY <1>2, <1>3, <2>1 DEF Placed
  <2>3. status[sjob[s]] \in Status
    BY <2>2 DEF JobInv, JobTypeOK
  <2>4. StreamTypeOK'
    BY <1>3, <2>1, <2>3 DEF StreamTypeOK, Phase
  <2>5. phase'[s] = "done" /\ doneStatus'[s] = status[sjob[s]]
    BY <1>3, <2>1
  <2> QED
    BY <1>1, <1>2, <2>1, <2>4, <2>5 DEF Placed, Ordered, Accounted, Subscribed
<1>9. ASSUME SendBacklog(s)
      PROVE  Keeps
  <2> DEFINE h == Append(sent[s], Head(backlog[s]))
             t == Tail(backlog[s])
  <2>1. /\ phase[s] = "backlog" /\ backlog[s] # <<>>
        /\ sent' = [sent EXCEPT ![s] = h] /\ backlog' = [backlog EXCEPT ![s] = t]
        /\ UNCHANGED <<subs, phase, sjob, chan, closed, doneStatus, dropped>>
    BY <1>9 DEF SendBacklog
  <2>2. sent[s] \in Seq(Line) /\ backlog[s] \in Seq(Line) /\ Head(backlog[s]) \in Line
    BY <1>3, <2>1, TailFacts
  <2>3. /\ Increasing(sent[s]) /\ Increasing(backlog[s]) /\ Below(sent[s], backlog[s])
        /\ Below(sent[s], chan[s]) /\ Below(backlog[s], chan[s])
    BY <1>2 DEF Ordered
  <2>4. /\ h \in Seq(Line) /\ t \in Seq(Line)
        /\ Increasing(h) /\ Increasing(t) /\ Below(h, t)
    BY <1>4, <2>1, <2>2, <2>3, MoveHead
  <2>5. Below(h, chan[s]) /\ Below(t, chan[s])
    BY <1>4, <2>1, <2>2, <2>3, MoveHeadBelow
  <2>6. /\ Range(h) = Range(sent[s]) \cup {Head(backlog[s])}
        /\ Range(backlog[s]) = {Head(backlog[s])} \cup Range(t)
    BY <2>1, <2>2, AppendRange, TailRange
  <2> HIDE DEF h, t
  <2>7. sent'[s] = h /\ backlog'[s] = t
    BY <1>3, <2>1
  <2>8. StreamTypeOK'
    BY <1>3, <2>1, <2>4 DEF StreamTypeOK
  <2>9. Placed(s)'
    BY <1>1, <1>2, <2>1 DEF Placed, Subscribed
  <2>10. Ordered(s)'
    BY <1>2, <2>1, <2>4, <2>5, <2>7 DEF Ordered
  <2>11. Accounted(s)'
    BY <1>1, <1>2, <2>1, <2>6, <2>7 DEF Accounted, Subscribed
  <2> QED
    BY <2>8, <2>9, <2>10, <2>11
<1>10. ASSUME Receive(s)
       PROVE  Keeps
  <2> DEFINE h == Append(sent[s], Head(chan[s]))
             t == Tail(chan[s])
  <2>1. /\ phase[s] = "live" /\ chan[s] # <<>> /\ backlog[s] = <<>>
        /\ sent' = [sent EXCEPT ![s] = h] /\ chan' = [chan EXCEPT ![s] = t]
        /\ UNCHANGED <<subs, phase, sjob, backlog, closed, doneStatus, dropped>>
    BY <1>2, <1>10 DEF Receive, Placed
  <2>2. sent[s] \in Seq(Line) /\ chan[s] \in Seq(Line) /\ Head(chan[s]) \in Line
    BY <1>3, <2>1, TailFacts
  <2>3. Increasing(sent[s]) /\ Increasing(chan[s]) /\ Below(sent[s], chan[s])
    BY <1>2 DEF Ordered
  <2>4. /\ h \in Seq(Line) /\ t \in Seq(Line)
        /\ Increasing(h) /\ Increasing(t) /\ Below(h, t)
    BY <1>4, <2>1, <2>2, <2>3, MoveHead
  <2>5. /\ Range(h) = Range(sent[s]) \cup {Head(chan[s])}
        /\ Range(chan[s]) = {Head(chan[s])} \cup Range(t)
    BY <2>1, <2>2, AppendRange, TailRange
  <2>6. Len(t) <= ChanCap
    BY <1>3, <2>1, <2>2, JobsAssumption
  <2>7. Below(h, <<>>) /\ Below(<<>>, t) /\ Increasing(<<>>)
    BY DEF Below, Increasing
  <2> HIDE DEF h, t
  <2>8. sent'[s] = h /\ chan'[s] = t
    BY <1>3, <2>1
  <2>9. StreamTypeOK'
    BY <1>3, <2>1, <2>4, <2>6 DEF StreamTypeOK
  <2>10. Placed(s)'
    BY <1>1, <1>2, <2>1 DEF Placed, Subscribed
  <2>11. Ordered(s)'
    BY <2>1, <2>4, <2>7, <2>8 DEF Ordered
  <2>12. Accounted(s)'
    BY <1>1, <1>2, <2>1, <2>5, <2>8 DEF Accounted, Subscribed
  <2> QED
    BY <2>9, <2>10, <2>11, <2>12
<1>11. ASSUME Subscribe(s)
       PROVE  Keeps
  <2> DEFINE j == sjob[s]
             b == [i \in 1..lines[j] |-> i]
  <2>1. /\ phase[s] = "attached" /\ body[j] # "finishing"
        /\ phase' = [phase EXCEPT ![s] = "backlog"] /\ backlog' = [backlog EXCEPT ![s] = b]
        /\ UNCHANGED <<sjob, chan, sent, doneStatus, dropped>>
        /\ IF status[j] = "running"
           THEN subs' = [subs EXCEPT ![j] = @ \cup {s}] /\ closed' = closed
           ELSE closed' = [closed EXCEPT ![s] = TRUE] /\ subs' = subs
    BY <1>11 DEF Subscribe
  <2>2. /\ j \in Job /\ j <= seq /\ sent[s] = <<>> /\ chan[s] = <<>> /\ ~closed[s]
        /\ dropped[s] = {} /\ \A i \in Job : s \notin subs[i]
    BY <1>2, <1>3, <2>1 DEF Placed, Subscribed
  <2>3. lines[j] \in Nat /\ lines[j] <= MaxLines
    BY <1>1, <2>2, JobsAssumption
  <2>4. b \in Seq(Line) /\ Increasing(b) /\ Range(b) = 1..lines[j]
    <3>1. b \in Seq(Line)
      BY <2>3, JobsAssumption DEF Line
    <3>2. DOMAIN b = 1..lines[j] /\ \A i \in 1..lines[j] : b[i] = i
      OBVIOUS
    <3> HIDE DEF b
    <3> QED
      BY <3>1, <3>2 DEF Increasing, Range
  <2> HIDE DEF b, j
  <2>5. /\ phase'[s] = "backlog" /\ backlog'[s] = b
        /\ sjob'[s] = j
    BY <1>3, <2>1 DEF j
  <2>6. Ordered(s)' /\ Accounted(s)'
    <3>1. sent'[s] = <<>> /\ chan'[s] = <<>> /\ dropped'[s] = {} /\ lines'[j] = lines[j]
      BY <1>1, <2>1, <2>2
    <3>2. Range(<<>>) = {} /\ Increasing(<<>>) /\ Below(<<>>, <<>>) /\ Below(<<>>, b) /\ Below(b, <<>>)
      BY DEF Range, Increasing, Below
    <3> QED
      BY <2>4, <2>5, <3>1, <3>2 DEF Ordered, Accounted
  <2>7. /\ body[j] \notin {"absent", "finishing"}
        /\ body[j] = "ended" <=> status[j] # "running"
    <3>1. body[j] # "finishing" /\ j \in Job /\ j <= seq
      BY <2>1, <2>2
    <3>2. ~(j > seq)
      BY <1>1, <3>1 DEF Job
    <3> QED
      BY <1>1, <3>1, <3>2 DEF Body
  <2>8. CASE status[j] = "running"
    <3>1. /\ subs' = [subs EXCEPT ![j] = @ \cup {s}] /\ closed' = closed
          /\ body[j] \notin {"ended", "absent"}
      BY <2>1, <2>8, <2>7
    <3>2. subs' \in [Job -> SUBSET Stream] /\ subs'[j] = subs[j] \cup {s}
          /\ \A i \in Job : i # j => subs'[i] = subs[i]
      BY <1>3, <2>2, <3>1
    <3>3. StreamTypeOK'
      BY <1>3, <2>1, <2>4, <3>1, <3>2 DEF StreamTypeOK, Phase
    <3>4. Placed(s)'
      BY <1>1, <1>2, <2>1, <2>2, <2>5, <3>1, <3>2 DEF Placed, Subscribed, NoJob, Job
    <3> QED
      BY <2>6, <3>3, <3>4
  <2>9. CASE status[j] # "running"
    <3>1. closed' = [closed EXCEPT ![s] = TRUE] /\ subs' = subs /\ body[j] = "ended"
      BY <2>1, <2>9, <2>7
    <3>2. closed' \in [Stream -> BOOLEAN] /\ closed'[s]
      BY <1>3, <3>1
    <3>3. StreamTypeOK'
      BY <1>3, <2>1, <2>4, <3>1, <3>2 DEF StreamTypeOK, Phase
    <3>4. Placed(s)'
      BY <1>1, <1>2, <2>1, <2>2, <2>5, <3>1, <3>2 DEF Placed, Subscribed, NoJob, Job
    <3> QED
      BY <2>6, <3>3, <3>4
  <2> QED
    BY <2>8, <2>9
<1>12. ASSUME NEW t \in Stream, t # s
       PROVE  Placed(t)' /\ Ordered(t)' /\ Accounted(t)'
  <2> DEFINE Same ==
        /\ UNCHANGED dropped
        /\ phase'[t] = phase[t] /\ sjob'[t] = sjob[t] /\ backlog'[t] = backlog[t]
        /\ chan'[t] = chan[t] /\ closed'[t] = closed[t] /\ sent'[t] = sent[t]
        /\ doneStatus'[t] = doneStatus[t]
        /\ \A j \in Job : t \in subs'[j] <=> t \in subs[j]
  <2>1. Same
    <3> USE <1>3, <1>12
    <3>1. ASSUME NEW j \in Job, Attach(s, j) PROVE Same
      BY <3>1 DEF Attach
    <3>2. CASE Subscribe(s)
      <4>1. /\ phase' = [phase EXCEPT ![s] = "backlog"]
            /\ backlog' = [backlog EXCEPT ![s] = [i \in 1..lines[sjob[s]] |-> i]]
            /\ \/ closed' = closed /\ subs' = [subs EXCEPT ![sjob[s]] = @ \cup {s}]
               \/ closed' = [closed EXCEPT ![s] = TRUE] /\ subs' = subs
            /\ UNCHANGED <<sjob, chan, sent, doneStatus, dropped>>
        BY <3>2 DEF Subscribe
      <4> QED
        BY <4>1
    <3>3. CASE SendBacklog(s)
      BY <3>3 DEF SendBacklog
    <3>4. CASE GoLive(s)
      BY <3>4 DEF GoLive
    <3>5. CASE Receive(s)
      BY <3>5 DEF Receive
    <3>6. CASE Done(s)
      BY <3>6 DEF Done
    <3>7. CASE Disconnect(s)
      BY <3>7 DEF Disconnect
    <3> HIDE DEF Same
    <3> QED
      BY <3>1, <3>2, <3>3, <3>4, <3>5, <3>6, <3>7 DEF Handler
  <2> QED
    BY <1>1, <1>3, <1>12, <2>1, OtherStreams
<1> HIDE DEF Keeps
<1>13. Keeps
  BY <1>5, <1>6, <1>7, <1>8, <1>9, <1>10, <1>11 DEF Handler
<1> QED
  BY <1>12, <1>13 DEF StreamInv, Keeps

(* Every step of the manager and of the handlers.                          *)
LEMMA StreamInvNext == JobInv /\ StreamInv /\ [Next]_vars => StreamInv'
<1> SUFFICES ASSUME JobInv, StreamInv, [Next]_vars
             PROVE  StreamInv'
  OBVIOUS
<1>1. ASSUME NEW j \in Job, Emit(j)
      PROVE  StreamInv'
  BY <1>1, EmitKeepsStreams
<1>2. ASSUME NEW j \in Job, Cancel(j) \/ Goroutine(j), ~Emit(j)
      PROVE  StreamInv'
  <2>1. UNCHANGED <<streamVars, chan, dropped, lines>>
    BY <1>2 DEF Goroutine, Cancel, LogWrite, Return, Finish, CloseSubs
  <2> QED
    BY <1>2, <2>1, ManagerKeepsStreams
<1>3. ASSUME NEW s \in Stream, Handler(s)
      PROVE  StreamInv'
  BY <1>3, HandlerKeepsStreams
<1>4. CASE Start
  <2>1. UNCHANGED <<streamVars, chan, dropped, lines>> /\ 1 \in Job
    BY <1>4, JobsAssumption DEF Start, JobInv, JobTypeOK, Job
  <2> QED
    BY <1>4, <2>1, ManagerKeepsStreams
<1>5. CASE UNCHANGED vars
  <2>1. UNCHANGED <<jobVars, subs, phase, sjob, backlog, chan, closed, sent, doneStatus, dropped>>
    BY <1>5 DEF vars, jobVars
  <2> QED
    BY <2>1 DEF jobVars, StreamInv, StreamTypeOK, Placed, Ordered, Accounted, Subscribed
<1> QED
  BY <1>1, <1>2, <1>3, <1>4, <1>5 DEF Next

(* Where each stream stands, in which order its lines come, and that none  *)
(* is unaccounted for.                                                     *)
THEOREM StreamInvariant == Spec => []StreamInv
  BY StreamInvInit, StreamInvNext, JobInvariant, PTL DEF Spec

(* Type correctness of the manager with its streams; in particular emit    *)
(* never fills a channel beyond its capacity.                              *)
THEOREM JobsTypes == Spec => []TypeOK
<1>1. JobInv /\ StreamInv => TypeOK
  BY DEF JobInv, JobTypeOK, StreamInv, StreamTypeOK, TypeOK
<1> QED
  BY <1>1, JobInvariant, StreamInvariant, PTL

-----------------------------------------------------------------------------
(* The three parts of a delivery, put together.                            *)
LEMMA ConcatFacts ==
  ASSUME NEW S \in SUBSET Nat, NEW p \in Seq(S), NEW q \in Seq(S)
  PROVE  /\ p \o q \in Seq(S)
         /\ DOMAIN (p \o q) = 1..(Len(p) + Len(q))
         /\ DOMAIN p = 1..Len(p) /\ Len(p) \in Nat
         /\ DOMAIN q = 1..Len(q) /\ Len(q) \in Nat
         /\ \A i \in 1..Len(p) : (p \o q)[i] = p[i]
         /\ \A i \in 1..Len(q) : (p \o q)[Len(p) + i] = q[i]
  OBVIOUS

(* Every place of p \o q is a place of p or, shifted, one of q.            *)
LEMMA ConcatOrder ==
  ASSUME NEW S \in SUBSET Nat, NEW p \in Seq(S), NEW q \in Seq(S)
  PROVE  /\ Increasing(p) /\ Increasing(q) /\ Below(p, q) => Increasing(p \o q)
         /\ \A r : Below(p, r) /\ Below(q, r) => Below(p \o q, r)
         /\ Range(p \o q) = Range(p) \cup Range(q)
<1> DEFINE c == p \o q
<1>1. /\ DOMAIN c = 1..(Len(p) + Len(q))
      /\ DOMAIN p = 1..Len(p) /\ Len(p) \in Nat
      /\ DOMAIN q = 1..Len(q) /\ Len(q) \in Nat
      /\ \A i \in 1..Len(p) : c[i] = p[i]
      /\ \A i \in 1..Len(q) : c[Len(p) + i] = q[i]
  BY ConcatFacts
<1> HIDE DEF c
<1>2. \A i \in DOMAIN c : \/ i \in DOMAIN p /\ c[i] = p[i]
                          \/ i - Len(p) \in DOMAIN q /\ c[i] = q[i - Len(p)]
  BY <1>1
<1>3. (\A i \in DOMAIN p : i \in DOMAIN c) /\ (\A i \in DOMAIN q : Len(p) + i \in DOMAIN c)
  BY <1>1
<1>4. ASSUME NEW r, Below(p, r), Below(q, r)
      PROVE  Below(c, r)
  BY <1>2, <1>4 DEF Below
<1>5. Range(c) = Range(p) \cup Range(q)
  <2>1. \A x : (\E i \in DOMAIN c : x = c[i])
                 <=> (\E i \in DOMAIN p : x = p[i]) \/ (\E i \in DOMAIN q : x = q[i])
    BY <1>1, <1>2, <1>3
  <2> QED
    BY <2>1 DEF Range
<1>6. ASSUME Increasing(p), Increasing(q), Below(p, q),
             NEW i \in DOMAIN c, NEW k \in DOMAIN c, i < k
      PROVE  c[i] < c[k]
  <2>1. CASE i \in DOMAIN p /\ k \in DOMAIN p
    BY <1>1, <1>6, <2>1 DEF Increasing
  <2>2. CASE i \in DOMAIN p /\ k \notin DOMAIN p
    BY <1>2, <1>1, <1>6, <2>2 DEF Below
  <2>3. CASE i \notin DOMAIN p
    <3>1. i - Len(p) \in DOMAIN q /\ k - Len(p) \in DOMAIN q /\ i - Len(p) < k - Len(p)
      BY <1>1, <1>6, <2>3
    <3>2. c[i] = q[i - Len(p)] /\ c[k] = q[k - Len(p)]
      BY <1>1, <1>2, <1>6, <2>3
    <3> QED
      BY <1>6, <3>1, <3>2 DEF Increasing
  <2> QED
    BY <2>1, <2>2, <2>3
<1> QED
  BY <1>4, <1>5, <1>6 DEF Increasing, c

(* What a client has or will get is in order, and is what it was sent with *)
(* what is still in the backlog and in the channel.                        *)
LEMMA DeliveryFacts ==
  ASSUME StreamInv, NEW s \in Stream
  PROVE  /\ Increasing(Delivery(s))
         /\ Range(Delivery(s)) = Range(sent[s]) \cup Range(backlog[s]) \cup Range(chan[s])
<1> DEFINE p == sent[s]
           q == backlog[s]
           r == chan[s]
           b == p \o q
<1>1. Line \in SUBSET Nat /\ p \in Seq(Line) /\ q \in Seq(Line) /\ r \in Seq(Line)
  BY JobsAssumption DEF Line, StreamInv, StreamTypeOK
<1>2. /\ Increasing(p) /\ Increasing(q) /\ Increasing(r)
      /\ Below(p, q) /\ Below(p, r) /\ Below(q, r)
  BY DEF StreamInv, Ordered
<1>3. Delivery(s) = b \o r
  BY DEF Delivery
<1> HIDE DEF p, q, r
<1>4. b \in Seq(Line)
  BY <1>1, ConcatFacts
<1>5. Increasing(b) /\ Below(b, r) /\ Range(b) = Range(p) \cup Range(q)
  BY <1>1, <1>2, ConcatOrder
<1> HIDE DEF b
<1>6. Increasing(b \o r) /\ Range(b \o r) = Range(b) \cup Range(r)
  BY <1>1, <1>2, <1>4, <1>5, ConcatOrder
<1> QED
  BY <1>3, <1>5, <1>6 DEF p, q, r

(* A client gets the lines of the log in their order and none twice        *)
(* (streamJob): the channel is registered in the section that copies the   *)
(* backlog, so what it carries is later than what was copied.              *)
THEOREM StreamsKeepOrder == Spec => []StreamInOrder
<1>1. StreamInv => StreamInOrder
  BY DeliveryFacts DEF StreamInOrder, Increasing
<1> QED
  BY <1>1, StreamInvariant, PTL

(* A connected client misses only what emit dropped for it (Log.emit).     *)
THEOREM StreamsLoseNothingElse == Spec => []CompleteUnlessSlow
<1>1. StreamInv => CompleteUnlessSlow
  <2> SUFFICES ASSUME StreamInv, NEW s \in Stream, phase[s] \in {"backlog", "live", "done"}
               PROVE  Range(Delivery(s)) \cup dropped[s] = 1..lines[sjob[s]]
    BY DEF CompleteUnlessSlow
  <2>1. Accounted(s) /\ Subscribed(s)
    BY DEF StreamInv, Subscribed
  <2> QED
    BY <2>1, DeliveryFacts DEF Accounted
<1> QED
  BY <1>1, StreamInvariant, PTL

(* "done" follows every line and tells the outcome (streamJob).            *)
THEOREM DoneFollowsEverything == Spec => []DoneIsLast
<1>1. JobInv /\ StreamInv => DoneIsLast
  <2> SUFFICES ASSUME JobInv, StreamInv, NEW s \in Stream, phase[s] = "done"
               PROVE  /\ doneStatus[s] \in Final
                      /\ doneStatus[s] = status[sjob[s]]
                      /\ Range(sent[s]) \cup dropped[s] = 1..lines[sjob[s]]
    BY DEF DoneIsLast
  <2>1. Placed(s) /\ Accounted(s) /\ Subscribed(s) /\ sjob[s] \in Job \cup {NoJob}
    BY DEF StreamInv, StreamTypeOK, Subscribed
  <2>2. /\ backlog[s] = <<>> /\ chan[s] = <<>> /\ doneStatus[s] = status[sjob[s]]
        /\ sjob[s] \in Job /\ body[sjob[s]] = "ended"
    BY <2>1 DEF Placed, NoJob
  <2>3. status[sjob[s]] \in Final
    BY <2>2 DEF JobInv, SlotInv
  <2>4. Range(<<>>) = {}
    BY DEF Range
  <2> QED
    BY <2>1, <2>2, <2>3, <2>4 DEF Accounted
<1> QED
  BY <1>1, JobInvariant, StreamInvariant, PTL
=============================================================================

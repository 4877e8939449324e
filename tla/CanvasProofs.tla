---------------------------- MODULE CanvasProofs ----------------------------
(***************************************************************************)
(* Proofs about the canvas and its server: the types of its state, the     *)
(* problems shown, the mark of what is unsaved and the plan that Apply     *)
(* runs.  First comes what the steps of the canvas do, said once for all   *)
(* of them: how the messages on the wire move, and for each action what it *)
(* does to the canvas, the wire and the server.                            *)
(***************************************************************************)
EXTENDS Canvas, FiniteSetTheorems, TLAPS

(* Types.                                                                  *)
Kind == Start \cup {"save", "validate", "load", "latest", "job"}
Shown == [plan : Plan \cup {NoPlan}, canvas : Diagram, dirty : BOOLEAN]

Message ==
  [kind : Kind, at : {"out", "in"}, doc : Diagram \cup {Unset}, then : {"none", "plan", "destroy"},
   late : BOOLEAN, about : {Unset} \cup [job : Nat] \cup Shown,
   reply : Diagram \cup Plan \cup {NoPlan, Unset} \cup [job : Nat] \cup [status : Status]]

(* What a message has, by its kind.                                        *)
MessageOK(r, jobs) ==
  /\ r.kind \in {"save", "validate"} => r.doc \in Diagram
  /\ r.kind # "save" => r.then = "none"
  /\ r.kind = "validate" => r.at = "in"
  /\ r.kind = "job" => r.about \in [job : jobs]
  /\ r.kind = "apply" => r.about \in Shown
  /\ r.at = "in" =>
       /\ r.kind = "load" => r.reply \in Diagram
       /\ r.kind = "latest" => r.reply \in Plan \cup {NoPlan}
       /\ r.kind \in Start => r.reply = Unset \/ r.reply \in [job : jobs]
       /\ r.kind = "job" => r.reply \in [status : Status]

Store ==
  [canvas : Diagram, dirty : BOOLEAN, problems : Diagram, past : Seq(Diagram),
   future : Seq(Diagram), key : Field \cup {Unset}, timer : BOOLEAN,
   plan : Plan \cup {NoPlan}, stale : BOOLEAN, confirm : BOOLEAN,
   job : {NoJob} \cup [id : Nat, status : Status], streams : SUBSET Nat]

Server ==
  [file : Diagram, planned : Plan \cup {NoPlan},
   jobs : Seq([kind : Start, doc : Diagram, status : Status])]

Watch ==
  [acts : Nat, lost : Nat, hasty : BOOLEAN, blind : BOOLEAN, behind : BOOLEAN,
   crossed : BOOLEAN, unsure : BOOLEAN, disordered : BOOLEAN]

(* All of them; one job runs at most.                                      *)
Types ==
  /\ store \in Store /\ server \in Server /\ wire \in Seq(Message) /\ watch \in Watch
  /\ \A i \in DOMAIN wire : MessageOK(wire[i], DOMAIN server.jobs)
  /\ store.streams \subseteq DOMAIN server.jobs
  /\ store.job # NoJob => store.job.id \in DOMAIN server.jobs
  /\ \A j, k \in Running : j = k
  /\ Len(store.past) + Len(store.future) <= HistoryLimit

(* Job j has left a plan.                                                  *)
Plans(j) == server.jobs[j].kind # "apply" /\ server.jobs[j].status = "succeeded"

-----------------------------------------------------------------------------
(* What a request is, whatever it is for.                                  *)
LEMMA RequestTypes ==
  /\ \A k \in Kind : Request([kind |-> k]) \in Message
  /\ \A d \in Diagram, t \in {"none", "plan", "destroy"} :
       Request([kind |-> "save", doc |-> d, then |-> t]) \in Message
  /\ \A s \in Shown : Request([kind |-> "apply", about |-> s]) \in Message
  /\ \A d \in Diagram : Request([kind |-> "validate", at |-> "in", doc |-> d]) \in Message
  /\ \A id \in Nat : Request([kind |-> "job", about |-> [job |-> id]]) \in Message
<1>1. ASSUME NEW k \in Kind PROVE Request([kind |-> k]) \in Message
  BY <1>1 DEF Request, ++, Message
<1>2. ASSUME NEW d \in Diagram, NEW t \in {"none", "plan", "destroy"}
      PROVE  Request([kind |-> "save", doc |-> d, then |-> t]) \in Message
  BY <1>2 DEF Request, ++, Message, Kind
<1>3. ASSUME NEW s \in Shown PROVE Request([kind |-> "apply", about |-> s]) \in Message
  BY <1>3 DEF Request, ++, Message, Kind, Start
<1>4. ASSUME NEW d \in Diagram
      PROVE  Request([kind |-> "validate", at |-> "in", doc |-> d]) \in Message
  BY <1>4 DEF Request, ++, Message, Kind
<1>5. ASSUME NEW id \in Nat
      PROVE  Request([kind |-> "job", about |-> [job |-> id]]) \in Message
  BY <1>5 DEF Request, ++, Message, Kind
<1> QED
  BY <1>1, <1>2, <1>3, <1>4, <1>5

(* The fields of a request.                                                *)
LEMMA RequestFields ==
  /\ \A k : LET m == Request([kind |-> k]) IN
       m.kind = k /\ m.at = "out" /\ m.then = "none" /\ ~m.late
  /\ \A d, t : LET m == Request([kind |-> "save", doc |-> d, then |-> t]) IN
       m.kind = "save" /\ m.at = "out" /\ m.doc = d /\ m.then = t /\ ~m.late
  /\ \A s : LET m == Request([kind |-> "apply", about |-> s]) IN
       m.kind = "apply" /\ m.at = "out" /\ m.then = "none" /\ m.about = s /\ ~m.late
  /\ \A d : LET m == Request([kind |-> "validate", at |-> "in", doc |-> d]) IN
       m.kind = "validate" /\ m.at = "in" /\ m.then = "none" /\ m.doc = d /\ ~m.late
  /\ \A id : LET m == Request([kind |-> "job", about |-> [job |-> id]]) IN
       m.kind = "job" /\ m.at = "out" /\ m.then = "none" /\ m.about = [job |-> id] /\ ~m.late
  BY DEF Request, ++

(* commit: the history it leaves is one, of HISTORY_LIMIT diagrams at      *)
(* most.                                                                   *)
LEMMA CommitsTyped ==
  ASSUME NEW key \in Field \cup {Unset}, NEW c \in Commits(key), Types, CanvasAssumption
  PROVE  \/ c = <<>>
         \/ /\ c \in [past : Seq(Diagram), future : Seq(Diagram), key : Field \cup {Unset},
                      stale : BOOLEAN]
            /\ Len(c.past) + Len(c.future) <= HistoryLimit
<1> DEFINE kept == Kept(store.past)
           past == IF Len(store.past) < HistoryLimit THEN store.past ELSE kept
<1>1. /\ store.past \in Seq(Diagram) /\ store.canvas \in Diagram /\ store.stale \in BOOLEAN
      /\ HistoryLimit \in Nat \ {0, 1}
      /\ Len(store.past) <= HistoryLimit /\ Len(store.past) \in Nat
  BY DEF Types, Store, CanvasAssumption
<1>2. Len(store.past) = HistoryLimit => kept \in Seq(Diagram) /\ Len(kept) = HistoryLimit - 1
  BY <1>1 DEF Kept
<1>3. past \in Seq(Diagram) /\ Len(past) < HistoryLimit
  <2>1. CASE Len(store.past) < HistoryLimit
    BY <1>1, <2>1
  <2>2. CASE Len(store.past) = HistoryLimit
    BY <1>1, <1>2, <2>2
  <2> QED
    BY <1>1, <2>1, <2>2
<1> HIDE DEF kept
<1>4. /\ Append(past, store.canvas) \in Seq(Diagram)
      /\ Len(Append(past, store.canvas)) = Len(past) + 1
      /\ Len(past) \in Nat
  BY <1>1, <1>3
<1> HIDE DEF past
<1>5. \/ c = [past |-> Append(past, store.canvas), future |-> <<>>, key |-> key,
              stale |-> store.stale \/ store.plan # NoPlan]
      \/ c = <<>>
  BY DEF Commits, past, kept
<1>6. <<>> \in Seq(Diagram) /\ Len(<<>>) = 0
  OBVIOUS
<1>7. CASE c = [past |-> Append(past, store.canvas), future |-> <<>>, key |-> key,
              stale |-> store.stale \/ store.plan # NoPlan]
  <2>1. /\ c.past = Append(past, store.canvas) /\ c.future = <<>> /\ c.key = key
        /\ c.stale \in BOOLEAN
    BY <1>7, <1>1
  <2>2. c \in [past : Seq(Diagram), future : Seq(Diagram), key : Field \cup {Unset},
              stale : BOOLEAN]
    BY <1>7, <1>4, <1>6, <1>1
  <2>3. Len(c.past) + Len(c.future) <= HistoryLimit
    BY <2>1, <1>4, <1>3, <1>6, <1>1
  <2> QED
    BY <2>2, <2>3
<1> QED
  BY <1>5, <1>7

(* A change of the canvas leaves its job, its plan and its problems alone. *)
LEMMA CommitsDrawn ==
  ASSUME NEW key \in Field \cup {Unset}, NEW c \in Commits(key), Types, CanvasAssumption,
         NEW d \in Diagram
  PROVE  LET s == Drawn(d) ++ c ++ store IN
         /\ s \in Store
         /\ s.canvas = d /\ s.dirty /\ s.timer /\ s.plan = store.plan /\ s.confirm = store.confirm
         /\ s.problems = store.problems
         /\ s.job = store.job /\ s.streams = store.streams
         /\ Len(s.past) + Len(s.future) <= HistoryLimit
<1>0. store \in Store /\ Len(store.past) + Len(store.future) <= HistoryLimit
  BY DEF Types
<1>1. CASE c = <<>>
  <2>1. DOMAIN c = {}
    BY <1>1
  <2>2. Drawn(d) ++ c = Drawn(d)
    BY <2>1, Zenon DEF Drawn, ++
  <2> QED
    BY <1>0, <2>2 DEF Drawn, ++, Store
<1>2. CASE /\ c \in [past : Seq(Diagram), future : Seq(Diagram), key : Field \cup {Unset},
                      stale : BOOLEAN]
            /\ Len(c.past) + Len(c.future) <= HistoryLimit
  BY <1>0, <1>2 DEF Drawn, ++, Store
<1> QED
  BY <1>1, <1>2, CommitsTyped

-----------------------------------------------------------------------------
(* Two messages that differ in being late only.                            *)
Same(p, q) ==
  /\ p.kind = q.kind /\ p.at = q.at /\ p.doc = q.doc /\ p.then = q.then
  /\ p.about = q.about /\ p.reply = q.reply

(* Where message k was before message i went.                              *)
Was(i, k) == IF k < i THEN k ELSE k + 1

(* What is left of the wire without message i; those before n are late.    *)
Left(i, rest, n) ==
  /\ rest \in Seq(Message) /\ Len(rest) = Len(wire) - 1
  /\ \A k \in DOMAIN rest :
       /\ Was(i, k) \in DOMAIN wire \ {i} /\ Same(rest[k], wire[Was(i, k)])
       /\ rest[k].late <=> wire[Was(i, k)].late \/ k < n

(* What \o makes of two sequences.                                         *)
LEMMA ConcatFacts ==
  ASSUME NEW S, NEW p \in Seq(S), NEW q \in Seq(S)
  PROVE  /\ p \o q \in Seq(S) /\ Len(p \o q) = Len(p) + Len(q)
         /\ \A k \in 1..(Len(p) + Len(q)) :
              (p \o q)[k] = IF k <= Len(p) THEN p[k] ELSE q[k - Len(p)]
  OBVIOUS

(* Gone takes message i off the wire and leaves the others.                *)
LEMMA GoneLeft ==
  ASSUME NEW i \in DOMAIN wire, wire \in Seq(Message)
  PROVE  /\ Left(i, Gone(i), 0)
         /\ \A k \in DOMAIN Gone(i) : Gone(i)[k] = wire[Was(i, k)]
<1> DEFINE n == Len(wire)
           p == SubSeq(wire, 1, i - 1)
           q == SubSeq(wire, i + 1, n)
           g == p \o q
<1>1. DOMAIN wire = 1..n /\ n \in Nat /\ i \in 1..n
  OBVIOUS
<1>2. p \in Seq(Message) /\ Len(p) = i - 1 /\ \A k \in 1..(i - 1) : p[k] = wire[k]
  <2>1. \A k \in 1..(i - 1) : wire[k] \in Message
    BY <1>1
  <2> QED
    BY <1>1, <2>1
<1>3. q \in Seq(Message) /\ Len(q) = n - i /\ \A k \in 1..(n - i) : q[k] = wire[k + i]
  <2>1. \A k \in (i + 1)..n : wire[k] \in Message
    BY <1>1
  <2>2. /\ q \in Seq(Message)
        /\ Len(q) = IF i + 1 <= n THEN n - (i + 1) + 1 ELSE 0
        /\ \A k \in 1..(n - (i + 1) + 1) : q[k] = wire[i + 1 + k - 1]
    BY <1>1, <2>1
  <2> QED
    BY <1>1, <2>2
<1>4. /\ g \in Seq(Message) /\ Len(g) = Len(p) + Len(q)
      /\ \A k \in 1..(Len(p) + Len(q)) : g[k] = IF k <= Len(p) THEN p[k] ELSE q[k - Len(p)]
  BY <1>2, <1>3, ConcatFacts
<1>5. DOMAIN g = 1..Len(g)
  BY <1>4
<1>6. Gone(i) = g
  BY DEF Gone, RemoveAt
<1> HIDE DEF p, q, g
<1>7. ASSUME NEW k \in 1..(n - 1) PROVE g[k] = wire[Was(i, k)] /\ Was(i, k) \in 1..n \ {i}
  <2>1. CASE k < i
    BY <2>1, <1>1, <1>2, <1>3, <1>4 DEF Was
  <2>2. CASE ~(k < i)
    <3>1. g[k] = q[k - (i - 1)] /\ k - (i - 1) \in 1..(n - i)
      BY <2>2, <1>1, <1>2, <1>3, <1>4, SMTT(20)
    <3>2. q[k - (i - 1)] = wire[k - (i - 1) + i]
      BY <3>1, <1>3
    <3> QED
      BY <2>2, <3>1, <3>2, <1>1 DEF Was
  <2> QED
    BY <2>1, <2>2
<1>8. Len(g) = n - 1
  BY <1>1, <1>2, <1>3, <1>4
<1>9. \A k \in 1..(n - 1) : ~(k < 0)
  BY <1>1
<1> QED
  BY <1>1, <1>4, <1>5, <1>6, <1>7, <1>8, <1>9 DEF Left, Same

(* Older says of messages that they are late and nothing else.             *)
LEMMA OlderSame ==
  ASSUME NEW rest \in Seq(Message), NEW n \in Nat
  PROVE  /\ Older(n, rest) \in Seq(Message) /\ Len(Older(n, rest)) = Len(rest)
         /\ \A k \in DOMAIN rest : Same(Older(n, rest)[k], rest[k])
         /\ \A k \in DOMAIN rest : Older(n, rest)[k].late = (rest[k].late \/ k < n)
<1>1. DOMAIN rest = 1..Len(rest) /\ Len(rest) \in Nat
  OBVIOUS
<1>2. ASSUME NEW m \in Message, NEW b \in BOOLEAN
      PROVE  LET o == [m EXCEPT !.late = @ \/ b] IN
             o \in Message /\ Same(o, m) /\ o.late = (m.late \/ b)
  BY <1>2 DEF Message, Same
<1>3. ASSUME NEW k \in DOMAIN rest
      PROVE  /\ Older(n, rest)[k] \in Message /\ Same(Older(n, rest)[k], rest[k])
             /\ Older(n, rest)[k].late = (rest[k].late \/ k < n)
  <2>1. Older(n, rest)[k] = [rest[k] EXCEPT !.late = @ \/ k < n]
    BY DEF Older
  <2>2. rest[k] \in Message /\ (k < n) \in BOOLEAN
    BY <1>1
  <2> QED
    BY <2>1, <2>2, <1>2, ZenonT(40)
<1>4. DOMAIN Older(n, rest) = 1..Len(rest)
  BY <1>1 DEF Older
<1>5. Older(n, rest) \in Seq(Message) /\ Len(Older(n, rest)) = Len(rest)
  <2>1. Older(n, rest) \in [1..Len(rest) -> Message]
    BY <1>1, <1>3 DEF Older
  <2> QED
    BY <2>1, <1>1
<1> QED
  BY <1>3, <1>5

(* The same of what is left of the wire.                                   *)
LEMMA OlderLeft ==
  ASSUME NEW i \in DOMAIN wire, wire \in Seq(Message), NEW n \in Nat
  PROVE  Left(i, Older(n, Gone(i)), n)
<1> DEFINE g == Gone(i)
           o == Older(n, g)
<1>1. Left(i, g, 0) /\ \A k \in DOMAIN g : g[k] = wire[Was(i, k)]
  BY GoneLeft
<1>2. g \in Seq(Message)
  BY <1>1 DEF Left
<1>3. /\ o \in Seq(Message) /\ Len(o) = Len(g)
      /\ \A k \in DOMAIN g : Same(o[k], g[k])
      /\ \A k \in DOMAIN g : o[k].late = (g[k].late \/ k < n)
  BY <1>2, OlderSame
<1>4. DOMAIN o = DOMAIN g
  BY <1>2, <1>3
<1> HIDE DEF g, o
<1>5. o \in Seq(Message) /\ Len(o) = Len(wire) - 1
  BY <1>1, <1>3 DEF Left
<1>6. ASSUME NEW k \in DOMAIN o
      PROVE  /\ Was(i, k) \in DOMAIN wire \ {i} /\ Same(o[k], wire[Was(i, k)])
             /\ o[k].late <=> wire[Was(i, k)].late \/ k < n
  <2>1. Was(i, k) \in DOMAIN wire \ {i} /\ g[k] = wire[Was(i, k)]
    BY <1>1, <1>4 DEF Left
  <2> QED
    BY <2>1, <1>3, <1>4
<1>7. Left(i, o, n)
  BY <1>5, <1>6, Zenon DEF Left
<1> QED
  BY <1>7 DEF o, g

(* Messages whose answer says what is wrong with the canvas: it makes those *)
(* before it late.                                                         *)
Checks(r) == r.kind \in {"save", "validate"} /\ ~r.late
Before(i) == IF Checks(wire[i]) THEN i ELSE 0

(* What is left when it has come.                                          *)
LEMMA OvertakenLeft ==
  ASSUME NEW i \in DOMAIN wire, wire \in Seq(Message), wire[i].kind \in {"save", "validate"}
  PROVE  Left(i, Overtaken(i), Before(i))
<1>1. i \in Nat
  OBVIOUS
<1>2. Left(i, Gone(i), 0) /\ Left(i, Older(i, Gone(i)), i)
  BY <1>1, GoneLeft, OlderLeft
<1> QED
  BY <1>2 DEF Overtaken, Before, Checks

-----------------------------------------------------------------------------
(* Message m is there still.                                               *)
Stays(i, m, n) ==
  \E k \in DOMAIN wire' :
    /\ Was(i, k) = m /\ Same(wire'[k], wire[m])
    /\ wire'[k].late <=> wire[m].late \/ k < n

(* How the wire changes: message i goes (none does when there is none),    *)
(* those before n are late and those of news come last.                    *)
Moved(i, news, n) ==
  /\ wire' \in Seq(Message)
  /\ \A k \in DOMAIN wire' :
       \/ /\ Was(i, k) \in DOMAIN wire \ {i} /\ Same(wire'[k], wire[Was(i, k)])
          /\ wire'[k].late <=> wire[Was(i, k)].late \/ k < n
       \/ k = Len(wire') /\ wire'[k] \in news
  /\ \A m \in DOMAIN wire \ {i} : Stays(i, m, n)

Nobody == Len(wire) + 1

(* Messages do not meet in one place.                                      *)
LEMMA WasOne ==
  ASSUME NEW i \in Nat, NEW k \in Nat, NEW q \in Nat, Was(i, k) = Was(i, q)
  PROVE  k = q
  BY DEF Was

(* The wire moves when no message comes or goes.                           *)
LEMMA NobodyMoves ==
  ASSUME wire \in Seq(Message), wire' \in Seq(Message), Len(wire') = Len(wire),
         NEW n, \A k \in DOMAIN wire :
           Same(wire'[k], wire[k]) /\ (wire'[k].late <=> wire[k].late \/ k < n)
  PROVE  Moved(Nobody, {}, n)
<1>1. /\ DOMAIN wire = 1..Len(wire) /\ Len(wire) \in Nat
      /\ DOMAIN wire' = 1..Len(wire)
  OBVIOUS
<1>2. \A k \in DOMAIN wire : Was(Nobody, k) = k /\ k \in DOMAIN wire \ {Nobody}
  BY <1>1 DEF Was, Nobody
<1> QED
  BY <1>1, <1>2 DEF Moved, Stays

(* It does when it stays the same,                                         *)
LEMMA StillMoves ==
  ASSUME wire \in Seq(Message), wire' = wire
  PROVE  Moved(Nobody, {}, 0)
<1>1. \A k \in DOMAIN wire :
        Same(wire'[k], wire[k]) /\ (wire'[k].late <=> wire[k].late \/ k < 0)
  BY DEF Same
<1> QED
  BY <1>1, NobodyMoves

(* when a message is sent,                                                 *)
LEMMA AppendMoves ==
  ASSUME wire \in Seq(Message), NEW m \in Message, wire' = Append(wire, m)
  PROVE  Moved(Nobody, {m}, 0)
<1>1. /\ DOMAIN wire = 1..Len(wire) /\ Len(wire) \in Nat /\ wire' \in Seq(Message)
      /\ Len(wire') = Len(wire) + 1 /\ DOMAIN wire' = 1..(Len(wire) + 1)
      /\ \A k \in 1..Len(wire) : wire'[k] = wire[k]
      /\ wire'[Len(wire) + 1] = m
  OBVIOUS
<1>2. \A k \in DOMAIN wire : Was(Nobody, k) = k /\ k \in DOMAIN wire \ {Nobody}
  BY <1>1 DEF Was, Nobody
<1>3. \A k \in DOMAIN wire :
        Same(wire'[k], wire[k]) /\ (wire'[k].late <=> wire[k].late \/ k < 0)
  BY <1>1 DEF Same
<1>4. \A k \in DOMAIN wire' : k \in DOMAIN wire \/ k = Len(wire')
  BY <1>1
<1>5. DOMAIN wire \subseteq DOMAIN wire'
  BY <1>1
<1> QED
  BY <1>1, <1>2, <1>3, <1>4, <1>5 DEF Moved, Stays

(* when one is taken off,                                                  *)
LEMMA LeftMoves ==
  ASSUME wire \in Seq(Message), NEW i \in DOMAIN wire, NEW n, Left(i, wire', n)
  PROVE  Moved(i, {}, n)
<1>1. /\ DOMAIN wire = 1..Len(wire) /\ Len(wire) \in Nat /\ i \in 1..Len(wire)
      /\ wire' \in Seq(Message) /\ DOMAIN wire' = 1..(Len(wire) - 1)
  BY DEF Left
<1>2. ASSUME NEW m \in DOMAIN wire \ {i}
      PROVE  Stays(i, m, n)
  <2> DEFINE k == IF m < i THEN m ELSE m - 1
  <2>1. k \in 1..(Len(wire) - 1) /\ Was(i, k) = m
    BY <1>1 DEF Was
  <2> HIDE DEF k
  <2>2. /\ k \in DOMAIN wire' /\ Same(wire'[k], wire[m])
        /\ wire'[k].late <=> wire[m].late \/ k < n
    BY <1>1, <2>1 DEF Left
  <2> QED
    BY <2>1, <2>2 DEF Stays
<1>5. \A k \in DOMAIN wire' :
       \/ /\ Was(i, k) \in DOMAIN wire \ {i} /\ Same(wire'[k], wire[Was(i, k)])
          /\ wire'[k].late <=> wire[Was(i, k)].late \/ k < n
       \/ k = Len(wire') /\ wire'[k] \in {}
  BY DEF Left
<1>6. \A p \in DOMAIN wire \ {i} : Stays(i, p, n)
  BY <1>2
<1> QED
  BY <1>1, <1>5, <1>6 DEF Moved

(* What Append makes of a sequence.                                        *)
LEMMA AppendFacts ==
  ASSUME NEW S, NEW p \in Seq(S), NEW m \in S, NEW w, w = Append(p, m),
         NEW n, n = Len(p) + 1
  PROVE  /\ w \in Seq(S) /\ Len(w) = n /\ DOMAIN w = 1..n
         /\ n \in Nat \ {0} /\ DOMAIN p = 1..(n - 1)
         /\ \A k \in 1..(n - 1) : w[k] = p[k]
         /\ w[n] = m
  OBVIOUS

(* and when one is taken off and another one sent.                         *)
LEMMA LeftAppendMoves ==
  ASSUME wire \in Seq(Message), NEW i \in DOMAIN wire, NEW rest, NEW n, Left(i, rest, n),
         NEW m \in Message, wire' = Append(rest, m)
  PROVE  Moved(i, {m}, n)
<1>1. /\ DOMAIN wire = 1..Len(wire) /\ Len(wire) \in Nat /\ i \in 1..Len(wire)
      /\ rest \in Seq(Message) /\ DOMAIN rest = 1..(Len(wire) - 1)
      /\ Len(rest) = Len(wire) - 1
  BY DEF Left
<1>2. /\ wire' \in Seq(Message)
      /\ Len(wire') = Len(wire) /\ DOMAIN wire' = 1..Len(wire)
      /\ \A k \in 1..(Len(wire) - 1) : k \in DOMAIN rest /\ k \in DOMAIN wire' /\ wire'[k] = rest[k]
      /\ wire'[Len(wire)] = m
      /\ \A k \in DOMAIN wire' : k = Len(wire) \/ k \in 1..(Len(wire) - 1)
  <2> DEFINE len == Len(wire)
             w == wire'
  <2>1. rest \in Seq(Message) /\ len = Len(rest) + 1 /\ w = Append(rest, m)
    BY <1>1
  <2> HIDE DEF len, w
  <2>2. /\ w \in Seq(Message) /\ Len(w) = len /\ DOMAIN w = 1..len
        /\ len \in Nat \ {0} /\ DOMAIN rest = 1..(len - 1)
        /\ \A k \in 1..(len - 1) : w[k] = rest[k]
        /\ w[len] = m
    BY <2>1, AppendFacts
  <2>3. (\A k \in 1..(len - 1) : k \in 1..len) /\ \A k \in 1..len : k = len \/ k \in 1..(len - 1)
    BY <2>2
  <2> QED
    BY <2>2, <2>3 DEF len, w
<1>3. ASSUME NEW p \in DOMAIN wire \ {i}
      PROVE  Stays(i, p, n)
  <2> DEFINE k == IF p < i THEN p ELSE p - 1
  <2>1. k \in 1..(Len(wire) - 1) /\ Was(i, k) = p
    BY <1>1 DEF Was
  <2> HIDE DEF k
  <2>2. /\ k \in DOMAIN rest /\ Same(rest[k], wire[p])
        /\ rest[k].late <=> wire[p].late \/ k < n
    BY <1>1, <2>1 DEF Left
  <2>3. k \in DOMAIN wire' /\ wire'[k] = rest[k]
    BY <1>1, <1>2, <2>1
  <2> QED
    BY <2>1, <2>2, <2>3 DEF Stays
<1>4. ASSUME NEW k \in DOMAIN wire'
      PROVE  \/ /\ Was(i, k) \in DOMAIN wire \ {i} /\ Same(wire'[k], wire[Was(i, k)])
                /\ wire'[k].late <=> wire[Was(i, k)].late \/ k < n
             \/ k = Len(wire') /\ wire'[k] \in {m}
  <2>1. CASE k = Len(wire)
    BY <2>1, <1>2
  <2>2. CASE k # Len(wire)
    <3>1. k \in 1..(Len(wire) - 1)
      BY <2>2, <1>2
    <3>2. k \in DOMAIN rest /\ wire'[k] = rest[k]
      BY <3>1, <1>2
    <3> QED
      BY <3>2 DEF Left
  <2> QED
    BY <2>1, <2>2
<1>5. \A k \in DOMAIN wire' :
       \/ /\ Was(i, k) \in DOMAIN wire \ {i} /\ Same(wire'[k], wire[Was(i, k)])
          /\ wire'[k].late <=> wire[Was(i, k)].late \/ k < n
       \/ k = Len(wire') /\ wire'[k] \in {m}
  BY <1>4
<1>6. \A p \in DOMAIN wire \ {i} : Stays(i, p, n)
  BY <1>3
<1> QED
  BY <1>2, <1>5, <1>6 DEF Moved

(* Messages that only moved are as good as they were.                      *)
LEMMA MovedOK ==
  ASSUME NEW i, NEW news, NEW n, Moved(i, news, n), wire \in Seq(Message),
         \A k \in DOMAIN wire : MessageOK(wire[k], DOMAIN server.jobs),
         NEW jobs, DOMAIN server.jobs \subseteq jobs,
         \A m \in news : MessageOK(m, jobs)
  PROVE  \A k \in DOMAIN wire' : MessageOK(wire'[k], jobs)
<1>1. ASSUME NEW p, NEW q, Same(p, q), MessageOK(q, DOMAIN server.jobs)
      PROVE  MessageOK(p, jobs)
  BY <1>1 DEF Same, MessageOK
<1> QED
  BY <1>1 DEF Moved

-----------------------------------------------------------------------------
(* What the properties note: whether the plan shown can be relied on, which *)
(* never comes back, and whether the canvas and its problems can.          *)
Firm == watch.hasty = watch'.hasty /\ watch.blind = watch'.blind /\ watch.behind = watch'.behind
SameMarks == watch'.crossed = watch.crossed /\ watch'.unsure = watch.unsure
SameOrder == watch'.disordered <=> watch.disordered

(* What the user does, and what a patient one waits for.                   *)
UserActed ==
  /\ watch' \in Watch /\ watch'.blind = watch.blind /\ watch'.behind = watch.behind
  /\ watch.hasty => watch'.hasty
Waits == watch'.hasty \/ ~On({"save", "load"})

(* What the user does is counted.                                          *)
LEMMA ActsNoted ==
  ASSUME watch \in Watch, NEW busy \in BOOLEAN, NEW crossed \in BOOLEAN, NEW unsure \in BOOLEAN,
         NEW disordered \in BOOLEAN,
         watch' = [Acted(busy) EXCEPT !.crossed = crossed, !.unsure = unsure,
                                      !.disordered = disordered]
  PROVE  /\ UserActed /\ Waits /\ (watch'.hasty \/ ~busy)
         /\ watch'.crossed = crossed /\ watch'.unsure = unsure /\ watch'.disordered = disordered
<1> DEFINE h == busy \/ On({"save", "load"})
           n == watch.acts + (IF h THEN 2 ELSE 1)
           b == watch.hasty \/ h
<1>1. n \in Nat /\ b \in BOOLEAN
  BY DEF Watch
<1>2. watch' = [[watch EXCEPT !.acts = n, !.hasty = b]
                EXCEPT !.crossed = crossed, !.unsure = unsure, !.disordered = disordered]
  BY DEF Acted
<1>3. (watch.hasty => b) /\ (busy => b) /\ (On({"save", "load"}) => b)
  OBVIOUS
<1> HIDE DEF h, n, b
<1>4. /\ watch' \in Watch /\ watch'.blind = watch.blind /\ watch'.behind = watch.behind
      /\ watch'.hasty = b
      /\ watch'.crossed = crossed /\ watch'.unsure = unsure /\ watch'.disordered = disordered
  BY <1>1, <1>2 DEF Watch
<1> QED
  BY <1>3, <1>4 DEF UserActed, Waits

(* So it is for what the user asks for                                     *)
LEMMA CallsNoted ==
  ASSUME watch \in Watch, NEW busy \in BOOLEAN, NEW crossed \in BOOLEAN, Calls(busy, crossed)
  PROVE  /\ UserActed /\ Waits /\ (watch'.hasty \/ ~busy)
         /\ watch'.crossed = crossed /\ watch'.unsure = watch.unsure /\ SameOrder
<1>1. watch' = [Acted(busy) EXCEPT !.crossed = crossed]
  BY DEF Calls, Acts
<1>2. Acted(busy) \in Watch /\ Acted(busy).unsure = watch.unsure
      /\ Acted(busy).disordered = watch.disordered
  <2> DEFINE n == watch.acts + (IF busy \/ On({"save", "load"}) THEN 2 ELSE 1)
             b == watch.hasty \/ busy \/ On({"save", "load"})
  <2>1. n \in Nat /\ b \in BOOLEAN
    BY DEF Watch
  <2>2. Acted(busy) = [watch EXCEPT !.acts = n, !.hasty = b]
    BY DEF Acted
  <2> HIDE DEF n, b
  <2> QED
    BY <2>1, <2>2 DEF Watch
<1>3. watch' = [Acted(busy) EXCEPT !.crossed = crossed, !.unsure = watch.unsure,
                                   !.disordered = watch.disordered]
  BY <1>1, <1>2 DEF Watch
<1>4. watch.unsure \in BOOLEAN /\ watch.disordered \in BOOLEAN
  BY DEF Watch
<1> QED
  BY <1>3, <1>4, ActsNoted DEF SameOrder

(* and for an edit, after which the canvas is marked.                      *)
LEMMA EditsNoted ==
  ASSUME watch \in Watch, NEW disordered \in BOOLEAN, Edits(disordered)
  PROVE  /\ UserActed /\ Waits /\ server' = server
         /\ watch'.crossed /\ ~watch'.unsure /\ watch'.disordered = disordered
<1>1. watch' = [Acted(FALSE) EXCEPT !.crossed = TRUE, !.unsure = FALSE, !.disordered = disordered]
  BY DEF Edits, Acts
<1> QED
  BY <1>1, ActsNoted DEF Edits

SameJob == store'.job = store.job /\ store'.streams = store.streams

StoreTyped == store' \in Store /\ Len(store'.past) + Len(store'.future) <= HistoryLimit

(* The canvas changes.                                                     *)
Draws ==
  /\ StoreTyped /\ SameJob
  /\ store'.dirty /\ store'.confirm = store.confirm
  /\ store'.plan = store.plan \/ (store'.plan = NoPlan /\ ~DialogOpen)
  /\ server' = server /\ UserActed /\ Waits /\ watch'.crossed /\ ~watch'.unsure
  /\ \/ wire' = wire /\ Moved(Nobody, {}, 0) /\ store'.timer
     \/ store'.problems = store'.canvas /\ Moved(Nobody, {}, Nobody)

(* An edit that leaves the wire alone.                                     *)
LEMMA DrawingNoted ==
  ASSUME Types, Drawing
  PROVE  /\ server' = server /\ wire' = wire /\ UserActed /\ Waits
         /\ watch'.crossed /\ ~watch'.unsure
<1>1. watch \in Watch /\ watch.disordered \in BOOLEAN
  BY DEF Types, Watch
<1> QED
  BY <1>1, EditsNoted DEF Drawing

(* Edits change the canvas and its history only.                           *)
LEMMA EditDraws ==
  ASSUME Types, Edit PROVE Draws
<1>0. PICK d \in Diagram, key \in Field \cup {Unset} :
        \E c \in Commits(key) : set(Drawn(d) ++ c) /\ Drawing
  BY DEF Edit
<1>1. PICK c \in Commits(key) : set(Drawn(d) ++ c) /\ Drawing
  BY <1>0
<1>2. store' = Drawn(d) ++ c ++ store
  BY <1>1 DEF set
<1>3. LET s == store' IN
         /\ s \in Store
         /\ s.canvas = d /\ s.dirty /\ s.timer /\ s.plan = store.plan /\ s.confirm = store.confirm
         /\ s.problems = store.problems
         /\ s.job = store.job /\ s.streams = store.streams
         /\ Len(s.past) + Len(s.future) <= HistoryLimit
  <2>1. d \in Diagram /\ key \in Field \cup {Unset} /\ c \in Commits(key)
    BY <1>0, <1>1
  <2> QED
    BY <1>2, <2>1, CommitsDrawn, CanvasAssumption, ZenonT(40)
<1>4. server' = server /\ wire' = wire /\ UserActed /\ Waits /\ watch'.crossed /\ ~watch'.unsure
  BY <1>1, DrawingNoted
<1>5. Moved(Nobody, {}, 0)
  BY <1>4, StillMoves DEF Types
<1> QED
  BY <1>3, <1>4, <1>5 DEF Draws, StoreTyped, SameJob

(* undo and redo move a diagram between two histories that fit.            *)
LEMMA UndoneTyped ==
  ASSUME store \in Store, NEW d \in Diagram, NEW past \in Seq(Diagram), NEW future \in Seq(Diagram),
         Len(past) + Len(future) <= HistoryLimit,
         store' = Undone(d) ++ [past |-> past, future |-> future, key |-> Unset] ++ store
  PROVE  /\ StoreTyped /\ SameJob
         /\ store'.dirty /\ store'.timer /\ store'.plan = store.plan /\ store'.confirm = store.confirm
  BY DEF Undone, ++, Store, StoreTyped, SameJob

(* The length of a prefix.                                                 *)
LEMMA PrefixLength ==
  ASSUME NEW p, NEW n \in Nat PROVE Len(SubSeq(p, 1, n)) = n
  OBVIOUS

(* undo takes the last diagram of the past,                                *)
LEMMA undoDraws ==
  ASSUME Types, undo PROVE Draws
<1>1. /\ store \in Store /\ wire \in Seq(Message)
      /\ store.past \in Seq(Diagram) /\ store.future \in Seq(Diagram) /\ store.canvas \in Diagram
      /\ Len(store.past) + Len(store.future) <= HistoryLimit
      /\ HistoryLimit \in Nat
  BY CanvasAssumption DEF Types, Store, CanvasAssumption
<1>2. /\ store.past # <<>> /\ Drawing
      /\ store' = Undone(Last(store.past))
           ++ [past |-> Front(store.past), future |-> <<store.canvas>> \o store.future, key |-> Unset]
           ++ store
  BY DEF undo, set
<1>3. ASSUME NEW p \in Seq(Diagram), p # <<>>
      PROVE  Last(p) \in Diagram /\ Front(p) \in Seq(Diagram) /\ Len(Front(p)) = Len(p) - 1
             /\ Len(p) \in Nat
  <2>1. Len(p) \in Nat \ {0} /\ Last(p) \in Diagram
    BY <1>3 DEF Last
  <2>2. \A k \in 1..(Len(p) - 1) : p[k] \in Diagram
    BY <1>3
  <2>3. SubSeq(p, 1, Len(p) - 1) \in Seq(Diagram)
    BY <2>1, <2>2
  <2>4. Len(SubSeq(p, 1, Len(p) - 1)) = Len(p) - 1
    BY <2>1, Len(p) - 1 \in Nat, PrefixLength
  <2> QED
    BY <2>1, <2>3, <2>4 DEF Front
<1>4. ASSUME NEW f \in Seq(Diagram), NEW d \in Diagram
      PROVE  <<d>> \o f \in Seq(Diagram) /\ Len(<<d>> \o f) = Len(f) + 1 /\ Len(f) \in Nat
  BY <1>4
<1>5. Len(Front(store.past)) + Len(<<store.canvas>> \o store.future) <= HistoryLimit
  <2> DEFINE p == Len(store.past)
             f == Len(store.future)
             a == Len(Front(store.past))
             b == Len(<<store.canvas>> \o store.future)
  <2>1. a = p - 1 /\ p \in Nat
    BY <1>1, <1>2, <1>3
  <2>2. b = f + 1 /\ f \in Nat
    BY <1>1, <1>4
  <2>3. p + f <= HistoryLimit /\ HistoryLimit \in Nat
    BY <1>1
  <2> HIDE DEF p, f, a, b
  <2>4. a + b <= HistoryLimit
    BY <2>1, <2>2, <2>3
  <2> QED
    BY <2>4 DEF a, b
<1>6. /\ StoreTyped /\ SameJob
      /\ store'.dirty /\ store'.timer /\ store'.plan = store.plan /\ store'.confirm = store.confirm
  BY <1>1, <1>2, <1>3, <1>4, <1>5, UndoneTyped
<1>7. server' = server /\ wire' = wire /\ UserActed /\ Waits /\ watch'.crossed /\ ~watch'.unsure
  BY <1>2, DrawingNoted
<1>8. Moved(Nobody, {}, 0)
  BY <1>7, <1>1, StillMoves
<1> QED
  BY <1>6, <1>7, <1>8 DEF Draws

(* redo the first one of the future.                                       *)
LEMMA redoDraws ==
  ASSUME Types, redo PROVE Draws
<1>1. /\ store \in Store /\ wire \in Seq(Message)
      /\ store.past \in Seq(Diagram) /\ store.future \in Seq(Diagram) /\ store.canvas \in Diagram
      /\ Len(store.past) + Len(store.future) <= HistoryLimit
      /\ HistoryLimit \in Nat
  BY CanvasAssumption DEF Types, Store, CanvasAssumption
<1>2. /\ store.future # <<>> /\ Drawing
      /\ store' = Undone(Head(store.future))
           ++ [past |-> Append(store.past, store.canvas), future |-> Tail(store.future), key |-> Unset]
           ++ store
  BY DEF redo, set
<1>3. ASSUME NEW p \in Seq(Diagram), p # <<>>
      PROVE  Head(p) \in Diagram /\ Tail(p) \in Seq(Diagram) /\ Len(Tail(p)) = Len(p) - 1
             /\ Len(p) \in Nat
  BY <1>3
<1>4. ASSUME NEW f \in Seq(Diagram), NEW d \in Diagram
      PROVE  Append(f, d) \in Seq(Diagram) /\ Len(Append(f, d)) = Len(f) + 1 /\ Len(f) \in Nat
  BY <1>4
<1>5. Len(Append(store.past, store.canvas)) + Len(Tail(store.future)) <= HistoryLimit
  <2> DEFINE p == Len(store.past)
             f == Len(store.future)
             a == Len(Append(store.past, store.canvas))
             b == Len(Tail(store.future))
  <2>1. a = p + 1 /\ p \in Nat
    BY <1>1, <1>4
  <2>2. b = f - 1 /\ f \in Nat
    BY <1>1, <1>2, <1>3
  <2>3. p + f <= HistoryLimit /\ HistoryLimit \in Nat
    BY <1>1
  <2> HIDE DEF p, f, a, b
  <2>4. a + b <= HistoryLimit
    BY <2>1, <2>2, <2>3
  <2> QED
    BY <2>4 DEF a, b
<1>6. /\ StoreTyped /\ SameJob
      /\ store'.dirty /\ store'.timer /\ store'.plan = store.plan /\ store'.confirm = store.confirm
  BY <1>1, <1>2, <1>3, <1>4, <1>5, UndoneTyped
<1>7. server' = server /\ wire' = wire /\ UserActed /\ Waits /\ watch'.crossed /\ ~watch'.unsure
  BY <1>2, DrawingNoted
<1>8. Moved(Nobody, {}, 0)
  BY <1>7, <1>1, StillMoves
<1> QED
  BY <1>6, <1>7, <1>8 DEF Draws

(* loadDocument is an edit that forgets the plan.                          *)
LEMMA loadDocumentDraws ==
  ASSUME Types, loadDocument PROVE Draws
<1>1. PICK d \in Diagram, c \in Commits(Unset) : set(Drawn(d) ++ NoPlanShown ++ c)
  BY DEF loadDocument
<1>2. ~DialogOpen /\ Drawing /\ store \in Store /\ wire \in Seq(Message)
      /\ Len(store.past) + Len(store.future) <= HistoryLimit
  BY DEF loadDocument, Types
<1>3. store' = Drawn(d) ++ NoPlanShown ++ c ++ store
  BY <1>1 DEF set
<1>4. /\ StoreTyped /\ SameJob
      /\ store'.dirty /\ store'.timer /\ store'.plan = NoPlan /\ store'.confirm = store.confirm
  <2>1. CASE c = <<>>
    <3>1. DOMAIN c = {}
      BY <2>1
    <3>2. store' = Drawn(d) ++ NoPlanShown ++ store
      BY <1>3, <3>1, Zenon DEF Drawn, ++, NoPlanShown
    <3> QED
      BY <1>2, <3>2 DEF Drawn, ++, Store, NoPlanShown, StoreTyped, SameJob
  <2>2. CASE /\ c \in [past : Seq(Diagram), future : Seq(Diagram), key : Field \cup {Unset},
                      stale : BOOLEAN]
            /\ Len(c.past) + Len(c.future) <= HistoryLimit
    BY <1>2, <1>3, <2>2 DEF Drawn, ++, Store, NoPlanShown, StoreTyped, SameJob
  <2> QED
    BY <2>1, <2>2, CommitsTyped, CanvasAssumption
<1>5. server' = server /\ wire' = wire /\ UserActed /\ Waits /\ watch'.crossed /\ ~watch'.unsure
  BY <1>2, DrawingNoted
<1>6. Moved(Nobody, {}, 0)
  BY <1>5, <1>2, StillMoves
<1> QED
  BY <1>2, <1>4, <1>5, <1>6 DEF Draws

(* newDiagram too, and it says at once that nothing is wrong with a blank  *)
(* canvas.                                                                 *)
LEMMA newDiagramDraws ==
  ASSUME Types, newDiagram PROVE Draws
<1> DEFINE blank == [canvas |-> Blank, dirty |-> TRUE, problems |-> Blank]
<1>1. PICK c \in Commits(Unset) : set(blank ++ NoPlanShown ++ c)
  BY DEF newDiagram
<1>2. ~DialogOpen /\ store \in Store /\ wire \in Seq(Message)
      /\ Len(store.past) + Len(store.future) <= HistoryLimit
      /\ wire' = Older(Len(wire) + 1, wire)
      /\ server' = server /\ UserActed /\ Waits /\ watch'.crossed /\ ~watch'.unsure
  BY EditsNoted DEF newDiagram, Types
<1>3. store' = blank ++ NoPlanShown ++ c ++ store /\ Blank \in Diagram
  BY <1>1, CanvasAssumption DEF set, CanvasAssumption
<1>4. /\ StoreTyped /\ SameJob
      /\ store'.dirty /\ store'.problems = store'.canvas
      /\ store'.plan = NoPlan /\ store'.confirm = store.confirm
  <2>1. CASE c = <<>>
    <3>1. DOMAIN c = {}
      BY <2>1
    <3>2. store' = blank ++ NoPlanShown ++ store
      BY <1>3, <3>1, Zenon DEF ++, NoPlanShown
    <3> QED
      BY <1>2, <1>3, <3>2, ZenonT(40) DEF ++, Store, NoPlanShown, StoreTyped, SameJob
  <2>2. CASE /\ c \in [past : Seq(Diagram), future : Seq(Diagram), key : Field \cup {Unset},
                      stale : BOOLEAN]
            /\ Len(c.past) + Len(c.future) <= HistoryLimit
    BY <1>2, <1>3, <2>2 DEF ++, Store, NoPlanShown, StoreTyped, SameJob
  <2> QED
    BY <2>1, <2>2, CommitsTyped, CanvasAssumption
<1>5. Len(wire) + 1 \in Nat
  BY <1>2
<1>6. /\ wire' \in Seq(Message) /\ Len(wire') = Len(wire)
      /\ \A k \in DOMAIN wire : Same(wire'[k], wire[k])
      /\ \A k \in DOMAIN wire : wire'[k].late = (wire[k].late \/ k < Len(wire) + 1)
  BY <1>2, <1>5, OlderSame
<1>7. Moved(Nobody, {}, Nobody)
  BY <1>2, <1>6, NobodyMoves DEF Nobody
<1> QED
  BY <1>2, <1>4, <1>6, <1>7 DEF Draws

-----------------------------------------------------------------------------
(* What stays.                                                             *)
SameCanvas == store'.canvas = store.canvas /\ store'.dirty = store.dirty
SameChecks == store'.problems = store.problems /\ store'.timer = store.timer

(* Plans are looked at.                                                    *)
Dialogs ==
  /\ StoreTyped /\ SameJob /\ SameCanvas /\ SameChecks
  /\ server' = server /\ wire' = wire /\ UserActed /\ SameMarks /\ SameOrder
  /\ \/ store'.plan = NoPlan /\ store'.confirm = store.confirm /\ ~DialogOpen
     \/ store'.plan = store.plan /\ ~store'.confirm
     \/ /\ store'.plan = store.plan /\ store.plan # NoPlan /\ ~JobRuns
        /\ watch'.hasty \/ ~Starting

(* The actions that only look at plans send nothing.                       *)
LEMMA DialogActions ==
  ASSUME Types, clearPlan \/ openDialog \/ closeDialog PROVE Dialogs
<1>1. store \in Store /\ Len(store.past) + Len(store.future) <= HistoryLimit /\ watch \in Watch
  BY DEF Types
<1>a. watch.crossed \in BOOLEAN /\ FALSE \in BOOLEAN /\ Starting \in BOOLEAN
  BY <1>1 DEF Watch, Starting
<1>2. CASE clearPlan
  <2>1. /\ ~DialogOpen /\ server' = server /\ wire' = wire /\ UserActed /\ SameMarks /\ SameOrder
        /\ store' = NoPlanShown ++ store
    BY <1>1, <1>a, <1>2, CallsNoted DEF clearPlan, set, SameMarks
  <2>2. /\ StoreTyped /\ SameJob /\ SameCanvas /\ SameChecks
        /\ store'.plan = NoPlan /\ store'.confirm = store.confirm
    BY <1>1, <2>1 DEF NoPlanShown, ++, Store, StoreTyped, SameJob, SameCanvas, SameChecks
  <2> QED
    BY <2>1, <2>2 DEF Dialogs
<1>3. CASE openDialog
  <2>1. /\ CanApply /\ (watch'.hasty \/ ~Starting) /\ server' = server /\ wire' = wire /\ UserActed /\ SameMarks /\ SameOrder
        /\ store' = [confirm |-> TRUE] ++ store
    BY <1>1, <1>a, <1>3, CallsNoted DEF openDialog, set, SameMarks
  <2>2. /\ StoreTyped /\ SameJob /\ SameCanvas /\ SameChecks
        /\ store'.plan = store.plan
    BY <1>1, <2>1 DEF ++, Store, StoreTyped, SameJob, SameCanvas, SameChecks
  <2> QED
    BY <2>1, <2>2 DEF Dialogs, CanApply
<1>4. CASE closeDialog
  <2>1. /\ server' = server /\ wire' = wire /\ UserActed /\ SameMarks /\ SameOrder
        /\ store' = [confirm |-> FALSE] ++ store
    BY <1>1, <1>a, <1>4, CallsNoted DEF closeDialog, set, SameMarks
  <2>2. /\ StoreTyped /\ SameJob /\ SameCanvas /\ SameChecks
        /\ store'.plan = store.plan /\ ~store'.confirm
    BY <1>1, <2>1 DEF ++, Store, StoreTyped, SameJob, SameCanvas, SameChecks
  <2> QED
    BY <2>1, <2>2 DEF Dialogs
<1> QED
  BY <1>2, <1>3, <1>4

(* Requests that are sent: to save,                                        *)
AsksToSave(m) ==
  /\ m.kind = "save" /\ m.at = "out" /\ m.doc = store.canvas
  /\ SameChecks /\ store'.confirm = store.confirm /\ UserActed /\ Waits
  /\ watch'.crossed = Crossed /\ watch'.unsure = watch.unsure
  /\ \/ m.then = "none" /\ (watch'.hasty \/ ~Applying)
     \/ ~DialogOpen /\ ~JobRuns /\ (watch'.hasty \/ ~Starting)

(* to plan,                                                                *)
AsksToPlan(m) ==
  /\ m.kind \in {"plan", "destroy"} /\ m.at = "out" /\ m.then = "none"
  /\ SameChecks /\ store'.confirm = store.confirm /\ UserActed /\ Waits
  /\ SameMarks /\ ~DialogOpen /\ ~JobRuns /\ (watch'.hasty \/ ~Starting)

(* to apply,                                                               *)
AsksToApply(m) ==
  /\ m.kind = "apply" /\ m.at = "out" /\ m.then = "none"
  /\ m.about = [plan |-> store.plan, canvas |-> store.canvas, dirty |-> store.dirty]
  /\ SameChecks /\ DialogOpen /\ ~store'.confirm /\ UserActed /\ Waits
  /\ SameMarks /\ (watch'.hasty \/ ~Starting)

(* to validate.                                                            *)
AsksToValidate(m) ==
  /\ m.kind = "validate" /\ m.at = "in" /\ m.then = "none" /\ m.doc = store.canvas
  /\ store'.problems = store.problems /\ store'.confirm = store.confirm /\ watch' = watch

Asks(m) ==
  /\ m \in Message /\ MessageOK(m, DOMAIN server.jobs) /\ ~m.late
  /\ wire' = Append(wire, m)
  /\ StoreTyped /\ SameJob /\ SameCanvas /\ store'.plan = store.plan
  /\ server' = server /\ SameOrder
  /\ AsksToSave(m) \/ AsksToPlan(m) \/ AsksToApply(m) \/ AsksToValidate(m)

(* A store that stays the same.                                            *)
LEMMA Unchanged ==
  ASSUME Types, store' = store
  PROVE  /\ StoreTyped /\ SameJob /\ SameCanvas /\ SameChecks
         /\ store'.plan = store.plan /\ store'.confirm = store.confirm
  BY DEF Types, StoreTyped, SameJob, SameCanvas, SameChecks

(* save sends the canvas.                                                  *)
LEMMA SaveAsks ==
  ASSUME Types, NEW then \in {"none", "plan", "destroy"}, Saving(then), store' = store, server' = server,
         UserActed, Waits, SameOrder, watch'.crossed = Crossed, watch'.unsure = watch.unsure,
         \/ then = "none" /\ (watch'.hasty \/ ~Applying)
         \/ ~DialogOpen /\ ~JobRuns /\ (watch'.hasty \/ ~Starting)
  PROVE  \E m : Asks(m)
<1> DEFINE m == Request([kind |-> "save", doc |-> store.canvas, then |-> then])
<1>1. store.canvas \in Diagram
  BY DEF Types, Store
<1>2. m \in Message /\ wire' = Append(wire, m)
  BY <1>1, RequestTypes DEF Saving, Sending
<1>3. m.kind = "save" /\ m.at = "out" /\ m.doc = store.canvas /\ m.then = then /\ ~m.late
  BY RequestFields
<1> HIDE DEF m
<1>4. MessageOK(m, DOMAIN server.jobs)
  BY <1>1, <1>3 DEF MessageOK, Start
<1>5. AsksToSave(m)
  BY <1>3, Unchanged DEF AsksToSave
<1> QED
  BY <1>2, <1>3, <1>4, <1>5, Unchanged DEF Asks

(* runPlan and runDestroyPlan send the canvas before, when it is unsaved.  *)
LEMMA PlanningAsks ==
  ASSUME Types, NEW kind \in {"plan", "destroy"}, Planning(kind)
  PROVE  \E m : Asks(m)
<1> DEFINE m == Request([kind |-> kind])
<1>0. watch \in Watch /\ watch.crossed \in BOOLEAN /\ Crossed \in BOOLEAN /\ Starting \in BOOLEAN
  BY DEF Types, Watch, Crossed, Starting, ApplyRuns, On
<1>1. /\ store' = store /\ server' = server /\ ~DialogOpen /\ ~JobRuns
      /\ IF store.dirty THEN Saving(kind) /\ Calls(Starting, Crossed)
         ELSE Sending(wire, [kind |-> kind]) /\ Calls(Starting, watch.crossed)
  BY DEF Planning
<1>2. CASE store.dirty
  <2>1. /\ Saving(kind) /\ UserActed /\ Waits /\ (watch'.hasty \/ ~Starting) /\ SameOrder
        /\ watch'.crossed = Crossed /\ watch'.unsure = watch.unsure
    BY <1>0, <1>1, <1>2, CallsNoted
  <2> QED
    BY <1>1, <2>1, SaveAsks
<1>3. CASE ~store.dirty
  <2>1. m \in Message /\ wire' = Append(wire, m)
    BY <1>1, <1>3, RequestTypes DEF Sending, Kind, Start
  <2>a. UserActed /\ Waits /\ (watch'.hasty \/ ~Starting) /\ SameOrder /\ SameMarks
    BY <1>0, <1>1, <1>3, CallsNoted DEF SameMarks
  <2>2. m.kind = kind /\ m.at = "out" /\ m.then = "none" /\ ~m.late
    BY RequestFields
  <2> HIDE DEF m
  <2>3. MessageOK(m, DOMAIN server.jobs)
    BY <2>2 DEF MessageOK, Start
  <2>4. AsksToPlan(m)
    BY <1>1, <2>a, <2>2, Unchanged DEF AsksToPlan
  <2> QED
    BY <1>1, <2>a, <2>1, <2>2, <2>3, <2>4, Unchanged DEF Asks
<1> QED
  BY <1>2, <1>3

(* What the user and the timer send.                                       *)
LEMMA AskActions ==
  ASSUME Types, save \/ runPlan \/ runDestroyPlan \/ runApply \/ validateSoon
  PROVE  \E m : Asks(m)
<1>1. /\ store \in Store /\ Len(store.past) + Len(store.future) <= HistoryLimit
      /\ store.canvas \in Diagram /\ store.plan \in Plan \cup {NoPlan} /\ store.dirty \in BOOLEAN
  BY DEF Types, Store
<1>a. /\ watch \in Watch /\ watch.crossed \in BOOLEAN /\ Crossed \in BOOLEAN
      /\ Starting \in BOOLEAN /\ Applying \in BOOLEAN
  BY DEF Types, Watch, Crossed, Starting, Applying, ApplyRuns, On
<1>2. CASE save
  <2>1. Saving("none") /\ store' = store /\ server' = server /\ UserActed /\ Waits
        /\ (watch'.hasty \/ ~Applying) /\ SameOrder
        /\ watch'.crossed = Crossed /\ watch'.unsure = watch.unsure
    BY <1>a, <1>2, CallsNoted DEF save
  <2> QED
    BY <2>1, SaveAsks
<1>3. CASE runPlan \/ runDestroyPlan
  BY <1>3, PlanningAsks DEF runPlan, runDestroyPlan
<1>4. CASE runApply
  <2> DEFINE s == [plan |-> store.plan, canvas |-> store.canvas, dirty |-> store.dirty]
             m == Request([kind |-> "apply", about |-> s])
  <2>1. /\ DialogOpen /\ store' = [confirm |-> FALSE] ++ store /\ server' = server
        /\ UserActed /\ Waits /\ (watch'.hasty \/ ~Starting) /\ wire' = Append(wire, m)
        /\ SameOrder /\ SameMarks
    BY <1>a, <1>4, CallsNoted DEF runApply, set, Sending, SameMarks
  <2>2. s \in Shown
    BY <1>1 DEF Shown
  <2>3. m \in Message
    BY <2>2, RequestTypes
  <2>4. m.kind = "apply" /\ m.at = "out" /\ m.then = "none" /\ m.about = s /\ ~m.late
    BY RequestFields
  <2> HIDE DEF m
  <2>5. MessageOK(m, DOMAIN server.jobs)
    BY <2>2, <2>4 DEF MessageOK, Start
  <2>6. /\ StoreTyped /\ SameJob /\ SameCanvas /\ SameChecks
        /\ store'.plan = store.plan /\ ~store'.confirm
    BY <1>1, <2>1 DEF ++, Store, StoreTyped, SameJob, SameCanvas, SameChecks
  <2>7. AsksToApply(m)
    BY <2>1, <2>4, <2>6 DEF AsksToApply
  <2> QED
    BY <2>1, <2>3, <2>4, <2>5, <2>6, <2>7 DEF Asks
<1>5. CASE validateSoon
  <2> DEFINE m == Request([kind |-> "validate", at |-> "in", doc |-> store.canvas])
  <2>1. /\ store' = [timer |-> FALSE] ++ store /\ server' = server
        /\ watch' = watch /\ wire' = Append(wire, m)
    BY <1>5 DEF validateSoon, set, Sending
  <2>2. m \in Message
    BY <1>1, RequestTypes
  <2>3. m.kind = "validate" /\ m.at = "in" /\ m.then = "none" /\ m.doc = store.canvas /\ ~m.late
    BY RequestFields
  <2> HIDE DEF m
  <2>4. MessageOK(m, DOMAIN server.jobs)
    BY <1>1, <2>3 DEF MessageOK, Start
  <2>5. /\ StoreTyped /\ SameJob /\ SameCanvas /\ store'.problems = store.problems
        /\ store'.plan = store.plan /\ store'.confirm = store.confirm
    BY <1>1, <2>1 DEF ++, Store, StoreTyped, SameJob, SameCanvas
  <2>6. AsksToValidate(m)
    BY <2>1, <2>3, <2>5 DEF AsksToValidate
  <2> QED
    BY <2>1, <2>2, <2>3, <2>4, <2>5, <2>6 DEF Asks, SameOrder
<1> QED
  BY <1>2, <1>3, <1>4, <1>5

-----------------------------------------------------------------------------
(* Message i has been answered with x.                                     *)
Replied(i, x) ==
  /\ wire' \in Seq(Message) /\ DOMAIN wire' = DOMAIN wire
  /\ \A k \in DOMAIN wire : k # i => wire'[k] = wire[k]
  /\ wire'[i].kind = wire[i].kind /\ wire'[i].doc = wire[i].doc /\ wire'[i].then = wire[i].then
  /\ wire'[i].about = wire[i].about /\ wire'[i].late = wire[i].late
  /\ wire'[i].at = "in" /\ wire'[i].reply = x

(* An element of a sequence.                                               *)
LEMMA ElementTyped ==
  ASSUME NEW S, NEW s \in Seq(S), NEW i \in DOMAIN s PROVE s[i] \in S
  OBVIOUS

(* The server answers one message and leaves the others.                   *)
LEMMA RepliesFacts ==
  ASSUME wire \in Seq(Message), NEW i \in DOMAIN wire,
         NEW x \in Diagram \cup Plan \cup {NoPlan, Unset} \cup [job : Nat] \cup [status : Status],
         Replies(i, x)
  PROVE  Replied(i, x)
<1> DEFINE m == [wire[i] EXCEPT !.at = "in", !.reply = x]
<1>1. wire[i] \in Message /\ DOMAIN wire = 1..Len(wire) /\ Len(wire) \in Nat
  OBVIOUS
<1>2. /\ m \in Message /\ m.kind = wire[i].kind /\ m.doc = wire[i].doc /\ m.then = wire[i].then
      /\ m.about = wire[i].about /\ m.late = wire[i].late /\ m.at = "in" /\ m.reply = x
  BY <1>1 DEF Message
<1>3. wire' = [wire EXCEPT ![i] = m]
  BY DEF Replies
<1> HIDE DEF m
<1>4. /\ wire' \in Seq(Message) /\ DOMAIN wire' = DOMAIN wire /\ wire'[i] = m
      /\ \A k \in DOMAIN wire : k # i => wire'[k] = wire[k]
  BY <1>2, <1>3
<1> QED
  BY <1>2, <1>4 DEF Replied

(* The server handles a PUT,                                               *)
Puts(i) ==
  /\ wire[i].kind = "save" /\ wire[i].at = "out" /\ Replied(i, Unset)
  /\ store' = store /\ watch' = watch /\ server' \in Server
  /\ server'.file = wire[i].doc /\ server'.planned = server.planned /\ server'.jobs = server.jobs

(* answers a GET or refuses a POST,                                        *)
Tells(i) ==
  /\ wire[i].at = "out" /\ store' = store /\ watch' = watch /\ server' = server
  /\ \/ wire[i].kind = "load" /\ Replied(i, server.file)
     \/ wire[i].kind = "latest" /\ Replied(i, server.planned)
     \/ /\ wire[i].kind = "job"
        /\ Replied(i, [status |-> server.jobs[wire[i].about.job].status])
     \/ wire[i].kind \in Start /\ Replied(i, Unset)

(* or starts a job.                                                        *)
Starts(i) ==
  LET n == Len(server.jobs) + 1 IN
  /\ wire[i].kind \in Start /\ wire[i].at = "out" /\ Accepts(wire[i].kind)
  /\ Replied(i, [job |-> n])
  /\ store' = store /\ watch' \in Watch /\ Firm /\ SameOrder /\ server' \in Server
  /\ watch'.unsure = watch.unsure /\ (watch'.crossed <=> watch.crossed \/ wire[i].kind = "apply")
  /\ server'.file = server.file /\ server'.planned = server.planned
  /\ n \in Nat \ DOMAIN server.jobs /\ DOMAIN server'.jobs = DOMAIN server.jobs \cup {n}
  /\ \A j \in DOMAIN server.jobs : server'.jobs[j] = server.jobs[j]
  /\ server'.jobs[n].kind = wire[i].kind /\ server'.jobs[n].doc = server.file
  /\ server'.jobs[n].status = "running"

(* What the server does with a request.                                    *)
LEMMA HandleEffect ==
  ASSUME Types, Handle
  PROVE  \E i \in DOMAIN wire : Puts(i) \/ Tells(i) \/ Starts(i)
<1>1. PICK i \in DOMAIN wire :
        wire[i].at = "out" /\ (Put(i, wire[i]) \/ Ask(i, wire[i]) \/ StartJob(i, wire[i]))
  BY DEF Handle
<1>2. /\ wire \in Seq(Message) /\ server \in Server /\ store' = store
      /\ server.file \in Diagram /\ server.planned \in Plan \cup {NoPlan}
      /\ server.jobs \in Seq([kind : Start, doc : Diagram, status : Status])
      /\ MessageOK(wire[i], DOMAIN server.jobs)
  BY DEF Types, Server, Handle
<1>3. CASE Put(i, wire[i])
  <2>1. /\ wire[i].kind = "save" /\ server' = [server EXCEPT !.file = wire[i].doc]
        /\ Replies(i, Unset) /\ watch' = watch
    BY <1>3 DEF Put
  <2>2. wire[i].doc \in Diagram
    BY <1>2, <2>1 DEF MessageOK
  <2>3. /\ server' \in Server /\ server'.file = wire[i].doc
        /\ server'.planned = server.planned /\ server'.jobs = server.jobs
    BY <1>2, <2>1, <2>2 DEF Server
  <2>4. Replied(i, Unset)
    BY <1>2, <2>1, RepliesFacts
  <2> QED
    BY <1>1, <1>2, <2>1, <2>3, <2>4 DEF Puts
<1>4. CASE Ask(i, wire[i])
  <2>1. server' = server /\ watch' = watch /\ wire[i].kind \in {"load", "latest", "job"}
    BY <1>4 DEF Ask
  <2>2. CASE wire[i].kind = "load"
    <3>1. Replies(i, server.file)
      BY <1>4, <2>2 DEF Ask
    <3>2. Replied(i, server.file)
      BY <1>2, <3>1, RepliesFacts
    <3> QED
      BY <1>1, <1>2, <2>1, <2>2, <3>2 DEF Tells
  <2>3. CASE wire[i].kind = "latest"
    <3>1. Replies(i, server.planned)
      BY <1>4, <2>3 DEF Ask
    <3>2. Replied(i, server.planned)
      BY <1>2, <3>1, RepliesFacts
    <3> QED
      BY <1>1, <1>2, <2>1, <2>3, <3>2 DEF Tells
  <2>4. CASE wire[i].kind = "job"
    <3> DEFINE x == [status |-> server.jobs[wire[i].about.job].status]
    <3>1. Replies(i, x)
      BY <1>4, <2>4 DEF Ask
    <3>2. wire[i].about.job \in DOMAIN server.jobs
      BY <1>2, <2>4 DEF MessageOK
    <3>3. x \in [status : Status]
      <4>1. server.jobs[wire[i].about.job] \in [kind : Start, doc : Diagram, status : Status]
        BY <1>2, <3>2, ElementTyped
      <4> QED
        BY <4>1
    <3>4. Replied(i, x)
      BY <1>2, <3>1, <3>3, RepliesFacts
    <3> QED
      BY <1>1, <1>2, <2>1, <2>4, <3>4 DEF Tells
  <2> QED
    BY <2>1, <2>2, <2>3, <2>4
<1>5. CASE StartJob(i, wire[i])
  <2>1. wire[i].kind \in Start
    BY <1>5 DEF StartJob
  <2>2. CASE ~Accepts(wire[i].kind)
    <3>1. Replies(i, Unset) /\ server' = server /\ watch' = watch
      BY <1>5, <2>2 DEF StartJob
    <3>2. Replied(i, Unset)
      BY <1>2, <3>1, RepliesFacts
    <3> QED
      BY <1>1, <1>2, <2>1, <3>1, <3>2 DEF Tells
  <2>3. CASE Accepts(wire[i].kind)
    <3> DEFINE n == Len(server.jobs) + 1
               job == [kind |-> wire[i].kind, doc |-> server.file, status |-> "running"]
               jobs == Append(server.jobs, job)
    <3>1. /\ Replies(i, [job |-> n]) /\ server' = [server EXCEPT !.jobs = jobs]
          /\ watch' = [watch EXCEPT !.crossed = @ \/ wire[i].kind = "apply"]
      BY <1>5, <2>3 DEF StartJob
    <3>a. /\ watch' \in Watch /\ Firm /\ SameOrder /\ watch'.unsure = watch.unsure
          /\ (watch'.crossed <=> watch.crossed \/ wire[i].kind = "apply")
      <4> DEFINE b == watch.crossed \/ wire[i].kind = "apply"
      <4>1. watch \in Watch /\ b \in BOOLEAN /\ watch' = [watch EXCEPT !.crossed = b]
        BY <3>1 DEF Types, Watch
      <4>2. b <=> watch.crossed \/ wire[i].kind = "apply"
        OBVIOUS
      <4> HIDE DEF b
      <4> QED
        BY <4>1, <4>2 DEF Watch, Firm, SameOrder
    <3>2. job \in [kind : Start, doc : Diagram, status : Status]
      BY <1>2, <2>1 DEF Status
    <3>3. /\ n \in Nat \ DOMAIN server.jobs /\ DOMAIN jobs = DOMAIN server.jobs \cup {n}
          /\ jobs \in Seq([kind : Start, doc : Diagram, status : Status])
          /\ \A j \in DOMAIN server.jobs : jobs[j] = server.jobs[j]
          /\ jobs[n] = job
      <4> HIDE DEF job
      <4>1. /\ jobs \in Seq([kind : Start, doc : Diagram, status : Status]) /\ Len(jobs) = n
            /\ DOMAIN jobs = 1..n
            /\ n \in Nat \ {0} /\ DOMAIN server.jobs = 1..(n - 1)
            /\ \A k \in 1..(n - 1) : jobs[k] = server.jobs[k]
            /\ jobs[n] = job
        BY <1>2, <3>2, AppendFacts
      <4> HIDE DEF jobs, n
      <4>2. 1..n = 1..(n - 1) \cup {n} /\ n \notin 1..(n - 1)
        BY <4>1
      <4> QED
        BY <4>1, <4>2
    <3>4. Replied(i, [job |-> n])
      BY <1>2, <3>1, <3>3, RepliesFacts
    <3> HIDE DEF jobs
    <3>5. /\ server' \in Server /\ server'.file = server.file /\ server'.planned = server.planned
          /\ server'.jobs = jobs
      BY <1>2, <3>1, <3>3 DEF Server
    <3> QED
      BY <1>1, <1>2, <2>1, <2>3, <3>a, <3>3, <3>4, <3>5 DEF Starts
  <2> QED
    BY <2>2, <2>3
<1> QED
  BY <1>1, <1>3, <1>4, <1>5

(* A job ends.                                                             *)
Ends(j) ==
  /\ store' = store /\ wire' = wire /\ watch' = watch /\ server' \in Server
  /\ DOMAIN server'.jobs = DOMAIN server.jobs
  /\ \A k \in DOMAIN server.jobs : k # j => server'.jobs[k] = server.jobs[k]
  /\ server'.jobs[j].kind = server.jobs[j].kind /\ server'.jobs[j].doc = server.jobs[j].doc
  /\ \/ server'.jobs[j].status = "failed" /\ server'.file = server.file
     \/ /\ server'.jobs[j].status = "succeeded"
        /\ server'.file = IF server.jobs[j].kind = "apply" THEN server.jobs[j].doc ELSE server.file
  /\ server'.planned = IF server.jobs[j].kind = "apply" THEN NoPlan
                       ELSE IF server'.jobs[j].status = "succeeded" THEN PlanOf(j)
                       ELSE server.planned

(* What the end of a job does.                                             *)
LEMMA JobEndsEffect ==
  ASSUME Types, JobEnds PROVE \E j \in Running : Ends(j)
<1>1. PICK j \in Running :
        /\ server' \in {Fails(j)} \cup {s \in {Succeeds(j)} : server.jobs[j].doc \notin Broken}
        /\ UNCHANGED <<store, wire, watch>>
  BY DEF JobEnds
<1> DEFINE Job == [kind : Start, doc : Diagram, status : Status]
<1>2. /\ server \in Server /\ server.jobs \in Seq(Job) /\ j \in DOMAIN server.jobs
      /\ server.file \in Diagram /\ server.planned \in Plan \cup {NoPlan}
  BY DEF Types, Server, Running
<1>3. server.jobs[j] \in Job
  BY <1>2, ElementTyped
<1>4. PlanOf(j) \in Plan
  BY <1>3 DEF PlanOf, Plan
<1>5. ASSUME NEW st \in Status
      PROVE  LET jobs == [server.jobs EXCEPT ![j].status = st] IN
             /\ jobs \in Seq(Job) /\ DOMAIN jobs = DOMAIN server.jobs
             /\ \A k \in DOMAIN server.jobs : k # j => jobs[k] = server.jobs[k]
             /\ jobs[j].kind = server.jobs[j].kind /\ jobs[j].doc = server.jobs[j].doc
             /\ jobs[j].status = st
  <2> DEFINE job == [server.jobs[j] EXCEPT !.status = st]
  <2>1. job \in Job /\ job.kind = server.jobs[j].kind /\ job.doc = server.jobs[j].doc /\ job.status = st
    BY <1>3, <1>5
  <2> HIDE DEF job, Job
  <2>2. LET jobs == [server.jobs EXCEPT ![j] = job] IN
        /\ jobs \in Seq(Job) /\ DOMAIN jobs = DOMAIN server.jobs
        /\ \A k \in DOMAIN server.jobs : k # j => jobs[k] = server.jobs[k]
        /\ jobs[j] = job
    BY <1>2, <2>1
  <2> QED
    BY <2>1, <2>2 DEF job
<1>6. CASE server' = Fails(j)
  <2> DEFINE jobs == [server.jobs EXCEPT ![j].status = "failed"]
  <2>1. server' = [server EXCEPT !.planned = IF server.jobs[j].kind = "apply" THEN NoPlan ELSE @,
                                 !.jobs = jobs]
    BY <1>2, <1>6 DEF Fails, Server
  <2>2. /\ jobs \in Seq(Job) /\ DOMAIN jobs = DOMAIN server.jobs
        /\ \A k \in DOMAIN server.jobs : k # j => jobs[k] = server.jobs[k]
        /\ jobs[j].kind = server.jobs[j].kind /\ jobs[j].doc = server.jobs[j].doc
        /\ jobs[j].status = "failed"
    BY <1>5, "failed" \in Status DEF Status
  <2> HIDE DEF jobs
  <2>3. /\ server' \in Server /\ server'.file = server.file /\ server'.jobs = jobs
        /\ server'.planned = IF server.jobs[j].kind = "apply" THEN NoPlan ELSE server.planned
    BY <1>2, <2>1, <2>2 DEF Server
  <2> QED
    BY <1>1, <2>2, <2>3 DEF Ends
<1>7. CASE server' = Succeeds(j)
  <2> DEFINE jobs == [server.jobs EXCEPT ![j].status = "succeeded"]
  <2>1. server' = IF server.jobs[j].kind = "apply"
                  THEN [server EXCEPT !.file = server.jobs[j].doc, !.planned = NoPlan, !.jobs = jobs]
                  ELSE [server EXCEPT !.planned = PlanOf(j), !.jobs = jobs]
    BY <1>2, <1>7 DEF Succeeds, Server
  <2>2. /\ jobs \in Seq(Job) /\ DOMAIN jobs = DOMAIN server.jobs
        /\ \A k \in DOMAIN server.jobs : k # j => jobs[k] = server.jobs[k]
        /\ jobs[j].kind = server.jobs[j].kind /\ jobs[j].doc = server.jobs[j].doc
        /\ jobs[j].status = "succeeded"
    BY <1>5, "succeeded" \in Status DEF Status
  <2> HIDE DEF jobs
  <2>3. /\ server' \in Server /\ server'.jobs = jobs
        /\ server'.file = IF server.jobs[j].kind = "apply" THEN server.jobs[j].doc ELSE server.file
        /\ server'.planned = IF server.jobs[j].kind = "apply" THEN NoPlan ELSE PlanOf(j)
    BY <1>2, <1>3, <1>4, <2>1, <2>2 DEF Server
  <2> QED
    BY <1>1, <2>2, <2>3 DEF Ends
<1> QED
  BY <1>1, <1>6, <1>7

-----------------------------------------------------------------------------
(* Requests of a kind that leave.                                          *)
Leave(news, kind) ==
  \A m \in news :
    /\ m \in Message /\ m.kind = kind /\ m.at = "out" /\ m.then = "none" /\ ~m.late
    /\ MessageOK(m, DOMAIN server.jobs)

(* A request that only has a kind leaves.                                  *)
LEMMA KindLeaves ==
  ASSUME NEW kind \in Kind \ {"save", "validate", "job", "apply"}
  PROVE  Leave({Request([kind |-> kind])}, kind) /\ Request([kind |-> kind]) \in Message
<1> DEFINE m == Request([kind |-> kind])
<1>1. m \in Message /\ m.kind = kind /\ m.at = "out" /\ m.then = "none" /\ ~m.late
  BY RequestTypes, RequestFields
<1> HIDE DEF m
<1>2. MessageOK(m, DOMAIN server.jobs)
  BY <1>1 DEF MessageOK, Start
<1>3. Leave({m}, kind) /\ m \in Message
  BY <1>1, <1>2 DEF Leave
<1> QED
  BY <1>3 DEF m

(* How the answers change the wire: all but the answered request stay, and *)
(* a request of the kind may leave.                                        *)
AnswersMove(i, kind, n) == \E news : Moved(i, news, n) /\ Leave(news, kind)

(* Nothing need leave.                                                     *)
LEMMA NothingLeaves ==
  ASSUME NEW i, NEW n, Moved(i, {}, n) PROVE \A kind : AnswersMove(i, kind, n)
  BY DEF AnswersMove, Leave

(* An answer that is followed by a request.                                *)
LEMMA SendingMoves ==
  ASSUME wire \in Seq(Message), NEW i \in DOMAIN wire, NEW rest, NEW n, Left(i, rest, n),
         NEW kind \in Kind \ {"save", "validate", "job", "apply"}, Sending(rest, [kind |-> kind])
  PROVE  AnswersMove(i, kind, n)
<1> DEFINE m == Request([kind |-> kind])
<1>1. wire' = Append(rest, m)
  BY DEF Sending
<1>2. m \in Message /\ Leave({m}, kind)
  BY KindLeaves
<1> HIDE DEF m
<1>3. Moved(i, {m}, n)
  BY <1>1, <1>2, LeftAppendMoves
<1> QED
  BY <1>2, <1>3 DEF AnswersMove

(* What follows a save leaves after it.                                    *)
LEMMA ThenMoves ==
  ASSUME wire \in Seq(Message), NEW i \in DOMAIN wire, NEW rest, NEW n, Left(i, rest, n),
         NEW r \in Message, NEW dirty, Then(r, rest, dirty)
  PROVE  /\ r.then = "none" => Moved(i, {}, n)
         /\ r.then # "none" => AnswersMove(i, r.then, n)
<1>1. r.then \in {"none", "plan", "destroy"}
  BY DEF Message
<1>2. CASE r.then # "none" /\ ~dirty
  <2>1. Sending(rest, [kind |-> r.then])
    BY <1>2 DEF Then
  <2>2. r.then \in Kind \ {"save", "validate", "job", "apply"}
    BY <1>1, <1>2 DEF Kind, Start
  <2> QED
    BY <1>2, <2>1, <2>2, SendingMoves
<1>3. CASE ~(r.then # "none" /\ ~dirty)
  <2>1. wire' = rest
    BY <1>3 DEF Then
  <2>2. Moved(i, {}, n)
    BY <2>1, LeftMoves
  <2> QED
    BY <2>2, NothingLeaves
<1> QED
  BY <1>2, <1>3

(* The answers, one by one.                                                *)
Noticed(i) ==
  /\ watch' \in Watch /\ Firm /\ watch'.crossed = watch.crossed
  /\ watch'.disordered = wire[i].late

Saves(i) ==
  /\ wire[i].kind = "save" /\ wire[i].at = "in" /\ Noticed(i) /\ server' = server
  /\ StoreTyped /\ SameJob /\ store'.plan = store.plan /\ store'.confirm = store.confirm
  /\ store'.canvas = store.canvas /\ ~store'.dirty
  /\ store'.problems = wire[i].doc /\ store'.timer = store.timer /\ watch'.unsure = watch.crossed
  /\ wire[i].then = "none" => Moved(i, {}, Before(i))
  /\ wire[i].then # "none" => AnswersMove(i, wire[i].then, Before(i))

Validates(i) ==
  /\ wire[i].kind = "validate" /\ Noticed(i) /\ server' = server
  /\ StoreTyped /\ SameJob /\ store'.plan = store.plan /\ store'.confirm = store.confirm
  /\ SameCanvas /\ store'.problems = wire[i].doc /\ store'.timer = store.timer
  /\ watch'.unsure = watch.unsure /\ Moved(i, {}, Before(i))

Loads(i) ==
  /\ wire[i].kind = "load" /\ wire[i].at = "in" /\ server' = server
  /\ watch' \in Watch /\ Firm /\ watch'.crossed = watch.crossed /\ watch'.unsure = watch.crossed
  /\ StoreTyped /\ SameJob /\ store'.plan = store.plan /\ store'.confirm = store.confirm
  /\ store'.canvas = wire[i].reply /\ ~store'.dirty
  /\ store'.problems = wire[i].reply /\ store'.timer = store.timer
  /\ AnswersMove(i, "latest", Len(wire))

Learns(i) ==
  /\ wire[i].kind = "latest" /\ wire[i].at = "in" /\ server' = server
  /\ StoreTyped /\ SameJob /\ SameCanvas /\ SameChecks /\ store'.confirm = store.confirm
  /\ store'.plan = IF wire[i].reply = NoPlan THEN store.plan ELSE wire[i].reply
  /\ Moved(i, {}, 0)
  /\ watch' \in Watch /\ watch'.blind = watch.blind /\ watch'.hasty = watch.hasty
  /\ SameMarks /\ SameOrder
  /\ watch'.behind <=> watch.behind \/ wire[i].reply \notin {NoPlan, server.planned}

Followed(i) ==
  /\ wire[i].kind \in Start /\ wire[i].at = "in" /\ server' = server /\ watch' = watch
  /\ StoreTyped /\ SameCanvas /\ SameChecks /\ store'.confirm = store.confirm
  /\ store'.plan = store.plan
  /\ IF wire[i].reply = Unset THEN SameJob
     ELSE /\ store'.job = [id |-> wire[i].reply.job, status |-> "running"]
          /\ store'.streams = store.streams \cup {wire[i].reply.job}
  /\ Moved(i, {}, 0)

(* What the answers do, but for that of a job.                             *)
LEMMA AnswerParts ==
  ASSUME Types, NEW i \in DOMAIN wire, server' = server, wire[i].at = "in",
         \/ Saved(i, wire[i]) \/ Validated(i, wire[i]) \/ Loaded(i, wire[i])
         \/ Latest(i, wire[i]) \/ Started(i, wire[i])
  PROVE  Saves(i) \/ Validates(i) \/ Loads(i) \/ Learns(i) \/ Followed(i)
<1> DEFINE r == wire[i]
<1>1. /\ store \in Store /\ Len(store.past) + Len(store.future) <= HistoryLimit
      /\ wire \in Seq(Message) /\ watch \in Watch /\ MessageOK(r, DOMAIN server.jobs)
      /\ HistoryLimit \in Nat /\ server \in Server
  BY CanvasAssumption DEF Types, CanvasAssumption
<1>2. r \in Message /\ i \in Nat /\ Len(wire) \in Nat
  BY <1>1, ElementTyped
<1>3. \A n \in Nat : Left(i, Older(n, Gone(i)), n)
  BY <1>1, OlderLeft
<1>4. Left(i, Gone(i), 0)
  BY <1>1, GoneLeft
<1>5. CASE Saved(i, r)
  <2>1. /\ r.kind = "save" /\ store' = [problems |-> r.doc, dirty |-> FALSE] ++ store
        /\ Then(r, Overtaken(i), FALSE)
        /\ watch' = [watch EXCEPT !.disordered = r.late, !.unsure = watch.crossed]
    BY <1>5 DEF Saved, set
  <2>a. Left(i, Overtaken(i), Before(i))
    BY <1>1, <2>1, OvertakenLeft
  <2>2. r.doc \in Diagram
    BY <1>1, <2>1 DEF MessageOK
  <2> HIDE DEF r
  <2>3. /\ StoreTyped /\ SameJob /\ store'.plan = store.plan /\ store'.confirm = store.confirm
        /\ store'.canvas = store.canvas /\ ~store'.dirty
        /\ store'.problems = r.doc /\ store'.timer = store.timer
    BY <1>1, <2>1, <2>2 DEF ++, Store, StoreTyped, SameJob
  <2>4. /\ r.then = "none" => Moved(i, {}, Before(i))
        /\ r.then # "none" => AnswersMove(i, r.then, Before(i))
    BY <1>1, <1>2, <2>a, <2>1, ThenMoves
  <2>5. Noticed(i) /\ watch'.unsure = watch.crossed
    BY <1>1, <1>2, <2>1 DEF r, Noticed, Watch, Message, Firm
  <2> QED
    BY <2>1, <2>3, <2>4, <2>5 DEF Saves, r
<1>6. CASE Validated(i, r)
  <2>1. /\ r.kind = "validate" /\ store' = [problems |-> r.doc] ++ store
        /\ wire' = Overtaken(i) /\ watch' = [watch EXCEPT !.disordered = r.late]
    BY <1>6 DEF Validated, set
  <2>a. Left(i, Overtaken(i), Before(i))
    BY <1>1, <2>1, OvertakenLeft
  <2>2. r.doc \in Diagram
    BY <1>1, <2>1 DEF MessageOK
  <2> HIDE DEF r
  <2>3. /\ StoreTyped /\ SameJob /\ store'.plan = store.plan /\ store'.confirm = store.confirm
        /\ SameCanvas /\ store'.problems = r.doc /\ store'.timer = store.timer
    BY <1>1, <2>1, <2>2 DEF ++, Store, StoreTyped, SameJob, SameCanvas
  <2>4. Moved(i, {}, Before(i))
    BY <1>1, <1>2, <2>a, <2>1, LeftMoves
  <2>5. Noticed(i) /\ watch'.unsure = watch.unsure
    BY <1>1, <1>2, <2>1 DEF r, Noticed, Watch, Message, Firm
  <2> QED
    BY <2>1, <2>3, <2>4, <2>5 DEF Validates, r
<1>7. CASE Loaded(i, r)
  <2> DEFINE none == <<>>
             p == [canvas |-> r.reply, dirty |-> FALSE, problems |-> r.reply, past |-> none,
                   future |-> none]
  <2>1. /\ r.kind = "load" /\ store' = p ++ store
        /\ Sending(Older(Len(wire), Gone(i)), [kind |-> "latest"])
        /\ watch' = [watch EXCEPT !.disordered = FALSE, !.unsure = watch.crossed]
    BY <1>7 DEF Loaded, set
  <2>2. r.reply \in Diagram
    BY <1>1, <2>1 DEF MessageOK
  <2>a. none \in Seq(Diagram) /\ Len(none) = 0
    OBVIOUS
  <2> HIDE DEF r, none
  <2>3. /\ store' \in Store /\ SameJob /\ store'.plan = store.plan
        /\ store'.confirm = store.confirm
        /\ store'.canvas = r.reply /\ ~store'.dirty
        /\ store'.problems = r.reply /\ store'.timer = store.timer
        /\ store'.past = none /\ store'.future = none
    BY <1>1, <2>1, <2>2, <2>a DEF ++, Store, SameJob
  <2>4. StoreTyped
    BY <1>1, <2>3, <2>a DEF StoreTyped
  <2>5. AnswersMove(i, "latest", Len(wire))
    BY <1>1, <1>2, <1>3, <2>1, SendingMoves DEF Kind, Start
  <2>6. watch' \in Watch /\ Firm /\ watch'.crossed = watch.crossed /\ watch'.unsure = watch.crossed
    BY <1>1, <2>1 DEF Watch, Firm
  <2> QED
    BY <2>1, <2>3, <2>4, <2>5, <2>6 DEF Loads, r
<1>8. CASE Latest(i, r)
  <2>1. /\ r.kind = "latest"
        /\ IF r.reply = NoPlan THEN store' = store
           ELSE store' = [plan |-> r.reply, stale |-> FALSE] ++ store
        /\ wire' = Gone(i)
        /\ watch' = [watch EXCEPT !.behind = @ \/ r.reply \notin {NoPlan, server.planned}]
    BY <1>8 DEF Latest, set
  <2>2. r.reply \in Plan \cup {NoPlan}
    BY <1>1, <2>1 DEF MessageOK
  <2> HIDE DEF r
  <2>3. /\ StoreTyped /\ SameJob /\ SameCanvas /\ SameChecks /\ store'.confirm = store.confirm
        /\ store'.plan = IF r.reply = NoPlan THEN store.plan ELSE r.reply
    <3>1. CASE r.reply = NoPlan
      BY <2>1, <3>1, Unchanged
    <3>2. CASE r.reply # NoPlan
      <4> DEFINE new == r.reply
      <4>1. store' = [plan |-> new, stale |-> FALSE] ++ store /\ new \in Plan \cup {NoPlan}
        BY <2>1, <2>2, <3>2
      <4> HIDE DEF new
      <4>2. /\ StoreTyped /\ SameJob /\ SameCanvas /\ SameChecks
            /\ store'.confirm = store.confirm /\ store'.plan = new
        BY <1>1, <4>1 DEF ++, Store, StoreTyped, SameJob, SameCanvas, SameChecks
      <4> QED
        BY <3>2, <4>2 DEF new
    <3> QED
      BY <3>1, <3>2
  <2>4. Moved(i, {}, 0)
    BY <1>1, <1>4, <2>1, LeftMoves
  <2>5. /\ watch' \in Watch /\ watch'.blind = watch.blind /\ watch'.hasty = watch.hasty
        /\ SameMarks /\ SameOrder
        /\ watch'.behind <=> watch.behind \/ r.reply \notin {NoPlan, server.planned}
    BY <1>1, <2>1 DEF Watch, SameMarks, SameOrder
  <2> QED
    BY <2>1, <2>3, <2>4, <2>5 DEF Learns, r
<1>9. CASE Started(i, r)
  <2>1. /\ r.kind \in Start
        /\ IF r.reply = Unset THEN store' = store
           ELSE store' = [job |-> [id |-> r.reply.job, status |-> "running"],
                          streams |-> store.streams \cup {r.reply.job}] ++ store
        /\ wire' = Gone(i) /\ watch' = watch
    BY <1>9 DEF Started, set
  <2>2. r.reply = Unset \/ r.reply \in [job : DOMAIN server.jobs]
    BY <1>1, <2>1 DEF MessageOK
  <2>3. DOMAIN server.jobs \subseteq Nat
    BY <1>1 DEF Server
  <2> HIDE DEF r
  <2>4. CASE r.reply = Unset
    <3>1. /\ StoreTyped /\ SameJob /\ SameCanvas /\ SameChecks
          /\ store'.plan = store.plan /\ store'.confirm = store.confirm
      BY <2>1, <2>4, Unchanged
    <3>2. Moved(i, {}, 0)
      BY <1>1, <1>4, <2>1, LeftMoves
    <3> QED
      BY <2>1, <2>4, <3>1, <3>2 DEF Followed, r
  <2>5. CASE r.reply # Unset
    <3>1. r.reply.job \in Nat
      BY <2>2, <2>3, <2>5
    <3> DEFINE job == [id |-> r.reply.job, status |-> "running"]
               streams == store.streams \cup {r.reply.job}
    <3>2. /\ job \in [id : Nat, status : Status] /\ streams \in SUBSET Nat
          /\ store' = [job |-> job, streams |-> streams] ++ store
      BY <1>1, <2>1, <2>5, <3>1 DEF Store, Status
    <3> HIDE DEF job, streams
    <3>4. /\ StoreTyped /\ SameCanvas /\ SameChecks
          /\ store'.plan = store.plan /\ store'.confirm = store.confirm
          /\ store'.job = job /\ store'.streams = streams
      BY <1>1, <3>2 DEF ++, Store, StoreTyped, SameCanvas, SameChecks
    <3>3. Moved(i, {}, 0)
      BY <1>1, <1>4, <2>1, LeftMoves
    <3> QED
      BY <2>1, <2>5, <3>3, <3>4 DEF Followed, r, job, streams
  <2> QED
    BY <2>4, <2>5
<1> QED
  BY <1>5, <1>6, <1>7, <1>8, <1>9

-----------------------------------------------------------------------------
(* The job that ended.                                                     *)
JobOf(id) == server.jobs[id]
Applied(id) == JobOf(id).kind = "apply" /\ JobOf(id).status = "succeeded"

(* The end of a job, told by its stream or by the answer to message i.     *)
Finishes(id, i) ==
  /\ id \in DOMAIN server.jobs
  /\ \/ i = Nobody /\ id \in store.streams \ Running
     \/ /\ i \in DOMAIN wire /\ wire[i].kind = "job" /\ wire[i].at = "in"
        /\ wire[i].about.job = id /\ wire[i].reply.status # "running"
  /\ server' = server /\ watch' \in Watch /\ Firm /\ SameOrder /\ watch'.unsure = watch.unsure
  /\ watch'.crossed = IF Applied(id) THEN Crossed ELSE watch.crossed
  /\ StoreTyped /\ SameCanvas /\ SameChecks
  /\ store'.job = [id |-> id, status |-> JobOf(id).status]
  /\ store'.streams = store.streams \ {id}
  /\ \/ JobOf(id).kind = "apply" /\ store'.plan = NoPlan /\ store'.confirm = store.confirm
     \/ Plans(id) /\ store'.plan = PlanOf(id) /\ store'.confirm \in {store.confirm, TRUE}
     \/ /\ JobOf(id).kind # "apply" /\ ~Plans(id)
        /\ store'.plan = store.plan /\ store'.confirm = store.confirm
  /\ Applied(id) => AnswersMove(i, "load", 0)
  /\ ~Applied(id) => Moved(i, {}, 0)

(* What onDone does with the end of a job.                                 *)
LEMMA DoneFinishes ==
  ASSUME Types, NEW id \in DOMAIN server.jobs, NEW i, NEW rest, Done(id, rest), server' = server,
         \/ i = Nobody /\ rest = wire /\ id \in store.streams \ Running
         \/ /\ i \in DOMAIN wire /\ rest = Gone(i) /\ wire[i].kind = "job" /\ wire[i].at = "in"
            /\ wire[i].about.job = id /\ wire[i].reply.status # "running"
  PROVE  Finishes(id, i)
<1> DEFINE job == server.jobs[id]
           new == [id |-> id, status |-> job.status]
           left == store.streams \ {id}
           ended == [job |-> new, streams |-> left]
           plan == PlanOf(id)
<1>1. /\ store \in Store /\ Len(store.past) + Len(store.future) <= HistoryLimit
      /\ wire \in Seq(Message)
      /\ server.jobs \in Seq([kind : Start, doc : Diagram, status : Status])
  BY DEF Types, Server
<1>2. job \in [kind : Start, doc : Diagram, status : Status] /\ id \in Nat
  <2>1. server.jobs[id] \in [kind : Start, doc : Diagram, status : Status]
    BY <1>1, ElementTyped
  <2>2. id \in Nat
    BY <1>1
  <2> QED
    BY <2>1, <2>2
<1>3. /\ new \in [id : Nat, status : Status] /\ left \in SUBSET Nat /\ plan \in Plan
      /\ job.kind \in Start
  BY <1>1, <1>2 DEF PlanOf, Plan, Store
<1>4. Ended(id) = ended
  BY DEF Ended
<1>5. /\ watch' \in Watch /\ Firm /\ SameOrder /\ watch'.unsure = watch.unsure
      /\ watch'.crossed = IF Applied(id) THEN Crossed ELSE watch.crossed
  <2>1. watch \in Watch /\ Crossed \in BOOLEAN
    BY DEF Types, Crossed, ApplyRuns, On
  <2>2. watch' = IF Applied(id) THEN [watch EXCEPT !.crossed = Crossed] ELSE watch
    BY DEF Done, Applied, JobOf
  <2> QED
    BY <2>1, <2>2 DEF Watch, Firm, SameOrder
<1>6. /\ Applied(id) => Sending(rest, [kind |-> "load"])
      /\ ~Applied(id) => wire' = rest
  BY DEF Done, Applied, JobOf
<1>7. /\ Applied(id) => AnswersMove(i, "load", 0)
      /\ ~Applied(id) => Moved(i, {}, 0)
  <2>1. CASE i = Nobody /\ rest = wire
    <3>1. ASSUME Applied(id) PROVE AnswersMove(i, "load", 0)
      <4> DEFINE m == Request([kind |-> "load"])
      <4>1. wire' = Append(wire, m)
        BY <1>6, <2>1, <3>1 DEF Sending
      <4>2. m \in Message /\ Leave({m}, "load")
        BY KindLeaves DEF Kind, Start
      <4> HIDE DEF m
      <4>3. Moved(Nobody, {m}, 0)
        BY <1>1, <4>1, <4>2, AppendMoves
      <4> QED
        BY <2>1, <4>2, <4>3 DEF AnswersMove
    <3>2. ASSUME ~Applied(id) PROVE Moved(i, {}, 0)
      BY <1>1, <1>6, <2>1, <3>2, StillMoves
    <3> QED
      BY <3>1, <3>2
  <2>2. CASE i \in DOMAIN wire /\ rest = Gone(i)
    <3>1. Left(i, rest, 0)
      BY <1>1, <2>2, GoneLeft
    <3>2. ASSUME Applied(id) PROVE AnswersMove(i, "load", 0)
      BY <1>1, <1>6, <2>2, <3>1, <3>2, SendingMoves DEF Kind, Start
    <3>3. ASSUME ~Applied(id) PROVE Moved(i, {}, 0)
      BY <1>1, <1>6, <2>2, <3>1, <3>3, LeftMoves
    <3> QED
      BY <3>2, <3>3
  <2> QED
    BY <2>1, <2>2
<1>8. \/ job.kind = "apply" /\ store' = NoPlanShown ++ ended ++ store
      \/ /\ Plans(id) /\ store' = [plan |-> plan, stale |-> FALSE, confirm |-> TRUE] ++ ended ++ store
      \/ /\ Plans(id) /\ store' = [plan |-> plan, stale |-> FALSE] ++ ended ++ store
      \/ job.kind # "apply" /\ ~Plans(id) /\ store' = ended ++ store
  BY <1>3, <1>4 DEF Done, set, Plans, Start
<1> HIDE DEF new, left, plan
<1>9. /\ StoreTyped /\ SameCanvas /\ SameChecks
      /\ store'.job = new /\ store'.streams = left
      /\ \/ job.kind = "apply" /\ store'.plan = NoPlan /\ store'.confirm = store.confirm
         \/ Plans(id) /\ store'.plan = plan /\ store'.confirm \in {store.confirm, TRUE}
         \/ /\ job.kind # "apply" /\ ~Plans(id)
            /\ store'.plan = store.plan /\ store'.confirm = store.confirm
  <2>1. CASE job.kind = "apply" /\ store' = NoPlanShown ++ ended ++ store
    BY <1>1, <1>3, <2>1 DEF ++, NoPlanShown, Store, StoreTyped, SameCanvas, SameChecks
  <2>2. CASE Plans(id) /\ store' = [plan |-> plan, stale |-> FALSE, confirm |-> TRUE] ++ ended ++ store
    BY <1>1, <1>3, <2>2 DEF ++, Store, StoreTyped, SameCanvas, SameChecks
  <2>3. CASE Plans(id) /\ store' = [plan |-> plan, stale |-> FALSE] ++ ended ++ store
    BY <1>1, <1>3, <2>3 DEF ++, Store, StoreTyped, SameCanvas, SameChecks
  <2>4. CASE job.kind # "apply" /\ ~Plans(id) /\ store' = ended ++ store
    BY <1>1, <1>3, <2>4 DEF ++, Store, StoreTyped, SameCanvas, SameChecks
  <2> QED
    BY <1>8, <2>1, <2>2, <2>3, <2>4
<1> QED
  BY <1>5, <1>7, <1>9 DEF Finishes, JobOf, new, left, plan

(* The canvas no longer follows a job that goes on.                        *)
GoesBlind(i) ==
  /\ wire[i].kind = "job" /\ server' = server /\ store' = store /\ watch' \in Watch
  /\ watch'.blind /\ watch'.hasty = watch.hasty /\ SameMarks /\ SameOrder
  /\ Moved(i, {}, 0)

(* The answer about a job ends it, or nobody follows the job any more.     *)
LEMMA AskedEffect ==
  ASSUME Types, NEW i \in DOMAIN wire, server' = server, wire[i].at = "in", Asked(i, wire[i])
  PROVE  GoesBlind(i) \/ Finishes(wire[i].about.job, i)
<1>1. /\ wire[i].kind = "job" /\ MessageOK(wire[i], DOMAIN server.jobs)
      /\ wire \in Seq(Message) /\ watch \in Watch
  BY DEF Asked, Types
<1>2. CASE wire[i].reply.status = "running"
  <2>1. store' = store /\ wire' = Gone(i) /\ watch' = [watch EXCEPT !.blind = TRUE]
    BY <1>2 DEF Asked
  <2>2. Moved(i, {}, 0)
    BY <1>1, <2>1, GoneLeft, LeftMoves
  <2>3. /\ watch' \in Watch /\ watch'.blind /\ watch'.hasty = watch.hasty
        /\ SameMarks /\ SameOrder
    BY <1>1, <2>1 DEF Watch, SameMarks, SameOrder
  <2> QED
    BY <1>1, <2>1, <2>2, <2>3 DEF GoesBlind
<1>3. CASE wire[i].reply.status # "running"
  <2>1. Done(wire[i].about.job, Gone(i)) /\ wire[i].about.job \in DOMAIN server.jobs
    BY <1>1, <1>3 DEF Asked, MessageOK
  <2> QED
    BY <1>1, <1>3, <2>1, DoneFinishes
<1> QED
  BY <1>2, <1>3

(* Connections that break.                                                 *)
Loses(blind, disordered) ==
  /\ watch' \in Watch /\ (watch'.blind <=> watch.blind \/ blind)
  /\ watch'.behind = watch.behind /\ watch'.hasty = watch.hasty /\ SameMarks
  /\ (watch'.disordered <=> watch.disordered \/ disordered)
  /\ server' = server

LosesRequest(i) ==
  /\ Loses(wire[i].kind \in Start \cup {"job"}, Checks(wire[i])) /\ store' = store
  /\ wire[i].then = "none" => Moved(i, {}, Before(i))
  /\ wire[i].then # "none" => AnswersMove(i, wire[i].then, Before(i))

LosesStream(id) ==
  /\ id \in store.streams /\ Loses(FALSE, FALSE)
  /\ StoreTyped /\ SameCanvas /\ SameChecks
  /\ store'.job = store.job /\ store'.streams = store.streams \ {id}
  /\ store'.plan = store.plan /\ store'.confirm = store.confirm
  /\ \E m : /\ Moved(Nobody, {m}, 0) /\ m \in Message /\ MessageOK(m, DOMAIN server.jobs)
            /\ m.kind = "job" /\ m.at = "out" /\ m.then = "none" /\ m.about = [job |-> id]

(* What is noted of a connection that breaks.                              *)
LEMMA BreaksLoses ==
  ASSUME watch \in Watch, NEW blind \in BOOLEAN, NEW disordered \in BOOLEAN,
         Breaks(blind, disordered)
  PROVE  Loses(blind, disordered)
<1> DEFINE b == watch.blind \/ blind
           d == watch.disordered \/ disordered
           n == watch.lost + 1
<1>1. /\ b \in BOOLEAN /\ d \in BOOLEAN /\ n \in Nat
      /\ (b <=> watch.blind \/ blind) /\ (d <=> watch.disordered \/ disordered)
  BY DEF Watch
<1>2. watch' = [watch EXCEPT !.lost = n, !.blind = b, !.disordered = d] /\ server' = server
  BY DEF Breaks
<1> HIDE DEF b, d, n
<1>3. /\ watch' \in Watch /\ watch'.blind = b /\ watch'.disordered = d
      /\ watch'.behind = watch.behind /\ watch'.hasty = watch.hasty /\ SameMarks
  BY <1>1, <1>2 DEF Watch, SameMarks
<1> QED
  BY <1>1, <1>2, <1>3 DEF Loses

(* A request that is lost is gone, and what follows a save goes on.        *)
LEMMA RequestBreaksEffect ==
  ASSUME Types, RequestBreaks PROVE \E i \in DOMAIN wire : LosesRequest(i)
<1> DEFINE checks(i) == wire[i].kind \in {"save", "validate"}
<1>1. PICK i \in DOMAIN wire :
        /\ Then(wire[i], IF checks(i) THEN Overtaken(i) ELSE Gone(i), store.dirty)
        /\ Breaks(wire[i].kind \in Start \cup {"job"}, checks(i) /\ ~wire[i].late)
  BY DEF RequestBreaks
<1>2. store' = store /\ wire \in Seq(Message) /\ watch \in Watch
  BY DEF RequestBreaks, Types
<1>3. wire[i] \in Message
  BY <1>2, ElementTyped
<1>4. Left(i, IF checks(i) THEN Overtaken(i) ELSE Gone(i), Before(i))
  <2>1. CASE checks(i)
    BY <1>2, <2>1, OvertakenLeft
  <2>2. CASE ~checks(i)
    BY <1>2, <2>2, GoneLeft DEF Before, Checks
  <2> QED
    BY <2>1, <2>2
<1>5. /\ wire[i].then = "none" => Moved(i, {}, Before(i))
      /\ wire[i].then # "none" => AnswersMove(i, wire[i].then, Before(i))
  BY <1>1, <1>2, <1>3, <1>4, ThenMoves
<1>6. Loses(wire[i].kind \in Start \cup {"job"}, Checks(wire[i]))
  <2> DEFINE blind == wire[i].kind \in Start \cup {"job"}
             disordered == Checks(wire[i])
  <2>1. blind \in BOOLEAN /\ disordered \in BOOLEAN /\ Breaks(blind, disordered)
    BY <1>1 DEF Checks
  <2> HIDE DEF blind, disordered
  <2>2. Loses(blind, disordered)
    BY <1>2, <2>1, BreaksLoses
  <2> QED
    BY <2>2 DEF blind, disordered
<1> QED
  BY <1>2, <1>5, <1>6 DEF LosesRequest

(* A stream that breaks is replaced by a request about its job.            *)
LEMMA StreamBreaksEffect ==
  ASSUME Types, StreamBreaks PROVE \E id : LosesStream(id)
<1>1. PICK id \in store.streams :
        /\ set([streams |-> store.streams \ {id}])
        /\ Sending(wire, [kind |-> "job", about |-> [job |-> id]])
        /\ Breaks(FALSE, FALSE)
  BY DEF StreamBreaks
<1> DEFINE m == Request([kind |-> "job", about |-> [job |-> id]])
           left == store.streams \ {id}
<1>2. /\ store \in Store /\ Len(store.past) + Len(store.future) <= HistoryLimit
      /\ wire \in Seq(Message) /\ watch \in Watch /\ id \in DOMAIN server.jobs /\ id \in Nat
      /\ left \in SUBSET Nat
  BY <1>1 DEF Types, Store
<1>3. m \in Message /\ m.kind = "job" /\ m.at = "out" /\ m.then = "none" /\ m.about = [job |-> id]
  BY <1>2, RequestTypes, RequestFields
<1>4. wire' = Append(wire, m) /\ store' = [streams |-> left] ++ store
  BY <1>1 DEF Sending, set
<1> HIDE DEF m, left
<1>5. Moved(Nobody, {m}, 0)
  BY <1>2, <1>3, <1>4, AppendMoves
<1>6. MessageOK(m, DOMAIN server.jobs)
  BY <1>2, <1>3 DEF MessageOK, Start
<1>7. /\ StoreTyped /\ SameCanvas /\ SameChecks
      /\ store'.job = store.job /\ store'.streams = left
      /\ store'.plan = store.plan /\ store'.confirm = store.confirm
  BY <1>2, <1>4 DEF ++, Store, StoreTyped, SameCanvas, SameChecks
<1>8. Loses(FALSE, FALSE)
  BY <1>1, <1>2, BreaksLoses
<1> QED
  BY <1>1, <1>3, <1>5, <1>6, <1>7, <1>8 DEF LosesStream, left

(* One of the answers.                                                     *)
AnswerEffect(i) ==
  \/ wire[i].at = "in" /\ (Saves(i) \/ Validates(i) \/ Loads(i) \/ Learns(i) \/ Followed(i))
  \/ GoesBlind(i)

(* Every step of the canvas and its server does one of these.              *)
LEMMA Effects ==
  ASSUME Types, Next
  PROVE  \/ Draws \/ Dialogs
         \/ \E m : Asks(m)
         \/ \E i \in DOMAIN wire : Puts(i) \/ Tells(i) \/ Starts(i)
         \/ \E j \in Running : Ends(j)
         \/ \E i \in DOMAIN wire : AnswerEffect(i)
         \/ \E id, i : Finishes(id, i)
         \/ \E i \in DOMAIN wire : LosesRequest(i)
         \/ \E id : LosesStream(id)
<1>1. CASE Edit \/ undo \/ redo \/ loadDocument \/ newDiagram
  BY <1>1, EditDraws, undoDraws, redoDraws, loadDocumentDraws, newDiagramDraws
<1>2. CASE clearPlan \/ openDialog \/ closeDialog
  BY <1>2, DialogActions
<1>3. CASE save \/ runPlan \/ runDestroyPlan \/ runApply \/ validateSoon
  BY <1>3, AskActions
<1>4. CASE Handle
  BY <1>4, HandleEffect
<1>5. CASE JobEnds
  BY <1>5, JobEndsEffect
<1>6. CASE Answer
  <2>1. PICK i \in DOMAIN wire :
          /\ wire[i].at = "in"
          /\ \/ Saved(i, wire[i]) \/ Validated(i, wire[i]) \/ Loaded(i, wire[i])
             \/ Latest(i, wire[i]) \/ Started(i, wire[i]) \/ Asked(i, wire[i])
    BY <1>6 DEF Answer
  <2>2. server' = server
    BY <1>6 DEF Answer
  <2>3. CASE Asked(i, wire[i])
    BY <2>1, <2>2, <2>3, AskedEffect DEF AnswerEffect
  <2>4. CASE ~Asked(i, wire[i])
    BY <2>1, <2>2, <2>4, AnswerParts DEF AnswerEffect
  <2> QED
    BY <2>3, <2>4
<1>7. CASE StreamDone
  <2>1. PICK id \in store.streams \ Running : Done(id, wire)
    BY <1>7 DEF StreamDone
  <2>2. server' = server /\ id \in DOMAIN server.jobs
    BY <1>7, <2>1 DEF StreamDone, Types
  <2>3. Finishes(id, Nobody)
    BY <2>1, <2>2, DoneFinishes
  <2> QED
    BY <2>3
<1>8. CASE RequestBreaks
  BY <1>8, RequestBreaksEffect
<1>9. CASE StreamBreaks
  BY <1>9, StreamBreaksEffect
<1> QED
  BY <1>1, <1>2, <1>3, <1>4, <1>5, <1>6, <1>7, <1>8, <1>9 DEF Next, UserActs

-----------------------------------------------------------------------------
(* The wire still carries messages after an answer.                        *)
LEMMA MovesTyped ==
  ASSUME Types, NEW i, NEW kind, NEW n, Moved(i, {}, n) \/ AnswersMove(i, kind, n)
  PROVE  /\ wire' \in Seq(Message)
         /\ \A k \in DOMAIN wire' : MessageOK(wire'[k], DOMAIN server.jobs)
<1>1. AnswersMove(i, kind, n)
  BY NothingLeaves
<1>2. PICK news : Moved(i, news, n) /\ Leave(news, kind)
  BY <1>1 DEF AnswersMove
<1>3. \A m \in news : MessageOK(m, DOMAIN server.jobs)
  BY <1>2 DEF Leave
<1> QED
  BY <1>2, <1>3, MovedOK DEF Types, Moved

(* Types after a step that leaves the server alone,                        *)
LEMMA ServerStays ==
  ASSUME Types, server' = server, StoreTyped, watch' \in Watch, wire' \in Seq(Message),
         \A k \in DOMAIN wire' : MessageOK(wire'[k], DOMAIN server.jobs),
         store'.streams \subseteq DOMAIN server.jobs,
         store'.job # NoJob => store'.job.id \in DOMAIN server.jobs
  PROVE  Types'
<1>1. Running' = Running
  BY DEF Running
<1> QED
  BY <1>1 DEF Types, StoreTyped

(* and after one that leaves the canvas alone.                             *)
LEMMA StoreStays ==
  ASSUME Types, store' = store, watch' \in Watch, server' \in Server, wire' \in Seq(Message),
         DOMAIN server.jobs \subseteq DOMAIN server'.jobs,
         \A k \in DOMAIN wire' : MessageOK(wire'[k], DOMAIN server'.jobs),
         \A j, k \in Running' : j = k
  PROVE  Types'
  BY DEF Types

(* What stays on the wire while one message is answered by the server.     *)
LEMMA RepliedTyped ==
  ASSUME Types, NEW i \in DOMAIN wire, NEW x, Replied(i, x), NEW jobs,
         DOMAIN server.jobs \subseteq jobs, MessageOK(wire'[i], jobs)
  PROVE  wire' \in Seq(Message) /\ \A k \in DOMAIN wire' : MessageOK(wire'[k], jobs)
<1>1. ASSUME NEW p, MessageOK(p, DOMAIN server.jobs) PROVE MessageOK(p, jobs)
  BY <1>1 DEF MessageOK
<1>2. ASSUME NEW k \in DOMAIN wire PROVE MessageOK(wire'[k], jobs)
  <2>1. MessageOK(wire[k], DOMAIN server.jobs)
    BY DEF Types
  <2>2. CASE k # i
    BY <1>1, <2>1, <2>2 DEF Replied
  <2> QED
    BY <2>2
<1> QED
  BY <1>2 DEF Replied

(* Each step keeps the types.                                              *)
LEMMA TypesStep ==
  ASSUME Types, [Next]_vars PROVE Types'
<1> USE CanvasAssumption
<1>0. /\ store \in Store /\ server \in Server /\ wire \in Seq(Message) /\ watch \in Watch
      /\ \A i \in DOMAIN wire : MessageOK(wire[i], DOMAIN server.jobs)
      /\ store.streams \subseteq DOMAIN server.jobs
      /\ store.job # NoJob => store.job.id \in DOMAIN server.jobs
      /\ \A j, k \in Running : j = k
  BY DEF Types
<1>1. CASE Draws
  <2>1. Moved(Nobody, {}, 0) \/ Moved(Nobody, {}, Nobody)
    BY <1>1 DEF Draws
  <2>2. wire' \in Seq(Message) /\ \A k \in DOMAIN wire' : MessageOK(wire'[k], DOMAIN server.jobs)
    BY <2>1, MovesTyped
  <2> QED
    BY <1>0, <1>1, <2>2, ServerStays DEF Draws, SameJob, UserActed
<1>2. CASE Dialogs
  BY <1>0, <1>2, ServerStays DEF Dialogs, SameJob, UserActed
<1>3. CASE \E m : Asks(m)
  <2>1. PICK m : Asks(m)
    BY <1>3
  <2>2. m \in Message /\ MessageOK(m, DOMAIN server.jobs) /\ wire' = Append(wire, m)
    BY <2>1 DEF Asks
  <2>3. Moved(Nobody, {m}, 0)
    BY <1>0, <2>2, AppendMoves
  <2>4. wire' \in Seq(Message) /\ \A k \in DOMAIN wire' : MessageOK(wire'[k], DOMAIN server.jobs)
    BY <1>0, <2>2, <2>3, MovedOK DEF Moved
  <2>5. watch' \in Watch
    BY <1>0, <2>1 DEF Asks, AsksToSave, AsksToPlan, AsksToApply, AsksToValidate, UserActed
  <2> QED
    BY <1>0, <2>1, <2>4, <2>5, ServerStays DEF Asks, SameJob
<1>4. CASE \E i \in DOMAIN wire : Puts(i)
  <2>1. PICK i \in DOMAIN wire : Puts(i)
    BY <1>4
  <2>2. MessageOK(wire'[i], DOMAIN server.jobs)
    BY <1>0, <2>1 DEF Puts, Replied, MessageOK, Start
  <2>3. wire' \in Seq(Message) /\ \A k \in DOMAIN wire' : MessageOK(wire'[k], DOMAIN server.jobs)
    BY <2>1, <2>2, RepliedTyped DEF Puts
  <2>4. Running' = Running
    BY <2>1 DEF Puts, Running
  <2> QED
    BY <1>0, <2>1, <2>3, <2>4, StoreStays DEF Puts
<1>5. CASE \E i \in DOMAIN wire : Tells(i)
  <2>1. PICK i \in DOMAIN wire : Tells(i)
    BY <1>5
  <2>2. MessageOK(wire[i], DOMAIN server.jobs) /\ server.file \in Diagram
        /\ server.planned \in Plan \cup {NoPlan}
    BY <1>0 DEF Server
  <2>3. CASE wire[i].kind = "job" /\ Replied(i, [status |-> server.jobs[wire[i].about.job].status])
    <3> DEFINE x == [status |-> server.jobs[wire[i].about.job].status]
    <3>1. server.jobs[wire[i].about.job] \in [kind : Start, doc : Diagram, status : Status]
      <4>1. wire[i].about.job \in DOMAIN server.jobs
        BY <2>2, <2>3 DEF MessageOK
      <4>2. server.jobs \in Seq([kind : Start, doc : Diagram, status : Status])
        BY <1>0 DEF Server
      <4> QED
        BY <4>1, <4>2, ElementTyped
    <3>2. x \in [status : Status]
      BY <3>1
    <3> HIDE DEF x
    <3>3. MessageOK(wire'[i], DOMAIN server.jobs)
      BY <2>2, <2>3, <3>2 DEF Replied, MessageOK, Start, x
    <3>4. wire' \in Seq(Message) /\ \A k \in DOMAIN wire' : MessageOK(wire'[k], DOMAIN server.jobs)
      BY <2>3, <3>3, RepliedTyped
    <3> QED
      BY <1>0, <2>1, <3>4, Unchanged, ServerStays DEF Tells
  <2>4. CASE \E x : /\ Replied(i, x)
                    /\ \/ wire[i].kind = "load" /\ x \in Diagram
                       \/ wire[i].kind = "latest" /\ x \in Plan \cup {NoPlan}
                       \/ wire[i].kind \in Start /\ x = Unset
    <3>1. PICK x : /\ Replied(i, x)
                    /\ \/ wire[i].kind = "load" /\ x \in Diagram
                       \/ wire[i].kind = "latest" /\ x \in Plan \cup {NoPlan}
                       \/ wire[i].kind \in Start /\ x = Unset
      BY <2>4
    <3>2. MessageOK(wire'[i], DOMAIN server.jobs)
      BY <2>2, <3>1 DEF Replied, MessageOK, Start
    <3>3. wire' \in Seq(Message) /\ \A k \in DOMAIN wire' : MessageOK(wire'[k], DOMAIN server.jobs)
      BY <3>1, <3>2, RepliedTyped
    <3> QED
      BY <1>0, <2>1, <3>3, Unchanged, ServerStays DEF Tells
  <2> QED
    BY <2>1, <2>2, <2>3, <2>4 DEF Tells
<1>6. CASE \E i \in DOMAIN wire : Starts(i)
  <2>1. PICK i \in DOMAIN wire : Starts(i)
    BY <1>6
  <2> DEFINE n == Len(server.jobs) + 1
  <2>2. /\ n \in DOMAIN server'.jobs /\ DOMAIN server.jobs \subseteq DOMAIN server'.jobs
        /\ wire[i].kind \in Start /\ Replied(i, [job |-> n])
    BY <2>1 DEF Starts
  <2>3. [job |-> n] \in [job : DOMAIN server'.jobs]
    BY <2>2
  <2> HIDE DEF n
  <2>4. MessageOK(wire'[i], DOMAIN server'.jobs)
    BY <1>0, <2>2, <2>3 DEF Replied, MessageOK, Start
  <2>5. wire' \in Seq(Message) /\ \A k \in DOMAIN wire' : MessageOK(wire'[k], DOMAIN server'.jobs)
    BY <2>2, <2>4, RepliedTyped
  <2>6. Running' \subseteq {n}
    <3>1. Running = {}
      BY <2>1 DEF Starts, Accepts
    <3>2. ASSUME NEW j \in DOMAIN server.jobs PROVE server'.jobs[j].status # "running"
      BY <2>1, <3>1 DEF Starts, Running
    <3>3. DOMAIN server'.jobs = DOMAIN server.jobs \cup {n}
      BY <2>1 DEF Starts, n
    <3> QED
      BY <3>2, <3>3 DEF Running
  <2> QED
    BY <1>0, <2>1, <2>2, <2>5, <2>6, StoreStays DEF Starts
<1>7. CASE \E j \in Running : Ends(j)
  <2>1. PICK j \in Running : Ends(j)
    BY <1>7
  <2>2. Running' \subseteq Running
    BY <2>1 DEF Ends, Running
  <2> QED
    BY <1>0, <2>1, <2>2, StoreStays DEF Ends
<1>8. CASE \E i \in DOMAIN wire : AnswerEffect(i)
  <2>1. PICK i \in DOMAIN wire : AnswerEffect(i)
    BY <1>8
  <2>2. CASE Saves(i) \/ Validates(i) \/ Loads(i) \/ Learns(i)
    <3>1. \E kind, n : Moved(i, {}, n) \/ AnswersMove(i, kind, n)
      BY <2>2 DEF Saves, Validates, Loads, Learns
    <3>2. wire' \in Seq(Message) /\ \A k \in DOMAIN wire' : MessageOK(wire'[k], DOMAIN server.jobs)
      BY <3>1, MovesTyped
    <3> QED
      BY <1>0, <2>2, <3>2, ServerStays DEF Saves, Validates, Loads, Learns, Noticed, SameJob
  <2>3. CASE wire[i].at = "in" /\ Followed(i)
    <3>1. wire' \in Seq(Message) /\ \A k \in DOMAIN wire' : MessageOK(wire'[k], DOMAIN server.jobs)
      BY <2>3, MovesTyped DEF Followed
    <3>2. wire[i].reply # Unset => wire[i].reply.job \in DOMAIN server.jobs
      BY <1>0, <2>3 DEF Followed, MessageOK
    <3>3. /\ store'.streams \subseteq DOMAIN server.jobs
          /\ store'.job # NoJob => store'.job.id \in DOMAIN server.jobs
      BY <1>0, <2>3, <3>2 DEF Followed, SameJob
    <3>4. StoreTyped /\ server' = server /\ watch' = watch
      BY <2>3 DEF Followed
    <3> QED
      BY <1>0, <3>1, <3>3, <3>4, ServerStays
  <2>4. CASE GoesBlind(i)
    <3>1. wire' \in Seq(Message) /\ \A k \in DOMAIN wire' : MessageOK(wire'[k], DOMAIN server.jobs)
      BY <2>4, MovesTyped DEF GoesBlind
    <3> QED
      BY <1>0, <2>4, <3>1, Unchanged, ServerStays DEF GoesBlind
  <2> QED
    BY <2>1, <2>2, <2>3, <2>4 DEF AnswerEffect
<1>9. CASE \E id, i : Finishes(id, i)
  <2>1. PICK id, i : Finishes(id, i)
    BY <1>9
  <2>2. wire' \in Seq(Message) /\ \A k \in DOMAIN wire' : MessageOK(wire'[k], DOMAIN server.jobs)
    BY <2>1, MovesTyped DEF Finishes
  <2>3. /\ store'.streams \subseteq DOMAIN server.jobs /\ store'.job.id \in DOMAIN server.jobs
    BY <1>0, <2>1 DEF Finishes
  <2> QED
    BY <1>0, <2>1, <2>2, <2>3, ServerStays DEF Finishes
<1>10. CASE \E i \in DOMAIN wire : LosesRequest(i)
  <2>1. PICK i \in DOMAIN wire : LosesRequest(i)
    BY <1>10
  <2>2. wire' \in Seq(Message) /\ \A k \in DOMAIN wire' : MessageOK(wire'[k], DOMAIN server.jobs)
    BY <2>1, MovesTyped DEF LosesRequest
  <2> QED
    BY <1>0, <2>1, <2>2, Unchanged, ServerStays DEF LosesRequest, Loses
<1>11. CASE \E id : LosesStream(id)
  <2>1. PICK id : LosesStream(id)
    BY <1>11
  <2>2. PICK m : Moved(Nobody, {m}, 0) /\ m \in Message /\ MessageOK(m, DOMAIN server.jobs)
    BY <2>1 DEF LosesStream
  <2>3. wire' \in Seq(Message) /\ \A k \in DOMAIN wire' : MessageOK(wire'[k], DOMAIN server.jobs)
    <3>1. \A p \in {m} : MessageOK(p, DOMAIN server.jobs)
      BY <2>2
    <3>2. wire' \in Seq(Message)
      BY <2>2 DEF Moved
    <3> QED
      BY <1>0, <2>2, <3>1, <3>2, MovedOK
  <2> QED
    BY <1>0, <2>1, <2>3, ServerStays DEF LosesStream, Loses
<1>12. CASE UNCHANGED vars
  <2>1. store' = store /\ server' = server /\ wire' = wire /\ watch' = watch
    BY <1>12 DEF vars
  <2> QED
    BY <1>0, <2>1, Unchanged, ServerStays
<1> QED
  BY <1>1, <1>2, <1>3, <1>4, <1>5, <1>6, <1>7, <1>8, <1>9, <1>10, <1>11, <1>12, Effects

(* They hold when the tab has been opened.                                 *)
LEMMA TypesInit ==
  ASSUME Init PROVE Types
<1> USE CanvasAssumption
<1> DEFINE none == <<>>
           r == Request([kind |-> "latest"])
<1>1. /\ none \in Seq(Diagram) /\ Len(none) = 0
      /\ none \in Seq([kind : Start, doc : Diagram, status : Status]) /\ DOMAIN none = {}
  OBVIOUS
<1>2. /\ First \in Diagram /\ HistoryLimit \in Nat
      /\ \A p \in [of : Diagram \ Broken, destroy : BOOLEAN] : p \in Plan
  BY DEF CanvasAssumption, Plan
<1> HIDE DEF none
<1>3. store = [canvas |-> First, dirty |-> FALSE, problems |-> First, past |-> none, future |-> none,
              key |-> Unset, timer |-> FALSE, plan |-> NoPlan, stale |-> FALSE,
              confirm |-> FALSE, job |-> NoJob, streams |-> {}]
  BY DEF Init, none
<1>4. store \in Store /\ store.streams = {} /\ store.job = NoJob
      /\ Len(store.past) + Len(store.future) <= HistoryLimit
  BY <1>1, <1>2, <1>3 DEF Store
<1>5. PICK last \in {NoPlan} \cup [of : Diagram \ Broken, destroy : BOOLEAN] :
        server = [file |-> First, planned |-> last, jobs |-> none]
  BY DEF Init, none
<1>6. server \in Server /\ DOMAIN server.jobs = {}
  BY <1>1, <1>2, <1>5 DEF Server
<1>7. watch \in Watch
  BY DEF Init, Watch
<1>8. r \in Message /\ MessageOK(r, DOMAIN server.jobs)
  BY KindLeaves DEF Kind, Start, Leave
<1> HIDE DEF r
<1>9. wire = <<r>>
  BY DEF Init, r
<1>10. wire \in Seq(Message) /\ \A i \in DOMAIN wire : wire[i] = r
  BY <1>8, <1>9
<1> QED
  BY <1>4, <1>6, <1>7, <1>8, <1>10 DEF Types, Running

(* A set whose elements are all the same has one at most.                  *)
LEMMA AtMostOne ==
  ASSUME NEW S, \A j, k \in S : j = k PROVE Cardinality(S) <= 1
<1>1. CASE S = {}
  BY <1>1, FS_EmptySet
<1>2. CASE S # {}
  <2>1. PICK j : S = {j}
    BY <1>2
  <2> QED
    BY <2>1, FS_Singleton
<1> QED
  BY <1>1, <1>2

(* The types make TypeOK.                                                  *)
LEMMA TypesImply ==
  ASSUME Types PROVE TypeOK
<1>1. Cardinality(Running) <= 1
  BY AtMostOne DEF Types
<1> QED
  BY <1>1 DEF Types, TypeOK, Store, Server

(* The types of the canvas, of its server and of what is between them. In  *)
(* particular the history is never longer than HISTORY_LIMIT, with undo    *)
(* and redo (store.ts, commit), one job runs at most, and whatever names a *)
(* job names one that was started.                                         *)
THEOREM CanvasTyped == Spec => []Types
<1> QED
  BY TypesInit, TypesStep, PTL DEF Spec

(* Type correctness: the canvas, the problems and the file are diagrams,   *)
(* the history is bounded, one job runs and the streams are of jobs.       *)
THEOREM CanvasTypeOK == Spec => []TypeOK
  BY CanvasTyped, TypesImply, PTL

-----------------------------------------------------------------------------
(* The problems shown.                                                    *)

(* Nothing more will be said of the problems shown,                        *)
NoChecks == \A i \in DOMAIN wire : ~Checks(wire[i])

(* or the last answer to come is about the canvas.                         *)
LastCheck(i) ==
  /\ i \in DOMAIN wire /\ Checks(wire[i]) /\ wire[i].doc = store.canvas
  /\ \A k \in DOMAIN wire : k > i => ~Checks(wire[k])

(* The problems shown will be those of the canvas, or are, unless the last *)
(* answer was out of order.                                                *)
ProblemsInv ==
  \/ store.timer
  \/ \E i \in DOMAIN wire : LastCheck(i)
  \/ NoChecks /\ (watch.disordered \/ store.problems = store.canvas)

(* How ProblemsInv is shown to hold after a step.                          *)
LEMMA ProblemsThen ==
  ASSUME \/ store'.timer \/ \E i : LastCheck(i)'
         \/ NoChecks' /\ (watch'.disordered \/ store'.problems = store'.canvas)
  PROVE  ProblemsInv'
  BY DEF ProblemsInv, NoChecks, LastCheck

(* A check on the wire that moved was one before, and no older than n.     *)
LEMMA MovedChecks ==
  ASSUME NEW i, NEW news, NEW n, Moved(i, news, n), \A m \in news : ~Checks(m),
         NEW k \in DOMAIN wire', Checks(wire'[k])
  PROVE  Was(i, k) \in DOMAIN wire \ {i} /\ Checks(wire[Was(i, k)]) /\ ~(k < n)
  BY DEF Moved, Same, Checks

(* Without checks that come there are none.                                *)
LEMMA NoChecksMoves ==
  ASSUME NEW i, NEW news, NEW n, Moved(i, news, n), \A m \in news : ~Checks(m), NoChecks
  PROVE  NoChecks'
<1>1. ASSUME NEW k \in DOMAIN wire', Checks(wire'[k]) PROVE FALSE
  BY <1>1, MovedChecks DEF NoChecks
<1> QED
  BY <1>1 DEF NoChecks, Checks

(* Messages keep their order.                                              *)
LEMMA WasGrows ==
  ASSUME NEW i \in Nat, NEW k \in Nat, NEW q \in Nat, q > k
  PROVE  Was(i, q) > Was(i, k)
  BY DEF Was

(* The last check stays the last one.                                      *)
LEMMA LastCheckMoves ==
  ASSUME wire \in Seq(Message), NEW i \in Nat, NEW news, NEW n \in Nat, Moved(i, news, n),
         \A m \in news : ~Checks(m),
         NEW m \in DOMAIN wire \ {i}, LastCheck(m), m > i \/ n = 0, n = 0 \/ n = i,
         store'.canvas = store.canvas
  PROVE  \E k : LastCheck(k)'
<1>1. PICK k \in DOMAIN wire' :
        /\ Was(i, k) = m /\ Same(wire'[k], wire[m])
        /\ wire'[k].late <=> wire[m].late \/ k < n
  BY DEF Moved, Stays
<1>2. wire' \in Seq(Message)
  BY DEF Moved
<1>3. DOMAIN wire' \subseteq Nat
  BY <1>2
<1>4. m \in Nat
  OBVIOUS
<1>5. ~(k < n)
  BY <1>1, <1>3, <1>4 DEF Was
<1>6. Checks(wire'[k]) /\ wire'[k].doc = store'.canvas
  BY <1>1, <1>5 DEF LastCheck, Checks, Same
<1>7. ASSUME NEW q \in DOMAIN wire', q > k PROVE ~Checks(wire'[q])
  <2>1. SUFFICES ASSUME Checks(wire'[q]) PROVE FALSE
    OBVIOUS
  <2>2. Was(i, q) \in DOMAIN wire /\ Checks(wire[Was(i, q)])
    BY <2>1, MovedChecks
  <2>3. Was(i, q) > m
    BY <1>1, <1>3, <1>7, WasGrows
  <2> QED
    BY <2>2, <2>3 DEF LastCheck
<1>8. LastCheck(k)'
  BY <1>1, <1>6, <1>7 DEF LastCheck, Checks
<1> QED
  BY <1>8

(* Nothing that says what is wrong with the canvas comes or goes.          *)
LEMMA ProblemsStay ==
  ASSUME Types, ProblemsInv, NEW i \in Nat, NEW news, Moved(i, news, 0),
         \A m \in news : ~Checks(m), i \in DOMAIN wire => ~Checks(wire[i]),
         store'.canvas = store.canvas, SameChecks, SameOrder
  PROVE  ProblemsInv'
<1>1. CASE store.timer
  BY <1>1, ProblemsThen DEF SameChecks
<1>2. CASE NoChecks /\ (watch.disordered \/ store.problems = store.canvas)
  <2>1. NoChecks' /\ (watch'.disordered \/ store'.problems = store'.canvas)
    BY <1>2, NoChecksMoves DEF SameChecks, SameOrder
  <2> QED
    BY <2>1, ProblemsThen
<1>3. CASE \E m : LastCheck(m)
  <2>1. PICK m : LastCheck(m)
    BY <1>3
  <2>2. m \in DOMAIN wire \ {i}
    BY <2>1 DEF LastCheck
  <2>3. \E k : LastCheck(k)'
    BY <2>1, <2>2, LastCheckMoves DEF Types
  <2> QED
    BY <2>3, ProblemsThen
<1> QED
  BY <1>1, <1>2, <1>3 DEF ProblemsInv

(* Nobody is not on the wire.                                              *)
LEMMA NobodyThere ==
  ASSUME wire \in Seq(Message)
  PROVE  Nobody \in Nat /\ Nobody \notin DOMAIN wire /\ \A k \in DOMAIN wire : k \in Nat /\ k < Nobody
  BY DEF Nobody

(* An answer that says nothing about problems.                             *)
LEMMA ProblemsAnswered ==
  ASSUME Types, ProblemsInv, NEW i, i \in DOMAIN wire \/ i = Nobody,
         NEW kind, kind \notin {"save", "validate"}, Moved(i, {}, 0) \/ AnswersMove(i, kind, 0),
         i \in DOMAIN wire => ~Checks(wire[i]),
         store'.canvas = store.canvas, SameChecks, SameOrder
  PROVE  ProblemsInv'
<1>1. AnswersMove(i, kind, 0)
  BY NothingLeaves
<1>2. PICK news : Moved(i, news, 0) /\ Leave(news, kind)
  BY <1>1 DEF AnswersMove
<1>3. \A m \in news : ~Checks(m)
  BY <1>2 DEF Leave, Checks
<1>4. i \in Nat
  BY NobodyThere DEF Types
<1> QED
  BY <1>2, <1>3, <1>4, ProblemsStay

(* A request that is answered by the server.                               *)
LEMMA ProblemsReplied ==
  ASSUME Types, ProblemsInv, NEW i \in DOMAIN wire, NEW x, Replied(i, x), store' = store,
         SameOrder
  PROVE  ProblemsInv'
<1>1. ASSUME NEW k \in DOMAIN wire
      PROVE  (Checks(wire'[k]) <=> Checks(wire[k])) /\ wire'[k].doc = wire[k].doc
  <2>1. CASE k = i
    BY <2>1 DEF Replied, Checks
  <2>2. CASE k # i
    BY <2>2 DEF Replied
  <2> QED
    BY <2>1, <2>2
<1>2. DOMAIN wire' = DOMAIN wire
  BY DEF Replied
<1>3. NoChecks => NoChecks'
  BY <1>1, <1>2 DEF NoChecks, Checks
<1>4. ASSUME NEW k, LastCheck(k) PROVE LastCheck(k)'
  BY <1>1, <1>2, <1>4 DEF LastCheck, Checks
<1> QED
  BY <1>3, <1>4, ProblemsThen DEF ProblemsInv, SameOrder

(* The canvas is told what is wrong with it, by the youngest of the        *)
(* requests that could still say so.                                       *)
LEMMA ProblemsSettled ==
  ASSUME NEW i \in Nat, NEW news, NEW n \in Nat, n >= i, Moved(i, news, n),
         \A m \in news : ~Checks(m), \A k \in DOMAIN wire : k > n => ~Checks(wire[k])
  PROVE  NoChecks'
<1>1. ASSUME NEW k \in DOMAIN wire', Checks(wire'[k]) PROVE FALSE
  <2>1. Was(i, k) \in DOMAIN wire /\ Checks(wire[Was(i, k)]) /\ ~(k < n)
    BY <1>1, MovedChecks
  <2>2. k \in Nat
    <3>1. wire' \in Seq(Message)
      BY DEF Moved
    <3> QED
      BY <3>1
  <2>3. Was(i, k) > n
    BY <2>1, <2>2 DEF Was
  <2> QED
    BY <2>1, <2>3
<1> QED
  BY <1>1 DEF NoChecks, Checks

(* A change of the canvas starts the timer of validateSoon, or blanks it.  *)
LEMMA DrawsProblems ==
  ASSUME Types, Draws PROVE ProblemsInv'
<1>1. CASE store'.timer
  BY <1>1, ProblemsThen
<1>2. CASE store'.problems = store'.canvas /\ Moved(Nobody, {}, Nobody)
  <2>1. wire \in Seq(Message)
    BY DEF Types
  <2>2. Nobody \in Nat /\ \A k \in DOMAIN wire : k \in Nat /\ k < Nobody
    BY <2>1, NobodyThere
  <2>3. \A k \in DOMAIN wire : ~(k > Nobody)
    BY <2>2
  <2>4. NoChecks'
    BY <1>2, <2>2, <2>3, ProblemsSettled
  <2> QED
    BY <1>2, <2>4, ProblemsThen
<1> QED
  BY <1>1, <1>2 DEF Draws

(* A save or a validation that is sent is of the canvas.                   *)
LEMMA AsksProblems ==
  ASSUME Types, ProblemsInv, NEW m, Asks(m) PROVE ProblemsInv'
<1>1. /\ wire \in Seq(Message) /\ m \in Message /\ wire' = Append(wire, m) /\ ~m.late
      /\ store'.canvas = store.canvas
  BY DEF Asks, Types, SameCanvas
<1>2. CASE AsksToSave(m) \/ AsksToValidate(m)
  <2>1. PICK n : n \in DOMAIN wire' /\ wire'[n] = m /\ \A k \in DOMAIN wire' : ~(k > n)
    <3> DEFINE last == Len(wire) + 1
    <3>1. last \in DOMAIN wire' /\ wire'[last] = m /\ \A k \in DOMAIN wire' : ~(k > last)
      BY <1>1
    <3> QED
      BY <3>1
  <2>2. Checks(m) /\ m.doc = store'.canvas
    BY <1>1, <1>2 DEF AsksToSave, AsksToValidate, Checks
  <2>3. LastCheck(n)'
    BY <2>1, <2>2 DEF LastCheck, Checks
  <2> QED
    BY <2>3, ProblemsThen
<1>3. CASE AsksToPlan(m) \/ AsksToApply(m)
  <2>1. SameOrder /\ SameChecks /\ ~Checks(m)
    BY <1>3 DEF Asks, AsksToPlan, AsksToApply, Checks
  <2>2. Moved(Nobody, {m}, 0)
    BY <1>1, AppendMoves
  <2>3. Nobody \in Nat /\ Nobody \notin DOMAIN wire
    BY <1>1, NobodyThere
  <2>5. \A q \in {m} : ~Checks(q)
    BY <2>1
  <2> QED
    BY <1>1, <2>1, <2>2, <2>3, <2>5, ProblemsStay
<1> QED
  BY <1>2, <1>3 DEF Asks

(* A check that goes was the last one, of the canvas, or a younger one is. *)
LEMMA CheckGoes ==
  ASSUME Types, ProblemsInv, NEW i \in DOMAIN wire, Checks(wire[i]),
         NEW news, Moved(i, news, i), \A m \in news : ~Checks(m),
         store'.canvas = store.canvas, store'.timer = store.timer
  PROVE  \/ store'.timer \/ \E k : LastCheck(k)'
         \/ NoChecks' /\ wire[i].doc = store.canvas
<1>1. wire \in Seq(Message) /\ i \in Nat
  BY DEF Types
<1>2. CASE store.timer
  BY <1>2
<1>3. CASE ~store.timer
  <2>1. PICK m : LastCheck(m)
    BY <1>3 DEF ProblemsInv, NoChecks
  <2>2. m \in DOMAIN wire /\ m \in Nat
    BY <1>1, <2>1 DEF LastCheck
  <2>3. CASE m = i
    <3>1. \A k \in DOMAIN wire : k > i => ~Checks(wire[k])
      BY <2>1, <2>3 DEF LastCheck
    <3>2. NoChecks'
      BY <1>1, <3>1, ProblemsSettled
    <3> QED
      BY <2>1, <2>3, <3>2 DEF LastCheck
  <2>4. CASE m # i
    <3>1. m > i
      BY <1>1, <2>1, <2>2, <2>4 DEF LastCheck
    <3>2. \E k : LastCheck(k)'
      BY <1>1, <2>1, <2>2, <2>4, <3>1, LastCheckMoves
    <3> QED
      BY <3>2
  <2> QED
    BY <2>3, <2>4
<1> QED
  BY <1>2, <1>3

(* What leaves after a save is no check.                                   *)
LEMMA ThenNoChecks ==
  ASSUME wire \in Seq(Message), NEW i \in DOMAIN wire, NEW n,
         wire[i].then = "none" => Moved(i, {}, n),
         wire[i].then # "none" => AnswersMove(i, wire[i].then, n)
  PROVE  \E news : Moved(i, news, n) /\ \A m \in news : ~Checks(m)
<1>1. wire[i] \in Message
  BY ElementTyped
<1>2. CASE wire[i].then = "none"
  BY <1>2
<1>3. CASE wire[i].then # "none"
  BY <1>1, <1>3 DEF AnswersMove, Leave, Checks, Message
<1> QED
  BY <1>2, <1>3

(* Save and validate: what request i was about is what the answer is about.*)
LEMMA ChecksProblems ==
  ASSUME Types, ProblemsInv, NEW i \in DOMAIN wire, Saves(i) \/ Validates(i) PROVE ProblemsInv'
<1>0. wire \in Seq(Message) /\ i \in Nat
  BY DEF Types
<1>1. /\ wire[i].kind \in {"save", "validate"} /\ watch'.disordered = wire[i].late
      /\ store'.canvas = store.canvas /\ store'.problems = wire[i].doc /\ store'.timer = store.timer
  BY DEF Saves, Validates, SameCanvas, Noticed
<1>2. PICK news : Moved(i, news, Before(i)) /\ \A m \in news : ~Checks(m)
  BY <1>0, ThenNoChecks DEF Saves, Validates
<1>3. CASE Checks(wire[i])
  <2>1. Moved(i, news, i)
    BY <1>2, <1>3 DEF Before
  <2> QED
    BY <1>1, <1>2, <1>3, <2>1, CheckGoes, ProblemsThen
<1>4. CASE ~Checks(wire[i])
  <2>1. watch'.disordered /\ Moved(i, news, 0)
    BY <1>1, <1>2, <1>4 DEF Checks, Before
  <2>2. CASE store.timer
    BY <1>1, <2>2, ProblemsThen
  <2>3. CASE NoChecks
    BY <1>2, <2>1, <2>3, NoChecksMoves, ProblemsThen
  <2>4. CASE \E m : LastCheck(m)
    <3>1. PICK m : LastCheck(m)
      BY <2>4
    <3>2. m \in DOMAIN wire \ {i}
      BY <1>4, <3>1 DEF LastCheck
    <3>3. \E k : LastCheck(k)'
      BY <1>0, <1>1, <1>2, <2>1, <3>1, <3>2, LastCheckMoves
    <3> QED
      BY <3>3, ProblemsThen
  <2> QED
    BY <2>2, <2>3, <2>4 DEF ProblemsInv
<1> QED
  BY <1>3, <1>4

(* A request that is lost, and with it what it would say, in a newer answer *)
(* than those to come.                                                     *)
LEMMA LosesProblems ==
  ASSUME Types, ProblemsInv, NEW i \in DOMAIN wire, LosesRequest(i) PROVE ProblemsInv'
<1>0. wire \in Seq(Message) /\ i \in Nat
  BY DEF Types
<1>1. store' = store /\ (watch'.disordered <=> watch.disordered \/ Checks(wire[i]))
  BY DEF LosesRequest, Loses
<1>2. PICK news : Moved(i, news, Before(i)) /\ \A m \in news : ~Checks(m)
  BY <1>0, ThenNoChecks DEF LosesRequest
<1>3. CASE Checks(wire[i])
  <2>1. Moved(i, news, i)
    BY <1>2, <1>3 DEF Before
  <2> QED
    BY <1>1, <1>2, <1>3, <2>1, CheckGoes, ProblemsThen
<1>4. CASE ~Checks(wire[i])
  <2>1. Moved(i, news, 0) /\ SameOrder /\ SameChecks
    BY <1>1, <1>2, <1>4 DEF Before, SameOrder, SameChecks
  <2> QED
    BY <1>0, <1>1, <1>2, <1>4, <2>1, ProblemsStay
<1> QED
  BY <1>3, <1>4

(* load: the canvas is what the file has, and all that was asked before is *)
(* late.                                                                   *)
LEMMA LoadsProblems ==
  ASSUME Types, NEW i \in DOMAIN wire, Loads(i) PROVE ProblemsInv'
<1>1. /\ Len(wire) \in Nat /\ i \in Nat /\ Len(wire) >= i
      /\ \A k \in DOMAIN wire : ~(k > Len(wire))
  BY DEF Types
<1>2. PICK news : Moved(i, news, Len(wire)) /\ Leave(news, "latest")
  BY DEF Loads, AnswersMove
<1>3. \A m \in news : ~Checks(m)
  BY <1>2 DEF Leave, Checks
<1>4. NoChecks'
  BY <1>1, <1>2, <1>3, ProblemsSettled
<1>5. store'.problems = store'.canvas
  BY DEF Loads
<1> QED
  BY <1>4, <1>5, ProblemsThen

(* Each step keeps ProblemsInv.                                            *)
LEMMA ProblemsStep ==
  ASSUME Types, ProblemsInv, [Next]_vars PROVE ProblemsInv'
<1>1. CASE Draws
  BY <1>1, DrawsProblems
<1>2. CASE Dialogs
  <2>1. wire \in Seq(Message) /\ wire' = wire
    BY <1>2 DEF Types, Dialogs
  <2>2. Moved(Nobody, {}, 0) /\ Nobody \notin DOMAIN wire
    BY <2>1, StillMoves, NobodyThere
  <2> QED
    BY <1>2, <2>2, ProblemsAnswered DEF Dialogs, SameCanvas
<1>3. CASE \E m : Asks(m)
  BY <1>3, AsksProblems
<1>4. CASE \E i \in DOMAIN wire : Puts(i) \/ Tells(i) \/ Starts(i)
  <2>1. PICK i \in DOMAIN wire : Puts(i) \/ Tells(i) \/ Starts(i)
    BY <1>4
  <2>2. (\E x : Replied(i, x)) /\ SameOrder
    BY <2>1 DEF Puts, Tells, Starts, SameOrder
  <2> QED
    BY <2>1, <2>2, ProblemsReplied DEF Puts, Tells, Starts
<1>5. CASE \E j \in Running : Ends(j)
  <2>1. store' = store /\ wire' = wire /\ watch' = watch
    BY <1>5 DEF Ends
  <2> QED
    BY <2>1 DEF ProblemsInv, NoChecks, LastCheck, Checks
<1>6. CASE \E i \in DOMAIN wire : AnswerEffect(i)
  <2>1. PICK i \in DOMAIN wire : AnswerEffect(i)
    BY <1>6
  <2>2. CASE Saves(i) \/ Validates(i)
    BY <2>2, ChecksProblems
  <2>3. CASE Loads(i)
    BY <2>3, LoadsProblems
  <2>4. CASE Learns(i) \/ Followed(i) \/ GoesBlind(i)
    <3>1. Moved(i, {}, 0) /\ ~Checks(wire[i])
      BY <2>4 DEF Learns, Followed, GoesBlind, Checks, Start
    <3>2. store'.canvas = store.canvas /\ SameChecks /\ SameOrder
      BY <2>4 DEF Learns, Followed, GoesBlind, SameCanvas, SameChecks, SameOrder
    <3> QED
      BY <3>1, <3>2, ProblemsAnswered
  <2> QED
    BY <2>1, <2>2, <2>3, <2>4 DEF AnswerEffect
<1>7. CASE \E id, i : Finishes(id, i)
  <2>1. PICK id, i : Finishes(id, i)
    BY <1>7
  <2>2. i \in DOMAIN wire \/ i = Nobody
    BY <2>1 DEF Finishes
  <2>3. i \in DOMAIN wire => ~Checks(wire[i])
    BY <2>1, NobodyThere DEF Finishes, Checks, Types
  <2>4. Moved(i, {}, 0) \/ AnswersMove(i, "load", 0)
    BY <2>1 DEF Finishes
  <2> QED
    BY <2>1, <2>2, <2>3, <2>4, ProblemsAnswered DEF Finishes, SameCanvas
<1>8. CASE \E i \in DOMAIN wire : LosesRequest(i)
  BY <1>8, LosesProblems
<1>10. CASE \E id : LosesStream(id)
  <2>1. PICK id : LosesStream(id)
    BY <1>10
  <2>2. PICK m : Moved(Nobody, {m}, 0) /\ m.kind = "job"
    BY <2>1 DEF LosesStream
  <2>3. (\A x \in {m} : ~Checks(x)) /\ Nobody \in Nat /\ Nobody \notin DOMAIN wire
    BY <2>2, NobodyThere DEF Checks, Types
  <2>4. store'.canvas = store.canvas /\ SameChecks /\ SameOrder
    BY <2>1 DEF LosesStream, Loses, SameCanvas, SameOrder
  <2> QED
    BY <2>2, <2>3, <2>4, ProblemsStay
<1>9. CASE UNCHANGED vars
  <2>1. store' = store /\ wire' = wire /\ watch' = watch
    BY <1>9 DEF vars
  <2> QED
    BY <2>1 DEF ProblemsInv, NoChecks, LastCheck, Checks
<1> QED
  BY <1>1, <1>2, <1>3, <1>4, <1>5, <1>6, <1>7, <1>8, <1>9, <1>10, Effects

(* It holds when the tab has been opened.                                  *)
LEMMA ProblemsInit ==
  ASSUME Init PROVE ProblemsInv
<1> DEFINE m == Request([kind |-> "latest"])
<1>1. m.kind = "latest"
  BY RequestFields
<1> HIDE DEF m
<1>2. wire = <<m>> /\ store.problems = store.canvas
  BY DEF Init, m
<1>3. \A i \in DOMAIN wire : wire[i] = m
  BY <1>2
<1> QED
  BY <1>1, <1>2, <1>3 DEF ProblemsInv, NoChecks, Checks

(* The problems shown are those of the canvas as soon as nothing is under  *)
(* way (store.ts, validateSoon and save): for any diagrams, any number of  *)
(* requests at a time and any user, whatever came out of order or was lost *)
(* before, unless the last answer was overtaken by a newer one or a newer  *)
(* one than it was lost.                                                   *)
THEOREM ProblemsAreTheirs == Spec => []ProblemsAreOfCanvas
<1>1. ASSUME ProblemsInv PROVE ProblemsAreOfCanvas
  BY <1>1 DEF ProblemsInv, LastCheck, ProblemsAreOfCanvas
<1>2. Spec => []ProblemsInv
  BY ProblemsInit, ProblemsStep, CanvasTyped, PTL DEF Spec
<1> QED
  BY <1>1, <1>2, PTL

-----------------------------------------------------------------------------
(* The mark of what is unsaved.                                            *)

(* What the file may come to be is on the canvas, or nothing is promised.  *)
Known(d) == store.dirty \/ watch.unsure \/ d = store.canvas

(* Requests that bring the canvas to the file or the file to the canvas.   *)
Settles(r) == r.kind \in {"save", "load"}

(* One that nothing has crossed is the only one, with no apply beside it.  *)
Alone(i) ==
  Settles(wire[i]) =>
    /\ ~ApplyRuns /\ \A k \in DOMAIN wire : Settles(wire[k]) => k = i
    /\ wire[i].kind = "save" =>
         wire[i].doc = store.canvas /\ (wire[i].at = "in" => server.file = wire[i].doc)
    /\ wire[i].kind = "load" /\ wire[i].at = "in" => wire[i].reply = server.file

(* The file, the saves that it has not had and the apply that will write   *)
(* it: together they keep UnsavedIsMarked.                                 *)
SavedInv ==
  /\ Known(server.file)
  /\ \A i \in DOMAIN wire : wire[i].kind = "save" /\ wire[i].at = "out" => Known(wire[i].doc)
  /\ \A j \in Running : server.jobs[j].kind = "apply" => Known(server.jobs[j].doc)
  /\ watch.crossed \/ \A i \in DOMAIN wire : Alone(i)

(* How SavedInv is shown to hold after a step.                             *)
LEMMA SavedThen ==
  ASSUME \A d : Known(d) => store'.dirty \/ watch'.unsure \/ d = store'.canvas,
         Known(server'.file),
         \A k \in DOMAIN wire' :
           wire'[k].kind = "save" /\ wire'[k].at = "out" => Known(wire'[k].doc),
         \A j \in Running' : server'.jobs[j].kind = "apply" => Known(server'.jobs[j].doc),
         watch'.crossed \/ \A k \in DOMAIN wire' : Alone(k)'
  PROVE  SavedInv'
<1> DEFINE K(d) == store'.dirty \/ watch'.unsure \/ d = store'.canvas
<1>1. \A d : Known(d) => K(d)
  OBVIOUS
<1>2. K(server'.file)
  BY <1>1
<1>3. \A k \in DOMAIN wire' : wire'[k].kind = "save" /\ wire'[k].at = "out" => K(wire'[k].doc)
  BY <1>1
<1>4. \A j \in Running' : server'.jobs[j].kind = "apply" => K(server'.jobs[j].doc)
  BY <1>1
<1> QED
  BY <1>2, <1>3, <1>4 DEF SavedInv, Known

(* Messages come and go, but none of those that settle.                    *)
LEMMA SavedMoves ==
  ASSUME SavedInv, wire \in Seq(Message), NEW i \in Nat, NEW news, NEW n, Moved(i, news, n),
         \A m \in news : ~Settles(m), server' = server,
         \A d : Known(d) => store'.dirty \/ watch'.unsure \/ d = store'.canvas,
         watch'.crossed \/ (store'.canvas = store.canvas /\ ~watch.crossed)
  PROVE  SavedInv'
<1>1. wire' \in Seq(Message) /\ Running' = Running /\ (ApplyRuns' <=> ApplyRuns)
  BY DEF Moved, Running, ApplyRuns
<1>2. ASSUME NEW k \in DOMAIN wire', Settles(wire'[k])
      PROVE  Was(i, k) \in DOMAIN wire /\ Same(wire'[k], wire[Was(i, k)]) /\ Settles(wire[Was(i, k)])
  BY <1>2 DEF Moved, Same, Settles
<1>3. ASSUME NEW k \in DOMAIN wire', wire'[k].kind = "save", wire'[k].at = "out"
      PROVE  Known(wire'[k].doc)
  <2>1. Was(i, k) \in DOMAIN wire /\ Same(wire'[k], wire[Was(i, k)])
    BY <1>2, <1>3 DEF Settles
  <2> QED
    BY <1>3, <2>1 DEF SavedInv, Same
<1>4. ASSUME ~watch'.crossed, NEW k \in DOMAIN wire' PROVE Alone(k)'
  <2>1. SUFFICES ASSUME Settles(wire'[k]) PROVE Alone(k)'
    BY DEF Alone, Settles
  <2>2. Was(i, k) \in DOMAIN wire /\ Same(wire'[k], wire[Was(i, k)]) /\ Alone(Was(i, k))
    BY <1>2, <1>4, <2>1 DEF SavedInv
  <2>3. ASSUME NEW q \in DOMAIN wire', Settles(wire'[q]) PROVE q = k
    <3>1. Was(i, q) = Was(i, k)
      BY <1>2, <2>1, <2>2, <2>3 DEF Alone
    <3>2. q \in Nat /\ k \in Nat
      BY <1>1
    <3> QED
      BY <3>1, <3>2, WasOne
  <2>4. Settles(wire[Was(i, k)]) /\ store'.canvas = store.canvas
    BY <1>2, <1>4, <2>1
  <2> QED
    BY <1>1, <2>2, <2>3, <2>4 DEF Alone, Same, Settles
<1>5. \A j \in Running' : server'.jobs[j].kind = "apply" => Known(server'.jobs[j].doc)
  BY <1>1 DEF SavedInv
<1>6. Known(server'.file)
  BY DEF SavedInv
<1>7. watch'.crossed \/ \A k \in DOMAIN wire' : Alone(k)'
  BY <1>4
<1> QED
  BY <1>3, <1>5, <1>6, <1>7, SavedThen

(* One that settles leaves: unless it is crossed from the start, it is     *)
(* alone.                                                                  *)
LEMMA SettlesLeaves ==
  ASSUME SavedInv, wire \in Seq(Message), NEW i \in Nat, NEW news, Moved(i, news, 0),
         \A m \in news : m.at = "out" /\ (m.kind = "save" => m.doc = store.canvas),
         server' = server, SameCanvas, watch'.unsure = watch.unsure, watch'.crossed = Crossed
  PROVE  SavedInv'
<1>1. wire' \in Seq(Message) /\ Running' = Running /\ (ApplyRuns' <=> ApplyRuns)
      /\ (Crossed <=> ApplyRuns \/ \E k \in DOMAIN wire : Settles(wire[k]))
  BY DEF Moved, Running, ApplyRuns, Crossed, On, Settles
<1>2. \A d : Known(d) => store'.dirty \/ watch'.unsure \/ d = store'.canvas
  BY DEF Known, SameCanvas
<1>3. ASSUME NEW k \in DOMAIN wire', wire'[k].kind = "save", wire'[k].at = "out"
      PROVE  Known(wire'[k].doc)
  <2>1. CASE Was(i, k) \in DOMAIN wire /\ Same(wire'[k], wire[Was(i, k)])
    BY <1>3, <2>1 DEF SavedInv, Same
  <2>2. CASE wire'[k] \in news
    BY <1>3, <2>2 DEF Known
  <2> QED
    BY <2>1, <2>2 DEF Moved
<1>4. ASSUME ~watch'.crossed, NEW k \in DOMAIN wire', Settles(wire'[k])
      PROVE  k = Len(wire') /\ wire'[k] \in news /\ ~ApplyRuns
  <2>1. ~ApplyRuns /\ \A q \in DOMAIN wire : ~Settles(wire[q])
    BY <1>1, <1>4
  <2> QED
    BY <1>4, <2>1 DEF Moved, Same, Settles
<1>5. watch'.crossed \/ \A k \in DOMAIN wire' : Alone(k)'
  <2> SUFFICES ASSUME ~watch'.crossed, NEW k \in DOMAIN wire' PROVE Alone(k)'
    OBVIOUS
  <2>1. CASE Settles(wire'[k])
    <3>1. \A q \in DOMAIN wire' : Settles(wire'[q]) => q = k
      BY <1>4, <2>1
    <3>2. /\ ~ApplyRuns' /\ wire'[k].at = "out"
          /\ wire'[k].kind = "save" => wire'[k].doc = store'.canvas
      BY <1>1, <1>4, <2>1 DEF SameCanvas
    <3> QED
      BY <3>1, <3>2 DEF Alone, Settles
  <2>2. CASE ~Settles(wire'[k])
    BY <2>2 DEF Alone, Settles
  <2> QED
    BY <2>1, <2>2
<1>6. \A j \in Running' : server'.jobs[j].kind = "apply" => Known(server'.jobs[j].doc)
  BY <1>1 DEF SavedInv
<1>7. Known(server'.file)
  BY DEF SavedInv
<1> QED
  BY <1>2, <1>3, <1>5, <1>6, <1>7, SavedThen

(* The answer to a save or a load: what nothing has crossed is in the file *)
(* and on the canvas.                                                      *)
LEMMA SettlesComes ==
  ASSUME SavedInv, Types, NEW i \in DOMAIN wire, Saves(i) \/ Loads(i) PROVE SavedInv'
<1>1. /\ wire \in Seq(Message) /\ i \in Nat /\ server' = server /\ Settles(wire[i])
      /\ wire[i].at = "in" /\ watch'.unsure = watch.crossed /\ watch'.crossed = watch.crossed
      /\ Running' = Running /\ (ApplyRuns' <=> ApplyRuns)
  BY DEF Types, Saves, Loads, Settles, Noticed, Running, ApplyRuns
<1>2. CASE watch.crossed
  BY <1>1, <1>2 DEF SavedInv, Known
<1>3. CASE ~watch.crossed
  <2>1. Alone(i)
    BY <1>3 DEF SavedInv
  <2>2. ~ApplyRuns /\ store'.canvas = server'.file
    BY <1>1, <2>1 DEF Alone, Saves, Loads, Settles
  <2>3. \E news, n : Moved(i, news, n) /\ \A m \in news : ~Settles(m)
    <3>1. CASE Saves(i) /\ wire[i].then = "none"
      <4>1. Moved(i, {}, Before(i))
        BY <3>1 DEF Saves
      <4> QED
        BY <4>1
    <3>2. CASE Saves(i) /\ wire[i].then # "none"
      <4>1. wire[i] \in Message
        BY <1>1, ElementTyped
      <4>2. wire[i].then \in {"plan", "destroy"}
        BY <3>2, <4>1 DEF Message
      <4>3. PICK news : Moved(i, news, Before(i)) /\ Leave(news, wire[i].then)
        BY <3>2 DEF Saves, AnswersMove
      <4>4. \A m \in news : ~Settles(m)
        BY <4>2, <4>3 DEF Leave, Settles
      <4> QED
        BY <4>3, <4>4
    <3>3. CASE Loads(i)
      <4>1. PICK news : Moved(i, news, Len(wire)) /\ Leave(news, "latest")
        BY <3>3 DEF Loads, AnswersMove
      <4>2. \A m \in news : ~Settles(m)
        BY <4>1 DEF Leave, Settles
      <4> QED
        BY <4>1, <4>2
    <3> QED
      BY <3>1, <3>2, <3>3
  <2>4. PICK news, n : Moved(i, news, n) /\ \A m \in news : ~Settles(m)
    BY <2>3
  <2>5. ASSUME NEW k \in DOMAIN wire' PROVE ~Settles(wire'[k])
    <3>1. SUFFICES ASSUME Settles(wire'[k]) PROVE FALSE
      OBVIOUS
    <3>2. Was(i, k) \in DOMAIN wire \ {i} /\ Settles(wire[Was(i, k)])
      BY <2>4, <3>1 DEF Moved, Same, Settles
    <3> QED
      BY <1>1, <2>1, <3>2 DEF Alone
  <2>6. \A k \in DOMAIN wire' : Alone(k)' /\ wire'[k].kind # "save"
    BY <2>5 DEF Alone, Settles
  <2>7. \A j \in Running' : server'.jobs[j].kind # "apply"
    BY <1>1, <2>2 DEF ApplyRuns
  <2> QED
    BY <2>2, <2>6, <2>7 DEF SavedInv, Known
<1> QED
  BY <1>2, <1>3

(* A message that the server answers.                                      *)
LEMMA SavedReplied ==
  ASSUME NEW i \in DOMAIN wire, NEW x, Replied(i, x), NEW k \in DOMAIN wire
  PROVE  /\ DOMAIN wire' = DOMAIN wire /\ wire'[k].kind = wire[k].kind /\ wire'[k].doc = wire[k].doc
         /\ Settles(wire'[k]) <=> Settles(wire[k])
         /\ wire'[k].at = "out" => wire[k].at = "out"
         /\ k # i => wire'[k] = wire[k]
<1>1. CASE k = i
  BY <1>1 DEF Replied, Settles
<1>2. CASE k # i
  BY <1>2 DEF Replied
<1> QED
  BY <1>1, <1>2 DEF Replied

(* PUT: the document was the canvas when it was sent.                      *)
LEMMA PutsSaved ==
  ASSUME SavedInv, NEW i \in DOMAIN wire, Puts(i) PROVE SavedInv'
<1>1. /\ Replied(i, Unset) /\ wire[i].kind = "save" /\ wire[i].at = "out"
      /\ store' = store /\ watch' = watch
      /\ server'.file = wire[i].doc /\ server'.jobs = server.jobs
      /\ Running' = Running /\ (ApplyRuns' <=> ApplyRuns)
  BY DEF Puts, Running, ApplyRuns
<1>2. ASSUME ~watch'.crossed, NEW k \in DOMAIN wire' PROVE Alone(k)'
  <2>1. k \in DOMAIN wire /\ Alone(i) /\ Alone(k)
    BY <1>1, <1>2, SavedReplied DEF SavedInv
  <2>2. CASE k = i
    <3>1. \A q \in DOMAIN wire' : Settles(wire'[q]) => q = i
      BY <1>1, <2>1, SavedReplied DEF Alone, Settles
    <3> QED
      BY <1>1, <2>1, <2>2, <3>1, SavedReplied DEF Alone, Settles
  <2>3. CASE k # i
    <3>1. ~Settles(wire'[k])
      BY <1>1, <2>1, <2>3, SavedReplied DEF Alone, Settles
    <3> QED
      BY <3>1 DEF Alone, Settles
  <2> QED
    BY <2>2, <2>3
<1>3. \A k \in DOMAIN wire' : wire'[k].kind = "save" /\ wire'[k].at = "out" => Known(wire'[k].doc)
  BY <1>1, SavedReplied DEF SavedInv
<1>4. \A j \in Running' : server'.jobs[j].kind = "apply" => Known(server'.jobs[j].doc)
  BY <1>1 DEF SavedInv
<1>5. Known(server'.file)
  BY <1>1 DEF SavedInv
<1>6. \A d : Known(d) => store'.dirty \/ watch'.unsure \/ d = store'.canvas
  BY <1>1 DEF Known
<1>7. watch'.crossed \/ \A k \in DOMAIN wire' : Alone(k)'
  BY <1>2
<1> QED
  BY <1>3, <1>4, <1>5, <1>6, <1>7, SavedThen

(* GET, and a POST that is refused.                                        *)
LEMMA TellsSaved ==
  ASSUME SavedInv, NEW i \in DOMAIN wire, Tells(i) PROVE SavedInv'
<1>1. PICK x : Replied(i, x) /\ (wire[i].kind = "load" => x = server.file)
  BY DEF Tells, Start
<1>2. /\ store' = store /\ watch' = watch /\ server' = server /\ wire[i].kind # "save"
      /\ Running' = Running /\ (ApplyRuns' <=> ApplyRuns)
  BY DEF Tells, Start, Running, ApplyRuns
<1>3. ASSUME ~watch'.crossed, NEW k \in DOMAIN wire' PROVE Alone(k)'
  <2>1. k \in DOMAIN wire /\ Alone(k)
    BY <1>1, <1>2, <1>3, SavedReplied DEF SavedInv
  <2>2. Settles(wire'[k]) => \A q \in DOMAIN wire' : Settles(wire'[q]) => q = k
    BY <1>1, <2>1, SavedReplied DEF Alone
  <2>3. k = i /\ wire[i].kind = "load" => wire'[k].reply = server.file
    BY <1>1 DEF Replied
  <2> QED
    BY <1>1, <1>2, <2>1, <2>2, <2>3, SavedReplied DEF Alone, Settles
<1>4. \A k \in DOMAIN wire' : wire'[k].kind = "save" /\ wire'[k].at = "out" => Known(wire'[k].doc)
  BY <1>1, SavedReplied DEF SavedInv
<1>5. \A j \in Running' : server'.jobs[j].kind = "apply" => Known(server'.jobs[j].doc)
  BY <1>2 DEF SavedInv
<1>6. Known(server'.file)
  BY <1>2 DEF SavedInv
<1>7. \A d : Known(d) => store'.dirty \/ watch'.unsure \/ d = store'.canvas
  BY <1>2 DEF Known
<1>8. watch'.crossed \/ \A k \in DOMAIN wire' : Alone(k)'
  BY <1>3
<1> QED
  BY <1>4, <1>5, <1>6, <1>7, <1>8, SavedThen

(* POST: an apply works on what is in the file, and crosses what is on its *)
(* way.                                                                    *)
LEMMA StartsSaved ==
  ASSUME SavedInv, Types, NEW i \in DOMAIN wire, Starts(i) PROVE SavedInv'
<1> DEFINE n == Len(server.jobs) + 1
<1>1. /\ Replied(i, [job |-> n]) /\ wire[i].kind \in Start /\ store' = store
      /\ watch'.unsure = watch.unsure /\ (watch'.crossed <=> watch.crossed \/ wire[i].kind = "apply")
      /\ server'.file = server.file /\ DOMAIN server'.jobs = DOMAIN server.jobs \cup {n}
      /\ n \notin DOMAIN server.jobs
      /\ \A j \in DOMAIN server.jobs : server'.jobs[j] = server.jobs[j]
      /\ server'.jobs[n].kind = wire[i].kind /\ server'.jobs[n].doc = server.file
  BY DEF Starts
<1> HIDE DEF n
<1>2. \A j \in Running' : j = n \/ (j \in Running /\ server'.jobs[j] = server.jobs[j])
  BY <1>1 DEF Running
<1>3. ASSUME ~watch'.crossed, NEW k \in DOMAIN wire' PROVE Alone(k)'
  <2>1. k \in DOMAIN wire /\ Alone(k) /\ wire[i].kind # "apply"
    BY <1>1, <1>3, SavedReplied DEF SavedInv
  <2>2. Settles(wire'[k]) => \A q \in DOMAIN wire' : Settles(wire'[q]) => q = k
    BY <1>1, <2>1, SavedReplied DEF Alone
  <2>3. ApplyRuns' => ApplyRuns
    BY <1>1, <1>2, <2>1 DEF ApplyRuns
  <2>4. Settles(wire'[k]) => k # i /\ wire'[k] = wire[k]
    BY <1>1, <2>1, SavedReplied DEF Settles, Start
  <2> QED
    BY <1>1, <2>1, <2>2, <2>3, <2>4 DEF Alone
<1>4. \A k \in DOMAIN wire' : wire'[k].kind = "save" /\ wire'[k].at = "out" => Known(wire'[k].doc)
  BY <1>1, SavedReplied DEF SavedInv
<1>5. \A j \in Running' : server'.jobs[j].kind = "apply" => Known(server'.jobs[j].doc)
  BY <1>1, <1>2 DEF SavedInv
<1>6. Known(server'.file)
  BY <1>1 DEF SavedInv
<1>7. \A d : Known(d) => store'.dirty \/ watch'.unsure \/ d = store'.canvas
  BY <1>1 DEF Known
<1>8. watch'.crossed \/ \A k \in DOMAIN wire' : Alone(k)'
  BY <1>3
<1> QED
  BY <1>4, <1>5, <1>6, <1>7, <1>8, SavedThen

(* An apply that ends leaves in the file what it found there.              *)
LEMMA EndsSaved ==
  ASSUME SavedInv, NEW j \in Running, Ends(j) PROVE SavedInv'
<1>1. /\ store' = store /\ wire' = wire /\ watch' = watch
      /\ server'.file = server.file
         \/ (server.jobs[j].kind = "apply" /\ server'.file = server.jobs[j].doc)
  BY DEF Ends
<1>2. \A k \in Running' : k \in Running /\ server'.jobs[k] = server.jobs[k]
  BY DEF Ends, Running
<1>3. ApplyRuns' => ApplyRuns
  BY <1>2 DEF ApplyRuns
<1>4. ASSUME ~watch'.crossed, NEW k \in DOMAIN wire' PROVE Alone(k)'
  <2>1. Alone(k)
    BY <1>1, <1>4 DEF SavedInv
  <2>2. ~ApplyRuns => server'.file = server.file
    BY <1>1 DEF ApplyRuns
  <2> QED
    BY <1>1, <1>3, <2>1, <2>2 DEF Alone
<1>5. \A k \in Running' : server'.jobs[k].kind = "apply" => Known(server'.jobs[k].doc)
  BY <1>2 DEF SavedInv
<1>6. Known(server'.file)
  BY <1>1 DEF SavedInv
<1>7. \A k \in DOMAIN wire' : wire'[k].kind = "save" /\ wire'[k].at = "out" => Known(wire'[k].doc)
  BY <1>1 DEF SavedInv
<1>8. \A d : Known(d) => store'.dirty \/ watch'.unsure \/ d = store'.canvas
  BY <1>1 DEF Known
<1>9. watch'.crossed \/ \A k \in DOMAIN wire' : Alone(k)'
  BY <1>4
<1> QED
  BY <1>5, <1>6, <1>7, <1>8, <1>9, SavedThen

(* What the user and the timer send.                                       *)
LEMMA AsksSaved ==
  ASSUME SavedInv, Types, NEW m, Asks(m) PROVE SavedInv'
<1>1. /\ wire \in Seq(Message) /\ m \in Message /\ wire' = Append(wire, m) /\ server' = server
      /\ SameCanvas
  BY DEF Types, Asks
<1>2. Moved(Nobody, {m}, 0) /\ Nobody \in Nat
  BY <1>1, AppendMoves, NobodyThere
<1>3. CASE AsksToSave(m)
  <2>1. /\ \A x \in {m} : x.at = "out" /\ (x.kind = "save" => x.doc = store.canvas)
        /\ watch'.crossed = Crossed /\ watch'.unsure = watch.unsure
    BY <1>3 DEF AsksToSave
  <2> QED
    BY <1>1, <1>2, <2>1, SettlesLeaves
<1>4. CASE AsksToPlan(m) \/ AsksToApply(m) \/ AsksToValidate(m)
  <2>1. SameMarks /\ \A x \in {m} : ~Settles(x)
    BY <1>4 DEF AsksToPlan, AsksToApply, AsksToValidate, SameMarks, Settles
  <2>2. \A d : Known(d) => store'.dirty \/ watch'.unsure \/ d = store'.canvas
    BY <1>1, <2>1 DEF Known, SameCanvas, SameMarks
  <2>3. watch'.crossed \/ (store'.canvas = store.canvas /\ ~watch.crossed)
    BY <1>1, <2>1 DEF SameCanvas, SameMarks
  <2> QED
    BY <1>1, <1>2, <2>1, <2>2, <2>3, SavedMoves
<1> QED
  BY <1>3, <1>4 DEF Asks

(* Steps that leave the canvas and what is noted of it.                    *)
LEMMA SavedStays ==
  ASSUME SavedInv, Types, NEW i, i \in DOMAIN wire \/ i = Nobody, NEW news, NEW n,
         Moved(i, news, n), \A m \in news : ~Settles(m), server' = server,
         SameCanvas, SameMarks
  PROVE  SavedInv'
<1>1. wire \in Seq(Message) /\ i \in Nat
  BY NobodyThere DEF Types
<1>2. \A d : Known(d) => store'.dirty \/ watch'.unsure \/ d = store'.canvas
  BY DEF Known, SameCanvas, SameMarks
<1>3. watch'.crossed \/ (store'.canvas = store.canvas /\ ~watch.crossed)
  BY DEF SameCanvas, SameMarks
<1> QED
  BY <1>1, <1>2, <1>3, SavedMoves

(* The end of a job is told: after an apply the file is asked for.         *)
LEMMA FinishesSaved ==
  ASSUME SavedInv, Types, NEW id, NEW i, Finishes(id, i) PROVE SavedInv'
<1>1. /\ wire \in Seq(Message) /\ i \in Nat /\ (i \in DOMAIN wire \/ i = Nobody)
      /\ server' = server /\ SameCanvas /\ watch'.unsure = watch.unsure
  BY NobodyThere DEF Types, Finishes
<1>2. CASE Applied(id)
  <2>1. PICK news : Moved(i, news, 0) /\ Leave(news, "load")
    BY <1>2 DEF Finishes, AnswersMove
  <2>2. \A m \in news : m.at = "out" /\ (m.kind = "save" => m.doc = store.canvas)
    BY <2>1 DEF Leave
  <2>3. watch'.crossed = Crossed
    BY <1>2 DEF Finishes
  <2> QED
    BY <1>1, <2>1, <2>2, <2>3, SettlesLeaves
<1>3. CASE ~Applied(id)
  <2>1. Moved(i, {}, 0) /\ SameMarks
    BY <1>3 DEF Finishes, SameMarks
  <2> QED
    BY <1>1, <2>1, SavedStays
<1> QED
  BY <1>2, <1>3

(* Each step keeps SavedInv.                                               *)
LEMMA SavedStep ==
  ASSUME SavedInv, Types, [Next]_vars PROVE SavedInv'
<1>0. wire \in Seq(Message) /\ Nobody \in Nat
  BY NobodyThere DEF Types
<1>1. CASE Draws
  <2>1. PICK n : Moved(Nobody, {}, n)
    BY <1>1 DEF Draws
  <2>2. store'.dirty /\ watch'.crossed /\ server' = server
    BY <1>1 DEF Draws
  <2> QED
    BY <1>0, <2>1, <2>2, SavedMoves
<1>2. CASE Dialogs
  <2>1. Moved(Nobody, {}, 0)
    BY <1>0, <1>2, StillMoves DEF Dialogs
  <2> QED
    BY <1>2, <2>1, SavedStays DEF Dialogs
<1>3. CASE \E m : Asks(m)
  BY <1>3, AsksSaved
<1>4. CASE \E i \in DOMAIN wire : Puts(i) \/ Tells(i) \/ Starts(i)
  BY <1>4, PutsSaved, TellsSaved, StartsSaved
<1>5. CASE \E j \in Running : Ends(j)
  BY <1>5, EndsSaved
<1>6. CASE \E i \in DOMAIN wire : AnswerEffect(i)
  <2>1. PICK i \in DOMAIN wire : AnswerEffect(i)
    BY <1>6
  <2>2. CASE Saves(i) \/ Loads(i)
    BY <2>2, SettlesComes
  <2>3. CASE Validates(i) \/ Learns(i) \/ Followed(i) \/ GoesBlind(i)
    <3>1. PICK n : Moved(i, {}, n)
      BY <2>3 DEF Validates, Learns, Followed, GoesBlind
    <3>2. server' = server /\ SameCanvas /\ SameMarks
      BY <2>3 DEF Validates, Noticed, Learns, Followed, GoesBlind, SameCanvas, SameMarks
    <3> QED
      BY <3>1, <3>2, SavedStays
  <2> QED
    BY <2>1, <2>2, <2>3 DEF AnswerEffect
<1>7. CASE \E id, i : Finishes(id, i)
  BY <1>7, FinishesSaved
<1>8. CASE \E i \in DOMAIN wire : LosesRequest(i)
  <2>1. PICK i \in DOMAIN wire : LosesRequest(i)
    BY <1>8
  <2>2. \E news : Moved(i, news, Before(i)) /\ \A m \in news : ~Settles(m)
    <3>1. wire[i] \in Message
      BY <1>0, ElementTyped
    <3>2. CASE wire[i].then = "none"
      <4>1. Moved(i, {}, Before(i))
        BY <2>1, <3>2 DEF LosesRequest
      <4> QED
        BY <4>1
    <3>3. CASE wire[i].then # "none"
      <4>1. PICK news : Moved(i, news, Before(i)) /\ Leave(news, wire[i].then)
        BY <2>1, <3>3 DEF LosesRequest, AnswersMove
      <4>2. \A m \in news : ~Settles(m)
        BY <3>1, <3>3, <4>1 DEF Leave, Settles, Message
      <4> QED
        BY <4>1, <4>2
    <3> QED
      BY <3>2, <3>3
  <2>3. server' = server /\ SameCanvas /\ SameMarks
    BY <2>1 DEF LosesRequest, Loses, SameCanvas
  <2> QED
    BY <2>2, <2>3, SavedStays
<1>9. CASE \E id : LosesStream(id)
  <2>1. PICK id : LosesStream(id)
    BY <1>9
  <2>2. PICK m : Moved(Nobody, {m}, 0) /\ m.kind = "job"
    BY <2>1 DEF LosesStream
  <2>3. \A x \in {m} : ~Settles(x)
    BY <2>2 DEF Settles
  <2>4. server' = server /\ SameCanvas /\ SameMarks
    BY <2>1 DEF LosesStream, Loses
  <2> QED
    BY <2>2, <2>3, <2>4, SavedStays
<1>10. CASE UNCHANGED vars
  BY <1>10 DEF vars, SavedInv, Known, Alone, Settles, ApplyRuns, Running
<1> QED
  BY <1>1, <1>2, <1>3, <1>4, <1>5, <1>6, <1>7, <1>8, <1>9, <1>10, Effects

(* It holds when the tab has been opened.                                  *)
LEMMA SavedInit ==
  ASSUME Init PROVE SavedInv
<1> DEFINE m == Request([kind |-> "latest"])
<1>1. m.kind = "latest"
  BY RequestFields
<1> HIDE DEF m
<1>2. wire = <<m>> /\ store.canvas = First /\ server.file = First
  BY DEF Init, m
<1>3. \A i \in DOMAIN wire : wire[i] = m
  BY <1>2
<1>4. Running = {}
  <2>1. server.jobs = <<>>
    BY DEF Init
  <2> QED
    BY <2>1 DEF Running
<1> QED
  BY <1>1, <1>2, <1>3, <1>4 DEF SavedInv, Known, Alone, Settles

(* What is not marked as unsaved is in the file, for any diagrams, any     *)
(* number of requests, any user and whatever connections break, unless the *)
(* last answer to a save or a load was to one that an edit, another one or *)
(* an apply had crossed (store.ts, save, load and streamJob; jobs.go and   *)
(* run.go, the apply that writes the file).  The next edit, and the next   *)
(* answer that nothing crossed, end the exception.                         *)
THEOREM UnsavedStaysMarked == Spec => []UnsavedIsMarked
<1>1. SavedInv => UnsavedIsMarked
  BY DEF SavedInv, Known, UnsavedIsMarked
<1> QED
  BY <1>1, SavedInit, SavedStep, CanvasTyped, PTL DEF Spec

-----------------------------------------------------------------------------
(* What starts a job, and what is followed to its end.                     *)
Begins(r) == r.kind \in Start \/ r.then # "none"
Answers(r, j) == r.kind \in Start /\ r.at = "in" /\ r.reply = [job |-> j]
Follows(j) == (JobRuns /\ store.job.id = j) \/ \E i \in DOMAIN wire : Answers(wire[i], j)

(* Two messages that are not on the wire at a time.                        *)
Excludes(r, q) ==
  \/ Begins(r) /\ (Begins(q) \/ q.kind = "load")
  \/ r.kind = "save" /\ q.kind \in {"save", "load", "apply"}
  \/ r.kind = "job" /\ q.kind = "job"

(* Messages that exclude each other are not together on the wire.          *)
Apart == \A i, k \in DOMAIN wire : Excludes(wire[i], wire[k]) => i = k

(* What a message on the wire says of the canvas and of the server.        *)
Runs(st) == st.job # NoJob /\ st.job.status = "running"
RunsApply(st, sv) == Runs(st) /\ sv.jobs[st.job.id].kind = "apply"

Fit(r, st, sv) ==
  /\ Begins(r) => ~Runs(st) /\ ~st.confirm
  /\ r.kind = "job" =>
       /\ Runs(st) /\ st.job.id = r.about.job /\ st.streams = {}
       /\ r.at = "in" => r.reply.status = "running" \/ sv.jobs[r.about.job].status # "running"
  /\ r.kind \in Start /\ r.at = "in" /\ r.reply # Unset => sv.jobs[r.reply.job].kind = r.kind
  /\ r.kind = "save" =>
       r.doc = st.canvas /\ ~RunsApply(st, sv) /\ (r.at = "in" => sv.file = r.doc)
  /\ r.kind = "load" => ~Runs(st) /\ (r.at = "in" => r.reply = sv.file)

Fits == \A i \in DOMAIN wire : Fit(wire[i], store, server)

(* The canvas, the jobs and the file.                                      *)
Tracked ==
  /\ \A id \in store.streams : Runs(store) /\ store.job.id = id
  /\ \A j \in Running : Follows(j)
  /\ store.confirm => store.plan # NoPlan /\ ~Runs(store)

InFile ==
  /\ store.dirty \/ store.canvas = server.file
  /\ \A j \in Running : server.jobs[j].kind = "apply" => server.jobs[j].doc = server.file

(* The apply on its way runs what its dialog showed, or nothing.           *)
Orders(r, sv) ==
  r.kind = "apply" /\ r.at = "out" =>
    /\ r.about.plan # NoPlan /\ sv.planned \in {NoPlan, r.about.plan}
    /\ r.about.dirty \/ sv.file = r.about.canvas

(* The plan shown and the last one.                                        *)
PlanInv ==
  /\ \A j \in DOMAIN server.jobs : Follows(j) /\ Plans(j) => server.planned = PlanOf(j)
  /\ \/ \E j \in DOMAIN server.jobs : Follows(j) /\ Plans(j)
     \/ store.plan = NoPlan
     \/ server.planned \in {NoPlan, store.plan}
  /\ \A i \in DOMAIN wire : Orders(wire[i], server)

(* What holds while jobs are followed, and what holds besides while no old *)
(* plan was shown.                                                         *)
SafeInv == Apart /\ Fits /\ Tracked /\ InFile
Trusted == ~watch.blind /\ ~watch.hasty
SafeWhileTrusted == Trusted => SafeInv
ShownInv == Trusted /\ ~watch.behind => PlanInv

-----------------------------------------------------------------------------
(* Messages that only moved say what they said.                            *)
LEMMA SameSays ==
  ASSUME NEW r, NEW q, Same(r, q)
  PROVE  /\ \A j : Answers(q, j) => Answers(r, j)
         /\ \A st, sv : Fit(q, st, sv) => Fit(r, st, sv)
         /\ \A x : Excludes(r, x) => Excludes(q, x)
         /\ \A x : Excludes(x, r) => Excludes(x, q)
<1>1. \A j : Answers(q, j) => Answers(r, j)
  BY DEF Same, Answers
<1>2. ASSUME NEW st, NEW sv, Fit(q, st, sv) PROVE Fit(r, st, sv)
  BY <1>2 DEF Same, Fit, Begins
<1>3. ASSUME NEW x PROVE (Excludes(r, x) => Excludes(q, x)) /\ (Excludes(x, r) => Excludes(x, q))
  BY DEF Same, Excludes, Begins
<1> QED
  BY <1>1, <1>2, <1>3

(* Messages that move stay apart.                                          *)
LEMMA ApartMoves ==
  ASSUME NEW i \in Nat, NEW news, NEW n, Moved(i, news, n), Apart,
         \A m \in news : \A p \in DOMAIN wire \ {i} :
           ~Excludes(wire[p], m) /\ ~Excludes(m, wire[p])
  PROVE  Apart'
<1>1. wire' \in Seq(Message)
  BY DEF Moved
<1>2. DOMAIN wire' \subseteq Nat
  BY <1>1
<1> DEFINE Stayed(k) == Was(i, k) \in DOMAIN wire \ {i} /\ Same(wire'[k], wire[Was(i, k)])
           Came(k) == k = Len(wire') /\ wire'[k] \in news
<1>3. \A k \in DOMAIN wire' : Stayed(k) \/ Came(k)
  BY DEF Moved
<1>4. ASSUME NEW k \in DOMAIN wire', NEW q \in DOMAIN wire', Excludes(wire'[k], wire'[q])
      PROVE  k = q
  <2>1. CASE Stayed(k) /\ Stayed(q)
    <3>1. Excludes(wire[Was(i, k)], wire[Was(i, q)])
      BY <1>4, <2>1, SameSays
    <3>2. Was(i, k) = Was(i, q)
      BY <2>1, <3>1 DEF Apart
    <3> QED
      BY <1>2, <3>2, WasOne
  <2>2. CASE Stayed(k) /\ Came(q)
    <3>1. Excludes(wire[Was(i, k)], wire'[q])
      BY <1>4, <2>2, SameSays
    <3> QED
      BY <2>2, <3>1
  <2>3. CASE Came(k) /\ Stayed(q)
    <3>1. Excludes(wire'[k], wire[Was(i, q)])
      BY <1>4, <2>3, SameSays
    <3> QED
      BY <2>3, <3>1
  <2>4. CASE Came(k) /\ Came(q)
    BY <2>4
  <2> QED
    BY <1>3, <2>1, <2>2, <2>3, <2>4
<1> QED
  BY <1>4 DEF Apart, Excludes, Begins

(* Messages that move and fit the new canvas and server do so where they   *)
(* are.                                                                    *)
LEMMA FitsMoves ==
  ASSUME NEW i, NEW news, NEW n, Moved(i, news, n),
         \A m \in news : Fit(m, store', server'),
         \A p \in DOMAIN wire \ {i} : Fit(wire[p], store', server')
  PROVE  Fits'
<1>1. ASSUME NEW k \in DOMAIN wire' PROVE Fit(wire'[k], store', server')
  <2>1. CASE Was(i, k) \in DOMAIN wire \ {i} /\ Same(wire'[k], wire[Was(i, k)])
    <3>1. Fit(wire[Was(i, k)], store', server')
      BY <2>1
    <3> QED
      BY <2>1, <3>1, SameSays
  <2>2. CASE wire'[k] \in news
    BY <2>2
  <2> QED
    BY <2>1, <2>2 DEF Moved
<1> QED
  BY <1>1 DEF Fits, Fit, RunsApply, Runs, Begins

(* An answer that is not taken stays.                                      *)
LEMMA AnswersStay ==
  ASSUME NEW i, NEW news, NEW n, Moved(i, news, n), NEW p \in DOMAIN wire \ {i},
         NEW j, Answers(wire[p], j)
  PROVE  \E k \in DOMAIN wire' : Answers(wire'[k], j)
<1>1. PICK k \in DOMAIN wire' : Same(wire'[k], wire[p])
  BY DEF Moved, Stays
<1>2. Answers(wire'[k], j)
  BY <1>1, SameSays
<1> QED
  BY <1>2

(* The jobs that run are followed still, when the canvas follows the same  *)
(* job and no answer is gone.                                              *)
LEMMA FollowsOn ==
  ASSUME server' = server, store'.job = store.job, \A j \in Running : Follows(j),
         \A j, p : p \in DOMAIN wire /\ Answers(wire[p], j) =>
           \E k \in DOMAIN wire' : Answers(wire'[k], j)
  PROVE  \A j \in Running' : Follows(j)'
<1>1. Running' = Running
  BY DEF Running
<1>2. ASSUME NEW j \in Running PROVE Follows(j)'
  <2>1. CASE JobRuns /\ store.job.id = j
    BY <2>1 DEF Follows, JobRuns
  <2>2. CASE \E p \in DOMAIN wire : Answers(wire[p], j)
    <3>1. \E k \in DOMAIN wire' : Answers(wire'[k], j)
      BY <2>2
    <3> QED
      BY <3>1 DEF Follows, Answers
  <2> QED
    BY <2>1, <2>2 DEF Follows
<1> QED
  BY <1>1, <1>2

(* The jobs that run are followed still when no answer with a job is       *)
(* taken.                                                                  *)
LEMMA FollowsMoved ==
  ASSUME server' = server, store'.job = store.job, \A j \in Running : Follows(j),
         NEW i, NEW news, NEW n, Moved(i, news, n),
         i \in DOMAIN wire => \A j : ~Answers(wire[i], j)
  PROVE  \A j \in Running' : Follows(j)'
<1>1. ASSUME NEW j, NEW p, p \in DOMAIN wire, Answers(wire[p], j)
      PROVE  \E k \in DOMAIN wire' : Answers(wire'[k], j)
  <2>1. p \in DOMAIN wire \ {i}
    BY <1>1
  <2> QED
    BY <1>1, <2>1, AnswersStay
<1> QED
  BY <1>1, FollowsOn

-----------------------------------------------------------------------------
(* The parts of SafeInv that the steps use.                                *)
LEMMA SafeParts ==
  ASSUME SafeInv
  PROVE  /\ Apart
         /\ \A i \in DOMAIN wire : Fit(wire[i], store, server)
         /\ \A id \in store.streams : Runs(store) /\ store.job.id = id
         /\ \A j \in Running : Follows(j)
         /\ store.confirm => store.plan # NoPlan /\ ~Runs(store)
         /\ store.dirty \/ store.canvas = server.file
         /\ \A j \in Running : server.jobs[j].kind = "apply" => server.jobs[j].doc = server.file
  BY DEF SafeInv, Fits, Tracked, InFile

(* A message fits as long as its canvas, its job and its server stay.      *)
LEMMA FitStays ==
  ASSUME NEW r, Fit(r, store, server), SameJob, store'.canvas = store.canvas,
         store'.confirm => store.confirm \/ ~Begins(r) , server' = server
  PROVE  Fit(r, store', server')
  BY DEF Fit, Runs, RunsApply, SameJob

(* What an apply writes back is in the file as long as the server stays.   *)
LEMMA FilesStay ==
  ASSUME server' = server, \A j \in Running : server.jobs[j].kind = "apply" => server.jobs[j].doc = server.file
  PROVE  \A j \in Running' : server'.jobs[j].kind = "apply" => server'.jobs[j].doc = server'.file
  BY DEF Running

(* How SafeInv is shown to hold after a step.                              *)
LEMMA SafeThen ==
  ASSUME Apart', Fits',
         \A id \in store'.streams : Runs(store') /\ store'.job.id = id,
         \A j \in Running' : Follows(j)',
         store'.confirm => store'.plan # NoPlan /\ ~Runs(store'),
         store'.dirty \/ store'.canvas = server'.file,
         \A j \in Running' : server'.jobs[j].kind = "apply" => server'.jobs[j].doc = server'.file
  PROVE  SafeInv'
<1>1. Tracked'
  BY DEF Tracked, Runs
<1>2. InFile'
  BY DEF InFile
<1> QED
  BY <1>1, <1>2 DEF SafeInv

(* What a patient user waits for.                                          *)
LEMMA Idle ==
  /\ ~Starting => \A p \in DOMAIN wire : ~Begins(wire[p])
  /\ ~watch'.hasty /\ Waits => \A p \in DOMAIN wire : wire[p].kind \notin {"save", "load"}
  /\ ~Applying => (\A p \in DOMAIN wire : wire[p].kind # "apply") /\ ~RunsApply(store, server)
  /\ JobRuns <=> Runs(store)
  BY DEF Starting, Begins, Waits, On, Applying, JobRuns, Runs, RunsApply

(* Changes of the canvas mark it as unsaved, and nothing is between it and *)
(* the file.                                                               *)
LEMMA DrawsSafe ==
  ASSUME Types, SafeInv, ~watch'.hasty, Draws PROVE SafeInv'
<1> USE SafeParts
<1>0. wire \in Seq(Message) /\ Nobody \in Nat /\ Nobody \notin DOMAIN wire
  BY NobodyThere DEF Types
<1>1. /\ SameJob /\ store'.dirty /\ store'.confirm = store.confirm
      /\ store'.plan = store.plan \/ (store'.plan = NoPlan /\ ~DialogOpen)
      /\ server' = server /\ Waits
  BY DEF Draws
<1>2. PICK n : Moved(Nobody, {}, n)
  BY DEF Draws
<1>3. Apart'
  BY <1>0, <1>2, ApartMoves
<1>4. ASSUME NEW p \in DOMAIN wire PROVE Fit(wire[p], store', server')
  <2>1. wire[p].kind \notin {"save", "load"} /\ Fit(wire[p], store, server)
    BY <1>1, Idle
  <2> QED
    BY <1>1, <2>1 DEF Fit, Runs, SameJob
<1>5. Fits'
  BY <1>2, <1>4, FitsMoves
<1>6. \A j \in Running' : Follows(j)'
  BY <1>0, <1>1, <1>2, FollowsMoved DEF SameJob
<1>7. store'.confirm => store'.plan # NoPlan /\ ~Runs(store')
  BY <1>1 DEF DialogOpen, Runs, SameJob
<1>8. \A id \in store'.streams : Runs(store') /\ store'.job.id = id
  BY <1>1 DEF Runs, SameJob
<1> QED
  BY <1>1, <1>3, <1>5, <1>6, <1>7, <1>8, FilesStay, SafeThen

(* Looking at plans: the dialog opens when no job is about to start.       *)
LEMMA DialogsSafe ==
  ASSUME Types, SafeInv, ~watch'.hasty, Dialogs PROVE SafeInv'
<1> USE SafeParts
<1>0. wire \in Seq(Message) /\ Nobody \in Nat /\ Nobody \notin DOMAIN wire
  BY NobodyThere DEF Types
<1>1. /\ SameJob /\ store'.canvas = store.canvas /\ store'.dirty = store.dirty
      /\ server' = server /\ wire' = wire
      /\ \/ store'.plan = NoPlan /\ store'.confirm = store.confirm /\ ~DialogOpen
         \/ store'.plan = store.plan /\ ~store'.confirm
         \/ store'.plan = store.plan /\ store.plan # NoPlan /\ ~JobRuns /\ ~Starting
  BY DEF Dialogs, SameCanvas
<1>2. Moved(Nobody, {}, 0)
  BY <1>0, <1>1, StillMoves
<1>3. Apart'
  BY <1>0, <1>2, ApartMoves
<1>4. ASSUME NEW p \in DOMAIN wire PROVE Fit(wire[p], store', server')
  BY <1>1, Idle, FitStays
<1>5. Fits'
  BY <1>2, <1>4, FitsMoves
<1>6. \A j \in Running' : Follows(j)'
  BY <1>0, <1>1, <1>2, FollowsMoved DEF SameJob
<1>7. store'.confirm => store'.plan # NoPlan /\ ~Runs(store')
  BY <1>1, Idle DEF DialogOpen, Runs, SameJob
<1>8. \A id \in store'.streams : Runs(store') /\ store'.job.id = id
  BY <1>1 DEF Runs, SameJob
<1> QED
  BY <1>1, <1>3, <1>5, <1>6, <1>7, <1>8, FilesStay, SafeThen

(* A request the user or the timer sends.                                  *)
LEMMA AsksApart ==
  ASSUME SafeInv, ~watch'.hasty, NEW m, Asks(m), NEW p \in DOMAIN wire
  PROVE  ~Excludes(wire[p], m) /\ ~Excludes(m, wire[p])
<1> USE SafeParts
<1>1. CASE AsksToSave(m)
  <2>1. wire[p].kind \notin {"save", "load"} /\ m.kind = "save"
    BY <1>1, Idle DEF AsksToSave
  <2>2. CASE m.then = "none" /\ ~Applying
    <3>1. wire[p].kind # "apply"
      BY <2>2, Idle
    <3> QED
      BY <2>1, <2>2, <3>1 DEF Excludes, Begins, Start
  <2>3. CASE ~Starting
    <3>1. ~Begins(wire[p])
      BY <2>3, Idle
    <3> QED
      BY <2>1, <3>1 DEF Excludes, Begins, Start
  <2> QED
    BY <1>1, <2>2, <2>3 DEF AsksToSave
<1>2. CASE AsksToPlan(m) \/ AsksToApply(m)
  <2>1. wire[p].kind \notin {"save", "load"} /\ ~Begins(wire[p])
    BY <1>2, Idle DEF AsksToPlan, AsksToApply
  <2> QED
    BY <1>2, <2>1 DEF AsksToPlan, AsksToApply, Excludes
<1>3. CASE AsksToValidate(m)
  BY <1>3 DEF AsksToValidate, Excludes, Begins, Start
<1> QED
  BY <1>1, <1>2, <1>3 DEF Asks

(* What is sent fits.                                                      *)
LEMMA AsksFit ==
  ASSUME SafeInv, ~watch'.hasty, NEW m, Asks(m) PROVE Fit(m, store', server')
<1> USE SafeParts
<1>0. SameJob /\ store'.canvas = store.canvas /\ server' = server
  BY DEF Asks, SameCanvas
<1>a. Runs(store') = Runs(store) /\ RunsApply(store', server') = RunsApply(store, server)
  BY <1>0 DEF Runs, RunsApply, SameJob
<1>1. CASE AsksToSave(m)
  <2>1. m.kind = "save" /\ m.at = "out" /\ m.doc = store.canvas /\ store'.confirm = store.confirm
    BY <1>1 DEF AsksToSave
  <2>2. ~RunsApply(store, server) /\ (m.then # "none" => ~Runs(store) /\ ~store.confirm)
    BY <1>1, Idle DEF AsksToSave, DialogOpen, RunsApply
  <2> QED
    BY <1>0, <1>a, <2>1, <2>2 DEF Fit, Begins, Start
<1>2. CASE AsksToPlan(m)
  <2>1. ~Runs(store) /\ ~store'.confirm
    BY <1>2, Idle DEF AsksToPlan, DialogOpen
  <2> QED
    BY <1>2, <1>a, <2>1 DEF AsksToPlan, Fit
<1>3. CASE AsksToApply(m)
  BY <1>3, <1>a DEF AsksToApply, DialogOpen, Fit
<1>4. CASE AsksToValidate(m)
  BY <1>4 DEF AsksToValidate, Fit, Begins, Start
<1> QED
  BY <1>1, <1>2, <1>3, <1>4 DEF Asks

(* Requests that leave.                                                    *)
LEMMA AsksSafe ==
  ASSUME Types, SafeInv, ~watch'.hasty, NEW m, Asks(m) PROVE SafeInv'
<1> USE SafeParts
<1>0. wire \in Seq(Message) /\ Nobody \in Nat /\ Nobody \notin DOMAIN wire
  BY NobodyThere DEF Types
<1>1. /\ SameJob /\ store'.canvas = store.canvas /\ store'.dirty = store.dirty
      /\ store'.plan = store.plan /\ server' = server /\ m \in Message /\ wire' = Append(wire, m)
  BY DEF Asks, SameCanvas
<1>2. Moved(Nobody, {m}, 0)
  BY <1>0, <1>1, AppendMoves
<1>a. store'.confirm => store.confirm
  BY DEF Asks, AsksToSave, AsksToPlan, AsksToApply, AsksToValidate
<1>b. \A x \in {m} : \A p \in DOMAIN wire \ {Nobody} : ~Excludes(wire[p], x) /\ ~Excludes(x, wire[p])
  BY AsksApart
<1>3. Apart'
  BY <1>0, <1>2, <1>b, ApartMoves
<1>4. ASSUME NEW p \in DOMAIN wire PROVE Fit(wire[p], store', server')
  BY <1>1, <1>a, FitStays
<1>c. \A x \in {m} : Fit(x, store', server')
  BY AsksFit
<1>5. Fits'
  BY <1>2, <1>4, <1>c, FitsMoves
<1>6. \A j \in Running' : Follows(j)'
  BY <1>0, <1>1, <1>2, FollowsMoved DEF SameJob
<1>7. store'.confirm => store'.plan # NoPlan /\ ~Runs(store')
  BY <1>1, <1>a DEF Runs, SameJob
<1>8. \A id \in store'.streams : Runs(store') /\ store'.job.id = id
  BY <1>1 DEF Runs, SameJob
<1> QED
  BY <1>1, <1>3, <1>5, <1>6, <1>7, <1>8, FilesStay, SafeThen

-----------------------------------------------------------------------------
(* A message that is answered stays apart from the others,                 *)
LEMMA ApartReplied ==
  ASSUME Apart, NEW i \in DOMAIN wire, NEW x, Replied(i, x) PROVE Apart'
<1>1. ASSUME NEW k \in DOMAIN wire
      PROVE  wire'[k].kind = wire[k].kind /\ wire'[k].then = wire[k].then
  BY DEF Replied
<1>2. DOMAIN wire' = DOMAIN wire
  BY DEF Replied
<1>3. \A k, q \in DOMAIN wire : Excludes(wire'[k], wire'[q]) => Excludes(wire[k], wire[q])
  BY <1>1 DEF Excludes, Begins
<1> QED
  BY <1>2, <1>3 DEF Apart, Excludes, Begins

(* and they fit as they did,                                               *)
LEMMA FitsReplied ==
  ASSUME NEW i \in DOMAIN wire, NEW x, Replied(i, x), Fit(wire'[i], store', server'),
         \A p \in DOMAIN wire : p # i => Fit(wire[p], store', server')
  PROVE  Fits'
<1>1. ASSUME NEW p \in DOMAIN wire PROVE Fit(wire'[p], store', server')
  <2>1. CASE p = i
    BY <2>1
  <2>2. CASE p # i
    BY <2>2 DEF Replied
  <2> QED
    BY <2>1, <2>2
<1>2. DOMAIN wire' = DOMAIN wire
  BY DEF Replied
<1> QED
  BY <1>1, <1>2 DEF Fits, Fit, RunsApply, Runs, Begins

(* and the answers before it are there.                                    *)
LEMMA AnswersReplied ==
  ASSUME NEW i \in DOMAIN wire, NEW x, Replied(i, x), wire[i].at = "out",
         NEW j, NEW p \in DOMAIN wire, Answers(wire[p], j)
  PROVE  \E k \in DOMAIN wire' : Answers(wire'[k], j)
<1>1. p # i
  BY DEF Answers
<1>2. Answers(wire'[p], j) /\ p \in DOMAIN wire'
  BY <1>1 DEF Replied
<1> QED
  BY <1>2

(* While a save is on the wire no apply runs.                              *)
LEMMA NoApplyBesides ==
  ASSUME Types, SafeInv, NEW i \in DOMAIN wire, wire[i].kind = "save",
         NEW j \in Running
  PROVE  server.jobs[j].kind # "apply"
<1>1. CASE JobRuns /\ store.job.id = j
  BY <1>1, SafeParts, Idle DEF Fit, RunsApply
<1>2. CASE \E p \in DOMAIN wire : Answers(wire[p], j)
  <2>1. PICK p \in DOMAIN wire : Answers(wire[p], j)
    BY <1>2
  <2>2. wire[p].kind # "apply"
    <3>1. wire[p].kind = "apply" => Excludes(wire[i], wire[p])
      BY DEF Excludes
    <3>2. wire[p].kind = "apply" => i = p
      BY <3>1, SafeParts DEF Apart
    <3> QED
      BY <3>2
  <2>3. Fit(wire[p], store, server)
    BY SafeParts
  <2>4. [job |-> j] # Unset
    <3>1. j \in Nat
      BY DEF Running, Types, Server
    <3> QED
      BY <3>1, CanvasAssumption DEF CanvasAssumption
  <2>5. server.jobs[j].kind = wire[p].kind
    BY <2>1, <2>3, <2>4 DEF Fit, Answers
  <2> QED
    BY <2>2, <2>5
<1> QED
  BY <1>1, <1>2, SafeParts DEF Follows

(* PUT /api/document: the canvas is in the file before its mark is gone.   *)
LEMMA PutsSafe ==
  ASSUME Types, SafeInv, NEW i \in DOMAIN wire, Puts(i) PROVE SafeInv'
<1> USE SafeParts
<1>1. /\ wire[i].kind = "save" /\ wire[i].at = "out" /\ Replied(i, Unset) /\ store' = store
      /\ server'.file = wire[i].doc /\ server'.jobs = server.jobs
  BY DEF Puts
<1>2. Apart'
  BY <1>1, ApartReplied
<1>3. ASSUME NEW p \in DOMAIN wire, p # i PROVE Fit(wire[p], store', server')
  <2>1. wire[p].kind \notin {"save", "load"}
    <3>1. wire[p].kind \in {"save", "load"} => Excludes(wire[i], wire[p])
      BY <1>1 DEF Excludes
    <3> QED
      BY <1>3, <3>1 DEF Apart
  <2>2. Fit(wire[p], store, server)
    OBVIOUS
  <2> QED
    BY <1>1, <2>1, <2>2 DEF Fit, Runs
<1>4. Fit(wire'[i], store', server')
  <2>1. Fit(wire[i], store, server)
    OBVIOUS
  <2>2. /\ wire'[i].kind = "save" /\ wire'[i].doc = wire[i].doc /\ wire'[i].then = wire[i].then
    BY <1>1 DEF Replied
  <2> QED
    BY <1>1, <2>1, <2>2 DEF Fit, Runs, RunsApply, Begins, Start
<1>5. Fits'
  BY <1>1, <1>3, <1>4, FitsReplied
<1>6. Running' = Running
  BY <1>1 DEF Running
<1>7. \A j \in Running' : Follows(j)'
  <2>1. ASSUME NEW j \in Running PROVE Follows(j)'
    <3>1. \A p \in DOMAIN wire : Answers(wire[p], j) => \E k \in DOMAIN wire' : Answers(wire'[k], j)
      BY <1>1, AnswersReplied
    <3>2. (JobRuns /\ store.job.id = j) \/ \E k \in DOMAIN wire' : Answers(wire'[k], j)
      BY <3>1 DEF Follows
    <3> QED
      BY <1>1, <3>2 DEF Follows, JobRuns, Answers
  <2> QED
    BY <1>6, <2>1
<1>8. \A j \in Running' : server'.jobs[j].kind # "apply"
  BY <1>1, <1>6, NoApplyBesides
<1>9. store'.canvas = server'.file
  BY <1>1 DEF Fit
<1> QED
  BY <1>1, <1>2, <1>5, <1>7, <1>8, <1>9, SafeThen

(* GET requests: what the file has is told while nobody else writes it.    *)
LEMMA TellsSafe ==
  ASSUME Types, SafeInv, NEW i \in DOMAIN wire, Tells(i) PROVE SafeInv'
<1> USE SafeParts
<1>1. wire[i].at = "out" /\ store' = store /\ server' = server
  BY DEF Tells
<1>2. PICK x : /\ Replied(i, x)
               /\ \/ wire[i].kind = "load" /\ x = server.file
                  \/ wire[i].kind = "latest"
                  \/ wire[i].kind = "job" /\ x = [status |-> server.jobs[wire[i].about.job].status]
                  \/ wire[i].kind \in Start /\ x = Unset
  BY DEF Tells
<1>3. Apart'
  BY <1>2, ApartReplied
<1>4. Fit(wire'[i], store', server')
  <2>1. Fit(wire[i], store, server)
    OBVIOUS
  <2>2. /\ wire'[i].kind = wire[i].kind /\ wire'[i].doc = wire[i].doc /\ wire'[i].then = wire[i].then
        /\ wire'[i].about = wire[i].about /\ wire'[i].reply = x
    BY <1>2 DEF Replied
  <2>3. CASE wire[i].kind = "job" /\ x = [status |-> server.jobs[wire[i].about.job].status]
    <3>1. x.status = server.jobs[wire[i].about.job].status
      BY <2>3
    <3> QED
      BY <1>1, <2>1, <2>2, <2>3, <3>1 DEF Fit, Begins, Start
  <2>4. CASE \/ wire[i].kind = "load" /\ x = server.file
             \/ wire[i].kind = "latest"
             \/ wire[i].kind \in Start /\ x = Unset
    BY <1>1, <2>1, <2>2, <2>4 DEF Fit, Begins, Start
  <2> QED
    BY <1>2, <2>3, <2>4
<1>5. Fits'
  BY <1>1, <1>2, <1>4, FitsReplied
<1>6. \A j \in Running' : Follows(j)'
  BY <1>1, <1>2, AnswersReplied, FollowsOn
<1> QED
  BY <1>1, <1>3, <1>5, <1>6, FilesStay, SafeThen

(* POST requests: the job that starts is the one that is about to be       *)
(* followed.                                                               *)
LEMMA StartsSafe ==
  ASSUME Types, SafeInv, NEW i \in DOMAIN wire, Starts(i) PROVE SafeInv'
<1> USE SafeParts
<1>1. PICK n : n = Len(server.jobs) + 1
  OBVIOUS
<1>2. /\ wire[i].kind \in Start /\ wire[i].at = "out" /\ Running = {}
      /\ Replied(i, [job |-> n]) /\ store' = store
      /\ server'.file = server.file
      /\ n \in Nat \ DOMAIN server.jobs /\ DOMAIN server'.jobs = DOMAIN server.jobs \cup {n}
      /\ \A j \in DOMAIN server.jobs : server'.jobs[j] = server.jobs[j]
      /\ server'.jobs[n].kind = wire[i].kind /\ server'.jobs[n].doc = server.file
  BY <1>1 DEF Starts, Accepts
<1>3. Apart'
  BY <1>2, ApartReplied
<1>4. RunsApply(store', server') = RunsApply(store, server)
  <2>1. Runs(store) => store.job.id \in DOMAIN server.jobs
    BY DEF Runs, Types
  <2> QED
    BY <1>2, <2>1 DEF RunsApply, Runs
<1>5. ASSUME NEW p \in DOMAIN wire, p # i PROVE Fit(wire[p], store', server')
  <2>1. Fit(wire[p], store, server) /\ MessageOK(wire[p], DOMAIN server.jobs)
    BY DEF Types
  <2>2. wire[p].kind = "job" => server'.jobs[wire[p].about.job] = server.jobs[wire[p].about.job]
    BY <1>2, <2>1 DEF MessageOK
  <2>3. wire[p].kind \in Start /\ wire[p].at = "in" /\ wire[p].reply # Unset
          => server'.jobs[wire[p].reply.job] = server.jobs[wire[p].reply.job]
    BY <1>2, <2>1 DEF MessageOK
  <2> QED
    BY <1>2, <1>4, <2>1, <2>2, <2>3 DEF Fit, Runs
<1>6. Fit(wire'[i], store', server')
  <2>1. Fit(wire[i], store, server)
    OBVIOUS
  <2>2. /\ wire'[i].kind = wire[i].kind /\ wire'[i].then = wire[i].then
        /\ wire'[i].reply = [job |-> n]
    BY <1>2 DEF Replied
  <2>3. wire'[i].reply.job = n
    BY <2>2
  <2> QED
    BY <1>2, <2>1, <2>2, <2>3 DEF Fit, Runs, Begins, Start
<1>7. Fits'
  BY <1>2, <1>5, <1>6, FitsReplied
<1>8. Running' \subseteq {n}
  <2>1. ASSUME NEW j \in DOMAIN server.jobs PROVE server'.jobs[j].status # "running"
    BY <1>2 DEF Running
  <2> QED
    BY <1>2, <2>1 DEF Running
<1>9. Follows(n)'
  <2>1. Answers(wire'[i], n) /\ i \in DOMAIN wire'
    BY <1>2 DEF Replied, Answers
  <2> QED
    BY <2>1 DEF Follows, Answers
<1>10. \A j \in Running' : Follows(j)'
  <2>1. ASSUME NEW j \in Running' PROVE Follows(j)'
    <3>1. j = n
      BY <1>8
    <3> QED
      BY <1>9, <3>1
  <2> QED
    BY <2>1
<1>11. \A j \in Running' : server'.jobs[j].doc = server'.file
  BY <1>2, <1>8
<1> QED
  BY <1>2, <1>3, <1>7, <1>10, <1>11, SafeThen

(* The end of a job: an apply writes back what is in the file.             *)
LEMMA EndsSafe ==
  ASSUME Types, SafeInv, NEW j \in Running, Ends(j) PROVE SafeInv'
<1> USE SafeParts
<1>1. /\ store' = store /\ wire' = wire /\ DOMAIN server'.jobs = DOMAIN server.jobs
      /\ j \in DOMAIN server.jobs
      /\ \A k \in DOMAIN server.jobs :
           /\ server'.jobs[k].kind = server.jobs[k].kind /\ server'.jobs[k].doc = server.jobs[k].doc
           /\ server.jobs[k].status # "running" => server'.jobs[k].status # "running"
  BY DEF Ends, Running
<1>2. server'.file = server.file
  BY DEF Ends
<1>3. Apart'
  BY <1>1 DEF Apart, Excludes, Begins
<1>4. RunsApply(store', server') = RunsApply(store, server)
  <2>1. Runs(store) => store.job.id \in DOMAIN server.jobs
    BY DEF Runs, Types
  <2> QED
    BY <1>1, <2>1 DEF RunsApply, Runs
<1>5. ASSUME NEW p \in DOMAIN wire PROVE Fit(wire'[p], store', server')
  <2>1. Fit(wire[p], store, server) /\ MessageOK(wire[p], DOMAIN server.jobs)
    BY DEF Types
  <2>2. wire[p].kind = "job" => wire[p].about.job \in DOMAIN server.jobs
    BY <2>1 DEF MessageOK
  <2>3. wire[p].kind \in Start /\ wire[p].at = "in" /\ wire[p].reply # Unset
          => wire[p].reply.job \in DOMAIN server.jobs
    BY <2>1 DEF MessageOK
  <2> QED
    BY <1>1, <1>2, <1>4, <2>1, <2>2, <2>3 DEF Fit, Runs
<1>6. Fits'
  BY <1>1, <1>5 DEF Fits, Fit, RunsApply, Runs, Begins
<1>7. \A k \in Running' : k \in Running
  BY <1>1 DEF Running
<1>8. \A k \in Running' : Follows(k)'
  <2>1. ASSUME NEW k \in Running PROVE Follows(k)'
    BY <1>1 DEF Follows, JobRuns, Answers
  <2> QED
    BY <1>7, <2>1
<1>9. \A k \in Running' : server'.jobs[k].kind = "apply" => server'.jobs[k].doc = server'.file
  BY <1>1, <1>2, <1>7 DEF Running
<1> QED
  BY <1>1, <1>2, <1>3, <1>6, <1>8, <1>9, SafeThen

-----------------------------------------------------------------------------
(* Message i goes and the canvas stays.                                    *)
LEMMA MovedSafe ==
  ASSUME Types, SafeInv, NEW i \in DOMAIN wire, NEW news, NEW n, Moved(i, news, n),
         \A m \in news : /\ \A p \in DOMAIN wire \ {i} : ~Excludes(wire[p], m) /\ ~Excludes(m, wire[p])
                         /\ Fit(m, store', server'),
         \A j : ~Answers(wire[i], j),
         SameJob, store'.canvas = store.canvas, store'.confirm = store.confirm, server' = server,
         store'.dirty \/ store'.canvas = server.file,
         store'.plan = store.plan \/ store'.plan # NoPlan
  PROVE  SafeInv'
<1> USE SafeParts
<1>1. i \in Nat
  BY DEF Types
<1>2. Apart'
  BY <1>1, ApartMoves
<1>3. \A p \in DOMAIN wire : Fit(wire[p], store', server')
  BY FitStays
<1>4. Fits'
  BY <1>3, FitsMoves
<1>5. \A j \in Running' : Follows(j)'
  BY FollowsMoved DEF SameJob
<1>6. store'.confirm => store'.plan # NoPlan /\ ~Runs(store')
  BY DEF Runs, SameJob
<1>7. \A id \in store'.streams : Runs(store') /\ store'.job.id = id
  BY DEF Runs, SameJob
<1> QED
  BY <1>2, <1>4, <1>5, <1>6, <1>7, FilesStay, SafeThen

(* Only requests for a job have a job for an answer.                       *)
LEMMA NotStart ==
  ASSUME NEW r, r.kind \notin Start PROVE \A j : ~Answers(r, j)
  BY DEF Answers

(* The plan that follows a save.                                           *)
LEMMA ThenSafe ==
  ASSUME Types, SafeInv, NEW i \in DOMAIN wire, NEW n, wire[i].kind \notin Start,
         wire[i].then = "none" => Moved(i, {}, n),
         wire[i].then # "none" => AnswersMove(i, wire[i].then, n),
         SameJob, store'.canvas = store.canvas, store'.confirm = store.confirm, server' = server,
         store'.dirty \/ store'.canvas = server.file,
         store'.plan = store.plan \/ store'.plan # NoPlan
  PROVE  SafeInv'
<1> USE SafeParts
<1>1. CASE wire[i].then = "none"
  BY <1>1, MovedSafe, NotStart
<1>2. CASE wire[i].then # "none"
  <2>1. wire[i] \in Message /\ MessageOK(wire[i], DOMAIN server.jobs)
    BY ElementTyped DEF Types
  <2>2. wire[i].then \in {"plan", "destroy"}
    BY <1>2, <2>1 DEF Message
  <2>3. PICK news : Moved(i, news, n) /\ Leave(news, wire[i].then)
    BY <1>2 DEF AnswersMove
  <2>4. Begins(wire[i])
    BY <1>2 DEF Begins
  <2>5. ASSUME NEW p \in DOMAIN wire \ {i} PROVE ~Begins(wire[p]) /\ wire[p].kind # "load"
    BY <2>4, <2>5 DEF Apart, Excludes
  <2>6. ~Runs(store') /\ ~store'.confirm
    BY <2>4 DEF Fit, Runs, SameJob
  <2>7. ASSUME NEW m \in news
        PROVE  /\ \A p \in DOMAIN wire \ {i} : ~Excludes(wire[p], m) /\ ~Excludes(m, wire[p])
               /\ Fit(m, store', server')
    <3>1. m.kind \in {"plan", "destroy"} /\ m.then = "none" /\ m.at = "out"
      BY <2>2, <2>3, <2>7 DEF Leave
    <3>2. \A p \in DOMAIN wire \ {i} : ~Excludes(wire[p], m) /\ ~Excludes(m, wire[p])
      BY <2>5, <3>1 DEF Excludes
    <3>3. Fit(m, store', server')
      BY <2>6, <3>1 DEF Fit
    <3> QED
      BY <3>2, <3>3
  <2>8. \A j : ~Answers(wire[i], j)
    BY NotStart
  <2> QED
    BY <2>3, <2>7, <2>8, MovedSafe
<1> QED
  BY <1>1, <1>2

(* The answer to a save clears the mark of a canvas that is in the file.   *)
LEMMA SavesSafe ==
  ASSUME Types, SafeInv, NEW i \in DOMAIN wire, Saves(i) PROVE SafeInv'
<1>1. store'.canvas = server.file
  BY SafeParts DEF Saves, Fit
<1> QED
  BY <1>1, ThenSafe DEF Saves, Start

(* The answer to a validation.                                             *)
LEMMA ValidatesSafe ==
  ASSUME Types, SafeInv, NEW i \in DOMAIN wire, Validates(i) PROVE SafeInv'
<1>1. store'.dirty \/ store'.canvas = server.file
  BY SafeParts DEF Validates, SameCanvas
<1>2. wire[i].kind \notin Start
  BY DEF Validates, Start
<1> QED
  BY <1>1, <1>2, NotStart, MovedSafe DEF Validates, SameCanvas

(* The answer about the last plan.                                         *)
LEMMA LearnsSafe ==
  ASSUME Types, SafeInv, NEW i \in DOMAIN wire, Learns(i) PROVE SafeInv'
<1>1. store'.dirty \/ store'.canvas = server.file
  BY SafeParts DEF Learns, SameCanvas
<1>2. wire[i].kind \notin Start
  BY DEF Learns, Start
<1> QED
  BY <1>1, <1>2, NotStart, MovedSafe DEF Learns, SameCanvas

(* A request that is lost, unless it asked for a job or about one.         *)
LEMMA LosesRequestSafe ==
  ASSUME Types, SafeInv, NEW i \in DOMAIN wire, LosesRequest(i), ~watch'.blind PROVE SafeInv'
<1>1. store'.dirty \/ store'.canvas = server.file
  BY SafeParts DEF LosesRequest
<1>2. wire[i].kind \notin Start
  BY DEF LosesRequest, Loses
<1> QED
  BY <1>1, <1>2, ThenSafe DEF LosesRequest, Loses, SameJob

(* load: nothing else is under way that the canvas could contradict.       *)
LEMMA LoadsSafe ==
  ASSUME Types, SafeInv, NEW i \in DOMAIN wire, Loads(i) PROVE SafeInv'
<1> USE SafeParts
<1>1. /\ wire[i].kind = "load" /\ wire[i].at = "in" /\ server' = server /\ SameJob
      /\ store'.plan = store.plan /\ store'.confirm = store.confirm
      /\ store'.canvas = wire[i].reply
  BY DEF Loads
<1>2. PICK news : Moved(i, news, Len(wire)) /\ Leave(news, "latest")
  BY DEF Loads, AnswersMove
<1>3. i \in Nat
  BY DEF Types
<1>4. ASSUME NEW m \in news
      PROVE  /\ \A p \in DOMAIN wire \ {i} : ~Excludes(wire[p], m) /\ ~Excludes(m, wire[p])
             /\ Fit(m, store', server')
  <2>1. m.kind = "latest" /\ m.then = "none"
    BY <1>2, <1>4 DEF Leave
  <2> QED
    BY <2>1 DEF Excludes, Fit, Begins, Start
<1>5. Apart'
  BY <1>2, <1>3, <1>4, ApartMoves
<1>6. ASSUME NEW p \in DOMAIN wire \ {i} PROVE Fit(wire[p], store', server')
  <2>1. wire[p].kind # "save"
    BY <1>1, <1>6 DEF Apart, Excludes
  <2>2. Fit(wire[p], store, server)
    OBVIOUS
  <2> QED
    BY <1>1, <2>1, <2>2 DEF Fit, Runs, SameJob
<1>7. Fits'
  BY <1>2, <1>4, <1>6, FitsMoves
<1>8. \A j : ~Answers(wire[i], j)
  BY <1>1, NotStart DEF Start
<1>9. \A j \in Running' : Follows(j)'
  BY <1>1, <1>2, <1>8, FollowsMoved DEF SameJob
<1>10. store'.canvas = server'.file
  BY <1>1 DEF Fit
<1>11. store'.confirm => store'.plan # NoPlan /\ ~Runs(store')
  BY <1>1 DEF Runs, SameJob
<1>12. \A id \in store'.streams : Runs(store') /\ store'.job.id = id
  BY <1>1 DEF Runs, SameJob
<1> QED
  BY <1>1, <1>5, <1>7, <1>9, <1>10, <1>11, <1>12, FilesStay, SafeThen

(* streamJob: the canvas follows the job whose number it has been told.    *)
LEMMA FollowedSafe ==
  ASSUME Types, SafeInv, NEW i \in DOMAIN wire, Followed(i) PROVE SafeInv'
<1> USE SafeParts
<1>1. /\ wire[i].kind \in Start /\ wire[i].at = "in" /\ server' = server
      /\ store'.canvas = store.canvas /\ store'.dirty = store.dirty
      /\ store'.plan = store.plan /\ store'.confirm = store.confirm /\ Moved(i, {}, 0)
  BY DEF Followed, SameCanvas
<1>2. CASE wire[i].reply = Unset
  <2>1. \A j \in Nat : ~Answers(wire[i], j)
    BY <1>2, CanvasAssumption DEF CanvasAssumption, Answers
  <2>2. SameJob
    BY <1>2 DEF Followed
  <2>3. Apart' /\ Fits'
    <3>1. i \in Nat
      BY DEF Types
    <3>2. \A p \in DOMAIN wire : Fit(wire[p], store', server')
      BY <1>1, <2>2, FitStays
    <3> QED
      BY <1>1, <3>1, <3>2, ApartMoves, FitsMoves
  <2>4. \A j \in Running' : Follows(j)'
    <3>1. ASSUME NEW j \in Running PROVE Follows(j)'
      <4>1. j \in Nat
        BY DEF Running, Types, Server
      <4>2. ASSUME NEW p \in DOMAIN wire, Answers(wire[p], j)
            PROVE  \E k \in DOMAIN wire' : Answers(wire'[k], j)
        <5>1. p \in DOMAIN wire \ {i}
          BY <2>1, <4>1, <4>2
        <5> QED
          BY <1>1, <4>2, <5>1, AnswersStay
      <4>3. (JobRuns /\ store.job.id = j) \/ \E k \in DOMAIN wire' : Answers(wire'[k], j)
        BY <4>2 DEF Follows
      <4> QED
        BY <2>2, <4>3 DEF Follows, JobRuns, SameJob, Answers
    <3>2. Running' = Running
      BY <1>1 DEF Running
    <3> QED
      BY <3>1, <3>2
  <2>5. store'.confirm => store'.plan # NoPlan /\ ~Runs(store')
    BY <1>1, <2>2 DEF Runs, SameJob
  <2>6. \A id \in store'.streams : Runs(store') /\ store'.job.id = id
    BY <2>2 DEF Runs, SameJob
  <2> QED
    BY <1>1, <2>3, <2>4, <2>5, <2>6, FilesStay, SafeThen
<1>3. CASE wire[i].reply # Unset
  <2> DEFINE id == wire[i].reply.job
  <2>1. /\ store'.job = [id |-> id, status |-> "running"] /\ store'.streams = store.streams \cup {id}
    BY <1>3 DEF Followed
  <2>2. Begins(wire[i]) /\ Fit(wire[i], store, server)
    BY <1>1 DEF Begins
  <2>3. ~Runs(store) /\ ~store'.confirm /\ store.streams = {} /\ server.jobs[id].kind = wire[i].kind
    BY <1>1, <1>3, <2>2 DEF Fit
  <2>4. wire[i].reply = [job |-> id] /\ id \in Nat
    <3>1. MessageOK(wire[i], DOMAIN server.jobs) /\ DOMAIN server.jobs \subseteq Nat
      BY DEF Types, Server
    <3>2. wire[i].reply \in [job : DOMAIN server.jobs]
      BY <1>1, <1>3, <3>1 DEF MessageOK, Start
    <3> QED
      BY <3>1, <3>2
  <2> HIDE DEF id
  <2>5. store'.job.id = id /\ store'.job.status = "running" /\ store'.job # NoJob
    BY <2>1, <2>4, CanvasAssumption DEF CanvasAssumption, Status
  <2>6. Runs(store') /\ \A x \in store'.streams : x = id
    BY <2>1, <2>3, <2>5 DEF Runs
  <2>7. Apart'
    <3>1. i \in Nat
      BY DEF Types
    <3> QED
      BY <1>1, <3>1, ApartMoves
  <2>8. ASSUME NEW p \in DOMAIN wire \ {i} PROVE Fit(wire[p], store', server')
    <3>1. Fit(wire[p], store, server)
      OBVIOUS
    <3>2. ~Begins(wire[p]) /\ wire[p].kind # "load"
      BY <2>2, <2>8 DEF Apart, Excludes
    <3>3. wire[p].kind # "job"
      BY <2>3, <3>1 DEF Fit
    <3>4. wire[p].kind = "save" => ~RunsApply(store', server')
      <4>1. wire[p].kind = "save" => wire[i].kind # "apply"
        BY <2>8 DEF Apart, Excludes
      <4> QED
        BY <1>1, <2>3, <2>5, <4>1 DEF RunsApply
    <3> QED
      BY <1>1, <3>1, <3>2, <3>3, <3>4 DEF Fit, Begins
  <2>9. Fits'
    BY <1>1, <2>8, FitsMoves
  <2>10. ASSUME NEW j \in Running PROVE j = id
    <3>1. PICK p \in DOMAIN wire : Answers(wire[p], j)
      BY <2>3, Idle DEF Follows
    <3>2. p = i
      BY <2>2, <3>1 DEF Apart, Excludes, Answers, Begins
    <3>3. [job |-> j] = [job |-> id]
      BY <2>4, <3>1, <3>2 DEF Answers
    <3>4. [job |-> j].job = [job |-> id].job
      BY <3>3
    <3> QED
      BY <3>4
  <2>11. \A j \in Running' : Follows(j)'
    <3>1. Running' = Running
      BY <1>1 DEF Running
    <3>2. ASSUME NEW j \in Running PROVE Follows(j)'
      BY <2>5, <2>10 DEF Follows, JobRuns
    <3> QED
      BY <3>1, <3>2
  <2> QED
    BY <1>1, <2>3, <2>5, <2>6, <2>7, <2>9, <2>11, FilesStay, SafeThen
<1> QED
  BY <1>2, <1>3

-----------------------------------------------------------------------------
(* The job that ends is the one the canvas follows.                        *)
LEMMA FinishesIts ==
  ASSUME Types, SafeInv, NEW id, NEW i, Finishes(id, i)
  PROVE  /\ Runs(store) /\ store.job.id = id /\ id \notin Running
         /\ i \in DOMAIN wire => wire[i].kind = "job"
         /\ \A p \in DOMAIN wire \ {i} : ~Begins(wire[p]) /\ wire[p].kind \notin {"job", "load"}
         /\ \A p \in DOMAIN wire : ~Begins(wire[p])
<1> USE SafeParts
<1>0. i = Nobody => i \notin DOMAIN wire
  BY NobodyThere DEF Types
<1>1. CASE i = Nobody /\ id \in store.streams \ Running
  <2>1. Runs(store) /\ store.job.id = id /\ store.streams # {}
    BY <1>1
  <2>2. ASSUME NEW p \in DOMAIN wire
        PROVE  ~Begins(wire[p]) /\ wire[p].kind \notin {"job", "load"}
    <3>1. Fit(wire[p], store, server)
      OBVIOUS
    <3> QED
      BY <2>1, <3>1 DEF Fit
  <2> QED
    BY <1>0, <1>1, <2>1, <2>2
<1>2. CASE /\ i \in DOMAIN wire /\ wire[i].kind = "job" /\ wire[i].at = "in"
           /\ wire[i].about.job = id /\ wire[i].reply.status # "running"
  <2>1. Fit(wire[i], store, server)
    BY <1>2
  <2>2. Runs(store) /\ store.job.id = id /\ server.jobs[id].status # "running"
    BY <1>2, <2>1 DEF Fit
  <2>3. id \notin Running
    BY <2>2 DEF Running
  <2>4. ASSUME NEW p \in DOMAIN wire
        PROVE  ~Begins(wire[p]) /\ wire[p].kind # "load" /\ (p # i => wire[p].kind # "job")
    <3>1. Fit(wire[p], store, server)
      OBVIOUS
    <3>2. p # i => wire[p].kind # "job"
      BY <1>2 DEF Apart, Excludes
    <3> QED
      BY <2>2, <3>1, <3>2 DEF Fit
  <2> QED
    BY <1>2, <2>2, <2>3, <2>4
<1> QED
  BY <1>1, <1>2 DEF Finishes

(* onDone: no job runs any more, and the file is loaded when it may have   *)
(* changed.                                                                *)
LEMMA FinishesSafe ==
  ASSUME Types, SafeInv, NEW id, NEW i, Finishes(id, i) PROVE SafeInv'
<1> USE SafeParts
<1>1. /\ Runs(store) /\ store.job.id = id /\ id \notin Running
      /\ \A p \in DOMAIN wire \ {i} : ~Begins(wire[p]) /\ wire[p].kind \notin {"job", "load"}
      /\ \A p \in DOMAIN wire : ~Begins(wire[p])
  BY FinishesIts
<1>2. /\ server' = server /\ store'.canvas = store.canvas /\ store'.dirty = store.dirty
      /\ store'.job = [id |-> id, status |-> JobOf(id).status]
      /\ store'.streams = store.streams \ {id} /\ id \in DOMAIN server.jobs
  BY DEF Finishes, SameCanvas
<1>3. JobOf(id).status # "running"
  BY <1>1, <1>2 DEF Running, JobOf
<1>4. ~Runs(store') /\ store'.streams = {}
  <2>1. store'.job.status = JobOf(id).status
    BY <1>2
  <2> QED
    BY <1>1, <1>2, <1>3, <2>1 DEF Runs
<1>5. i \in Nat
  BY NobodyThere DEF Finishes, Types
<1>6. PICK news : /\ Moved(i, news, 0)
                  /\ \A m \in news : m.kind = "load" /\ m.at = "out" /\ m.then = "none"
                  /\ news # {} => Applied(id)
  <2>1. CASE Applied(id)
    BY <2>1 DEF Finishes, AnswersMove, Leave
  <2>2. CASE ~Applied(id)
    BY <2>2 DEF Finishes
  <2> QED
    BY <2>1, <2>2
<1>7. ASSUME NEW m \in news
      PROVE  /\ \A p \in DOMAIN wire \ {i} : ~Excludes(wire[p], m) /\ ~Excludes(m, wire[p])
             /\ Fit(m, store', server')
  <2>1. m.kind = "load" /\ m.at = "out" /\ m.then = "none"
    BY <1>6, <1>7
  <2>2. RunsApply(store, server)
    BY <1>1, <1>6, <1>7 DEF RunsApply, Applied, JobOf
  <2>3. \A p \in DOMAIN wire : wire[p].kind # "save"
    BY <2>2 DEF Fit
  <2>4. \A p \in DOMAIN wire \ {i} : ~Excludes(wire[p], m) /\ ~Excludes(m, wire[p])
    BY <1>1, <2>1, <2>3 DEF Excludes, Begins, Start
  <2>5. Fit(m, store', server')
    BY <1>4, <2>1 DEF Fit, Begins, Start
  <2> QED
    BY <2>4, <2>5
<1>8. Apart'
  BY <1>5, <1>6, <1>7, ApartMoves
<1>9. ASSUME NEW p \in DOMAIN wire \ {i} PROVE Fit(wire[p], store', server')
  <2>1. Fit(wire[p], store, server) /\ ~Begins(wire[p]) /\ wire[p].kind \notin {"job", "load"}
    BY <1>1
  <2>2. ~RunsApply(store', server')
    BY <1>4 DEF RunsApply
  <2> QED
    BY <1>2, <2>1, <2>2 DEF Fit, Begins
<1>10. Fits'
  BY <1>6, <1>7, <1>9, FitsMoves
<1>11. Running' = {}
  <2>1. ASSUME NEW j \in Running PROVE FALSE
    <3>1. CASE JobRuns /\ store.job.id = j
      BY <1>1, <3>1
    <3>2. CASE \E p \in DOMAIN wire : Answers(wire[p], j)
      BY <1>1, <3>2 DEF Answers, Begins
    <3> QED
      BY <3>1, <3>2 DEF Follows
  <2> QED
    BY <1>2, <2>1 DEF Running
<1>12. store'.confirm => store'.plan # NoPlan
  <2>1. ~store.confirm
    BY <1>1
  <2>2. PlanOf(id) # NoPlan
    <3>1. PlanOf(id) \in Plan
      <4>1. server.jobs[id] \in [kind : Start, doc : Diagram, status : Status]
        BY <1>2, ElementTyped DEF Types, Server
      <4> QED
        BY <4>1 DEF PlanOf, Plan
    <3> QED
      BY <3>1, CanvasAssumption DEF CanvasAssumption
  <2> QED
    BY <2>1, <2>2 DEF Finishes
<1> QED
  BY <1>2, <1>4, <1>8, <1>10, <1>11, <1>12, SafeThen

(* streamJob's onerror: the job is asked for instead.                      *)
LEMMA LosesStreamSafe ==
  ASSUME Types, SafeInv, NEW id, LosesStream(id) PROVE SafeInv'
<1> USE SafeParts
<1>0. wire \in Seq(Message) /\ Nobody \in Nat /\ Nobody \notin DOMAIN wire
  BY NobodyThere DEF Types
<1>1. /\ id \in store.streams /\ server' = server
      /\ store'.canvas = store.canvas /\ store'.dirty = store.dirty
      /\ store'.job = store.job /\ store'.streams = store.streams \ {id}
      /\ store'.plan = store.plan /\ store'.confirm = store.confirm
  BY DEF LosesStream, Loses, SameCanvas
<1>2. PICK m : /\ Moved(Nobody, {m}, 0) /\ m.kind = "job" /\ m.at = "out" /\ m.then = "none"
               /\ m.about = [job |-> id]
  BY DEF LosesStream
<1>3. Runs(store) /\ store.job.id = id /\ Runs(store') /\ store'.streams = {}
  BY <1>1 DEF Runs
<1>4. RunsApply(store', server') = RunsApply(store, server)
  BY <1>1 DEF RunsApply, Runs
<1>5. ASSUME NEW p \in DOMAIN wire
      PROVE  /\ Fit(wire[p], store', server')
             /\ ~Excludes(wire[p], m) /\ ~Excludes(m, wire[p])
  <2>1. Fit(wire[p], store, server)
    OBVIOUS
  <2>2. wire[p].kind # "job" /\ wire[p].kind # "load" /\ ~Begins(wire[p])
    BY <1>1, <1>3, <2>1 DEF Fit
  <2> QED
    BY <1>1, <1>2, <1>4, <2>1, <2>2 DEF Fit, Excludes, Begins, Start
<1>6. \A x \in {m} : /\ \A p \in DOMAIN wire \ {Nobody} : ~Excludes(wire[p], x) /\ ~Excludes(x, wire[p])
                     /\ Fit(x, store', server')
  <2>1. m.about.job = id
    BY <1>2
  <2>2. Fit(m, store', server')
    BY <1>1, <1>2, <1>3, <2>1 DEF Fit, Begins, Start
  <2> QED
    BY <1>5, <2>2
<1>7. Apart'
  BY <1>0, <1>2, <1>6, ApartMoves
<1>8. Fits'
  BY <1>2, <1>5, <1>6, FitsMoves
<1>9. \A j \in Running' : Follows(j)'
  BY <1>0, <1>1, <1>2, FollowsMoved
<1>10. store'.confirm => store'.plan # NoPlan /\ ~Runs(store')
  BY <1>1, <1>3
<1> QED
  BY <1>1, <1>3, <1>7, <1>8, <1>9, <1>10, FilesStay, SafeThen

(* A canvas that lost a job never finds it again, and haste is not undone. *)
LEMMA TrustedBefore ==
  ASSUME Types, [Next]_vars, Trusted' PROVE Trusted
<1> USE DEF Trusted
<1>1. CASE Draws \/ Dialogs
  BY <1>1 DEF Draws, Dialogs, UserActed
<1>2. CASE \E m : Asks(m)
  BY <1>2 DEF Asks, AsksToSave, AsksToPlan, AsksToApply, AsksToValidate, UserActed
<1>3. CASE \E i \in DOMAIN wire : Puts(i) \/ Tells(i) \/ Starts(i)
  BY <1>3 DEF Puts, Tells, Starts, Firm
<1>4. CASE \E j \in Running : Ends(j)
  BY <1>4 DEF Ends
<1>5. CASE \E i \in DOMAIN wire : AnswerEffect(i)
  BY <1>5 DEF AnswerEffect, Saves, Validates, Loads, Learns, Followed, GoesBlind, Noticed, Firm
<1>6. CASE \E id, i : Finishes(id, i)
  BY <1>6 DEF Finishes, Firm
<1>7. CASE (\E i \in DOMAIN wire : LosesRequest(i)) \/ \E id : LosesStream(id)
  BY <1>7 DEF LosesRequest, LosesStream, Loses
<1>8. CASE UNCHANGED vars
  BY <1>8 DEF vars
<1> QED
  BY <1>1, <1>2, <1>3, <1>4, <1>5, <1>6, <1>7, <1>8, Effects

(* Each step keeps SafeInv, as long as the jobs are followed.              *)
LEMMA SafeStep ==
  ASSUME Types, SafeInv, [Next]_vars, Trusted' PROVE SafeInv'
<1> USE DEF Trusted
<1>1. CASE Draws
  BY <1>1, DrawsSafe
<1>2. CASE Dialogs
  BY <1>2, DialogsSafe
<1>3. CASE \E m : Asks(m)
  BY <1>3, AsksSafe
<1>4. CASE \E i \in DOMAIN wire : Puts(i) \/ Tells(i) \/ Starts(i)
  BY <1>4, PutsSafe, TellsSafe, StartsSafe
<1>5. CASE \E j \in Running : Ends(j)
  BY <1>5, EndsSafe
<1>6. CASE \E i \in DOMAIN wire : AnswerEffect(i)
  <2>1. PICK i \in DOMAIN wire : AnswerEffect(i)
    BY <1>6
  <2>2. ~GoesBlind(i)
    BY DEF GoesBlind
  <2> QED
    BY <2>1, <2>2, SavesSafe, ValidatesSafe, LoadsSafe, LearnsSafe, FollowedSafe DEF AnswerEffect
<1>7. CASE \E id, i : Finishes(id, i)
  BY <1>7, FinishesSafe
<1>8. CASE \E i \in DOMAIN wire : LosesRequest(i)
  BY <1>8, LosesRequestSafe
<1>9. CASE \E id : LosesStream(id)
  BY <1>9, LosesStreamSafe
<1>10. CASE UNCHANGED vars
  BY <1>10 DEF vars, SafeInv, Apart, Fits, Tracked, InFile, Fit, Runs, RunsApply, Excludes, Begins,
            Running, Follows, JobRuns, Answers
<1> QED
  BY <1>1, <1>2, <1>3, <1>4, <1>5, <1>6, <1>7, <1>8, <1>9, <1>10, Effects

(* It holds when the tab has been opened.                                  *)
LEMMA SafeInit ==
  ASSUME Init PROVE SafeInv
<1> DEFINE m == Request([kind |-> "latest"])
<1>1. m.kind = "latest" /\ m.then = "none"
  BY RequestFields
<1> HIDE DEF m
<1>2. wire = <<m>> /\ store.job = NoJob /\ ~store.confirm /\ store.streams = {}
      /\ store.canvas = First
  BY DEF Init, m
<1>3. \A i \in DOMAIN wire : wire[i] = m /\ i = 1
  BY <1>2
<1>4. server.file = First /\ DOMAIN server.jobs = {}
  BY DEF Init
<1> QED
  BY <1>1, <1>2, <1>3, <1>4 DEF SafeInv, Apart, Fits, Fit, Tracked, InFile, Begins, Start, Running

-----------------------------------------------------------------------------
(* The job the canvas follows, or is about to, is one.                     *)
LEMMA FollowsOne ==
  ASSUME Types, SafeInv, NEW j \in Nat, NEW k \in Nat, Follows(j), Follows(k)
  PROVE  j = k
<1> USE SafeParts
<1>1. ASSUME NEW p \in DOMAIN wire, NEW q, Answers(wire[p], q)
      PROVE  ~JobRuns /\ Begins(wire[p])
  <2>1. Fit(wire[p], store, server) /\ Begins(wire[p])
    BY <1>1 DEF Answers, Begins
  <2> QED
    BY <2>1, Idle DEF Fit
<1>2. CASE JobRuns
  BY <1>1, <1>2 DEF Follows
<1>3. CASE ~JobRuns
  <2>1. PICK p, q \in DOMAIN wire : Answers(wire[p], j) /\ Answers(wire[q], k)
    BY <1>3 DEF Follows
  <2>2. p = q
    BY <1>1, <2>1 DEF Apart, Excludes
  <2>3. [job |-> j] = [job |-> k]
    BY <2>1, <2>2 DEF Answers
  <2>4. [job |-> j].job = [job |-> k].job
    BY <2>3
  <2> QED
    BY <2>4
<1> QED
  BY <1>2, <1>3

(* While a request for a job is out no job is followed.                    *)
LEMMA NoneBesides ==
  ASSUME SafeInv, NEW i \in DOMAIN wire, wire[i].kind \in Start, wire[i].at = "out", NEW j
  PROVE  ~Follows(j)
<1> USE SafeParts
<1>1. Begins(wire[i]) /\ Fit(wire[i], store, server)
  BY DEF Begins
<1>2. ~JobRuns
  BY <1>1, Idle DEF Fit
<1>3. ASSUME NEW p \in DOMAIN wire, Answers(wire[p], j) PROVE FALSE
  <2>1. p = i
    BY <1>1, <1>3 DEF Answers, Begins, Apart, Excludes
  <2> QED
    BY <1>3, <2>1 DEF Answers
<1> QED
  BY <1>2, <1>3 DEF Follows

(* The canvas follows the jobs it followed when no answer with a job comes *)
(* or goes.                                                                *)
LEMMA FollowsSame ==
  ASSUME NEW i, NEW news, NEW n, Moved(i, news, n), store'.job = store.job,
         NEW j, \A m \in news : ~Answers(m, j), i \in DOMAIN wire => ~Answers(wire[i], j)
  PROVE  Follows(j)' <=> Follows(j)
<1>1. ASSUME NEW p \in DOMAIN wire, Answers(wire[p], j)
      PROVE  \E k \in DOMAIN wire' : Answers(wire'[k], j)
  <2>1. p \in DOMAIN wire \ {i}
    BY <1>1
  <2> QED
    BY <1>1, <2>1, AnswersStay
<1>2. ASSUME NEW k \in DOMAIN wire', Answers(wire'[k], j)
      PROVE  \E p \in DOMAIN wire : Answers(wire[p], j)
  <2>1. Was(i, k) \in DOMAIN wire /\ Same(wire'[k], wire[Was(i, k)])
    BY <1>2 DEF Moved
  <2>2. Answers(wire[Was(i, k)], j)
    BY <1>2, <2>1 DEF Same, Answers
  <2> QED
    BY <2>1, <2>2
<1>3. JobRuns' <=> JobRuns
  BY DEF JobRuns
<1> QED
  BY <1>1, <1>2, <1>3 DEF Follows, Answers

(* Orders that move are what they were.                                    *)
LEMMA OrdersMove ==
  ASSUME NEW i, NEW news, NEW n, Moved(i, news, n), server' = server,
         \A p \in DOMAIN wire : Orders(wire[p], server), \A m \in news : Orders(m, server)
  PROVE  \A k \in DOMAIN wire' : Orders(wire'[k], server')
<1>1. ASSUME NEW k \in DOMAIN wire' PROVE Orders(wire'[k], server)
  <2>1. CASE Was(i, k) \in DOMAIN wire \ {i} /\ Same(wire'[k], wire[Was(i, k)])
    <3>1. Orders(wire[Was(i, k)], server)
      BY <2>1
    <3> QED
      BY <2>1, <3>1 DEF Same, Orders
  <2>2. CASE wire'[k] \in news
    BY <2>2
  <2> QED
    BY <2>1, <2>2 DEF Moved
<1> QED
  BY <1>1

(* The parts of PlanInv.                                                   *)
LEMMA PlanParts ==
  ASSUME PlanInv
  PROVE  /\ \A j \in DOMAIN server.jobs : Follows(j) /\ Plans(j) => server.planned = PlanOf(j)
         /\ \/ \E j \in DOMAIN server.jobs : Follows(j) /\ Plans(j)
            \/ store.plan = NoPlan
            \/ server.planned \in {NoPlan, store.plan}
         /\ \A i \in DOMAIN wire : Orders(wire[i], server)
  BY DEF PlanInv

(* How PlanInv is shown to hold after a step.                              *)
LEMMA PlanThen ==
  ASSUME \A j \in DOMAIN server'.jobs : Follows(j)' /\ Plans(j)' => server'.planned = PlanOf(j)',
         \/ \E j \in DOMAIN server'.jobs : Follows(j)' /\ Plans(j)'
         \/ store'.plan = NoPlan
         \/ server'.planned \in {NoPlan, store'.plan},
         \A k \in DOMAIN wire' : Orders(wire'[k], server')
  PROVE  PlanInv'
<1>1. (\A k \in DOMAIN wire : Orders(wire[k], server))'
  BY DEF Orders
<1> QED
  BY <1>1 DEF PlanInv

(* The canvas shows the plan it showed, none or the last one.              *)
LEMMA PlanStays ==
  ASSUME PlanInv, server' = server, \A j \in DOMAIN server.jobs : Follows(j)' <=> Follows(j),
         store'.plan \in {store.plan, NoPlan, server.planned},
         \A k \in DOMAIN wire' : Orders(wire'[k], server')
  PROVE  PlanInv'
<1>1. \A j : (Plans(j)' <=> Plans(j)) /\ PlanOf(j)' = PlanOf(j)
  BY DEF Plans, PlanOf
<1>2. \A j \in DOMAIN server'.jobs : Follows(j)' /\ Plans(j)' => server'.planned = PlanOf(j)'
  BY <1>1, PlanParts
<1>3. \/ \E j \in DOMAIN server'.jobs : Follows(j)' /\ Plans(j)'
      \/ store'.plan = NoPlan
      \/ server'.planned \in {NoPlan, store'.plan}
  BY <1>1, PlanParts
<1> QED
  BY <1>2, <1>3, PlanThen

(* Steps that leave the server alone and start to follow no job.           *)
LEMMA PlanMoves ==
  ASSUME PlanInv, server' = server, NEW i, NEW news, NEW n, Moved(i, news, n),
         \A m \in news : Orders(m, server) /\ \A j : ~Answers(m, j),
         i \in DOMAIN wire => \A j \in DOMAIN server.jobs : ~Answers(wire[i], j),
         store'.job = store.job, store'.plan \in {store.plan, NoPlan, server.planned}
  PROVE  PlanInv'
<1>1. \A j \in DOMAIN server.jobs : Follows(j)' <=> Follows(j)
  BY FollowsSame
<1>2. \A k \in DOMAIN wire' : Orders(wire'[k], server')
  BY PlanParts, OrdersMove
<1> QED
  BY <1>1, <1>2, PlanStays

(* Messages that leave after an answer order nothing.                      *)
LEMMA LeavesQuietly ==
  ASSUME NEW news, NEW kind, Leave(news, kind), kind # "apply"
  PROVE  \A m \in news : Orders(m, server) /\ \A j : ~Answers(m, j)
  BY DEF Leave, Orders, Answers

(* runApply orders the plan its dialog shows, which is the last one or     *)
(* none is left.                                                           *)
LEMMA AsksPlans ==
  ASSUME Types, SafeInv, PlanInv, ~watch'.hasty, NEW m, Asks(m) PROVE PlanInv'
<1> USE SafeParts, PlanParts
<1>0. wire \in Seq(Message) /\ Nobody \notin DOMAIN wire
  BY NobodyThere DEF Types
<1>1. /\ server' = server /\ store'.job = store.job /\ store'.plan = store.plan
      /\ m \in Message /\ wire' = Append(wire, m)
  BY DEF Asks, SameJob
<1>2. Moved(Nobody, {m}, 0)
  BY <1>0, <1>1, AppendMoves
<1>3. \A j : ~Answers(m, j)
  BY DEF Asks, AsksToSave, AsksToPlan, AsksToApply, AsksToValidate, Answers, Start
<1>4. Orders(m, server)
  <2>1. CASE AsksToApply(m)
    <3>1. /\ m.about.plan = store.plan /\ m.about.canvas = store.canvas
          /\ m.about.dirty = store.dirty /\ store.plan # NoPlan /\ store.confirm /\ ~Starting
      BY <2>1 DEF AsksToApply, DialogOpen
    <3>2. \A j : ~Follows(j)
      BY <3>1, Idle DEF Follows, Answers, Begins
    <3>3. server.planned \in {NoPlan, store.plan}
      BY <3>1, <3>2
    <3> QED
      BY <3>1, <3>3 DEF Orders
  <2>2. CASE ~AsksToApply(m)
    BY <2>2 DEF Asks, AsksToSave, AsksToPlan, AsksToValidate, Orders
  <2> QED
    BY <2>1, <2>2
<1>5. \A x \in {m} : Orders(x, server) /\ \A j : ~Answers(x, j)
  BY <1>3, <1>4
<1> QED
  BY <1>0, <1>1, <1>2, <1>5, PlanMoves

(* The server handles request i.                                           *)
LEMMA HandledPlans ==
  ASSUME Types, SafeInv, PlanInv, NEW i \in DOMAIN wire, Puts(i) \/ Tells(i) PROVE PlanInv'
<1> USE SafeParts, PlanParts
<1>1. /\ wire[i].at = "out" /\ store' = store /\ server'.planned = server.planned
      /\ server'.jobs = server.jobs
  BY DEF Puts, Tells
<1>2. PICK x : Replied(i, x) /\ (wire[i].kind \in Start => x = Unset)
  BY DEF Puts, Tells, Start
<1>3. ASSUME NEW k \in DOMAIN wire, NEW j \in Nat
      PROVE  Answers(wire'[k], j) <=> Answers(wire[k], j)
  <2>1. CASE k = i
    <3>1. wire'[i].kind = wire[i].kind /\ wire'[i].reply = x
      BY <1>2 DEF Replied
    <3>2. [job |-> j] # Unset
      BY CanvasAssumption DEF CanvasAssumption
    <3> QED
      BY <1>1, <1>2, <2>1, <3>1, <3>2 DEF Answers
  <2>2. CASE k # i
    BY <1>2, <2>2 DEF Replied
  <2> QED
    BY <2>1, <2>2
<1>4. DOMAIN wire' = DOMAIN wire
  BY <1>2 DEF Replied
<1>5. ASSUME NEW j \in DOMAIN server.jobs PROVE Follows(j)' <=> Follows(j)
  <2>1. j \in Nat
    BY DEF Types, Server
  <2>2. (\E k \in DOMAIN wire' : Answers(wire'[k], j)) <=> \E k \in DOMAIN wire : Answers(wire[k], j)
    BY <1>3, <1>4, <2>1
  <2> QED
    BY <1>1, <2>2 DEF Follows, JobRuns, Answers
<1>6. ASSUME NEW k \in DOMAIN wire PROVE Orders(wire'[k], server')
  <2>1. CASE k = i
    BY <1>2, <2>1 DEF Replied, Orders
  <2>2. CASE k # i
    <3>1. wire'[k] = wire[k] /\ Orders(wire[k], server)
      BY <1>2, <2>2 DEF Replied
    <3>2. wire[k].kind = "apply" => server'.file = server.file
      <4>1. CASE Tells(i)
        BY <4>1 DEF Tells
      <4>2. CASE Puts(i)
        BY <2>2, <4>2 DEF Puts, Apart, Excludes
      <4> QED
        BY <4>1, <4>2
    <3> QED
      BY <1>1, <3>1, <3>2 DEF Orders
  <2> QED
    BY <2>1, <2>2
<1>7. \A j : (Plans(j)' <=> Plans(j)) /\ PlanOf(j)' = PlanOf(j)
  BY <1>1 DEF Plans, PlanOf
<1>8. \A j \in DOMAIN server'.jobs : Follows(j)' /\ Plans(j)' => server'.planned = PlanOf(j)'
  BY <1>1, <1>5, <1>7
<1>9. \/ \E j \in DOMAIN server'.jobs : Follows(j)' /\ Plans(j)'
      \/ store'.plan = NoPlan
      \/ server'.planned \in {NoPlan, store'.plan}
  BY <1>1, <1>5, <1>7
<1> QED
  BY <1>4, <1>6, <1>8, <1>9, PlanThen

-----------------------------------------------------------------------------
(* A job that starts: nothing else was on its way.                         *)
LEMMA StartsPlans ==
  ASSUME Types, SafeInv, PlanInv, NEW i \in DOMAIN wire, Starts(i) PROVE PlanInv'
<1> USE SafeParts, PlanParts
<1>1. PICK n : n = Len(server.jobs) + 1
  OBVIOUS
<1>2. /\ wire[i].kind \in Start /\ wire[i].at = "out"
      /\ Replied(i, [job |-> n]) /\ store' = store
      /\ server'.file = server.file /\ server'.planned = server.planned
      /\ n \in Nat \ DOMAIN server.jobs /\ DOMAIN server'.jobs = DOMAIN server.jobs \cup {n}
      /\ \A j \in DOMAIN server.jobs : server'.jobs[j] = server.jobs[j]
      /\ server'.jobs[n].status = "running"
  BY <1>1 DEF Starts
<1>3. \A j : ~Follows(j)
  BY <1>2, NoneBesides
<1>4. ASSUME NEW j \in DOMAIN server.jobs PROVE ~Follows(j)'
  <2>1. j # n /\ j \in Nat
    BY <1>2 DEF Types, Server
  <2>2. ASSUME NEW k \in DOMAIN wire PROVE ~Answers(wire'[k], j)
    <3>1. CASE k = i
      <4>1. wire'[i].reply = [job |-> n]
        BY <1>2 DEF Replied
      <4>2. [job |-> n].job # [job |-> j].job
        BY <2>1
      <4> QED
        BY <3>1, <4>1, <4>2 DEF Answers
    <3>2. CASE k # i
      BY <1>2, <1>3, <3>2 DEF Replied, Follows
    <3> QED
      BY <3>1, <3>2
  <2>3. DOMAIN wire' = DOMAIN wire /\ ~(JobRuns /\ store.job.id = j)
    BY <1>2, <1>3 DEF Replied, Follows
  <2> QED
    BY <1>2, <2>2, <2>3 DEF Follows, JobRuns, Answers
<1>5. ~Plans(n)'
  BY <1>2 DEF Plans
<1>6. \A j \in DOMAIN server'.jobs : ~(Follows(j)' /\ Plans(j)')
  <2>1. ASSUME NEW j \in DOMAIN server'.jobs PROVE ~(Follows(j)' /\ Plans(j)')
    <3>1. CASE j = n
      BY <1>5, <3>1
    <3>2. CASE j # n
      BY <1>2, <1>4, <3>2
    <3> QED
      BY <3>1, <3>2
  <2> QED
    BY <2>1
<1>7. ASSUME NEW k \in DOMAIN wire PROVE Orders(wire'[k], server')
  <2>1. CASE k = i
    BY <1>2, <2>1 DEF Replied, Orders
  <2>2. CASE k # i
    <3>1. wire'[k] = wire[k] /\ Orders(wire[k], server)
      BY <1>2, <2>2 DEF Replied
    <3> QED
      BY <1>2, <3>1 DEF Orders
  <2> QED
    BY <2>1, <2>2
<1>8. \/ store'.plan = NoPlan
      \/ server'.planned \in {NoPlan, store'.plan}
  BY <1>2, <1>3
<1>9. DOMAIN wire' = DOMAIN wire
  BY <1>2 DEF Replied
<1> QED
  BY <1>6, <1>7, <1>8, <1>9, PlanThen

(* A plan that ends is the last one, and its job is followed.              *)
LEMMA EndsPlans ==
  ASSUME Types, SafeInv, PlanInv, NEW j \in Running, Ends(j) PROVE PlanInv'
<1> USE SafeParts, PlanParts
<1>1. /\ store' = store /\ wire' = wire /\ DOMAIN server'.jobs = DOMAIN server.jobs
      /\ j \in DOMAIN server.jobs /\ DOMAIN server.jobs \subseteq Nat
      /\ server.jobs[j].status = "running"
      /\ server'.jobs[j].kind = server.jobs[j].kind /\ server'.jobs[j].doc = server.jobs[j].doc
  BY DEF Ends, Running, Types, Server
<1>2. Follows(j)
  OBVIOUS
<1>3. \A k : Follows(k)' <=> Follows(k)
  BY <1>1 DEF Follows, JobRuns, Answers
<1>4. \A k \in DOMAIN server.jobs : Follows(k) => k = j
  BY <1>1, <1>2, FollowsOne
<1>5. ~Plans(j) /\ PlanOf(j)' = PlanOf(j)
  BY <1>1 DEF Plans, PlanOf
<1>6. /\ Plans(j)' => server'.planned = PlanOf(j)
      /\ server'.planned \in {NoPlan, server.planned} \/ Plans(j)'
  BY <1>1 DEF Ends, Plans
<1>7. \A k \in DOMAIN server'.jobs : Follows(k)' /\ Plans(k)' => server'.planned = PlanOf(k)'
  <2>1. ASSUME NEW k \in DOMAIN server.jobs, Follows(k)', Plans(k)'
        PROVE  server'.planned = PlanOf(k)'
    <3>1. k = j
      BY <1>3, <1>4, <2>1
    <3> QED
      BY <1>5, <1>6, <2>1, <3>1
  <2> QED
    BY <1>1, <2>1
<1>8. \/ \E k \in DOMAIN server'.jobs : Follows(k)' /\ Plans(k)'
      \/ store'.plan = NoPlan
      \/ server'.planned \in {NoPlan, store'.plan}
  <2>1. store.plan = NoPlan \/ server.planned \in {NoPlan, store.plan}
    BY <1>4, <1>5
  <2>2. CASE Plans(j)'
    BY <1>1, <1>2, <1>3, <2>2
  <2>3. CASE server'.planned \in {NoPlan, server.planned}
    BY <1>1, <2>1, <2>3
  <2> QED
    BY <1>6, <2>2, <2>3
<1>9. \A k \in DOMAIN wire' : Orders(wire'[k], server')
  <2>1. \A k \in DOMAIN wire : ~(wire[k].kind = "apply" /\ wire[k].at = "out")
    BY <1>2, NoneBesides DEF Start
  <2> QED
    BY <1>1, <2>1 DEF Orders
<1> QED
  BY <1>7, <1>8, <1>9, PlanThen

(* What is answered: saves, validations, files and last plans.             *)
LEMMA AnswersPlans ==
  ASSUME Types, SafeInv, PlanInv, NEW i \in DOMAIN wire,
         \/ Saves(i) \/ Validates(i) \/ Loads(i) \/ (Learns(i) /\ ~watch'.behind)
         \/ (LosesRequest(i) /\ ~watch'.blind)
  PROVE  PlanInv'
<1>1. server' = server /\ store'.job = store.job
  BY DEF Saves, Validates, Loads, Learns, LosesRequest, Loses, SameJob
<1>2. store'.plan \in {store.plan, NoPlan, server.planned}
  BY DEF Saves, Validates, Loads, Learns, LosesRequest
<1>3. wire[i].kind \notin Start
  BY DEF Saves, Validates, Loads, Learns, LosesRequest, Loses, Start
<1>4. \E n, kind : AnswersMove(i, kind, n) /\ kind # "apply"
  <2>1. wire[i] \in Message
    BY ElementTyped DEF Types
  <2>2. wire[i].then # "apply"
    BY <2>1 DEF Message
  <2>3. CASE \E n : Moved(i, {}, n)
    <3>1. PICK n : Moved(i, {}, n)
      BY <2>3
    <3>2. AnswersMove(i, "latest", n)
      BY <3>1, NothingLeaves
    <3> QED
      BY <3>2
  <2>4. CASE \E n : AnswersMove(i, wire[i].then, n)
    BY <2>2, <2>4
  <2>5. CASE \E n : AnswersMove(i, "latest", n)
    BY <2>5
  <2>6. CASE Saves(i)
    BY <2>3, <2>4, <2>6 DEF Saves
  <2>7. CASE Validates(i) \/ Learns(i)
    BY <2>3, <2>7 DEF Validates, Learns
  <2>8. CASE Loads(i)
    BY <2>5, <2>8 DEF Loads
  <2>9. CASE LosesRequest(i)
    BY <2>3, <2>4, <2>9 DEF LosesRequest
  <2> QED
    BY <2>6, <2>7, <2>8, <2>9
<1>5. PICK n, news, kind : Moved(i, news, n) /\ Leave(news, kind) /\ kind # "apply"
  BY <1>4 DEF AnswersMove
<1>6. \A m \in news : Orders(m, server) /\ \A j : ~Answers(m, j)
  BY <1>5, LeavesQuietly
<1>7. \A j : ~Answers(wire[i], j)
  BY <1>3, NotStart
<1> QED
  BY <1>1, <1>2, <1>5, <1>6, <1>7, PlanMoves

(* The canvas follows the job it was about to follow.                      *)
LEMMA FollowedPlans ==
  ASSUME Types, SafeInv, PlanInv, NEW i \in DOMAIN wire, Followed(i) PROVE PlanInv'
<1> USE SafeParts, PlanParts
<1>1. /\ wire[i].kind \in Start /\ wire[i].at = "in" /\ server' = server
      /\ store'.plan = store.plan /\ Moved(i, {}, 0)
  BY DEF Followed
<1>2. CASE wire[i].reply = Unset
  <2>1. \A j \in Nat : ~Answers(wire[i], j)
    BY <1>2, CanvasAssumption DEF CanvasAssumption, Answers
  <2>2. DOMAIN server.jobs \subseteq Nat
    BY DEF Types, Server
  <2>3. store'.job = store.job
    BY <1>2 DEF Followed, SameJob
  <2> QED
    BY <1>1, <2>1, <2>2, <2>3, PlanMoves
<1>3. CASE wire[i].reply # Unset
  <2> DEFINE id == wire[i].reply.job
  <2>1. store'.job = [id |-> id, status |-> "running"]
    BY <1>3 DEF Followed
  <2>2. Begins(wire[i]) /\ ~JobRuns
    BY <1>1, Idle DEF Begins, Fit
  <2>3. wire[i].reply = [job |-> id] /\ id \in Nat
    <3>1. MessageOK(wire[i], DOMAIN server.jobs) /\ DOMAIN server.jobs \subseteq Nat
      BY DEF Types, Server
    <3>2. wire[i].reply \in [job : DOMAIN server.jobs]
      BY <1>1, <1>3, <3>1 DEF MessageOK, Start
    <3> QED
      BY <3>1, <3>2
  <2> HIDE DEF id
  <2>4. store'.job.id = id /\ store'.job.status = "running" /\ store'.job # NoJob
    BY <2>1, <2>3, CanvasAssumption DEF CanvasAssumption, Status
  <2>5. ASSUME NEW j \in DOMAIN server.jobs PROVE Follows(j)' <=> Follows(j)
    <3>1. ASSUME NEW p \in DOMAIN wire \ {i} PROVE ~Answers(wire[p], j)
      BY <2>2, <3>1 DEF Apart, Excludes, Answers, Begins
    <3>2. Follows(j) <=> j = id
      <4>1. Follows(j) <=> Answers(wire[i], j)
        BY <2>2, <3>1 DEF Follows
      <4>2. Answers(wire[i], j) <=> [job |-> id] = [job |-> j]
        BY <1>1, <2>3 DEF Answers
      <4>3. [job |-> id] = [job |-> j] => [job |-> id].job = [job |-> j].job
        OBVIOUS
      <4> QED
        BY <4>1, <4>2, <4>3
    <3>3. ASSUME NEW k \in DOMAIN wire' PROVE ~Answers(wire'[k], j)
      <4>1. Was(i, k) \in DOMAIN wire \ {i} /\ Same(wire'[k], wire[Was(i, k)])
        BY <1>1, <3>3 DEF Moved
      <4>2. ~Answers(wire[Was(i, k)], j)
        BY <3>1, <4>1
      <4> QED
        BY <4>1, <4>2 DEF Same, Answers
    <3>4. Follows(j)' <=> j = id
      BY <2>4, <3>3 DEF Follows, JobRuns, Answers
    <3> QED
      BY <3>2, <3>4
  <2>6. \A k \in DOMAIN wire' : Orders(wire'[k], server')
    BY <1>1, OrdersMove
  <2> QED
    BY <1>1, <2>5, <2>6, PlanStays
<1> QED
  BY <1>2, <1>3

(* onDone: the plan shown is the last one, or none.                        *)
LEMMA FinishesPlans ==
  ASSUME Types, SafeInv, PlanInv, NEW id, NEW i, Finishes(id, i) PROVE PlanInv'
<1> USE SafeParts, PlanParts
<1>1. /\ Runs(store) /\ store.job.id = id /\ id \notin Running
      /\ \A p \in DOMAIN wire : ~Begins(wire[p])
  BY FinishesIts
<1>2. /\ server' = server /\ store'.job = [id |-> id, status |-> JobOf(id).status]
      /\ id \in DOMAIN server.jobs
  BY DEF Finishes
<1>3. ~Runs(store')
  <2>1. store'.job.status = JobOf(id).status
    BY <1>2
  <2> QED
    BY <1>1, <1>2, <2>1 DEF Runs, Running, JobOf
<1>4. PICK news : /\ Moved(i, news, 0)
                  /\ \A m \in news : m.kind = "load"
  <2>1. CASE Applied(id)
    BY <2>1 DEF Finishes, AnswersMove, Leave
  <2>2. CASE ~Applied(id)
    BY <2>2 DEF Finishes
  <2> QED
    BY <2>1, <2>2
<1>5. ASSUME NEW k \in DOMAIN wire' PROVE wire'[k].kind \notin Start
  <2>1. CASE Was(i, k) \in DOMAIN wire \ {i} /\ Same(wire'[k], wire[Was(i, k)])
    <3>1. wire[Was(i, k)].kind \notin Start
      BY <1>1, <2>1 DEF Begins
    <3> QED
      BY <2>1, <3>1 DEF Same
  <2>2. CASE wire'[k] \in news
    BY <1>4, <2>2 DEF Start
  <2> QED
    BY <1>4, <1>5, <2>1, <2>2 DEF Moved
<1>6. \A j : ~Follows(j)'
  BY <1>3, <1>5 DEF Follows, JobRuns, Runs, Answers
<1>7. \A k \in DOMAIN wire' : Orders(wire'[k], server')
  BY <1>5 DEF Orders, Start
<1>8. \A j \in DOMAIN server.jobs : Follows(j) => j = id
  BY <1>1 DEF Follows, JobRuns, Answers, Begins
<1>9. Follows(id)
  BY <1>1, Idle DEF Follows
<1>10. store'.plan = NoPlan \/ server'.planned \in {NoPlan, store'.plan}
  <2>1. CASE Plans(id) /\ store'.plan = PlanOf(id)
    BY <1>2, <1>9, <2>1
  <2>2. CASE ~Plans(id) /\ store'.plan = store.plan
    BY <1>2, <1>8, <2>2
  <2> QED
    BY <2>1, <2>2 DEF Finishes
<1> QED
  BY <1>6, <1>7, <1>10, PlanThen

(* A canvas that was told of an old plan is behind for ever.               *)
LEMMA BehindForEver ==
  ASSUME Types, [Next]_vars, Trusted', ~watch'.behind PROVE ~watch.behind
<1>1. CASE Draws \/ Dialogs
  BY <1>1 DEF Draws, Dialogs, UserActed
<1>2. CASE \E m : Asks(m)
  BY <1>2 DEF Asks, AsksToSave, AsksToPlan, AsksToApply, AsksToValidate, UserActed
<1>3. CASE \E i \in DOMAIN wire : Puts(i) \/ Tells(i) \/ Starts(i)
  BY <1>3 DEF Puts, Tells, Starts, Firm
<1>4. CASE \E j \in Running : Ends(j)
  BY <1>4 DEF Ends
<1>5. CASE \E i \in DOMAIN wire : AnswerEffect(i)
  BY <1>5 DEF AnswerEffect, Saves, Validates, Loads, Learns, Followed, GoesBlind, Noticed, Firm, Trusted
<1>6. CASE \E id, i : Finishes(id, i)
  BY <1>6 DEF Finishes, Firm
<1>7. CASE (\E i \in DOMAIN wire : LosesRequest(i)) \/ \E id : LosesStream(id)
  BY <1>7 DEF LosesRequest, LosesStream, Loses
<1>8. CASE UNCHANGED vars
  BY <1>8 DEF vars
<1> QED
  BY <1>1, <1>2, <1>3, <1>4, <1>5, <1>6, <1>7, <1>8, Effects

(* Each step keeps PlanInv, as long as the canvas is not behind.           *)
LEMMA PlanStep ==
  ASSUME Types, SafeInv, PlanInv, [Next]_vars, Trusted', ~watch'.behind
  PROVE  PlanInv'
<1> USE DEF Trusted
<1>0. wire \in Seq(Message) /\ Nobody \notin DOMAIN wire
  BY NobodyThere DEF Types
<1>1. CASE Draws
  <2>1. PICK n : Moved(Nobody, {}, n)
    BY <1>1 DEF Draws
  <2> QED
    BY <1>0, <1>1, <2>1, PlanMoves DEF Draws, SameJob
<1>2. CASE Dialogs
  <2>1. Moved(Nobody, {}, 0)
    BY <1>0, <1>2, StillMoves DEF Dialogs
  <2> QED
    BY <1>0, <1>2, <2>1, PlanMoves DEF Dialogs, SameJob
<1>3. CASE \E m : Asks(m)
  BY <1>3, AsksPlans
<1>4. CASE \E i \in DOMAIN wire : Puts(i) \/ Tells(i) \/ Starts(i)
  BY <1>4, HandledPlans, StartsPlans
<1>5. CASE \E j \in Running : Ends(j)
  BY <1>5, EndsPlans
<1>6. CASE \E i \in DOMAIN wire : AnswerEffect(i)
  <2>1. PICK i \in DOMAIN wire : AnswerEffect(i)
    BY <1>6
  <2>2. ~GoesBlind(i)
    BY DEF GoesBlind
  <2> QED
    BY <2>1, <2>2, AnswersPlans, FollowedPlans DEF AnswerEffect
<1>7. CASE \E id, i : Finishes(id, i)
  BY <1>7, FinishesPlans
<1>8. CASE \E i \in DOMAIN wire : LosesRequest(i)
  BY <1>8, AnswersPlans
<1>9. CASE \E id : LosesStream(id)
  <2>1. PICK id : LosesStream(id)
    BY <1>9
  <2>2. PICK m : Moved(Nobody, {m}, 0) /\ m.kind = "job"
    BY <2>1 DEF LosesStream
  <2>3. \A x \in {m} : Orders(x, server) /\ \A j : ~Answers(x, j)
    BY <2>2 DEF Orders, Answers, Start
  <2>4. server' = server /\ store'.job = store.job /\ store'.plan = store.plan
    BY <2>1 DEF LosesStream, Loses
  <2> QED
    BY <1>0, <2>2, <2>3, <2>4, PlanMoves
<1>10. CASE UNCHANGED vars
  BY <1>10 DEF vars, PlanInv, Orders, Follows, JobRuns, Answers, Plans, PlanOf
<1> QED
  BY <1>1, <1>2, <1>3, <1>4, <1>5, <1>6, <1>7, <1>8, <1>9, <1>10, Effects

(* It holds when the tab has been opened.                                  *)
LEMMA PlanInit ==
  ASSUME Init PROVE PlanInv
<1> DEFINE m == Request([kind |-> "latest"])
<1>1. m.kind = "latest"
  BY RequestFields
<1> HIDE DEF m
<1>2. wire = <<m>> /\ store.plan = NoPlan /\ DOMAIN server.jobs = {}
  <2>1. store.plan = NoPlan /\ wire = <<m>>
    BY DEF Init, m
  <2>2. server.jobs = <<>>
    BY DEF Init
  <2> QED
    BY <2>1, <2>2
<1>3. \A i \in DOMAIN wire : wire[i] = m
  BY <1>2
<1> QED
  BY <1>1, <1>2, <1>3 DEF PlanInv, Orders

(* What the server starts is what the message ordered.                     *)
LEMMA OrdersAreShown ==
  ASSUME Types, PlanInv, [Next]_vars, ~watch.behind, NEW i \in DOMAIN wire, AppliesOther(i)
  PROVE  FALSE
<1>1. /\ wire[i].kind = "apply" /\ server'.jobs # server.jobs /\ wire'[i] # wire[i]
      /\ ~AppliesShown(wire[i].about)
  BY DEF AppliesOther
<1>2. server' # server /\ wire' # wire
  BY <1>1
<1>3. PICK k \in DOMAIN wire : Starts(k)
  <2>1. ~Draws /\ ~Dialogs /\ ~(\E m : Asks(m)) /\ ~(\E j \in Running : Ends(j))
    BY <1>2 DEF Draws, Dialogs, Asks, Ends
  <2>2. ~(\E k \in DOMAIN wire : AnswerEffect(k)) /\ ~(\E id, k : Finishes(id, k))
    BY <1>2 DEF AnswerEffect, Saves, Validates, Loads, Learns, Followed, GoesBlind, Finishes
  <2>3. ~(\E k \in DOMAIN wire : LosesRequest(k)) /\ ~(\E id : LosesStream(id))
    BY <1>2 DEF LosesRequest, LosesStream, Loses
  <2>4. ~(\E k \in DOMAIN wire : Puts(k) \/ Tells(k))
    BY <1>1 DEF Puts, Tells
  <2>5. Next
    BY <1>2 DEF vars
  <2> QED
    BY <2>1, <2>2, <2>3, <2>4, <2>5, Effects
<1>4. k = i
  BY <1>1, <1>3 DEF Starts, Replied
<1>5. /\ wire[i].at = "out" /\ server.planned # NoPlan /\ server.file = server.planned.of
  BY <1>1, <1>3, <1>4 DEF Starts, Accepts
<1>6. Orders(wire[i], server)
  BY PlanParts
<1> QED
  BY <1>1, <1>5, <1>6 DEF Orders, AppliesShown

(* What an apply runs is the plan its dialog showed, of the diagram that   *)
(* was on the canvas or marked as unsaved (store.ts, runApply; jobs.go,    *)
(* startJob), for any diagrams, any number of requests and whatever        *)
(* connections break, until the user has been hasty, a job goes on that    *)
(* the canvas no longer follows, or the canvas was told of a plan that had *)
(* been replaced.                                                          *)
THEOREM AppliesWhatWasShown == Spec => ShownIsApplied
<1>1. Init => SafeWhileTrusted /\ ShownInv
  BY SafeInit, PlanInit DEF SafeWhileTrusted, ShownInv
<1>2. SafeWhileTrusted /\ ShownInv /\ Types /\ [Next]_vars => SafeWhileTrusted' /\ ShownInv'
  <2> SUFFICES ASSUME SafeWhileTrusted, ShownInv, Types, [Next]_vars
               PROVE  SafeWhileTrusted' /\ ShownInv'
    OBVIOUS
  <2>1. ASSUME Trusted' PROVE SafeInv /\ SafeInv'
    BY <2>1, TrustedBefore, SafeStep DEF SafeWhileTrusted
  <2>2. ASSUME Trusted', ~watch'.behind PROVE PlanInv'
    BY <2>1, <2>2, TrustedBefore, BehindForEver, PlanStep DEF ShownInv
  <2> QED
    BY <2>1, <2>2 DEF SafeWhileTrusted, ShownInv
<1>3. ShownInv /\ Types /\ [Next]_vars
        => [\A i \in DOMAIN wire : AppliesOther(i) => watch.behind]_vars
  <2> SUFFICES ASSUME ShownInv, Types, [Next]_vars, NEW i \in DOMAIN wire, AppliesOther(i),
                      ~watch.behind
               PROVE  FALSE
    OBVIOUS
  <2>1. PlanInv
    BY DEF ShownInv, AppliesOther, Trusted
  <2> QED
    BY <2>1, OrdersAreShown
<1> QED
  BY <1>1, <1>2, <1>3, CanvasTyped, PTL DEF Spec, ShownIsApplied
=============================================================================

--------------------------- MODULE SerialExecutor ---------------------------
(***************************************************************************)
(* What internal/jobs promises the rest of the program, without threads,   *)
(* locks or streams: every operation body runs at most once, and never     *)
(* while another one runs ("Only one job runs at a time because they all   *)
(* share the same working directory and state").                           *)
(***************************************************************************)
CONSTANT Job                 \* identities of the operations

VARIABLE stage               \* [Job -> Stage]

Stage == {"new", "executing", "ended"}

Executing == {j \in Job : stage[j] = "executing"}

TypeOK == stage \in [Job -> Stage]

Init == stage = [j \in Job |-> "new"]

(* An operation begins when nothing executes.                              *)
Begin(j) ==
  /\ stage[j] = "new"
  /\ Executing = {}
  /\ stage' = [stage EXCEPT ![j] = "executing"]

(* Its body returns; it is never executed again.                           *)
End(j) ==
  /\ stage[j] = "executing"
  /\ stage' = [stage EXCEPT ![j] = "ended"]

Next == \E j \in Job : Begin(j) \/ End(j)

Spec == Init /\ [][Next]_stage
=============================================================================

------------------------------ MODULE WorkQueue ------------------------------
(***************************************************************************)
(* What the durable queue promises, whatever its workers go through: every *)
(* job submitted stays on record; it is tried any number of times; it may  *)
(* be carried out more than once, even after the verdict (at least once    *)
(* delivery); it is done only after it was carried out, given up only when *)
(* its retry budget is used, and a verdict is final.                       *)
(***************************************************************************)
EXTENDS Naturals, Sequences

CONSTANT MaxAttempts   \* the retry budget

VARIABLES
  work,        \* jobs in the order of their submission: [status, tries]
  carriedOut   \* the jobs whose effect has been committed at least once

Init == work = <<>> /\ carriedOut = {}

Submit ==
  /\ work' = Append(work, [status |-> "pending", tries |-> 0])
  /\ UNCHANGED carriedOut

Try(j) ==
  /\ work[j].status = "pending"
  /\ work' = [work EXCEPT ![j].tries = @ + 1]
  /\ UNCHANGED carriedOut

CarryOut(j) ==
  /\ work[j].tries > 0
  /\ carriedOut' = carriedOut \cup {j}
  /\ UNCHANGED work

Finish(j) ==
  /\ work[j].status = "pending" /\ j \in carriedOut
  /\ work' = [work EXCEPT ![j].status = "done"]
  /\ UNCHANGED carriedOut

GiveUp(j) ==
  /\ work[j].status = "pending" /\ work[j].tries >= MaxAttempts
  /\ work' = [work EXCEPT ![j].status = "givenUp"]
  /\ UNCHANGED carriedOut

Next ==
  \/ Submit
  \/ \E j \in DOMAIN work : Try(j) \/ CarryOut(j) \/ Finish(j) \/ GiveUp(j)

Spec == Init /\ [][Next]_<<work, carriedOut>>
=============================================================================

------------------------------ MODULE Delivery ------------------------------
(***************************************************************************)
(* What the queue and the workers promise of each job, without processes,  *)
(* labels and limits: it is accepted, begun and ended once, in this order, *)
(* by steps that touch no other job; its command is called at most once,   *)
(* only while the job runs, and its end tells whether it was.  Module      *)
(* Worker implements it, and so does Roller, with the API in front.        *)
(***************************************************************************)
EXTENDS Naturals

CONSTANT Jobs

VARIABLES
  end,      \* what became of each job
  calls     \* how often its command was called

vars == <<end, calls>>

Uncalled == {"no_host", "no_command", "no_user"}   \* ends before the call
CutShort == {"interrupted", "killed"}              \* ends before or after it

Init ==
  /\ end = [j \in Jobs |-> "new"]
  /\ calls = [j \in Jobs |-> 0]

MoveOn(j, from, to) == /\ end[j] = from
                       /\ end' = [end EXCEPT ![j] = to]
                       /\ UNCHANGED calls

Accept(j) == MoveOn(j, "new", "queued")
Begin(j) == MoveOn(j, "queued", "running")

Call(j) ==
  /\ end[j] = "running" /\ calls[j] = 0
  /\ calls' = [calls EXCEPT ![j] = 1]
  /\ UNCHANGED end

Finish(j) ==
  \/ calls[j] = 0 /\ \E how \in Uncalled : MoveOn(j, "running", how)
  \/ calls[j] = 1 /\ MoveOn(j, "running", "done")
  \/ \E how \in CutShort : MoveOn(j, "running", how)

Next == \E j \in Jobs : Accept(j) \/ Begin(j) \/ Call(j) \/ Finish(j)
Spec == Init /\ [][Next]_vars
=============================================================================

----------------------------- MODULE Escalation -----------------------------
(***************************************************************************)
(* What the reboot command is for, without times, pings and limits: an     *)
(* escalation through a list of methods on one machine, which stops at the *)
(* first one that works.  Module Reboot implements it.                     *)
(***************************************************************************)
EXTENDS Naturals, Sequences

CONSTANTS
  Methods,    \* the methods, the mildest first
  Optional,   \* those that need equipment not every machine has
  LastResort  \* the one that calls for a human

VARIABLES
  equipped,   \* has the machine that equipment?
  next,       \* the method to be tried next
  tried,      \* the methods that have been tried in vain
  ending      \* how the escalation ended

vars == <<equipped, next, tried, ending>>

Left == next <= Len(Methods)

Init ==
  /\ equipped \in BOOLEAN
  /\ next = 1 /\ tried = {}
  /\ ending = "none"

\* A method is passed over for want of equipment only.
PassOver ==
  /\ Left /\ ending = "none"
  /\ Methods[next] \in Optional /\ ~equipped
  /\ next' = next + 1
  /\ UNCHANGED <<equipped, tried, ending>>

TryInVain ==
  /\ Left /\ ending = "none"
  /\ ~(Methods[next] \in Optional /\ ~equipped)
  /\ tried' = tried \cup {next}
  /\ next' = next + 1
  /\ UNCHANGED <<equipped, ending>>

\* The end, once: the method at hand works, there is none left, the machine is
\* unknown, or a limit cuts in.
EndsAs(how) ==
  \/ how = "rebooted" /\ Left /\ Methods[next] # LastResort
  \/ how = "bug_filed" /\ Left /\ Methods[next] = LastResort
  \/ how = "failed" /\ ~Left
  \/ how = "key_error" /\ next = 1
  \/ how = "aborted" /\ Left
  \/ how \in {"aborted_bare", "killed"}

Finish ==
  /\ ending = "none"
  /\ ending' \in {"rebooted", "bug_filed", "failed", "key_error", "aborted",
                  "aborted_bare", "killed"}
  /\ EndsAs(ending')
  /\ UNCHANGED <<equipped, next, tried>>

Next == PassOver \/ TryInVain \/ Finish
Spec == Init /\ [][Next]_vars
=============================================================================

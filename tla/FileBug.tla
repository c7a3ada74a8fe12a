------------------------------ MODULE FileBug ------------------------------
(***************************************************************************)
(* The "file_bugzilla_bug" command, run for one machine by any number of   *)
(* jobs.  It finds, reopens or creates the machine's tracker bug, finds or *)
(* creates its reboot bug, and ties the two together, with one HTTP        *)
(* request per step and no transaction around them.  Between two requests  *)
(* of one job the other workers, and people, change the bugs.              *)
(*                                                                         *)
(* A request is answered, is rejected (an HTTP error status, which the     *)
(* code looks at in one place only), or raises: the network failed or the  *)
(* task's soft limit struck, before or after Bugzilla acted.               *)
(*                                                                         *)
(* Bugzilla itself is external: an alias belongs to one bug, so the        *)
(* machine has at most one tracker; a reboot bug is named by the job that  *)
(* created it, which no job does twice.                                    *)
(***************************************************************************)
EXTENDS Naturals, FiniteSets

CONSTANTS
  Jobs,      \* the jobs that give up on the machine
  Workers,   \* how many of them run at once: the Celery workers
  Faulty     \* may requests be rejected for no reason of ours, or raise?

ASSUME JobsAssumption == IsFiniteSet(Jobs)
ASSUME WorkersAssumption == Workers \in Nat
ASSUME FaultyAssumption == Faulty \in BOOLEAN

VARIABLES
  pc,        \* where each job is: the request it makes next
  parent,    \* its local parent: has it a tracker's id, or None?
  bugId,     \* its local bug_id, a set of at most one bug
  tracker,   \* the tracker bug in Bugzilla
  bugs,      \* the reboot bugs in Bugzilla
  reports,   \* the jobs whose reports each bug carries
  linked,    \* the bugs that block the tracker
  blind,     \* jobs that missed an open bug: their search failed or is outdated
  rejected   \* jobs whose last PUT was rejected

vars == <<pc, parent, bugId, tracker, bugs, reports, linked, blind, rejected>>
bugzilla == <<tracker, bugs, reports, linked>>

Requests == {"get_tracker", "reopen", "post_tracker", "search", "post_bug", "put"}
Busy(j) == pc[j] \in Requests
Open == {b \in Jobs : bugs[b] = "open"}

TypeOK ==
  /\ pc \in [Jobs -> Requests \cup {"idle", "filed", "raised"}]
  /\ parent \in [Jobs -> {"none", "tracker"}]
  /\ bugId \in [Jobs -> SUBSET Jobs]
  /\ tracker \in {"absent", "open", "closed"}
  /\ bugs \in [Jobs -> {"absent", "open", "closed"}]
  /\ reports \in [Jobs -> SUBSET Jobs]
  /\ linked \subseteq Jobs
  /\ blind \subseteq Jobs /\ rejected \subseteq Jobs

Init ==
  /\ pc = [j \in Jobs |-> "idle"]
  /\ parent = [j \in Jobs |-> "none"]
  /\ bugId = [j \in Jobs |-> {}]
  /\ tracker \in {"absent", "open", "closed"}
  /\ bugs = [j \in Jobs |-> "absent"]
  /\ reports = [j \in Jobs |-> {}]
  /\ linked = {} /\ blind = {} /\ rejected = {}

Goto(j, label) == pc' = [pc EXCEPT ![j] = label]

\* An exception out of the command.
Raise(j) == /\ Goto(j, "raised")
            /\ UNCHANGED <<parent, bugId, blind, rejected>>

\* The host must have a datacenter in its name, or split fails at once.
Start(j) ==
  /\ pc[j] = "idle"
  /\ Cardinality({k \in Jobs : Busy(k)}) < Workers
  /\ \/ Goto(j, "get_tracker")
     \/ Goto(j, "raised")
  /\ UNCHANGED <<parent, bugId, bugzilla, blind, rejected>>

-----------------------------------------------------------------------------
(* create_or_update_bug, for the tracker.                                  *)

\* The answer's alias in place of its id.
KnowsAlias(j) == parent' = [parent EXCEPT ![j] = "alias"]

KnowsTracker(j) == parent' = [parent EXCEPT ![j] = "tracker"]

GetTracker(j) ==
  /\ pc[j] = "get_tracker"
  /\ \/ /\ tracker = "open"
        /\ KnowsTracker(j) /\ Goto(j, "search")
     \/ /\ tracker = "closed"
        /\ KnowsTracker(j) /\ Goto(j, "reopen")
     \/ /\ tracker = "absent" \/ Faulty      \* the bare except
        /\ Goto(j, "post_tracker") /\ UNCHANGED parent
  /\ UNCHANGED <<bugId, bugzilla, blind, rejected>>

\* A rejected PUT is only logged; one that raises ends in the bare except.
Reopen(j) ==
  /\ pc[j] = "reopen"
  /\ \/ tracker' = "open" /\ Goto(j, "search")
     \/ Faulty /\ UNCHANGED tracker /\ Goto(j, "search")
     \/ Faulty /\ tracker' \in {tracker, "open"} /\ Goto(j, "post_tracker")
  /\ UNCHANGED <<parent, bugId, bugs, reports, linked, blind, rejected>>

\* A rejected POST, such as one for an alias already taken, has an answer
\* without an id: the parent is None and the command goes on.
PostTracker(j) ==
  /\ pc[j] = "post_tracker"
  /\ \/ /\ tracker = "absent" /\ tracker' = "open"
        /\ KnowsTracker(j) /\ Goto(j, "search")
     \/ /\ tracker # "absent" \/ Faulty
        /\ parent' = [parent EXCEPT ![j] = "none"] /\ Goto(j, "search")
        /\ UNCHANGED tracker
     \/ /\ Faulty
        /\ tracker' \in {tracker, IF tracker = "absent" THEN "open" ELSE tracker}
        /\ Goto(j, "raised") /\ UNCHANGED parent
  /\ UNCHANGED <<bugId, bugs, reports, linked, blind, rejected>>

-----------------------------------------------------------------------------
(* The reboot bug.                                                         *)

\* A search that leaves out what other jobs have filed.
SearchOwn(j) ==
  /\ pc[j] = "search"
  /\ Goto(j, "post_bug")
  /\ UNCHANGED <<bugId, blind, parent, bugzilla, rejected>>

\* GET with resolution "---", the first bug of the answer; any exception, an
\* empty answer's IndexError included, means that there is none.
Search(j) ==
  /\ pc[j] = "search"
  /\ \/ /\ \E b \in Open : bugId' = [bugId EXCEPT ![j] = {b}]
        /\ Goto(j, "put") /\ UNCHANGED blind
     \/ /\ Open = {} \/ Faulty
        /\ Goto(j, "post_bug") /\ UNCHANGED bugId
        /\ blind' = IF Open = {} THEN blind ELSE blind \cup {j}
  /\ UNCHANGED <<parent, bugzilla, rejected>>

\* Bugzilla opens j's bug: the jobs between search and POST have missed it.
OpenBug(j) ==
  /\ bugs' = [bugs EXCEPT ![j] = "open"]
  /\ reports' = [reports EXCEPT ![j] = {j}]
  /\ linked' = IF parent[j] = "tracker" THEN linked \cup {j} ELSE linked
  /\ blind' = blind \cup {k \in Jobs \ {j} : pc[k] = "post_bug"}
  /\ UNCHANGED tracker

\* The POST without raise_for_status.
PostBugUnchecked(j) ==
  /\ pc[j] = "post_bug"
  /\ bugId' = [bugId EXCEPT ![j] = {j}]
  /\ Goto(j, "put")
  /\ \/ OpenBug(j)
     \/ (Faulty \/ parent[j] = "none") /\ UNCHANGED <<bugzilla, blind>>
  /\ UNCHANGED <<parent, rejected>>

\* The description holds the report and blocks names the parent ("None" for
\* none, which Bugzilla may reject).  raise_for_status: a rejection raises.
PostBug(j) ==
  /\ pc[j] = "post_bug"
  /\ \/ /\ OpenBug(j)
        /\ bugId' = [bugId EXCEPT ![j] = {j}]
        /\ Goto(j, "put")
     \/ /\ Faulty \/ parent[j] = "none"
        /\ Goto(j, "raised") /\ UNCHANGED <<bugId, bugzilla, blind>>
     \/ /\ Faulty
        /\ OpenBug(j) /\ Goto(j, "raised") /\ UNCHANGED bugId
  /\ UNCHANGED <<parent, rejected>>

\* The PUT of a bug that was found, without the comment.
UpdateWithoutComment(j) ==
  \E b \in bugId[j] :
    /\ linked' = IF parent[j] = "tracker" THEN linked \cup {b} ELSE linked
    /\ UNCHANGED <<tracker, bugs, reports>>

\* The PUT of the comment alone.
UpdateWithoutBlocks(j) ==
  \E b \in bugId[j] :
    /\ reports' = [reports EXCEPT ![b] = @ \cup {j}]
    /\ UNCHANGED <<tracker, bugs, linked>>

\* What a PUT does to the bug: it blocks the parent, and one that was found,
\* not created, gets the report as a comment.
Update(j) ==
  \E b \in bugId[j] :
    /\ linked' = IF parent[j] = "tracker" THEN linked \cup {b} ELSE linked
    /\ reports' = [reports EXCEPT ![b] = @ \cup {j}]
    /\ UNCHANGED <<tracker, bugs>>

\* The status of the PUT's answer is not looked at.
Put(j) ==
  /\ pc[j] = "put"
  /\ \/ Update(j) /\ Goto(j, "filed") /\ UNCHANGED rejected
     \/ /\ Faulty \/ parent[j] = "none"
        /\ Goto(j, "filed")
        /\ rejected' = rejected \cup {j} /\ UNCHANGED bugzilla
     \/ /\ Faulty
        /\ Update(j) \/ UNCHANGED bugzilla
        /\ Goto(j, "raised") /\ UNCHANGED rejected
  /\ UNCHANGED <<parent, bugId, blind>>

-----------------------------------------------------------------------------
(* People close bugs.                                                      *)

CloseTracker ==
  /\ tracker = "open" /\ tracker' = "closed"
  /\ UNCHANGED <<pc, parent, bugId, bugs, reports, linked, blind, rejected>>

CloseBug(b) ==
  /\ bugs[b] = "open"
  /\ bugs' = [bugs EXCEPT ![b] = "closed"]
  /\ UNCHANGED <<pc, parent, bugId, tracker, reports, linked, blind, rejected>>

-----------------------------------------------------------------------------
JobStep(j) == \/ Start(j) \/ GetTracker(j) \/ Reopen(j) \/ PostTracker(j)
              \/ Search(j) \/ PostBug(j) \/ Put(j)
People == CloseTracker \/ \E b \in Jobs : CloseBug(b)

Next == People \/ \E j \in Jobs : JobStep(j)
Spec == Init /\ [][Next]_vars

-----------------------------------------------------------------------------
(* What the command promises.                                              *)

\* The address that a job returns (142) is that of a bug there is, opened
\* before, by this job or another, and now perhaps closed by people.
FiledBugExists ==
  \A j \in Jobs : pc[j] = "filed" => \E b \in bugId[j] : bugs[b] # "absent"

\* The report of a job that returns normally is in Bugzilla, as a description
\* or a comment (115), unless its PUT was rejected, which the code overlooks.
ReportArrives ==
  \A j \in Jobs : pc[j] = "filed" =>
    j \in rejected \/ \E b \in bugId[j] : j \in reports[b]

\* Two open bugs for one machine (90: "Get (if not closed) or create") need a
\* job that missed the one when it created the other: its search failed, or
\* the bug was created between its search and its POST.
DuplicateIsExplained ==
  \A b, c \in Open : b # c => b \in blind \/ c \in blind

\* With one worker and a Bugzilla that answers there is never a second one.
AtMostOneOpenBug == \A b, c \in Open : b = c

\* With more of them the duplicates are bounded, however many jobs come and go
\* and whenever people close bugs: each worker can hold one outdated search.
NoMoreBugsThanWorkers == Cardinality(Open) <= Workers

\* A reboot bug filed is tied to the tracker, "Confirm blocking parent" (131),
\* if the job knows the tracker and its requests were accepted.
FiledBugIsLinked ==
  \A j \in Jobs : pc[j] = "filed" =>
    j \in rejected \/ parent[j] = "none" \/ bugId[j] \subseteq linked
=============================================================================

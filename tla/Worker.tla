------------------------------- MODULE Worker -------------------------------
(***************************************************************************)
(* The queue and the Celery workers: celery_call_command as the processes  *)
(* of the worker pool run it, one task at a time in each.  A task resolves *)
(* the worker's name, loads the management command, announces it on IRC,   *)
(* calls it, and then, with the process's logging muted, mails and sends   *)
(* the result.                                                             *)
(*                                                                         *)
(* A soft limit may strike a task once, at any point of it; after it the   *)
(* hard limit kills the process, as a crash may at any time.  The broker   *)
(* forgets a task when a process takes it (Celery's early acknowledgement, *)
(* which the settings leave on); a new process takes a dead one's place.   *)
(* What the commands do is in Reboot; here a call may even never end.      *)
(***************************************************************************)
EXTENDS Naturals

CONSTANTS
  Jobs, Processes,
  TaskNames,    \* settings.TASK_NAMES
  NoJob         \* an idle process has it

\* "ipmi" stands for every ipmi_* task.  The files of management/commands.
Loadable == {"ping", "ipmi", "reboot"}

ASSUME NoJobAssumption == NoJob \notin Jobs
ASSUME TaskNamesAssumption ==
  TaskNames \subseteq Loadable \cup {"status", "reimage", "loan", "return_loan"}

VARIABLES
  queue,    \* the jobs the broker holds
  task,     \* the task name each job was accepted for
  end,      \* what became of each job
  calls,    \* how often its command was called
  message,  \* what its command left to report: text, or an object without it
  notice,   \* what became of its four notifications
  pc, job,  \* where each process is, and with which job
  struck,   \* the processes whose task the soft limit has struck
  level, saved,  \* each process's log level, and the local log_level
  ran       \* the jobs each process has run

vars == <<queue, task, end, calls, message, notice, pc, job, struck, level,
          saved, ran>>
reporting == <<message, notice>>
logging == <<level, saved>>

Levels == {"normal", "critical"}
Notices == {"announced", "team", "requester", "result"}
Muted == {"team", "requester", "irc", "unmute"}
Labels == Muted \cup {"idle", "lookup", "load", "user", "announce", "call", "mute"}
Failures == {"no_host", "no_command", "no_user", "interrupted", "killed"}

TypeOK ==
  /\ queue \subseteq Jobs
  /\ task \in [Jobs -> TaskNames]
  /\ end \in [Jobs -> Failures \cup {"new", "queued", "running", "done"}]
  /\ calls \in [Jobs -> Nat]
  /\ message \in [Jobs -> {"none", "text", "object"}]
  /\ notice \in [Jobs -> [Notices -> {"none", "sent", "failed"}]]
  /\ pc \in [Processes -> Labels]
  /\ job \in [Processes -> Jobs \cup {NoJob}]
  /\ \A p \in Processes : (pc[p] = "idle") = (job[p] = NoJob)
  /\ struck \subseteq Processes
  /\ level \in [Processes -> Levels] /\ saved \in [Processes -> Levels]
  /\ ran \in [Processes -> SUBSET Jobs]

Init ==
  /\ queue = {}
  /\ task \in [Jobs -> TaskNames]
  /\ end = [j \in Jobs |-> "new"]
  /\ calls = [j \in Jobs |-> 0]
  /\ message = [j \in Jobs |-> "none"]
  /\ notice = [j \in Jobs |-> [n \in Notices |-> "none"]]
  /\ pc = [p \in Processes |-> "idle"]
  /\ job = [p \in Processes |-> NoJob]
  /\ struck = {}
  /\ level = [p \in Processes |-> "normal"] /\ saved = level
  /\ ran = [p \in Processes |-> {}]

Goto(p, label) == pc' = [pc EXCEPT ![p] = label]

\* The task is over, with this end; its process is free for another.
Finish(p, how) ==
  /\ Goto(p, "idle")
  /\ end' = [end EXCEPT ![job[p]] = how]
  /\ job' = [job EXCEPT ![p] = NoJob]
  /\ struck' = struck \ {p}

\* The task goes on at another label.
Continue(p, label) ==
  /\ Goto(p, label)
  /\ UNCHANGED <<end, job, struck>>

Note(p, n, what) == notice' = [notice EXCEPT ![job[p]][n] = what]

-----------------------------------------------------------------------------
(* The queue.                                                              *)

\* celery_call_command.delay, at the end of an accepted request.
Delay(j) ==
  /\ end[j] = "new"
  /\ queue' = queue \cup {j}
  /\ end' = [end EXCEPT ![j] = "queued"]
  /\ UNCHANGED <<task, calls, reporting, pc, job, struck, logging, ran>>

\* The broker keeps what a process has not finished.
TakeAndKeep(p, j) ==
  /\ pc[p] = "idle" /\ j \in queue
  /\ Goto(p, "lookup")
  /\ job' = [job EXCEPT ![p] = j]
  /\ end' = [end EXCEPT ![j] = "running"]
  /\ ran' = [ran EXCEPT ![p] = @ \cup {j}]
  /\ UNCHANGED <<queue, task, calls, reporting, struck, logging>>

Take(p, j) ==
  /\ pc[p] = "idle" /\ j \in queue
  /\ queue' = queue \ {j}
  /\ Goto(p, "lookup")
  /\ job' = [job EXCEPT ![p] = j]
  /\ end' = [end EXCEPT ![j] = "running"]
  /\ ran' = [ran EXCEPT ![p] = @ \cup {j}]
  /\ UNCHANGED <<task, calls, reporting, struck, logging>>

-----------------------------------------------------------------------------
(* Before the command.                                                     *)

\* A failed lookup leaves the bare worker id, which has no datacenter in it.
Lookup(p) ==
  /\ pc[p] = "lookup"
  /\ Continue(p, "load") \/ Finish(p, "no_host")
  /\ UNCHANGED <<queue, task, calls, reporting, logging, ran>>

Load(p) ==
  /\ pc[p] = "load"
  /\ IF task[job[p]] \in Loadable THEN Continue(p, "user")
                                  ELSE Finish(p, "no_command")
  /\ UNCHANGED <<queue, task, calls, reporting, logging, ran>>

\* The client ids accepted are more than the pattern for the user's name.
User(p) ==
  /\ pc[p] = "user"
  /\ Continue(p, "announce") \/ Finish(p, "no_user")
  /\ UNCHANGED <<queue, task, calls, reporting, logging, ran>>

\* The command's call begins.
Call(p) == /\ Continue(p, "call")
           /\ calls' = [calls EXCEPT ![job[p]] = @ + 1]

Announce(p) ==
  /\ pc[p] = "announce"
  /\ IF task[job[p]] = "ping" THEN UNCHANGED notice
     ELSE \E what \in {"sent", "failed"} : Note(p, "announced", what)
  /\ Call(p)
  /\ UNCHANGED <<queue, task, message, logging, ran>>

\* A failed command is called again.
CommandRetries(p) ==
  /\ pc[p] = "call"
  /\ \E kind \in {"text", "object"} : message' = [message EXCEPT ![job[p]] = kind]
  /\ \/ Continue(p, "mute") /\ UNCHANGED calls
     \/ Call(p)
  /\ UNCHANGED <<queue, task, notice, logging, ran>>

\* A result, a missing key and a failure with an output are text; any other
\* failure is reported as the exception itself.
CommandEnds(p) ==
  /\ pc[p] = "call"
  /\ \E kind \in {"text", "object"} : message' = [message EXCEPT ![job[p]] = kind]
  /\ Continue(p, "mute")
  /\ UNCHANGED <<queue, task, calls, notice, logging, ran>>

-----------------------------------------------------------------------------
(* After it.  The log level is that of the process, not of the task.       *)

SetLevel(p, l) == level' = [level EXCEPT ![p] = l]
Critical(p) == SetLevel(p, "critical")

\* Muting before the level is read.
MuteThenSave(p) ==
  /\ Critical(p)
  /\ saved' = [saved EXCEPT ![p] = "critical"]
SaveThenMute(p) ==
  /\ saved' = [saved EXCEPT ![p] = level[p]]
  /\ Critical(p)

Mute(p) ==
  /\ pc[p] = "mute"
  /\ SaveThenMute(p)
  /\ Continue(p, "team")
  /\ UNCHANGED <<queue, task, calls, reporting, ran>>

\* One try around the mails and the result.
MailTeamOrNothing(p) ==
  /\ pc[p] = "team"
  /\ \/ Note(p, "team", "sent") /\ Continue(p, "requester")
     \/ Note(p, "team", "failed") /\ Continue(p, "unmute")
  /\ UNCHANGED <<queue, task, calls, message, logging, ran>>

\* One try around both mails: the first one's failure takes the second along.
MailTeam(p) ==
  /\ pc[p] = "team"
  /\ \/ Note(p, "team", "sent") /\ Continue(p, "requester")
     \/ Note(p, "team", "failed") /\ Continue(p, "irc")
  /\ UNCHANGED <<queue, task, calls, message, logging, ran>>

\* A client id without an address is passed over.
MailSomeRequesters(p) ==
  /\ pc[p] = "requester"
  /\ \E what \in {"sent", "failed", "skipped"} : Note(p, "requester", what)
  /\ Continue(p, "irc")
  /\ UNCHANGED <<queue, task, calls, message, logging, ran>>

MailRequester(p) ==
  /\ pc[p] = "requester"
  /\ \E what \in {"sent", "failed"} : Note(p, "requester", what)
  /\ Continue(p, "irc")
  /\ UNCHANGED <<queue, task, calls, message, logging, ran>>

\* An object has no replace(): the AttributeError is caught and not even logged.
SendResult(p) ==
  IF message[job[p]] = "text"
  THEN \E what \in {"sent", "failed"} : Note(p, "result", what)
  ELSE UNCHANGED notice

Irc(p) ==
  /\ pc[p] = "irc"
  /\ SendResult(p)
  /\ Continue(p, "unmute")
  /\ UNCHANGED <<queue, task, calls, message, logging, ran>>

Unmute(p) ==
  /\ pc[p] = "unmute"
  /\ SetLevel(p, saved[p])
  /\ Finish(p, "done")
  /\ UNCHANGED <<queue, task, calls, reporting, saved, ran>>

-----------------------------------------------------------------------------
(* The limits.                                                             *)

Strike(p, label) == /\ struck' = struck \cup {p}
                    /\ Goto(p, label)
                    /\ UNCHANGED <<end, job>>

\* In a driver that swallows it; or in the command's try, to be reported.
SoftLimitInCommand(p) ==
  /\ pc[p] = "call" /\ p \notin struck
  /\ \/ Strike(p, "call") /\ UNCHANGED message
     \/ /\ Strike(p, "mute")
        /\ \E kind \in {"text", "object"} : message' = [message EXCEPT ![job[p]] = kind]
  /\ UNCHANGED <<queue, task, calls, notice, logging, ran>>

\* The warning it turns into is all that is left of it: the task goes on.
SoftLimitInNotify(p) ==
  /\ p \notin struck
  /\ \/ /\ pc[p] = "announce" /\ task[job[p]] # "ping"
        /\ Note(p, "announced", "failed")
        /\ calls' = [calls EXCEPT ![job[p]] = @ + 1] /\ Strike(p, "call")
     \/ /\ pc[p] \in {"team", "requester"}
        /\ Note(p, pc[p], "failed") /\ UNCHANGED calls /\ Strike(p, "irc")
     \/ /\ pc[p] = "irc"
        /\ Note(p, "result", "failed") /\ UNCHANGED calls /\ Strike(p, "unmute")
  /\ UNCHANGED <<queue, task, message, logging, ran>>

\* Between the try blocks: the task fails, and what it muted stays muted.
SoftLimitEscapes(p) ==
  /\ pc[p] # "idle" /\ p \notin struck
  /\ Finish(p, "interrupted")
  /\ UNCHANGED <<queue, task, calls, reporting, logging, ran>>

\* The process dies and a new one takes its place.
Respawn(p) ==
  /\ Goto(p, "idle")
  /\ job' = [job EXCEPT ![p] = NoJob]
  /\ struck' = struck \ {p}
  /\ SetLevel(p, "normal") /\ saved' = [saved EXCEPT ![p] = "normal"]
  /\ ran' = [ran EXCEPT ![p] = {}]

\* The task is acknowledged late: the death gives it back to the broker.
KillRequeues(p) ==
  /\ pc[p] # "idle" /\ Respawn(p)
  /\ queue' = queue \cup {job[p]}
  /\ end' = [end EXCEPT ![job[p]] = "queued"]
  /\ UNCHANGED <<task, calls, reporting>>

Kill(p) ==
  /\ pc[p] # "idle" /\ Respawn(p)
  /\ end' = [end EXCEPT ![job[p]] = "killed"]
  /\ UNCHANGED <<queue, task, calls, reporting>>

NeverKill(p) == FALSE
HardLimit(p) == p \in struck /\ Kill(p)
Crash(p) == Kill(p)

-----------------------------------------------------------------------------
SoftLimit(p) == SoftLimitInCommand(p) \/ SoftLimitInNotify(p) \/ SoftLimitEscapes(p)
Limit(p) == SoftLimit(p) \/ HardLimit(p)
Prepare(p) == Lookup(p) \/ Load(p) \/ User(p) \/ Announce(p)
Report(p) == Mute(p) \/ MailTeam(p) \/ MailRequester(p) \/ Irc(p) \/ Unmute(p)
TakeOne(p) == \E j \in Jobs : Take(p, j)

Next == \/ \E j \in Jobs : Delay(j)
        \/ \E p \in Processes : \/ TakeOne(p) \/ Prepare(p) \/ CommandEnds(p)
                                \/ Report(p) \/ Limit(p) \/ Crash(p)

\* The pool feeds its idle processes, the operating system runs them, and the
\* limits' timers expire.  A command need not end by itself.
Spec == /\ Init /\ [][Next]_vars
        /\ \A p \in Processes : /\ WF_vars(TakeOne(p))
                               /\ WF_vars(Prepare(p) \/ Report(p))
                               /\ WF_vars(Limit(p))

-----------------------------------------------------------------------------
(* What the workers promise.                                               *)

\* However processes die and limits strike, the command of a job is never
\* called a second time, and no two processes have the same job: no power
\* command is repeated by the queue.
NeverCalledTwice ==
  /\ \A j \in Jobs : calls[j] <= 1
  /\ \A p, q \in Processes : job[p] = job[q] /\ job[p] # NoJob => p = q

\* A process whose logging stays muted outside of the notifications (116-145)
\* has had a task interrupted between its try blocks: nothing else, no failed
\* notification, caught limit or killed neighbour, leaves it silent.
MutedOnlyByInterruption ==
  \A p \in Processes : level[p] = "critical" /\ pc[p] \notin Muted
    => \E j \in ran[p] : end[j] = "interrupted"

\* A task that ends by itself has reported: both mails and the result were
\* sent or at least tried, except the requester's mail when the team's failed,
\* and the result of a command that left an exception without an output.
DoneMeansReported ==
  \A j \in Jobs : end[j] = "done" =>
    /\ notice[j].team # "none"
    /\ notice[j].requester = "none" => notice[j].team = "failed"
    /\ notice[j].result = "none" => message[j] = "object"

\* A job is in one place at most, through every take, crash and limit: one that
\* waits is with the broker only, one that runs is in the hands of one process
\* only, and one that has ended is nowhere.  That goes for a killed one too:
\* acknowledged when it was taken (celery.py:63), it is gone with its process.
JobInOnePlace ==
  \A j \in Jobs :
    LET holders == {p \in Processes : job[p] = j} IN
    /\ j \in queue <=> end[j] = "queued"
    /\ holders # {} <=> end[j] = "running"
    /\ \A p, q \in holders : p = q

\* What a job goes through, seen from outside: each step of the workers is one
\* step of one job in Delivery, or none.
D == INSTANCE Delivery
ImplementsDelivery == D!Spec

\* The steps that a process, and so a job, has ahead of it at most.
Ahead == [lookup |-> 11, load |-> 10, user |-> 9, announce |-> 8, call |-> 6,
          mute |-> 5, team |-> 4, requester |-> 3, irc |-> 2, unmute |-> 1]
Turns(p) == Ahead[pc[p]] + IF pc[p] = "call" /\ p \notin struck THEN 1 ELSE 0
StepsAhead(j) == CASE end[j] = "new" -> 13
                   [] end[j] = "queued" -> 12
                   [] end[j] = "running" -> Turns(CHOOSE p \in Processes : job[p] = j)
                   [] OTHER -> 0

\* Nothing is done for nothing, again, or at another job's cost: each step, a
\* limit's and a crash's included, brings one job nearer to its end and leaves
\* all the others where they are.
Advances(j) == /\ StepsAhead(j)' < StepsAhead(j)
               /\ \A k \in Jobs \ {j} : StepsAhead(k)' = StepsAhead(k)
JobsOnlyAdvance == [][\E j \in Jobs : Advances(j)]_vars

\* Every job the broker holds comes to an end, even when commands hang: the
\* limits free their processes for the jobs behind them.
EveryJobEnds ==
  \A j \in Jobs : end[j] = "queued" ~> end[j] \in Failures \cup {"done"}
=============================================================================

------------------------------- MODULE Reboot -------------------------------
(***************************************************************************)
(* The "reboot" management command: it tries the methods of                *)
(* settings.REBOOT_METHODS in order on one machine, and after each one it  *)
(* pings the machine until it has gone down and come back up.  The command *)
(* runs inside a Celery task, so a soft time limit (an exception raised at *)
(* an arbitrary point of the Python code) and a hard one (the process is   *)
(* killed) race with all of that.                                          *)
(*                                                                         *)
(* Time is explicit: clock counts the seconds since the task began, and    *)
(* every step that waits (a driver call, a ping, a sleep) adds its         *)
(* duration to it.  The machine is an environment: it drops and boots when *)
(* it likes, because a power command takes effect late, not at all, or     *)
(* twice.  What the drivers do inside a call is in PowerDrivers and        *)
(* FileBug; here a call returns, raises or is interrupted.                 *)
(***************************************************************************)
EXTENDS Naturals, Sequences

CONSTANTS
  Methods,        \* settings.REBOOT_METHODS, a sequence of method names
  Configs,        \* the shapes of WORKER_CONFIG['servers'][h] to start from
  Host, IloHost,  \* the machine's own name, and the name of its iLO interface
  DownTimeout, UpTimeout,          \* settings.DOWN_TIMEOUT, UP_TIMEOUT
  DownInterval, UpInterval,        \* the sleeps between two pings (1 and 5)
  SoftLimit, HardLimit,            \* CELERY_TASK_SOFT_TIME_LIMIT, _TIME_LIMIT
  CallTimes, MaxCall,              \* how long a driver call may take
  DownProbeTimes, MaxDownProbe,    \* how long one ping of is_down may take
  UpProbeTimes, MaxUpProbe,        \* how long one ping of is_up may take
  LossyPing                        \* may a ping of a running machine get lost?

\* What a server's entry may hold; a host without an entry has the shape {}.
Keys == {"entry", "pdu", "xen", "ilo"}

ASSUME MethodsAssumption == Methods \in Seq(STRING)
ASSUME ConfigsAssumption == Configs \subseteq SUBSET Keys
ASSUME HostAssumption == Host # IloHost
ASSUME TimesAssumption ==
  /\ DownTimeout \in Nat /\ UpTimeout \in Nat
  /\ DownInterval \in Nat \ {0} /\ UpInterval \in Nat \ {0}
  /\ SoftLimit \in Nat /\ HardLimit \in Nat /\ SoftLimit < HardLimit
ASSUME DurationsAssumption ==
  /\ MaxCall \in Nat /\ CallTimes \subseteq 0..MaxCall /\ CallTimes # {}
  /\ MaxDownProbe \in Nat /\ DownProbeTimes \subseteq 0..MaxDownProbe
  /\ DownProbeTimes # {}
  /\ MaxUpProbe \in Nat /\ UpProbeTimes \subseteq 0..MaxUpProbe
  /\ UpProbeTimes # {}
ASSUME LossyAssumption == LossyPing \in BOOLEAN

VARIABLES
  pc,         \* where Command.handle is
  i,          \* which of the methods the loop is at
  server,     \* the server's entry of the worker configuration
  target,     \* the local variable hostname
  log,        \* reboot_attempt_log: the attempts recorded, by their index
  shortLog,   \* reboot_attempt_log_short, likewise
  bug,        \* the attempts told to file_bugzilla_bug, NoBug before its call
  clock,      \* seconds since the task started
  waitStart,  \* start of the current wait_for_state
  limitHit,   \* the soft limit was raised and swallowed by a driver
  outcome,    \* how handle ended
  machine,    \* the machine answers pings or not
  wentDown,   \* it was down at some moment since the last command was issued
  begun       \* history: when the last command was issued

vars == <<pc, i, server, target, log, shortLog, bug, clock, waitStart,
          limitHit, outcome, machine, wentDown, begun>>
logs == <<log, shortLog, bug>>
world == <<machine, wentDown, begun>>

NoBug == {0}    \* no attempt has index 0
Attempts == 1..Len(Methods)
AskPdu == {"snmp_reboot", "snmp_rebootdelay"}
AlwaysUsable == {"ssh_reboot", "ipmi_on", "ipmi_reset", "ipmi_cycle",
                 "file_bugzilla_bug"}

\* Drivers with an "except Exception" (or a bare except) around a call, which
\* catches the soft limit as if it were a failure of that call.
Swallowing == {"ilo_reboot", "xenapi_reboot", "file_bugzilla_bug"}

\* The branch ladder: continue without an attempt, raise, or call the driver.
Skips(m) == m \in AskPdu /\ "pdu" \notin server
Usable(m) == \/ m \in AlwaysUsable
             \/ m \in AskPdu /\ "pdu" \in server
             \/ m = "xenapi_reboot" /\ "xen" \in server
             \/ m = "ilo_reboot" /\ "ilo" \in server

TypeOK ==
  /\ pc \in {"start", "next", "call", "down", "up", "done"}
  /\ i \in 1..(Len(Methods) + 1)
  /\ server \in Configs
  /\ target \in {Host, IloHost}
  /\ log \subseteq Attempts /\ shortLog \subseteq Attempts
  /\ bug \subseteq 0..Len(Methods)
  /\ clock \in Nat /\ waitStart \in Nat /\ waitStart <= clock
  /\ begun \in Nat /\ begun <= clock
  /\ limitHit \in BOOLEAN
  /\ outcome \in {"none", "rebooted", "bug_filed", "failed", "aborted",
                  "aborted_bare", "key_error", "killed"}
  /\ (pc = "done") = (outcome # "none")
  /\ machine \in {"up", "down"} /\ wentDown \in BOOLEAN

Init ==
  /\ pc = "start" /\ i = 1
  /\ server \in Configs
  /\ target = Host
  /\ log = {} /\ shortLog = {} /\ bug = NoBug
  /\ clock = 0 /\ waitStart = 0 /\ begun = 0
  /\ limitHit = FALSE
  /\ outcome = "none"
  /\ machine \in {"up", "down"} /\ wentDown = FALSE

-----------------------------------------------------------------------------
(* Time.  A wait completes by the pending limit, or the limit interrupts it. *)

Deadline == IF limitHit THEN HardLimit ELSE SoftLimit

Elapse(d) == /\ clock + d <= Deadline
             /\ clock' = clock + d

\* The durations of the wait the command is in.
Waits == CASE pc = "call" -> CallTimes
           [] pc = "down" -> {d + DownInterval : d \in DownProbeTimes}
           [] pc = "up"   -> {d + UpInterval : d \in UpProbeTimes}
           [] OTHER       -> {0}

DeadlineCutsIn == \E d \in Waits : clock + d >= Deadline

Running == pc # "done"

End(how) == /\ pc' = "done"
            /\ outcome' = how

-----------------------------------------------------------------------------
(* The server's entry and the loop over the methods.                       *)

LookupServer ==
  /\ pc = "start"
  /\ IF "entry" \in server
     THEN pc' = "next" /\ UNCHANGED outcome
     ELSE End("key_error")
  /\ UNCHANGED <<i, server, target, logs, clock, waitStart, limitHit, world>>

NoteInShortLogOnly ==
  /\ shortLog' = shortLog \cup {i}
  /\ UNCHANGED <<log, bug>>

\* Noting it in the short log only, as the soft limit's handler does.
NoteFailureShort == NoteInShortLogOnly

\* The handler of the loop's "except Exception": note the failure, go on.
NoteFailure ==
  /\ log' = log \cup {i}
  /\ shortLog' = shortLog \cup {i}
  /\ UNCHANGED bug

SameMethod == /\ pc' = "next"
              /\ UNCHANGED i

\* The loop, were the method taken off the list that is being iterated.
EverySecondMethod == /\ pc' = "next"
                     /\ i' = i + 2

NextMethod == /\ pc' = "next"
              /\ i' = i + 1

SkipMethod ==
  /\ pc = "next" /\ i \in Attempts
  /\ Skips(Methods[i])
  /\ NextMethod
  /\ UNCHANGED <<server, target, logs, clock, waitStart, limitHit, outcome, world>>

BadArguments ==
  /\ pc = "next" /\ i \in Attempts
  /\ ~Skips(Methods[i]) /\ ~Usable(Methods[i])
  /\ NoteFailure
  /\ NextMethod
  /\ UNCHANGED <<server, target, clock, waitStart, limitHit, outcome, world>>

BugLog(m) == IF m = "file_bugzilla_bug" THEN log ELSE bug

CallDriver ==
  /\ pc = "next" /\ i \in Attempts
  /\ Usable(Methods[i])
  /\ pc' = "call"
  /\ target' = IF Methods[i] = "ilo_reboot" THEN IloHost ELSE target
  /\ bug' = BugLog(Methods[i])
  /\ wentDown' = (machine = "down") /\ begun' = clock
  /\ UNCHANGED <<i, server, log, shortLog, clock, waitStart, limitHit, outcome,
                 machine>>

\* reboot_succeeded first waits for the machine to go down.
StartAtUp == "up"
CheckStart == "down"

\* The check after file_bugzilla_bug always succeeds; the others are pinged.
CallReturns ==
  /\ pc = "call"
  /\ \E d \in CallTimes : Elapse(d)
  /\ IF Methods[i] = "file_bugzilla_bug"
     THEN End("bug_filed") /\ UNCHANGED waitStart
     ELSE pc' = CheckStart /\ waitStart' = clock' /\ UNCHANGED outcome
  /\ UNCHANGED <<i, server, target, logs, limitHit, world>>

CallRaises ==
  /\ pc = "call"
  /\ \E d \in CallTimes : Elapse(d)
  /\ NoteFailure
  /\ NextMethod
  /\ UNCHANGED <<server, target, waitStart, limitHit, outcome, world>>

-----------------------------------------------------------------------------
(* reboot_succeeded: wait_for_state(is_down), then wait_for_state(is_up).  *)

\* can_ping.  An iLO interface has power of its own: it answers or not.
CanAnswer == target = IloHost \/ machine = "up"
CanBeSilent == target = IloHost \/ machine = "down" \/ LossyPing

NeverWaitedFor(timeout) == FALSE
WaitedFor(timeout) == clock' - waitStart >= timeout

\* is_down holds: go on to wait for is_up.
SeenDown ==
  /\ pc = "down"
  /\ CanBeSilent
  /\ \E d \in DownProbeTimes : Elapse(d)
  /\ pc' = "up" /\ waitStart' = clock'
  /\ UNCHANGED <<i, server, target, logs, limitHit, outcome, world>>

\* is_down fails: sleep, and poll again unless the timeout has passed.
StillUp ==
  /\ pc = "down"
  /\ CanAnswer
  /\ \E d \in DownProbeTimes : Elapse(d + DownInterval)
  /\ ~WaitedFor(DownTimeout)
  /\ UNCHANGED <<pc, i, server, target, logs, waitStart, limitHit, outcome, world>>

DownTimesOut ==
  /\ pc = "down"
  /\ CanAnswer
  /\ \E d \in DownProbeTimes : Elapse(d + DownInterval)
  /\ WaitedFor(DownTimeout)
  /\ NoteFailure
  /\ NextMethod
  /\ UNCHANGED <<server, target, waitStart, limitHit, outcome, world>>

\* is_up holds: the reboot succeeded.
SeenUp ==
  /\ pc = "up"
  /\ CanAnswer
  /\ \E d \in UpProbeTimes : Elapse(d)
  /\ End("rebooted")
  /\ UNCHANGED <<i, server, target, logs, waitStart, limitHit, world>>

StillDown ==
  /\ pc = "up"
  /\ CanBeSilent
  /\ \E d \in UpProbeTimes : Elapse(d + UpInterval)
  /\ ~WaitedFor(UpTimeout)
  /\ UNCHANGED <<pc, i, server, target, logs, waitStart, limitHit, outcome, world>>

UpTimesOut ==
  /\ pc = "up"
  /\ CanBeSilent
  /\ \E d \in UpProbeTimes : Elapse(d + UpInterval)
  /\ WaitedFor(UpTimeout)
  /\ NoteFailure
  /\ NextMethod
  /\ UNCHANGED <<server, target, waitStart, limitHit, outcome, world>>

\* The loop is over and no method broke out of it.
GiveUp ==
  /\ pc = "next" /\ i \notin Attempts
  /\ End("failed")
  /\ UNCHANGED <<i, server, target, logs, clock, waitStart, limitHit, world>>

-----------------------------------------------------------------------------
(* The time limits.                                                        *)

\* The handler order of the loop, were the limit an ordinary failure.
SoftLimitIsFailure ==
  /\ pc \in {"call", "down", "up"}
  /\ ~limitHit /\ DeadlineCutsIn
  /\ clock' = SoftLimit
  /\ limitHit' = TRUE
  /\ NoteFailure
  /\ NextMethod
  /\ UNCHANGED <<server, target, waitStart, outcome, world>>

\* SoftTimeLimitExceeded inside the try block: a line in the short log, which
\* becomes the exception's output, and the exception goes on.
SoftLimitAborts ==
  /\ pc \in {"call", "down", "up"}
  /\ ~limitHit /\ DeadlineCutsIn
  /\ clock' = SoftLimit
  /\ NoteInShortLogOnly
  /\ End("aborted")
  /\ UNCHANGED <<i, server, target, waitStart, limitHit, world>>

\* The same in an except clause of a driver: the driver goes on.
SoftLimitSwallowed ==
  /\ pc = "call" /\ Methods[i] \in Swallowing
  /\ ~limitHit /\ DeadlineCutsIn
  /\ clock' = SoftLimit
  /\ limitHit' = TRUE
  /\ UNCHANGED <<pc, i, server, target, logs, waitStart, outcome, world>>

\* Raised outside the try block: no output is attached to it.
SoftLimitBetweenMethods ==
  /\ pc = "next"
  /\ ~limitHit /\ clock = SoftLimit
  /\ End("aborted_bare")
  /\ UNCHANGED <<i, server, target, logs, clock, waitStart, limitHit, world>>

\* The parent process kills the worker process.
HardLimitKills ==
  /\ Running /\ limitHit /\ DeadlineCutsIn
  /\ clock' = HardLimit
  /\ End("killed")
  /\ UNCHANGED <<i, server, target, logs, waitStart, limitHit, world>>

-----------------------------------------------------------------------------
(* The machine.                                                            *)

Drop == /\ machine = "up"
        /\ machine' = "down" /\ wentDown' = TRUE
        /\ UNCHANGED <<pc, i, server, target, logs, clock, waitStart, limitHit,
                       outcome, begun>>

Boot == /\ machine = "down"
        /\ machine' = "up"
        /\ UNCHANGED <<pc, i, server, target, logs, clock, waitStart, limitHit,
                       outcome, wentDown, begun>>

-----------------------------------------------------------------------------
Attempt == CallDriver \/ CallReturns \/ CallRaises
Check == SeenDown \/ StillUp \/ DownTimesOut \/ SeenUp \/ StillDown \/ UpTimesOut
Limit == \/ SoftLimitAborts \/ SoftLimitSwallowed \/ SoftLimitBetweenMethods
         \/ HardLimitKills
JobStep == \/ LookupServer \/ SkipMethod \/ BadArguments \/ GiveUp
           \/ Attempt \/ Check \/ Limit
Machine == Drop \/ Boot

Next == JobStep \/ Machine

\* The task's process is scheduled by the operating system and its clock runs;
\* nothing is assumed of the machine.
Spec == Init /\ [][Next]_vars /\ WF_vars(JobStep)

-----------------------------------------------------------------------------
(* What the command promises.                                              *)

\* The attempts that must be on record when the loop is at method k: every
\* method before k that was not skipped for want of a PDU.
Owed(k) == {j \in Attempts : j < k /\ ~Skips(Methods[j])}

\* Whatever the order of failures, skips and limits, the record is exactly the
\* history: the exception of a job that failed (reboot.py:192) and the output
\* of one that was aborted (176) name every method tried, the interrupted one
\* included, and no other; the bug is told of every attempt before it (151).
RecordIsHistory ==
  /\ log = Owed(i)
  /\ shortLog = IF outcome = "aborted" THEN Owed(i + 1) ELSE Owed(i)
  /\ outcome = "failed" => i = Len(Methods) + 1
  /\ outcome = "bug_filed" => bug = Owed(i)

\* A reboot is reported (breaking out of the loop at 166) only for a machine
\* that has really been down since that method's command was issued and is up
\* again, however its going down and coming up fell between the pings.  Pings
\* of a running machine must not get lost for this, and the machine pinged
\* must be the machine, not its iLO interface.
RebootIsReal ==
  [][outcome' = "rebooted" /\ outcome # "rebooted"
       => LossyPing \/ target = IloHost \/ (wentDown /\ machine = "up")]_vars

\* Once the soft limit has passed no power command is sent any more (177 stops
\* the loop): can_ping (27) and the drivers hand the exception on.  Only a
\* driver that swallowed it, earlier in the list or running now, lets the job
\* outlive it.
Swallower(j) == j \in Attempts /\ Methods[j] \in Swallowing
QuietAfterSoftLimit ==
  Running /\ clock > SoftLimit => \E j \in 1..i : Swallower(j)

\* The longest that one method can take, from its call to its last ping.
AttemptBudget == MaxCall + DownTimeout + MaxDownProbe + DownInterval
                         + UpTimeout + MaxUpProbe + UpInterval
BudgetSuffices == Len(Methods) * AttemptBudget < SoftLimit

\* The soft limit was swallowed by the method at hand, not by one before it.
SwallowedHere == limitHit /\ begun <= SoftLimit

\* However pings, sleeps and limits fall, no method takes longer than its own
\* budget (51), from the issue of its command to its last ping and whatever the
\* methods before it took; but for the rest of its one call when the driver
\* goes on after swallowing the limit.  This is how long a method that does not
\* help keeps the next one waiting.
NoMethodOverruns ==
  clock - begun <= AttemptBudget + IF SwallowedHere THEN MaxCall ELSE 0

\* If the timeouts leave room for all of the methods, no limit is ever met.
NoLimitMet ==
  BudgetSuffices => ~limitHit /\ outcome \notin {"aborted", "aborted_bare", "killed"}

\* A job that ends without a reboot has at least tried to file a bug when
\* REBOOT_METHODS says so ("give up and file a bug", settings.py:235).
GiveUpFilesBug ==
  /\ outcome \in {"failed", "aborted", "aborted_bare", "killed"}
  /\ \E j \in Attempts : Methods[j] = "file_bugzilla_bug"
  => bug # NoBug

\* The check that follows a power command pings the machine being rebooted.
ChecksTheMachine == pc \in {"down", "up"} => target = Host

\* Every job is an escalation: each method is tried once, in the order of the
\* list (102), passed over only where a PDU is missing, and after the first one
\* that works (166), and after an end of any kind, no other is.
E == INSTANCE Escalation WITH
       Optional <- AskPdu, LastResort <- "file_bugzilla_bug",
       equipped <- "pdu" \in server, next <- i, tried <- log, ending <- outcome
ImplementsEscalation == E!Spec

\* What is left of the methods, of the steps of one, and of the soft limit.
Phase == CASE pc = "start" -> 5 [] pc = "next" -> 4 [] pc = "call" -> 3
           [] pc = "down" -> 2 [] pc = "up" -> 1 [] pc = "done" -> 0
StepsLeft == 4 * (Len(Methods) + 1 - i) + Phase + IF limitHit THEN 0 ELSE 1

\* No step of a job is for nothing: it takes time, or brings the job nearer to
\* its end.  The polling loops sleep (49) and the loop over the methods goes on
\* (102) even if every ping and every call is answered at once.
NoIdleStep ==
  [][\/ UNCHANGED <<pc, i, server, target, logs, clock, waitStart, limitHit, outcome>>
     \/ clock' > clock
     \/ clock' = clock /\ StepsLeft' < StepsLeft]_vars

\* The job ends whatever the machine and the drivers do: the polling loops are
\* bounded by the timeouts (51), the drivers by the limits.
JobEnds == <>(pc = "done")
=============================================================================

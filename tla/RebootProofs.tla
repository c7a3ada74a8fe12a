---------------------------- MODULE RebootProofs ----------------------------
(* Theorems about the reboot command, for every list of methods, every      *)
(* configuration and every choice of timeouts and durations.                *)
EXTENDS Reboot, TLAPS

Busy == {"call", "down", "up"}

\* What the states inside the loop have in common.
InLoop ==
  /\ i \in 1..(Len(Methods) + 1)
  /\ pc \in Busy => i \in Attempts /\ ~Skips(Methods[i])
  /\ clock <= Deadline

\* A method that can be called is not one that is skipped.
LEMMA UsableIsNotSkipped ==
  ASSUME NEW m, Usable(m) PROVE ~Skips(m)
BY DEF Usable, Skips, AskPdu, AlwaysUsable

\* Len is a natural number, and the methods are indexed by Attempts.
LEMMA MethodsAreIndexed ==
  /\ Len(Methods) \in Nat
  /\ Attempts = 1..Len(Methods)
  /\ \A j \in Attempts : j \in Nat /\ j + 1 \in 1..(Len(Methods) + 1)
<1>1. Len(Methods) \in Nat
  BY MethodsAssumption
<1> QED BY <1>1 DEF Attempts

\* A completed wait lasts at most as long as its bound says.
LEMMA WaitsAreBounded ==
  /\ MaxCall \in Nat /\ MaxDownProbe \in Nat /\ MaxUpProbe \in Nat
  /\ DownInterval \in Nat /\ UpInterval \in Nat
  /\ \A d \in CallTimes : d \in Nat /\ d <= MaxCall
  /\ \A d \in DownProbeTimes : d \in Nat /\ d <= MaxDownProbe
  /\ \A d \in UpProbeTimes : d \in Nat /\ d <= MaxUpProbe
BY TimesAssumption, DurationsAssumption

\* A step that takes time moves the clock on by it.
LEMMA TimePasses ==
  ASSUME clock \in Nat
  PROVE  /\ (\E d \in CallTimes : Elapse(d))
              => clock' \in Nat /\ clock <= clock' /\ clock' <= clock + MaxCall
                 /\ clock' <= Deadline
         /\ (\E d \in DownProbeTimes : Elapse(d))
              => clock' \in Nat /\ clock <= clock' /\ clock' <= clock + MaxDownProbe
                 /\ clock' <= Deadline
         /\ (\E d \in DownProbeTimes : Elapse(d + DownInterval))
              => clock' \in Nat /\ clock <= clock'
                 /\ clock' <= clock + (MaxDownProbe + DownInterval)
                 /\ clock' <= Deadline
         /\ (\E d \in UpProbeTimes : Elapse(d))
              => clock' \in Nat /\ clock <= clock' /\ clock' <= clock + MaxUpProbe
                 /\ clock' <= Deadline
         /\ (\E d \in UpProbeTimes : Elapse(d + UpInterval))
              => clock' \in Nat /\ clock <= clock'
                 /\ clock' <= clock + (MaxUpProbe + UpInterval)
                 /\ clock' <= Deadline
BY WaitsAreBounded DEF Elapse

-----------------------------------------------------------------------------
\* The command's variables keep their types, and the loop keeps its index.
LEMMA TypingInit == Init => TypeOK /\ InLoop
<1> SUFFICES ASSUME Init PROVE TypeOK /\ InLoop
  OBVIOUS
<1>1. bug \subseteq 0..Len(Methods) /\ i \in 1..(Len(Methods) + 1)
  BY MethodsAreIndexed DEF Init, NoBug
<1>2. clock <= Deadline
  BY TimesAssumption DEF Init, Deadline
<1>3. pc \notin Busy
  BY DEF Init, Busy
<1>4. TypeOK
  <2>1. limitHit \in BOOLEAN /\ wentDown \in BOOLEAN
    BY DEF Init
  <2>2. (pc = "done") = (outcome # "none")
    BY DEF Init
  <2>3. log \subseteq Attempts /\ shortLog \subseteq Attempts
    BY DEF Init
  <2>4. /\ clock \in Nat /\ waitStart \in Nat /\ waitStart <= clock
        /\ begun \in Nat /\ begun <= clock
    BY DEF Init
  <2>5. /\ pc \in {"start", "next", "call", "down", "up", "done"}
        /\ server \in Configs
        /\ target \in {Host, IloHost}
        /\ machine \in {"up", "down"}
    BY DEF Init
  <2>6. outcome \in {"none", "rebooted", "bug_filed", "failed", "aborted",
                     "aborted_bare", "key_error", "killed"}
    BY DEF Init
  <2> QED BY <1>1, <2>1, <2>2, <2>3, <2>4, <2>5, <2>6 DEF TypeOK
<1> QED BY <1>1, <1>2, <1>3, <1>4 DEF InLoop

LEMMA TypingStep ==
  TypeOK /\ InLoop /\ [Next]_vars => TypeOK' /\ InLoop'
<1> SUFFICES ASSUME TypeOK, InLoop, [Next]_vars PROVE TypeOK' /\ InLoop'
  OBVIOUS
<1> USE MethodsAreIndexed DEF TypeOK, InLoop, Busy, Skips, Deadline
<1>1. CASE LookupServer
  BY <1>1 DEF LookupServer, End, logs, world
<1>2. CASE SkipMethod
  BY <1>2 DEF SkipMethod, NextMethod, logs, world
<1>3. CASE BadArguments
  BY <1>3 DEF BadArguments, NoteFailure, NextMethod, world
<1>4. CASE GiveUp
  BY <1>4 DEF GiveUp, End, logs, world
<1>5. CASE CallDriver
  <2>1. ~Skips(Methods[i])
    BY <1>5, UsableIsNotSkipped DEF CallDriver
  <2> QED BY <1>5, <2>1 DEF CallDriver, BugLog
<1>6. CASE CallReturns
  BY <1>6, TimePasses DEF CallReturns, CheckStart, End, logs, world
<1>7. CASE CallRaises
  BY <1>7, TimePasses DEF CallRaises, NoteFailure, NextMethod, world
<1>8. CASE SeenDown
  BY <1>8, TimePasses DEF SeenDown, logs, world
<1>9. CASE StillUp
  BY <1>9, TimePasses DEF StillUp, logs, world
<1>10. CASE DownTimesOut
  BY <1>10, TimePasses DEF DownTimesOut, NoteFailure, NextMethod, world
<1>11. CASE SeenUp
  BY <1>11, TimePasses DEF SeenUp, End, logs, world
<1>12. CASE StillDown
  BY <1>12, TimePasses DEF StillDown, logs, world
<1>13. CASE UpTimesOut
  BY <1>13, TimePasses DEF UpTimesOut, NoteFailure, NextMethod, world
<1>14. CASE Limit
  <2>1. CASE SoftLimitAborts
    BY <1>14, <2>1, TimesAssumption DEF SoftLimitAborts, NoteInShortLogOnly, End, world
  <2>2. CASE SoftLimitSwallowed
    BY <2>2, TimesAssumption DEF SoftLimitSwallowed, logs, world
  <2>3. CASE SoftLimitBetweenMethods
    BY <2>3 DEF SoftLimitBetweenMethods, End, logs, world
  <2>4. CASE HardLimitKills
    BY <2>4, TimesAssumption DEF HardLimitKills, End, Running, logs, world
  <2> QED BY <1>14, <2>1, <2>2, <2>3, <2>4 DEF Limit
<1>15. CASE Machine
  BY <1>15 DEF Machine, Drop, Boot, logs
<1>16. CASE UNCHANGED vars
  BY <1>16 DEF vars
<1> QED
  BY <1>1, <1>2, <1>3, <1>4, <1>5, <1>6, <1>7, <1>8, <1>9, <1>10, <1>11,
     <1>12, <1>13, <1>14, <1>15, <1>16 DEF Next, JobStep, Attempt, Check

\* The variables of the reboot command keep their types, whatever its list of
\* methods, timeouts and limits.
THEOREM Typing == Spec => [](TypeOK /\ InLoop)
BY TypingInit, TypingStep, PTL DEF Spec

THEOREM TypeSafety == Spec => []TypeOK
BY Typing, PTL

-----------------------------------------------------------------------------
(* The record of the attempts.                                             *)

\* Between the call of file_bugzilla_bug and its end the bug is told all.
BugToldAll ==
  pc = "call" /\ Methods[i] = "file_bugzilla_bug" => bug = log

RecordInv == RecordIsHistory /\ BugToldAll

\* Passing a method adds it to what is owed, unless it is skipped.
LEMMA OwedAdvances ==
  ASSUME i \in Attempts
  PROVE  Owed(i + 1) = IF Skips(Methods[i]) THEN Owed(i) ELSE Owed(i) \cup {i}
BY MethodsAreIndexed DEF Owed

\* What is owed depends on the configuration and the position alone.
LEMMA OwedIsStable ==
  ASSUME UNCHANGED server
  PROVE  /\ i' = i => Owed(i)' = Owed(i) /\ Owed(i + 1)' = Owed(i + 1)
         /\ i' = i + 1 => Owed(i)' = Owed(i + 1)
BY DEF Owed, Skips

LEMMA RecordInit == Init => RecordInv
<1> SUFFICES ASSUME Init PROVE RecordInv
  OBVIOUS
<1>1. Owed(i) = {}
  BY MethodsAreIndexed DEF Init, Owed
<1> QED BY <1>1 DEF Init, RecordInv, RecordIsHistory, BugToldAll

LEMMA RecordStep ==
  TypeOK /\ InLoop /\ RecordInv /\ [Next]_vars => RecordInv'
<1> SUFFICES ASSUME TypeOK, InLoop, RecordInv, [Next]_vars PROVE RecordInv'
  OBVIOUS
<1> USE DEF RecordInv, RecordIsHistory, BugToldAll
<1>0. outcome = "none" \/ pc = "done"
  BY DEF TypeOK
<1>1. CASE NoteFailure /\ NextMethod /\ UNCHANGED <<server, outcome>> /\ i \in Attempts
             /\ ~Skips(Methods[i]) /\ outcome = "none"
  BY <1>1, OwedAdvances, OwedIsStable DEF NoteFailure, NextMethod
<1>2. CASE LookupServer
  BY <1>2, <1>0, OwedIsStable DEF LookupServer, End, logs, TypeOK
<1>3. CASE SkipMethod
  BY <1>3, <1>0, OwedAdvances, OwedIsStable DEF SkipMethod, NextMethod, logs, TypeOK
<1>4. CASE BadArguments
  BY <1>1, <1>4, <1>0 DEF BadArguments
<1>5. CASE GiveUp
  BY <1>5, <1>0, OwedIsStable, MethodsAreIndexed DEF GiveUp, End, logs, TypeOK
<1>6. CASE CallDriver
  BY <1>6, <1>0, OwedIsStable DEF CallDriver, BugLog
<1>7. CASE CallReturns
  BY <1>7, <1>0, OwedIsStable DEF CallReturns, CheckStart, End, logs, TypeOK
<1>8. CASE CallRaises
  BY <1>1, <1>8, <1>0 DEF CallRaises, InLoop, Busy, TypeOK
<1>9. CASE SeenDown \/ StillUp \/ StillDown
  BY <1>9, <1>0, OwedIsStable DEF SeenDown, StillUp, StillDown, logs, TypeOK
<1>10. CASE DownTimesOut \/ UpTimesOut
  BY <1>1, <1>10, <1>0 DEF DownTimesOut, UpTimesOut, InLoop, Busy, TypeOK
<1>11. CASE SeenUp
  BY <1>11, <1>0, OwedIsStable DEF SeenUp, End, logs, TypeOK
<1>12. CASE SoftLimitAborts
  <2>1. i \in Attempts /\ ~Skips(Methods[i]) /\ outcome = "none"
    BY <1>12, <1>0 DEF SoftLimitAborts, InLoop, Busy, TypeOK
  <2> QED BY <1>12, <2>1, OwedAdvances, OwedIsStable
          DEF SoftLimitAborts, NoteInShortLogOnly, End
<1>13. CASE SoftLimitSwallowed
  BY <1>13, <1>0, OwedIsStable DEF SoftLimitSwallowed, logs
<1>14. CASE SoftLimitBetweenMethods
  BY <1>14, <1>0, OwedIsStable DEF SoftLimitBetweenMethods, End, logs
<1>15. CASE HardLimitKills
  BY <1>15, <1>0, OwedIsStable DEF HardLimitKills, Running, End, logs
<1>16. CASE Machine
  BY <1>16, OwedIsStable DEF Machine, Drop, Boot, logs
<1>17. CASE UNCHANGED vars
  BY <1>17, OwedIsStable DEF vars, logs
<1> QED
  BY <1>2, <1>3, <1>4, <1>5, <1>6, <1>7, <1>8, <1>9, <1>10, <1>11, <1>12,
     <1>13, <1>14, <1>15, <1>16, <1>17 DEF Next, JobStep, Attempt, Check, Limit

\* The logs of a job, the exception or output that ends it and the bug it
\* files name exactly the methods it has tried.
THEOREM RecordIsComplete == Spec => []RecordIsHistory
<1>1. Init => RecordInv
  BY RecordInit
<1>2. TypeOK /\ InLoop /\ RecordInv /\ [Next]_vars => RecordInv'
  BY RecordStep
<1>3. RecordInv => RecordIsHistory
  BY DEF RecordInv
<1> QED BY <1>1, <1>2, <1>3, Typing, PTL DEF Spec

-----------------------------------------------------------------------------
(* A reported reboot is real.                                              *)

\* While the command waits for the machine to come up it has seen it down.
SawItDown ==
  pc = "up" => LossyPing \/ target = IloHost \/ wentDown

\* A silent machine is down, unless pings get lost or it is not pinged; and it
\* is down only if it went down after the last command.
DownMeansWentDown ==
  pc \in Busy /\ machine = "down" => wentDown

LEMMA SawItDownStep ==
  TypeOK /\ InLoop /\ SawItDown /\ DownMeansWentDown /\ [Next]_vars
    => SawItDown' /\ DownMeansWentDown'
<1> SUFFICES ASSUME TypeOK, InLoop, SawItDown, DownMeansWentDown, [Next]_vars
             PROVE  SawItDown' /\ DownMeansWentDown'
  OBVIOUS
<1> USE DEF SawItDown, DownMeansWentDown, Busy
<1>1. CASE LookupServer \/ SkipMethod \/ BadArguments \/ GiveUp
  BY <1>1 DEF LookupServer, SkipMethod, BadArguments, GiveUp, NextMethod, End,
     world, TypeOK
<1>2. CASE CallDriver
  BY <1>2 DEF CallDriver
<1>3. CASE CallReturns
  BY <1>3 DEF CallReturns, CheckStart, End, world
<1>4. CASE CallRaises \/ DownTimesOut \/ UpTimesOut
  BY <1>4 DEF CallRaises, DownTimesOut, UpTimesOut, NextMethod, world
<1>5. CASE SeenDown
  BY <1>5, HostAssumption DEF SeenDown, CanBeSilent, world, logs, TypeOK
<1>6. CASE StillUp \/ StillDown
  BY <1>6 DEF StillUp, StillDown, world
<1>7. CASE SeenUp
  BY <1>7 DEF SeenUp, End, world
<1>8. CASE Limit
  BY <1>8 DEF Limit, SoftLimitAborts, SoftLimitSwallowed, SoftLimitBetweenMethods,
     HardLimitKills, End, world
<1>9. CASE Machine
  BY <1>9 DEF Machine, Drop, Boot
<1>10. CASE UNCHANGED vars
  BY <1>10 DEF vars
<1> QED
  BY <1>1, <1>2, <1>3, <1>4, <1>5, <1>6, <1>7, <1>8, <1>9, <1>10
     DEF Next, JobStep, Attempt, Check

\* Only the last ping of is_up makes a job report a reboot.
LEMMA OnlySeenUpReboots ==
  TypeOK /\ SawItDown /\ [Next]_vars
    => (outcome' = "rebooted" /\ outcome # "rebooted"
          => LossyPing \/ target = IloHost \/ (wentDown /\ machine = "up"))
<1> SUFFICES ASSUME TypeOK, SawItDown, [Next]_vars,
                    outcome' = "rebooted", outcome # "rebooted"
             PROVE  LossyPing \/ target = IloHost \/ (wentDown /\ machine = "up")
  OBVIOUS
<1>1. SeenUp
  BY DEF Next, JobStep, Attempt, Check, Limit, Machine, LookupServer, SkipMethod,
     BadArguments, GiveUp, CallDriver, CallReturns, CallRaises, SeenDown, StillUp,
     DownTimesOut, StillDown, UpTimesOut, SoftLimitAborts, SoftLimitSwallowed,
     SoftLimitBetweenMethods, HardLimitKills, Drop, Boot, End, vars
<1> QED BY <1>1 DEF SeenUp, CanAnswer, SawItDown

\* If pings of a running machine are never lost, a job that reports a reboot of
\* the machine it pings has seen a machine that went down after the last
\* command and is up again.
THEOREM RebootIsConfirmed == Spec => RebootIsReal
<1>1. Init => SawItDown /\ DownMeansWentDown
  BY DEF Init, SawItDown, DownMeansWentDown, Busy
<1>2. TypeOK /\ InLoop /\ SawItDown /\ DownMeansWentDown /\ [Next]_vars
        => SawItDown' /\ DownMeansWentDown'
  BY SawItDownStep
<1>3. TypeOK /\ SawItDown /\ [Next]_vars
        => [outcome' = "rebooted" /\ outcome # "rebooted"
              => LossyPing \/ target = IloHost \/ (wentDown /\ machine = "up")]_vars
  BY OnlySeenUpReboots
<1> QED BY <1>1, <1>2, <1>3, Typing, PTL DEF Spec, RebootIsReal

-----------------------------------------------------------------------------
(* The time limits.                                                        *)

SwallowedByADriver == limitHit => \E j \in 1..i : Swallower(j)

\* A job that outlives the soft limit has a driver to thank for it.
THEOREM NoCommandAfterSoftLimit == Spec => []QuietAfterSoftLimit
<1>1. Init => SwallowedByADriver
  BY DEF Init, SwallowedByADriver
<1>2. TypeOK /\ InLoop /\ SwallowedByADriver /\ [Next]_vars => SwallowedByADriver'
  <2> SUFFICES ASSUME TypeOK, InLoop, SwallowedByADriver, [Next]_vars
               PROVE  SwallowedByADriver'
    OBVIOUS
  <2>1. CASE SoftLimitSwallowed
    BY <2>1, MethodsAreIndexed
    DEF SoftLimitSwallowed, SwallowedByADriver, Swallower, InLoop, Busy
  <2>2. CASE ~SoftLimitSwallowed
    <3>1. UNCHANGED limitHit /\ (UNCHANGED i \/ i' = i + 1)
      BY <2>2 DEF Next, JobStep, Attempt, Check, Limit, Machine, LookupServer,
         SkipMethod, BadArguments, GiveUp, CallDriver, CallReturns, CallRaises,
         SeenDown, StillUp, DownTimesOut, SeenUp, StillDown, UpTimesOut,
         SoftLimitAborts, SoftLimitBetweenMethods, HardLimitKills, Drop, Boot,
         NextMethod, vars
    <3> QED BY <3>1, MethodsAreIndexed DEF SwallowedByADriver, Swallower, TypeOK
  <2> QED BY <2>1, <2>2
<1>3. TypeOK /\ InLoop /\ SwallowedByADriver => QuietAfterSoftLimit
  BY TimesAssumption DEF TypeOK, InLoop, Deadline, SwallowedByADriver, QuietAfterSoftLimit
<1> QED BY <1>1, <1>2, <1>3, Typing, PTL DEF Spec

\* The time that all of the methods before the k-th may have taken.
Spent(k) == (k - 1) * AttemptBudget

LEMMA BudgetArithmetic ==
  /\ AttemptBudget \in Nat
  /\ Spent(1) = 0
  /\ \A k \in 1..(Len(Methods) + 1) :
       /\ Spent(k) \in Nat
       /\ k * AttemptBudget = Spent(k) + AttemptBudget
       /\ Spent(k + 1) = Spent(k) + AttemptBudget
       /\ k \in Attempts => k * AttemptBudget <= Len(Methods) * AttemptBudget
  /\ Spent(Len(Methods) + 1) = Len(Methods) * AttemptBudget
<1>1. AttemptBudget \in Nat
  BY WaitsAreBounded, TimesAssumption DEF AttemptBudget
<1>2. ASSUME NEW k \in Nat, NEW n \in Nat, NEW b \in Nat, k <= n
      PROVE  k * b <= n * b
  <2>1. PICK e \in Nat : n = k + e
    BY <1>2
  <2>2. n * b = k * b + e * b /\ e * b \in Nat /\ k * b \in Nat
    BY <2>1
  <2> QED BY <2>2
<1>3. ASSUME NEW k \in 1..(Len(Methods) + 1)
      PROVE  /\ Spent(k) \in Nat
             /\ k * AttemptBudget = Spent(k) + AttemptBudget
             /\ Spent(k + 1) = Spent(k) + AttemptBudget
             /\ k \in Attempts => k * AttemptBudget <= Len(Methods) * AttemptBudget
  <2>1. k \in Nat /\ k - 1 \in Nat /\ Len(Methods) \in Nat
    BY MethodsAreIndexed
  <2>2. k \in Attempts => k * AttemptBudget <= Len(Methods) * AttemptBudget
    BY <1>1, <1>2, <2>1, MethodsAreIndexed
  <2>3. (k - 1) * AttemptBudget \in Nat
        /\ k * AttemptBudget = (k - 1) * AttemptBudget + AttemptBudget
    BY <1>1, <2>1
  <2>4. Spent(k + 1) = k * AttemptBudget
    BY <2>1 DEF Spent
  <2> QED BY <2>2, <2>3, <2>4 DEF Spent
<1> QED BY <1>1, <1>3, MethodsAreIndexed DEF Spent

\* A call that goes on after swallowing the limit may last as long again.
Extra == IF SwallowedHere THEN MaxCall ELSE 0

\* How far the current method, or the last one, is in its budget.
InBudget ==
  /\ pc = "call" => clock <= begun + Extra
  /\ pc = "down" => /\ waitStart <= begun + MaxCall + Extra
                    /\ clock <= waitStart + DownTimeout
  /\ pc = "up" =>
       /\ waitStart <= begun + MaxCall + DownTimeout + MaxDownProbe + Extra
       /\ clock <= waitStart + UpTimeout
  /\ pc \notin Busy => clock <= begun + AttemptBudget + Extra

\* The numbers that the budget is about.
LEMMA BudgetFacts ==
  ASSUME TypeOK
  PROVE  /\ clock \in Nat /\ waitStart \in Nat /\ begun \in Nat /\ Extra \in Nat
         /\ begun <= clock
         /\ DownTimeout \in Nat /\ UpTimeout \in Nat
         /\ SoftLimit \in Nat /\ HardLimit \in Nat
         /\ AttemptBudget \in Nat
         /\ AttemptBudget = MaxCall + DownTimeout + MaxDownProbe + DownInterval
                                    + UpTimeout + MaxUpProbe + UpInterval
BY BudgetArithmetic, WaitsAreBounded, TimesAssumption DEF TypeOK, Extra, AttemptBudget

\* No wait reaches over the end of the method's budget.
LEMMA WaitsFit ==
  ASSUME TypeOK, InBudget, Running
  PROVE  \A d \in Waits : d \in Nat /\ clock + d <= begun + AttemptBudget + Extra
<1> USE BudgetFacts, WaitsAreBounded DEF InBudget, Busy
<1>1. CASE pc = "call"
  <2>1. Waits = CallTimes
    BY <1>1 DEF Waits
  <2> QED BY <1>1, <2>1
<1>2. CASE pc = "down"
  <2>1. Waits = {d + DownInterval : d \in DownProbeTimes}
    BY <1>2 DEF Waits
  <2>2. ASSUME NEW d \in DownProbeTimes
        PROVE  /\ d + DownInterval \in Nat
               /\ clock + (d + DownInterval) <= begun + AttemptBudget + Extra
    BY <1>2
  <2> QED BY <2>1, <2>2
<1>3. CASE pc = "up"
  <2>1. Waits = {d + UpInterval : d \in UpProbeTimes}
    BY <1>3 DEF Waits
  <2>2. ASSUME NEW d \in UpProbeTimes
        PROVE  /\ d + UpInterval \in Nat
               /\ clock + (d + UpInterval) <= begun + AttemptBudget + Extra
    BY <1>3
  <2> QED BY <2>1, <2>2
<1>4. CASE pc \in {"start", "next"}
  <2>1. Waits = {0}
    BY <1>4 DEF Waits
  <2> QED BY <1>4, <2>1
<1> QED BY <1>1, <1>2, <1>3, <1>4 DEF Running, TypeOK

\* Where the deadline cuts in, it is not beyond the method's budget.
LEMMA CutInBudget ==
  ASSUME TypeOK, InBudget, Running, DeadlineCutsIn
  PROVE  Deadline <= begun + AttemptBudget + Extra
<1>1. PICK d \in Waits : clock + d >= Deadline
  BY DEF DeadlineCutsIn
<1>2. d \in Nat /\ clock + d <= begun + AttemptBudget + Extra
  BY WaitsFit
<1> QED BY <1>1, <1>2, BudgetFacts DEF Deadline

LEMMA InBudgetStep ==
  TypeOK /\ InLoop /\ InBudget /\ [Next]_vars => InBudget'
<1> SUFFICES ASSUME TypeOK, InLoop, InBudget, [Next]_vars PROVE InBudget'
  OBVIOUS
<1>a. UNCHANGED <<limitHit, begun>> => Extra' = Extra
  BY DEF Extra, SwallowedHere
<1>b. Extra' \in Nat
  BY WaitsAreBounded DEF Extra
<1> USE BudgetFacts, WaitsAreBounded, <1>a DEF InBudget, Busy
<1>1. CASE LookupServer
  BY <1>1 DEF LookupServer, End, world
<1>2. CASE SkipMethod
  BY <1>2 DEF SkipMethod, NextMethod, world
<1>3. CASE BadArguments
  BY <1>3 DEF BadArguments, NextMethod, world
<1>4. CASE GiveUp
  BY <1>4 DEF GiveUp, End, world
<1>5. CASE CallDriver
  BY <1>5, <1>b DEF CallDriver
<1>6. CASE CallReturns
  BY <1>6, TimePasses DEF CallReturns, CheckStart, End, world
<1>7. CASE CallRaises
  BY <1>7, TimePasses DEF CallRaises, NextMethod, world
<1>8. CASE SeenDown
  BY <1>8, TimePasses DEF SeenDown, world
<1>9. CASE StillUp
  BY <1>9, TimePasses DEF StillUp, WaitedFor, world
<1>10. CASE DownTimesOut
  BY <1>10, TimePasses DEF DownTimesOut, NextMethod, world
<1>11. CASE SeenUp
  BY <1>11, TimePasses DEF SeenUp, End, world
<1>12. CASE StillDown
  BY <1>12, TimePasses DEF StillDown, WaitedFor, world
<1>13. CASE UpTimesOut
  BY <1>13, TimePasses DEF UpTimesOut, NextMethod, world
<1>14. CASE SoftLimitAborts
  BY <1>14, CutInBudget DEF SoftLimitAborts, End, Deadline, Running, world
<1>15. CASE SoftLimitSwallowed
  <2>1. Waits = CallTimes /\ Deadline = SoftLimit
    BY <1>15 DEF SoftLimitSwallowed, Waits, Deadline
  <2>2. Extra = 0 /\ begun <= SoftLimit
    BY <1>15, <2>1 DEF SoftLimitSwallowed, Extra, SwallowedHere, InLoop
  <2>3. Extra' = MaxCall
    BY <1>15, <2>2 DEF SoftLimitSwallowed, Extra, SwallowedHere, world
  <2> QED BY <1>15, <2>1, <2>2, <2>3 DEF SoftLimitSwallowed, DeadlineCutsIn, world
<1>16. CASE SoftLimitBetweenMethods
  BY <1>16 DEF SoftLimitBetweenMethods, End, world
<1>17. CASE HardLimitKills
  BY <1>17, CutInBudget DEF HardLimitKills, End, Deadline, world
<1>18. CASE Machine
  BY <1>18 DEF Machine, Drop, Boot
<1>19. CASE UNCHANGED vars
  BY <1>19 DEF vars
<1> QED
  BY <1>1, <1>2, <1>3, <1>4, <1>5, <1>6, <1>7, <1>8, <1>9, <1>10, <1>11,
     <1>12, <1>13, <1>14, <1>15, <1>16, <1>17, <1>18, <1>19
     DEF Next, JobStep, Attempt, Check, Limit

LEMMA BudgetIsKept == Spec => []InBudget
<1>1. Init => InBudget
  BY BudgetFacts, TypingInit DEF Init, InBudget, Busy
<1> QED BY <1>1, InBudgetStep, Typing, PTL DEF Spec

\* Whatever the limits are and wherever they strike, each method ends within
\* its own budget from the issue of its command, however long the methods
\* before it took, and, if its driver has swallowed the limit, one call more.
THEOREM MethodsEndInTime == Spec => []NoMethodOverruns
<1>1. TypeOK /\ InBudget => NoMethodOverruns
  <2> SUFFICES ASSUME TypeOK, InBudget PROVE NoMethodOverruns
    OBVIOUS
  <2>1. clock <= begun + AttemptBudget + Extra
    <3>1. CASE pc = "done"
      BY <3>1 DEF InBudget, Busy
    <3>2. CASE pc # "done"
      <4>1. PICK d \in Waits : TRUE
        BY DurationsAssumption DEF Waits
      <4> QED BY <3>2, <4>1, WaitsFit, BudgetFacts DEF Running
    <3> QED BY <3>1, <3>2
  <2>2. clock - begun <= AttemptBudget + Extra
    BY <2>1, BudgetFacts
  <2> QED BY <2>2 DEF NoMethodOverruns, Extra
<1> QED BY <1>1, BudgetIsKept, Typing, PTL

\* As long as no limit has struck, a method begins after at most the budgets of
\* the methods before it.
Schedule ==
  ~limitHit => /\ pc \in {"start", "next"} => clock <= Spent(i)
               /\ pc \in Busy => begun <= Spent(i)

LEMMA ScheduleStep ==
  TypeOK /\ TypeOK' /\ InLoop /\ InBudget /\ InBudget' /\ Schedule /\ [Next]_vars
    => Schedule'
<1> SUFFICES ASSUME TypeOK, TypeOK', InLoop, InBudget, InBudget', Schedule, [Next]_vars,
                    ~limitHit'
             PROVE  Schedule'
  BY DEF Schedule
<1> USE DEF Busy
<1>1. /\ clock \in Nat /\ begun \in Nat /\ AttemptBudget \in Nat /\ Spent(i) \in Nat
      /\ Spent(i + 1) = Spent(i) + AttemptBudget
  BY BudgetFacts, BudgetArithmetic DEF TypeOK
<1>2. CASE limitHit
  BY <1>2 DEF Next, JobStep, Attempt, Check, Limit, Machine, LookupServer, SkipMethod,
     BadArguments, GiveUp, CallDriver, CallReturns, CallRaises, SeenDown, StillUp,
     DownTimesOut, SeenUp, StillDown, UpTimesOut, SoftLimitAborts, SoftLimitSwallowed,
     SoftLimitBetweenMethods, HardLimitKills, Drop, Boot, vars
<1>3. ASSUME ~limitHit, UNCHANGED <<i, begun>>,
             pc' \in Busy => pc \in Busy,
             pc' \in {"start", "next"} => pc \in {"start", "next"} /\ clock' = clock
      PROVE  Schedule'
  BY <1>3 DEF Schedule, Spent
<1>4. ASSUME ~limitHit, pc \in Busy, pc' = "next", i' = i + 1, UNCHANGED begun
      PROVE  Schedule'
  <2>1. Extra' = 0
    BY DEF Extra, SwallowedHere
  <2>2. clock' <= begun + AttemptBudget
    <3>1. clock' <= begun' + AttemptBudget' + Extra'
      BY <1>4 DEF InBudget
    <3>2. AttemptBudget' = AttemptBudget
      BY DEF AttemptBudget
    <3> QED BY <1>1, <1>4, <2>1, <3>1, <3>2
  <2>3. begun <= Spent(i)
    BY <1>4 DEF Schedule
  <2>4. Spent(i)' = Spent(i) + AttemptBudget
    BY <1>1, <1>4 DEF Spent
  <2>5. clock' \in Nat
    BY DEF TypeOK
  <2> QED BY <1>1, <1>4, <2>2, <2>3, <2>4, <2>5 DEF Schedule
<1>5. ASSUME ~limitHit, pc = "next", pc' = "next", i' = i + 1, UNCHANGED clock
      PROVE  Schedule'
  <2>1. clock <= Spent(i)
    BY <1>5 DEF Schedule
  <2>2. Spent(i)' = Spent(i) + AttemptBudget
    BY <1>1, <1>5 DEF Spent
  <2> QED BY <1>1, <1>5, <2>1, <2>2 DEF Schedule
<1>6. CASE ~limitHit /\ CallDriver
  BY <1>6 DEF CallDriver, Schedule, Spent
<1>7. CASE ~limitHit /\ (SkipMethod \/ BadArguments)
  BY <1>5, <1>7 DEF SkipMethod, BadArguments, NextMethod
<1>8. CASE ~limitHit /\ (CallRaises \/ DownTimesOut \/ UpTimesOut)
  BY <1>4, <1>8 DEF CallRaises, DownTimesOut, UpTimesOut, NextMethod, world
<1>9. CASE ~limitHit /\ (\/ LookupServer \/ GiveUp \/ CallReturns \/ SeenDown \/ StillUp
                        \/ SeenUp \/ StillDown \/ Limit \/ Machine \/ UNCHANGED vars)
  BY <1>3, <1>9 DEF LookupServer, GiveUp, CallReturns, CheckStart, SeenDown, StillUp,
     SeenUp, StillDown, Limit, SoftLimitAborts, SoftLimitSwallowed,
     SoftLimitBetweenMethods, HardLimitKills, Machine, Drop, Boot, End, world, vars
<1> QED BY <1>2, <1>6, <1>7, <1>8, <1>9 DEF Next, JobStep, Attempt, Check

LEMMA ScheduleIsKept == Spec => [](InBudget /\ Schedule)
<1>1. Init => Schedule
  BY TypingInit, BudgetArithmetic DEF Init, Schedule, Busy
<1> QED BY <1>1, ScheduleStep, BudgetIsKept, Typing, PTL DEF Spec

\* What no limit has touched.
Undisturbed ==
  ~limitHit /\ outcome \notin {"aborted", "aborted_bare", "killed"}

\* If the budgets of all methods fit, no wait reaches the soft limit.
LEMMA NotCutIn ==
  ASSUME TypeOK, InLoop, InBudget, Schedule, Undisturbed, BudgetSuffices
  PROVE  /\ pc \in Busy => ~DeadlineCutsIn
         /\ pc = "next" => clock # SoftLimit
<1>1. Extra = 0 /\ Deadline = SoftLimit /\ ~limitHit
  BY DEF Undisturbed, Extra, SwallowedHere, Deadline
<1>2. /\ Spent(i) \in Nat
      /\ i \in Attempts => Spent(i) + AttemptBudget < SoftLimit
      /\ i \notin Attempts => Spent(i) < SoftLimit
  <2>1. PICK w \in Nat : w = Len(Methods) * AttemptBudget
    BY BudgetArithmetic, MethodsAreIndexed
  <2>2. w < SoftLimit /\ SoftLimit \in Nat /\ AttemptBudget \in Nat
    BY <2>1, BudgetFacts DEF BudgetSuffices
  <2>3. i \in 1..(Len(Methods) + 1)
    BY DEF TypeOK
  <2>4. Spent(i) \in Nat /\ (i \in Attempts => Spent(i) + AttemptBudget <= w)
    BY <2>1, <2>3, BudgetArithmetic
  <2>5. i \notin Attempts => Spent(i) = w
    BY <2>1, <2>3, BudgetArithmetic, MethodsAreIndexed
  <2> QED BY <2>2, <2>4, <2>5
<1>3. ASSUME pc \in Busy, DeadlineCutsIn PROVE FALSE
  <2>1. SoftLimit <= begun + AttemptBudget
    BY <1>1, <1>3, CutInBudget, BudgetFacts DEF Busy, Running
  <2>2. begun <= Spent(i) /\ i \in Attempts
    BY <1>1, <1>3 DEF Schedule, InLoop
  <2> QED BY <1>2, <2>1, <2>2, BudgetFacts
<1>4. ASSUME pc = "next" PROVE clock # SoftLimit
  BY <1>1, <1>2, <1>4, BudgetFacts DEF Schedule
<1> QED BY <1>3, <1>4

LEMMA UndisturbedStep ==
  TypeOK /\ InLoop /\ InBudget /\ Schedule /\ Undisturbed /\ BudgetSuffices /\ [Next]_vars
    => Undisturbed'
<1> SUFFICES ASSUME TypeOK, InLoop, InBudget, Schedule, Undisturbed, BudgetSuffices,
                    [Next]_vars
             PROVE  Undisturbed'
  OBVIOUS
<1>1. ~Limit
  BY NotCutIn DEF Limit, SoftLimitAborts, SoftLimitSwallowed, SoftLimitBetweenMethods,
     HardLimitKills, Busy, Undisturbed
<1> QED
  BY <1>1 DEF Undisturbed, Next, JobStep, Attempt, Check, Machine, LookupServer,
     SkipMethod, BadArguments, GiveUp, CallDriver, CallReturns, CallRaises, SeenDown,
     StillUp, DownTimesOut, SeenUp, StillDown, UpTimesOut, Drop, Boot, End, vars

\* When the soft limit exceeds the number of methods times the longest that one
\* of them can take, no job is ever cut short.
THEOREM BudgetKeepsTheLimits == Spec => []NoLimitMet
<1>1. CASE BudgetSuffices
  <2>1. Init => Undisturbed
    BY DEF Init, Undisturbed
  <2>2. TypeOK /\ InLoop /\ InBudget /\ Schedule /\ Undisturbed /\ [Next]_vars
          => Undisturbed'
    BY <1>1, UndisturbedStep
  <2>3. Undisturbed => NoLimitMet
    BY DEF Undisturbed, NoLimitMet
  <2> QED BY <2>1, <2>2, <2>3, Typing, ScheduleIsKept, PTL DEF Spec
<1>2. CASE ~BudgetSuffices
  <2>1. NoLimitMet
    BY <1>2 DEF NoLimitMet
  <2> QED BY <2>1, PTL
<1> QED BY <1>1, <1>2

-----------------------------------------------------------------------------
(* No step for nothing.                                                    *)

\* What is left is a number, and so is the clock: both have an end.
Bounded == StepsLeft \in 0..(4 * Len(Methods) + 6) /\ clock \in 0..HardLimit

LEMMA Phases ==
  /\ TypeOK => Phase \in 0..5 /\ (Phase = 5 => pc = "start")
  /\ pc' = "next" => Phase' = 4
<1>1. TypeOK => Phase \in 0..5 /\ (Phase = 5 => pc = "start")
  <2> SUFFICES ASSUME TypeOK PROVE Phase \in 0..5 /\ (Phase = 5 => pc = "start")
    OBVIOUS
  <2>1. pc \in {"start", "next", "call", "down", "up", "done"}
    BY DEF TypeOK
  <2> QED BY <2>1 DEF Phase
<1> QED BY <1>1 DEF Phase

LEMMA StepsAreBounded == TypeOK /\ InLoop => Bounded
<1> SUFFICES ASSUME TypeOK, InLoop PROVE Bounded
  OBVIOUS
<1>1. Phase \in 0..5 /\ Len(Methods) \in Nat /\ i \in 1..(Len(Methods) + 1)
  BY Phases, MethodsAreIndexed DEF InLoop
<1>2. StepsLeft \in 0..(4 * Len(Methods) + 6)
  BY <1>1 DEF StepsLeft
<1>3. clock \in 0..HardLimit
  BY TimesAssumption DEF TypeOK, InLoop, Deadline
<1> QED BY <1>2, <1>3 DEF Bounded

LEMMA StepsGoDown ==
  TypeOK /\ InLoop /\ [Next]_vars
    => \/ UNCHANGED <<pc, i, server, target, logs, clock, waitStart, limitHit, outcome>>
       \/ clock' > clock
       \/ clock' = clock /\ StepsLeft' < StepsLeft
<1> DEFINE Advances == \/ clock' > clock
                       \/ clock' = clock /\ StepsLeft' < StepsLeft
<1> SUFFICES ASSUME TypeOK, InLoop, [Next]_vars
             PROVE  \/ Advances
                    \/ UNCHANGED <<pc, i, server, target, logs, clock, waitStart,
                                   limitHit, outcome>>
  OBVIOUS
<1>0. /\ clock \in Nat /\ i \in Nat /\ Len(Methods) \in Nat /\ SoftLimit \in Nat
      /\ DownInterval \in Nat \ {0} /\ UpInterval \in Nat \ {0}
  BY MethodsAreIndexed, TimesAssumption DEF TypeOK
<1>1. ASSUME clock' \in Nat, clock' >= clock, UNCHANGED <<i, limitHit>>,
             Phase' \in Nat, Phase' < Phase
      PROVE  Advances
  <2>1. Phase \in 0..5
    BY Phases
  <2>2. CASE clock' = clock
    <3>1. StepsLeft' < StepsLeft
      BY <1>0, <1>1, <2>1 DEF StepsLeft
    <3> QED BY <2>2, <3>1
  <2>3. CASE clock' > clock
    BY <2>3
  <2> QED BY <1>0, <1>1, <2>2, <2>3
<1>2. ASSUME clock' \in Nat, clock' >= clock, UNCHANGED limitHit, NextMethod, pc # "done",
             pc # "start"
      PROVE  Advances
  <2>1. Phase \in 1..4 /\ Phase' = 4 /\ i' = i + 1
    BY <1>2, Phases DEF NextMethod, Phase, TypeOK
  <2> QED BY <1>0, <1>2, <2>1 DEF StepsLeft
<1>3. ASSUME NEW d \in Nat, Elapse(d) PROVE clock' \in Nat /\ clock' >= clock
  BY <1>0, <1>3 DEF Elapse
<1>4. ASSUME NEW d \in Nat \ {0}, Elapse(d) PROVE clock' > clock
  BY <1>0, <1>4 DEF Elapse
<1> HIDE DEF Advances
<1>5. CASE LookupServer \/ GiveUp \/ CallDriver \/ SoftLimitBetweenMethods
  BY <1>0, <1>1, <1>5 DEF LookupServer, GiveUp, CallDriver, SoftLimitBetweenMethods,
     End, Phase
<1>6. CASE SkipMethod \/ BadArguments
  BY <1>0, <1>2, <1>6 DEF SkipMethod, BadArguments
<1>7. CASE CallReturns \/ SeenDown \/ SeenUp
  <2>1. clock' \in Nat /\ clock' >= clock
    BY <1>3, <1>7, WaitsAreBounded DEF CallReturns, SeenDown, SeenUp
  <2> QED BY <1>1, <1>7, <2>1
          DEF CallReturns, SeenDown, SeenUp, CheckStart, End, Phase
<1>8. CASE CallRaises
  <2>1. clock' \in Nat /\ clock' >= clock
    BY <1>3, <1>8, WaitsAreBounded DEF CallRaises
  <2> QED BY <1>2, <1>8, <2>1 DEF CallRaises
<1>9. CASE StillUp \/ DownTimesOut
  <2>1. PICK d \in DownProbeTimes : Elapse(d + DownInterval)
    BY <1>9 DEF StillUp, DownTimesOut
  <2>2. d + DownInterval \in Nat \ {0}
    BY <1>0, WaitsAreBounded
  <2> QED BY <1>4, <2>1, <2>2 DEF Advances
<1>10. CASE StillDown \/ UpTimesOut
  <2>1. PICK d \in UpProbeTimes : Elapse(d + UpInterval)
    BY <1>10 DEF StillDown, UpTimesOut
  <2>2. d + UpInterval \in Nat \ {0}
    BY <1>0, WaitsAreBounded
  <2> QED BY <1>4, <2>1, <2>2 DEF Advances
<1>11. CASE SoftLimitAborts
  <2>1. clock' \in Nat /\ clock' >= clock
    BY <1>0, <1>11 DEF SoftLimitAborts, InLoop, Deadline
  <2> QED BY <1>1, <1>11, <2>1 DEF SoftLimitAborts, End, Phase
<1>12. CASE SoftLimitSwallowed
  <2>1. clock' \in Nat /\ clock' >= clock
    BY <1>0, <1>12 DEF SoftLimitSwallowed, InLoop, Deadline
  <2>2. Phase = 3 /\ Phase' = 3
    BY <1>12 DEF SoftLimitSwallowed, Phase
  <2>3. StepsLeft' < StepsLeft
    BY <1>0, <1>12, <2>2 DEF SoftLimitSwallowed, StepsLeft
  <2> QED BY <1>0, <2>1, <2>3 DEF Advances
<1>13. CASE HardLimitKills
  <2>1. clock' \in Nat /\ clock' >= clock
    BY <1>0, <1>13, TimesAssumption DEF HardLimitKills, InLoop, Deadline
  <2> QED BY <1>1, <1>13, <2>1 DEF HardLimitKills, Running, End, Phase, TypeOK
<1>14. CASE Machine \/ UNCHANGED vars
  BY <1>14 DEF Machine, Drop, Boot, vars, logs
<1> QED
  BY <1>5, <1>6, <1>7, <1>8, <1>9, <1>10, <1>11, <1>12, <1>13, <1>14
     DEF Next, JobStep, Attempt, Check, Limit

\* Every step of a job takes time or one of its finitely many steps, and there
\* is a bound on both: what JobEnds adds to this is only that the process runs.
THEOREM NoStepIsIdle == Spec => NoIdleStep /\ []Bounded
<1>1. TypeOK /\ InLoop /\ [Next]_vars
        => [\/ UNCHANGED <<pc, i, server, target, logs, clock, waitStart, limitHit,
                           outcome>>
            \/ clock' > clock
            \/ clock' = clock /\ StepsLeft' < StepsLeft]_vars
  BY StepsGoDown
<1> QED BY <1>1, StepsAreBounded, Typing, PTL DEF Spec, NoIdleStep

-----------------------------------------------------------------------------
(* Giving up.                                                              *)

FilesBug(j) == Methods[j] = "file_bugzilla_bug"

BugWasTried ==
  /\ \A j \in Attempts : j < i /\ FilesBug(j) => bug # NoBug
  /\ pc \in Busy /\ FilesBug(i) => bug # NoBug

LEMMA BugWasTriedStep ==
  TypeOK /\ InLoop /\ BugWasTried /\ [Next]_vars => BugWasTried'
<1> SUFFICES ASSUME TypeOK, InLoop, BugWasTried, [Next]_vars PROVE BugWasTried'
  OBVIOUS
<1>1. ASSUME i' = i + 1, bug' = bug, pc' = "next", i \in Attempts,
             FilesBug(i) => bug # NoBug
      PROVE  BugWasTried'
  BY <1>1, MethodsAreIndexed DEF BugWasTried, Busy, FilesBug
<1>2. ASSUME i' = i, bug' = bug, pc' \in Busy => pc \in Busy
      PROVE  BugWasTried'
  BY <1>2 DEF BugWasTried, FilesBug
<1>3. i \in Attempts /\ pc \in Busy => (FilesBug(i) => bug # NoBug)
  BY DEF BugWasTried
<1>4. CASE SkipMethod \/ BadArguments
  <2>1. ~FilesBug(i)
    BY <1>4 DEF SkipMethod, BadArguments, Skips, Usable, AskPdu, AlwaysUsable, FilesBug
  <2> QED BY <1>1, <1>4, <2>1 DEF SkipMethod, BadArguments, NextMethod, NoteFailure, logs
<1>5. CASE CallRaises \/ DownTimesOut \/ UpTimesOut
  <2>1. pc \in Busy /\ i \in Attempts
    BY <1>5 DEF CallRaises, DownTimesOut, UpTimesOut, Busy, InLoop
  <2> QED BY <1>1, <1>3, <1>5, <2>1
          DEF CallRaises, DownTimesOut, UpTimesOut, NextMethod, NoteFailure
<1>6. CASE CallDriver
  <2>1. 0 \notin log
    BY MethodsAreIndexed DEF TypeOK
  <2>2. FilesBug(i) => bug' # NoBug
    BY <1>6, <2>1 DEF CallDriver, BugLog, FilesBug, NoBug
  <2>3. ~FilesBug(i) => bug' = bug
    BY <1>6 DEF CallDriver, BugLog, FilesBug
  <2> QED BY <1>6, <2>2, <2>3 DEF CallDriver, BugWasTried, FilesBug
<1>7. CASE LookupServer \/ GiveUp \/ CallReturns \/ SeenDown \/ StillUp \/ SeenUp
           \/ StillDown \/ Limit \/ Machine \/ UNCHANGED vars
  BY <1>2, <1>7 DEF LookupServer, GiveUp, CallReturns, CheckStart, SeenDown, StillUp,
     SeenUp, StillDown, Limit, SoftLimitAborts, SoftLimitSwallowed,
     SoftLimitBetweenMethods, HardLimitKills, NoteInShortLogOnly, Machine, Drop,
     Boot, End, Busy, logs, vars
<1> QED BY <1>4, <1>5, <1>6, <1>7 DEF Next, JobStep, Attempt, Check

\* With a soft limit that leaves room for all of the methods, a job that gives
\* up has tried to file its bug: the timeouts, not the code of the loop, are
\* what the default settings get wrong.
THEOREM GivingUpFilesABug == BudgetSuffices /\ Spec => []GiveUpFilesBug
<1> SUFFICES ASSUME BudgetSuffices PROVE Spec => []GiveUpFilesBug
  OBVIOUS
<1>1. Init => BugWasTried
  BY MethodsAreIndexed DEF Init, BugWasTried, Busy
<1>2. TypeOK /\ InLoop /\ BugWasTried /\ [Next]_vars => BugWasTried'
  BY BugWasTriedStep
<1>3. BugWasTried /\ RecordIsHistory /\ NoLimitMet => GiveUpFilesBug
  BY MethodsAreIndexed
  DEF BugWasTried, RecordIsHistory, NoLimitMet, GiveUpFilesBug, FilesBug
<1> QED BY <1>1, <1>2, <1>3, Typing, RecordIsComplete, BudgetKeepsTheLimits, PTL DEF Spec

-----------------------------------------------------------------------------
(* The abstract specification.                                             *)

Placed ==
  /\ pc = "start" => i = 1
  /\ pc \in {"down", "up"} => Methods[i] # "file_bugzilla_bug"

LEMMA PlacedStep == TypeOK /\ Placed /\ [Next]_vars => Placed'
BY DEF TypeOK, Placed, Next, JobStep, Attempt, Check, Limit, Machine,
   LookupServer, SkipMethod, BadArguments, GiveUp, CallDriver, CallReturns,
   CheckStart, CallRaises, SeenDown, StillUp, DownTimesOut, SeenUp, StillDown,
   UpTimesOut, SoftLimitAborts, SoftLimitSwallowed, SoftLimitBetweenMethods,
   HardLimitKills, Drop, Boot, NextMethod, End, vars

\* Every step of a job is a step of the escalation or leaves it as it is.
LEMMA EscalationStep ==
  TypeOK /\ InLoop /\ Placed /\ [Next]_vars => [E!Next]_E!vars
<1> SUFFICES ASSUME TypeOK, InLoop, Placed, [Next]_vars
             PROVE  [E!Next]_E!vars
  OBVIOUS
<1> USE DEF InLoop, Busy
<1>0. /\ i \in Attempts <=> E!Left
      /\ pc # "done" => outcome = "none"
  BY MethodsAreIndexed DEF TypeOK, E!Left
<1>1. ASSUME UNCHANGED <<server, i, log, outcome>> PROVE [E!Next]_E!vars
  BY <1>1 DEF E!vars
<1>2. ASSUME UNCHANGED <<server, outcome>>, pc # "done", i \in Attempts,
             ~Skips(Methods[i]), NoteFailure, NextMethod
      PROVE  [E!Next]_E!vars
  BY <1>0, <1>2 DEF E!Next, E!TryInVain, Skips, NoteFailure, NextMethod
<1>3. ASSUME UNCHANGED <<server, i, log>>, pc # "done", NEW how, End(how),
             how \in {"rebooted", "bug_filed", "failed", "key_error", "aborted",
                      "aborted_bare", "killed"},
             E!EndsAs(how)
      PROVE  [E!Next]_E!vars
  BY <1>0, <1>3 DEF E!Next, E!Finish, E!EndsAs, E!Left, End
<1>4. CASE LookupServer
  <2>1. CASE "entry" \in server
    BY <1>1, <1>4, <2>1 DEF LookupServer, logs
  <2>2. CASE "entry" \notin server
    BY <1>3, <1>4, <2>2 DEF LookupServer, Placed, E!EndsAs, logs
  <2> QED BY <2>1, <2>2
<1>5. CASE SkipMethod
  BY <1>0, <1>5 DEF SkipMethod, NextMethod, Skips, logs, E!Next, E!PassOver
<1>6. CASE BadArguments
  BY <1>2, <1>6 DEF BadArguments
<1>7. CASE CallDriver
  BY <1>1, <1>7 DEF CallDriver
<1>8. CASE CallReturns
  <2>1. CASE Methods[i] = "file_bugzilla_bug"
    BY <1>0, <1>3, <1>8, <2>1 DEF CallReturns, E!EndsAs, logs
  <2>2. CASE Methods[i] # "file_bugzilla_bug"
    BY <1>1, <1>8, <2>2 DEF CallReturns, logs
  <2> QED BY <2>1, <2>2
<1>9. CASE CallRaises \/ DownTimesOut \/ UpTimesOut
  BY <1>2, <1>9 DEF CallRaises, DownTimesOut, UpTimesOut
<1>10. CASE SeenDown \/ StillUp \/ StillDown
  BY <1>1, <1>10 DEF SeenDown, StillUp, StillDown, logs
<1>11. CASE SeenUp
  BY <1>0, <1>3, <1>11 DEF SeenUp, Placed, E!EndsAs, logs
<1>12. CASE GiveUp
  BY <1>0, <1>3, <1>12 DEF GiveUp, E!EndsAs, logs
<1>13. CASE SoftLimitAborts
  BY <1>0, <1>3, <1>13 DEF SoftLimitAborts, NoteInShortLogOnly, E!EndsAs
<1>14. CASE SoftLimitSwallowed
  BY <1>1, <1>14 DEF SoftLimitSwallowed, logs
<1>15. CASE SoftLimitBetweenMethods
  BY <1>3, <1>15 DEF SoftLimitBetweenMethods, E!EndsAs, logs
<1>16. CASE HardLimitKills
  BY <1>3, <1>16 DEF HardLimitKills, Running, E!EndsAs, logs
<1>17. CASE Machine \/ UNCHANGED vars
  BY <1>1, <1>17 DEF Machine, Drop, Boot, vars, logs
<1> QED
  BY <1>4, <1>5, <1>6, <1>7, <1>8, <1>9, <1>10, <1>11, <1>12, <1>13, <1>14,
     <1>15, <1>16, <1>17 DEF Next, JobStep, Attempt, Check, Limit

\* A job is an escalation whatever the methods, the machine's equipment, the
\* timeouts and the limits: in order, each method once, none after the end.
THEOREM JobsEscalate == Spec => ImplementsEscalation
<1>1. Init => Placed /\ E!Init
  BY DEF Init, Placed, E!Init
<1>2. TypeOK /\ Placed /\ [Next]_vars => Placed'
  BY PlacedStep
<1>3. TypeOK /\ InLoop /\ Placed /\ [Next]_vars => [E!Next]_E!vars
  BY EscalationStep
<1> QED BY <1>1, <1>2, <1>3, Typing, PTL DEF Spec, ImplementsEscalation, E!Spec
=============================================================================

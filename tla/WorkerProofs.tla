---------------------------- MODULE WorkerProofs ----------------------------
(***************************************************************************)
(* Proofs about Worker: its types, that no command is called twice, which  *)
(* tasks can leave a process muted, and what a task has reported at its end. *)
(***************************************************************************)
EXTENDS Worker, FiniteSetTheorems, TLAPS

\* One invariant for all of it: a running job is held by one process and is
\* no longer in the queue; a job that has not been called yet has no call.
Held ==
  /\ \A p, q \in Processes : job[p] = job[q] /\ job[p] # NoJob => p = q
  /\ \A p \in Processes : job[p] # NoJob =>
       end[job[p]] = "running" /\ job[p] \in ran[p]
  /\ \A j \in queue : end[j] = "queued"

BeforeCall == {"lookup", "load", "user", "announce"}
Counted ==
  /\ \A j \in Jobs : calls[j] <= 1
  /\ \A j \in Jobs : end[j] \in {"new", "queued"} => calls[j] = 0
  /\ \A p \in Processes : pc[p] \in BeforeCall => calls[job[p]] = 0

\* A process is muted for good only if it was interrupted; the level that a
\* muted one will go back to is critical only if it was so before.
Interrupted(p) == \E j \in ran[p] : end[j] = "interrupted"
Silent ==
  \A p \in Processes :
    /\ level[p] = "critical" /\ pc[p] \notin Muted => Interrupted(p)
    /\ saved[p] = "critical" /\ pc[p] \in Muted => Interrupted(p)

IInv == TypeOK /\ Held /\ Counted /\ Silent

LEMMA Initially == Init => IInv
  BY NoJobAssumption
  DEF Init, IInv, TypeOK, Held, Counted, Silent, Labels, Muted, Levels, Notices,
      BeforeCall

\* A process whose own variables stay as they are keeps its interruption: an
\* interrupted job is held by nobody and queued nowhere.
LEMMA InterruptionsStay ==
  ASSUME IInv, NEW p \in Processes, Interrupted(p), ran[p] \subseteq ran'[p],
         \A j \in Jobs : end[j] = "interrupted" => end'[j] = "interrupted"
  PROVE  Interrupted(p)'
  BY DEF Interrupted, IInv, TypeOK

\* The job of a busy process.
LEMMA BusyHolds ==
  ASSUME IInv, NEW p \in Processes, pc[p] # "idle"
  PROVE  job[p] \in Jobs /\ job[p] # NoJob /\ end[job[p]] = "running"
         /\ job[p] \in ran[p] /\ job[p] \notin queue
  BY DEF IInv, TypeOK, Held

LEMMA DelayKeeps ==
  ASSUME IInv, NEW j \in Jobs, Delay(j) PROVE IInv'
<1>1. TypeOK' BY DEF IInv, TypeOK, Delay, reporting, logging
<1>2. Held' BY DEF IInv, TypeOK, Held, Delay, reporting, logging
<1>3. Counted' BY DEF IInv, TypeOK, Held, Counted, Delay, reporting, logging
<1>4. Silent'
  BY DEF IInv, TypeOK, Silent, Interrupted, Delay, reporting, logging
<1> QED BY <1>1, <1>2, <1>3, <1>4 DEF IInv

LEMMA TakeKeeps ==
  ASSUME IInv, NEW p \in Processes, NEW j \in Jobs, Take(p, j) PROVE IInv'
<1>1. TypeOK'
  BY NoJobAssumption
  DEF IInv, TypeOK, Take, Goto, reporting, logging, Labels
<1>2. Held'
  BY NoJobAssumption
  DEF IInv, TypeOK, Held, Take, Goto, reporting, logging
<1>3. Counted'
  BY DEF IInv, TypeOK, Held, Counted, Take, Goto, reporting, logging,
         BeforeCall
<1>4. Silent'
  <2>1. \A k \in Jobs : end[k] = "interrupted" => end'[k] = "interrupted"
    BY DEF IInv, TypeOK, Held, Take
  <2>2. \A q \in Processes : ran[q] \subseteq ran'[q]
    BY DEF IInv, TypeOK, Take
  <2> QED
    BY <2>1, <2>2, InterruptionsStay
    DEF IInv, TypeOK, Silent, Take, Goto, logging, Muted
<1> QED BY <1>1, <1>2, <1>3, <1>4 DEF IInv

ReportingTyped ==
  /\ message \in [Jobs -> {"none", "text", "object"}]
  /\ notice \in [Jobs -> [Notices -> {"none", "sent", "failed"}]]

LEMMA NoteTyping ==
  ASSUME IInv, NEW p \in Processes, pc[p] # "idle",
         NEW n \in Notices, NEW what \in {"sent", "failed"}, Note(p, n, what)
  PROVE  notice' \in [Jobs -> [Notices -> {"none", "sent", "failed"}]]
<1>1. job[p] \in Jobs BY BusyHolds
<1> DEFINE row == [notice[job[p]] EXCEPT ![n] = what]
<1>2. notice[job[p]] \in [Notices -> {"none", "sent", "failed"}]
  BY <1>1 DEF IInv, TypeOK
<1>3. row \in [Notices -> {"none", "sent", "failed"}]
  BY <1>2
<1>4. notice' = [notice EXCEPT ![job[p]] = row]
  BY DEF Note
<1> HIDE DEF row
<1> QED BY <1>1, <1>3, <1>4 DEF IInv, TypeOK

\* A step of a task that goes on: what it must leave alone, and where it may
\* lead.  The jobs are called between announce and call only.
LEMMA ContinueKeeps ==
  ASSUME IInv, NEW p \in Processes, NEW label \in Labels \ {"idle"},
         pc[p] # "idle", ReportingTyped', struck' \subseteq Processes,
         Goto(p, label), UNCHANGED <<queue, task, end, job, level, saved, ran>>,
         \/ UNCHANGED calls /\ (label \in BeforeCall => pc[p] \in BeforeCall)
         \/ /\ pc[p] = "announce" /\ label \notin BeforeCall
            /\ calls' = [calls EXCEPT ![job[p]] = @ + 1],
         label \in Muted <=> pc[p] \in Muted
  PROVE  IInv'
<1>0. TypeOK'
  <2>1. calls' \in [Jobs -> Nat]
    <3>1. CASE calls' = [calls EXCEPT ![job[p]] = @ + 1]
      <4>1. job[p] \in Jobs /\ calls[job[p]] + 1 \in Nat
        BY BusyHolds DEF IInv, TypeOK
      <4> QED BY <3>1, <4>1 DEF IInv, TypeOK
    <3> QED BY <3>1 DEF IInv, TypeOK
  <2>2. pc' \in [Processes -> Labels]
    BY DEF IInv, TypeOK, Goto
  <2>3. \A q \in Processes : (pc'[q] = "idle") = (job'[q] = NoJob)
    BY DEF IInv, TypeOK, Goto
  <2> QED BY <2>1, <2>2, <2>3 DEF IInv, TypeOK, ReportingTyped
<1>1. Held' BY DEF IInv, TypeOK, Held, Goto
<1>2. Counted'
  <2>1. CASE UNCHANGED calls /\ (label \in BeforeCall => pc[p] \in BeforeCall)
    BY <2>1 DEF IInv, TypeOK, Counted, Goto
  <2>2. CASE /\ pc[p] = "announce" /\ label \notin BeforeCall
             /\ calls' = [calls EXCEPT ![job[p]] = @ + 1]
    <3>1. calls[job[p]] = 0 BY <2>2 DEF IInv, Counted, BeforeCall
    <3>2. \A j \in Jobs \ {job[p]} : calls'[j] = calls[j]
      BY <2>2 DEF IInv, TypeOK
    <3>3. calls'[job[p]] = 1 BY <2>2, <3>1, BusyHolds DEF IInv, TypeOK
    <3>4. \A q \in Processes : q # p /\ pc[q] \in BeforeCall => job[q] \in Jobs \ {job[p]}
      BY BusyHolds DEF IInv, Held, BeforeCall
    <3>5. \A j \in Jobs : calls'[j] <= 1
      BY <3>2, <3>3 DEF IInv, TypeOK, Counted
    <3>6. \A j \in Jobs : end'[j] \in {"new", "queued"} => calls'[j] = 0
      BY <3>2, BusyHolds DEF IInv, Counted
    <3>7. \A q \in Processes : pc'[q] \in BeforeCall => q # p /\ pc[q] \in BeforeCall
      BY <2>2 DEF IInv, TypeOK, Goto
    <3>8. \A q \in Processes : pc'[q] \in BeforeCall => calls'[job'[q]] = 0
      BY <3>2, <3>4, <3>7 DEF IInv, Counted
    <3> QED BY <3>5, <3>6, <3>8 DEF Counted
  <2> QED BY <2>1, <2>2
<1>3. Silent' BY DEF IInv, TypeOK, Silent, Interrupted, Goto
<1> QED BY <1>0, <1>1, <1>2, <1>3 DEF IInv

\* A step that ends a task, its process left at the level it is, or put back.
LEMMA FinishKeeps ==
  ASSUME IInv, NEW p \in Processes, NEW how \in Failures \cup {"done"},
         pc[p] # "idle", Finish(p, how), UNCHANGED <<queue, task, calls, ran, saved>>,
         UNCHANGED reporting,
         \/ UNCHANGED level /\ (pc[p] \notin Muted \/ how = "interrupted")
         \/ SetLevel(p, saved[p]) /\ pc[p] \in Muted
  PROVE  IInv'
<1>0. /\ job[p] \in Jobs /\ job[p] # NoJob /\ end[job[p]] = "running"
      /\ job[p] \in ran[p] /\ job[p] \notin queue
  BY BusyHolds
<1>1. TypeOK'
  BY <1>0 DEF IInv, TypeOK, Finish, Goto, SetLevel, Labels, Failures, reporting
<1>2. Held'
  BY <1>0 DEF IInv, TypeOK, Held, Finish, Goto, Failures
<1>3. Counted'
  BY <1>0 DEF IInv, TypeOK, Counted, Finish, Goto, Failures, BeforeCall
<1>4. Silent'
  <2>1. \A j \in Jobs : end[j] = "interrupted" => end'[j] = "interrupted"
    BY <1>0 DEF IInv, TypeOK, Finish
  <2>2. \A q \in Processes : Interrupted(q) => Interrupted(q)'
    BY <2>1, InterruptionsStay
  <2>3. how = "interrupted" => Interrupted(p)'
    BY <1>0 DEF IInv, TypeOK, Finish, Interrupted
  <2>4. \A q \in Processes : q # p => level'[q] = level[q] /\ pc'[q] = pc[q]
    BY DEF IInv, TypeOK, Finish, Goto, SetLevel
  <2>5. level'[p] = "critical" => Interrupted(p)'
    BY <2>2, <2>3 DEF IInv, TypeOK, Silent, SetLevel
  <2>6. pc'[p] = "idle" BY DEF IInv, TypeOK, Finish, Goto
  <2> QED BY <2>2, <2>4, <2>5, <2>6 DEF IInv, Silent, Muted
<1> QED BY <1>1, <1>2, <1>3, <1>4 DEF IInv

LEMMA KillKeeps ==
  ASSUME IInv, NEW p \in Processes, Kill(p) PROVE IInv'
<1>0. /\ job[p] \in Jobs /\ job[p] # NoJob /\ end[job[p]] = "running"
      /\ job[p] \in ran[p] /\ job[p] \notin queue
  BY BusyHolds DEF Kill, Respawn
<1>1. TypeOK'
  BY <1>0 DEF IInv, TypeOK, Kill, Respawn, Goto, SetLevel, Labels, Failures, Levels,
              reporting
<1>2. Held'
  BY <1>0 DEF IInv, TypeOK, Held, Kill, Respawn, Goto
<1>3. Counted'
  BY <1>0 DEF IInv, TypeOK, Counted, Kill, Respawn, Goto, BeforeCall
<1>4. Silent'
  <2>1. \A j \in Jobs : end[j] = "interrupted" => end'[j] = "interrupted"
    BY <1>0 DEF IInv, TypeOK, Kill, Respawn
  <2>2. \A q \in Processes : q # p => (Interrupted(q) => Interrupted(q)')
    BY <2>1, InterruptionsStay DEF Kill, Respawn, IInv, TypeOK
  <2>3. level'[p] = "normal" /\ saved'[p] = "normal"
    BY DEF IInv, TypeOK, Kill, Respawn, SetLevel
  <2>4. \A q \in Processes : q # p =>
          level'[q] = level[q] /\ saved'[q] = saved[q] /\ pc'[q] = pc[q]
    BY DEF IInv, TypeOK, Kill, Respawn, SetLevel, Goto
  <2> QED BY <2>2, <2>3, <2>4 DEF IInv, Silent
<1> QED BY <1>1, <1>2, <1>3, <1>4 DEF IInv

LEMMA PrepareKeeps ==
  ASSUME IInv, NEW p \in Processes, Prepare(p) PROVE IInv'
<1>1. CASE Lookup(p)
  <2>1. CASE Continue(p, "load")
    BY <1>1, <2>1, ContinueKeeps
    DEF IInv, TypeOK, ReportingTyped, Lookup, Continue, Labels, BeforeCall, Muted, reporting,
        logging
  <2>2. CASE Finish(p, "no_host")
    BY <1>1, <2>2, FinishKeeps DEF Lookup, Failures, Muted, logging
  <2> QED BY <1>1, <2>1, <2>2 DEF Lookup
<1>2. CASE Load(p)
  <2>1. CASE Continue(p, "user")
    BY <1>2, <2>1, ContinueKeeps
    DEF IInv, TypeOK, ReportingTyped, Load, Continue, Labels, BeforeCall, Muted, reporting,
        logging
  <2>2. CASE Finish(p, "no_command")
    BY <1>2, <2>2, FinishKeeps DEF Load, Failures, Muted, logging
  <2> QED BY <1>2, <2>1, <2>2 DEF Load
<1>3. CASE User(p)
  <2>1. CASE Continue(p, "announce")
    BY <1>3, <2>1, ContinueKeeps
    DEF IInv, TypeOK, ReportingTyped, User, Continue, Labels, BeforeCall, Muted, reporting,
        logging
  <2>2. CASE Finish(p, "no_user")
    BY <1>3, <2>2, FinishKeeps DEF User, Failures, Muted, logging
  <2> QED BY <1>3, <2>1, <2>2 DEF User
<1>4. CASE Announce(p)
  <2>1. ReportingTyped'
    BY <1>4, NoteTyping DEF IInv, TypeOK, ReportingTyped, Announce, Notices
  <2> QED
    BY <1>4, <2>1, ContinueKeeps
    DEF IInv, TypeOK, Announce, Call, Continue, Labels, BeforeCall, Muted, logging
<1> QED BY <1>1, <1>2, <1>3, <1>4 DEF Prepare

LEMMA CommandEndsKeeps ==
  ASSUME IInv, NEW p \in Processes, CommandEnds(p) PROVE IInv'
<1>1. ReportingTyped'
  BY BusyHolds DEF IInv, TypeOK, ReportingTyped, CommandEnds
<1> QED
  BY <1>1, ContinueKeeps
  DEF IInv, TypeOK, CommandEnds, Continue, Labels, BeforeCall, Muted, logging

\* Reading the level before muting: it is critical only by an interruption.
LEMMA MuteKeeps ==
  ASSUME IInv, NEW p \in Processes, Mute(p) PROVE IInv'
<1>1. TypeOK'
  <2>1. level' \in [Processes -> Levels] /\ saved' \in [Processes -> Levels]
    BY DEF IInv, TypeOK, Mute, SaveThenMute, Critical, SetLevel, Levels
  <2>2. pc' \in [Processes -> Labels]
    BY DEF IInv, TypeOK, Mute, Continue, Goto, Labels, Muted
  <2>3. \A q \in Processes : (pc'[q] = "idle") = (job'[q] = NoJob)
    BY DEF IInv, TypeOK, Mute, Continue, Goto
  <2> QED BY <2>1, <2>2, <2>3 DEF IInv, TypeOK, Mute, Continue, reporting
<1>2. Held' BY DEF IInv, TypeOK, Held, Mute, Continue, Goto
<1>3. Counted' BY DEF IInv, TypeOK, Counted, Mute, Continue, Goto, BeforeCall
<1>4. Silent'
  <2>1. saved'[p] = "critical" => Interrupted(p)
    BY DEF IInv, TypeOK, Silent, Mute, SaveThenMute, Muted
  <2>2. pc'[p] = "team" BY DEF IInv, TypeOK, Mute, Continue, Goto
  <2>3. \A q \in Processes : q # p =>
          level'[q] = level[q] /\ saved'[q] = saved[q] /\ pc'[q] = pc[q]
    BY DEF IInv, TypeOK, Mute, SaveThenMute, Critical, SetLevel, Continue, Goto
  <2>4. UNCHANGED <<ran, end>> BY DEF Mute, Continue
  <2> QED BY <2>1, <2>2, <2>3, <2>4 DEF IInv, Silent, Interrupted, Muted
<1> QED BY <1>1, <1>2, <1>3, <1>4 DEF IInv

LEMMA ReportKeeps ==
  ASSUME IInv, NEW p \in Processes, Report(p) PROVE IInv'
<1>1. CASE Mute(p)
  BY <1>1, MuteKeeps
<1>2. CASE MailTeam(p)
  <2>1. ReportingTyped'
    BY <1>2, NoteTyping DEF IInv, TypeOK, ReportingTyped, MailTeam, Notices
  <2> QED
    BY <1>2, <2>1, ContinueKeeps
    DEF IInv, TypeOK, MailTeam, Continue, Labels, BeforeCall, Muted, logging
<1>3. CASE MailRequester(p)
  <2>1. ReportingTyped'
    BY <1>3, NoteTyping DEF IInv, TypeOK, ReportingTyped, MailRequester, Notices
  <2> QED
    BY <1>3, <2>1, ContinueKeeps
    DEF IInv, TypeOK, MailRequester, Continue, Labels, BeforeCall, Muted, logging
<1>4. CASE Irc(p)
  <2>1. ReportingTyped'
    BY <1>4, NoteTyping DEF IInv, TypeOK, ReportingTyped, Irc, SendResult, Notices
  <2> QED
    BY <1>4, <2>1, ContinueKeeps
    DEF IInv, TypeOK, Irc, Continue, Labels, BeforeCall, Muted, logging
<1>5. CASE Unmute(p)
  BY <1>5, FinishKeeps DEF Unmute, Muted
<1> QED BY <1>1, <1>2, <1>3, <1>4, <1>5 DEF Report

LEMMA SoftLimitKeeps ==
  ASSUME IInv, NEW p \in Processes, SoftLimit(p) PROVE IInv'
<1>1. CASE SoftLimitInCommand(p)
  <2>1. PICK label \in {"call", "mute"} : Strike(p, label)
    BY <1>1 DEF SoftLimitInCommand
  <2>2. ReportingTyped'
    <3>1. \/ UNCHANGED message
          \/ \E kind \in {"text", "object"} :
               message' = [message EXCEPT ![job[p]] = kind]
      BY <1>1 DEF SoftLimitInCommand
    <3>2. message' \in [Jobs -> {"none", "text", "object"}]
      BY <3>1 DEF IInv, TypeOK
    <3> QED BY <1>1, <3>2 DEF IInv, TypeOK, ReportingTyped, SoftLimitInCommand
  <2>3. /\ pc[p] = "call"
        /\ UNCHANGED <<queue, task, calls, level, saved, ran>>
    BY <1>1 DEF SoftLimitInCommand, logging
  <2>4. /\ struck' \subseteq Processes
        /\ Goto(p, label) /\ UNCHANGED <<end, job>>
    BY <2>1 DEF IInv, TypeOK, Strike
  <2>5. label \in Labels \ {"idle"} /\ label \notin BeforeCall /\ label \notin Muted
    BY DEF Labels, BeforeCall, Muted
  <2>6. pc[p] # "idle" /\ pc[p] \notin Muted
    BY <2>3 DEF Muted
  <2> QED BY <2>2, <2>3, <2>4, <2>5, <2>6, ContinueKeeps
<1>2. CASE SoftLimitInNotify(p)
  <2>0. UNCHANGED <<queue, task, message, level, saved, ran>>
    BY <1>2 DEF SoftLimitInNotify, logging
  <2>1. CASE /\ pc[p] = "announce" /\ Note(p, "announced", "failed")
             /\ calls' = [calls EXCEPT ![job[p]] = @ + 1] /\ Strike(p, "call")
    <3>1. ReportingTyped'
      BY <2>0, <2>1, NoteTyping DEF IInv, TypeOK, ReportingTyped, Notices
    <3> QED
      BY <2>0, <2>1, <3>1, ContinueKeeps
      DEF IInv, TypeOK, Strike, Labels, BeforeCall, Muted
  <2>2. CASE /\ pc[p] \in {"team", "requester"} /\ Note(p, pc[p], "failed")
             /\ UNCHANGED calls /\ Strike(p, "irc")
    <3>1. ReportingTyped'
      BY <2>0, <2>2, NoteTyping DEF IInv, TypeOK, ReportingTyped, Notices
    <3> QED
      BY <2>0, <2>2, <3>1, ContinueKeeps
      DEF IInv, TypeOK, Strike, Labels, BeforeCall, Muted
  <2>3. CASE /\ pc[p] = "irc" /\ Note(p, "result", "failed")
             /\ UNCHANGED calls /\ Strike(p, "unmute")
    <3>1. ReportingTyped'
      BY <2>0, <2>3, NoteTyping DEF IInv, TypeOK, ReportingTyped, Notices
    <3> QED
      BY <2>0, <2>3, <3>1, ContinueKeeps
      DEF IInv, TypeOK, Strike, Labels, BeforeCall, Muted
  <2> QED BY <1>2, <2>1, <2>2, <2>3 DEF SoftLimitInNotify
<1>3. CASE SoftLimitEscapes(p)
  BY <1>3, FinishKeeps DEF SoftLimitEscapes, Failures, logging
<1> QED BY <1>1, <1>2, <1>3 DEF SoftLimit

LEMMA Inductive == IInv /\ [Next]_vars => IInv'
<1> SUFFICES ASSUME IInv, [Next]_vars PROVE IInv'
  OBVIOUS
<1>1. CASE \E j \in Jobs : Delay(j)
  BY <1>1, DelayKeeps
<1>2. ASSUME NEW p \in Processes,
             \/ TakeOne(p) \/ Prepare(p) \/ CommandEnds(p)
             \/ Report(p) \/ Limit(p) \/ Crash(p)
      PROVE IInv'
  BY <1>2, TakeKeeps, PrepareKeeps, CommandEndsKeeps, ReportKeeps, SoftLimitKeeps, KillKeeps
  DEF TakeOne, Limit, HardLimit, Crash
<1>3. CASE UNCHANGED vars
  BY <1>3
  DEF IInv, TypeOK, Held, Counted, Silent, Interrupted, vars, reporting, logging
<1> QED BY <1>1, <1>2, <1>3 DEF Next

THEOREM Invariance == Spec => []IInv
  BY Initially, Inductive, PTL DEF Spec

-----------------------------------------------------------------------------
\* The types of Worker's variables, and that a busy process has a job.
THEOREM TypeSafety == Spec => []TypeOK
<1>1. IInv => TypeOK BY DEF IInv
<1> QED BY <1>1, Invariance, PTL

\* For any number of jobs and processes, whatever dies, and whenever the
\* limits strike: no command is called twice, no job is held by two processes.
THEOREM CommandsAreCalledOnce == Spec => []NeverCalledTwice
<1>1. IInv => NeverCalledTwice BY DEF IInv, Held, Counted, NeverCalledTwice
<1> QED BY <1>1, Invariance, PTL

\* Only a task interrupted between its try blocks leaves a process muted.
THEOREM MutingIsExplained == Spec => []MutedOnlyByInterruption
<1>1. IInv => MutedOnlyByInterruption
  BY DEF IInv, Silent, Interrupted, MutedOnlyByInterruption
<1> QED BY <1>1, Invariance, PTL

-----------------------------------------------------------------------------
(* What a task that ends by itself has reported.                           *)

\* The notifications that the label a process is at has behind it.
ReportedSoFar(p) ==
  /\ pc[p] \in {"mute", "team", "requester", "irc"} =>
       message[job[p]] \in {"text", "object"}
  /\ pc[p] \in {"requester", "irc", "unmute"} => notice[job[p]].team # "none"
  /\ pc[p] \in {"irc", "unmute"} =>
       (notice[job[p]].requester = "none" => notice[job[p]].team = "failed")
  /\ pc[p] = "unmute" =>
       (notice[job[p]].result = "none" => message[job[p]] = "object")

ReportInv == (\A p \in Processes : ReportedSoFar(p)) /\ DoneMeansReported

\* The step of one process touches no other's job.
LEMMA OnlyItsOwnReport ==
  ASSUME IInv, ReportInv, NEW p \in Processes, job[p] \in Jobs,
         \A q \in Processes \ {p} : pc'[q] = pc[q] /\ job'[q] = job[q],
         \A j \in Jobs \ {job[p]} : /\ notice'[j] = notice[j]
                                   /\ message'[j] = message[j]
                                   /\ end'[j] = end[j],
         end'[job[p]] = "done" => pc[p] = "unmute" /\ UNCHANGED reporting,
         ReportedSoFar(p)'
  PROVE  ReportInv'
<1>1. ASSUME NEW q \in Processes PROVE ReportedSoFar(q)'
  <2>1. CASE q = p
    BY <2>1
  <2>2. CASE q # p /\ pc[q] # "idle"
    <3>1. job[q] \in Jobs \ {job[p]}
      BY <2>2, BusyHolds DEF IInv, Held
    <3> QED BY <2>2, <3>1 DEF ReportInv, ReportedSoFar
  <2>3. CASE q # p /\ pc[q] = "idle"
    BY <2>3 DEF ReportedSoFar
  <2> QED BY <2>1, <2>2, <2>3
<1>2. DoneMeansReported'
  <2>1. ASSUME NEW j \in Jobs, end'[j] = "done", j # job[p]
        PROVE  /\ notice'[j].team # "none"
               /\ notice'[j].requester = "none" => notice'[j].team = "failed"
               /\ notice'[j].result = "none" => message'[j] = "object"
    BY <2>1 DEF ReportInv, DoneMeansReported
  <2>2. ASSUME end'[job[p]] = "done"
        PROVE  /\ notice'[job[p]].team # "none"
               /\ notice'[job[p]].requester = "none" => notice'[job[p]].team = "failed"
               /\ notice'[job[p]].result = "none" => message'[job[p]] = "object"
    BY <2>2 DEF ReportInv, ReportedSoFar, reporting
  <2> QED BY <2>1, <2>2 DEF DoneMeansReported
<1> QED BY <1>1, <1>2 DEF ReportInv

\* A notification is noted for its own job, and the others of it stay.
LEMMA NoteNotes ==
  ASSUME IInv, NEW p \in Processes, job[p] \in Jobs,
         NEW n \in Notices, NEW what, Note(p, n, what)
  PROVE  /\ \A j \in Jobs \ {job[p]} : notice'[j] = notice[j]
         /\ notice'[job[p]][n] = what
         /\ \A m \in Notices \ {n} : notice'[job[p]][m] = notice[job[p]][m]
<1>1. notice[job[p]] \in [Notices -> {"none", "sent", "failed"}]
  BY DEF IInv, TypeOK
<1>2. notice' = [notice EXCEPT ![job[p]] = [notice[job[p]] EXCEPT ![n] = what]]
  BY DEF Note
<1> QED BY <1>1, <1>2 DEF IInv, TypeOK

LEMMA ReportInvStep == IInv /\ ReportInv /\ [Next]_vars => ReportInv'
<1> SUFFICES ASSUME IInv, ReportInv, [Next]_vars PROVE ReportInv'
  OBVIOUS
<1>t. /\ pc \in [Processes -> Labels] /\ job \in [Processes -> Jobs \cup {NoJob}]
      /\ message \in [Jobs -> {"none", "text", "object"}]
      /\ end \in [Jobs -> Failures \cup {"new", "queued", "running", "done"}]
  BY DEF IInv, TypeOK
<1>n. {"announced", "team", "requester", "result"} = Notices
  BY DEF Notices
<1>1. ASSUME NEW j \in Jobs, Delay(j) PROVE ReportInv'
  BY <1>1, <1>t DEF Delay, reporting, ReportInv, ReportedSoFar, DoneMeansReported
<1>2. ASSUME NEW p \in Processes, NEW j \in Jobs, Take(p, j) PROVE ReportInv'
  BY <1>2, <1>t DEF Take, Goto, reporting, ReportInv, ReportedSoFar, DoneMeansReported
<1>3. ASSUME NEW p \in Processes, pc[p] # "idle",
             \/ \E how \in Failures : Finish(p, how)
             \/ Kill(p),
             UNCHANGED reporting
      PROVE  ReportInv'
  <2>1. /\ job[p] \in Jobs /\ pc'[p] = "idle" /\ end'[job[p]] # "done"
        /\ \A q \in Processes \ {p} : pc'[q] = pc[q] /\ job'[q] = job[q]
        /\ \A j \in Jobs \ {job[p]} : end'[j] = end[j]
    BY <1>3, <1>t, BusyHolds DEF Finish, Kill, Respawn, Goto, Failures
  <2> QED BY <1>3, <2>1, OnlyItsOwnReport DEF ReportedSoFar, reporting
<1>4. ASSUME NEW p \in Processes, pc[p] # "idle", NEW label \in Labels,
             Goto(p, label), UNCHANGED <<end, job>>,
             \A j \in Jobs \ {job[p]} : notice'[j] = notice[j] /\ message'[j] = message[j],
             label \in {"mute", "team", "requester", "irc"} =>
               message'[job[p]] \in {"text", "object"},
             label \in {"requester", "irc", "unmute"} => notice'[job[p]].team # "none",
             label \in {"irc", "unmute"} =>
               (notice'[job[p]].requester = "none" => notice'[job[p]].team = "failed"),
             label = "unmute" =>
               (notice'[job[p]].result = "none" => message'[job[p]] = "object")
      PROVE  ReportInv'
  <2>1. /\ job[p] \in Jobs /\ end'[job[p]] # "done" /\ pc'[p] = label
        /\ \A q \in Processes \ {p} : pc'[q] = pc[q] /\ job'[q] = job[q]
    BY <1>4, <1>t, BusyHolds DEF Goto
  <2>2. ReportedSoFar(p)'
    BY <1>4, <2>1 DEF ReportedSoFar
  <2> QED BY <1>4, <2>1, <2>2, OnlyItsOwnReport
<1>5. ASSUME NEW p \in Processes, Prepare(p) PROVE ReportInv'
  <2>1. pc[p] \in {"lookup", "load", "user", "announce"} /\ job[p] \in Jobs
    BY <1>5, BusyHolds DEF Prepare, Lookup, Load, User, Announce
  <2>2. CASE UNCHANGED reporting /\ \E how \in Failures : Finish(p, how)
    BY <1>3, <2>1, <2>2
  <2>3. CASE UNCHANGED reporting
             /\ \E label \in {"load", "user", "announce"} : Continue(p, label)
    BY <1>4, <2>1, <2>3 DEF Continue, reporting, Labels
  <2>4. CASE Announce(p)
    <3>1. \A j \in Jobs \ {job[p]} : notice'[j] = notice[j]
      BY <1>n, <2>1, <2>4, NoteNotes DEF Announce
    <3> QED BY <1>4, <2>1, <2>4, <3>1 DEF Announce, Call, Continue, Labels
  <2> QED BY <1>5, <2>2, <2>3, <2>4
          DEF Prepare, Lookup, Load, User, Failures
<1>6. ASSUME NEW p \in Processes, CommandEnds(p) PROVE ReportInv'
  <2>1. pc[p] = "call" /\ job[p] \in Jobs
    BY <1>6, BusyHolds DEF CommandEnds
  <2> QED BY <1>4, <1>6, <1>t, <2>1 DEF CommandEnds, Continue, Labels
<1>7. ASSUME NEW p \in Processes, Report(p) PROVE ReportInv'
  <2>1. pc[p] \in {"mute", "team", "requester", "irc", "unmute"} /\ job[p] \in Jobs
    BY <1>7, BusyHolds DEF Report, Mute, MailTeam, MailRequester, Irc, Unmute
  <2>0. ReportedSoFar(p)
    BY DEF ReportInv
  <2>2. CASE Mute(p)
    BY <1>4, <2>0, <2>1, <2>2 DEF Mute, Continue, Labels, Muted, reporting, ReportedSoFar
  <2>3. CASE MailTeam(p)
    <3>1. PICK what \in {"sent", "failed"} : Note(p, "team", what)
      BY <2>3 DEF MailTeam
    <3>2. /\ \A j \in Jobs \ {job[p]} : notice'[j] = notice[j]
          /\ notice'[job[p]].team = what
      BY <1>n, <2>1, <3>1, NoteNotes
    <3>3. CASE Note(p, "team", "sent") /\ Continue(p, "requester")
      BY <1>4, <2>0, <2>1, <2>3, <3>2, <3>3
      DEF MailTeam, Continue, Labels, Muted, ReportedSoFar
    <3>4. CASE Note(p, "team", "failed") /\ Continue(p, "irc")
      <4>1. notice'[job[p]].team = "failed"
        BY <1>n, <2>1, <3>4, NoteNotes
      <4> QED BY <1>4, <2>0, <2>1, <2>3, <3>2, <3>4, <4>1
              DEF MailTeam, Continue, Labels, Muted, ReportedSoFar
    <3> QED BY <2>3, <3>3, <3>4 DEF MailTeam
  <2>4. CASE MailRequester(p)
    <3>1. PICK what \in {"sent", "failed"} : Note(p, "requester", what)
      BY <2>4 DEF MailRequester
    <3>2. /\ \A j \in Jobs \ {job[p]} : notice'[j] = notice[j]
          /\ notice'[job[p]].requester = what
          /\ notice'[job[p]].team = notice[job[p]].team
      BY <1>n, <2>1, <3>1, NoteNotes
    <3> QED BY <1>4, <2>0, <2>1, <2>4, <3>2
            DEF MailRequester, Continue, Labels, Muted, ReportedSoFar
  <2>5. CASE Irc(p)
    <3>1. CASE message[job[p]] = "text"
      <4>1. PICK what \in {"sent", "failed"} : Note(p, "result", what)
        BY <2>5, <3>1 DEF Irc, SendResult
      <4>2. /\ \A j \in Jobs \ {job[p]} : notice'[j] = notice[j]
            /\ notice'[job[p]].result = what
            /\ notice'[job[p]].team = notice[job[p]].team
            /\ notice'[job[p]].requester = notice[job[p]].requester
        BY <1>n, <2>1, <4>1, NoteNotes
      <4> QED BY <1>4, <2>0, <2>1, <2>5, <4>2
              DEF Irc, Continue, Labels, Muted, ReportedSoFar
    <3>2. CASE message[job[p]] = "object" /\ UNCHANGED notice
      BY <1>4, <2>0, <2>1, <2>5, <3>2 DEF Irc, Continue, Labels, Muted, ReportedSoFar
    <3> QED BY <2>0, <2>5, <3>1, <3>2 DEF Irc, SendResult, ReportedSoFar
  <2>6. CASE Unmute(p)
    <3>1. /\ pc[p] = "unmute" /\ pc'[p] = "idle" /\ UNCHANGED reporting
          /\ \A q \in Processes \ {p} : pc'[q] = pc[q] /\ job'[q] = job[q]
          /\ \A j \in Jobs \ {job[p]} : end'[j] = end[j]
      BY <1>t, <2>1, <2>6 DEF Unmute, Finish, Goto
    <3> QED BY <2>1, <3>1, OnlyItsOwnReport DEF ReportedSoFar, reporting
  <2> QED BY <1>7, <2>2, <2>3, <2>4, <2>5, <2>6 DEF Report
<1>8. ASSUME NEW p \in Processes, SoftLimit(p) PROVE ReportInv'
  <2>0. ReportedSoFar(p)
    BY DEF ReportInv
  <2>1. CASE SoftLimitInCommand(p)
    <3>1. pc[p] = "call" /\ job[p] \in Jobs /\ UNCHANGED notice
      BY <2>1, BusyHolds DEF SoftLimitInCommand
    <3>2. CASE Strike(p, "call") /\ UNCHANGED message
      BY <1>4, <3>1, <3>2 DEF Strike, Labels
    <3>3. CASE /\ Strike(p, "mute")
               /\ \E kind \in {"text", "object"} :
                    message' = [message EXCEPT ![job[p]] = kind]
      BY <1>4, <1>t, <3>1, <3>3 DEF Strike, Labels
    <3> QED BY <2>1, <3>2, <3>3 DEF SoftLimitInCommand
  <2>2. CASE SoftLimitInNotify(p)
    <3>0. /\ pc[p] \in {"announce", "team", "requester", "irc"} /\ job[p] \in Jobs
          /\ UNCHANGED message
      BY <2>2, BusyHolds DEF SoftLimitInNotify
    <3>1. CASE Note(p, "announced", "failed") /\ Strike(p, "call")
      <4>1. \A j \in Jobs \ {job[p]} : notice'[j] = notice[j]
        BY <1>n, <3>0, <3>1, NoteNotes
      <4> QED BY <1>4, <3>0, <3>1, <4>1 DEF Strike, Labels
    <3>2. CASE pc[p] = "team" /\ Note(p, "team", "failed") /\ Strike(p, "irc")
      <4>1. /\ \A j \in Jobs \ {job[p]} : notice'[j] = notice[j]
            /\ notice'[job[p]].team = "failed"
        BY <1>n, <3>0, <3>2, NoteNotes
      <4> QED BY <1>4, <2>0, <3>0, <3>2, <4>1 DEF Strike, Labels, Muted, ReportedSoFar
    <3>3. CASE pc[p] = "requester" /\ Note(p, "requester", "failed") /\ Strike(p, "irc")
      <4>1. /\ \A j \in Jobs \ {job[p]} : notice'[j] = notice[j]
            /\ notice'[job[p]].requester = "failed"
            /\ notice'[job[p]].team = notice[job[p]].team
        BY <1>n, <3>0, <3>3, NoteNotes
      <4> QED BY <1>4, <2>0, <3>0, <3>3, <4>1 DEF Strike, Labels, Muted, ReportedSoFar
    <3>4. CASE pc[p] = "irc" /\ Note(p, "result", "failed") /\ Strike(p, "unmute")
      <4>1. /\ \A j \in Jobs \ {job[p]} : notice'[j] = notice[j]
            /\ notice'[job[p]].result = "failed"
            /\ notice'[job[p]].team = notice[job[p]].team
            /\ notice'[job[p]].requester = notice[job[p]].requester
        BY <1>n, <3>0, <3>4, NoteNotes
      <4> QED BY <1>4, <2>0, <3>0, <3>4, <4>1 DEF Strike, Labels, Muted, ReportedSoFar
    <3> QED BY <2>2, <3>1, <3>2, <3>3, <3>4 DEF SoftLimitInNotify
  <2>3. CASE SoftLimitEscapes(p)
    BY <1>3, <2>3 DEF SoftLimitEscapes, Failures
  <2> QED BY <1>8, <2>1, <2>2, <2>3 DEF SoftLimit
<1>9. ASSUME NEW p \in Processes, Kill(p) PROVE ReportInv'
  BY <1>3, <1>9 DEF Kill, Respawn
<1>10. CASE UNCHANGED vars
  BY <1>10 DEF vars, reporting, ReportInv, ReportedSoFar, DoneMeansReported
<1> QED
  BY <1>1, <1>2, <1>5, <1>6, <1>7, <1>8, <1>9, <1>10
  DEF Next, TakeOne, Limit, HardLimit, Crash

\* Whichever notification fails or is struck by the soft limit, a task that ends
\* by itself has sent, or tried to send, what it owes.
THEOREM DoneIsReported == Spec => []DoneMeansReported
<1>1. Init => ReportInv
  BY DEF Init, ReportInv, ReportedSoFar, DoneMeansReported
<1>2. ReportInv => DoneMeansReported
  BY DEF ReportInv
<1> QED BY <1>1, <1>2, ReportInvStep, Invariance, PTL DEF Spec

-----------------------------------------------------------------------------
(* What a job goes through, and where it is.                               *)

\* A process that has called its job's command has called it.
CalledBehind ==
  \A p \in Processes : pc[p] \notin BeforeCall \cup {"idle"} => calls[job[p]] = 1

\* Who waits is with the broker, and who runs is with a process.
Placed ==
  \A j \in Jobs : /\ end[j] = "queued" <=> j \in queue
                  /\ end[j] = "running" <=> \E p \in Processes : job[p] = j

LifeInv == Placed /\ CalledBehind

\* All that a busy process may do to a job: end it, or go on, with the call
\* behind "announce".
Ends(p, how) ==
  /\ Goto(p, "idle")
  /\ end' = [end EXCEPT ![job[p]] = how]
  /\ job' = [job EXCEPT ![p] = NoJob]
  /\ UNCHANGED <<queue, calls>>
  /\ how \in {"no_host", "no_command", "no_user"} => pc[p] \in BeforeCall
  /\ how = "done" => pc[p] = "unmute"

GoesOn(p, label) ==
  /\ Goto(p, label)
  /\ UNCHANGED <<end, job, queue>>
  /\ \/ UNCHANGED calls /\ (label \in BeforeCall <=> pc[p] \in BeforeCall)
     \/ /\ pc[p] = "announce" /\ label \notin BeforeCall
        /\ calls' = [calls EXCEPT ![job[p]] = @ + 1]

Step(p) ==
  /\ pc[p] # "idle"
  /\ \/ \E how \in Failures \cup {"done"} : Ends(p, how)
     \/ \E label \in Labels \ {"idle"} : GoesOn(p, label)

LEMMA StepsOfOneJob ==
  ASSUME IInv, NEW p \in Processes,
         Prepare(p) \/ CommandEnds(p) \/ Report(p) \/ Limit(p) \/ Crash(p)
  PROVE  Step(p)
<1> USE DEF BeforeCall, Labels, Muted, Failures
<1>1. CASE Prepare(p)
  <2>1. CASE Lookup(p)
    BY <2>1 DEF Lookup, Continue, Finish, Step, Ends, GoesOn
  <2>2. CASE Load(p)
    BY <2>2 DEF Load, Continue, Finish, Step, Ends, GoesOn
  <2>3. CASE User(p)
    BY <2>3 DEF User, Continue, Finish, Step, Ends, GoesOn
  <2>4. CASE Announce(p)
    BY <2>4 DEF Announce, Call, Continue, Step, GoesOn
  <2> QED BY <1>1, <2>1, <2>2, <2>3, <2>4 DEF Prepare
<1>2. CASE CommandEnds(p)
  BY <1>2 DEF CommandEnds, Continue, Step, GoesOn
<1>3. CASE Report(p)
  <2>1. CASE Mute(p)
    BY <2>1 DEF Mute, Continue, Step, GoesOn
  <2>2. CASE MailTeam(p)
    BY <2>2 DEF MailTeam, Continue, Step, GoesOn
  <2>3. CASE MailRequester(p) \/ Irc(p)
    BY <2>3 DEF MailRequester, Irc, Continue, Step, GoesOn
  <2>4. CASE Unmute(p)
    BY <2>4 DEF Unmute, Finish, Step, Ends
  <2> QED BY <1>3, <2>1, <2>2, <2>3, <2>4 DEF Report
<1>4. CASE SoftLimitInCommand(p)
  BY <1>4 DEF SoftLimitInCommand, Strike, Step, GoesOn
<1>5. CASE SoftLimitInNotify(p)
  BY <1>5 DEF SoftLimitInNotify, Strike, Step, GoesOn
<1>6. CASE SoftLimitEscapes(p)
  BY <1>6 DEF SoftLimitEscapes, Finish, Step, Ends
<1>7. CASE Kill(p)
  BY <1>7 DEF Kill, Respawn, Step, Ends
<1> QED BY <1>1, <1>2, <1>3, <1>4, <1>5, <1>6, <1>7
        DEF Limit, SoftLimit, HardLimit, Crash

\* The kinds of steps there are.
LEMMA KindsOfSteps ==
  ASSUME IInv, [Next]_vars
  PROVE  \/ \E j \in Jobs : Delay(j)
         \/ \E p \in Processes, j \in Jobs : Take(p, j)
         \/ \E p \in Processes : Step(p)
         \/ UNCHANGED <<queue, end, calls, pc, job>>
BY StepsOfOneJob DEF Next, TakeOne, vars

LEMMA LifeInvStep == IInv /\ LifeInv /\ [Next]_vars => LifeInv'
<1> SUFFICES ASSUME IInv, LifeInv, [Next]_vars PROVE LifeInv'
  OBVIOUS
<1>t. /\ pc \in [Processes -> Labels] /\ job \in [Processes -> Jobs \cup {NoJob}]
      /\ calls \in [Jobs -> Nat] /\ queue \subseteq Jobs
      /\ end \in [Jobs -> Failures \cup {"new", "queued", "running", "done"}]
      /\ \A p \in Processes : (pc[p] = "idle") = (job[p] = NoJob)
  BY DEF IInv, TypeOK
<1>1. ASSUME NEW j \in Jobs, Delay(j) PROVE LifeInv'
  <2>1. Placed'
    BY <1>1, <1>t DEF Delay, LifeInv, Placed
  <2>2. CalledBehind'
    BY <1>1 DEF Delay, LifeInv, CalledBehind
  <2> QED BY <2>1, <2>2 DEF LifeInv
<1>2. ASSUME NEW p \in Processes, NEW j \in Jobs, Take(p, j) PROVE LifeInv'
  <2>1. /\ queue' = queue \ {j} /\ end' = [end EXCEPT ![j] = "running"]
        /\ job' = [job EXCEPT ![p] = j] /\ end[j] = "queued" /\ job[p] = NoJob
    BY <1>2, <1>t DEF Take, IInv, Held
  <2>2. \A k \in Jobs : end'[k] = "running" <=> \E q \in Processes : job'[q] = k
    <3>1. \A k \in Jobs \ {j} :
            (\E q \in Processes : job'[q] = k) <=> \E q \in Processes : job[q] = k
      BY <2>1, <1>t, NoJobAssumption
    <3> QED BY <2>1, <3>1, <1>t DEF LifeInv, Placed
  <2>3. Placed'
    BY <2>1, <2>2, <1>t DEF LifeInv, Placed
  <2>4. CalledBehind'
    BY <1>2, <1>t DEF Take, Goto, LifeInv, CalledBehind, BeforeCall
  <2> QED BY <2>3, <2>4 DEF LifeInv
<1>3. ASSUME NEW p \in Processes, pc[p] # "idle",
             NEW how \in Failures \cup {"done"}, Ends(p, how)
      PROVE  LifeInv'
  <2>0. job[p] \in Jobs /\ job[p] # NoJob /\ end[job[p]] = "running"
    BY <1>3, BusyHolds
  <2>1. \A k \in Jobs : end'[k] = "running" <=> \E q \in Processes : job'[q] = k
    <3>1. ~ \E q \in Processes : job'[q] = job[p]
      BY <1>3, <1>t, <2>0 DEF Ends, IInv, Held
    <3>2. \A k \in Jobs \ {job[p]} :
            (\E q \in Processes : job'[q] = k) <=> \E q \in Processes : job[q] = k
      BY <1>3, <1>t, NoJobAssumption DEF Ends
    <3> QED BY <1>3, <1>t, <3>1, <3>2 DEF Ends, Failures, LifeInv, Placed
  <2>2. Placed'
    BY <1>3, <1>t, <2>0, <2>1 DEF Ends, Failures, LifeInv, Placed
  <2>3. CalledBehind'
    BY <1>3, <1>t DEF Ends, Goto, LifeInv, CalledBehind
  <2> QED BY <2>2, <2>3 DEF LifeInv
<1>4. ASSUME NEW p \in Processes, pc[p] # "idle",
             NEW label \in Labels \ {"idle"}, GoesOn(p, label)
      PROVE  LifeInv'
  <2>1. Placed'
    BY <1>4 DEF GoesOn, LifeInv, Placed
  <2>2. CASE UNCHANGED calls /\ (label \in BeforeCall <=> pc[p] \in BeforeCall)
    BY <1>4, <1>t, <2>1, <2>2 DEF GoesOn, Goto, LifeInv, CalledBehind
  <2>3. CASE /\ pc[p] = "announce"
             /\ calls' = [calls EXCEPT ![job[p]] = @ + 1]
    <3>1. job[p] \in Jobs /\ calls[job[p]] = 0
      BY <1>4, <2>3, BusyHolds DEF IInv, Counted, BeforeCall
    <3>2. calls'[job[p]] = 1 /\ \A j \in Jobs \ {job[p]} : calls'[j] = calls[j]
      BY <1>t, <2>3, <3>1
    <3>3. \A q \in Processes : q # p /\ pc[q] # "idle" => job[q] \in Jobs \ {job[p]}
      BY BusyHolds DEF IInv, Held
    <3>4. CalledBehind'
      BY <1>4, <1>t, <3>2, <3>3 DEF GoesOn, Goto, LifeInv, CalledBehind
    <3> QED BY <2>1, <3>4 DEF LifeInv
  <2> QED BY <1>4, <2>2, <2>3 DEF GoesOn
<1>5. CASE UNCHANGED <<queue, end, calls, pc, job>>
  BY <1>5 DEF LifeInv, Placed, CalledBehind
<1> QED BY <1>1, <1>2, <1>3, <1>4, <1>5, KindsOfSteps DEF Step

LEMMA LifeInvKept == Spec => [](IInv /\ LifeInv)
<1>1. Init => LifeInv
  BY NoJobAssumption DEF Init, LifeInv, Placed, CalledBehind
<1> QED BY <1>1, LifeInvStep, Invariance, PTL DEF Spec

LEMMA OnePlace == IInv /\ LifeInv => JobInOnePlace
<1> SUFFICES ASSUME IInv, LifeInv, NEW j \in Jobs
             PROVE  LET holders == {p \in Processes : job[p] = j} IN
                    /\ j \in queue <=> end[j] = "queued"
                    /\ holders # {} <=> end[j] = "running"
                    /\ \A p, q \in holders : p = q
  BY DEF JobInOnePlace
<1>1. /\ j \in queue <=> end[j] = "queued"
      /\ {p \in Processes : job[p] = j} # {} <=> end[j] = "running"
  BY DEF LifeInv, Placed
<1>2. \A p, q \in {r \in Processes : job[r] = j} : p = q
  BY NoJobAssumption DEF IInv, Held
<1> QED BY <1>1, <1>2

\* Through crashes and limits, no job waits and runs at once, runs twice, or is
\* still somewhere when it has ended.
THEOREM JobsStayInOnePlace == Spec => []JobInOnePlace
<1>1. IInv /\ LifeInv => JobInOnePlace
  BY OnePlace
<1> QED BY <1>1, LifeInvKept, PTL

\* The pool is the bound of what runs at once, as module FileBug assumes of its
\* Workers: no more jobs run, or file a bug, than there are processes.
THEOREM PoolBoundsTheRunning ==
  ASSUME IsFiniteSet(Processes)
  PROVE  Spec => [](/\ IsFiniteSet({j \in Jobs : end[j] = "running"})
                    /\ Cardinality({j \in Jobs : end[j] = "running"})
                         <= Cardinality(Processes))
<1> DEFINE R == {j \in Jobs : end[j] = "running"}
           B == {p \in Processes : job[p] \in Jobs}
<1>1. ASSUME IInv, LifeInv
      PROVE  IsFiniteSet(R) /\ Cardinality(R) <= Cardinality(Processes)
  <2>1. /\ IsFiniteSet(B) /\ Cardinality(B) <= Cardinality(Processes)
        /\ Cardinality(B) \in Nat /\ Cardinality(Processes) \in Nat
    BY FS_Subset, FS_CardinalityType
  <2>2. [p \in B |-> job[p]] \in Surjection(B, R)
    <3>1. \A p \in B : job[p] \in R
      BY <1>1, NoJobAssumption DEF IInv, Held
    <3>2. \A j \in R : \E p \in B : job[p] = j
      BY <1>1 DEF LifeInv, Placed
    <3> QED BY <3>1, <3>2 DEF Surjection
  <2>3. IsFiniteSet(R) /\ Cardinality(R) <= Cardinality(B)
    BY <2>1, <2>2, FS_Surjection
  <2>4. Cardinality(R) \in Nat
    BY <2>3, FS_CardinalityType
  <2> HIDE DEF R, B
  <2> QED BY <2>1, <2>3, <2>4
<1> QED BY <1>1, LifeInvKept, PTL

LEMMA DeliveryStep == IInv /\ LifeInv /\ [Next]_vars => [D!Next]_D!vars
<1> SUFFICES ASSUME IInv, LifeInv, [Next]_vars PROVE D!Next \/ UNCHANGED <<end, calls>>
  BY DEF D!vars
<1>1. ASSUME NEW j \in Jobs, Delay(j) PROVE D!Accept(j)
  BY <1>1 DEF Delay, D!Accept, D!MoveOn
<1>2. ASSUME NEW p \in Processes, NEW j \in Jobs, Take(p, j) PROVE D!Begin(j)
  BY <1>2 DEF Take, D!Begin, D!MoveOn, IInv, Held
<1>3. ASSUME NEW p \in Processes, pc[p] # "idle",
             NEW how \in Failures \cup {"done"}, Ends(p, how)
      PROVE  D!Finish(job[p])
  <2>1. end[job[p]] = "running" /\ job[p] \in Jobs
    BY <1>3, BusyHolds
  <2>2. D!MoveOn(job[p], "running", how)
    BY <1>3, <2>1 DEF Ends, D!MoveOn
  <2>3. how \in {"no_host", "no_command", "no_user"} => calls[job[p]] = 0
    BY <1>3 DEF Ends, IInv, Counted
  <2>4. how = "done" => calls[job[p]] = 1
    BY <1>3 DEF Ends, LifeInv, CalledBehind, BeforeCall
  <2> QED BY <2>2, <2>3, <2>4 DEF Failures, D!Finish, D!Uncalled, D!CutShort
<1>4. ASSUME NEW p \in Processes, pc[p] # "idle",
             NEW label \in Labels \ {"idle"}, GoesOn(p, label), calls' # calls
      PROVE  D!Call(job[p])
  <2>1. end[job[p]] = "running" /\ job[p] \in Jobs
    BY <1>4, BusyHolds
  <2>2. calls[job[p]] = 0
    BY <1>4 DEF GoesOn, IInv, Counted, BeforeCall
  <2> QED BY <1>4, <2>1, <2>2 DEF GoesOn, D!Call
<1>5. ASSUME NEW p \in Processes, Step(p) PROVE D!Next \/ UNCHANGED <<end, calls>>
  <2>1. job[p] \in Jobs
    BY <1>5, BusyHolds DEF Step
  <2> QED BY <1>3, <1>4, <1>5, <2>1 DEF Step, GoesOn, D!Next
<1> QED BY <1>1, <1>2, <1>5, KindsOfSteps DEF D!Next

\* The workers deliver as Delivery promises: one job at a time, each step once,
\* in order, whatever dies and whenever the limits strike.
THEOREM WorkersDeliver == Spec => ImplementsDelivery
<1>1. Init => D!Init
  BY DEF Init, D!Init
<1> QED BY <1>1, DeliveryStep, LifeInvKept, PTL DEF Spec, ImplementsDelivery, D!Spec

-----------------------------------------------------------------------------
(* Every step brings its job nearer to its end.                            *)

\* What one process does: its job ends, or it has fewer steps ahead.
Lowers(p) ==
  /\ pc[p] # "idle"
  /\ \A q \in Processes \ {p} :
       pc'[q] = pc[q] /\ job'[q] = job[q] /\ (q \in struck' <=> q \in struck)
  /\ \A k \in Jobs \ {job[p]} : end'[k] = end[k]
  /\ \/ end'[job[p]] \in Failures \cup {"done"}
     \/ /\ job'[p] = job[p] /\ end'[job[p]] = end[job[p]]
        /\ Turns(p)' < Turns(p)

LEMMA TurnsAreFew ==
  ASSUME TypeOK, NEW p \in Processes, pc[p] # "idle"
  PROVE  Turns(p) \in 1..11
BY DEF TypeOK, Turns, Ahead, Labels, Muted

LEMMA FinishLowers ==
  ASSUME IInv, NEW p \in Processes, pc[p] # "idle",
         NEW how \in Failures \cup {"done"},
         Goto(p, "idle"), end' = [end EXCEPT ![job[p]] = how],
         job' = [job EXCEPT ![p] = NoJob], struck' = struck \ {p}
  PROVE  Lowers(p)
BY BusyHolds DEF IInv, TypeOK, Goto, Lowers

LEMMA GoingOnLowers ==
  ASSUME IInv, NEW p \in Processes, pc[p] # "idle", NEW label \in Labels \ {"idle"},
         Goto(p, label), UNCHANGED <<end, job>>,
         \/ struck' = struck /\ Ahead[label] + (IF label = "call" THEN 1 ELSE 0) < Ahead[pc[p]]
         \/ struck' = struck \cup {p} /\ p \notin struck
            /\ (Ahead[label] < Ahead[pc[p]] \/ (label = "call" /\ pc[p] = "call"))
  PROVE  Lowers(p)
<1>1. pc'[p] = label /\ \A q \in Processes \ {p} : pc'[q] = pc[q]
  BY DEF IInv, TypeOK, Goto
<1>2. Ahead[label] \in 1..11 /\ Ahead[pc[p]] \in 1..11
  BY DEF IInv, TypeOK, Ahead, Labels, Muted
<1>3. Turns(p)' < Turns(p)
  BY <1>1, <1>2 DEF Turns, Ahead
<1> QED BY <1>1, <1>3 DEF Lowers

LEMMA WorkLowers ==
  ASSUME IInv, NEW p \in Processes,
         Prepare(p) \/ CommandEnds(p) \/ Report(p) \/ Limit(p) \/ Crash(p)
  PROVE  Lowers(p)
<1> USE DEF Labels, Muted, Failures
<1>1. CASE Prepare(p)
  <2>1. CASE Lookup(p)
    BY <2>1, FinishLowers, GoingOnLowers DEF Lookup, Continue, Finish, Ahead
  <2>2. CASE Load(p)
    BY <2>2, FinishLowers, GoingOnLowers DEF Load, Continue, Finish, Ahead
  <2>3. CASE User(p)
    BY <2>3, FinishLowers, GoingOnLowers DEF User, Continue, Finish, Ahead
  <2>4. CASE Announce(p)
    BY <2>4, GoingOnLowers DEF Announce, Call, Continue, Ahead
  <2> QED BY <1>1, <2>1, <2>2, <2>3, <2>4 DEF Prepare
<1>2. CASE CommandEnds(p)
  BY <1>2, GoingOnLowers DEF CommandEnds, Continue, Ahead
<1>3. CASE Report(p)
  <2>1. CASE Mute(p)
    BY <2>1, GoingOnLowers DEF Mute, Continue, Ahead
  <2>2. CASE MailTeam(p)
    BY <2>2, GoingOnLowers DEF MailTeam, Continue, Ahead
  <2>3. CASE MailRequester(p) \/ Irc(p)
    BY <2>3, GoingOnLowers DEF MailRequester, Irc, Continue, Ahead
  <2>4. CASE Unmute(p)
    BY <2>4, FinishLowers DEF Unmute, Finish
  <2> QED BY <1>3, <2>1, <2>2, <2>3, <2>4 DEF Report
<1>4. CASE SoftLimitInCommand(p)
  BY <1>4, GoingOnLowers DEF SoftLimitInCommand, Strike, Ahead
<1>5. CASE SoftLimitInNotify(p)
  BY <1>5, GoingOnLowers DEF SoftLimitInNotify, Strike, Ahead
<1>6. CASE SoftLimitEscapes(p)
  BY <1>6, FinishLowers DEF SoftLimitEscapes, Finish
<1>7. CASE Kill(p)
  BY <1>7, FinishLowers DEF Kill, Respawn
<1> QED BY <1>1, <1>2, <1>3, <1>4, <1>5, <1>6, <1>7
        DEF Limit, SoftLimit, HardLimit, Crash

\* A running job has the steps ahead that its one holder has.
LEMMA StepsOfHolder ==
  ASSUME IInv, NEW p \in Processes, NEW j \in Jobs, job[p] = j
  PROVE  StepsAhead(j) = Turns(p)
<1>1. (CHOOSE q \in Processes : job[q] = j) = p
  BY NoJobAssumption DEF IInv, Held
<1> QED BY <1>1, NoJobAssumption DEF IInv, Held, StepsAhead

LEMMA StepsOfHolderPrimed ==
  ASSUME IInv', NEW p \in Processes, NEW j \in Jobs, job'[p] = j
  PROVE  StepsAhead(j)' = Turns(p)'
<1>1. (CHOOSE q \in Processes : job'[q] = j) = p
  BY NoJobAssumption DEF IInv, Held
<1> QED BY <1>1, NoJobAssumption DEF IInv, Held, StepsAhead

\* A job that no process lets go, takes or moves stays where it is.
LEMMA OthersStay ==
  ASSUME IInv, LifeInv, IInv', NEW k \in Jobs, end'[k] = end[k],
         \A q \in Processes : job[q] = k =>
            job'[q] = k /\ pc'[q] = pc[q] /\ (q \in struck' <=> q \in struck)
  PROVE  StepsAhead(k)' = StepsAhead(k)
<1>1. CASE end[k] = "running"
  <2>1. PICK q \in Processes : job[q] = k
    BY <1>1 DEF LifeInv, Placed
  <2>2. Turns(q)' = Turns(q)
    BY <2>1 DEF Turns
  <2> QED BY <2>1, <2>2, StepsOfHolder, StepsOfHolderPrimed
<1>2. CASE end[k] # "running"
  BY <1>2 DEF StepsAhead
<1> QED BY <1>1, <1>2

LEMMA AdvanceStep ==
  ASSUME IInv, LifeInv, Next
  PROVE  \E j \in Jobs : Advances(j)
<1>i. IInv'
  BY Inductive
<1>t. /\ job \in [Processes -> Jobs \cup {NoJob}]
      /\ end \in [Jobs -> Failures \cup {"new", "queued", "running", "done"}]
  BY DEF IInv, TypeOK
<1>1. ASSUME NEW j \in Jobs, Delay(j) PROVE Advances(j)
  <2>1. end[j] = "new" /\ end'[j] = "queued" /\ \A k \in Jobs \ {j} : end'[k] = end[k]
    BY <1>1, <1>t DEF Delay
  <2>2. StepsAhead(j) = 13 /\ StepsAhead(j)' = 12
    BY <2>1 DEF StepsAhead
  <2>3. \A k \in Jobs \ {j} : StepsAhead(k)' = StepsAhead(k)
    BY <1>1, <1>i, <2>1, OthersStay DEF Delay
  <2> QED BY <2>2, <2>3 DEF Advances
<1>2. ASSUME NEW p \in Processes, NEW j \in Jobs, Take(p, j) PROVE Advances(j)
  <2>1. /\ end[j] = "queued" /\ end'[j] = "running" /\ pc[p] = "idle" /\ job[p] = NoJob
        /\ \A k \in Jobs \ {j} : end'[k] = end[k]
    BY <1>2, <1>t DEF Take, IInv, Held, TypeOK
  <2>2. /\ pc'[p] = "lookup" /\ job'[p] = j /\ struck' = struck
        /\ \A q \in Processes \ {p} : pc'[q] = pc[q] /\ job'[q] = job[q]
    BY <1>2 DEF Take, Goto, IInv, TypeOK
  <2>3. StepsAhead(j) = 12
    BY <2>1 DEF StepsAhead
  <2>4. StepsAhead(j)' = 11
    <3>1. Turns(p)' = 11
      BY <2>2 DEF Turns, Ahead
    <3> QED BY <1>i, <2>2, <3>1, StepsOfHolderPrimed
  <2>5. \A k \in Jobs \ {j} : StepsAhead(k)' = StepsAhead(k)
    BY <1>i, <2>1, <2>2, NoJobAssumption, OthersStay
  <2> QED BY <2>3, <2>4, <2>5 DEF Advances
<1>3. ASSUME NEW p \in Processes, Lowers(p) PROVE job[p] \in Jobs /\ Advances(job[p])
  <2>1. PICK j \in Jobs : j = job[p]
    BY <1>3, BusyHolds DEF Lowers
  <2>2. StepsAhead(j) = Turns(p) /\ Turns(p) \in 1..11
    BY <1>3, <2>1, StepsOfHolder, TurnsAreFew DEF Lowers, IInv
  <2>3. \A k \in Jobs \ {j} : StepsAhead(k)' = StepsAhead(k)
    <3> SUFFICES ASSUME NEW k \in Jobs \ {j} PROVE StepsAhead(k)' = StepsAhead(k)
      OBVIOUS
    <3>1. end'[k] = end[k]
      BY <1>3, <2>1 DEF Lowers
    <3>2. \A q \in Processes : job[q] = k =>
            job'[q] = k /\ pc'[q] = pc[q] /\ (q \in struck' <=> q \in struck)
      BY <1>3, <2>1 DEF Lowers
    <3> QED BY <1>i, <3>1, <3>2, OthersStay
  <2>4. StepsAhead(j)' < StepsAhead(j)
    <3>1. CASE end'[j] \in Failures \cup {"done"}
      <4>1. StepsAhead(j)' = 0
        BY <3>1 DEF StepsAhead, Failures
      <4> QED BY <2>2, <4>1
    <3>2. CASE job'[p] = job[p] /\ Turns(p)' < Turns(p)
      BY <1>i, <2>1, <2>2, <3>2, StepsOfHolderPrimed
    <3> QED BY <1>3, <2>1, <3>1, <3>2 DEF Lowers
  <2>5. Advances(j)
    BY <2>3, <2>4 DEF Advances
  <2> QED BY <2>1, <2>5
<1> QED BY <1>1, <1>2, <1>3, WorkLowers DEF Next, TakeOne

LEMMA StepsAreFew ==
  ASSUME IInv, LifeInv, NEW j \in Jobs
  PROVE  StepsAhead(j) \in 0..13
<1>1. CASE end[j] = "running"
  <2>1. PICK p \in Processes : job[p] = j
    BY <1>1 DEF LifeInv, Placed
  <2>2. pc[p] # "idle"
    BY <2>1, NoJobAssumption DEF IInv, TypeOK
  <2> QED BY <2>1, <2>2, StepsOfHolder, TurnsAreFew DEF IInv
<1>2. CASE end[j] # "running"
  BY <1>2 DEF StepsAhead
<1> QED BY <1>1, <1>2

FewSteps == \A j \in Jobs : StepsAhead(j) \in 0..13

\* A job is over after thirteen steps at most, and no step is another's: what
\* EveryJobEnds adds to this is only that the processes and timers run.
THEOREM JobsAdvance == Spec => JobsOnlyAdvance /\ []FewSteps
<1>1. IInv /\ LifeInv /\ [Next]_vars => [\E j \in Jobs : Advances(j)]_vars
  BY AdvanceStep
<1>2. IInv /\ LifeInv => FewSteps
  BY StepsAreFew DEF FewSteps
<1> QED BY <1>1, <1>2, LifeInvKept, PTL DEF Spec, JobsOnlyAdvance
=============================================================================

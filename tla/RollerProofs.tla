---------------------------- MODULE RollerProofs ----------------------------
(***************************************************************************)
(* Theorems about the whole of Roller, for any number of requests and      *)
(* processes: what an answer says of the job, and what a command needs.    *)
(* What holds of the workers alone is taken from WorkerProofs.             *)
(***************************************************************************)
EXTENDS Roller, TLAPS

WP == INSTANCE WorkerProofs WITH Jobs <- Requests

-----------------------------------------------------------------------------
(* The backend behaves as Worker says it does.                             *)

LEMMA WorkersInit == Init => WP!IInv
<1>1. W!Init => WP!Init
  BY DEF W!Init, WP!Init, W!Notices, WP!Notices
<1> QED BY <1>1, WP!Initially, RequestsAssumption, AdmittedAssumption
        DEF Init, WP!Loadable, W!Loadable

LEMMA WorkersStep == [Next]_vars => [WP!Next]_WP!vars
<1> SUFFICES ASSUME [Next]_vars PROVE [WP!Next]_WP!vars
  OBVIOUS
<1> USE DEF W!Goto, WP!Goto, W!Finish, WP!Finish, W!Continue, WP!Continue, W!Note, WP!Note,
            W!reporting, WP!reporting, W!logging, WP!logging
<1>1. UNCHANGED backend => UNCHANGED WP!vars
  BY DEF backend, WP!vars
<1>2. ASSUME NEW r \in Requests, Send(r) \/ View(r) PROVE [WP!Next]_WP!vars
  <2>1. UNCHANGED backend \/ W!Delay(r)
    BY <1>2 DEF Send, View, Authenticate, Check, Delay, WebDies
  <2>2. W!Delay(r) => WP!Delay(r)
    BY DEF W!Delay, WP!Delay
  <2> QED BY <1>1, <2>1, <2>2 DEF WP!Next
<1>3. ASSUME NEW p \in Processes, Work(p) PROVE WP!Next
  <2>1. W!TakeOne(p) => WP!TakeOne(p)
    BY DEF W!TakeOne, WP!TakeOne, W!Take, WP!Take
  <2>2. W!Prepare(p) => WP!Prepare(p)
    BY DEF W!Prepare, WP!Prepare, W!Lookup, WP!Lookup, W!Load, WP!Load, W!User, WP!User,
       W!Announce, WP!Announce, W!Call, WP!Call, W!Loadable, WP!Loadable
  <2>3. W!CommandEnds(p) => WP!CommandEnds(p)
    BY DEF W!CommandEnds, WP!CommandEnds
  <2>4. W!Report(p) => WP!Report(p)
    BY DEF W!Report, WP!Report, W!Mute, WP!Mute, W!SaveThenMute, WP!SaveThenMute, W!Critical,
       WP!Critical, W!SetLevel, WP!SetLevel, W!MailTeam, WP!MailTeam, W!MailRequester,
       WP!MailRequester, W!Irc, WP!Irc, W!SendResult, WP!SendResult, W!Unmute, WP!Unmute
  <2>5. W!Kill(p) => WP!Kill(p)
    BY DEF W!Kill, W!Respawn, WP!Kill, WP!Respawn, W!SetLevel, WP!SetLevel
  <2>6. W!SoftLimit(p) => WP!SoftLimit(p)
    BY DEF W!SoftLimit, WP!SoftLimit, W!SoftLimitInCommand, WP!SoftLimitInCommand,
       W!SoftLimitInNotify, WP!SoftLimitInNotify, W!SoftLimitEscapes, WP!SoftLimitEscapes,
       W!Strike, WP!Strike
  <2> QED BY <1>3, <2>1, <2>2, <2>3, <2>4, <2>5, <2>6
          DEF Work, Take, Prepare, Command, Report, Limit, Crash, W!Limit, WP!Limit,
              W!HardLimit, WP!HardLimit, W!Crash, WP!Crash, WP!Next
<1>4. UNCHANGED vars => UNCHANGED backend
  BY DEF vars
<1> QED BY <1>1, <1>2, <1>3, <1>4 DEF Next

LEMMA WorkersKeep == Spec => []WP!IInv
<1>1. WP!IInv /\ [WP!Next]_WP!vars => WP!IInv'
  BY WP!Inductive, RequestsAssumption, AdmittedAssumption DEF WP!Loadable, W!Loadable
<1> QED BY <1>1, WorkersInit, WorkersStep, PTL DEF Spec

-----------------------------------------------------------------------------
(* Admission, from the view through the queue to the call of the command.  *)

Admitted(r) ==
  /\ who[r] \in {"user", "bare"} /\ defects[r] \subseteq {"host"}
  /\ defects[r] = {"host"} => task[r] = "ping"

\* The labels of a task before the worker has found the caller's user name.
Early == {"idle", "lookup", "load", "user"}

ApiTyped ==
  /\ defects \in [Requests -> SUBSET Defects]
  /\ stage \in [Requests -> {"idle", "authenticate", "check", "delay", "over"}]
  /\ who \in [Requests -> Callers]
  /\ answer \in [Requests -> {"none", "ok", "created", "bad_request", "forbidden",
                              "not_found", "not_allowed", "error"}]

\* A request has no job until it is over, and a job only if it was admitted.
RequestOk(r) ==
  /\ (stage[r] = "over") = (answer[r] # "none")
  /\ stage[r] # "over" => end[r] = "new"
  /\ stage[r] \in {"authenticate", "check", "delay"} => "route" \notin defects[r]
  /\ stage[r] \in {"check", "delay"} => who[r] # "unknown" /\ "method" \notin defects[r]
  /\ stage[r] = "delay" => Admitted(r)
  /\ end[r] # "new" => Admitted(r)
  /\ answer[r] = "created" => end[r] # "new"
  /\ answer[r] \in Settled => end[r] = "new"
  /\ calls[r] > 0 => end[r] # "new" /\ who[r] = "user"

Admission ==
  /\ ApiTyped
  /\ \A r \in Requests : RequestOk(r)
  /\ \A p \in Processes : pc[p] \notin Early => who[job[p]] = "user"

LEMMA AdmissionInit == Init => Admission
BY DEF Init, W!Init, Admission, ApiTyped, RequestOk, Admitted, Early, Callers, Defects, Settled

\* What the workers hold: a busy process has a running job.
LEMMA Busy ==
  ASSUME WP!IInv, NEW p \in Processes, pc[p] # "idle"
  PROVE  job[p] \in Requests /\ end[job[p]] = "running"
BY RequestsAssumption DEF WP!IInv, WP!TypeOK, WP!Held

\* The view's steps touch one request, which has no job yet.
LEMMA ViewStep ==
  ASSUME WP!IInv, Admission, NEW r \in Requests, Send(r) \/ View(r)
  PROVE  Admission'
<1>1. stage[r] # "over" /\ end[r] = "new" /\ answer[r] = "none" /\ ~(calls[r] > 0)
  BY DEF Send, View, Authenticate, Check, Delay, WebDies, Admission, RequestOk
<1>2. \A p \in Processes : pc[p] \notin Early => job[p] \in Requests /\ job[p] # r
  BY <1>1, Busy DEF Early
<1>3. ASSUME NEW what \in {"ok", "bad_request", "forbidden", "not_found", "not_allowed",
                           "error"},
             Refuse(r, what), UNCHANGED backend
      PROVE  Admission'
  BY <1>1, <1>2, <1>3 DEF Refuse, Answer, backend, Admission, ApiTyped, RequestOk, Admitted,
     Settled, Callers, Defects
<1>4. CASE Send(r)
  <2>1. ASSUME NEW d \in SUBSET (Defects \ {"route"}),
               defects' = [defects EXCEPT ![r] = d],
               GoOn(r, "authenticate"), UNCHANGED who, UNCHANGED backend
        PROVE  Admission'
    BY <1>1, <1>2, <2>1 DEF GoOn, backend, Admission, ApiTyped, RequestOk, Admitted, Defects
  <2> QED BY <1>3, <1>4, <2>1 DEF Send
<1>5. CASE Authenticate(r)
  <2>1. ASSUME "method" \notin defects[r], NEW caller \in Callers \ {"unknown"},
               who' = [who EXCEPT ![r] = caller],
               GoOn(r, "check"), UNCHANGED defects, UNCHANGED backend
        PROVE  Admission'
    <3>0. stage[r] = "authenticate" /\ UNCHANGED <<answer, end, calls, pc, job, task>>
      BY <1>5, <2>1 DEF Authenticate, GoOn, backend
    <3>1. ApiTyped'
      BY <2>1 DEF GoOn, Admission, ApiTyped
    <3>2. who'[r] = caller /\ \A x \in Requests \ {r} : who'[x] = who[x]
      BY <2>1 DEF Admission, ApiTyped
    <3>3. stage'[r] = "check" /\ \A x \in Requests \ {r} : stage'[x] = stage[x]
      BY <2>1 DEF GoOn, Admission, ApiTyped
    <3>4. \A x \in Requests : RequestOk(x)'
      BY <1>1, <2>1, <3>0, <3>2, <3>3 DEF Admission, RequestOk, Admitted
    <3>5. \A p \in Processes : pc'[p] \notin Early => who'[job'[p]] = "user"
      BY <1>2, <3>0, <3>2 DEF Admission
    <3> QED BY <3>1, <3>4, <3>5 DEF Admission
  <2> QED BY <1>3, <1>5, <2>1 DEF Authenticate
<1>6. CASE Check(r)
  <2>1. CASE HasScopes(r) /\ HostAllowed(r) /\ IsValid(r) /\ GoOn(r, "delay")
             /\ UNCHANGED <<defects, who>> /\ UNCHANGED backend
    <3>1. stage[r] = "check"
      BY <1>6 DEF Check
    <3>2. Admitted(r)
      BY <2>1, <3>1 DEF HasScopes, HostAllowed, IsValid, Admitted, Admission, ApiTyped,
         RequestOk, Callers, Defects
    <3> QED BY <1>1, <1>2, <2>1, <3>1, <3>2 DEF GoOn, backend, Admission, ApiTyped,
            RequestOk, Admitted
  <2> QED BY <1>3, <1>6, <2>1 DEF Check
<1>7. CASE Delay(r)
  <2>1. Admitted(r) /\ UNCHANGED <<defects, who>>
    BY <1>7 DEF Delay, Admission, RequestOk
  <2>2. CASE W!Delay(r) /\ \E what \in {"created", "error"} : Answer(r, what)
    <3>1. /\ end' = [end EXCEPT ![r] = "queued"] /\ end \in [Requests -> W!Failures \cup
                {"new", "queued", "running", "done"}]
          /\ UNCHANGED <<task, calls, pc, job>>
      BY <2>2 DEF W!Delay, WP!IInv, WP!TypeOK, W!Failures, WP!Failures
    <3> QED BY <1>1, <1>2, <2>1, <2>2, <3>1 DEF Answer, Admission, ApiTyped, RequestOk,
            Admitted, Settled
  <2>3. CASE UNCHANGED backend /\ Answer(r, "error")
    BY <1>1, <1>2, <2>1, <2>3 DEF Answer, backend, Admission, ApiTyped, RequestOk, Admitted,
       Settled
  <2> QED BY <1>7, <2>2, <2>3 DEF Delay
<1>8. CASE WebDies(r)
  BY <1>3, <1>8 DEF WebDies
<1> QED BY <1>4, <1>5, <1>6, <1>7, <1>8 DEF View

\* What a step of a worker does to the jobs: the first call follows the user's
\* name, and only a client id that has one leads there.
LEMMA WorkFacts ==
  ASSUME WP!IInv, NEW p \in Processes, Work(p)
  PROVE  /\ UNCHANGED <<api, task>>
         /\ \A r \in Requests : end'[r] = "new" <=> end[r] = "new"
         /\ \A r \in Requests :
              calls'[r] = calls[r] \/ (pc[p] = "announce" /\ r = job[p])
         /\ \A q \in Processes \ {p} : pc'[q] = pc[q] /\ job'[q] = job[q]
         /\ pc'[p] \notin Early =>
              /\ pc[p] # "idle" /\ job'[p] = job[p]
              /\ pc[p] \notin Early \/ (pc[p] = "user" /\ who[job[p]] # "bare")
<1> USE Busy DEF WP!IInv, WP!TypeOK, Early
<1> USE DEF W!Goto, W!Finish, W!Continue, W!Note
<1>1. CASE Take(p)
  <2>1. PICK r \in Requests : W!Take(p, r)
    BY <1>1 DEF Take, W!TakeOne
  <2>2. end[r] = "queued"
    BY <2>1 DEF W!Take, WP!Held
  <2> QED BY <1>1, <2>1, <2>2 DEF Take, W!Take
<1>2. CASE Prepare(p)
  <2>1. CASE W!Lookup(p) \/ W!Load(p)
    BY <1>2, <2>1 DEF Prepare, W!Lookup, W!Load
  <2>2. CASE W!User(p)
    BY <1>2, <2>2 DEF Prepare, UserFits, W!User
  <2>3. CASE W!Announce(p)
    BY <1>2, <2>3 DEF Prepare, W!Announce, W!Call
  <2> QED BY <1>2, <2>1, <2>2, <2>3 DEF Prepare, W!Prepare
<1>3. CASE Command(p)
  BY <1>3 DEF Command, W!CommandEnds
<1>4. CASE Report(p)
  BY <1>4 DEF Report, W!Report, W!Mute, W!MailTeam, W!MailRequester, W!Irc, W!Unmute
<1>5. CASE Limit(p) \/ Crash(p)
  <2>1. CASE W!Kill(p)
    BY <1>5, <2>1 DEF Limit, Crash, W!Kill, W!Respawn
  <2>2. CASE W!SoftLimitInCommand(p)
    BY <1>5, <2>2 DEF Limit, Crash, W!SoftLimitInCommand, W!Strike
  <2>3. CASE W!SoftLimitInNotify(p)
    BY <1>5, <2>3 DEF Limit, Crash, W!SoftLimitInNotify, W!Strike
  <2>4. CASE W!SoftLimitEscapes(p)
    BY <1>5, <2>4 DEF Limit, Crash, W!SoftLimitEscapes
  <2> QED BY <1>5, <2>1, <2>2, <2>3, <2>4
          DEF Limit, Crash, W!Limit, W!HardLimit, W!Crash, W!SoftLimit
<1> QED BY <1>1, <1>2, <1>3, <1>4, <1>5 DEF Work

LEMMA WorkStep ==
  ASSUME WP!IInv, Admission, NEW p \in Processes, Work(p)
  PROVE  Admission'
<1>0. WP!IInv'
  BY WorkersStep, WP!Inductive, RequestsAssumption, AdmittedAssumption
     DEF Next, WP!Loadable, W!Loadable
<1>1. ApiTyped'
  BY WorkFacts DEF Admission, ApiTyped, api
<1>2. pc'[p] \notin Early => who'[job'[p]] = "user"
  <2> SUFFICES ASSUME pc'[p] \notin Early PROVE who[job[p]] = "user"
    BY WorkFacts DEF api
  <2>1. CASE pc[p] \notin Early
    BY <2>1 DEF Admission
  <2>2. CASE pc[p] = "user" /\ who[job[p]] # "bare"
    BY <2>2, Busy DEF Admission, RequestOk, Admitted
  <2> QED BY <2>1, <2>2, WorkFacts
<1>3. \A q \in Processes : pc'[q] \notin Early => who'[job'[q]] = "user"
  BY <1>2, WorkFacts DEF Admission, api
<1>4. ASSUME NEW r \in Requests PROVE RequestOk(r)'
  <2>1. calls'[r] > 0 => end[r] # "new" /\ who[r] = "user"
    <3>1. CASE calls'[r] = calls[r]
      BY <3>1 DEF Admission, RequestOk
    <3>2. CASE pc[p] = "announce" /\ r = job[p]
      BY <3>2, Busy DEF Admission, Early
    <3> QED BY <3>1, <3>2, WorkFacts
  <2> QED BY <2>1, WorkFacts DEF Admission, RequestOk, Admitted, api
<1> QED BY <1>1, <1>3, <1>4 DEF Admission

LEMMA AdmissionStep == WP!IInv /\ Admission /\ [Next]_vars => Admission'
<1>1. UNCHANGED vars /\ Admission => Admission'
  BY DEF vars, api, backend, Admission, ApiTyped, RequestOk, Admitted
<1> QED BY <1>1, ViewStep, WorkStep DEF Next

LEMMA AdmissionKept == Spec => [](WP!IInv /\ Admission)
BY AdmissionInit, AdmissionStep, WorkersKeep, PTL DEF Spec

\* The types of the API's variables and, through Worker's, of the backend's.
THEOREM RollerTypeSafety == Spec => []TypeOK
<1>1. WP!TypeOK => W!TypeOK
  BY DEF WP!TypeOK, W!TypeOK, WP!Failures, W!Failures, WP!Notices, W!Notices, WP!Labels,
     W!Labels, WP!Muted, W!Muted, WP!Levels, W!Levels
<1>2. WP!IInv /\ Admission => TypeOK
  BY <1>1 DEF WP!IInv, Admission, ApiTyped, RequestOk, TypeOK
<1> QED BY <1>2, AdmissionKept, PTL

\* What an answer says of the job is true and stays true.
THEOREM AnswersAreTrue == Spec => []AnswerTellsTruth
<1>1. Admission => AnswerTellsTruth
  BY DEF Admission, RequestOk, AnswerTellsTruth
<1> QED BY <1>1, AdmissionKept, PTL

\* No command without an admitted request behind it, through any crash, limit
\* and order of the queue.
THEOREM CommandsAreAdmitted == Spec => []CommandNeedsAdmission
<1>1. WP!IInv /\ Admission => CommandNeedsAdmission
  BY DEF Admission, RequestOk, Admitted, CommandNeedsAdmission
<1> QED BY <1>1, AdmissionKept, PTL

-----------------------------------------------------------------------------
(* What the workers promise on their own, they keep behind the API.        *)

LEMMA DeliveryKept == Spec => []WP!LifeInv
<1>1. WP!IInv /\ WP!LifeInv /\ [WP!Next]_WP!vars => WP!LifeInv'
  BY WP!LifeInvStep, RequestsAssumption, AdmittedAssumption DEF WP!Loadable, W!Loadable
<1>2. Init => WP!LifeInv
  BY RequestsAssumption
     DEF Init, W!Init, WP!LifeInv, WP!Placed, WP!CalledBehind
<1> QED BY <1>1, <1>2, WorkersKeep, WorkersStep, PTL DEF Spec

LEMMA ReportsKept == Spec => []WP!ReportInv
<1>1. WP!IInv /\ WP!ReportInv /\ [WP!Next]_WP!vars => WP!ReportInv'
  BY WP!ReportInvStep, RequestsAssumption, AdmittedAssumption DEF WP!Loadable, W!Loadable
<1>2. Init => WP!ReportInv
  BY DEF Init, W!Init, WP!ReportInv, WP!ReportedSoFar, WP!DoneMeansReported
<1> QED BY <1>1, <1>2, WorkersKeep, WorkersStep, PTL DEF Spec

\* The workers' invariants hold in the whole: no command is called twice, a
\* job is in one place, what is done is reported, and only an interruption mutes.
THEOREM WorkersBehindTheApi ==
  Spec => [](/\ W!NeverCalledTwice /\ W!JobInOnePlace
             /\ W!DoneMeansReported /\ W!MutedOnlyByInterruption)
<1>1. WP!IInv => W!NeverCalledTwice /\ W!MutedOnlyByInterruption
  BY DEF WP!IInv, WP!Held, WP!Counted, WP!Silent, WP!Interrupted, WP!Muted,
         W!Muted, W!NeverCalledTwice, W!MutedOnlyByInterruption
<1>2. WP!IInv /\ WP!LifeInv => W!JobInOnePlace
  BY WP!OnePlace, RequestsAssumption, AdmittedAssumption
     DEF WP!Loadable, W!Loadable, WP!JobInOnePlace, W!JobInOnePlace
<1>3. WP!ReportInv => W!DoneMeansReported
  BY DEF WP!ReportInv, WP!DoneMeansReported, W!DoneMeansReported
<1> QED BY <1>1, <1>2, <1>3, WorkersKeep, DeliveryKept, ReportsKept, PTL

\* Each request is at most one job, with one call of its command.
THEOREM RollerDelivers == Spec => ImplementsDelivery
<1>1. Init => D!Init
  BY DEF Init, W!Init, D!Init
<1>2. WP!IInv /\ WP!LifeInv /\ [WP!Next]_WP!vars => [D!Next]_D!vars
  <2>1. WP!IInv /\ WP!LifeInv /\ [WP!Next]_WP!vars => [WP!D!Next]_WP!D!vars
    BY WP!DeliveryStep, RequestsAssumption, AdmittedAssumption DEF WP!Loadable, W!Loadable
  <2>2. [WP!D!Next]_WP!D!vars => [D!Next]_D!vars
    BY DEF WP!D!Next, WP!D!vars, D!Next, D!vars, WP!D!Accept, WP!D!Begin, WP!D!Call,
       WP!D!Finish, WP!D!MoveOn, WP!D!Uncalled, WP!D!CutShort, D!Accept, D!Begin, D!Call,
       D!Finish, D!MoveOn, D!Uncalled, D!CutShort
  <2> QED BY <2>1, <2>2
<1> QED BY <1>1, <1>2, WorkersKeep, DeliveryKept, WorkersStep, PTL
        DEF Spec, ImplementsDelivery, D!Spec
=============================================================================

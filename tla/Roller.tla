------------------------------- MODULE Roller -------------------------------
(***************************************************************************)
(* The whole of Roller: the API in front of the queue and the workers.  A  *)
(* request passes the URL pattern, Taskcluster's authentication, the scope *)
(* check, the check of the host and the serializer; what passes them all   *)
(* becomes a job of module Worker, which shares queue, task and end.       *)
(*                                                                         *)
(* The web process handles a request in one go but for its two calls over  *)
(* the network, to Taskcluster and to the broker, and may die at any time. *)
(* Clients are external; a repeated request is one more request.           *)
(***************************************************************************)
EXTENDS Naturals

CONSTANTS Requests, Processes, TaskNames, NoJob    \* as in Worker

VARIABLES
  defects,   \* what is wrong with each request
  stage,     \* where the view is with it
  who,       \* the caller, as Taskcluster's answer describes it
  answer,    \* what the client gets; "error" is a 500, or no answer at all
  queue, task, end, calls, message, notice, pc, job, struck, level, saved, ran

api == <<defects, stage, who, answer>>
backend == <<queue, task, end, calls, message, notice, pc, job, struck, level,
             saved, ran>>
vars == <<api, backend>>

W == INSTANCE Worker WITH Jobs <- Requests

ASSUME RequestsAssumption == NoJob \notin Requests
ASSUME AdmittedAssumption ==
  TaskNames \subseteq W!Loadable \cup {"status", "reimage", "loan", "return_loan"}

\* A URL outside urlpatterns, a method that is neither OPTIONS nor POST, a name
\* outside TASK_NAMES (otherwise it is task[r]), a host that is not managed, a
\* blank among the other fields.
Defects == {"route", "method", "task", "host", "fields"}
Callers == {"unknown", "unscoped", "foreign", "bare", "user"}

TypeOK ==
  /\ W!TypeOK
  /\ defects \in [Requests -> SUBSET Defects]
  /\ stage \in [Requests -> {"idle", "authenticate", "check", "delay", "over"}]
  /\ who \in [Requests -> Callers]
  /\ answer \in [Requests -> {"none", "ok", "created", "bad_request", "forbidden",
                              "not_found", "not_allowed", "error"}]
  /\ \A r \in Requests : (stage[r] = "over") = (answer[r] # "none")

Init ==
  /\ W!Init
  /\ defects = [r \in Requests |-> {}]
  /\ stage = [r \in Requests |-> "idle"]
  /\ who = [r \in Requests |-> "unknown"]
  /\ answer = [r \in Requests |-> "none"]

-----------------------------------------------------------------------------
(* The view.                                                               *)

\* An answer that is made and not returned.
AnswerAndStay(r, what) == /\ answer' = [answer EXCEPT ![r] = what]
                          /\ UNCHANGED stage

Answer(r, what) == /\ answer' = [answer EXCEPT ![r] = what]
                   /\ stage' = [stage EXCEPT ![r] = "over"]

\* An answer without a job; nothing of the request is needed any more.
Refuse(r, what) == /\ Answer(r, what)
                   /\ defects' = [defects EXCEPT ![r] = {}]
                   /\ who' = [who EXCEPT ![r] = "unknown"]

GoOn(r, next) == /\ stage' = [stage EXCEPT ![r] = next]
                 /\ UNCHANGED answer

\* OPTIONS needs no authentication.
Send(r) ==
  /\ stage[r] = "idle"
  /\ \/ Refuse(r, "not_found") \/ Refuse(r, "ok")
     \/ /\ \E d \in SUBSET (Defects \ {"route"}) : defects' = [defects EXCEPT ![r] = d]
        /\ GoOn(r, "authenticate") /\ UNCHANGED who
  /\ UNCHANGED backend

\* authenticateHawk succeeds; fails, with or without a status; or raises.  It
\* is asked before the method is looked at.
Authenticate(r) ==
  /\ stage[r] = "authenticate"
  /\ \/ Refuse(r, "error") \/ Refuse(r, "forbidden")
     \/ "method" \in defects[r] /\ Refuse(r, "not_allowed")
     \/ /\ "method" \notin defects[r]
        /\ \E caller \in Callers \ {"unknown"} : who' = [who EXCEPT ![r] = caller]
        /\ GoOn(r, "check") /\ UNCHANGED defects
  /\ UNCHANGED backend

\* A caller with any one of the scope sets has the required scopes.
HasScopes(r) == who[r] # "unscoped"

\* is_managed_host, which a ping does without.
HostAllowed(r) == "host" \in defects[r] => task[r] = "ping" /\ "task" \notin defects[r]

\* The last alternative of a pattern without its "$".
TakesPrefixes(r) == who[r] # "foreign" /\ "fields" \notin defects[r]

\* JobSerializer: the patterns of client_id and task_name, and no blanks.
IsValid(r) == who[r] # "foreign" /\ defects[r] \cap {"task", "fields"} = {}

Check(r) ==
  /\ stage[r] = "check"
  /\ \/ ~HasScopes(r) /\ Refuse(r, "forbidden")
     \/ HasScopes(r) /\ ~HostAllowed(r) /\ Refuse(r, "not_found")
     \/ HasScopes(r) /\ HostAllowed(r) /\ ~IsValid(r) /\ Refuse(r, "bad_request")
     \/ /\ HasScopes(r) /\ HostAllowed(r) /\ IsValid(r)
        /\ GoOn(r, "delay") /\ UNCHANGED <<defects, who>>
  /\ UNCHANGED backend

\* An answer that does not wait for the broker.
DelayInBackground(r) ==
  /\ stage[r] = "delay"
  /\ W!Delay(r) \/ UNCHANGED backend
  /\ \E what \in {"created", "error"} : Answer(r, what)
  /\ UNCHANGED <<defects, who>>

\* celery_call_command.delay raises with or without having queued the job, and
\* the web process may die after it as well as before.
Delay(r) ==
  /\ stage[r] = "delay"
  /\ \/ W!Delay(r) /\ \E what \in {"created", "error"} : Answer(r, what)
     \/ UNCHANGED backend /\ Answer(r, "error")
  /\ UNCHANGED <<defects, who>>

WebDies(r) ==
  /\ stage[r] \in {"authenticate", "check"}
  /\ Refuse(r, "error")
  /\ UNCHANGED backend

View(r) == Authenticate(r) \/ Check(r) \/ Delay(r) \/ WebDies(r)

-----------------------------------------------------------------------------
(* The workers.  Of the client ids that the serializer takes, "bare" ones do *)
(* not fit the worker's pattern.                                            *)

UserFits(p) == W!User(p) => (end'[job[p]] = "no_user") = (who[job[p]] = "bare")

Prepare(p) == W!Prepare(p) /\ UserFits(p) /\ UNCHANGED api
Take(p) == W!TakeOne(p) /\ UNCHANGED api
Command(p) == W!CommandEnds(p) /\ UNCHANGED api
Report(p) == W!Report(p) /\ UNCHANGED api
Limit(p) == W!Limit(p) /\ UNCHANGED api
Crash(p) == W!Crash(p) /\ UNCHANGED api

Work(p) == Take(p) \/ Prepare(p) \/ Command(p) \/ Report(p) \/ Limit(p) \/ Crash(p)

Next == \/ \E r \in Requests : Send(r) \/ View(r)
        \/ \E p \in Processes : Work(p)

\* Web processes are restarted and run; the workers as in Worker.
Fairness == /\ \A r \in Requests : WF_vars(View(r))
            /\ \A p \in Processes : /\ WF_vars(Take(p))
                                   /\ WF_vars(Prepare(p) \/ Report(p))
                                   /\ WF_vars(Limit(p))

Spec == Init /\ [][Next]_vars /\ Fairness

-----------------------------------------------------------------------------
(* What Roller promises.                                                   *)

Settled == {"ok", "bad_request", "forbidden", "not_found", "not_allowed"}

\* What a client can conclude from its answer, and so when it may repeat its
\* request: 201 says that there is a job, every other answer but a 500 that
\* there is none and never will be; only a 500 or no answer leaves it open.
AnswerTellsTruth ==
  \A r \in Requests : /\ answer[r] = "created" => end[r] # "new"
                      /\ answer[r] \in Settled => end[r] = "new"

\* A command is called only on a request of a caller that Taskcluster has
\* vouched for, for an admitted task and a managed host, whatever happens on
\* the way from the view through the queue to the worker.
CommandNeedsAdmission ==
  \A r \in Requests : calls[r] > 0 =>
    /\ who[r] = "user" /\ defects[r] \subseteq {"host"}
    /\ defects[r] = {"host"} => task[r] = "ping"

\* Behind the API, too, a job goes through what Delivery promises and no more:
\* each request is at most one job, queued, begun, called and ended once.
D == INSTANCE Delivery WITH Jobs <- Requests
ImplementsDelivery == D!Spec

\* A request is answered or its connection is lost, and a job that a client was
\* told of comes to an end.
RequestsEnd ==
  \A r \in Requests : /\ stage[r] # "idle" ~> stage[r] = "over"
                      /\ answer[r] = "created" ~> end[r] \in W!Failures \cup {"done"}
=============================================================================

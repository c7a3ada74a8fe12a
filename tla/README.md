# A TLA+ model of the RelOps hardware controller ("roller")

Roller reboots machines of Mozilla's test fleet. A web API accepts a job for
one machine, a Redis queue hands it to a Celery worker, and the worker tries
ssh, IPMI, a PDU, an iLO or a Xen server until the machine has gone down and
come up again, or files a bug. This directory models that behaviour, checks it
with TLC on small instances and proves the most important results with TLAPS.

Paths below are relative to `src/relops_hardware_controller/`; commands are in
`api/management/commands/`.

## 1. The system

### Parts

| Part | State it keeps | Operations | Right when |
|---|---|---|---|
| Reboot command (`reboot.py`) | place in the method list, the local `hostname`, two attempt logs, start of the current wait | try a method, poll the pings, note a failure, give up | reports only real reboots, ends, records all it tried, stops at the soft limit, files a bug when it gives up |
| Power drivers (`ssh_reboot.py`, `ipmi.py`, `ipmitool.py`, `snmp_reboot.py`, `ilo_reboot.py`, `xenapi_reboot.py`) | which request comes next; the Xen session | one to three requests to a device, with a sleep between off and on | the machine is not left off, a normal return means that it has started anew, the soft limit is handed on |
| Bug filing (`file_bugzilla_bug.py`) | ids of the tracker and the bug | GET/PUT/POST of the tracker, search, POST, PUT of the bug | the report arrives, one open bug per machine, linked to the tracker |
| Workers (`celery.py`) | the queue; each process's job and log level | take, resolve, load, announce, call, mute, mail, IRC, unmute | no command runs twice, every job ends, what ends has been reported |
| API (`api/views.py`, `urls.py`) | none (the queue) | accept or refuse one request | its answer tells what became of the request |
| Authentication, scopes (`api/authentication.py`, `permissions.py`, `models.py`, `decorators.py`) | none | ask Taskcluster, compare scopes | only an authorised caller gets a job queued |
| Serializer, validators (`api/serializers.py`, `validators.py`) | none | check names | only names in `TASK_NAMES` |
| Xen session (`XenAPI.py`, vendored) | session id, last login | login, request with re-login, logout | retries end, sessions are closed, no command is repeated |
| Ping (`ping.py`) | none | one `ping` subprocess | answers within its timeout |
| Registration (`register_tc_actions.py`) | none | validate, send one request | the URL it sends is one the API has |
| Settings, start-up (`settings.py`, `apps.py`, `wsgi.py`, `bin/run.sh`) | constants | start | - |

### How they interact

`views.queue_job_create` calls `celery_call_command.delay`. A process of the
worker pool takes the task, loads the management command and calls it; for
`reboot` that command calls the driver commands and `ping` in the same process.
The command gets the host name and the job data as JSON; from `reboot`, the
drivers get arguments of their own. Nothing is shared between two jobs but the outside: the machine with its power
switch, Bugzilla, Taskcluster's Notify, and, for tasks that run one after the
other in one process, that process's log level. Celery raises
`SoftTimeLimitExceeded` in the task after `CELERY_TASK_SOFT_TIME_LIMIT` (600 s),
as an exception at whatever line is running, and kills the process after
`CELERY_TASK_TIME_LIMIT` (1200 s).

### What is hard

- The soft limit is an ordinary `Exception`: every `except Exception` between it
  and the reboot loop may take it for a failure of a device.
- The check after a method sees the machine only through pings a second or more
  apart, which may get lost, while the machine goes down and up when it likes.
- Jobs for one machine run at the same time, on its power switch and on its bugs.
- Requests fail after they had their effect; processes die between off and on.
- The queue acknowledges early: a dead process's job is gone.
- The broker may have queued a job whose `delay()` raises, and the web process may
  die before it answers.
- A Xen server may end a session at any time; a request then logs in again, with
  requests that may themselves have to log in again.

PROJECT.json lists these hazards one by one with their lines and the properties
that cover them.

## 2. The modules

| Module | Models | Extended by |
|---|---|---|
| `Roller` | the API (`views.py`, `urls.py`, `authentication.py`, `permissions.py`, `serializers.py`) in front of the workers | `MCRoller`, `RollerProofs` |
| `Worker` | `celery.py`, for any number of jobs and processes | `MCWorker`, `WorkerProofs` |
| `Delivery` | what the queue and the workers promise of each job: the abstract specification that `Worker` and `Roller` implement | (instance in `Worker` and `Roller`) |
| `Reboot` | `reboot.py` and `ping.py`, with the two limits and explicit time | `MCReboot`, `RebootProofs` |
| `Escalation` | what `Reboot` promises, without time: the abstract specification it implements | (instance in `Reboot`) |
| `PowerDrivers` | the driver commands, for any number of calls on one machine | `MCPowerDrivers`, `PowerDriversProofs` |
| `XenSession` | `XenAPI.py` under one call of `xenapi_reboot`: it implements the Xen driver of `PowerDrivers` | `MCXenSession`, `XenSessionProofs` |
| `FileBug` | `file_bugzilla_bug.py`, for any number of jobs about one machine | `MCFileBug`, `FileBugProofs` |

The split follows the atomicity of the code. In `Worker` a whole command is one
call; in `Reboot` a driver call is one wait of bounded length that returns, raises
or is interrupted; `PowerDrivers` and `FileBug` open it up into requests, where it
interleaves with other jobs; `XenSession` opens up a request of the Xen driver.
The levels are tied together:

- `Roller` has an `INSTANCE` of `Worker` for its backend: every step of it is one of
  `Worker` or of the view, and `RollerProofs` takes what holds of the workers from
  `WorkerProofs`.
- `XenSession` implements `PowerDrivers` for one job on a Xen guest
  (`ImplementsDriver`), so what is shown there of the Xen driver holds with all
  retries and logins.
- `Reboot` implements `Escalation` (`ImplementsEscalation`).
- `Worker` implements `Delivery` (`ImplementsDelivery`): accepted, begun, called at
  most once, ended, by steps that touch one job each. `Roller` does so too.
- `FileBug` takes the number of jobs that run at once as a constant, `Workers`.
  `PoolBoundsTheRunning` shows that the workers keep it: it is the number of
  processes.
- The outcomes that a driver may have in `PowerDrivers` (returned, raised,
  interrupted, killed) are those that `Reboot` gives it, and the drivers of
  `Reboot!Swallowing` are those that `LimitComesOut` excludes, together with
  `file_bugzilla_bug`.

### Roller

`stage[r]` is where the view is with request `r`, `defects[r]` what is wrong with
the request (a method, a task name, a host, another field), `who[r]` the caller as
Taskcluster describes it, `answer[r]` the client's. A request is handled in one go
but for the calls to Taskcluster and to the broker. `queue`, `task` and `end` are
shared with `Worker`: a request is the job it may become. `error` is a 500 or a
lost connection, which a client cannot tell apart for its purposes. Clients and
Taskcluster are external; a client that repeats a request is one more request.

`HostAllowed`, `IsValid`, `HasScopes` and `UserFits` are the checks in the order in
which the code makes them: scopes in the permission classes, the host in the view,
the rest in the serializer, the pattern of the user's name not before the worker.
Assumed of Django REST framework: the view authenticates before it looks at the
method, and the inner view reuses the outer one's user, as the repository's tests
assume. Assumed of Celery: no reserved task waits for longer than Redis' visibility
timeout (one hour), and its retry of a publication does not duplicate it.

### XenSession

`frames` are the calls of `xenapi_request` in progress, the innermost first: each
has its `retry_count` and, in a login, how many of the four version requests it
still has to make. `doing` is what the innermost does: send, log in, or bind the
result of the login. `held` is `self._session` (with what the server knows of it),
`method` whether `last_login_method` is set. `missed` and `stray` are for
`NoSessionLeftBehind`: whether a login, the few steps from it into the block or a
logout was cut short, and whether the server has a session that nobody holds. `Seen` maps the client to the `session`
of `PowerDrivers`; a request with all its retries is one step there.
`MaxDepth` stands for Python's recursion limit.

### Reboot

`pc` is the place in `Command.handle`: `start` (lookup), `next` (top of the
loop), `call` (inside `call_command`), `down` and `up` (the two
`wait_for_state`), `done`. `i` is the loop's index, `target` the local
`hostname`, `log` and `shortLog` the two attempt logs as sets of method indices
(each attempt adds one line), `bug` the log handed to `file_bugzilla_bug`.

Time is explicit. `clock` is the seconds since the task began, `waitStart` the
`start` of `wait_for_state`. A step that waits adds its duration, and can finish
only by the deadline in force; where a wait reaches over the deadline, the limit
cuts in instead. Durations come from constant sets, because a ping or a driver
call has a timeout of its own; `MaxCall`, `MaxDownProbe`, `MaxUpProbe` bound
them. `clock` is therefore bounded by the limits and needs no further cap.

`machine` is the environment: it goes down and comes up at any moment, for an
effect of a command may be late, absent or somebody else's. `wentDown` remembers
whether it was down at some time since the last command was issued. `LossyPing`
says whether a running machine's ping may get lost.

`limitHit` is true once a driver has swallowed the soft limit: from then on only
the hard one is left. Small windows outside the loop's `try` are one action,
`SoftLimitBetweenMethods`. The lookup's and the loop's own computation take no
time. `begun` is history: the clock when the last command was issued, from which
`NoMethodOverruns` counts what each method takes. A method may take `MaxCall` more
than its budget only if its own command was issued before the soft limit and its
driver, `ilo_reboot` or `xenapi_reboot`, swallowed it.

### PowerDrivers

`pc[j]` is the request job `j` makes next. A request is answered, fails with or
without effect, or is struck by the soft limit with or without effect, at most
once in a job (`limited`). `power`, `everOn`, `owes` and `restarted` belong to the
device: `owes` are the jobs that turned the power off and have not turned it on
again, `restarted` those during whose calls the machine has started anew, by their
own doing or another job's. Turning off what is off, or on what is on, starts
nothing. One switch stands for PDU, iLO and Xen
because a machine has one of them (`Fleets`: the drivers per kind of machine).
`xen_session` keeps its `finally`: `pending` is how the block ended, and an
exception of the logout takes its place. The soft limit between the two `try` of
`xen_session` escapes without a logout (`XenLogin`, and `StruckBeforeBlock` in
`XenSession`): such a session is `lost`, like that of a killed process.

`typed` and `argument` are for `ipmi.py`: whether the BMC has a known type, and
whether `ipmi` is called with the name of a command (from `reboot`, which passes
`ipmi_reset` and the like, and from the command line) or with the JSON of the API.
`ipmi_off`, which only the command line can name, is told from the other names: it
is meant to leave the machine off, and `AllReturnedMeansOn` excepts it.

Not told apart: the forms of exceptions other than the soft limit, output texts,
command-line arguments.

### FileBug

One action per HTTP request. `tracker`, `bugs`, `reports` and `linked` are
Bugzilla's; an alias belongs to one bug, so there is one tracker. A reboot bug is
named by the job that created it, since a job posts at most once. `Faulty` says
whether requests may be rejected or raise for no reason of ours (network, soft
limit), before or after Bugzilla acted; `Workers` bounds the jobs that run at
once. `blind` are the jobs that did not see a bug that was open when they
created their own, `rejected` those whose last PUT was refused. People close bugs
at any time; that they reopen one is not modelled.

### Worker

`pc[p]` is the place of process `p` in `celery_call_command`, one label per
outside call, and `job[p]` its job. `notice[j]` says for each of a job's four
notifications whether it was sent, failed or was never tried; chunks of one IRC
result are one notification. `message[j]` tells text from an object without
`replace`, which is all that the reporting code depends on. The soft limit
appears in three forms: inside the command, inside a notification's `try`, and
between the `try` blocks. `Kill` resets what a fresh process has fresh; `ran[p]`
remembers the jobs a process has run. The queue keeps no order, because
processes of several workers take from it. `ipmi` stands for all `ipmi_*` names,
which load one command.

### Variants in the modules

Some operators (`SameMethod`, `SearchOwn`, `MuteThenSave`, ...) are not used by
the specification. Each stands next to the definition it varies and is what that
definition would be if the code had a plausible bug there: a reset forgotten, an
exception clause too wide, two lines swapped. PROJECT.json names, for each
property, the variant under which TLC finds it violated: the property really
depends on that line of code.

## 3. What is checked

| Run | Instance | Shows |
|---|---|---|
| `reboot` | 5 methods of each kind (plain, needing a PDU, with an entry of its own, giving up), 4 shapes of server entry, soft limit 10, hard limit 30 | `RecordIsHistory`, `QuietAfterSoftLimit`, `RebootIsReal`, `NoMethodOverruns`, `NoIdleStep`, `JobEnds`, `ImplementsEscalation` |
| `reboot_budget` | 4 methods, one unknown, lossy pings, 4 x 9 s of budget under a limit of 37 | `NoLimitMet`, `GiveUpFilesBug` |
| `reboot_default` | the default methods and timeouts, in seconds | `GiveUpFilesBug` is violated |
| `reboot_ilo` | `ilo_reboot` alone | `ChecksTheMachine` is violated |
| `filebug` | 2 jobs, 2 workers, failing Bugzilla | what a normal return guarantees, where duplicates come from |
| `filebug_busy` | 4 jobs, 2 workers, Bugzilla answers | `NoMoreBugsThanWorkers` |
| `filebug_race` | 2 jobs, 2 workers, Bugzilla answers | `AtMostOneOpenBug` is violated |
| `power_drivers` | 2 calls on a Mac mini, an HP server or a Xen guest | `AllReturnedMeansOn`, `LimitComesOut`, `ReturnMeansRestarted`, `SessionIsReleased` |
| `worker` | 2 jobs, 2 processes, 3 task names, crashes | `NeverCalledTwice`, `DoneMeansReported`, `MutedOnlyByInterruption`, `JobInOnePlace`, `JobsOnlyAdvance`, `EveryJobEnds`, `ImplementsDelivery` |
| `roller` | 2 requests (one for a ping, one for a reboot) with every subset of defects, 1 process | `AnswerTellsTruth`, `CommandNeedsAdmission`, `RequestsEnd`, `ImplementsDelivery` |
| `xen_session` | 1 call, logins nested up to `MaxDepth = 3` | `NoSessionLeftBehind`, `EveryStepDescends`, `CallEnds`, `ImplementsDriver` |
| `ipmi_api` | 2 calls of `ipmi`, by name or with JSON, typed BMC or not | `SameViaApi` is violated |

### Bounds

- Reboot: the timeouts (2 and 3 s) allow several polls and a timeout in each
  wait, and the soft limit falls, over the choices of durations, into every label
  and every method. Five methods suffice for a skip, a failure, a swallowed limit
  and a success in every order that the list allows. The default run uses
  the real numbers. In `reboot` there are methods on both sides of the one that swallows
  the soft limit, and the hard limit is late enough for that one to run to its end and
  early enough to kill the ones after it: `NoMethodOverruns` is checked with and
  without the call that went on.
- FileBug and PowerDrivers: two jobs are enough for each pair of requests to
  interleave; the proofs cover any number. `filebug_busy` has four jobs for two
  workers, so that two of them search after the race of the others is over. One worker, and so one bug, is the
  case `OneWorkerOneBug` of the proofs.
- Roller: two requests, so that one may pass and the other fail every check, and one
  process, so that one job waits behind the other.
- XenSession: depth 3 is a login within a login within the driver's request; deeper
  nesting repeats the same frame. The proofs cover every depth.
- Worker: two processes for two holders of a job, two jobs for one task's effect
  on the next. Nothing else is bounded.

Deadlock is checked for `Reboot`, whose machine never stops. The other systems
stop when all jobs have ended (for `FileBug`: and all bugs are closed), so their
configurations say `CHECK_DEADLOCK FALSE`.

### Fairness

`Reboot` assumes weak fairness of the job's steps: the operating system
schedules the process, sleeps and subprocesses end or run into their timeout, and
Celery's timers fire. Nothing is assumed of the machine. `Worker` assumes that
idle processes are fed, that the task code runs on, and that the limits' timers
fire; it does not assume that a command ends. `Roller` adds that web processes run;
a request to Taskcluster or to the broker is answered or raises in the end.
`XenSession` assumes that the process runs: a request that is not answered meets the
limits. `FileBug` and `PowerDrivers` are checked for safety only and state no
fairness.

### Findings

1. With the default timeouts the soft limit ends a job before it can "give up and
   file a bug" (`reboot_default`).
2. `reboot.py:145` overwrites `hostname`; the check after `ilo_reboot` pings the
   iLO interface (`reboot_ilo`).
3. Two workers can open two bugs for one machine (`filebug_race`).
4. `celery.py:101` hands every command the job data as JSON. For the `ipmi_*` tasks
   `ipmi.py` takes it for the name of the IPMI command, so that such a task does not
   do through the API what it does from the command line (`ipmi_api`).

Without a run of their own, because a single step shows them: the status of the PUT
at `file_bugzilla_bug.py:132` is only logged (`rejected` in `FileBug`, an exception
in `ReportArrives` and `FiledBugIsLinked`), and `TASK_NAMES` admits status, reimage,
loan and return_loan, for which there is no command (`no_command` in `Worker`).

`MutedOnlyByInterruption`, `LimitComesOut` and `DoneMeansReported` hold only with
the exceptions their text names: the log level has no `finally`, two drivers
swallow or mask the soft limit, and IRC never hears of a failure without output.
`JobInOnePlace` does not say that no job is lost: with the early acknowledgement a
killed one is, and is then nowhere. `RebootIsReal` excepts lost pings, for one lost
ping is enough to report a reboot that did not happen, and `FiledBugIsLinked` a job
that never learnt the tracker's id; PROJECT.json lists these as hazards that no
property rules out.

## 4. What is proved

For all values of the constants allowed by the named assumptions (times are
natural numbers, intervals are positive, the soft limit is below the hard one;
the set of jobs is finite for `FileBug`; `MaxDepth` is positive).

| Module | Theorems | Argument |
|---|---|---|
| `RebootProofs` | `TypeSafety`, `RecordIsComplete`, `RebootIsConfirmed`, `NoCommandAfterSoftLimit`, `MethodsEndInTime`, `BudgetKeepsTheLimits`, `GivingUpFilesABug`, `JobsEscalate`, `NoStepIsIdle` | The typing carries that the index is inside the list while a method is tried. The record invariant says that both logs equal the attempts owed at `i`. A confirmed reboot needs that in `up` the machine was down since the command, which a ping can tell only if none is lost. `InBudget` bounds at each label the time since the method's command (`begun`) by the parts of its budget used up so far, plus one call if its own driver has swallowed the limit; it holds wherever the limits strike and gives `MethodsEndInTime`. `Schedule` adds up the budgets of the methods behind the current one and bounds `clock` as long as no limit was swallowed. `BudgetKeepsTheLimits` follows: a clock that never reaches the soft limit meets none. It is linear arithmetic once `AttemptBudget * i` is bounded. `JobsEscalate` shows step by step that a failure is `TryInVain`, a skip `PassOver`, an end `Finish`, and anything else a stutter. `NoStepIsIdle` goes through the steps once more: each takes time or lowers `StepsLeft`, which is at most 4 per method and 6, and the clock is at most the hard limit. |
| `FileBugProofs` | `TypeSafety`, `DuplicatesAreExplained`, `OneWorkerOneBug`, `DuplicatesAreBounded`, `FiledBugsExist`, `ReportsArrive`, `FiledBugsAreLinked` | An open bug whose creator is not blind was there alone when it was created. With one worker at most one job is busy, so between its search and its POST nothing opens a bug. With more of them the open bugs and the jobs about to create one (`Stakes`) are counted together: a search comes out empty only while no bug is open, and then all stakes are running jobs, so `Capacity` is kept; the counting uses the library's theorems on finite sets. A job holds one bug at most, and one it holds exists: the PUT that names it is what ties it to the report and to the tracker. |
| `PowerDriversProofs` | `TypeSafety`, `NobodyLeavesItOff`, `LimitIsSeen`, `NormalReturnRestarts`, `NoOpenSession` | The ledger: if the machine has had power and has none now, some job owes it; a job that owes has not returned. `owes` is needed because "somebody is between off and on" says not who turned it off. `OffIsIpmi` keeps `ipmi_off` out of the other drivers. The other three are one invariant, `Books`. `NormalReturnRestarts` is the part of it that other calls could break: a job between its off and its on can rely on the machine being off or having started anew since, for whoever turns it on starts it during this job's call too (`RestartsAreSeen`); so a normal "on" either starts it or finds it started. |
| `XenSessionProofs` | `XenTypeSafety`, `NothingLeftBehind`, `SessionRefinesDriver`, `StepsDescend` | `Sound` relates label, session and method whatever the frames hold; with it every step is one of the driver or a stutter. `Tidy`: without a missed call nothing is stray and a session held can be closed. `Counts` bounds the retries in every frame. For `StepsDescend` each depth has a number of steps ahead (`Ahead`, at most 79); a step lowers the one at its depth and may raise only deeper ones, of which there are `MaxDepth` at most: a lexicographic descent. |
| `WorkerProofs` | `TypeSafety`, `CommandsAreCalledOnce`, `MutingIsExplained`, `DoneIsReported`, `JobsStayInOnePlace`, `PoolBoundsTheRunning`, `WorkersDeliver`, `JobsAdvance` | One invariant: a running job has one holder and is not queued; it has no call before `call`; a level or a saved level that is critical is explained by an interrupted job. The last two need the first, for an interrupted job must stay one. `DoneIsReported` says at each label which notifications lie behind it, and uses that no two processes have the same job. `LifeInv` adds that a running job has a holder and that one past `call` was called once: with it every step of a process ends its job or moves it on (`Step`), which is a step of `Delivery` or none. The process of a running job maps the pool onto the running jobs, hence `PoolBoundsTheRunning` (for a finite pool). `JobsStayInOnePlace` joins both: the broker has who waits and nobody else, and a running job has exactly one holder. `JobsAdvance` gives each job the steps its holder has ahead, at most 13, which only its holder changes. |
| `RollerProofs` | `RollerTypeSafety`, `AnswersAreTrue`, `CommandsAreAdmitted`, `WorkersBehindTheApi`, `RollerDelivers` | The backend keeps the invariant of `WorkerProofs`, since every step is one of the workers or leaves them alone. A job is new until its request is at `delay`; one that is not new has passed the checks, which are still in `defects` and `who`, and has been called only past the user's pattern. The last two take over the invariants and the refinement of `WorkerProofs` for the composed system. |

Model-checked only: `JobEnds`, `EveryJobEnds`, `RequestsEnd` and `CallEnds`, which
are liveness under fairness and out of the prover's reach. Their safety half is
proved: `NoIdleStep`, `JobsOnlyAdvance` and `EveryStepDescends`, with the bounds in
their theorems, say that a job or a call can take only so many steps. What is left
to TLC is that a step is enabled and taken until the end. No module uses a
recursive operator.

## 5. Not modelled

- `register_tc_actions.py`: one sequential command without state. For every task
  with a command it calls `reverse()` with a `worker_group` that the URL pattern of
  `api/urls.py:11` no longer has and ends in `NoReverseMatch` (line 98); the others
  end in the failure to load the command. There is no second step to interleave.
- Start-up (`apps.py`, `wsgi.py`, `bin/run.sh`, `manage.py`) starts the processes and
  reads Redis once.
- Django and DRF configuration, CORS headers, Docker, message texts, templates,
  logging (but for its level) and output formats: no state that a property depends
  on.
- An abstract specification for `FileBug`. Its requests are not one step even with
  one worker (people close bugs between them), so what it promises is stated as
  invariants.

## 6. Where to go on

A change of the code belongs first into the module that names its lines in
PROJECT.json's `map`, then into the proof of the step it changes. Worth adding when
the code gets there: a lock per machine (`AllReturnedMeansOn` would lose its
exceptions and `DuplicateIsExplained` its race), a `finally` around the log level
(`MutedOnlyByInterruption` becomes "never muted"), and an acknowledgement after the
task (then `NeverCalledTwice` is the property to watch).

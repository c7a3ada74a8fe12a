---------------------------- MODULE PowerDrivers ----------------------------
(***************************************************************************)
(* The drivers behind the reboot methods: ssh_reboot, ipmi (with ipmitool), *)
(* snmp_reboot with and without a delay, ilo_reboot and xenapi_reboot, as  *)
(* any number of jobs call them on one machine at the same time.  Each     *)
(* driver is a few requests to a device (sshd, BMC, PDU, iLO, Xen server). *)
(*                                                                         *)
(* A request is answered; or it fails, with or without having acted; or    *)
(* the soft limit strikes during it, once in a job's life; or the process  *)
(* dies (hard limit, crash).  The devices are external: one power switch   *)
(* stands for all of them, for a machine has one of PDU, iLO or Xen.       *)
(***************************************************************************)
EXTENDS Naturals

CONSTANTS
  Jobs,    \* the calls of drivers for this machine
  Fleets   \* for each kind of machine, the drivers it can be rebooted with

ASSUME FleetsAssumption ==
  UNION Fleets \subseteq {"ssh", "ipmi", "pdu", "pdu_delay", "ilo", "xen"}

VARIABLES
  pc,        \* the request each job makes next, or how it ended
  driver,    \* the driver it calls
  typed,     \* has the machine's BMC a known type in the IPMI configuration?
  argument,  \* what ipmi is called with: ipmi_off, another name, or job_data
  pending,   \* how its xen_session block ended
  session,   \* its Xen session
  limited,   \* the jobs that the soft limit has struck
  power,     \* the machine's power
  everOn,    \* has the machine had power at any time?
  owes,      \* the jobs that turned it off and have not turned it on since
  restarted  \* the jobs during whose calls it has been started anew

given == <<driver, typed, argument>>
locals == <<given, pending, session>>
device == <<power, everOn, owes, restarted>>
vars == <<pc, locals, limited, device>>

Off == {"pdu_off", "pdu_wait", "pdu_on", "ilo_off", "ilo_wait", "ilo_on",
        "xen_clean", "xen_hard", "xen_wait", "xen_start"}
Ended == {"returned", "raised", "interrupted", "killed"}
Labels == Off \cup Ended \cup
          {"idle", "ssh_reboot", "ssh_shutdown", "ipmitool", "pdu_reboot",
           "ilo_status", "ilo_reset", "xen_login", "xen_find", "xen_logout"}
FirstMisspelt == [ssh |-> "ssh", ipmi |-> "ipmitool", pdu |-> "pdu_reboot",
                  pdu_delay |-> "pdu_off", ilo |-> "ilo_status", xen |-> "xen_login"]
First == [ssh |-> "ssh_reboot", ipmi |-> "ipmitool", pdu |-> "pdu_reboot",
          pdu_delay |-> "pdu_off", ilo |-> "ilo_status", xen |-> "xen_login"]

TypeOK ==
  /\ pc \in [Jobs -> Labels]
  /\ driver \in [Jobs -> DOMAIN First]
  /\ typed \in BOOLEAN /\ argument \in [Jobs -> {"name", "off", "json"}]
  /\ pending \in [Jobs -> Ended]
  /\ session \in [Jobs -> {"none", "open", "closed", "lost"}]
  /\ limited \subseteq Jobs
  /\ power \in {"on", "off"} /\ everOn \in BOOLEAN
  /\ owes \subseteq Jobs /\ restarted \subseteq Jobs

Init ==
  /\ pc = [j \in Jobs |-> "idle"]
  /\ \E kinds \in Fleets : driver \in [Jobs -> kinds]
  /\ typed \in BOOLEAN
  /\ argument \in [Jobs -> {"name", "off", "json"}]
  /\ \A j \in Jobs : argument[j] # "name" => driver[j] = "ipmi"
  /\ pending = [j \in Jobs |-> "returned"]
  /\ session = [j \in Jobs |-> "none"]
  /\ limited = {}
  /\ power \in {"on", "off"} /\ everOn = (power = "on")
  /\ owes = {} /\ restarted = {}

Goto(j, label) == pc' = [pc EXCEPT ![j] = label]

\* The arguments are parsed and checked before anything is sent.
Start(j) ==
  /\ pc[j] = "idle"
  /\ Goto(j, First[driver[j]]) \/ Goto(j, "raised")
  /\ UNCHANGED <<locals, limited, device>>

-----------------------------------------------------------------------------
(* What the devices do.  sshd and the reset of an iLO need a running       *)
(* machine, Xen halts what runs and starts what does not.                  *)

Running == {j \in Jobs : pc[j] \notin Ended \cup {"idle"}}

\* The machine starts anew, which every call in progress has lived to see.
Restart == /\ power' = "on" /\ everOn' = TRUE
           /\ restarted' = restarted \cup Running

TurnOff(j) == /\ power' = "off" /\ owes' = owes \cup {j}
              /\ UNCHANGED <<everOn, restarted>>

\* Turning on what somebody else has turned on already does nothing.
TurnOn(j) == /\ IF power = "off" THEN Restart
                                 ELSE UNCHANGED <<power, everOn, restarted>>
             /\ owes' = owes \ {j}

\* A type maps the names of commands to the words of ipmitool.  Without one the
\* name is taken apart into its letters, and the API's JSON is no name.
Understood(what) == typed /\ what # "json"

\* What the BMC does for ipmi_off; for ipmi_on, reset or cycle; and for the rest.
Bmc(j) == /\ Understood(argument[j])
          /\ \/ argument[j] = "off" /\ TurnOff(j)
             \/ argument[j] = "name" /\ Restart /\ UNCHANGED owes
             \/ argument[j] = "name" /\ UNCHANGED device

Effect(j, command) ==
  \/ command = "reset" /\ power = "on" /\ Restart /\ UNCHANGED owes
  \/ command = "outlet" /\ Restart /\ UNCHANGED owes
  \/ command = "bmc" /\ Bmc(j)
  \/ command = "off" /\ TurnOff(j)
  \/ command = "on" /\ TurnOn(j)
  \/ command = "halt" /\ power = "on" /\ TurnOff(j)
  \/ command = "start" /\ power = "off" /\ TurnOn(j)

NotStruck(j) == /\ j \notin limited
                /\ limited' = limited \cup {j}

\* j, at a label, sends a command to a device: where its answer, its failure
\* and the soft limit lead.
Request(j, at, command, answered, failed, struck) ==
  /\ pc[j] = at
  /\ \/ Effect(j, command) /\ Goto(j, answered) /\ UNCHANGED limited
     \/ /\ Effect(j, command) \/ UNCHANGED device
        /\ \/ \E label \in failed : Goto(j, label) /\ UNCHANGED limited
           \/ NotStruck(j) /\ Goto(j, struck)

\* time.sleep between off and on.
Sleep(j, at, next) ==
  /\ pc[j] = at
  /\ \/ Goto(j, next) /\ UNCHANGED limited
     \/ NotStruck(j) /\ Goto(j, "interrupted")
  /\ UNCHANGED device

-----------------------------------------------------------------------------
(* ssh_reboot: only CalledProcessError leads on to the second command, a   *)
(* TimeoutExpired escapes.                                                 *)

SshShutdownQuiet(j) ==
  Request(j, "ssh_shutdown", "reset", "returned", {"returned", "raised"}, "interrupted")
SshShutdown(j) ==
  Request(j, "ssh_shutdown", "reset", "returned", {"raised"}, "interrupted")

Ssh(j) ==
  /\ \/ Request(j, "ssh_reboot", "reset", "returned", {"ssh_shutdown", "raised"},
                "interrupted")
     \/ SshShutdown(j)
  /\ UNCHANGED locals

(* ipmitool: every failure is taken for a success, but for the soft limit. *)

IpmitoolBlanket(j) ==
  Request(j, "ipmitool", "bmc", "returned", {"returned"}, "returned")
Ipmitool(j) ==
  Request(j, "ipmitool", "bmc", "returned", {"returned"}, "interrupted")

Ipmi(j) == Ipmitool(j) /\ UNCHANGED locals

(* snmp_reboot: the PDU cycles the outlet itself, or is told off and on.   *)

Snmp(j) ==
  /\ \/ Request(j, "pdu_reboot", "outlet", "returned", {"raised"}, "interrupted")
     \/ Request(j, "pdu_off", "off", "pdu_wait", {"raised"}, "interrupted")
     \/ Sleep(j, "pdu_wait", "pdu_on")
     \/ Request(j, "pdu_on", "on", "returned", {"raised"}, "interrupted")
  /\ UNCHANGED locals

(* ilo_reboot: whatever reset_server raises, the soft limit included,      *)
(* leads to the hard power cycle.                                          *)

IloStatus(j) ==
  /\ pc[j] = "ilo_status"
  /\ \/ Goto(j, "ilo_reset") /\ UNCHANGED limited
     \/ Goto(j, "raised") /\ UNCHANGED limited
     \/ NotStruck(j) /\ Goto(j, "interrupted")
  /\ UNCHANGED device

IloOnInTry(j) ==
  Request(j, "ilo_on", "on", "returned", {"returned"}, "interrupted")
IloOn(j) ==
  Request(j, "ilo_on", "on", "returned", {"raised"}, "interrupted")

Ilo(j) ==
  /\ \/ IloStatus(j)
     \/ Request(j, "ilo_reset", "reset", "returned", {"ilo_off"}, "ilo_off")
     \/ Request(j, "ilo_off", "off", "ilo_wait", {"raised"}, "interrupted")
     \/ Sleep(j, "ilo_wait", "ilo_on")
     \/ IloOn(j)
  /\ UNCHANGED locals

-----------------------------------------------------------------------------
(* xenapi_reboot.                                                          *)

\* xen_session swallows what the login raises, the soft limit included.  The
\* session may be open all the same: _login reads the version after it.  After
\* the except clause and before the try the limit escapes, without a logout.
XenLogin(j) ==
  /\ pc[j] = "xen_login"
  /\ \/ /\ session' \in {session, [session EXCEPT ![j] = "open"]}
        /\ UNCHANGED limited \/ NotStruck(j)
        /\ Goto(j, "xen_find")
     \/ /\ session' \in {session, [session EXCEPT ![j] = "lost"]}
        /\ NotStruck(j) /\ Goto(j, "interrupted")
  /\ UNCHANGED <<given, pending, device>>

\* As it would be without the finally.
LeaveAtOnce(j, how) == /\ Goto(j, how)
                       /\ UNCHANGED pending

\* Leaving the "with" block, by its end or by an exception, for the finally.
Leave(j, how) == /\ Goto(j, "xen_logout")
                 /\ pending' = [pending EXCEPT ![j] = how]

\* Without a session the server refuses, and there is nothing to log in with.
XenFind(j) ==
  /\ pc[j] = "xen_find"
  /\ \/ session[j] = "open" /\ Goto(j, "xen_clean") /\ UNCHANGED <<pending, limited>>
     \/ Leave(j, "raised") /\ UNCHANGED limited
     \/ NotStruck(j) /\ Leave(j, "interrupted")
  /\ UNCHANGED <<given, session, device>>

\* Whatever clean_shutdown raises, the soft limit included, leads to the hard one.
XenClean(j) ==
  /\ Request(j, "xen_clean", "halt", "xen_wait", {"xen_hard"}, "xen_hard")
  /\ UNCHANGED locals

XenRequest(j, at, command, answered) ==
  /\ pc[j] = at
  /\ \/ Effect(j, command) /\ UNCHANGED limited
        /\ IF answered = "xen_logout" THEN Leave(j, "returned")
           ELSE Goto(j, answered) /\ UNCHANGED pending
     \/ /\ Effect(j, command) \/ UNCHANGED device
        /\ \/ Leave(j, "raised") /\ UNCHANGED limited
           \/ NotStruck(j) /\ Leave(j, "interrupted")
  /\ UNCHANGED <<given, session>>

XenWait(j) ==
  /\ pc[j] = "xen_wait"
  /\ \/ Goto(j, "xen_start") /\ UNCHANGED <<pending, limited>>
     \/ NotStruck(j) /\ Leave(j, "interrupted")
  /\ UNCHANGED <<given, session, device>>

\* The finally: an exception of the logout, such as the AttributeError of a
\* session never opened, takes the place of the one that was on its way.
XenLogout(j) ==
  /\ pc[j] = "xen_logout"
  /\ \/ /\ session[j] = "open"
        /\ session' = [session EXCEPT ![j] = "closed"]
        /\ Goto(j, pending[j]) /\ UNCHANGED limited
     \/ /\ session' = [session EXCEPT ![j] = IF @ = "open" THEN "lost" ELSE @]
        /\ \/ Goto(j, "raised") /\ UNCHANGED limited
           \/ NotStruck(j) /\ Goto(j, "interrupted")
  /\ UNCHANGED <<given, pending, device>>

Xen(j) == \/ XenLogin(j) \/ XenFind(j) \/ XenClean(j) \/ XenWait(j) \/ XenLogout(j)
          \/ XenRequest(j, "xen_hard", "halt", "xen_wait")
          \/ XenRequest(j, "xen_start", "start", "xen_logout")

-----------------------------------------------------------------------------
\* The worker process dies, and an open session is lost with it: the hard limit,
\* a crash, a deployment.
Kill(j) ==
  /\ pc[j] \notin Ended \cup {"idle"}
  /\ Goto(j, "killed")
  /\ session' = [session EXCEPT ![j] = IF @ = "open" THEN "lost" ELSE @]
  /\ UNCHANGED <<given, pending, limited, device>>

JobStep(j) == Start(j) \/ Ssh(j) \/ Ipmi(j) \/ Snmp(j) \/ Ilo(j) \/ Xen(j) \/ Kill(j)
Next == \E j \in Jobs : JobStep(j)
Spec == Init /\ [][Next]_vars

-----------------------------------------------------------------------------
(* What the drivers promise.                                               *)

\* However the calls of several drivers interleave, a machine that has had
\* power has it again once all of them have returned normally: only a call
\* that raised, was interrupted or was killed, or an ipmi_off, leaves it off.
AllReturnedMeansOn ==
  (\A j \in Jobs : pc[j] = "idle" \/ (pc[j] = "returned" /\ argument[j] # "off"))
    /\ everOn => power = "on"

\* Whatever the other calls do to the power in between - turn off what is off,
\* turn on what this one has just turned off, cut it again after that - a driver
\* returns normally only if the machine has started anew since its call began:
\* the same uptime before and after means an exception.  All but ipmitool, whose
\* failures are ignored ("may report failure on success").
ReturnMeansRestarted ==
  \A j \in Jobs : pc[j] = "returned" /\ driver[j] # "ipmi" => j \in restarted

\* "tasks should do the same thing when run as commands as via the API"
\* (README.md:289): what an ipmi_* task makes of its argument is what the
\* command would make of the task's name.
SameViaApi ==
  \A j \in Jobs : pc[j] = "ipmitool" =>
    Understood(argument[j]) = Understood("name")

\* The soft limit comes out of a driver as itself, except out of ilo_reboot
\* and xenapi_reboot, whose except and finally clauses swallow or mask it:
\* what the reboot command's re-raise (reboot.py:170) can rely on.
LimitComesOut ==
  \A j \in limited : pc[j] \in {"returned", "raised"} => driver[j] \in {"ilo", "xen"}

\* However the xen_session block ends, its session has been closed, or is lost
\* to a logout that failed, to the limit before the block, or with the process.
SessionIsReleased == \A j \in Jobs : pc[j] \in Ended => session[j] # "open"
=============================================================================

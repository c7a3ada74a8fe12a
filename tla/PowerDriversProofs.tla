------------------------- MODULE PowerDriversProofs -------------------------
(* Theorems about the drivers, for any machine and any number of calls.      *)
EXTENDS PowerDrivers, TLAPS

USE DEF given

\* What a device's answer can do to the ledger of who owes the power.
LEMMA EffectOnLedger ==
  ASSUME TypeOK, NEW j \in Jobs, NEW command, Effect(j, command)
  PROVE  /\ power' \in {"on", "off"} /\ everOn' \in BOOLEAN
         /\ owes' \subseteq owes \cup {j} /\ owes \subseteq owes' \cup {j}
         /\ restarted' \subseteq Jobs /\ restarted \subseteq restarted'
         /\ power = "off" => power' = "off" \/ Running \subseteq restarted'
         /\ power' = "off" /\ everOn' => j \in owes' \/ (UNCHANGED <<power, owes, everOn>>)
         /\ command \in {"reset", "outlet"} => owes' = owes
         /\ command = "bmc" => owes' = owes \/ argument[j] = "off"
         /\ command \in {"on", "start"} => j \notin owes'
BY DEF Effect, Bmc, TurnOff, TurnOn, Restart, Running, device, TypeOK

-----------------------------------------------------------------------------
LEMMA RequestTyping ==
  ASSUME TypeOK, NEW j \in Jobs, NEW at, NEW command, NEW answered \in Labels,
         NEW failed \in SUBSET Labels, NEW struck \in Labels,
         Request(j, at, command, answered, failed, struck), UNCHANGED locals
  PROVE  TypeOK'
<1>1. /\ power' \in {"on", "off"} /\ everOn' \in BOOLEAN
      /\ owes' \subseteq Jobs /\ restarted' \subseteq Jobs
  BY EffectOnLedger DEF Request, device, TypeOK
<1>2. pc' \in [Jobs -> Labels]
  BY DEF Request, Goto, TypeOK
<1>3. limited' \subseteq Jobs
  BY DEF Request, NotStruck, TypeOK
<1> QED BY <1>1, <1>2, <1>3 DEF TypeOK, locals

LEMMA TypingStep == TypeOK /\ [Next]_vars => TypeOK'
<1> SUFFICES ASSUME TypeOK, [Next]_vars PROVE TypeOK'
  OBVIOUS
<1>0. /\ Off \subseteq Labels /\ Ended \subseteq Labels
      /\ {"ssh_shutdown", "xen_find", "xen_logout", "ilo_reset"} \subseteq Labels
      /\ \A d \in DOMAIN First : First[d] \in Labels
  BY DEF Off, Ended, Labels, First
<1>1. ASSUME NEW j \in Jobs, Start(j) PROVE TypeOK'
  BY <1>0, <1>1 DEF Start, Goto, locals, device, TypeOK, Ended
<1>2. ASSUME NEW j \in Jobs, Ssh(j) PROVE TypeOK'
  BY <1>2, <1>0, RequestTyping DEF Ssh, SshShutdown, Ended
<1>3. ASSUME NEW j \in Jobs, Ipmi(j) PROVE TypeOK'
  BY <1>3, <1>0, RequestTyping DEF Ipmi, Ipmitool, Ended
<1>4. ASSUME NEW j \in Jobs, NEW at, NEW next \in Labels, Sleep(j, at, next),
             UNCHANGED locals
      PROVE  TypeOK'
  BY <1>4, <1>0 DEF Sleep, Goto, NotStruck, locals, device, TypeOK, Ended
<1>5. ASSUME NEW j \in Jobs, Snmp(j) PROVE TypeOK'
  BY <1>5, <1>0, <1>4, RequestTyping DEF Snmp, Ended, Off
<1>6. ASSUME NEW j \in Jobs, Ilo(j) PROVE TypeOK'
  <2>1. CASE IloStatus(j)
    BY <1>6, <2>1, <1>0 DEF Ilo, IloStatus, Goto, NotStruck, locals, device, TypeOK, Ended
  <2>2. CASE ~IloStatus(j)
    BY <1>6, <2>2, <1>0, <1>4, RequestTyping DEF Ilo, IloOn, Ended, Off
  <2> QED BY <2>1, <2>2
<1>7. ASSUME NEW j \in Jobs, Xen(j) PROVE TypeOK'
  <2>1. CASE XenClean(j)
    BY <2>1, <1>0, RequestTyping DEF XenClean, Off
  <2>2. CASE XenLogin(j) \/ XenFind(j) \/ XenWait(j) \/ XenLogout(j)
    BY <2>2, <1>0 DEF XenLogin, XenFind, XenWait, XenLogout, Leave, Goto, NotStruck,
       device, TypeOK, Ended, Off
  <2>3. ASSUME NEW at, NEW command, NEW answered \in Labels,
               XenRequest(j, at, command, answered)
        PROVE  TypeOK'
    <3>1. /\ power' \in {"on", "off"} /\ everOn' \in BOOLEAN
          /\ owes' \subseteq Jobs /\ restarted' \subseteq Jobs
      BY <2>3, EffectOnLedger DEF XenRequest, device, TypeOK
    <3>2. pc' \in [Jobs -> Labels] /\ pending' \in [Jobs -> Ended] /\ limited' \subseteq Jobs
      BY <2>3, <1>0 DEF XenRequest, Leave, Goto, NotStruck, TypeOK, Ended
    <3> QED BY <2>3, <3>1, <3>2 DEF XenRequest, TypeOK
  <2> QED BY <1>7, <1>0, <2>1, <2>2, <2>3 DEF Xen, Off
<1>8. ASSUME NEW j \in Jobs, Kill(j) PROVE TypeOK'
  BY <1>8, <1>0 DEF Kill, Goto, locals, device, TypeOK, Ended
<1>9. CASE UNCHANGED vars
  BY <1>9 DEF vars, locals, device, TypeOK
<1> QED BY <1>1, <1>2, <1>3, <1>5, <1>6, <1>7, <1>8, <1>9 DEF Next, JobStep

\* The variables of the drivers keep their types.
THEOREM TypeSafety == Spec => []TypeOK
<1>1. Init => TypeOK
  BY FleetsAssumption DEF Init, TypeOK, Labels, Ended, First
<1> QED BY <1>1, TypingStep, PTL DEF Spec

-----------------------------------------------------------------------------
(* What a job can rely on, whoever acts.                                    *)

\* Where a request leads, and what it may do to the ledger.
LEMMA RequestFacts ==
  ASSUME TypeOK, NEW j \in Jobs, NEW at, NEW command, NEW answered, NEW failed,
         NEW struck, Request(j, at, command, answered, failed, struck)
  PROVE  /\ \A k \in Jobs \ {j} : pc'[k] = pc[k]
         /\ \/ Effect(j, command) /\ pc'[j] = answered
            \/ /\ Effect(j, command) \/ UNCHANGED device
               /\ pc'[j] \in failed \cup {struck}
<1>1. CASE Effect(j, command) /\ Goto(j, answered)
  BY <1>1 DEF Goto, TypeOK
<1>2. CASE /\ Effect(j, command) \/ UNCHANGED device
           /\ \E label \in failed \cup {struck} : Goto(j, label)
  BY <1>2 DEF Goto, TypeOK
<1> QED BY <1>1, <1>2 DEF Request

\* No step turns a machine on unnoticed by a call in progress.
RestartsAreSeen ==
  /\ restarted \subseteq restarted'
  /\ power = "off" => power' = "off" \/ Running \subseteq restarted'

\* A step of j leaves the other jobs where they are, and tells them of a restart.
LEMMA OthersAreLeft ==
  ASSUME TypeOK, NEW j \in Jobs, JobStep(j)
  PROVE  /\ UNCHANGED given /\ RestartsAreSeen
         /\ \A k \in Jobs \ {j} :
              /\ UNCHANGED <<pc[k], pending[k], session[k]>>
              /\ k \in limited' <=> k \in limited
<1>0. UNCHANGED device => RestartsAreSeen
  BY DEF RestartsAreSeen, device
<1>1. ASSUME NEW at, NEW command, NEW answered, NEW failed, NEW struck,
             Request(j, at, command, answered, failed, struck)
      PROVE  /\ RestartsAreSeen
             /\ \A k \in Jobs \ {j} : /\ pc'[k] = pc[k]
                                      /\ k \in limited' <=> k \in limited
  <2>1. Effect(j, command) \/ UNCHANGED device
    BY <1>1 DEF Request
  <2>2. RestartsAreSeen
    BY <1>0, <2>1, EffectOnLedger DEF RestartsAreSeen
  <2>3. \A k \in Jobs \ {j} : k \in limited' <=> k \in limited
    BY <1>1 DEF Request, NotStruck
  <2> QED BY <1>1, <2>2, <2>3, RequestFacts
<1>2. CASE Start(j) \/ Kill(j)
  BY <1>0, <1>2 DEF Start, Kill, Goto, locals, device, TypeOK
<1>3. CASE Ssh(j) \/ Ipmi(j)
  BY <1>1, <1>3 DEF Ssh, SshShutdown, Ipmi, Ipmitool, locals
<1>4. ASSUME NEW at, NEW next, Sleep(j, at, next)
      PROVE  /\ UNCHANGED device
             /\ \A k \in Jobs \ {j} : pc'[k] = pc[k] /\ (k \in limited' <=> k \in limited)
  BY <1>4 DEF Sleep, Goto, NotStruck, TypeOK
<1>5. CASE Snmp(j)
  BY <1>0, <1>1, <1>4, <1>5 DEF Snmp, locals, device
<1>6. CASE Ilo(j)
  <2>1. CASE IloStatus(j)
    BY <1>0, <1>6, <2>1 DEF Ilo, IloStatus, Goto, NotStruck, locals, device, TypeOK
  <2> QED BY <1>0, <1>1, <1>4, <1>6, <2>1 DEF Ilo, IloOn, locals, device
<1>7. CASE Xen(j)
  <2>1. CASE XenClean(j)
    BY <1>1, <2>1 DEF XenClean, locals
  <2>2. CASE XenLogin(j) \/ XenFind(j) \/ XenWait(j) \/ XenLogout(j)
    BY <1>0, <2>2 DEF XenLogin, XenFind, XenWait, XenLogout, Leave, Goto, NotStruck,
       device, TypeOK
  <2>3. ASSUME NEW at, NEW command, NEW answered, XenRequest(j, at, command, answered)
        PROVE  /\ UNCHANGED given /\ RestartsAreSeen
               /\ \A k \in Jobs \ {j} :
                    /\ UNCHANGED <<pc[k], pending[k], session[k]>>
                    /\ k \in limited' <=> k \in limited
    <3>1. RestartsAreSeen
      BY <1>0, <2>3, EffectOnLedger DEF XenRequest, RestartsAreSeen
    <3> QED BY <2>3, <3>1 DEF XenRequest, Leave, Goto, NotStruck, TypeOK
  <2> QED BY <1>7, <2>1, <2>2, <2>3 DEF Xen
<1> QED BY <1>2, <1>3, <1>5, <1>6, <1>7 DEF JobStep

\* Only ipmi is called with ipmi_off.
OffIsIpmi ==
  \A j \in Jobs : argument[j] = "off" =>
    driver[j] = "ipmi" /\ pc[j] \in {"idle", "ipmitool"} \cup Ended

LEMMA OffIsIpmiStep == TypeOK /\ OffIsIpmi /\ [Next]_vars => OffIsIpmi'
<1> SUFFICES ASSUME TypeOK, OffIsIpmi, [Next]_vars, NEW k \in Jobs, argument'[k] = "off"
             PROVE  driver'[k] = "ipmi" /\ pc'[k] \in {"idle", "ipmitool"} \cup Ended
  BY DEF OffIsIpmi
<1>1. CASE UNCHANGED vars
  BY <1>1 DEF vars, locals, OffIsIpmi
<1>2. ASSUME NEW j \in Jobs, JobStep(j), j # k
      PROVE  driver'[k] = "ipmi" /\ pc'[k] \in {"idle", "ipmitool"} \cup Ended
  BY <1>2, OthersAreLeft DEF OffIsIpmi
<1>3. ASSUME JobStep(k)
      PROVE  driver'[k] = "ipmi" /\ pc'[k] \in {"idle", "ipmitool"} \cup Ended
  <2>1. /\ driver[k] = "ipmi" /\ driver'[k] = "ipmi"
        /\ pc[k] \in {"idle", "ipmitool"} \cup Ended
    BY <1>3, OthersAreLeft DEF OffIsIpmi
  <2>2. Start(k) \/ Ipmi(k) \/ Kill(k)
    BY <1>3, <2>1 DEF JobStep, Ssh, SshShutdown, Snmp, Ilo, IloStatus, IloOn, Xen, XenLogin,
       XenFind, XenClean, XenRequest, XenWait, XenLogout, Request, Sleep, Ended
  <2> QED BY <2>1, <2>2, RequestFacts DEF Start, Ipmi, Ipmitool, Kill, Goto, First, Ended, TypeOK
<1> QED BY <1>1, <1>2, <1>3 DEF Next

-----------------------------------------------------------------------------
(* Power.                                                                  *)

\* Where a job can be that has turned the machine off and not on again; an
\* ipmi_off was never meant to.
Owing(j) ==
  \/ argument[j] = "off" /\ pc[j] # "idle"
  \/ pc[j] \in {"pdu_wait", "pdu_on", "ilo_wait", "ilo_on", "xen_hard", "xen_wait",
               "xen_start", "raised", "interrupted", "killed"}
  \/ pc[j] = "xen_logout" /\ pending[j] \in {"raised", "interrupted"}

\* A machine without power has a job to thank for it, and that job knows.
Ledger ==
  /\ power = "off" /\ everOn => owes # {}
  /\ \A j \in owes : Owing(j)

\* A step of j keeps the ledger if it leaves j in a place for what it owes.
LEMMA LedgerKept ==
  ASSUME TypeOK, Ledger, NEW j \in Jobs, UNCHANGED argument,
         \A k \in Jobs \ {j} : pc'[k] = pc[k] /\ pending'[k] = pending[k],
         owes' \subseteq owes \cup {j},
         power' = "off" /\ everOn' => j \in owes' \/ UNCHANGED <<power, owes, everOn>>,
         j \in owes' => Owing(j)'
  PROVE  Ledger'
BY DEF Ledger, Owing, TypeOK

\* The labels of the first part of Owing.
OwingLabels == {"pdu_wait", "pdu_on", "ilo_wait", "ilo_on", "xen_hard", "xen_wait",
                "xen_start", "raised", "interrupted", "killed"}

\* A request that does not switch the power off, from a job that owes nothing.
LEMMA QuietRequest ==
  ASSUME TypeOK, Ledger, NEW j \in Jobs, NEW at, NEW command, NEW answered,
         NEW failed, NEW struck, UNCHANGED locals,
         Request(j, at, command, answered, failed, struck),
         command \in {"reset", "outlet"} \/ (command = "bmc" /\ argument[j] # "off"),
         ~Owing(j)
  PROVE  Ledger'
<1>1. j \notin owes /\ owes' = owes
  BY RequestFacts, EffectOnLedger DEF Ledger, device
<1> QED BY <1>1, RequestFacts, EffectOnLedger, LedgerKept DEF locals, device

\* A request that switches it off, and leads to where a job may owe.
LEMMA OffRequest ==
  ASSUME TypeOK, Ledger, NEW j \in Jobs, NEW at, NEW command, NEW answered,
         NEW failed, NEW struck, UNCHANGED locals,
         Request(j, at, command, answered, failed, struck),
         failed \cup {answered, struck} \subseteq OwingLabels
  PROVE  Ledger'
<1>1. Owing(j)'
  BY RequestFacts DEF Owing, OwingLabels
<1> QED BY <1>1, RequestFacts, EffectOnLedger, LedgerKept DEF locals, device

\* A request that switches it on, and leads to where a job may owe if it fails.
LEMMA OnRequest ==
  ASSUME TypeOK, Ledger, NEW j \in Jobs, NEW at, NEW command, NEW answered,
         NEW failed, NEW struck, UNCHANGED locals,
         Request(j, at, command, answered, failed, struck),
         command \in {"on", "start"}, failed \cup {struck} \subseteq OwingLabels
  PROVE  Ledger'
<1>1. j \in owes' => Owing(j)'
  BY RequestFacts, EffectOnLedger DEF Owing, OwingLabels
<1> QED BY <1>1, RequestFacts, EffectOnLedger, LedgerKept DEF locals, device

\* The same for the requests inside the xen_session block.
LEMMA XenRequestKeepsLedger ==
  ASSUME TypeOK, Ledger, NEW j \in Jobs,
         \/ XenRequest(j, "xen_hard", "halt", "xen_wait")
         \/ XenRequest(j, "xen_start", "start", "xen_logout")
  PROVE  Ledger'
<1>1. /\ \A k \in Jobs \ {j} : pc'[k] = pc[k] /\ pending'[k] = pending[k]
      /\ UNCHANGED argument
  BY DEF XenRequest, Leave, Goto, TypeOK
<1>2. \/ Effect(j, "halt") /\ pc'[j] = "xen_wait"
      \/ Effect(j, "start") /\ pc'[j] = "xen_logout"
      \/ /\ Effect(j, "halt") \/ Effect(j, "start") \/ UNCHANGED device
         /\ pc'[j] = "xen_logout" /\ pending'[j] \in {"raised", "interrupted"}
  BY DEF XenRequest, Leave, Goto, TypeOK
<1>3. j \in owes' => Owing(j)'
  BY <1>2, EffectOnLedger DEF Owing
<1> QED BY <1>1, <1>2, <1>3, EffectOnLedger, LedgerKept DEF device

LEMMA LedgerStep == TypeOK /\ OffIsIpmi /\ Ledger /\ [Next]_vars => Ledger'
<1> SUFFICES ASSUME TypeOK, OffIsIpmi, Ledger, [Next]_vars PROVE Ledger'
  OBVIOUS
<1>1. ASSUME NEW j \in Jobs, UNCHANGED device, UNCHANGED argument,
             \A k \in Jobs \ {j} : pc'[k] = pc[k] /\ pending'[k] = pending[k],
             Owing(j) => Owing(j)'
      PROVE  Ledger'
  BY <1>1, LedgerKept DEF device, Ledger
<1>2. ASSUME NEW j \in Jobs, Start(j) \/ Kill(j) PROVE Ledger'
  BY <1>1, <1>2 DEF Start, Kill, Goto, locals, TypeOK, Owing
<1>3. ASSUME NEW j \in Jobs, Ssh(j) PROVE Ledger'
  <2>1. ~Owing(j)
    BY <1>3 DEF Ssh, SshShutdown, Request, Owing, OffIsIpmi, Ended
  <2> QED BY <1>3, <2>1, QuietRequest DEF Ssh, SshShutdown
<1>4. ASSUME NEW j \in Jobs, Ipmi(j) PROVE Ledger'
  <2>1. CASE argument[j] # "off"
    <3>1. ~Owing(j)
      BY <1>4, <2>1 DEF Ipmi, Ipmitool, Request, Owing
    <3> QED BY <1>4, <2>1, <3>1, QuietRequest DEF Ipmi, Ipmitool
  <2>2. CASE argument[j] = "off"
    <3>1. PICK how \in {"returned", "interrupted"} :
            /\ pc'[j] = how /\ UNCHANGED locals
            /\ \A k \in Jobs \ {j} : pc'[k] = pc[k]
            /\ Effect(j, "bmc") \/ UNCHANGED device
      BY <1>4, RequestFacts DEF Ipmi, Ipmitool
    <3>2. Owing(j)'
      BY <2>2, <3>1 DEF Owing, locals
    <3> QED BY <3>1, <3>2, EffectOnLedger, LedgerKept DEF locals, device
  <2> QED BY <2>1, <2>2
<1>5. ASSUME NEW j \in Jobs, NEW at \in {"pdu_wait", "ilo_wait"},
             NEW next \in {"pdu_on", "ilo_on"}, Sleep(j, at, next), UNCHANGED locals
      PROVE  Ledger'
  BY <1>1, <1>5 DEF Sleep, Goto, locals, TypeOK, Owing
<1>6. ASSUME NEW j \in Jobs, Snmp(j) PROVE Ledger'
  <2>1. CASE Request(j, "pdu_reboot", "outlet", "returned", {"raised"}, "interrupted")
    <3>1. ~Owing(j)
      BY <2>1 DEF Request, Owing, OffIsIpmi, Ended
    <3> QED BY <1>6, <2>1, <3>1, QuietRequest DEF Snmp
  <2>2. CASE Request(j, "pdu_off", "off", "pdu_wait", {"raised"}, "interrupted")
    BY <1>6, <2>2, OffRequest DEF Snmp, OwingLabels
  <2>3. CASE Request(j, "pdu_on", "on", "returned", {"raised"}, "interrupted")
    BY <1>6, <2>3, OnRequest DEF Snmp, OwingLabels
  <2> QED BY <1>5, <1>6, <2>1, <2>2, <2>3 DEF Snmp
<1>7. ASSUME NEW j \in Jobs, Ilo(j) PROVE Ledger'
  <2>1. CASE IloStatus(j)
    BY <1>1, <1>7, <2>1 DEF Ilo, IloStatus, Goto, locals, TypeOK, Owing
  <2>2. CASE Request(j, "ilo_reset", "reset", "returned", {"ilo_off"}, "ilo_off")
    <3>1. ~Owing(j)
      BY <2>2 DEF Request, Owing, OffIsIpmi, Ended
    <3> QED BY <1>7, <2>2, <3>1, QuietRequest DEF Ilo
  <2>3. CASE Request(j, "ilo_off", "off", "ilo_wait", {"raised"}, "interrupted")
    BY <1>7, <2>3, OffRequest DEF Ilo, OwingLabels
  <2>4. CASE IloOn(j)
    BY <1>7, <2>4, OnRequest DEF Ilo, IloOn, OwingLabels
  <2> QED BY <1>5, <1>7, <2>1, <2>2, <2>3, <2>4 DEF Ilo
<1>8. ASSUME NEW j \in Jobs, Xen(j) PROVE Ledger'
  <2>1. CASE XenClean(j)
    BY <2>1, OffRequest DEF XenClean, OwingLabels
  <2>2. CASE XenLogin(j) \/ XenFind(j) \/ XenWait(j) \/ XenLogout(j)
    BY <1>1, <2>2 DEF XenLogin, XenFind, XenWait, XenLogout, Leave, Goto, TypeOK, Owing, Ended
  <2> QED BY <1>8, <2>1, <2>2, XenRequestKeepsLedger DEF Xen
<1>9. CASE UNCHANGED vars
  BY <1>9 DEF vars, locals, device, Ledger, Owing
<1> QED BY <1>2, <1>3, <1>4, <1>6, <1>7, <1>8, <1>9 DEF Next, JobStep

\* However many calls of drivers interleave on a machine, it is without power
\* at the end only if one of them did not return normally.
THEOREM NobodyLeavesItOff == Spec => []AllReturnedMeansOn
<1>1. Init => OffIsIpmi /\ Ledger
  BY DEF Init, Ledger, OffIsIpmi
<1>2. TypeOK /\ Ledger => AllReturnedMeansOn
  BY DEF TypeOK, Ledger, Owing, AllReturnedMeansOn
<1> QED BY <1>1, <1>2, OffIsIpmiStep, LedgerStep, TypeSafety, PTL DEF Spec

-----------------------------------------------------------------------------
(* Sessions, limits and restarts.                                           *)

\* The labels inside the xen_session block.
InBlock == {"xen_find", "xen_clean", "xen_hard", "xen_wait", "xen_start", "xen_logout"}

\* The labels of a job between its off and its on.
SwitchedOff == {"pdu_wait", "pdu_on", "ilo_wait", "ilo_on", "xen_wait", "xen_start"}

\* What each job can rely on.  Once it has switched the machine off, the machine
\* is off or has started anew, be it by another job.
Books(j) ==
  /\ session[j] = "open" => pc[j] \in InBlock
  /\ pc[j] \in InBlock \cup {"xen_login"} => driver[j] = "xen"
  /\ pc[j] \in {"ilo_status", "ilo_reset", "ilo_off", "ilo_wait", "ilo_on"} => driver[j] = "ilo"
  /\ pc[j] = "ipmitool" => driver[j] = "ipmi"
  /\ j \in limited => driver[j] \in {"ilo", "xen"} \/ pc[j] \in {"interrupted", "killed"}
  /\ pc[j] \in SwitchedOff => power = "off" \/ j \in restarted
  /\ pc[j] = "xen_logout" /\ pending[j] = "returned" => j \in restarted
  /\ pc[j] = "returned" /\ driver[j] # "ipmi" => j \in restarted

\* What a device's answer does for the one who asked.
LEMMA EffectOnOwn ==
  ASSUME TypeOK, NEW j \in Running, NEW command, Effect(j, command)
  PROVE  /\ command \in {"reset", "outlet"} => j \in restarted'
         /\ command \in {"off", "halt"} => power' = "off"
         /\ command \in {"on", "start"} /\ (power = "off" \/ j \in restarted)
              => j \in restarted'
BY DEF Effect, TurnOff, TurnOn, Restart, TypeOK

LEMMA OwnStepKeepsBooks ==
  ASSUME TypeOK, NEW j \in Jobs, Books(j), JobStep(j)
  PROVE  Books(j)'
<1> USE DEF Books, InBlock, SwitchedOff
<1>0. UNCHANGED given /\ restarted \subseteq restarted'
  BY OthersAreLeft DEF RestartsAreSeen
<1>1. CASE Start(j)
  BY <1>1, <1>0 DEF Start, Goto, locals, device, TypeOK, First
<1>2. CASE Kill(j)
  BY <1>2, <1>0 DEF Kill, Goto, TypeOK
<1>3. ASSUME NEW at, at \notin Ended \cup {"idle"}, NEW command, NEW answered,
             NEW failed, NEW struck, Request(j, at, command, answered, failed, struck)
      PROVE  /\ pc[j] = at
             /\ \/ pc'[j] = answered /\ UNCHANGED limited /\ Effect(j, command)
                \/ pc'[j] \in failed /\ UNCHANGED limited
                \/ pc'[j] = struck
             /\ pc'[j] \notin failed \cup {struck} =>
                  /\ command \in {"reset", "outlet"} => j \in restarted'
                  /\ command \in {"off", "halt"} => power' = "off"
                  /\ command \in {"on", "start"} /\ (power = "off" \/ j \in restarted)
                       => j \in restarted'
  BY <1>3, EffectOnOwn DEF Request, Goto, Running, TypeOK
<1>4. CASE Ssh(j)
  BY <1>0, <1>3, <1>4 DEF Ssh, SshShutdown, locals, Ended
<1>5. CASE Ipmi(j)
  BY <1>0, <1>3, <1>5 DEF Ipmi, Ipmitool, locals, Ended
<1>6. ASSUME NEW at, NEW next, Sleep(j, at, next)
      PROVE  /\ pc[j] = at /\ UNCHANGED device
             /\ (pc'[j] = next /\ UNCHANGED limited) \/ pc'[j] = "interrupted"
  BY <1>6 DEF Sleep, Goto, TypeOK
<1>7. CASE Snmp(j)
  BY <1>0, <1>3, <1>6, <1>7 DEF Snmp, locals, device, Ended
<1>8. CASE Ilo(j)
  <2>1. CASE IloStatus(j)
    BY <1>8, <2>1 DEF Ilo, IloStatus, Goto, locals, device, TypeOK
  <2> QED BY <1>0, <1>3, <1>6, <1>8, <2>1 DEF Ilo, IloOn, locals, device, Ended
<1>9. CASE Xen(j)
  <2>1. CASE XenClean(j)
    BY <1>0, <1>3, <2>1 DEF XenClean, locals, Ended
  <2>2. CASE XenLogin(j) \/ XenFind(j) \/ XenWait(j)
    BY <2>2 DEF XenLogin, XenFind, XenWait, Leave, Goto, device, TypeOK
  <2>3. CASE XenLogout(j)
    BY <2>3 DEF XenLogout, Goto, device, TypeOK, Ended
  <2>4. CASE XenRequest(j, "xen_hard", "halt", "xen_wait")
    BY <1>0, <2>4, EffectOnOwn DEF XenRequest, Leave, Goto, TypeOK, Running, Ended
  <2>5. CASE XenRequest(j, "xen_start", "start", "xen_logout")
    BY <1>0, <2>5, EffectOnOwn DEF XenRequest, Leave, Goto, TypeOK, Running, Ended
  <2> QED BY <1>9, <2>1, <2>2, <2>3, <2>4, <2>5 DEF Xen
<1> QED BY <1>1, <1>2, <1>4, <1>5, <1>7, <1>8, <1>9 DEF JobStep

AllBooks == \A j \in Jobs : Books(j)

LEMMA BooksStep == TypeOK /\ AllBooks /\ [Next]_vars => AllBooks'
<1> SUFFICES ASSUME TypeOK, AllBooks, [Next]_vars, NEW k \in Jobs PROVE Books(k)'
  BY DEF AllBooks
<1>1. ASSUME NEW j \in Jobs, JobStep(j), j # k PROVE Books(k)'
  <2>1. Books(k) /\ RestartsAreSeen
    BY <1>1, OthersAreLeft DEF AllBooks
  <2>2. pc[k] \in SwitchedOff => k \in Running
    BY DEF SwitchedOff, Running, Ended
  <2>3. pc'[k] \in SwitchedOff => power' = "off" \/ k \in restarted'
    BY <1>1, <2>1, <2>2, OthersAreLeft DEF Books, RestartsAreSeen
  <2> QED BY <1>1, <2>1, <2>3, OthersAreLeft DEF Books, RestartsAreSeen, given
<1>2. ASSUME JobStep(k) PROVE Books(k)'
  BY <1>2, OwnStepKeepsBooks DEF AllBooks
<1>3. CASE UNCHANGED vars
  BY <1>3 DEF vars, locals, device, AllBooks, Books
<1> QED BY <1>1, <1>2, <1>3 DEF Next

LEMMA BooksKept == Spec => [](TypeOK /\ AllBooks)
<1>1. Init => AllBooks
  <2> SUFFICES ASSUME Init, NEW j \in Jobs PROVE Books(j)
    BY DEF AllBooks
  <2>1. pc[j] = "idle" /\ session[j] # "open" /\ j \notin limited
    BY DEF Init
  <2> QED BY <2>1 DEF Books, InBlock, SwitchedOff
<1> QED BY <1>1, BooksStep, TypeSafety, PTL DEF Spec

\* However the xen_session block ends, no session is left open.
THEOREM NoOpenSession == Spec => []SessionIsReleased
<1>1. TypeOK /\ AllBooks => SessionIsReleased
  BY DEF AllBooks, Books, InBlock, SessionIsReleased, Ended
<1> QED BY <1>1, BooksKept, PTL

\* The soft limit is masked by ilo_reboot and xenapi_reboot only.
THEOREM LimitIsSeen == Spec => []LimitComesOut
<1>1. TypeOK /\ AllBooks => LimitComesOut
  BY DEF TypeOK, AllBooks, Books, LimitComesOut
<1> QED BY <1>1, BooksKept, PTL

\* However the calls of any number of jobs interleave on the power switch, a
\* driver other than ipmi returns normally only if the machine has started anew
\* since its call began.
THEOREM NormalReturnRestarts == Spec => []ReturnMeansRestarted
<1>1. AllBooks => ReturnMeansRestarted
  BY DEF AllBooks, Books, ReturnMeansRestarted
<1> QED BY <1>1, BooksKept, PTL
=============================================================================

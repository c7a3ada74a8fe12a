------------------------------ MODULE MCRoller ------------------------------
(* Instances of Roller for TLC.                                              *)
EXTENDS Roller

CONSTANTS r1, r2, p1
TwoRequests == {r1, r2}
OneProcess == {p1}
PingAndReboot == {"ping", "reboot"}

\* Requests are alike, so one of each kind is enough.
OneOfEachInit == Init /\ task[r1] = "ping" /\ task[r2] = "reboot"
OneOfEach == OneOfEachInit /\ [][Next]_vars /\ Fairness
=============================================================================

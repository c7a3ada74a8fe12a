--------------------------- MODULE MCPowerDrivers ---------------------------
(* Instances of PowerDrivers for TLC: the machines of the fleet.             *)
EXTENDS PowerDrivers, TLC

CONSTANTS j1, j2
TwoJobs == {j1, j2}

MacMini == {"ssh", "ipmi", "pdu", "pdu_delay"}
HpServer == {"ssh", "ilo"}
IpmiFleet == {{"ipmi"}}
XenGuest == {"ssh", "xen"}
AllFleets == {MacMini, HpServer, XenGuest}

Symmetry == Permutations(Jobs)
=============================================================================

------------------------------ MODULE MCReboot ------------------------------
(* Instances of Reboot for TLC: lists of methods and shapes of configuration. *)
EXTENDS Reboot

\* Methods of each kind: plain, needing a PDU, with an entry of its own, and
\* giving up.
MixedMethods == <<"ssh_reboot", "snmp_rebootdelay", "ilo_reboot", "ipmi_reset",
                  "file_bugzilla_bug">>
MixedConfigs == {{}, {"entry"}, {"entry", "pdu", "ilo"}, {"entry", "ilo"}}

\* settings.py:230 as it stands.
DefaultMethods == <<"ssh_reboot", "ipmi_reset", "ipmi_cycle", "snmp_reboot",
                    "file_bugzilla_bug">>
DefaultConfigs == {{"entry", "pdu"}}

\* Methods that fit into the soft limit, an unknown one among them.
FittingMethods == <<"ssh_reboot", "power_cycle", "xenapi_reboot", "file_bugzilla_bug">>
FittingConfigs == {{"entry"}, {"entry", "xen"}}

IloMethods == <<"ilo_reboot">>
IloConfigs == {{"entry", "ilo"}}
=============================================================================

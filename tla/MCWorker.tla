------------------------------ MODULE MCWorker ------------------------------
(* Instances of Worker for TLC.                                              *)
EXTENDS Worker, TLC

CONSTANTS j1, j2, p1, p2
TwoJobs == {j1, j2}
TwoProcesses == {p1, p2}

\* One of each kind: announced or not, and one that no command implements.
SomeTaskNames == {"ping", "reboot", "status"}
=============================================================================

\* An ipmi_* task of the API beside a call from the command line or from reboot.
\* The system stops when both have ended.
CONSTANTS
  j1 = j1
  j2 = j2
  Jobs <- TwoJobs
  Fleets <- IpmiFleet
SPECIFICATION Spec
SYMMETRY Symmetry
CHECK_DEADLOCK FALSE
INVARIANT SameViaApi

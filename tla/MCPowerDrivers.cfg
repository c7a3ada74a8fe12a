\* Two calls at once on a machine behind a PDU, with an iLO, or on Xen.
\* The system stops when both have ended.
CONSTANTS
  j1 = j1
  j2 = j2
  Jobs <- TwoJobs
  Fleets <- AllFleets
SPECIFICATION Spec
SYMMETRY Symmetry
CHECK_DEADLOCK FALSE
INVARIANTS TypeOK AllReturnedMeansOn LimitComesOut  SessionIsReleased

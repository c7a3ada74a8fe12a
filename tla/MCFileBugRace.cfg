\* Two jobs at once against a Bugzilla that answers.
CONSTANTS
  j1 = j1
  j2 = j2
  j3 = j3
  j4 = j4
  Jobs <- TwoJobs
  Workers = 2
  Faulty = FALSE
SPECIFICATION Spec
SYMMETRY Symmetry
CHECK_DEADLOCK FALSE
INVARIANT AtMostOneOpenBug

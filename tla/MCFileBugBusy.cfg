\* Four jobs, two at a time, against a Bugzilla that answers.
\* A state where every job has ended and every bug is closed has no successor.
CONSTANTS
  j1 = j1
  j2 = j2
  j3 = j3
  j4 = j4
  Jobs <- FourJobs
  Workers = 2
  Faulty = FALSE
SPECIFICATION Spec
SYMMETRY Symmetry
CHECK_DEADLOCK FALSE
INVARIANT NoMoreBugsThanWorkers

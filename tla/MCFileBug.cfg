\* Two jobs at once against a Bugzilla that may fail.
\* A state where every job has ended and every bug is closed has no successor.
CONSTANTS
  j1 = j1
  j2 = j2
  j3 = j3
  j4 = j4
  Jobs <- TwoJobs
  Workers = 2
  Faulty = TRUE
SPECIFICATION Spec
SYMMETRY Symmetry
CHECK_DEADLOCK FALSE
INVARIANTS TypeOK FiledBugExists ReportArrives FiledBugIsLinked DuplicateIsExplained

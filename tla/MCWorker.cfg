\* Two jobs, in one process one behind the other or in two at once.
\* The system stops when both jobs have ended.
CONSTANTS
  j1 = j1
  j2 = j2
  p1 = p1
  p2 = p2
  NoJob = NoJob
  Jobs <- TwoJobs
  Processes <- TwoProcesses
  TaskNames <- SomeTaskNames
SPECIFICATION Spec
CHECK_DEADLOCK FALSE
INVARIANTS TypeOK NeverCalledTwice DoneMeansReported MutedOnlyByInterruption JobInOnePlace
PROPERTIES EveryJobEnds JobsOnlyAdvance ImplementsDelivery

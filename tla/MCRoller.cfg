\* Two requests and one process behind the queue.
\* The system stops when both requests are over and their jobs have ended.
CONSTANTS
  r1 = r1
  r2 = r2
  p1 = p1
  NoJob = NoJob
  Requests <- TwoRequests
  Processes <- OneProcess
  TaskNames <- PingAndReboot
SPECIFICATION OneOfEach
CHECK_DEADLOCK FALSE
INVARIANTS TypeOK AnswerTellsTruth CommandNeedsAdmission
PROPERTIES RequestsEnd ImplementsDelivery

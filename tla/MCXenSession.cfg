\* A login nested in a login nested in the driver's request.
\* The system stops when the call has ended.
CONSTANT MaxDepth = 3
SPECIFICATION Spec
CHECK_DEADLOCK FALSE
INVARIANTS TypeOK NoSessionLeftBehind
PROPERTIES CallEnds EveryStepDescends ImplementsDriver

SPECIFICATION LoginFairSpec
CONSTANTS
  NoFlow = NoFlow
  Flows = {f1}
  Submits = {c1, c2}
  MaxRejects = 2
INVARIANTS
  DoneIsReal
  RejectionIsNew
PROPERTY
  CancelEndsProcess
\* Every goroutine ends, so a run stops.
CHECK_DEADLOCK FALSE

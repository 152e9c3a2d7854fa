SPECIFICATION LoginSpec
CONSTANTS
  NoFlow = NoFlow
  Flows = {f1, f2}
  Submits = {c1}
  MaxRejects = 1

INVARIANT OneFlow
\* Every goroutine ends, so a run stops.
CHECK_DEADLOCK FALSE

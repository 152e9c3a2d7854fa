\* Lines in parts, the third of them too long.
SPECIFICATION FairSpec
CONSTANTS
  Kinds = {"init", "assistant", "user", "result", "other"}
  MaxLines = 3
  LineLen = 2
  LongLines = {3}
  Parts = TRUE
INVARIANTS
  LinesOnce
PROPERTIES
  AllPublished
  CancelEnds
\* A watcher that is done does nothing more.
CHECK_DEADLOCK FALSE

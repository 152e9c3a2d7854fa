\* Two viewers and a delete, over a scrollback and channels of one chunk.
SPECIFICATION FairSpec
CONSTANTS
  Viewers = {"v1", "v2"}
  Deletes = {"d1"}
  MaxChunks = 2
  Scroll = 1
  ChanCap = 1
INVARIANTS
  Seamless
  EndComplete
PROPERTIES
  ViewersEnd
  KilledIsForgotten
\* A shell that is over does nothing more.
CHECK_DEADLOCK FALSE

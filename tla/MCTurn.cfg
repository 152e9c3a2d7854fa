\* Each handler, against a session that may end at any time.
SPECIFICATION FairSpec
CONSTANTS
  Calls = {"send", "run", "stream"}
  MaxFrames = 4
  RingCap = 3
  ChanCap = 2
INVARIANTS
  TypeOK
  TurnComplete
  EndsOnce
PROPERTY
  SpawnedIsKilled
\* A request that is over does nothing more.
CHECK_DEADLOCK FALSE

\* A hook callback, the discovery and the reaper at any time of the session's life.
SPECIFICATION FairSpec
CONSTANTS
  h1 = h1
  Finder = Finder
  NoWatcher = NoWatcher
  Hooks = {h1}
  MaxLines = 2
INVARIANTS
  EndsInOrder
  OneWatcher
  LinesOnce
  EarlyWatchersReleased
PROPERTY
  ExitLeadsToDone
\* A session that is over does nothing more.
CHECK_DEADLOCK FALSE

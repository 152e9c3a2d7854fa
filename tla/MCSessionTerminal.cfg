\* A hook that arrives late.
SPECIFICATION Spec
CONSTANTS
  h1 = h1
  Finder = Finder
  NoWatcher = NoWatcher
  Hooks = {h1}
  MaxLines = 1
INVARIANT
  DoneIsTerminal
\* A session that is over does nothing more.
CHECK_DEADLOCK FALSE

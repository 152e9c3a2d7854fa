\* Two subscriptions that come, fall behind, cancel and are closed.
SPECIFICATION FairSpec
CONSTANTS
  s1 = s1
  s2 = s2
  Subs = {s1, s2}
  NoSub = NoSub
  BufCap = 2
  ChanCap <- MixedCap
  MaxSeq = 3
INVARIANTS
  LiveRunUnbroken
  ReplayComplete
  CloseOnce
PROPERTIES
  StreamSpec
  ContextEndsSubscription
\* Publishing is bounded, so a run stops.
CHECK_DEADLOCK FALSE

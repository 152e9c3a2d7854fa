SPECIFICATION Spec
CONSTANTS
  Transports = {TRUE, FALSE}
  Shapes <- AllShapes
  MaxFrames = 4
  RingCap = 3
  ChanCap = 2
  Budgets = {0, 2}
  MaxBeats = 1
  Plain = 8
  Slack = 4
  Outer = 2
  Marker = 1
INVARIANTS
  TypeOK
  InOrder
  MissedOnlyThere
  WithinLimits

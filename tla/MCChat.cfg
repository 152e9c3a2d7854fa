\* A tool and a question, and a ring and a channel shorter than the log.
SPECIFICATION Spec
CONSTANTS
  Tools = {"t1", "q1"}
  Questions = {"q1"}
  Other = {}
  Hidden = {"hidden"}
  MaxFrames = 4
  RingCap = 3
  ChanCap = 2
INVARIANTS
  TypeOK
  SameRules
  StreamComplete
  OnceEach
  MissedOnlyThere

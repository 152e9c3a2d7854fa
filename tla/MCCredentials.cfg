\* Providers, a login and two sessions, with a failure and a restart.
SPECIFICATION CredsSpec
CONSTANTS
  None = None
  Writes = {w1, w2}
  Logins = {l1}
  Creates = {c1, c2}
  MaxFailures = 1
  MaxCrashes = 1
SYMMETRY Symmetry
INVARIANTS
  AnsweredSurvives
  OneWayIn
  HostIsOwnAlone
\* Requests are finitely many, so a run stops.
CHECK_DEADLOCK FALSE

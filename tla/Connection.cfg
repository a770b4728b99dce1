\* A call, a callback, a call nested in it with its own callback, and one failure
\* anywhere: a broken pipe, a dead server, an allocation, a refused style.  The client
\* connects again to the same or another server.
CONSTANTS
  t1 = t1
  t2 = t2
  s1 = s1
  s2 = s2
  Thread = {t1, t2}
  Server = {s1, s2}
  Style = "win32"
  AllocFails = TRUE
  MaxId = 6
  MaxConn = 3
  MaxCb = 2
  MaxFaults = 1
SPECIFICATION FairSpec
INVARIANTS
  OneTurn
  InStep
  AnswersMatch
  StyleInForce
PROPERTIES
  CallsAtMostOnce
  CallReturns
  ServerFreed
\* The bounds leave nothing to do in the end.
CHECK_DEADLOCK FALSE

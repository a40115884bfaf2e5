SPECIFICATION Spec
CONSTANTS
  c1 = c1
  c2 = c2
  m1 = m1
  m2 = m2
  Callers = {c1, c2}
  Monitors = {m1, m2}
  MaxTries = 1
  Timely = FALSE
  Budget <- CallersCrossing
SYMMETRY Symmetry
INVARIANTS
  SVTypeOK
  OneProcess
  DownIsDown
  ProcessIsWatched
CHECK_DEADLOCK FALSE

SPECIFICATION FairSpec
CONSTANTS
  c1 = c1
  c2 = c2
  m1 = m1
  m2 = m2
  Callers = {c1}
  Monitors = {m1, m2}
  MaxTries = 1
  Timely = TRUE
  Budget <- TwoCrashes
INVARIANT
  TriesBounded
PROPERTIES
  DeathIsNoticed
  StopReturns
CHECK_DEADLOCK FALSE

SPECIFICATION Spec
CONSTANTS
  g1 = g1
  g2 = g2
  x86 = x86
  arm = arm
  AnyArch = any
  Archs = {x86, arm}
  Graders = {g1, g2}
  Subs <- TwoSubs
  NumFiles = 1
  Required <- MCRequired
  Workers <- MCWorkers
  Rating <- MCRating
  Arch <- MCArch
  ArchOnly <- MCArchOnly
  SkipReview = {}
  MaxRuns = 1
  Budget <- NoEvents
INVARIANTS
  HeldInv
  ResultsMatchRow

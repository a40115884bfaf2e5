SPECIFICATION Spec
CONSTANTS
  g1 = g1
  g2 = g2
  x86 = x86
  arm = arm
  AnyArch = any
  Archs = {x86, arm}
  Graders = {g1}
  Subs <- OneSub
  NumFiles = 1
  Required <- MCRequired
  Workers <- OneWorker
  Rating <- MCRating
  Arch <- MCArch
  ArchOnly <- MCArchOnly
  SkipReview = {}
  MaxRuns = 2
  Budget <- Teachers
INVARIANTS
  ResultsMatchRow
PROPERTIES
  GradedIsFinal
  IsLifecycle

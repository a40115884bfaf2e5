SPECIFICATION ESSpec
CONSTANTS
  slow = slow
  big = big
  other = other
  x86 = x86
  arm = arm
  AnyArch = any
  Archs = {x86, arm}
  Graders = {slow, big, other}
  Subs <- MCSubs
  NumFiles = 1
  Required <- MCRequired
  Workers <- MCWorkers
  Rating <- MCRating
  Arch <- MCArch
  ArchOnly <- MCArchOnly
  MaxSink = 1
INVARIANTS
  ESTypeOK
  NoReadyGraderHidden
  SinksSuit

SPECIFICATION FairWork
CONSTANTS
  Clients = {"k1", "k2", "s1", "s2", "g1"}
  Checks = {"k1", "k2"}
  Submissions = {"s1", "s2"}
  Grader = "g1"
  WithOptions = {1, 3}
  Teachers = {"t1", "t2"}
  Reviewed = {"s1"}
  Contents <- SomeContents
  NewStatuses = {"disapproved"}
  Scenarios <- AllScenarios
INVARIANTS
  WorkTypeOK
  MissedIsNewer
  DeadlinesAreCurrent
  LoadedIsWhole
  OneReview
  AppliedIsStored
PROPERTIES
  DirtyIsServed
CHECK_DEADLOCK FALSE

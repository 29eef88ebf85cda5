CONSTANTS
  Last = 3
  Adversarial = 2
  EntryState <- Entry3
  MaxIter = 2
  MaxPivots = 1
  MaxRefills = 1
  MaxJumps = 1
  MayRunOut = TRUE
  MaxStops = 1
SPECIFICATION FairSpec
CHECK_DEADLOCK FALSE
INVARIANT CompletedIsFresh
INVARIANT ReportIsComplete
INVARIANT ReportIsScreened
PROPERTY NothingRedone
PROPERTY ResearchEnds

SPECIFICATION FairSpec
CONSTANTS
  Recs = {1, 2}
  MaxFrames = 2
  Sample = 1
  Plans <- MCPlans
INVARIANT FootageIsKept
INVARIANT RowNamesItsArtifact
PROPERTY RecordingSettles
CHECK_DEADLOCK FALSE

SPECIFICATION FairCalls
CONSTANTS
  Ids = {1, 2}
  MaxRetries = 2
  Room = 1
  Ceiling = 2
  DetailCap = 2
  Deltas = 2
  Setups <- MCSetups
INVARIANT ThoughtIsTheAnswer
INVARIANT StreamingIsInFlight
PROPERTY CallEnds
CHECK_DEADLOCK FALSE

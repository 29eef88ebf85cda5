\* Every statement below is false of the code: leave one line to see its trace.
SPECIFICATION CallsSpec
CONSTANTS
  Ids = {1, 2}
  MaxRetries = 3
  Room = 1
  Ceiling = 3
  DetailCap = 3
  Deltas = 2
  Setups <- Calm
CHECK_DEADLOCK FALSE
INVARIANT EndedIsNotStreaming
INVARIANT NeverOnlyCopy
INVARIANT RecordedOnce
INVARIANT ThoughtIsOneAnswer

\* Every statement below is false of the code: leave one line to see its trace.
SPECIFICATION Spec
CONSTANTS
  Recs = {1, 2, 3}
  MaxFrames = 3
  Sample = 2
  Plans <- Single
CHECK_DEADLOCK FALSE
INVARIANT AtMostOneLive
INVARIANT LiveIsStoppable
INVARIANT NothingStaysFinalizing
INVARIANT OneArtifact
INVARIANT PageIsBounded
INVARIANT RefusedIsKept
INVARIANT TornIsKept
INVARIANT SecondIsKept
INVARIANT ServedAreLive

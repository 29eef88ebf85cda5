CONSTANTS
  Requests = {r1, r2}
  Chunks = 1
  MaxStreams = 1
  Fallback = TRUE
SYMMETRY Symmetry
SPECIFICATION Spec
CHECK_DEADLOCK FALSE
INVARIANT TypeOK
INVARIANT PendingIsAwaited
INVARIANT LiveIsListed
INVARIANT OneEgress

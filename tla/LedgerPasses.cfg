CONSTANTS
  Records <- MCRecords
  Facts <- MCFacts
  Niches <- MCNiches
  Long <- MCLong
  Within <- MCWithin
  Similar = {}
  Broad = {"s"}
  Risky = {}
  MinCandidate = 1
  MinSources = 1
  MinCompetitors = 2
  MinReviews = 1
  MinProducts = 1
  MinObservations = 2
  SupportedPct = 60
  InferencePct = 50
  CoveragePct = 100
  Replies <- MCReplies
  MaxLive = 2
  MaxDossiers = 2
  BacklogCap = 4
  Window = 3
  Target = 2
  MaxPivots = 1
  MaxRefills = 1
  MaxStops = 1
SPECIFICATION Spec
CHECK_DEADLOCK FALSE
INVARIANT OneRowPerNiche
INVARIANT NothingLost
INVARIANT PassedOnObservation
INVARIANT NoneLeftOpen
INVARIANT FinalRestsOnPages

\* Every statement below is false of the code: leave one line to see its trace.
CONSTANTS
  Records <- MCRecords
  Facts <- MCFacts
  Niches <- MCNiches
  Long <- MCLong
  Within <- MCWithin
  Similar = {}
  Broad = {}
  Risky = {}
  MinCandidate = 4
  MinSources = 1
  MinCompetitors = 2
  MinReviews = 1
  MinProducts = 1
  MinObservations = 2
  SupportedPct = 60
  InferencePct = 50
  CoveragePct = 100
  Replies <- MCAnything
  MaxLive = 2
  MaxDossiers = 2
  BacklogCap = 1
  Window = 3
  Target = 3
  MaxPivots = 1
  MaxRefills = 1
  MaxStops = 1
SPECIFICATION Spec
CHECK_DEADLOCK FALSE
INVARIANT FinalCandidatesStand
INVARIANT ListedIsFollowed
INVARIANT NeverOnEstimates
INVARIANT OneDossierPerCandidate
INVARIANT TailIsRecorded
PROPERTY RefillKeepsRejections
PROPERTY ThinIsNotAdvanced

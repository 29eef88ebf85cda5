CONSTANTS
  Terms <- MCTerms
  Heads <- MCHeads
  Spelt <- MCSpelt
  Words <- MCWords
  Noise = {}
  Wordy = {}
  LogNorm <- MCLogNorm
  RankStrength <- MCRankStrength
  Market <- MCMarket
  Prompt <- MCPrompt
  Fallback <- MCFallback
  Letters <- MCLetters
  FrontierOn = TRUE
  CensusMarkets = 1
  MaxCategories = 1
  FrontierMarkets = 2
  MaxDepth = 2
  MaxProductive = 1
  Bar = 50
  MaxNew = 3
  NeighborLimit = 3
  MaxCandidates = 3
  Charts <- MCCharts
  Nodes <- MCNodes
  Suggestions <- MCSuggestions
  PhaseShots <- MCPhaseShots
  Results <- MCResults
  Plans <- MCPlans
SPECIFICATION Spec
INVARIANT MapIsWhole
INVARIANT NothingWalkedTwice
INVARIANT NeighbourOnce
INVARIANT MeasuredWhenSaid

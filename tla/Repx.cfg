SPECIFICATION FairSpec
CONSTANTS
  Lifetimes = {"root", "a", "b", "x"}
  Root = "root"
  External = {"x"}
  MaxEpoch = 1
  WatchPrefixes <- MCWatch
  SystemState <- MCSystem
  Recognized <- MCRecognized
  CacheEntries <- MCCache
  Mentions <- MCMentions
  AllBuilds <- MCBuilds
  Workspace <- MCWorkspace
  MaxLost = 1
CHECK_DEADLOCK FALSE
INVARIANTS
  TypeOK
  SameBuildSameRoot
  VerifiedMeansReproduced
  InputsReproduced
  FailClosed
  ClosedWritesHashed
  ProducersIncluded
  OutputsCommitted
  DependenciesCommitted
PROPERTIES
  SliceIsProvenance
  WalkEnds

SPECIFICATION Spec
CONSTANTS
  Lifetimes = {"root", "a", "b", "x"}
  Root = "root"
  External = {"x"}
  MaxEpoch = 1
  WatchPrefixes <- MCWatch
  SystemState <- MCSystem
  Recognized <- MCRecognized
  CacheEntries <- MCCache
  Mentions <- MCMentions
  AllBuilds <- CopyOnly
  Workspace <- MCWorkspace
  MaxLost = 0
CHECK_DEADLOCK FALSE
INVARIANT DependenciesCommitted

SPECIFICATION FairSpec
CONSTANTS
  Root = root
  Pids = {root, p1}
  Fds = {fd}
  PathClasses <- OnePath
  Workload = {"openat", "close", "mmap"}
  WatchMode = TRUE
  CloneExitAttached = TRUE
  LeaderMayExitFirst = TRUE
  RootPidRecycled = TRUE
  RingCap = 1
  TrackedCap = 2
  StashCap = 1
  WatchedFdCap = 1
  MaxLost = 2
INVARIANTS
  DropsFailClosed
  StaleHasCause
  SourceTruthful
PROPERTY DropsAreCounted

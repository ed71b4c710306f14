SPECIFICATION Spec
CONSTANTS
  Root = root
  Pids = {root, p1}
  Fds = {fd}
  PathClasses <- OnePath
  Workload = {"close"}
  WatchMode = FALSE
  CloneExitAttached = FALSE
  LeaderMayExitFirst = TRUE
  RootPidRecycled = FALSE
  RingCap = 1
  TrackedCap = 3
  StashCap = 1
  WatchedFdCap = 1
  MaxLost = 1
INVARIANT NoSilentLoss

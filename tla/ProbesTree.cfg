SPECIFICATION Spec
CONSTANTS
  Root = root
  Pids = {root, p1, p2}
  Fds = {fd}
  PathClasses <- NormalPaths
  Workload = {"openat", "rename", "unlink", "close", "mmap"}
  WatchMode = TRUE
  CloneExitAttached = TRUE
  LeaderMayExitFirst = FALSE
  RootPidRecycled = FALSE
  RingCap = 1
  TrackedCap = 2
  StashCap = 1
  WatchedFdCap = 1
  MaxLost = 1
SYMMETRY Symmetry
INVARIANTS
  TypeOK
  NoSilentLoss
  TreeTracked
  StashesInFlight
  ExternalWritesSeen

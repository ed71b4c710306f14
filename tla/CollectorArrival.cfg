SPECIFICATION Spec
CONSTANTS
  Root = root
  Pids = {root}
  Fds = {fd}
  Files = {f1}
  Names <- OneName
  BadNames = {}
  Tool <- ToolA
  Cwds <- HomeOnly
  Home <- NoCwd
  DirFd <- Sub
  Styles = {"cwd"}
  Modes = {"r", "w", "trunc"}
  Workload = {"open"}
  Ties = FALSE
  OutlivesRoot = FALSE
  MaxBirths = 2
  MaxTime = 4
  MaxWrites = 2
  WatchPrefixes <- Everywhere
  MaxGeneration = 1000
CHECK_DEADLOCK FALSE
INVARIANTS HashedOnArrival

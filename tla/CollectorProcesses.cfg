SPECIFICATION Spec
CONSTANTS
  Root = root
  Pids = {root, p1}
  Fds = {fd}
  Files = {f1}
  Names <- OneName
  BadNames = {}
  Tool <- ToolA
  Cwds <- HomeOnly
  Home <- NoCwd
  DirFd <- Sub
  Styles = {"abs"}
  Modes = {"w"}
  Workload = {"open", "close", "mmap", "fork", "thread", "exec"}
  Ties = FALSE
  OutlivesRoot = TRUE
  MaxBirths = 2
  MaxTime = 7
  MaxWrites = 1
  WatchPrefixes <- Everywhere
  MaxGeneration = 1000
CHECK_DEADLOCK FALSE
INVARIANTS TypeOK TreeLifetimesTruthful PathsTruthful RootExitTruthful
PROPERTIES LifetimesFresh

SPECIFICATION FairSpec
CONSTANTS
  Root = root
  Pids = {root, p1}
  Fds = {fd}
  Files = {f1}
  Names <- TwoNames
  BadNames <- BadName
  Tool <- ToolA
  Cwds <- TwoDirs
  Home <- NoCwd
  DirFd <- Sub
  Styles = {"cwd", "dirfd"}
  Modes = {"w"}
  Workload = {"open", "unlink", "chdir", "fork"}
  Ties = TRUE
  OutlivesRoot = TRUE
  MaxBirths = 2
  MaxTime = 4
  MaxWrites = 2
  WatchPrefixes <- Everywhere
  MaxGeneration = 1000
CHECK_DEADLOCK FALSE
PROPERTIES Terminates

SPECIFICATION Spec
CONSTANTS
  Root = root
  Pids = {root, p1}
  Fds = {fd}
  Files = {f1, f2}
  Names <- DirNames
  BadNames = {}
  Tool <- ToolA
  Cwds <- HomeOnly
  Home <- NoCwd
  DirFd <- NoCwd
  Styles = {"cwd"}
  Modes = {"r", "trunc"}
  Workload = {"open", "close", "mmap", "rename", "exchange", "unlink", "external"}
  Ties = FALSE
  OutlivesRoot = FALSE
  MaxBirths = 1
  MaxTime = 5
  MaxWrites = 1
  WatchPrefixes <- UnderD
  MaxGeneration = 1000
CHECK_DEADLOCK FALSE
INVARIANTS PathsTruthful EventsAccounted
SYMMETRY Symmetry

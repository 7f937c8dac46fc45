SPECIFICATION Spec
CONSTANTS
  l1 = l1  l2 = l2  io = io  main = main  net = net
  Handles = {l1, l2}
  HandleKind <- MCHandleKind
  Names = {main, net}
  Main = main
  NULL = NULL
  Unbuilt = Unbuilt
  ThreadIds = {t1}
  ThreadNames = {"worker"}
  ModuleNames = {io}
  Vars = {m1, m2}
  LevelsUsed = {"WARNING", "ERROR"}
SYMMETRY Symmetry
INVARIANTS SettingsLast LinesFollowVerbosity ModuleReachesTrace

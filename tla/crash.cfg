SPECIFICATION CrashSpec
CONSTANTS
  t1 = t1  t2 = t2
  c1 = c1  s1 = s1  l2 = l2
  main = main  net = net
  Tasks = {t1, t2}
  MaxLevel = 1
  MaxSignals = 1
  Threads <- MCThreads
  Handles <- PairHandles
  HandleKind <- MCHandleKind
  Uses <- PairUses
  Ends = {}
  Statics = {s1}
  Names = {main}
  Main = main
  Objs = {o1, o2, o3}
  NULL = NULL
  Garbage = Garbage
  Unbuilt = Unbuilt
  ExitHandler = ExitHandler
  MaxAtexit = 2
  Failures = TRUE
  ABRT = ABRT  SEGV = SEGV
  Order <- OnlyAbort
  Faults = {}
  Abort = ABRT
CHECK_DEADLOCK FALSE
SYMMETRY Symmetry
INVARIANTS NoDangling ReportsAgree CrashReported ClientOutlivesChannels
PROPERTIES KeptClientIsFound ExitUsesUpWork ImplementsNames

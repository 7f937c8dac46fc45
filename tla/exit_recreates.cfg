SPECIFICATION FairCrashSpec
CONSTANTS
  t1 = t1  t2 = t2
  c1 = c1  s1 = s1  l2 = l2
  main = main  net = net
  Tasks = {t1}
  MaxLevel = 0
  MaxSignals = 0
  Threads <- MCThreads
  Handles <- StaticHandles
  HandleKind <- MCHandleKind
  Uses <- StaticUses
  Ends = {t1}
  Statics = {s1}
  Names = {main}
  Main = main
  Objs = {o1, o2}
  NULL = NULL
  Garbage = Garbage
  Unbuilt = Unbuilt
  ExitHandler = ExitHandler
  MaxAtexit = 2
  Failures = FALSE
  ABRT = ABRT  SEGV = SEGV
  Order <- MCOrder
  Faults = {SEGV}
  Abort = ABRT
CHECK_DEADLOCK FALSE
PROPERTY NotCreatedConstantly

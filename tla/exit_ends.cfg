SPECIFICATION FairCrashSpec
CONSTANTS
  t1 = t1  t2 = t2
  c1 = c1  s1 = s1  l2 = l2
  main = main  net = net
  Tasks = {t1}
  MaxLevel = 2
  MaxSignals = 2
  Threads <- MCThreads
  Handles <- LoneHandles
  HandleKind <- MCHandleKind
  Uses <- LoneUses
  Ends = {t1}
  Statics = {}
  Names = {main, net}
  Main = main
  Objs = {o1, o2, o3}
  NULL = NULL
  Garbage = Garbage
  Unbuilt = Unbuilt
  ExitHandler = ExitHandler
  MaxAtexit = 2
  Failures = FALSE
  ABRT = ABRT  SEGV = SEGV
  Order <- MCOrder
  Faults = {SEGV}
  Abort = ABRT
CHECK_DEADLOCK FALSE
INVARIANTS CrashTypeOK NoDangling ReportsAgree CrashReported FreeUntilShared
PROPERTIES ExitTerminates KeptClientIsFound ExitUsesUpWork

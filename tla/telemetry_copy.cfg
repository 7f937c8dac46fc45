SPECIFICATION CopySpec
CONSTANTS
  t1 = t1  t2 = t2
  c1 = c1  l1 = l1  l2 = l2  g1 = g1  g2 = g2
  main = main  net = net
  Threads = {t1}
  Handles = {g1, g2}
  HandleKind <- MCHandleKind
  Statics = {}
  Names = {main}
  Main = main
  Objs = {o1, o2}
  NULL = NULL
  Unbuilt = Unbuilt
  ExitHandler = ExitHandler
  MaxAtexit = 2
  Failures = FALSE
CHECK_DEADLOCK FALSE
PROPERTY TelemetryStays

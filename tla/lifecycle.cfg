SPECIFICATION Spec
CONSTANTS
  t1 = t1  t2 = t2
  c1 = c1  l1 = l1  l2 = l2  g1 = g1  g2 = g2
  main = main  net = net
  Threads = {t1, t2}
  Handles = {c1, l1, l2, g1}
  HandleKind <- MCHandleKind
  Statics = {}
  Names = {main, net}
  Main = main
  Objs = {o1, o2, o3, o4}
  NULL = NULL
  Unbuilt = Unbuilt
  ExitHandler = ExitHandler
  MaxAtexit = 2
  Failures = TRUE
SYMMETRY Symmetry
INVARIANTS TypeOK RefAccounting NoDangling SameNameSameObject ArmedBeforeLogging ClientOutlivesChannels IndInv
PROPERTIES TelemetryStays ImplementsNames

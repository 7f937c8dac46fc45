SPECIFICATION Spec
CONSTANTS
  c1 = c1  l1 = l1
  main = main
  Args <- MCArgs
  MaxArgs = 2
  Formats = {"default", "message"}
  Handles = {c1, l1}
  HandleKind <- MCHandleKind
  Names = {main}
  Main = main
  NULL = NULL
  Unbuilt = Unbuilt
CHECK_DEADLOCK FALSE
INVARIANT SettingsReachClient

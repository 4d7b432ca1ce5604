SPECIFICATION Spec
CONSTANTS
  Procs = {p1, p2, p3}
  None = None
  MaxCode = 1
  MaxWaits = 1
INVARIANT QuitLeavesNoServer
CHECK_DEADLOCK FALSE

SPECIFICATION MCSpec
CONSTANTS
  Observers = {o1, o2}
  Curators = {c1}
  Editors = {e1}
  Process <- MCProcess
  Updaters = {u1, u2}
  MaxNotes = 2
  MaxStash = 2
  NoWriter = NoWriter
  Procs = {p1, p2, p3}
  None = None
  MaxCode = 1
  MaxWaits = 1
  Key = {k1, k2}
  Secret = {k1}
  Value = {v}
  Blank = Blank
  Requests = {r1, r2}
SYMMETRY MCSymmetry
INVARIANTS
  TypesOK
  HandleIsCurrent
  WindowFollowsBackend
  RestIsKept
PROPERTIES
  UpdateKeepsMemory
  LockedWriteLosesNothing
  OnlyAsAsked
CHECK_DEADLOCK FALSE

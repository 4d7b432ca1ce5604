\* A removal and a chat in the same session.
CONSTANTS
  Slots = {r1, r2}
  Threads = {t1}
  Projects = {p1}
  PoolSize = 2
  MaxMessages = 4
  Free = Free
  Unfiled = Unfiled
  NoThread = NoThread

SPECIFICATION Spec

INVARIANT DeletedLeavesNothing

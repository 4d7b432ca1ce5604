\* Three requests at a time: a run, and two that race behind it.  As many
\* threads as requests: with fewer, a run that is left between two events
\* could not go on while all threads wait for its lock.
CONSTANTS
  Slots = {r1, r2, r3}
  Threads = {t1}
  Projects = {p1}
  PoolSize = 3
  MaxMessages = 4
  Free = Free
  Unfiled = Unfiled
  NoThread = NoThread

SPECIFICATION FairSpec

INVARIANTS
  MemoryIsCheckpoint
  ProjectsExist

PROPERTIES
  LockFreed
  ImplementsConversations

\* Everything that may happen to one process.
CONSTANTS
  loop = loop
  button = button
  cron = cron
  Workers <- MCServerWorkers
  Process <- MCOneProcess
  NumPages = 2
  MaxJobs = 2
  MaxJobsPerCycle = 1
  MaxAttempts = 3
  BackoffBase = 2
  BackoffCap = 3
  MinRecurate = 2
  CallTimeout = 1
  Events = {"crash", "sql_error", "revive"}
  NoWorker = NoWorker

SPECIFICATION Spec

INVARIANTS
  TypeOK
  ExclusiveClaim
  DeadWhenExhausted

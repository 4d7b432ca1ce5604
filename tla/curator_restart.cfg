\* One page, one job, a process that may die.
CONSTANTS
  loop = loop
  button = button
  cron = cron
  Workers <- MCServerWorkers
  Process <- MCOneProcess
  NumPages = 1
  MaxJobs = 1
  MaxJobsPerCycle = 1
  MaxAttempts = 3
  BackoffBase = 2
  BackoffCap = 3
  MinRecurate = 2
  CallTimeout = 1
  Events = {"crash"}
  NoWorker = NoWorker

SPECIFICATION FairSpec

PROPERTY JobSettles

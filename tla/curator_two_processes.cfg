\* The web server's background thread and the cron job on one database.
CONSTANTS
  loop = loop
  button = button
  cron = cron
  Workers <- MCTwoWorkers
  Process <- MCTwoProcesses
  NumPages = 1
  MaxJobs = 1
  MaxJobsPerCycle = 1
  MaxAttempts = 3
  BackoffBase = 2
  BackoffCap = 3
  MinRecurate = 2
  CallTimeout = 1
  Events = {}
  NoWorker = NoWorker

SPECIFICATION Spec

INVARIANT ExclusiveClaim

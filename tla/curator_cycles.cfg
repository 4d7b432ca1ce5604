\* Two pages and one job per cycle: a job waits while others are served.
CONSTANTS
  loop = loop
  button = button
  cron = cron
  Workers <- MCServerWorkers
  Process <- MCOneProcess
  NumPages = 2
  MaxJobs = 3
  MaxJobsPerCycle = 1
  MaxAttempts = 3
  BackoffBase = 2
  BackoffCap = 3
  MinRecurate = 2
  CallTimeout = 1
  Events = {}
  NoWorker = NoWorker

SPECIFICATION FairSpec

INVARIANT OneLiveJobPerPage

PROPERTIES
  NotCuratedTooSoon
  ImplementsJobQueue
  JobSettles
  PageRevisited

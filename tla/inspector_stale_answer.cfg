CONSTANTS
  MaxToolCalls = 1
  MaxBatch = 1
  MaxRuns = 2
  Outcomes <- MCThreadOutcomes

SPECIFICATION Spec

INVARIANT AnswerIsOfThisRun

\* Nobody has to ask again: a thread may stop for good.
CHECK_DEADLOCK FALSE

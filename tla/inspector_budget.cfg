\* One question, with a budget that several batches fit in.
CONSTANTS
  MaxToolCalls = 3
  MaxBatch = 2
  MaxRuns = 1
  Outcomes <- MCRunOutcomes

SPECIFICATION FairSpec

INVARIANTS
  NoRecursionError
  BudgetRespected
  BudgetStopIsASignal

PROPERTY
  RunFinishes

\* Nobody has to ask again: a thread may stop for good.
CHECK_DEADLOCK FALSE

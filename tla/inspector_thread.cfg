\* Three questions would only repeat what two show: every property relates a
\* run to what an earlier run of its thread left behind.
CONSTANTS
  MaxToolCalls = 2
  MaxBatch = 2
  MaxRuns = 2
  Outcomes <- MCThreadOutcomes

SPECIFICATION Spec

INVARIANTS
  TypeOK
  RequestHistoryValid
  RecordedOnce
  NothingObservedIsLost
  OwnReplyReported

\* Nobody has to ask again: a thread may stop for good.
CHECK_DEADLOCK FALSE

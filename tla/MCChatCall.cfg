SPECIFICATION MCSpec
CONSTANTS
  c1 = c1
  c2 = c2
  Calls = {c1, c2}
  Requests <- MCRequests
  Exporting = {TRUE, FALSE}
  QueueSize = 1
INVARIANTS TypeOK AccountedOnce RecordMatchesSamples OutcomeComesFirst
PROPERTIES FlushCoversSettled EachGivesOneVerdict TimedCallsSettle

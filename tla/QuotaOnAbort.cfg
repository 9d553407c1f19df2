SPECIFICATION Spec
CONSTANTS
  c1 = c1
  c2 = c2
  Calls = {c1}
  Requests <- UnaryRequests
  Exporting = {TRUE}
  QueueSize = 1
INVARIANT QuotaOnlyWhenSent

SPECIFICATION Spec
CONSTANTS
  c1 = c1
  c2 = c2
  Calls = {c1}
  Requests <- MCRequests
  Exporting = {TRUE}
  QueueSize = 1
INVARIANT GoodputAgrees

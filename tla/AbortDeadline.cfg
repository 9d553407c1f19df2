SPECIFICATION Spec
CONSTANTS
  MaxDurations = {2}
  MaxTokens = {0}
  Timeouts = {0}
  Wires = {"openai"}
  ToolIndexes = {0}
  TokenCounts <- MCTokenCounts
  MaxNow = 3
  MaxSegments = 3
  DrainLimit = 1
INVARIANT DeadlineResolvesAborted

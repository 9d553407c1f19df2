SPECIFICATION Spec
CONSTANTS
  MaxDurations = {0, 2}
  MaxTokens = {0, 2}
  Timeouts = {0, 3}
  Wires = {"openai", "anthropic", "responses", "v4"}
  ToolIndexes = {0}
  TokenCounts <- MCTokenCounts
  MaxNow = 3
  MaxSegments = 3
  DrainLimit = 1
INVARIANTS TypeOK TimesInOrder OneGapPerLaterChunk TextPhaseMeasured BudgetHolds AbortHasCause CompleteReplyEnded
PROPERTIES FrozenOnceStopped GivesOneVerdict ReturnsUnderALimit

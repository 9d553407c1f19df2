SPECIFICATION Spec
CONSTANTS
  MaxSends = 3
  MaxResets = 2
  Systems = {TRUE, FALSE}
  CacheStates = {"none", "cold"}
  Usages <- MCUsages
INVARIANTS TypeOK HistoryWellFormed AwaitedHistoryPairs ReplyInHistory ColdStartsClean TokensAddUp

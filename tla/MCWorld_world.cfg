CONSTANTS
  other = other
  Objects = {o1}
  Keys <- MCKeys
  Callers <- MCCallers
  Tasks = {t1, t2, t3}
  PostTasks = {t3}
  Agented = {t1, t2}
  Untils = {"merged"}
  Loops = {l1}
  Feed = Feed
  Http = Http
  None = None
  NoTask = NoTask
  NoKey = NoKey
  NoEvent = NoEvent
  MemoryCap = 2
  Lookback = 2
  MaxFail = 1
  MaxMoves = 2
  MaxRequests = 2
  MaxFaults = 1
SPECIFICATION FairSpec
INVARIANTS OneWakePerFact FeedLeavesNoGap WatchedEndWakes
PROPERTIES EndedWatchIsAFact
CHECK_DEADLOCK FALSE

SPECIFICATION PagingSpec
CONSTANTS
  Lists <- StampedLists
  Places = {2, 3}
  Ids = {1, 2, 3}
  Limit = 1
  Tick = 2
  Start = Start
CHECK_DEADLOCK FALSE
INVARIANT NoRowSkippedOrRepeated

SPECIFICATION FairReadsSpec
CONSTANTS
  Flows = {f1, f2}
  Configs = {k1, k2, k3}
  None = None
  Readers = {r1}
  Payloads <- Parts
  MaxWrites = 4
  Unread = Unread
  Gone = Gone
  Lists <- KeyedLists
  Places = {1, 2, 3, 4}
  Ids = {1, 2, 3, 4}
  Limit = 2
  Tick = 1
  Start = Start
CHECK_DEADLOCK FALSE
INVARIANTS WiderOnlyByReplacedRules NoRowSkippedOrRepeated
PROPERTIES PollingNeverStops QuietAfterClose Converges

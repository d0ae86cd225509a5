SPECIFICATION FairSpec
CONSTANTS
  Calls = {c1, c2, c3}
  Seed = Seed
  Payloads <- PairedParts
  RuleSets <- OverlappingRules
  TargetSets <- OneTarget
CHECK_DEADLOCK FALSE
INVARIANTS ConfigMatchesHistory RowsInForce
PROPERTY EveryPublishEnds

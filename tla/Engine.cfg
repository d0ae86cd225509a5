SPECIFICATION Spec
CONSTANTS
  Plans = {"pro"}
  Percentages = {10, 50}
  Gates = {0, 1, 100, Null}
  BucketBys = {Null, "plan"}
  Conditions <- OneCondition
  ValueLists <- Lists
  Segments = {"beta"}
  Buckets = {0, 10}
  MaxRules = 2
  Null = Null
  Missing = Missing
INVARIANT ThresholdsPartition
PROPERTIES RolloutIsSticky EarlierRulesDecide RaisedGateOnlyGains

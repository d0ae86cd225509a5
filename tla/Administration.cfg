SPECIFICATION Spec
CONSTANTS
  Calls = {1, 2}
  Users = {"ann", "bob"}
  Managers = {"ann"}
  Areas <- AllAreas
  MaxSuffix = 2
CHECK_DEADLOCK FALSE
INVARIANTS EveryProjectIsWhole ConditionsOfOneUpdate
PROPERTY CreatesTakeWhatIsFree

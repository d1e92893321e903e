SPECIFICATION TrackingSpec
CONSTANTS
  Kinds = {"list", "table", "ordered", "sorted"}
  StartSizes = {0, 3}
  MaxSize = 3
  MaxOperations = 3
  Huge = 9
INVARIANTS ToldIsTrue ModificationsAreTold SetsAreSound
CHECK_DEADLOCK FALSE

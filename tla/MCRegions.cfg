SPECIFICATION Spec
CONSTANTS
  Clients = {c1, c2, c3}
  Projects = {c3}
  describeRegionExpireHours = 1
  Expire = 3
  CallTime = 1
  MaxTime = 3
  N = 1
  MaxSlices = 2
INVARIANTS
  OwnRegions
PROPERTIES
  FreshEnough
  PanicOnlyAtFirst
CHECK_DEADLOCK FALSE

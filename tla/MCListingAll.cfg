SPECIFICATION Spec
CONSTANTS
  Key = {1, 2, 4, 5, 7}
  Folder <- MCFolder
  PrefixKey = 1
  MaxCounts = {0, 1, 2, 9}
  Limit = 2
  MaxChanges = 0
  MaxListed = 5
  Operations = {"all"}
INVARIANTS
  EachObjectOnce
CHECK_DEADLOCK FALSE

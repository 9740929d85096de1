SPECIFICATION Spec
CONSTANTS
  Key = {1, 2, 4, 5, 7}
  Folder <- MCFolder
  PrefixKey = 1
  MaxCounts = {0, 1, 2}
  Limit = 3
  MaxChanges = 2
  MaxListed = 5
  Operations = {"paged", "all", "delete"}
INVARIANTS
  PagesMissNothing
  DeletedWhenNil
PROPERTIES
  PagingEnds
CHECK_DEADLOCK FALSE

SPECIFICATION Spec
CONSTANTS
  Keys = {k1, k2}
  Ttls = {600, 3600}
  MaxFailures = 1
  MaxMeddles = 1
  Callers = {c1, c2}
  Rules = {r1, r2}
  Ids <- MCIds
  MaxOld = 2
  MaxGiven = 2
  MaxFails = 3
INVARIANTS
  SyncedWhenNil
  OnlyOverlapsLose
  NoDiskLost
  OneFailureLeaves
PROPERTIES
  ChangesWhatIsNamed
  EventuallySynced
CHECK_DEADLOCK FALSE

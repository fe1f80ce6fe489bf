SPECIFICATION Spec
CONSTANTS
  Name = {ad}
  Retentions <- MCRetentions
  Day = 2
  Horizon = 5
  MaxRows = 2
  MaxDrift = 1
CHECK_DEADLOCK FALSE
INVARIANTS
  LogTypeOK
  SearchShowsNewest
  RepliesDriftByInsertsOnly
  RowsExpire

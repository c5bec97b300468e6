SPECIFICATION FairSpec
CONSTANTS
  NULL = NULL
  Dirs = {d1}
  Limits <- MCLimits
  Reserves = {0, 2}
  ReserveCount = 1
  MinuteLength = 2
  DayMinutes = 2
  Lag = 1
  MaxRecords = 3
  MaxTime = 3
  MaxChanges = 2
  MaxFaults = 1
INVARIANTS
  TypeOK
  DayPure
  UnflushedIsFlagged
  OpenIsThere
  NoFileForgotten
PROPERTIES
  KeptWithinLimit
  StoredStays
  WrittenIsStored
  ImplementsStore

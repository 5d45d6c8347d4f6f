SPECIFICATION FairSpec
CONSTANTS
  Names = {s1}
  Checks = {c1, c2}
  Handlers = {h1}
  Def <- MCDef
  NoRow = NoRow
  MaxClock = 2
  MaxFaults = 1
  MaxCrashes = 1
CHECK_DEADLOCK FALSE
INVARIANTS FreshInstant DueIsWanted NoOrphanTask
PROPERTIES DueIsServed

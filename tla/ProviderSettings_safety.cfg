SPECIFICATION FairSpec
CONSTANTS
  a1 = a1
  a2 = a2
  a3 = a3
  taime = taime
  helper = helper
  mine = mine
  Agents = {a1, a2, a3}
  Names <- MCNames
  Wants <- MCWants
  NoEntry = none
  User = user
  UserNames = {mine, helper}
  MaxCrashes = 1
INVARIANTS EntryIsOwed
PROPERTIES OthersKept RowWorkedOff
CHECK_DEADLOCK FALSE

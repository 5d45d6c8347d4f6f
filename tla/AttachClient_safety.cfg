SPECIFICATION AttachSpec
CONSTANTS
  MaxViews = 2
  MaxCuts = 1
CHECK_DEADLOCK FALSE
INVARIANTS LiveIsFed OpenStaysOpen
PROPERTIES NoPhantom

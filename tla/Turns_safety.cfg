SPECIFICATION TickSpec
CONSTANTS
  Paths = {p}
  NoTime = NoTime
  MaxOut = 2
  MaxTime = 1
CHECK_DEADLOCK FALSE
INVARIANTS Tiling PathsChargedOnce 
PROPERTIES QuietOutputCloses

SPECIFICATION LiveSpec
CONSTANTS
  Keys = {k1, k2, k3}
  App = App
  MaxDepth = 1
  MaxFan = 1
CHECK_DEADLOCK FALSE
INVARIANTS FanBound CleanSweep
PROPERTIES SlotFreed

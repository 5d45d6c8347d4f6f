SPECIFICATION Spec
CONSTANTS
  Daemons = {d1, d2}
  First = d1
  Clients = {c1, c2}
  None = None
  MaxOps = 2
  MaxFaults = 1
SYMMETRY Symmetry
VIEW View
CHECK_DEADLOCK FALSE
INVARIANTS OneServer IdleMeansIdle HealthyStays NoGhost

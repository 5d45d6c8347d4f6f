SPECIFICATION WorktreesSpec
CONSTANTS
  Agents = {a}
  Threads = {t1, t2}
  Nobody = nobody
  NoWork = none
  Torn = torn
  Keep = 0
  MaxWork = 1
  MaxJobs = 3
  MaxCrashes = 2
SYMMETRY Symmetry
CHECK_DEADLOCK FALSE
INVARIANTS LossIsKnown ReviewShowsArchive

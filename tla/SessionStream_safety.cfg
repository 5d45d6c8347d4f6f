SPECIFICATION DrainSpec
CONSTANTS
  Conns = {c1}
  NoConn = NoConn
  High = 1
  Low = 1
  Chunk = 1
  KernelBuf = 1
  MaxOut = 3
  MaxQueue = 1
CHECK_DEADLOCK FALSE
INVARIANTS ParkedIsOwed
PROPERTIES FeedSpec ReaderEnds ViewerSeesAll KillLandsOnTty

CONSTANTS
  Thread = {t1, t2}
  DskId = {d1}
  DiskId = {"ab"}
  Info <- MCInfo
  Loops = {2}
  DefMs = 40
  MaxAsk = 1
  WORD = 8
  Threaded = TRUE
  BLK = 2
  BLKS = 2
  TRIES = 2
  IBUF = 3
  OBUF = 4
  RATIO = 2
  GZH = 2
  GZT = 2
  ID = 2
  HDR = 3
  CHUNK = 1
  ICEH = 2
  Sources <- MCSources
  PieceEnds <- MCPieceEnds
  Deflated = 6
  ZBUF = 2
  FBUF = 3
  Sinks <- MCSinks
  CUSTOM = 2
  FR_MAX = 1000000
  MIN_MS = 45000
  MAX_LP = 4
  Split <- MCSplit
  Unknown = {"unknown (B)"}
  Year = {"1990"}
  TimeDb <- MCTimeDb
  Files <- MCFiles
  Keys = {"artist", "aka", "year"}
  Vals = {"A"}
  Lengths = {5000}
  HwSets <- MCHwSets
  MaxEdit = 2
SPECIFICATION FrontSpec
INVARIANTS FrontTypeOK LoopAccounting OneAtATime InstancesSound StopsKept StringsOwned SavedIsLoaded WholeFiles
PROPERTIES StreamsInOrder CallsReturn

CONSTANTS
  ab = ab
  ff = ff
  xx = xx
  DiskId = {ab, ff}
  Info <- MCInfo
  Loops <- AnyLoop
  DefMs = 40
  MaxAsk = 2
  WORD = 8
  Threaded = FALSE
SPECIFICATION FairSpec
INVARIANTS TypeOK NoFault TracksAllowed BufferInBounds RequestKeptToTrackEnd LoopsThenEnd
PROPERTIES OneOwner PlaysAsPromised RequestAnswered DiskEnds

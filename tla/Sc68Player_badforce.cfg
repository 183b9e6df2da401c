CONSTANTS
  ab = ab
  ff = ff
  xx = xx
  DiskId = {ab,xx}
  Info <- MCInfo
  Loops <- AnyLoop
  DefMs = 40
  MaxAsk = 2
  WORD = 16
  Threaded = FALSE
SPECIFICATION Spec
INVARIANT DiskAlive

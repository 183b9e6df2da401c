CONSTANTS
  ab = ab
  ff = ff
  xx = xx
  DiskId = {ab}
  Info <- MCInfo
  Loops <- OnlyInf
  DefMs = 40
  MaxAsk = 2
  WORD = 16
  Threaded = TRUE
SPECIFICATION Spec
INVARIANT RequestKept

CONSTANTS
  Lines <- UsedAndFree
  LoOf <- RealLines
  HiOf <- RealLines
  Timers = {1, 4}
  MUL = 2
  Width <- MCWidth
  TdrMax = 2
  CPP = 2
  Data = {0, 1}
  MaxCti = 8
  TOP = 16
  Bases = {0, 4}
  Ends = {4, 6, 10}
  Stride <- MCStride
  Voices = {1, 2}
  Starts <- MCStarts
  Lengths <- MCLengths
  LenMax = 3
  PerStep <- MCPerStep
  Reg = {0, 1}
  Val = {0, 1}
  Reset0 <- MCReset0
  ListMax = 2
  Times = {0, 21}
  PassLength = 38
  Ratio = 2
  FIX = 2
  CPS = 3
  Engine = {"blep", "puls"}
SPECIFICATION ChipsSpec
INVARIANTS ChipsTypeOK BusSound TracksApart OnTime NeverStuck NothingForgotten SamplesOfTime
PROPERTIES InOrder PassEnds DmaPlaysBlocks PaulaPlaysBlocks

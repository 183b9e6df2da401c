CONSTANTS
  TrapMax = 3
  InitMax = 5
  PlayMax = 6
  CPP = 3
  PlayCode = {"op", "move_sr", "push", "drop", "rts", "rte", "trap", "stop", "reset"}
  IrqCode = {"op", "push", "rts", "rte", "trap"}
  MaxDepth = 4
  MaxIrqs = 3
  MaxPass = 2
  SIGN_BIT = 8
  HALF = 256
  Bits <- MCBits
  SHIFTS = 16
  DReg = {"d0", "d1"}
  AReg = {"a0", "a7"}
  SP = "a7"
  Order <- MCOrder
  MEM = 16
  Registers <- MCRegisters
  Memories <- MCMemories
  Imm = {1, 136, 255}
  Disp = {3}
  Abs = {0, 9}
  IndexBy <- MCIndexBy
  Ccrs <- MCCcrs
  MaxInst = 1
SPECIFICATION CpuSpec
INVARIANTS CpuTypeOK HandlersReturn EveryInterruptRuns ChipClock ArithmeticExact ShiftsByBits RestoresRegisters
PROPERTIES FinishEnds Contained

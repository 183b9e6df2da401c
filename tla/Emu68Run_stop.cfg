CONSTANTS
  TrapMax = 3
  InitMax = 4
  PlayMax = 4
  CPP = 2
  PlayCode = {"op", "move_sr", "push", "drop", "rts", "rte", "trap", "stop", "reset"}
  IrqCode = {"op", "rte", "stop"}
  MaxDepth = 3
  MaxIrqs = 3
  MaxPass = 2
SPECIFICATION Spec
INVARIANT NotStopped

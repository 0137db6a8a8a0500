CONSTANTS
  n1 = n1
  Names = {n1}
  MemoryModes = {TRUE, FALSE}
  MaxFix = 0
  MaxExploreCalls = 1
  MaxTurns = 3
SPECIFICATION Spec
PROPERTY EveryColdTurnLeavesMemory

CONSTANTS
  n1 = n1
  Names = {n1}
  MemoryModes = {TRUE}
  MaxFix = 0
  MaxExploreCalls = 1
  MaxTurns = 2
SPECIFICATION Spec
INVARIANT EveryRowTellsItsTurn

CONSTANTS
  n1 = n1
  n2 = n2
  Names = {n1, n2}
  MemoryModes = {TRUE, FALSE}
  MaxFix = 1
  MaxExploreCalls = 2
  MaxTurns = 2
SPECIFICATION FairSpec
INVARIANTS
  TypeOK
  DecisionsAreOwn
  GivesUpOnlyWhenSpent
  RowTellsTheTurn
PROPERTIES
  CreditsAreEarned
  ColdTurnLeavesMemory
  KeepsContract
  TurnEnds

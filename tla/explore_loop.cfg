CONSTANTS
  Budgets = {0, 1, 4}
  MaxBatch = 3
SPECIFICATION FairSpec
INVARIANTS
  TypeOK
  CostIsKnown
  RequestsAreAnswered
  ReturnsItsCost
PROPERTY LoopEnds

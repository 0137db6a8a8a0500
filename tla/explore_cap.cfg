CONSTANTS
  Budgets = {0, 1, 4}
  MaxBatch = 3
SPECIFICATION Spec
INVARIANT BoundedByMaxToolCalls

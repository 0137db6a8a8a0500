CONSTANTS
  a = a
  b = b
  long = long
  NoText = NoText
  Nothing = Nothing
  Numbers = {7, 8}
  Cells = {7, 8, label}
  Queries = {"own", "sorted", "old", "new"}
  Ordering = {"sorted", "new"}
  Messages = {"q1", "q2"}
  Texts = {a, b, long}
  Seeds <- SomeSeeds
  Refused = {long}
  Reference <- SomeReference
  KeyOrdered <- SomeKey
  Rollouts <- HalfRight
  Replays <- SomeReplays
  Probes = {p}
  p = p
  label = label
  Stores <- SomeStores
  Minibatch <- SomeMinibatch
  Splits <- OneSplit
  Grain = 6
  MinSplit = 3
  OverfitN = 1
  Iterations = {0, 1}
  Budget = 6
  Tables <- SomeTables
  Spans <- SomeSpans
  MaxCommands = 1
  MaxIterations = 3
SPECIFICATION Spec
INVARIANT GateRefusesLosses

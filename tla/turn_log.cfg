CONSTANTS
  t1 = t1
  t2 = t2
  c1 = c1
  c2 = c2
  s1 = s1
  r1 = r1
  r2 = r2
  None = None
  Turns = {t1, t2, c1, c2}
  Sessions = {s1, r1, r2}
  Tracing = TRUE
  Opinions <- OneOpinion
  MaxAsked = 3
  MaxResets = 1
  Cases <- SomeCases
  Costs = {0, 1}
  Ceiling = 1
SPECIFICATION CorpusFairSpec
INVARIANTS
  TypeOK
  LoneRowIsTrue
  VerdictFindsItsTrace
  SummaryIsFiled
PROPERTIES
  AnsweredStays
  LoneRowCloses

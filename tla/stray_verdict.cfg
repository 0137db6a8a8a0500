CONSTANTS
  t1 = t1
  t2 = t2
  s1 = s1
  s2 = s2
  None = None
  Turns = {t1, t2}
  Sessions = {s1, s2}
  Tracing = TRUE
  Opinions <- OneOpinion
  MaxAsked = 2
  MaxResets = 1
SPECIFICATION Spec
SYMMETRY Symmetry
INVARIANT EveryVerdictFindsItsTrace

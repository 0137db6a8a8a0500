CONSTANTS
  t1 = t1
  t2 = t2
  s1 = s1
  None = None
  Turns = {t1, t2}
  Sessions = {s1}
  Tracing = TRUE
  Opinions <- OneOpinion
  MaxAsked = 2
  MaxResets = 0
SPECIFICATION Spec
SYMMETRY Symmetry
INVARIANT NoRowLooksInFlight

CONSTANTS
  t1 = t1
  t2 = t2
  NoTurn = NoTurn
  a = a
  b = b
  Turns = {t1, t2}
  Callers = {t1, t2}
  Endpoints = {a, b}
  PoolMax = 1
  MaxFix = 1
  Tries = 2
  MaxAsks = 1
SPECIFICATION FairSpec
INVARIANTS
  TypeOK
  OneEngine
  PoolIsWhole
  TriesAreSpent
  AnswersAreCapped
  FieldFailsNobody
PROPERTIES
  EveryTurnEnds

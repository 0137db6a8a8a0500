CONSTANTS
  t1 = t1
  t2 = t2
  n1 = n1
  a = a
  b = b
  None = None
  Unknown = Unknown
  Person = Person
  Turns = {t1, t2}
  Names = {n1}
  Shapes = {a, b}
  MaxBatch = 2
  MaxEdits = 1
  MaxMoves = 1
SPECIFICATION Spec
SYMMETRY Symmetry
INVARIANTS
  TypeOK
  OneEntryPerName
  HitsAreCredits
  FingerprintIsTheAuthors
PROPERTIES
  CurationHolds

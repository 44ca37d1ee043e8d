\* Four owners, a list of at most three, three ICRs (so that ties occur) and
\* the refused ICR 0; every pair of addresses is tried as a hint.
CONSTANTS
  a1 = a1
  a2 = a2
  a3 = a3
  a4 = a4
  NULL = NULL
  Ids <- MCIds
  ICRs = {0, 1, 2, 3}
  MaxSize = 3
SPECIFICATION Spec
INVARIANT TypeOK
INVARIANT WellLinked
PROPERTY ImplementsSortedList
PROPERTY ValidHintHonoured

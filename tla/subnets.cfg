SPECIFICATION Spec
CONSTANTS
  n1 = n1
  n2 = n2
  t1 = t1
  t2 = t2
  Names = {n1, n2}
  Empty = Empty
  Tags = {t1, t2}
  Patterns <- MCPatterns
  Invalid = Invalid
  TagLists <- MCTagLists
  MaxSubnets = 2
  None = None
INVARIANTS
  ListedAsSpecified
  QueryAgreesWithMatcher
CHECK_DEADLOCK FALSE

SPECIFICATION FairSpec
CONSTANTS
  k1 = k1
  k2 = k2
  k3 = k3
  k4 = k4
  v1 = v1
  v2 = v2
  NoValue = NoValue
  Keys <- MCKeys
  Values <- MCValues
  MAX_TABLE = 3
  Hash <- MCHash
  MaxNew = 3
INVARIANTS
  TypeOK
  Linked
  GetValueAnswers
  VisitsEachOnce
PROPERTIES
  ImplementsMap
  Returns

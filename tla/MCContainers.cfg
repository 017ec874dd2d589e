\* A vector and a list of few values, over every order of calls.  What is lost,
\* broken or destroyed is not used any more: the runs end there.
CONSTANTS
  Vectors = {v, w}
  Values = {a, b}
  Objects = {a, b}
  Garbage = garbage
  NoValue = none
  ExtendSize = 2
  MaxCount = 3
  MaxNew = 4
SPECIFICATION Spec
CHECK_DEADLOCK FALSE
INVARIANTS VectorTypeOK ListLinked
PROPERTIES ImplementsVector ImplementsList

SPECIFICATION FairSpec
CONSTANTS
  Nodes <- MCNodes
  Height <- MCHeight
  Units <- MCUnits
  MaxDepth = 6
INVARIANTS
  TypeOK
  ScopesNest
  BindsInnermost
  ResolveExact
  SemaExact
  CheckExact
  PrintExact
  CompleteExact
  RecursionExact
PROPERTIES
  Terminates

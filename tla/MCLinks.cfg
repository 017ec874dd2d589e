SPECIFICATION Spec
CONSTANTS
  Nodes <- MCNodes
  Height <- MCHeight
  Units <- MCUnits
  MaxDepth = 6
INVARIANTS
  LinksNames

SPECIFICATION FairSpec
CHECK_DEADLOCK FALSE
CONSTANTS
  Sources <- MCSources
  MaxTokens = 200
INVARIANTS
  TypeOK
  SpellsLongest
  Delivers
  StreamOK
PROPERTIES
  Terminates

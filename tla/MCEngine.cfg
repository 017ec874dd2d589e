SPECIFICATION FairSpec
CONSTANTS
  MaxTokens = 4
  MaxStack = 3
  RuleName <- MCRuleName
  rules_ <- MCrules
  Start = "unit"
  Eof = "eof"
  TokenStreams <- MCTokenStreams
  InitContext = 0
  HasType <- MCHasType
  Act <- MCAct
  FailAct <- MCFailAct
  Contexts <- MCContexts
  Reads <- MCReads
  ReadsFirst <- MCReadsFirst
INVARIANTS
  TypeOK
  CallChain
  Positions
  TokenBounds
  FalseRestores
  MatchesGrammar
  ParseMatches
PROPERTY
  Termination

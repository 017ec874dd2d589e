SPECIFICATION MCSpec
CONSTANTS
  Programs <- OperatorPrograms
  RuleName <- SeaRuleName
  rules_ <- SeaGrammar
  Start = "compilation_unit"
  Eof = "TokEof"
  TokenStreams <- MCTokenStreams
  InitContext <- EmptyContext
  HasType <- ParseHasType
  Act <- ParseAct
  FailAct <- ParseFailAct
  Nullable <- SeaNullable
  Rank <- SeaRank
INVARIANT
  RoundTrip

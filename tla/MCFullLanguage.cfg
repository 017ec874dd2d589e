SPECIFICATION MCSpec
CONSTANTS
  Programs <- FullPrograms
  RuleName <- SeaRuleName
  rules_ <- SeaGrammar
  Start = "compilation_unit"
  Eof = "TokEof"
  TokenStreams <- MCTokenStreams
  InitContext <- EmptyContext
  HasType <- ParseHasType
  Act <- ParseAct
  FailAct <- ParseFailAct
  Nullable <- SeaNullable
  Rank <- SeaRank
INVARIANT
  Accepted

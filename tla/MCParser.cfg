SPECIFICATION MCSpec
CONSTANTS
  Programs <- SupportedPrograms
  RuleName <- SeaRuleName
  rules_ <- SeaGrammar
  Start = "compilation_unit"
  Eof = "TokEof"
  TokenStreams <- MCTokenStreams
  InitContext <- EmptyContext
  HasType <- ParseHasType
  Act <- ParseAct
  FailAct <- ParseFailAct
  Nullable <- SeaNullable
  Rank <- SeaRank
INVARIANTS
  RoundTrip
  NoStale
  PushesOne

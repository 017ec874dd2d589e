SPECIFICATION ParserSpec
CONSTANTS
  Sources <- MCSources
  Edits <- MCEdits
  Alphabet <- MCAlphabet
  MaxBody = 3
  RuleName <- SeaRuleName
  rules_ <- SeaGrammar
  Start = "compilation_unit"
  Eof = "TokEof"
  TokenStreams <- MCTokenStreams
  InitContext <- EmptyContext
  HasType <- ParseHasType
  Act <- ParseAct
  FailAct <- ParseFailAct
INVARIANTS
  RepeatProgress
  NoLeftRecursion
  NothingDropped
  StaleRefused

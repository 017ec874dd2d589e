SPECIFICATION Spec
CHECK_DEADLOCK FALSE
CONSTANTS
  Sources <- LexiconSources
  MaxTokens = 2
INVARIANTS
  LexiconRead

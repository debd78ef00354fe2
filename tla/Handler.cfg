CONSTANTS
  Kilo = 10
  MaxU64 = 50000
  MaxDuration = 100000
  Draws = 4
  Shortcuts <- MCShortcuts
  AnyMethod = "_"
  Spelling <- MCSpelling
  RuleKeys <- MCRuleKeys
  RuleAliases <- MCRuleAliases
  ServeKeys <- MCServeKeys
  ServeAliases <- MCServeAliases
  ServeHints <- MCServeHints
  Word = 4
  Files <- MCFiles
  ErrorReading <- MCErrorReading
  Width32 = 8
  Hundred = 1000
  Tolerance = 2
  OverflowChecks = TRUE
  BaseDir = "dir"
  NoWord = NoWord
  Peers = {p1, p2}
  Requests <- MCRequests
  Rolls = 4
  Clients = {c1, c2}
  Configs <- MCConfigs
  Documents <- MCDocuments
  Trials <- MCTrials
  ChunkSizes = {0, 3, 4}
  MaxCalls = 3
  MaxRules = 3
SPECIFICATION Spec
SYMMETRY Symmetry
INVARIANTS
  TypeOK
  QuantitiesAsWritten
  WarningsTell
  SuggestionsAreNearest
  AnsweredByNewestMatch
  ChaosShares
  CycledPerConnection
  ChunksMakeBody
PROPERTY
  DocumentsAllOrNothing

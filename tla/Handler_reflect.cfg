CONSTANTS
  Kilo = 10
  MaxU64 = 50000
  MaxDuration = 100000
  Draws = 4
  Shortcuts <- MCShortcuts
  AnyMethod = "_"
  Spelling <- MCSpelling
  RuleKeys <- MCRuleKeys
  RuleAliases <- MCRuleAliases
  ServeKeys <- MCServeKeys
  ServeAliases <- MCServeAliases
  ServeHints <- MCServeHints
  Word = 4
  Files <- MCFiles
  ErrorReading <- MCErrorReading
  Width32 = 8
  Hundred = 1000
  Tolerance = 2
  OverflowChecks = TRUE
  BaseDir = "dir"
  NoWord = NoWord
  Peers = {p1, p2}
  Requests <- MCRequests
  Rolls = 4
  Clients = {c1, c2}
  Configs <- MCNoConfig
  Documents <- ReflectDocuments
  Trials = {}
  ChunkSizes = {4}
  MaxCalls = 2
  MaxRules = 2
SPECIFICATION Spec
INVARIANT ReflectIsResolved

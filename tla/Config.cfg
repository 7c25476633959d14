SPECIFICATION Spec
CONSTANTS
  Suites <- BothSuites
  Environ = {"A1", "JAI_USER"}
  Matches <- EnvMatches
INVARIANTS
  LoopCheck
  CliWins
  FlagTellsConfig
  JailOfRun
PROPERTIES
  RecordsCliMode
CHECK_DEADLOCK FALSE

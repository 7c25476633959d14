SPECIFICATION Spec
CONSTANTS
  Suites <- OnlyEnv
  Environ = {"A1", "JAI_USER"}
  Matches <- EnvMatches
INVARIANT
  SetenvWins
CHECK_DEADLOCK FALSE

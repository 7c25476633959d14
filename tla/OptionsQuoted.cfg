SPECIFICATION OptionsSpec
CONSTANTS
  HasArg <- MCHasArg
  ArgLines <- NoLines
  TypedLines <- NoLines
  Candidates <- MCCandidates
  More <- MCMore
  Docs <- ManualDocs
  Environ <- MCEnviron
  npos = 1000
INVARIANTS
  QuotedByOne
CHECK_DEADLOCK FALSE

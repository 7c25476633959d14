SPECIFICATION Spec
CONSTANTS
  Procs = {p1, p2}
  Inodes = {i1, i2, i3, i4, i5}
  None = None
  Size = 2
  MaxKills = 1
  MaxEdits = 1
  Walkers = {w1, w2}
  Dirs = {d1, d2, d3, d4}
  Top = Top
  Elsewhere = Elsewhere
  Depth = 2
  MaxChanges = 2
  HasArg <- MCHasArg
  ArgLines <- MCArgLines
  TypedLines <- MCTypedLines
  Candidates <- MCCandidates
  More <- MCMore
  Docs <- MCDocs
  Environ <- MCEnviron
  npos = 1000
INVARIANTS
  NamedFilesWhole
  NoLitter
  RaceHarmless
  ReturnsOwnDir
  WalkRaceHarmless
  ReadsAsMeant
  ArgsAsMeant
  CompletionAgrees
PROPERTIES
  PasswdKept
  WalksEnd
  ParseProgresses
CHECK_DEADLOCK FALSE

SPECIFICATION Spec
CONSTANTS
  kCasual = kCasual
  kBare = kBare
  kStrict = kStrict
  max_mapped = 4
  Worlds <- AllWorlds
  Name <- FileNames
  FileSystem <- FileSystems
INVARIANTS
  IdsBelongTogether
  EverythingRestored
  GrantsAsGiven
  SecretsHidden
  JailInPlace
  MadeForTheUser
  MapsAsIntended
PROPERTIES
  OldNamespaceKept
CHECK_DEADLOCK FALSE

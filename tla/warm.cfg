SPECIFICATION Spec

CONSTANTS
  Files <- MCFiles
  Contents <- MCContents
  TooLarge <- MCTooLarge
  Panicking <- MCPanicking
  Diagnosed <- MCNone
  Absent = Absent
  Locked = Locked
  Versions = {"v1", "v2"}
  MaxStarts = 3
  MaxWrites = 2

INVARIANTS
  TypeOK
  CacheHonest
  WarmEqualsCold
  WarmStartIsFree

PROPERTIES
  BuildEnds

\* The bounds of the sessions and of the changes are reached.
CHECK_DEADLOCK FALSE

SPECIFICATION Spec

CONSTANTS
  Files <- MCFiles
  Contents <- MCContents
  TooLarge <- MCTooLarge
  Panicking <- MCPanicking
  Diagnosed <- MCNone
  Absent = Absent
  Locked = Locked
  Versions = {"v1", "v2"}
  MaxStarts = 2
  MaxWrites = 2

INVARIANTS
  NeverStale

\* The bounds of the sessions and of the changes are reached.
CHECK_DEADLOCK FALSE

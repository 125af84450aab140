SPECIFICATION Spec

CONSTANTS
  Files <- MCFiles
  Dirs <- MCDirs
  DirOf <- MCDirOf
  Parent <- MCParent
  Existing <- MCExisting
  Excluded <- MCExcluded
  Contents <- MCContents
  TooLarge <- MCTooLarge
  Absent = Absent
  MaxWrites = 4

INVARIANTS
  ReportsFollowDisk
  NothingLeftPending

PROPERTIES
  PendingIsDrained

\* The loop ends with the session, and the changes with their bound.
CHECK_DEADLOCK FALSE

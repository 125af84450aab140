SPECIFICATION Spec
CONSTANTS
  Paths <- MCAllPaths
  Segments <- MCSegments
  PathRank <- MCPathRank
  Names <- MCNames
  Upper <- MCUpper
  Stem <- MCStem
  StartsWith <- MCStartsWith
  Sigils <- MCSigils
  EmptyName = ""
  Sources <- MCSources
  Libraries <- MCNoLibraries
  Contents <- MCHardContents
  Absent = "absent"
  TypeOf <- MCTypeOf
  AnalysisOf <- MCAnalysisOf
  TooLarge <- MCTooLarge
  Panicking <- MCPanicking
  Outside <- MCOutside
  Excluded <- MCTwin
  InitialDisk <- MCInitialDisk
  PullDiagnostics = FALSE
  DiagnosticRefresh = FALSE
  WatchedFiles = TRUE
  Messages = {"didOpen", "didChange", "didClose", "request"}
  MaxInputs = 3
INVARIANTS
  TypeOK
  PairAgrees
  SourcesFollowed
  RequestsSeeOnePair
  ShownFollowsBuffer

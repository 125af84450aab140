SPECIFICATION Spec
CONSTANTS
  Paths <- MCPaths
  Segments <- MCSegments
  PathRank <- MCPathRank
  Names <- MCNames
  Upper <- MCUpper
  Stem <- MCStem
  StartsWith <- MCStartsWith
  Sigils <- MCSigils
  EmptyName = ""
  Sources <- MCSources
  Libraries <- MCNoLibraries
  Contents <- MCContents
  Absent = "absent"
  TypeOf <- MCTypeOf
  AnalysisOf <- MCAnalysisOf
  TooLarge <- MCTooLarge
  Panicking <- MCPanicking
  Outside <- MCOutside
  Excluded <- MCNoPaths
  InitialDisk <- MCInitialDisk
  PullDiagnostics = TRUE
  DiagnosticRefresh = TRUE
  WatchedFiles = TRUE
  Messages = {"didOpen", "didChange"}
  MaxInputs = 2
PROPERTIES
  BuildEnds
  HandlerEnds
  RefreshSent
  SessionEnds
  PairIsUpdated

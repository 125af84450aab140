SPECIFICATION Spec
CONSTANTS
  Paths <- MCPaths
  Segments <- MCSegments
  PathRank <- MCPathRank
  Names <- MCNames
  Upper <- MCUpper
  Stem <- MCStem
  EmptyName = ""
  Sources <- MCSources
  Libraries <- MCLibraries
  Analyses <- MCAnalyses
  MaxChanged = 2
  StartsWith <- MCStartsWith
  Sigils <- MCSigils
INVARIANTS
  FullPass
  CompletionAgrees
  FieldsFollowEdges
  CallsAreConverse
  ReferencesAgree
  ReferencesSpellTheirTarget
  LinksFollowDefinition
  SignatureFollowsDefinition
  DefinitionIsOffered
  VariablesAgree
  DDMsAgree
PROPERTY FartherIsInvisible

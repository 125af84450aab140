\* Four messages in any order, one client token, a build of two files.
CONSTANTS
  Token = Token
  Build = Build
  NoDir = NoDir
  Empty = Empty
  BadType = BadType
  Malformed = Malformed
  Unusable = Malformed
  Sentinels <- MCSentinels
  Names <- MCNames
  UpperOf <- MCUpperOf
  Spellings <- MCSpellings
  NormalOf <- MCNormalOf
  KeyOf <- MCKeyOf
  RankOf <- MCRankOf
  NoBody = Empty
  TypeNames <- MCTypeNames
  TypeNameOf <- MCTypeNameOf
  NoType = BadType
  DefaultExtensions <- MCDefaultExtensions
  DefaultExcludes <- MCDefaultExcludes
  DefaultSize = 100
  DefaultMinLength = 2
  Requests <- MCRequests
  Cwd <- MCCwd
  NoRoot = NoDir
  BuildToken = Build
  ClientTokens = {Token}
  FileCount = 2
  MaxMessages = 4
SPECIFICATION FairSpec
INVARIANTS
  OneRoot
  ProgressEnds
  NothingOutlivesRun
PROPERTIES
  CancelReturns

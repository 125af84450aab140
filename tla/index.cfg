\* Three threads, two files of one name, two configurations; no bound on calls.
CONSTANTS
  loop = loop
  builder = builder
  reader = reader
  appFile = appFile
  comFile = comFile
  full = full
  zero = zero
  bytes = bytes
  serverCfg = serverCfg
  otherCfg = otherCfg
  Threads = {loop, builder, reader}
  Paths = {appFile, comFile}
  Analyses = {full, zero}
  Contents = {bytes}
  Configs = {serverCfg, otherCfg}
  ServerConfig = serverCfg
  NameOf <- MCNames
  LibraryOf <- MCLibraryOf
  TypeOf <- MCTypes
  CallsOf <- MCCalls
  Absent = Absent
  NoThread = NoThread
  AnyType = AnyType
SPECIFICATION Spec
INVARIANTS
  ResolvedFollowsEntries
PROPERTIES
  Implements
  CallsReturn

SPECIFICATION MCSpec
CONSTANTS
  Capacity = 4
  Byte = {1, 2}
  Junk = junk
  Blocks <- MCBlocks
  Counts <- MCCounts
  Nodes <- MCTimers
  Key <- MCKey
  KeyWord = 16
  Sentinel = sentinel
  NullNode = null
  Items = {1, 2, 3, 4}
  Kinds = {"object", "string"}
  Keys = {"k", "K"}
  Folded <- MCFolded
  MaxCalls = 5
  NestingLimit = 3
  IntMax = 40
  BufferSizes = {0, 1, 5, 12, 40}
  JsonPrograms = {"comment", "demo1"}
  Comments <- MCComments
  Garbage <- MCGarbage
  ValueMax = 40
  MaxJsonRuns = 3
  Docs = {11, 12}
  XmlNodes = {1, 2, 3, 4}
  XmlKinds = {"element", "text"}
  AttrNames = {"a"}
  MaxXmlCalls = 6
  MaxDepth = 4
  Programs = {"demo03", "demo04", "demo05"}
  CameraIds = {5, 6}
  MaxRuns = 3
  MayFail = TRUE
  BloomKeys = {1, 2, 3}
  BloomSeeds = {0, 1}
  ItemLimits = {1, 2}
  Murmur <- MCMurmur
  HashWord = 16
  BitsPerItem = 2
  AlignBits = 4
  MaxBloomCalls = 6
  LastChar = 3
  ByteBits = 3
  ZBytes = {"a", "b"}
  BlockSize = 2
  BufferSize = 2
  MaxRun = 3
  MaxWrong = 1
  Writes <- MCWrites
  MemorySizes <- MCSizes
  Threads = {1, 2, 3}
  MaxRefs = 4
  Inputs <- MCInputs
  Separator = 44
  Mark = 63
  IdBits = 8
INVARIANTS
  TimerTreeSound
  JsonTreeSound
  JsonTextSound
  XmlTreeSound
  XmlTextSound
  BloomSound
  ZlibSound
  CodersExact
PROPERTIES
  FilesKept
  QueueSpec
CHECK_DEADLOCK FALSE

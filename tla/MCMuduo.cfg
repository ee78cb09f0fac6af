SPECIFICATION FairSpec
CONSTANTS
  Channels = {c1, c2}
  NoChannel = noChannel
  Fds = {3, 4}
  kInitEventListSize = 1
  MaxRoom = 2
  Streams <- MCStreams
  Lines <- MCLines
  Variants <- MCVariants
  MaxThreads = 2
  QueueLimit = 1
  LowMark = 2
  HighMark = 3
  kSeconds = 3
  MaxSecond = 7
  MaxResponses = 3
  Latencies <- MCLatencies
  MaxSamples = 4
  Box = 2
  Puzzles <- MCPuzzles
  pipelines = 2
  BatchSize = 3
  rps = 3
  kHz = 2
  MaxTicks = 3
  Ids = {1, 2, 3, 4}
  Sessions = {s1, s2}
  blockSize = 2
  MaxMessages = 3
  numPipes = 4
  numActive = 2
  numWrites = 3
  Queries <- MCQueries
  Users <- MCUsers
  totalMsgs = 3
INVARIANTS
  PollerAgrees
  StreamsExact
  ServerExact
  ExamplesExact
  AlgorithmsExact
PROPERTIES
  MuduoProgress
CHECK_DEADLOCK FALSE

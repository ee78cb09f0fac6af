CONSTANTS
  Clients = {1, 2}
  Workers = {11, 12}
  Rounds = 2
  MaxSignals = 1
  Subscribers = {1, 2, 3}
  Expected = 3
  Updates = 2
  Zips <- MCZips
  Temps <- MCTemps
  Filter <- MCFilter
  Hwm = 2
  MaxFeed = 5
  TaskWorkers = {w1, w2}
  Tasks = 3
  Workloads = {1, 2}
  MaxLost = 1
  SessionIds = {s1, s2}
  Keys = {k1, k2}
  Vals = {v1}
  NoVal = none
  MaxActive = 2
  Lines = 4
  Partitions = {p1, p2}
  MaxRetry = 1
  Interval = 3
  LazyDelay = 1
  MaxStep = 4
  ChatClients = {"a", "b"}
  NoClient = noClient
  HeaderLen = 2
  LoginLen = 3
  TextLen = 4
  ReadBufSize = 5
  SeqLimit = 2
  MaxTurns <- MCTurns
  Requests = {1, 2}
  Sockets = {4, 5}
  EPOLL_WAIT_NUM = 2
  Pieces = 2
SPECIFICATION FairSpec
INVARIANTS
  MessagesExact
  GoKeepsData
  PdusExact
  HttpClientSafe
PROPERTIES
  MessagingProgress
CHECK_DEADLOCK FALSE

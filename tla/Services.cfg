SPECIFICATION Spec
CONSTANTS
  \* WebsocketManager
  Clients = {c1, c2, c3}
  Channels = {p}
  Senders = {t}
  MaxConnections = 2
  MaxMessages = 2
  \* HealthChecks
  Parts = {"db", "redis"}
  Builtin = {"db"}
  Readers = {r}
  Answers = {"HEALTHY"}
  CheckTimeout = 1
  StaleAfter = 1
  \* Dispatcher and Lifecycle
  Components = {"bus", "risk"}
  Bus = "bus"
  Executors <- ExecutorList
  Jobs = {}
  MaxCalls = 1
  MaxSignals = 1
  \* NewsFeed
  MaxArticles = 4
  MaxUpdates = 2
  PageSize = 2
  SeenMax = 5
  SeenKept = 1
  \* BusFeeds
  BookSymbols = 1
  Pools = {"uni"}
  MaxPools = 1
  BusRoom = 1
  BoxRoom = 1
  Throttle = 1
  MaxAlerts = 3
  MaxRounds = 1
INVARIANTS
  MissesOnlyTheGone
  ReportsAreRecent
PROPERTIES
  FailureStopsAll
  ShutdownEnds
  NewsComesOut
  AlertsLeave
CHECK_DEADLOCK FALSE

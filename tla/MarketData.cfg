CONSTANTS
  btc = btc
  eth = eth
  Streams <- MCStreams
  Timeframes <- ShortAndLong
  Seconds <- MCSeconds
  Label <- MCLabel
  Primary = "60s"
  Lookback = 1
  Prices = {1, 2}
  MaxLate = 0
  QueueCap = 3
  MinInterval = 1
  ActiveFor = 1
  MaxPositions = 1
  TickCounts <- ThreeOrTwo
  MaxTime = 2
  \* SignalFactors
  Indexes = {0, 50, 100}
  FundingRates <- FundingOf
  Headlines <- Signed
  Volumes = {0, 3}
  MLScores <- Signed
  RiskPerTrade = {20}
  DecayWindow = 1
  MaxHeadlines = 2
  \* VenuePolls
  Venues = {"binance", "bybit"}
  Symbols = {"btc", "eth"}
  Rates <- PolledRates
  MinSpread = 2
  HistoryMax = 1
  \* MacroRegime
  LastDay = 31
  MaxPublished = 2
  RegimeWindow = 7
  Reported <- Bulls
  BaseSize = 10
  \* TickFeed
  Formats = {"own", "time", "none"}
  TradePrices = {100, 112}
  MaxTrades = 4
  Batch = 2
  ReplayDepth = 2
  DedupMax = 3
  MaxDelay = 2
  \* Dashboard
  Requests = {r1, r2}
  Pairs = {"k1", "k2"}
  Pages = {1}
  Books = {"btcx"}
  PartOf <- Within
  MarketTTL = 2
  CandleTTL = 1
  FetchTimeout = 1
  Window = 2
  Limit = 2
  MaxRefused = 1
  NewsMax = 1
  MaxClock = 3
  \* PaperTrades
  Signals = {s1, s2}
  Confidences = {40, 95}
  MinConfidence = 60
  MinQuality = "GOOD"
  PaperPrices = {1, 2}
  RecentSignals = 2
  HistoryKept = 2
  MaxValidated = 2
  MaxStarted = 3
SYMMETRY Interchangeable
SPECIFICATION SceneSpec
INVARIANTS CandlesAreTheirTrades NoTickTwice ThreeAgree AnswersAreRecent RiskShrinksSize ProfitsAddUp
PROPERTIES SpreadsAreReal DeliversBars
CHECK_DEADLOCK FALSE

CONSTANTS
  Exchanges = {binance}
  Symbols = {btc, eth, sol}
  Prices = {98, 100, 102, 103}
  EntryPrices = {100}
  Atrs = {100}
  Sides <- BothSides
  MaxOpen = 2
  Cooldown = 1
  Pause = 2
  MaxDailyLoss = 3
  MaxDrawdown = 10
  InitialEquity = 1000
  Notional = 1000
  MaxSignals = 3
  SlTenths = 15
  RewardRatio = 2
  FallbackTenths = 15
  BreakevenTrigger = 3
  TrailActivation = 2
  TrailDistance = 1
  MaxHold = 1
  \* RiskSettings
  Slots = {"binance:btc", "kraken:btc"}
  Capital = 1000
  StartPct = 200
  StartOpen = 1
  StartLoss = 30
  LargestFall = 100
  PerTrade = 10
  Exposure = 100
  Distances = {100}
  Results <- LossOrWin
  Amounts = {50, 150}
  Leverages = {10, 20}
  Counts = {2}
  LogMax = 1
  MaxEntries = 2
SPECIFICATION SceneSpec
SYMMETRY Symmetry
INVARIANTS KilledMeansFlat ProfitIsLocked CrossedStopIsAnnounced LossIsNotUnderstated
PROPERTIES NoEntryDuringPause

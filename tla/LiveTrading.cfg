CONSTANTS
  Exchanges = {binance, kraken}
  Symbols = {btc, eth}
  Prices = {100}
  Sides <- LongOnly
  MaxOpen = 1
  Cooldown = 1
  Pause = 1
  MaxDailyLoss = 20
  MaxDrawdown = 10
  InitialEquity = 1000
  Notional = 100
  MaxSignals = 2
  PaperMode = FALSE
  MarketOnly = {kraken}
  Lots = 2
  MaxPolls = 2
  QueueCap = 2
  MaxKills = 1
SPECIFICATION FairSpec
INVARIANTS ExitsAreFresh BookedOnlyIfBought EntryFits

PROPERTY KillReachesExecutors

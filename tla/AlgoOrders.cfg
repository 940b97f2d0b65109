CONSTANTS
  twap = twap
  other = other
  k1 = k1
  k2 = k2
  Clients = {twap, other}
  Keys = {k1, k2}
  NoKey = none
  Ttl = 1
  MaxRecords = 2
  MaxAttempts = 2
  Threshold = 2
  MaxRequests <- RequestsOf
  Algos = {twap}
  Slices = 2
  VwapLots = 1
  SliceKey <- TwapKeys
  Traded = {"btc", "eth"}
  Loops = {1, 2}
  MaxTrips = 3
  FundingAt <- Thresholds
  MaxCommands = 1
SPECIFICATION SceneSpec
INVARIANTS KeyedOnce OneSliceAfterCancel FilledWasBought
PROPERTIES AlgosEnd StoppedStreamsEnd
CHECK_DEADLOCK FALSE

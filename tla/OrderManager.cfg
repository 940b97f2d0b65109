CONSTANTS
  Clients = {c1, c2}
  Instruments = {btc}
  Lots = 2
  Window = 1
  Ttl = 2
  MaxRecords = 1
  LateReports = FALSE
  MaxOrders = 3
  MaxFilled = 2
  Batches <- TwoOrders
SPECIFICATION ApiSpec
INVARIANTS NoOpposingOrders OneOrderPerKey
PROPERTIES SweepMissesNone
SYMMETRY Symmetry

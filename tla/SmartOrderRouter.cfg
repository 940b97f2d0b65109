CONSTANTS
  Venues = {binance, okx}
  Callers = {t1, t2}
  Quotes <- TwoQuotes
  Threshold = 1
  MaxVenues = 2
  Quantities = {5}
  Interval = 2
  MaxRequests = 2
SPECIFICATION RouterSpec
CHECK_DEADLOCK FALSE
PROPERTIES ScoresAreFresh

CONSTANTS
  Callers = {t1, t2, t3}
  Threshold = 3
  Timeout = 2
  Probes = 2
  MaxClosing = 3
SPECIFICATION FairSpec
PROPERTIES ClosesOnProbes Recovers

SPECIFICATION FairSpec
CONSTANTS
  btc = btc
  eth = eth
  NoOrder = NoOrder
  Symbols <- MCSymbols
  Lots = {2}
  Leverages = {3, 5}
  MaxRetries = 1
  Threshold = 3
  Cooldown = 1
  Horizon = 2
  MaxOrders = 2
  MaxReads = 4
  MaxRearms = 1
INVARIANTS TypeOK MirrorMatchesVenue
PROPERTIES OpensIsolatedOneWay ClosesNeverReverse ShieldsOutage OrderResolves
CHECK_DEADLOCK FALSE

SPECIFICATION MCSpec
CONSTANTS
  alpha = alpha
  beta = beta
  a1 = a1
  a2 = a2
  b1 = b1
  btc = btc
  eth = eth
  Strategies <- MCStrategies
  Versions <- MCVersions
  Symbols <- MCSharedSymbols
  StrategyOf <- MCStrategyOf
  SymbolOf <- MCSharedSymbolOf
  FirstVersion <- MCFirstVersion
  Labelled = {a2}
  Lots = {1, 2}
  MaxBars <- MCSharedMaxBars
  MaxControls = 0
  MaxFaults = 0
PROPERTIES ClosesLowerRisk
CHECK_DEADLOCK FALSE

SPECIFICATION MCFairSpec
CONSTANTS
  alpha = alpha
  beta = beta
  a1 = a1
  a2 = a2
  b1 = b1
  btc = btc
  eth = eth
  Strategies <- MCStrategies
  Versions <- MCVersions
  Symbols <- MCSymbols
  StrategyOf <- MCStrategyOf
  SymbolOf <- MCSymbolOf
  FirstVersion <- MCFirstVersion
  Labelled = {}
  Lots = {1}
  MaxBars <- MCMaxBars
  MaxControls = 2
  MaxFaults = 1
PROPERTIES ClearedBotResumes
CHECK_DEADLOCK FALSE

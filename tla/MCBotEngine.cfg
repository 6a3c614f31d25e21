SPECIFICATION MCFairSpec
CONSTANTS
  alpha = alpha
  beta = beta
  a1 = a1
  a2 = a2
  b1 = b1
  btc = btc
  eth = eth
  Strategies <- MCStrategies
  Versions <- MCVersions
  Symbols <- MCSymbols
  StrategyOf <- MCStrategyOf
  SymbolOf <- MCSymbolOf
  FirstVersion <- MCFirstVersion
  Labelled = {a2}
  Lots = {1}
  MaxBars <- MCMaxBars
  MaxControls = 1
  MaxFaults = 1
INVARIANTS TypeOK OneOpenTrade BooksMatchTrades UnapprovedNeverTrades
PROPERTIES LiveIsEarned OncePerBar KillComesToRest BarsAreActedOn
CHECK_DEADLOCK FALSE

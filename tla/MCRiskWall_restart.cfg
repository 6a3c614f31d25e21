SPECIFICATION Spec
CONSTANTS
  btc = btc
  eth = eth
  Symbols <- MCSymbols
  Lots = {30}
  Equities <- MCEquities
  Notionals = {60}
  MaxPositions = 1
  DrawdownPct = 15
  DailyLossPct = 3
  LossStreak = 2
  CooldownHours = 1
  PortfolioDrawdownPct = 12
  PortfolioDailyPct = 5
  SymbolPct = 35
  GrossPct = 90
  DirectionPct = 50
  DayHours = 2
  Horizon = 2
  MaxNotional = 60
  MaxStreak = 3
  MaxRebuilds = 1
SYMMETRY MCSymmetry
PROPERTIES CooldownSurvivesRestart

SPECIFICATION MCSpec
CONSTANTS
  Cron = cron
  Cli = cli
  NoRow = noRow
  Limit = 2
  Missing = missing
  Lookback = 3
  Unlisted = {1}
  Horizon = 4
  MaxCli = 1
  MaxFaults = 1
  BatchRows = 3
  BatchSeconds = 2
  MaxBackoff = 2
  MinuteLength = 2
  FoldWindow = 3
  LastSecond = 5
  MaxEvents = 3
  MaxDrops = 1
  Symbols = {s1, s2}
  SlotLength = 3
  PollSeconds = 3
  btc = btc
  eth = eth
  sol = sol
  Builders = {cron, cli}
  Markets <- MCMarkets
  Listed <- MCListed
  Turnover <- MCMedian
  MedianVolume <- MCMedian
  Spread <- MCSpread
  PrefilterSize = 3
  UniverseSize = 2
  MinMedian = 4
  MaxSpread = 2
  LastDay = 2
  Clients = {c1, c2}
  Idle = idle
  MaxVersions = 3
  MaxLoads = 5
  NoQuestion = noQuestion
  MaxMessages = 3
  MaxMishaps = 2
  MaxChatMishaps = 2
  NoTrade = noTrade
  NoBand = noBand
  NoSnapshot = noSnapshot
  Symbol = btc
  ClosePrices <- MCCloses
  FundingRate = 1000
  SlippageBps = 1000
  CommissionBps = 1000
  SlipBps = 1000
  TakerBps = 1000
  InitialCash = 100
  StopGap = 10
  TargetDistance = 0
  LastClose = 3
  MaxOrders = 6
  MaxFunding = 50
  BarShapes <- MCBarShapes
  Configs <- MCConfigs
  Atrs <- MCAtrs
  FundingRates <- MCFundingRates
  MakerBps = 100
  RiskBps = 5000
  FractionBps = 5000
  MaintenanceBps = 1000
  InitialCapital = 200
  LastIndex = 3
  Scans = {scanA, scanB}
  Backtests = {backtestA}
  NoAttempt = noAttempt
  MaxTries = 2
  MaxJobMishaps = 2
INVARIANTS TypesOK ClosedBarsOnly SyncedIsWhole RowTellsTruth HeardIsStoredSoon NoHindsight DecidedOnce ApprovedPapersFirst EveryCommandIsAudited BookAddsUp StopIsHonoured EquityIsItsTrades JobsAreAccounted
PROPERTIES KeepsLedger EventuallyWhole OnlyCommandsSwitchOn
CHECK_DEADLOCK FALSE

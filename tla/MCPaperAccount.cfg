SPECIFICATION Spec
CONSTANTS
  Symbols = {btc}
  btc = btc
  RefPrices <- MCRefPrices
  Lots <- MCLots
  FundingRates <- MCFundingRates
  SlippageBps = 5
  CommissionBps = 4
  InitialCash = 10000
  MaxOrders = 4
  MaxFunding = 12
INVARIANTS CashIsBooked EntryWithinFills
PROPERTIES ImplementsLedger OrdersOnlyCost

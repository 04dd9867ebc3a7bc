SPECIFICATION FairSpec
CONSTANTS
  MaxId = 1
  OrderLimit = 2
  AccountType = "long"
  Faults = {}
  Trader = Trader
  Stoppers = {}
  Gateway = Gateway
  Nobody = Nobody
  MaxPending = 0
  MaxCancels = 1
CHECK_DEADLOCK FALSE
PROPERTY CancelReturns

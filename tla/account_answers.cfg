SPECIFICATION FairSpec
CONSTANTS
  MaxId = 1
  OrderLimit = 2
  AccountType = "long"
  Faults = {"post", "reject", "throttle", "cancel_reject", "unsolicited", "change_reject", "change_unknown"}
  Trader = Trader
  Stoppers = {}
  Gateway = Gateway
  Nobody = Nobody
  MaxPending = 1
  MaxCancels = 1
CHECK_DEADLOCK FALSE
PROPERTY AckReturns
PROPERTY CancelReturnsIfKnown
PROPERTY PendingIsSent

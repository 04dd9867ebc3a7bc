SPECIFICATION Spec
CONSTANTS
  MaxId = 1
  OrderLimit = 2
  AccountType = "short"
  Faults = {"reject", "throttle", "repost", "cancel_reject", "unsolicited", "post"}
  Trader = Trader
  Stoppers = {s1}
  Gateway = Gateway
  Nobody = Nobody
  MaxPending = 0
  MaxCancels = 2
CHECK_DEADLOCK FALSE
INVARIANT SleeperIsNotified
INVARIANT CancelIsFinal
INVARIANT CallbacksMatch
INVARIANT IInv

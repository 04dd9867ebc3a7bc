SPECIFICATION Spec
CONSTANTS
  MaxId = 2
  OrderLimit = 2
  AccountType = "long"
  Faults = {"post", "change_reject", "change_unknown"}
  Trader = Trader
  Stoppers = {}
  Gateway = Gateway
  Nobody = Nobody
  MaxPending = 0
  MaxCancels = 0
CHECK_DEADLOCK FALSE
INVARIANT TypeOK
INVARIANT FillsReconcile
INVARIANT PositionReconciles
INVARIANT ExecutedReconciles
PROPERTY KeepsLedger

SPECIFICATION Spec
CONSTANTS
  AccountType = "long"
  MaxPrice = 3
  MaxSize = 3
  MaxTotal = 4
  MaxRecords = 3
  BaseQty = 2
  Width = 8
  Restored = {0, 2}
INVARIANT TypeOK
INVARIANT OpenIsCovered
PROPERTY FillsKeepOrder
PROPERTY ProfitCloseIsExact
PROPERTY CleanCloseIsExact

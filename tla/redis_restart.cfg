SPECIFICATION FairSpec
CONSTANTS
  AccountType = "short"
  MaxId = 2
  MaxTotal = 1
  MaxFills = 2
  MaxRuns = 2
  Failing = {"get", "set"}

CHECK_DEADLOCK FALSE
INVARIANT TypeOK
PROPERTY NewestIsKept
PROPERTY FillsAreStored
PROPERTY TimesAreKept

SPECIFICATION FairSpec
CONSTANTS
  Configurations <- Accounts
  Trades <- OneName
  Venues = {"v"}
  AdminParsed = {TRUE, FALSE}
  Consoles = {"cli"}
  MaxCommands = 2
  MaxOrders = 1
CHECK_DEADLOCK FALSE
INVARIANT TypeOK
INVARIANT OrdersAreHeard
INVARIANT StopReachesAll
INVARIANT ExitCancels
PROPERTY EveryInstanceHears

--------------------------- MODULE MCTradeAccount ---------------------------
EXTENDS TradeAccount

AllFaults == FaultKinds
=============================================================================

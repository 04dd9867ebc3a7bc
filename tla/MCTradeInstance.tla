--------------------------- MODULE MCTradeInstance ---------------------------
EXTENDS TradeInstance

OneQuote  == {[bid |-> 1, ask |-> 2]}
OneRound  == <<1, 1>>
At(l, s)  == [a \in Accounts |-> IF a = "long" THEN l ELSE s]
Flat      == {At(0, 0)}
Ahead     == {At(0, 2), At(1, 2)}

Enter(name, off, whom) == [name |-> name, off |-> off, whom |-> whom]
NoLines == {}
AllLines ==
  {Enter("st", FALSE, "symbol"), Enter("st", FALSE, "-a"), Enter("rt", FALSE, "account"),
   Enter("pc", FALSE, "-a"), Enter("pc", TRUE, "account"), Enter("sc", FALSE, "symbol"),
   Enter("sc", TRUE, "-a"), Enter("pc", FALSE, "other symbol"), Enter("dpc", FALSE, "account")}

(* The runs go as far as the first step that misleads the trading thread:  *)
(* behind it the properties of what the cases own say nothing more.        *)
NextUntilMisled == ~misled /\ Next
UntilMisled     == Init /\ [][NextUntilMisled]_vars
FairUntilMisled == UntilMisled /\ Fairness
=============================================================================

----------------------------- MODULE OrderTypes -----------------------------
(***************************************************************************)
(* The data of one order as the trading process keeps it (struct OrderInfo *)
(* and struct PositionRequest), and the two questions its handlers ask of  *)
(* it.  An AbstractTradeAccount trades one symbol in one account, so the   *)
(* symbol, the user name and the price, on which no transition depends,    *)
(* are left out.                                                           *)
(***************************************************************************)
EXTENDS Integers, Sequences

CONSTANTS
  MaxId,        \* bound: request_id_generator never passes MaxId
  OrderLimit,   \* ORDER_ACCOUNT_MAXIMUM_LIMIT, 30 in the code
  AccountType   \* "long" or "short": OrderAccount::account_type

ASSUME OrderAssumption ==
  /\ MaxId \in Nat \ {0}
  /\ OrderLimit \in Nat \ {0}
  /\ AccountType \in {"long", "short"}

Ids   == 1..MaxId
Sizes == 1..OrderLimit   \* the sizes SetLimitOrder and the limit check let through

Sides   == {"BUY", "SELL", "SELL_SHORT"}
FillFns == {"onOpenFill", "onCloseFill"}   \* the callback registered for fills

Stages       == {"SENT", "ACKNOWLEDGED", "FILLED", "CANCELLED", "DONE", "FAILED"}
CancelStages == {"NONE", "INIT", "FAIL", "DONE"}

(* order.condition, as far as anything reads it back: OrderAccount::cancel *)
(* and OrderAccount::change ask whether it is DONE or CANCELED.            *)
Conditions == {"OTHER", "DONE", "CANCELED"}

OrderInfo == [stage           : Stages,
              is_acknowledged : BOOLEAN,
              cancel_stage    : CancelStages,
              condition       : Conditions,
              openSize        : Nat,       \* order.openSize of the last OnOrder
              side            : Sides,     \* OrderInfo::type
              onFill          : FillFns,
              size            : 0..OrderLimit,
              fill_size       : Nat,
              onOrderCancel   : BOOLEAN,   \* is the cancel callback registered?
              onOrderChange   : BOOLEAN]   \* is the change callback registered?

NewOrder(side, fn, size) ==
  [stage |-> "SENT", is_acknowledged |-> FALSE, cancel_stage |-> "NONE",
   condition |-> "OTHER", openSize |-> 0, side |-> side, onFill |-> fn,
   size |-> size, fill_size |-> 0,
   onOrderCancel |-> FALSE, onOrderChange |-> FALSE]

(* Two ways to get the next definition wrong: a size meant as what is left *)
(* of the order, and the progress of the original kept.                    *)
ChangedOrder_SizeLeft(original, new_size) ==
  [original EXCEPT !.size            = new_size - original.fill_size,
                   !.stage           = "SENT",
                   !.cancel_stage    = "NONE",
                   !.is_acknowledged = FALSE,
                   !.fill_size       = 0]

ChangedOrder_KeepsFill(original, new_size) ==
  [original EXCEPT !.size            = IF new_size = 0 THEN @ ELSE new_size,
                   !.stage           = "SENT",
                   !.cancel_stage    = "NONE",
                   !.is_acknowledged = FALSE]

(* The order a change request sends: a copy of the original with its       *)
(* callbacks, its own size when one is given, and a fresh progress.        *)
ChangedOrder(original, new_size) ==
  [original EXCEPT !.size            = IF new_size = 0 THEN @ ELSE new_size,
                   !.stage           = "SENT",
                   !.cancel_stage    = "NONE",
                   !.is_acknowledged = FALSE,
                   !.fill_size       = 0]

IsAcknowledged(o) == o.stage # "SENT" \/ o.is_acknowledged
CanCancel(o)      == o.stage \notin {"CANCELLED", "DONE", "FILLED", "FAILED"}

(* OrderAccount::open buys in a long account and sells short in a short    *)
(* one; OrderAccount::close sells the one and buys back the other.         *)
OpenSide  == IF AccountType = "long" THEN "BUY" ELSE "SELL_SHORT"
CloseSide == IF AccountType = "long" THEN "SELL" ELSE "BUY"

(* Which of totalopen and totalclose counts an order of this side as live. *)
LiveOf(side) ==
  IF AccountType = "long"
  THEN IF side = "BUY" THEN "open" ELSE "close"
  ELSE IF side = "BUY" THEN "close" ELSE "open"
=============================================================================

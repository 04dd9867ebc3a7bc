----------------------------- MODULE PairAccounts -----------------------------
(***************************************************************************)
(* The long and the short account of one symbol as a trade case sees them: *)
(* what is left of an AbstractTradeAccount when its calls are taken as one *)
(* step each.  TradeAccount models the same class call by call; the calls  *)
(* here have the answers they have there: an order may work that open or   *)
(* close has returned 0 for, and the last fill of an order is told before  *)
(* its handler has moved the position.  A call that is never answered is   *)
(* an action of TradeInstance.  Orders and pending orders carry the        *)
(* callback the case gave.                                                 *)
(***************************************************************************)
EXTENDS Integers, Sequences, FiniteSetsExt

CONSTANTS
  Slots,          \* bound: the orders that may be live or remembered at once
  SizeLimit,      \* MAXIMUM_ORDER_LIMIT: an order is of 0..SizeLimit shares
  MaxPosition,    \* bound on the position of an account
  MaxPending,     \* bound on the length of pending_orders
  MaxLeak,        \* bound: what the live counters keep is counted up to here
  RoundTotal,     \* max_pos, the sum of the share rounds
  RefusedCalls,   \* which calls the accounts may refuse
  ReplaceWorks    \* does the size of a replacement count what was filled?

Accounts == {"long", "short"}
Calls    == {"open", "close", "change", "cancel"}

ASSUME PairAssumption ==
  /\ Slots \subseteq Nat \ {0} /\ IsFiniteSet(Slots)
  /\ SizeLimit \in Nat \ {0}
  /\ MaxPosition \in Nat
  /\ MaxPending \in Nat
  /\ MaxLeak \in Nat
  /\ RoundTotal \in Nat \ {0}
  /\ RefusedCalls \subseteq Calls
  /\ ReplaceWorks \in BOOLEAN

VARIABLES
  pos,       \* what each account holds, told and not yet booked
  total,     \* total of each account, which getPosition returns
  booking,   \* the order whose last fill is told and whose handler is to run
  orders,    \* the live order in each slot
  pending,   \* pending_orders of each account
  leak,      \* what totalopen + totalclose count besides live orders
  tranch     \* tranch_counter of each account; -1 once it has wrapped

pairVars == <<pos, total, booking, orders, pending, leak, tranch>>

Other(a) == IF a = "long" THEN "short" ELSE "long"

(* The trade_done function of an order: on_trade_send_close and            *)
(* on_requote_order_done capture the case that registered them; "dangling" *)
(* is one of them after that case was deleted.                             *)
Callbacks == {"none", "send_close", "requote_done", "dangling"}

(* known: the account has it among its orders.                             *)
Order   == [acct : Accounts, op : {"open", "close"}, size : 0..SizeLimit,
            left : 0..SizeLimit, done : Callbacks, known : BOOLEAN]
NoOrder == [left |-> -1]
Pending == [size : 0..SizeLimit, done : Callbacks]

PairTypeOK ==
  /\ pos \in [Accounts -> Int]
  /\ total \in [Accounts -> Int]
  /\ booking \in [Accounts -> {0} \cup Slots]
  /\ orders \in [Slots -> Order \cup {NoOrder}]
  /\ pending \in [Accounts -> Seq(Pending)]
  /\ leak \in [Accounts -> (-MaxLeak)..MaxLeak]
  /\ tranch \in [Accounts -> {-1, 0}]

PairInit(restored) ==
  /\ pos = restored
  /\ total = restored
  /\ booking = [a \in Accounts |-> 0]
  /\ orders = [i \in Slots |-> NoOrder]
  /\ pending = [a \in Accounts |-> <<>>]
  /\ leak = [a \in Accounts |-> 0]
  /\ tranch = [a \in Accounts |-> 0]

Equal  == total["long"] = total["short"]
Live   == {i \in Slots : orders[i] # NoOrder}
OrdersOf(a, op) == {i \in Live : orders[i].acct = a /\ orders[i].op = op}

Left(ids) == SumFunctionOnSet([i \in ids |-> orders[i].left], ids)

(* getTotalLiveOrderCount: whole sizes of the orders the account has, DONE *)
(* takes them off.                                                         *)
LiveCount(a) ==
  LET ids == {i \in Live : orders[i].acct = a /\ orders[i].known}
  IN leak[a] + SumFunctionOnSet([i \in ids |-> orders[i].size], ids)

Kept(n) == Max({-MaxLeak, Min({MaxLeak, n})})

Place(i, a, op, size, done, known) ==
  orders' = [orders EXCEPT ![i] = [acct |-> a, op |-> op, size |-> size,
                                   left |-> size, done |-> done, known |-> known]]

-----------------------------------------------------------------------------
(* The market.                                                             *)

(* The exchange reports that n shares of an order are traded.  The close   *)
(* orders carry ORDER_FLAG_CHECK_POSITION, so no more is closed than is    *)
(* held.  One thread calls back for an account: while the handler of a     *)
(* last fill is to run nothing else of that account is reported.           *)
Traded(o, n) == IF o.op = "open" THEN pos[o.acct] + n ELSE pos[o.acct] - n

Told(i, n) ==
  LET o == orders[i] IN
  /\ i \in Live
  /\ booking[o.acct] = 0
  /\ n \in 1..o.left
  /\ Traded(o, n) \in 0..MaxPosition
  /\ orders' = [orders EXCEPT ![i].left = o.left - n]
  /\ pos' = [pos EXCEPT ![o.acct] = Traded(o, n)]
  /\ UNCHANGED <<pending, leak>>

(* onOpenFill and onCloseFill: a close that takes the position below a     *)
(* multiple of max_pos counts the tranch down, which nothing counts up: it *)
(* wraps at once, and no later value makes sendRequoteOrders send again.   *)
Booked(a, op, after) ==
  /\ total' = [total EXCEPT ![a] = after]
  /\ tranch' = [tranch EXCEPT ![a] =
       IF op = "close" /\ total[a] \div RoundTotal > after \div RoundTotal THEN -1 ELSE @]

(* A fill that leaves some of the order shows when its handler has run.    *)
Fill(i, n) ==
  /\ Told(i, n)
  /\ n < orders[i].left
  /\ Booked(orders[i].acct, orders[i].op, Traded(orders[i], n))
  /\ UNCHANGED booking

(* The last one makes the order STAGE_FILLED before its handler takes mt:  *)
(* until then the position read is the one before.                         *)
LastFill(i) ==
  /\ Told(i, orders[i].left)
  /\ booking' = [booking EXCEPT ![orders[i].acct] = i]
  /\ UNCHANGED <<total, tranch>>

Book(a) ==
  /\ booking[a] # 0
  /\ Booked(a, orders[booking[a]].op, pos[a])
  /\ booking' = [booking EXCEPT ![a] = 0]
  /\ UNCHANGED <<pos, orders, pending, leak>>

Lagging == \E a \in Accounts : booking[a] # 0

(* on_trade_send_close: while the current account is ahead, what was       *)
(* opened is to be closed again.                                           *)
QueuesClose(o) == o.done = "send_close" /\ total[o.acct] > total[Other(o.acct)]

(* onOrderDone of a filled order, but for what its callback does.  The     *)
(* size comes off the live counters also when it was never put on them.    *)
Forget(i) ==
  LET o == orders[i] IN
  /\ i \in Live
  /\ o.left = 0
  /\ booking[o.acct] = 0
  /\ orders' = [orders EXCEPT ![i] = NoOrder]
  /\ leak' = [leak EXCEPT ![o.acct] = IF o.known THEN @ ELSE Kept(@ - o.size)]
  /\ UNCHANGED <<pos, total, booking, tranch>>

QueueClose(o, done) ==
  /\ Len(pending[o.acct]) < MaxPending
  /\ pending' = [pending EXCEPT ![o.acct] =
                   Append(@, [size |-> o.size, done |-> done])]

-----------------------------------------------------------------------------
(* cancelAll drops the pending orders, then cancels what can be cancelled  *)
(* of the orders the account has: an order filled in full waits for its    *)
(* DONE and is passed over.  What was filled of a cancelled order stays in *)
(* the live counters.                                                      *)

DropPending(a) ==
  /\ pending' = [pending EXCEPT ![a] = <<>>]
  /\ UNCHANGED <<pos, total, booking, orders, leak, tranch>>

Cancellable(a) ==
  {i \in Live : /\ orders[i].acct = a
                /\ orders[i].known
                /\ orders[i].left > 0 \/ orders[i].size = 0}

Cancel(a) ==
  \E ids \in IF "cancel" \in RefusedCalls THEN SUBSET Cancellable(a)
                                          ELSE {Cancellable(a)} :
    /\ orders' = [i \in Slots |-> IF i \in ids THEN NoOrder ELSE orders[i]]
    /\ leak' = [leak EXCEPT ![a] =
         Kept(@ + SumFunctionOnSet([i \in ids |-> orders[i].size - orders[i].left], ids))]
    /\ UNCHANGED <<pos, total, booking, pending, tranch>>

(* An order of the account that a call in progress may have been overtaken *)
(* by: its last fill crosses the cancel or the change.                     *)
Crossed(ids) == \E i \in ids \cap Live : orders[i].known /\ orders[i].left = 0

-----------------------------------------------------------------------------
(* The calls of a case.                                                    *)

(* open and close look at the upper bound only; sizes are uint32_t, and a  *)
(* difference below zero has become more than any account takes.           *)
Acceptable(size) == size \in 0..SizeLimit

(* AbstractTradeAccount::open and close return an id, or 0 for a size out  *)
(* of bounds and for an order that is refused, as one of no shares may be. *)
(* The thread that waits may also look when the order is STAGE_ACKNOWLEDGED*)
(* and not yet is_acknowledged: 0 for an order that works, which is not    *)
(* among the orders of the account.                                        *)
Send(a, op, size, done, fresh, id) ==
  \/ /\ Acceptable(size)
     /\ id \in fresh
     /\ Place(id, a, op, size, done, TRUE)
  \/ /\ ~Acceptable(size) \/ size = 0 \/ op \in RefusedCalls
     /\ id = 0
     /\ UNCHANGED orders
  \/ /\ Acceptable(size)
     /\ id = 0
     /\ \E i \in fresh : Place(i, a, op, size, done, FALSE)

(* change returns 0 for an order that is gone, the same id when it fails   *)
(* and otherwise a new one; here a replacement takes the slot of the order *)
(* it replaces, so the answers are told apart by name.                     *)
Replacement(o, size) ==
  LET new == IF size = 0 THEN o.size ELSE size
      worked == o.size - o.left
  IN [o EXCEPT !.size = new,
               !.left = IF ReplaceWorks THEN Max({0, new - worked}) ELSE new]

HasOrder(id) == id \in Live /\ orders[id].known

Change(id, size, answer) ==
  \/ /\ answer = "gone"
     /\ ~HasOrder(id)
     /\ UNCHANGED <<orders, leak>>
  \/ /\ answer = "same"
     /\ HasOrder(id)
     /\ orders[id].left = 0 \/ size > SizeLimit \/ "change" \in RefusedCalls
     /\ UNCHANGED <<orders, leak>>
  \/ /\ answer \in {"new", "same"}     \* as in open, it may be taken for a failure
     /\ HasOrder(id)
     /\ orders[id].left > 0
     /\ size <= SizeLimit
     /\ orders' = [orders EXCEPT ![id] = [Replacement(@, size) EXCEPT !.known = (answer = "new")]]
     /\ leak' = [leak EXCEPT ![orders[id].acct] =
          IF answer = "new" THEN @ ELSE Kept(@ + orders[id].size)]
=============================================================================

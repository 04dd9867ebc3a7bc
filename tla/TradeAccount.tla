---------------------------- MODULE TradeAccount ----------------------------
(***************************************************************************)
(* One trading account in one symbol: AbstractTradeAccount with its        *)
(* LongTradeAccount or ShortTradeAccount fill handlers, and the            *)
(* OrderAccount it sends through.  Three kinds of thread work on it:       *)
(*   - Trader, the detached thread of TradeInstance::triggerProcessing,    *)
(*     which opens, closes, changes and cancels;                           *)
(*   - the threads of Stoppers, the console and signal handlers that call  *)
(*     TradeInstance::stopAction, which cancels everything;                *)
(*   - the gateway's callback thread, which runs OnOrder, OnFill,          *)
(*     OnOrderCancel and OnOrderChange.                                    *)
(* An action is what a thread does between two points where another thread *)
(* could tell that it has not finished.  A section of code under the mutex *)
(* mt that no unlocked access can interrupt is one action.                 *)
(***************************************************************************)
EXTENDS Exchange, Functions

CONSTANTS
  Trader,       \* the trading thread
  Stoppers,     \* threads that may call cancelAll besides it
  Gateway,      \* the callback thread
  Nobody,       \* holder of mt when it is free
  MaxPending,   \* bound on the length of pending_orders
  MaxCancels    \* bound on the cancel requests of one order in flight

Threads == {Trader} \cup Stoppers

ASSUME ThreadAssumption ==
  /\ Gateway \notin Threads
  /\ Nobody \notin Threads \cup {Gateway}
  /\ MaxPending \in Nat
  /\ MaxCancels \in Nat

VARIABLES
  info,           \* the OrderInfo of each request id
  next,           \* the id request_id_generator gives next
  order_hash,     \* OrderAccount::order_hash: the ids callbacks can find
  orders,         \* AbstractTradeAccount::orders: the ids change and cancel can
  live,           \* totalopen and totalclose
  total,          \* the position
  totalExecuted,
  pending,        \* pending_orders, the sizes of close orders to send
  mt,             \* who holds the mutex
  t,              \* the program counter and locals of each thread
  g               \* those of the callback thread

accountVars == <<info, next, order_hash, orders, live, total, totalExecuted,
                 pending, mt, t, g>>
vars == <<exchangeVars, accountVars>>

(* pc    where the thread is;                                              *)
(* wait  which answer it waits for: the acknowledgement of a new order, of *)
(*       a change of price or of price and size, or of a cancel;           *)
(* id    the order it works on, or the last one cancelAll has visited;     *)
(* orig  the order a change replaces; tmp the counter read for an update;  *)
(* all   it is inside cancelAll; pend it is inside sendPendingOrders.      *)
PCs   == {"idle", "check", "block", "asleep", "count", "store", "mark_cancel",
          "send_cancel", "scan"}
Waits == {"none", "ack", "reprice", "resize", "cancel"}
Local == [pc : PCs, wait : Waits, id : {0} \cup Ids, orig : {0} \cup Ids,
          tmp : Int, all : BOOLEAN, pend : BOOLEAN]
Idle  == [pc |-> "idle", wait |-> "none", id |-> 0, orig |-> 0, tmp |-> 0,
          all |-> FALSE, pend |-> FALSE]

(* The callback thread between two visible steps of a handler.             *)
GatewayPCs == {"idle",
               "ack",            \* stage is written, is_acknowledged not yet
               "notify",         \* onNewOrderAcknowledgement is to lock mt
               "notify_failed",  \* the same, and then the hash entry goes
               "cancel_done",    \* onOrderCancel(true) is to lock mt
               "cancel_failed",  \* onOrderCancel(false) is to lock mt
               "count"}          \* onOrderDone holds mt and has read the counter
GatewayLocal == [pc : GatewayPCs, id : {0} \cup Ids, tmp : Int]
GatewayIdle  == [pc |-> "idle", id |-> 0, tmp |-> 0]

TypeOK ==
  /\ ExchangeTypeOK
  /\ info \in [Ids -> OrderInfo]
  /\ next \in 1..(MaxId + 1)
  /\ order_hash \in SUBSET Ids
  /\ orders \in SUBSET Ids
  /\ live \in [{"open", "close"} -> Int]
  /\ total \in Int
  /\ totalExecuted \in Int
  /\ pending \in Seq(Sizes)
  /\ mt \in Threads \cup {Gateway, Nobody}
  /\ t \in [Threads -> Local]
  /\ g \in GatewayLocal

Init ==
  /\ ExchangeInit
  /\ info = [i \in Ids |-> NewOrder(OpenSide, "onOpenFill", 0)]
  /\ next = 1
  /\ order_hash = {}
  /\ orders = {}
  /\ live = [c \in {"open", "close"} |-> 0]
  /\ total = 0
  /\ totalExecuted = 0
  /\ pending = <<>>
  /\ mt = Nobody
  /\ t = [th \in Threads |-> Idle]
  /\ g = GatewayIdle

-----------------------------------------------------------------------------
(* Waiting on the condition variable.                                      *)

Goto(th, local) == t' = [t EXCEPT ![th] = local]

(* A thread whose operation is over: cancelAll goes on to the next order.  *)
Scanning(id) == [Idle EXCEPT !.pc = "scan", !.id = id, !.all = TRUE]
After(local) == IF local.all THEN Scanning(local.id) ELSE Idle

Return(th) == Goto(th, After(t[th]))

(* A notify_all left out.                                                  *)
Wake_Nobody(threads) == threads

(* cv.notify_all under mt *)
Wake(threads) ==
  [th \in Threads |-> IF threads[th].pc = "asleep"
                      THEN [threads[th] EXCEPT !.pc = "check"] ELSE threads[th]]

(* The predicates of waitAcknowledgement, waitChangeAcknowledgement and    *)
(* waitCancelAcknowledgement.                                              *)
Answered(th) ==
  LET o == info[t[th].id] IN
  IF t[th].wait = "cancel" THEN o.cancel_stage \in {"DONE", "FAIL"}
                           ELSE IsAcknowledged(o)

(* cv.wait finds its predicate false, with mt held ...                     *)
CheckFails(th) ==
  /\ t[th].pc = "check"
  /\ mt = Nobody
  /\ ~Answered(th)
  /\ mt' = th
  /\ Goto(th, [t[th] EXCEPT !.pc = "block"])
  /\ UNCHANGED <<exchangeVars, info, next, order_hash, orders, live, total,
                 totalExecuted, pending, g>>

(* ... and gives the mutex up as it falls asleep.                          *)
Block(th) ==
  /\ t[th].pc = "block"
  /\ mt' = Nobody
  /\ Goto(th, [t[th] EXCEPT !.pc = "asleep"])
  /\ UNCHANGED <<exchangeVars, info, next, order_hash, orders, live, total,
                 totalExecuted, pending, g>>

SpuriousWakeup(th) ==
  /\ t[th].pc = "asleep"
  /\ Goto(th, [t[th] EXCEPT !.pc = "check"])
  /\ UNCHANGED <<exchangeVars, info, next, order_hash, orders, live, total,
                 totalExecuted, pending, mt, g>>

-----------------------------------------------------------------------------
(* open, close and sendPendingOrders.                                      *)

(* Sending an order of this side: the hash entry is made first and stays   *)
(* when PostOrder fails.                                                   *)
Send(th, side, fn, size, local) ==
  /\ next \in Ids
  /\ info' = [info EXCEPT ![next] = NewOrder(side, fn, size)]
  /\ order_hash' = order_hash \cup {next}
  /\ next' = next + 1
  /\ \/ /\ Post(next, size)
        /\ Goto(th, [local EXCEPT !.pc = "check", !.wait = "ack", !.id = next])
     \/ /\ "post" \in Faults
        /\ Goto(th, Idle)
        /\ UNCHANGED book
  /\ UNCHANGED <<inbox, orders, live, total, totalExecuted, pending, mt, g>>

Open(th, size) ==
  /\ t[th].pc = "idle"
  /\ Send(th, OpenSide, "onOpenFill", size, Idle)

Close(th, size) ==
  /\ t[th].pc = "idle"
  /\ Send(th, CloseSide, "onCloseFill", size, Idle)

ClosePending(th, size) ==
  /\ t[th].pc = "idle"
  /\ Len(pending) < MaxPending
  /\ pending' = Append(pending, size)
  /\ UNCHANGED <<exchangeVars, info, next, order_hash, orders, live, total,
                 totalExecuted, mt, t, g>>

SendPendingOrders(th) ==
  /\ t[th].pc = "idle"
  /\ pending # <<>>
  /\ Send(th, CloseSide, "onCloseFill", Head(pending), [Idle EXCEPT !.pend = TRUE])

(* AckFailed, with sendPendingOrders popping its request all the same.     *)
AckFailed_Pops(th) ==
  /\ t[th].pc = "check" /\ t[th].wait \in {"ack", "reprice", "resize"}
  /\ mt = Nobody
  /\ Answered(th)
  /\ ~info[t[th].id].is_acknowledged
  /\ pending' = IF t[th].pend /\ pending # <<>> THEN Tail(pending) ELSE pending
  /\ Return(th)
  /\ UNCHANGED <<exchangeVars, info, next, order_hash, orders, live, total,
                 totalExecuted, mt, g>>

(* waitAcknowledgement, whose predicate holds: open and close return 0 ... *)
AckFailed(th) ==
  /\ t[th].pc = "check" /\ t[th].wait \in {"ack", "reprice", "resize"}
  /\ mt = Nobody
  /\ Answered(th)
  /\ ~info[t[th].id].is_acknowledged
  /\ Return(th)
  /\ UNCHANGED <<exchangeVars, info, next, order_hash, orders, live, total,
                 totalExecuted, pending, mt, g>>

(* ... or the order goes into orders, under mt.  A change of price alone   *)
(* is then over; every other order has still to be counted.                *)
AckGranted(th) ==
  /\ t[th].pc = "check" /\ t[th].wait \in {"ack", "reprice", "resize"}
  /\ mt = Nobody
  /\ info[t[th].id].is_acknowledged
  /\ orders' = orders \cup {t[th].id}
  /\ IF t[th].wait = "reprice" THEN Return(th)
                               ELSE Goto(th, [t[th] EXCEPT !.pc = "count"])
  /\ UNCHANGED <<exchangeVars, info, next, order_hash, live, total,
                 totalExecuted, pending, mt, g>>

(* totalopen += size, or the difference a change of size makes: read and   *)
(* written without mt, which only a cancelled order's update holds.        *)
LiveRead(th) ==
  /\ t[th].pc = "count"
  /\ Goto(th, [t[th] EXCEPT !.pc = "store", !.tmp = live[LiveOf(info[t[th].id].side)]])
  /\ UNCHANGED <<exchangeVars, info, next, order_hash, orders, live, total,
                 totalExecuted, pending, mt, g>>

LiveChange(l) ==
  CASE l.wait = "cancel" -> 0 - info[l.id].openSize
    [] l.wait = "resize" -> info[l.id].size - info[l.orig].size
    [] OTHER             -> info[l.id].size

LiveWrite(th) ==
  /\ t[th].pc = "store"
  /\ live' = [live EXCEPT ![LiveOf(info[t[th].id].side)] = t[th].tmp + LiveChange(t[th])]
  /\ pending' = IF t[th].pend /\ pending # <<>> THEN Tail(pending) ELSE pending
  /\ mt' = IF t[th].wait = "cancel" THEN Nobody ELSE mt
  /\ Return(th)
  /\ UNCHANGED <<exchangeVars, info, next, order_hash, orders, total,
                 totalExecuted, g>>

-----------------------------------------------------------------------------
(* change.  A change that cannot be sent leaves the change callback        *)
(* registered and takes its new hash entry out again.                      *)

Finished(o) == o.condition \in {"DONE", "CANCELED"} \/ o.stage = "FILLED"

Change(th, i, new_size) ==
  LET changed == ChangedOrder(info[i], new_size) IN
  /\ t[th].pc = "idle"
  /\ i \in orders
  /\ IF Finished(info[i])
     THEN /\ info' = [info EXCEPT ![i].onOrderChange = TRUE]
          /\ UNCHANGED <<book, next, order_hash, t>>
     ELSE /\ next \in Ids
          /\ info' = [info EXCEPT ![i].onOrderChange = TRUE, ![next] = changed]
          /\ next' = next + 1
          /\ \/ /\ Replace(next, i, changed.size)
                /\ order_hash' = order_hash \cup {next}
                /\ Goto(th, [Idle EXCEPT !.pc = "check", !.id = next, !.orig = i,
                                         !.wait = IF new_size = 0 THEN "reprice" ELSE "resize"])
             \/ /\ "post" \in Faults
                /\ UNCHANGED <<book, order_hash, t>>
  /\ UNCHANGED <<inbox, orders, live, total, totalExecuted, pending, mt, g>>

-----------------------------------------------------------------------------
(* cancel and cancelAll.                                                   *)

(* The start of cancel(i): an order that is past cancelling leaves orders, *)
(* any other gets its cancel callback ...                                  *)
BeginCancel(th, i, local) ==
  IF CanCancel(info[i])
  THEN /\ info' = [info EXCEPT ![i].onOrderCancel = TRUE]
       /\ Goto(th, [local EXCEPT !.pc = "mark_cancel", !.id = i])
       /\ UNCHANGED orders
  ELSE /\ orders' = orders \ {i}
       /\ Goto(th, After([local EXCEPT !.id = i]))
       /\ UNCHANGED info

Cancel(th, i) ==
  /\ t[th].pc = "idle"
  /\ i \in orders
  /\ BeginCancel(th, i, Idle)
  /\ UNCHANGED <<exchangeVars, next, order_hash, live, total, totalExecuted,
                 pending, mt, g>>

(* ... which may already have run when the order is marked.                *)
MarkCancel(th) ==
  /\ t[th].pc = "mark_cancel"
  /\ info' = [info EXCEPT ![t[th].id].cancel_stage = "INIT"]
  /\ Goto(th, [t[th] EXCEPT !.pc = "send_cancel"])
  /\ UNCHANGED <<exchangeVars, next, order_hash, orders, live, total,
                 totalExecuted, pending, mt, g>>

(* The cancel requests of i whose answer OnOrder has not been given yet.   *)
CancelsInFlight(i) ==
  book[i].cancels + Len(SelectSeq(inbox[i], LAMBDA e : e.kind \in CancelRefusals))

(* OrderAccount::cancel *)
SendCancel(th) ==
  LET i == t[th].id IN
  /\ t[th].pc = "send_cancel"
  /\ \/ /\ ~Finished(info[i])
        /\ CancelsInFlight(i) < MaxCancels
        /\ RequestCancel(i)
        /\ Goto(th, [t[th] EXCEPT !.pc = "check", !.wait = "cancel"])
     \/ /\ Finished(info[i]) \/ "post" \in Faults
        /\ Return(th)
        /\ UNCHANGED book
  /\ UNCHANGED <<inbox, info, next, order_hash, orders, live, total,
                 totalExecuted, pending, mt, g>>

(* waitCancelAcknowledgement, whose predicate holds: the verdict is read   *)
(* and acted on under mt, through LiveWrite when the cancel is done.       *)
CancelFailed(th) ==
  /\ t[th].pc = "check" /\ t[th].wait = "cancel"
  /\ mt = Nobody
  /\ info[t[th].id].cancel_stage = "FAIL"
  /\ info' = [info EXCEPT ![t[th].id].cancel_stage = "NONE"]
  /\ Return(th)
  /\ UNCHANGED <<exchangeVars, next, order_hash, orders, live, total,
                 totalExecuted, pending, mt, g>>

CancelDone(th) ==
  LET o == info[t[th].id] IN
  /\ t[th].pc = "check" /\ t[th].wait = "cancel"
  /\ mt = Nobody
  /\ o.cancel_stage = "DONE"
  /\ mt' = th
  /\ Goto(th, [t[th] EXCEPT !.pc = "store", !.tmp = live[LiveOf(o.side)]])
  /\ UNCHANGED <<exchangeVars, info, next, order_hash, orders, live, total,
                 totalExecuted, pending, g>>

CancelAll(th) ==
  /\ t[th].pc = "idle"
  /\ pending' = <<>>
  /\ Goto(th, Scanning(0))
  /\ UNCHANGED <<exchangeVars, info, next, order_hash, orders, live, total,
                 totalExecuted, mt, g>>

(* The loop over orders, in the order of their ids, skips what is past     *)
(* cancelling; after it the orders whose cancel is DONE leave.             *)
Scan(th) ==
  LET ahead == {i \in orders : i > t[th].id} IN
  /\ t[th].pc = "scan"
  /\ \/ \E i \in ahead :
          /\ \A j \in ahead : i <= j
          /\ \/ /\ CanCancel(info[i])
                /\ BeginCancel(th, i, t[th])
             \/ /\ ~CanCancel(info[i])
                /\ Goto(th, [t[th] EXCEPT !.id = i])
                /\ UNCHANGED <<info, orders>>
     \/ /\ ahead = {}
        /\ orders' = {i \in orders : info[i].cancel_stage # "DONE"}
        /\ Goto(th, Idle)
        /\ UNCHANGED info
  /\ UNCHANGED <<exchangeVars, next, order_hash, live, total, totalExecuted,
                 pending, mt, g>>

-----------------------------------------------------------------------------
(* The callbacks.  Each takes the oldest event of a request id.            *)

Deliver(i, kinds) ==
  /\ g.pc = "idle"
  /\ inbox[i] # <<>>
  /\ Head(inbox[i]).kind \in kinds
  /\ inbox' = [inbox EXCEPT ![i] = Tail(@)]

(* A callback about an id order_hash does not hold is logged and dropped.  *)
Unmatched(i) ==
  /\ Deliver(i, EventKinds)
  /\ i \notin order_hash
  /\ UNCHANGED <<book, accountVars>>

Matched(i, kinds) == Deliver(i, kinds) /\ i \in order_hash

(* OnOrder first copies the message: order_info->order = order.            *)
Received(i) ==
  LET event == Head(inbox[i]) IN
  [info[i] EXCEPT !.condition = IF event.kind \in {"DONE", "CANCELED"} THEN event.kind
                                                                      ELSE "OTHER",
                  !.openSize  = event.openSize]

Record(i, o) == info' = [info EXCEPT ![i] = o]

OnNew(i) ==
  /\ Matched(i, {"NEW"})
  /\ Record(i, [Received(i) EXCEPT !.stage = "ACKNOWLEDGED"])
  /\ g' = [GatewayIdle EXCEPT !.pc = "ack", !.id = i]
  /\ UNCHANGED <<book, next, order_hash, orders, live, total, totalExecuted,
                 pending, mt, t>>

OnNewAcknowledge ==
  /\ g.pc = "ack"
  /\ info' = [info EXCEPT ![g.id].is_acknowledged = TRUE]
  /\ g' = [g EXCEPT !.pc = "notify"]
  /\ UNCHANGED <<exchangeVars, next, order_hash, orders, live, total,
                 totalExecuted, pending, mt, t>>

OnRejected(i) ==
  /\ Matched(i, {"REJECTED"})
  /\ Record(i, [Received(i) EXCEPT !.stage = "FAILED", !.is_acknowledged = FALSE])
  /\ g' = [GatewayIdle EXCEPT !.pc = "notify_failed", !.id = i]
  /\ UNCHANGED <<book, next, order_hash, orders, live, total, totalExecuted,
                 pending, mt, t>>

(* The same without the lock_guard.                                        *)
OnNewOrderAcknowledgement_Unlocked ==
  /\ g.pc \in {"notify", "notify_failed"}
  /\ t' = Wake(t)
  /\ order_hash' = IF g.pc = "notify" THEN order_hash ELSE order_hash \ {g.id}
  /\ g' = GatewayIdle
  /\ UNCHANGED <<exchangeVars, info, next, orders, live, total, totalExecuted,
                 pending, mt>>

(* onNewOrderAcknowledgement: notify_all under mt.                         *)
OnNewOrderAcknowledgement ==
  /\ g.pc \in {"notify", "notify_failed"}
  /\ mt = Nobody
  /\ t' = Wake(t)
  /\ order_hash' = IF g.pc = "notify" THEN order_hash ELSE order_hash \ {g.id}
  /\ g' = GatewayIdle
  /\ UNCHANGED <<exchangeVars, info, next, orders, live, total, totalExecuted,
                 pending, mt>>

(* The callback sleeps and posts the same order once more.                 *)
OnThrottle(i) ==
  /\ Matched(i, {"THROTTLE"})
  /\ Record(i, Received(i))
  /\ \/ Become(i, "posted")
     \/ "repost" \in Faults /\ UNCHANGED book
  /\ UNCHANGED <<next, order_hash, orders, live, total, totalExecuted, pending,
                 mt, t, g>>

(* OnFill with onOpenFill or onCloseFill, which runs under mt.             *)
OnFill(i) ==
  LET fill == Head(inbox[i]) IN
  /\ Matched(i, {"FILL"})
  /\ mt = Nobody
  /\ info' = [info EXCEPT ![i].stage     = IF fill.openSize = 0 THEN "FILLED" ELSE @,
                          ![i].fill_size = @ + fill.size]
  /\ total' = IF info[i].onFill = "onOpenFill" THEN total + fill.size
                                               ELSE total - fill.size
  /\ UNCHANGED <<book, next, order_hash, orders, live, totalExecuted, pending,
                 mt, t, g>>

(* onOrderDone, under mt.  The trade-done callback of an opening order may *)
(* queue a close order of its size.  The live counter is read here ...     *)
OnDone(i) ==
  /\ Matched(i, {"DONE"})
  /\ mt = Nobody
  /\ mt' = Gateway
  /\ Record(i, [Received(i) EXCEPT !.stage = "DONE"])
  /\ \/ UNCHANGED pending
     \/ /\ info[i].onFill = "onOpenFill"
        /\ Len(pending) < MaxPending
        /\ pending' = Append(pending, info[i].size)
  /\ g' = [pc |-> "count", id |-> i, tmp |-> live[LiveOf(info[i].side)]]
  /\ UNCHANGED <<book, next, order_hash, orders, live, total, totalExecuted, t>>

(* Booking what the last message says is left, not the order's size.       *)
OnDoneCount_OpenSize ==
  LET o == info[g.id] IN
  /\ g.pc = "count"
  /\ totalExecuted' = totalExecuted + o.openSize
  /\ live' = [live EXCEPT ![LiveOf(o.side)] = g.tmp - o.size]
  /\ orders' = orders \ {g.id}
  /\ order_hash' = order_hash \ {g.id}
  /\ mt' = Nobody
  /\ g' = GatewayIdle
  /\ UNCHANGED <<exchangeVars, info, next, total, pending, t>>

(* ... and written here, before mt is given up.                            *)
OnDoneCount ==
  LET o == info[g.id] IN
  /\ g.pc = "count"
  /\ totalExecuted' = totalExecuted + o.size
  /\ live' = [live EXCEPT ![LiveOf(o.side)] = g.tmp - o.size]
  /\ orders' = orders \ {g.id}
  /\ order_hash' = order_hash \ {g.id}
  /\ mt' = Nobody
  /\ g' = GatewayIdle
  /\ UNCHANGED <<exchangeVars, info, next, total, pending, t>>

(* Without a registered cancel callback only the hash entry goes.          *)
OnCanceled(i) ==
  /\ Matched(i, {"CANCELED"})
  /\ IF info[i].onOrderCancel
     THEN /\ Record(i, [Received(i) EXCEPT !.stage = "CANCELLED", !.cancel_stage = "DONE"])
          /\ g' = [GatewayIdle EXCEPT !.pc = "cancel_done", !.id = i]
          /\ UNCHANGED order_hash
     ELSE /\ Record(i, Received(i))
          /\ order_hash' = order_hash \ {i}
          /\ UNCHANGED g
  /\ UNCHANGED <<book, next, orders, live, total, totalExecuted, pending, mt, t>>

(* A refusal for an order that is gone taken for a cancel that is done.    *)
OnCancelRefused_TooLateIsDone(i) ==
  /\ Matched(i, CancelRefusals)
  /\ IF info[i].onOrderCancel
     THEN LET late == Head(inbox[i]).kind = "TOO_LATE_TO_CANCEL" IN
          /\ Record(i, [Received(i) EXCEPT !.cancel_stage = IF late THEN "DONE" ELSE "FAIL"])
          /\ g' = [GatewayIdle EXCEPT !.id = i,
                     !.pc = IF late THEN "cancel_done" ELSE "cancel_failed"]
     ELSE /\ Record(i, Received(i))
          /\ UNCHANGED g
  /\ UNCHANGED <<book, next, order_hash, orders, live, total, totalExecuted,
                 pending, mt, t>>

OnCancelRefused(i) ==
  /\ Matched(i, CancelRefusals)
  /\ IF info[i].onOrderCancel
     THEN /\ Record(i, [Received(i) EXCEPT !.cancel_stage = "FAIL"])
          /\ g' = [GatewayIdle EXCEPT !.pc = "cancel_failed", !.id = i]
     ELSE /\ Record(i, Received(i))
          /\ UNCHANGED g
  /\ UNCHANGED <<book, next, order_hash, orders, live, total, totalExecuted,
                 pending, mt, t>>

(* The order forgotten after a refused cancel too.                         *)
OnOrderCancelCallback_Erases ==
  /\ g.pc \in {"cancel_done", "cancel_failed"}
  /\ mt = Nobody
  /\ info' = [info EXCEPT ![g.id].cancel_stage =
                IF g.pc = "cancel_done" THEN "DONE" ELSE "FAIL"]
  /\ t' = Wake(t)
  /\ order_hash' = order_hash \ {g.id}
  /\ g' = GatewayIdle
  /\ UNCHANGED <<exchangeVars, next, orders, live, total, totalExecuted,
                 pending, mt>>

(* onOrderCancel: the stage is written once more, under mt.                *)
OnOrderCancelCallback ==
  /\ g.pc \in {"cancel_done", "cancel_failed"}
  /\ mt = Nobody
  /\ info' = [info EXCEPT ![g.id].cancel_stage =
                IF g.pc = "cancel_done" THEN "DONE" ELSE "FAIL"]
  /\ t' = Wake(t)
  /\ order_hash' = IF g.pc = "cancel_done" THEN order_hash \ {g.id} ELSE order_hash
  /\ g' = GatewayIdle
  /\ UNCHANGED <<exchangeVars, next, orders, live, total, totalExecuted,
                 pending, mt>>

(* The original of an accepted change leaves orders (without mt) and the   *)
(* hash; the refusal of a change is only logged.                           *)
OnChanged(i) ==
  /\ Matched(i, {"CHANGED"})
  /\ Record(i, Received(i))
  /\ orders' = IF info[i].onOrderChange THEN orders \ {i} ELSE orders
  /\ order_hash' = order_hash \ {i}
  /\ UNCHANGED <<book, next, live, total, totalExecuted, pending, mt, t, g>>

OnChangeRejected(i) ==
  /\ Matched(i, {"CHANGE_REJECTED"})
  /\ Record(i, Received(i))
  /\ UNCHANGED <<book, next, order_hash, orders, live, total, totalExecuted,
                 pending, mt, t, g>>

(* OrderAccount::OnOrderCancel *)
OnOrderCancel(i) ==
  /\ Matched(i, {"CANCEL_NOTICE"})
  /\ info' = [info EXCEPT ![i].stage = "CANCELLED"]
  /\ UNCHANGED <<book, next, order_hash, orders, live, total, totalExecuted,
                 pending, mt, t, g>>

(* OrderAccount::OnOrderChange with ORDER_UNKNOWN *)
OnOrderChange(i) ==
  /\ Matched(i, {"UNKNOWN"})
  /\ info' = [info EXCEPT ![i].stage = "FAILED"]
  /\ UNCHANGED <<book, next, order_hash, orders, live, total, totalExecuted,
                 pending, mt, t, g>>

-----------------------------------------------------------------------------
(* Who may do what: the strategy decides when to trade, so those actions   *)
(* carry no fairness.                                                      *)

Trade ==
  \/ \E n \in Sizes : \/ Open(Trader, n)
                      \/ Close(Trader, n)
                      \/ ClosePending(Trader, n)
  \/ SendPendingOrders(Trader)
  \/ \E i \in Ids, n \in {0} \cup Sizes : Change(Trader, i, n)
  \/ \E i \in Ids : Cancel(Trader, i)
  \/ CancelAll(Trader)

Stop == \E th \in Stoppers : CancelAll(th)

Proceed(th) ==
  \/ CheckFails(th) \/ Block(th)
  \/ AckFailed(th) \/ AckGranted(th)
  \/ LiveRead(th) \/ LiveWrite(th)
  \/ MarkCancel(th) \/ SendCancel(th) \/ CancelFailed(th) \/ CancelDone(th)
  \/ Scan(th)

Callback(i) ==
  \/ Unmatched(i)
  \/ OnNew(i) \/ OnRejected(i) \/ OnThrottle(i)
  \/ OnFill(i) \/ OnDone(i)
  \/ OnCanceled(i) \/ OnCancelRefused(i)
  \/ OnChanged(i) \/ OnChangeRejected(i)
  \/ OnOrderCancel(i) \/ OnOrderChange(i)

FinishCallback ==
  \/ OnNewAcknowledge \/ OnNewOrderAcknowledgement
  \/ OnDoneCount \/ OnOrderCancelCallback

Next ==
  \/ Trade
  \/ Stop
  \/ \E th \in Threads : Proceed(th) \/ SpuriousWakeup(th)
  \/ \E i \in Ids : Callback(i)
  \/ FinishCallback
  \/ \E i \in Ids : ExchangeStep(i) /\ UNCHANGED accountVars

Spec == Init /\ [][Next]_vars

(* The router answers every request, and does not throttle one for ever;   *)
(* callbacks are delivered and finish, and a thread that is neither idle   *)
(* nor asleep runs.  Strong fairness where the step needs the mutex or the *)
(* callback thread, which others keep taking: each of them gives it up.    *)
Fairness ==
  /\ \A i \in Ids : /\ SF_vars(Decide(i) /\ UNCHANGED accountVars)
                    /\ WF_vars(Answer(i) /\ UNCHANGED accountVars)
                    /\ SF_vars(Callback(i))
  /\ SF_vars(FinishCallback)
  /\ \A th \in Threads : SF_vars(Proceed(th))

FairSpec == Spec /\ Fairness

-----------------------------------------------------------------------------
(* Properties.                                                             *)

(* What the account believes is left of order i when the first k - 1       *)
(* undelivered events have been handled.                                   *)
LeavesBefore(i, k) ==
  IF k = 1 THEN info[i].size - info[i].fill_size ELSE inbox[i][k - 1].openSize

Reconciles(i) ==
  book[i].state # "none" =>
    /\ \A k \in DOMAIN inbox[i] :
         inbox[i][k].openSize + inbox[i][k].size = LeavesBefore(i, k)
    /\ book[i].leaves = LeavesBefore(i, Len(inbox[i]) + 1)

(* No fill is lost, counted twice or applied out of order: what OnFill has *)
(* added up, followed by the events still on their way, is exactly what    *)
(* the exchange has executed of every order.                               *)
FillsReconcile == \A i \in Ids : Reconciles(i)

Matches(i) ==
  \A k \in DOMAIN inbox[i] : inbox[i][k].kind \notin Refusals => i \in order_hash

(* order_hash forgets an order (DONE, CANCELED, REJECTED, CHANGED, a       *)
(* failed ChangeOrder) only when nothing but the refusal of a cancel or    *)
(* change request can still come for it.                                   *)
CallbacksMatch == \A i \in Ids : Matches(i)

Opens(o) == LiveOf(o.side) = "open"   \* does a fill of it add to the position?

(* The position onOpenFill and onCloseFill keep is the one the sides of    *)
(* the orders sent to the exchange give.                                   *)
PositionReconciles ==
  total = SumFunction([i \in Ids |-> IF Opens(info[i]) THEN info[i].fill_size
                                              ELSE 0 - info[i].fill_size])

Booked(i) == info[i].stage = "DONE" /\ ~(g.pc = "count" /\ g.id = i)

(* totalExecuted, which onOrderDone advances by the size of the order, is  *)
(* what was really filled of the orders that are done.                     *)
ExecutedReconciles ==
  totalExecuted = SumFunction([i \in Ids |-> IF Booked(i) THEN info[i].fill_size ELSE 0])

(* An order whose cancel is reported DONE is cancelled at the exchange and *)
(* will not be filled any more: what waitCancelAcknowledgement takes off   *)
(* the live counter is all that was left of it.                            *)
CancelIsFinal ==
  \A i \in Ids : info[i].cancel_stage = "DONE" =>
    /\ book[i].state = "cancelled"
    /\ info[i].openSize = info[i].size - info[i].fill_size
    /\ \A k \in DOMAIN inbox[i] : inbox[i][k].kind # "FILL"

(* No wake-up is lost between a callback's writes, which take no lock, and *)
(* its notify_all: while a thread sleeps on a condition that has come      *)
(* true, the callback that made it true has still to notify.               *)
SleeperIsNotified ==
  \A th \in Threads : t[th].pc = "asleep" /\ Answered(th) =>
    g.id = t[th].id /\ g.pc \in {"ack", "notify", "notify_failed",
                                  "cancel_done", "cancel_failed"}

(* A pending close order leaves the queue only when cancelAll drops it or  *)
(* when the order sent for that very request has been acknowledged.        *)
PendingIsSent ==
  [][Len(pending') < Len(pending) =>
       \/ \E th \in Threads : t[th].pc = "idle" /\ t'[th].all
       \/ \E th \in Threads : /\ t[th].pend
                             /\ info[t[th].id].size = Head(pending)
                             /\ info[t[th].id].is_acknowledged]_vars

Waiting(th, waits) == t[th].wait \in waits /\ t[th].pc \in {"check", "block", "asleep"}

(* open and close return: the wait for an acknowledgement ends.            *)
AckReturns == \A th \in Threads : Waiting(th, {"ack"}) ~> ~Waiting(th, {"ack"})

(* cancel returns.                                                         *)
CancelReturns == \A th \in Threads : Waiting(th, {"cancel"}) ~> ~Waiting(th, {"cancel"})

(* cancel returns unless the order was forgotten before the answer came.   *)
CancelReturnsIfKnown ==
  \A th \in Threads : Waiting(th, {"cancel"}) ~>
    ~Waiting(th, {"cancel"}) \/ t[th].id \notin order_hash

(* The fills of an account obey the ledger.                                *)
Ledger == INSTANCE FillLedger WITH
  Orders     <- Ids,
  OrderSizes <- Sizes,
  size     <- [i \in Ids |-> info[i].size],
  opens    <- [i \in Ids |-> Opens(info[i])],
  filled   <- [i \in Ids |-> info[i].fill_size],
  finished <- {i \in Ids : Booked(i)},
  position <- total,
  executed <- totalExecuted

KeepsLedger == Ledger!Init /\ [][Ledger!Next]_(Ledger!vars)

-----------------------------------------------------------------------------
(* The inductive invariant behind TypeOK, FillsReconcile, CallbacksMatch   *)
(* and the ledger, a conjunction over the orders.                          *)

OnlyRefusals(s) == \A k \in DOMAIN s : s[k].kind \in Refusals

(* The callback thread is about to take i out of order_hash.               *)
Erasing(i) == g.id = i /\ g.pc \in {"notify_failed", "cancel_done", "count"}

(* An id not given out yet is unknown to everyone; one given out has a     *)
(* size.                                                                   *)
FreshId(i) ==
  IF i < next
  THEN info[i].size \in Sizes
  ELSE /\ book[i] = NoEntry /\ inbox[i] = <<>>
       /\ info[i].size = 0 /\ info[i].fill_size = 0 /\ info[i].stage = "SENT"
       /\ i \notin orders

ReplacesAnother(i) ==
  book[i].state = "replacing" => book[i].original \in (1..(next - 1)) \ {i}

EventForm(i) ==
  /\ \A k \in DOMAIN inbox[i] :
       /\ inbox[i][k].kind = "FILL" <=> inbox[i][k].size > 0
       /\ inbox[i][k].kind = "DONE" => inbox[i][k].openSize = 0
       /\ inbox[i][k].kind \notin Refusals => book[i].state # "none"
  /\ book[i].state = "filled" => book[i].leaves = 0

(* A throttled order is told so once, and waits to be posted again.        *)
ThrottledOnce(i) ==
  \A k \in DOMAIN inbox[i] : inbox[i][k].kind = "THROTTLE" =>
    /\ book[i].state = "throttled"
    /\ \A l \in DOMAIN inbox[i] : inbox[i][l].kind = "THROTTLE" => k = l

(* The event that closes an order is the last but for refusals, and the    *)
(* order stays in order_hash as long as the exchange works on it.          *)
ClosedIsLast(i) ==
  /\ \A j, k \in DOMAIN inbox[i] :
       j < k /\ inbox[i][j].kind \in Closing => inbox[i][k].kind \in Refusals
  /\ book[i].state \in Working =>
       /\ i \in order_hash
       /\ ~Erasing(i)
       /\ info[i].stage # "DONE"
       /\ \A k \in DOMAIN inbox[i] : inbox[i][k].kind \notin Closing
  /\ Erasing(i) \/ info[i].stage = "DONE" => OnlyRefusals(inbox[i])

SidesAgree(i) == info[i].onFill = "onOpenFill" <=> Opens(info[i])

DoneIsFull(i) ==
  g.pc = "count" /\ g.id = i =>
    info[i].stage = "DONE" /\ info[i].fill_size = info[i].size

OrderInv(i) ==
  /\ FreshId(i)
  /\ ReplacesAnother(i)
  /\ EventForm(i)
  /\ ThrottledOnce(i)
  /\ ClosedIsLast(i)
  /\ SidesAgree(i)
  /\ DoneIsFull(i)
  /\ Reconciles(i)
  /\ Matches(i)

(* The threads work on orders that have an id.                             *)
ActorsInv ==
  /\ \A th \in Threads :
       /\ t[th].id < next
       /\ t[th].pc \notin {"idle", "scan"} => t[th].id > 0
       /\ t[th].wait = "resize" => t[th].orig > 0
  /\ g.id < next
  /\ g.pc # "idle" => g.id > 0

IInv == TypeOK /\ ActorsInv /\ \A i \in Ids : OrderInv(i)
=============================================================================

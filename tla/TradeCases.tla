------------------------------ MODULE TradeCases ------------------------------
(***************************************************************************)
(* The trade cases TradeInstance creates: panic close, soft close, the     *)
(* cases 4, 9 and 10 and the hedge of the current account.  A run of a     *)
(* case reads positions and prices, may change its record, and leaves the  *)
(* calls it makes as a list of steps; what a case does with an answer is   *)
(* Answered.  Between the reading and every call the market moves.         *)
(***************************************************************************)
EXTENDS PairAccounts, SequencesExt

CONSTANTS
  Quotes,        \* the quotes a stamp may carry, records of bid and ask
  ShareRounds,   \* the sizes of the share rounds, a sequence
  BaseQty,       \* base_qty
  TranchValue    \* tranch_value

ASSUME CaseAssumption ==
  /\ Quotes \subseteq [bid : Nat \ {0}, ask : Nat \ {0}]
  /\ ShareRounds \in Seq(Nat \ {0}) /\ ShareRounds # <<>>
  /\ BaseQty \in Nat \ {0}
  /\ TranchValue \in Nat

Prices   == UNION {{q.bid, q.ask} : q \in Quotes}
Triggers == {"INIT", "POSITIVE", "NEGATIVE"}

Specials == {"PANIC_CLOSE", "SOFT_CLOSE"}
Types    == Specials \cup {"NONE", "CASE_4", "CASE_9", "CASE_10", "HEDGECURRENT"}
States   == {"INIT", "PRICE_CHANGE", "WAIT", "DONE", "FAILED"}
NoAcc    == "nullptr"

(* size is close_size, ho_size or first_order_size; main the order id it   *)
(* remembers; original and to_close belong to case 10, flag and requotes   *)
(* (requote_order_flag, requote_orders) to case 4.                         *)
Case == [type : Types, state : States, cur : Accounts \cup {NoAcc},
         opp : Accounts \cup {NoAcc}, price : {0} \cup Prices, size : Int,
         main : {0} \cup Slots, original : Int,
         to_close : Accounts \cup {NoAcc}, flag : BOOLEAN,
         requotes : Seq(Slots)]

NewCase(type, cur, opp) ==
  [type |-> type, state |-> "INIT", cur |-> cur, opp |-> opp, price |-> 0,
   size |-> 0, main |-> 0, original |-> 0, to_close |-> opp, flag |-> FALSE,
   requotes |-> <<>>]

NoCase == NewCase("NONE", NoAcc, NoAcc)

(* A step of a thread: a call on an account, or a label of its own.  "to"  *)
(* is where the answer of a call goes.                                     *)
Labels == {"drop", "pending", "requote",              \* of both threads
           "special", "panic init", "panic case",        \* of specialCases
           "soft special", "soft init", "soft case", "select",
           "trigger", "run", "finish", "bury", "crash",  \* of triggerProcessing
           "panic", "arm panic", "no panic", "disarm panic", "soft",
           "arm soft", "no soft", "disarm soft", "enable", "disable"}
Step == [do : Calls \cup Labels,
         acct : Accounts \cup {NoAcc}, size : Int, price : {0} \cup Prices,
         id : {0} \cup Slots, done : Callbacks, to : {"main", "requote", "none"}]

Do(label) == [do |-> label, acct |-> NoAcc, size |-> 0, price |-> 0, id |-> 0,
              done |-> "none", to |-> "none"]
On(a, label) == [Do(label) EXCEPT !.acct = a]
CallOpen(a, size, price, done, to) ==
  [On(a, "open") EXCEPT !.size = size, !.price = price, !.done = done, !.to = to]
CallClose(a, size, price) ==
  [On(a, "close") EXCEPT !.size = size, !.price = price, !.to = "main"]
CallChange(a, id, size, price, to) ==
  [On(a, "change") EXCEPT !.id = id, !.size = size, !.price = price, !.to = to]

CancelAll(a) == <<On(a, "drop"), On(a, "cancel")>>

(* What a run comes to: the case, the calls, and trigger_state, which a    *)
(* panic or soft close sets.                                               *)
Out(c, steps, ts) == [c |-> c, steps |-> steps, trigger |-> ts]
Becomes(c, state) == [c EXCEPT !.state = state]

-----------------------------------------------------------------------------
(* Prices.  thin says that the book does not hold the size asked for.      *)

Against(ts) == CASE ts = "POSITIVE" -> "NEGATIVE"
                 [] ts = "NEGATIVE" -> "POSITIVE"
                 [] OTHER -> ts

openPrice(ts, q, thin, current_price) ==
  CASE ts = "POSITIVE" -> IF current_price > q.bid THEN current_price
                          ELSE IF thin THEN q.ask ELSE q.bid
    [] ts = "NEGATIVE" -> IF current_price \in 1..(q.ask - 1) THEN current_price
                          ELSE IF thin THEN q.bid ELSE q.ask
    [] OTHER -> 0

closePrice(ts, q, thin) == openPrice(Against(ts), q, thin, 0)
sendPrice(ts, q, thin)  == openPrice(ts, q, thin, 0)
marketPrice(ts, q)      == IF ts = "POSITIVE" THEN q.ask ELSE q.bid

-----------------------------------------------------------------------------
(* PanicClose and SoftClose.                                               *)

(* "select triggers": the account that is behind becomes the current one.  *)
Behind == IF total["short"] > total["long"] THEN "long" ELSE "short"
Selected(c) == IF Equal THEN c ELSE [c EXCEPT !.cur = Behind, !.opp = Other(Behind)]
SelectedTrigger(ts) ==
  IF Equal THEN ts ELSE IF Behind = "long" THEN "POSITIVE" ELSE "NEGATIVE"
Excess_All(c) == total[c.opp]
Excess(c) == total[c.opp] - total[c.cur]

PanicInit(c, ts, q) ==
  IF Equal THEN {Out(Becomes(c, "DONE"), <<>>, ts)}
  ELSE LET s == Selected(c)
           t == SelectedTrigger(ts)
           new == [s EXCEPT !.size = Excess(s), !.price = marketPrice(t, q)]
       IN {Out(new, <<CallClose(new.opp, new.size, new.price)>>, t)}

PanicReprice_NeverDone(c, ts, q) ==
  LET price == marketPrice(ts, q) IN
  {Out(c, IF price = c.price THEN <<>>
          ELSE <<CallChange(c.opp, c.main, 0, price, "main")>>, ts)}

PanicReprice(c, ts, q) ==
  LET price == marketPrice(ts, q) IN
  IF Equal THEN {Out(Becomes(c, "DONE"), <<>>, ts)}
  ELSE {Out(c, IF price = c.price THEN <<>>
               ELSE <<CallChange(c.opp, c.main, 0, price, "main")>>, ts)}

(* A soft close that finds the accounts equal is DONE, and goes on; before *)
(* the first trigger it then reads the position of no account.             *)
SoftInit(c, ts, q, thin) ==
  LET s == [Selected(c) EXCEPT !.state = IF Equal THEN "DONE" ELSE @]
      t == SelectedTrigger(ts)
      new == [s EXCEPT !.size = Excess(s), !.price = closePrice(t, q, thin)]
  IN IF s.cur = NoAcc THEN {Out(s, <<Do("crash")>>, t)}
     ELSE {Out(new, <<>>, t),     \* pnl < 0: tried again in the next round
           Out(new, <<CallClose(new.opp, new.size, new.price)>>, t)}

SoftReprice(c, ts, q, thin) ==
  LET price == closePrice(ts, q, thin) IN
  IF Equal THEN {Out(Becomes(c, "DONE"), <<>>, ts)}
  ELSE {Out(c, s, ts) :
          s \in IF price = c.price THEN {<<>>}
                ELSE {<<>>, <<CallChange(c.opp, c.main, 0, price, "main")>>}}

-----------------------------------------------------------------------------
(* HedgeCurrent opens in the current account what the opposite is ahead.   *)

HedgeInit(c, ts, q, thin) ==
  LET new == [c EXCEPT !.size = Excess(c), !.price = sendPrice(ts, q, thin)] IN
  IF new.size # 0       \* ho_size is unsigned
  THEN {Out(new, <<CallOpen(new.cur, new.size, new.price, "none", "main")>>, ts)}
  ELSE {Out(Becomes(new, "FAILED"), <<>>, ts)}

HedgeReprice(c, ts, q, thin) ==
  LET new   == IF Equal THEN Becomes(c, "DONE") ELSE c
      price == openPrice(ts, q, thin, c.price)
  IN {Out(new, IF price = c.price THEN <<>>
               ELSE <<CallChange(c.cur, c.main, 0, price, "main")>>, ts)}

-----------------------------------------------------------------------------
(* Case 9 closes what the current account holds in profit, as much of it   *)
(* as sizeofCloseOrderWithPNL says: some part of the position.             *)

Profitable_Base(a) == {BaseQty}
Profitable(a) == 0..total[a]

Case9Init(c, ts, q, thin) ==
  {LET new == [c EXCEPT !.price = closePrice(ts, q, thin), !.size = n] IN
   IF n = 0 THEN Out(Becomes(new, "FAILED"), <<>>, ts)
   ELSE Out(new, <<CallClose(new.cur, n, new.price)>>, ts) : n \in Profitable(c.cur)}

Case9Reprice(c, ts, q, thin) ==
  LET price == closePrice(ts, q, thin) IN
  IF total[c.cur] = 0 THEN {Out(Becomes(c, "DONE"), <<>>, ts)}
  ELSE {Out(c, IF n = 0 \/ price = c.price THEN <<>>
               ELSE <<CallChange(c.cur, c.main, n, price, "main")>>, ts) :
          n \in Profitable(c.cur)}

-----------------------------------------------------------------------------
(* Case 10 closes one account base_qty by base_qty, at a price from the    *)
(* open of the bar and the error of the estimate: any price.               *)

Case10Init(c, ts) ==
  LET ahead == total[c.cur] > total[c.opp] /\ ~(total[c.cur] > 0 /\ total[c.opp] = 0)
      s == IF ahead THEN [c EXCEPT !.to_close = c.cur] ELSE c
      new == [s EXCEPT !.original = total[s.to_close],
                       !.size = Min({BaseQty, total[s.to_close]})]
  IN {Out([new EXCEPT !.price = p], <<CallClose(new.to_close, new.size, p)>>, ts) :
        p \in Prices}

Case10Reprice(c, ts) ==
  {Out(c, IF p = c.price THEN <<>>
          ELSE <<CallChange(c.to_close, c.main, 0, p, "main")>>, ts) : p \in Prices}

Case10Wait(c, ts) ==
  IF total[c.cur] > 0 /\ total[c.opp] = 0 THEN {Out(Becomes(c, "DONE"), <<>>, ts)}
  ELSE IF total[c.to_close] <= c.original - c.size THEN Case10Init(c, ts)
  ELSE {Out(c, <<>>, ts)}

-----------------------------------------------------------------------------
(* Case 4 opens one order per share round, queues a close for each that is *)
(* done, and once closed opens anew with requote orders.                   *)

Case4Init(c, ts, q, thin) ==
  LET new == [c EXCEPT !.size = ShareRounds[1], !.price = openPrice(ts, q, thin, 0)]
  IN {Out(new, [k \in DOMAIN ShareRounds |->
                  CallOpen(new.cur, ShareRounds[k], new.price, "send_close",
                           IF k = 1 THEN "main" ELSE "none")], ts)}

(* sendRequoteOrders: up to the position the tranch allows, in base_qty    *)
(* pieces, unless the price condition fails.                               *)
Residual(a) == RoundTotal * (tranch[a] + 1) - total[a]

Pieces(n) == [k \in 1..((n + BaseQty - 1) \div BaseQty) |->
                Min({BaseQty, n - (k - 1) * BaseQty})]

RequoteOrders(a, q) ==
  IF tranch[a] = TranchValue \/ Residual(a) <= 0 THEN <<>>
  ELSE [k \in DOMAIN Pieces(Residual(a)) |->
          CallOpen(a, Pieces(Residual(a))[k], q.bid, "send_close", "requote")]

(* The ids of a list that are in S, in their order.                        *)
Chosen(ids, S) ==
  FlattenSeq([k \in DOMAIN ids |-> IF ids[k] \in S THEN <<ids[k]>> ELSE <<>>])

(* updateRequoteOrders: new ones when the old are executed, or the old at  *)
(* another price.                                                          *)
UpdateRequotes(c, q) ==
  LET kept == Chosen(c.requotes, {i \in Live : orders[i].left > 0})
      changes == [k \in DOMAIN kept |->
                    CallChange(c.cur, kept[k], 0, q.bid, "requote")]
      anew == CancelAll(c.cur) \o <<On(c.cur, "requote")>>
  IN {[c |-> [c EXCEPT !.requotes = kept], steps |-> s] :
        s \in IF kept = <<>> THEN {anew} ELSE {<<>>, changes}}

Case4Reprice(c, ts, q, thin) ==
  LET price == openPrice(ts, q, thin, 0)
      requote == IF Equal /\ c.flag THEN UpdateRequotes(c, q)
                 ELSE {[c |-> c, steps |-> <<>>]}
      first == IF c.main = 0 \/ price = c.price THEN <<>>
               ELSE <<CallChange(c.cur, c.main, 0, price, "main")>>
  IN {Out(r.c, r.steps \o <<On(c.cur, "pending")>> \o first, ts) : r \in requote}

-----------------------------------------------------------------------------
(* TradeCase::run.  The cases that wait look at nothing but positions.     *)

FirstRun(c, ts, q, thin) ==
  CASE c.type = "PANIC_CLOSE"  -> PanicInit(c, ts, q)
    [] c.type = "SOFT_CLOSE"   -> SoftInit(c, ts, q, thin)
    [] c.type = "HEDGECURRENT" -> HedgeInit(c, ts, q, thin)
    [] c.type = "CASE_9"       -> Case9Init(c, ts, q, thin)
    [] c.type = "CASE_10"      -> Case10Init(c, ts)
    [] c.type = "CASE_4"       -> Case4Init(c, ts, q, thin)

Reprice(c, ts, q, thin) ==
  CASE c.type = "PANIC_CLOSE"  -> PanicReprice(c, ts, q)
    [] c.type = "SOFT_CLOSE"   -> SoftReprice(c, ts, q, thin)
    [] c.type = "HEDGECURRENT" -> HedgeReprice(c, ts, q, thin)
    [] c.type = "CASE_9"       -> Case9Reprice(c, ts, q, thin)
    [] c.type = "CASE_10"      -> Case10Reprice(c, ts)
    [] c.type = "CASE_4"       -> Case4Reprice(c, ts, q, thin)

WaitIsOver_Covered(c) == total[c.cur] <= total[c.opp]

WaitIsOver(c) ==
  CASE c.type = "CASE_9" -> total[c.cur] = 0
    [] c.type = "CASE_4" -> total[c.cur] >= RoundTotal
    [] OTHER             -> Equal

Wait(c, ts) ==
  IF c.type = "CASE_10" THEN Case10Wait(c, ts)
  ELSE {Out(IF WaitIsOver(c) THEN Becomes(c, "DONE") ELSE c, <<>>, ts)}

Run(c, ts, q, thin) ==
  CASE c.state = "INIT"         -> FirstRun(c, ts, q, thin)
    [] c.state = "PRICE_CHANGE" -> Reprice(c, ts, q, thin)
    [] c.state = "WAIT"         -> Wait(c, ts)
    [] OTHER                    -> {Out(c, <<>>, ts)}

-----------------------------------------------------------------------------
(* What a case makes of an answer.                                         *)

(* open or close: only these give up when their order is refused.          *)
GivesUp(c) == c.type \in {"PANIC_CLOSE", "CASE_9", "CASE_10"}

AnsweredNew_KeepsRefused(c, s, id) ==
  CASE s.to = "main"    -> [c EXCEPT !.main = id,
                              !.state = IF id = 0 /\ GivesUp(c) THEN "FAILED"
                                        ELSE "PRICE_CHANGE"]
    [] s.to = "requote" -> [c EXCEPT !.requotes = Append(@, id)]
    [] OTHER            -> c

AnsweredNew(c, s, id) ==
  CASE s.to = "main"    -> [c EXCEPT !.main = id,
                              !.state = IF id = 0 /\ GivesUp(c) THEN "FAILED"
                                        ELSE "PRICE_CHANGE"]
    [] s.to = "requote" -> IF id = 0 THEN c ELSE [c EXCEPT !.requotes = Append(@, id)]
    [] OTHER            -> c

Without(ids, id) == Chosen(ids, Slots \ {id})

(* change: case 4 forgets an order that is gone and tries one that failed  *)
(* again; the others wait for what they have sent.                         *)
AnsweredChange(c, s, answer) ==
  IF s.to = "requote"
  THEN [c EXCEPT !.requotes = IF answer = "gone" THEN Without(@, s.id) ELSE @]
  ELSE CASE c.type = "CASE_4" -> [c EXCEPT !.main = IF answer = "gone" THEN 0 ELSE @,
                                           !.price = s.price]
         [] c.type = "SOFT_CLOSE" /\ answer # "new" ->
              [c EXCEPT !.main = IF answer = "gone" THEN 0 ELSE @,
                        !.price = s.price, !.state = "WAIT"]
         [] c.type # "CASE_4" /\ answer = "new" ->
              [c EXCEPT !.price = s.price, !.size = IF s.size = 0 THEN @ ELSE s.size]
         [] OTHER -> Becomes(c, "WAIT")
=============================================================================

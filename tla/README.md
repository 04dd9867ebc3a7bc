# Verification of the trading process

This directory holds the TLA+ specifications of the pair-trading process under
`src/src/`: what its threads may do to the orders and positions of an account,
what must stay true while they do it, model-checked with TLC on small instances
and, for the core, proved with TLAPS for every value of the constants.

## 1. The system

One process trades a list of symbols in pairs of accounts, one long and one
short. Its parts, the state they keep and how they meet:

| part | source | state | called by |
|---|---|---|---|
| **OrderAccount** | `akela/OrderAccount.*` | `order_hash` (request id -> order), `request_id_generator`; each `OrderInfo` with its stage, cancel stage, sizes and callbacks | trading accounts (open, close, change, cancel); the router's callback thread (OnOrder, OnFill, OnOrderCancel, OnOrderChange) |
| **trading account** (`AbstractTradeAccount`, long and short) | `trade/*TradeAccount.*` | `orders`, `pending_orders`, position `total`, `totalopen`, `totalclose`, `totalExecuted`, average, mutex `mt` and condition variable `cv` | the trading thread; the callback thread; the console |
| **PositionRecordTable** | `trade/PositionRecordTable.h` | the open positions as a sorted list, with size, average and profit | the fill handlers, the trade cases, the Redis writer |
| **Symbol** and **SymbolManager** | `config/SymbolConfig.h`, `manager/SymbolManager.*` | the last quote, the price bar of the interval, two price estimates, a stack of stamps | market data thread, two timer threads, the trading thread |
| **AvicennaInterface** | `avicenna/*` | one estimator per symbol and timer | its two timer threads |
| **TradeInstance** and **TradeCase** | `trade/TradeInstance.*`, `trade/TradeCase.*` | trigger state, the trade case in progress, panic and soft close flags | its own detached thread; the console |
| **TradeAccountManager**, **CLI**, **STEMConsole** | `manager/*`, `cli/*` | the table of commands, the enable flags | console threads, signal handler |
| **RedisWriter** | `redis/*` | positions, orders and counters in Redis | everything above |
| **STEMDirectConnection** | `akela/STEMDirectConnection.*` | subscriptions | the market data library |
| utilities | `utils/*` | `ThreadPool`, `AsynchronousQueue`, `AsynchronousUnorderedMap`, logging | - |

Threads: one detached trading thread per symbol and pair of accounts
(`TradeInstance::triggerProcessing`), the router's callback thread, the market
data thread, two timer threads per pair (`AvicennaInterface::timeoutThread`), two
console threads and the main thread.

What is hard in it:

* **waits without timeout.** `open`, `close`, `change` and `cancel` block on a
  condition variable until the callback thread has written the answer. The
  callbacks write the fields the wait reads *before* they lock, so every wait is
  a candidate for a lost wake-up, a half-written answer or no answer at all.
* **forgetting.** `order_hash` forgets an order on DONE, CANCELED, REJECTED and
  CHANGED, and a callback for a forgotten order is dropped. Crossing messages
  (a cancel and a fill) decide whether something important is dropped.
* **two kinds of bookkeeping.** Fills move `total` and `fill_size` one by one;
  DONE books the whole size into `totalExecuted` and takes it off the live
  counters; a cancel takes off what the last message says is left. All of them
  have to agree, over changes of size, throttled and repeated posts, and
  several threads.
* **shared state without a lock.** `orders`, `pending_orders`, `totalopen`,
  `totalclose`, `order_hash` and the stamp of a symbol are read and written by
  several threads, some under a mutex and some not.
* **callbacks that outlive their owner.** An order carries functions that capture the trade
  case which sent it; the callback thread calls them whenever the exchange gets round to it.
* **flags set one after the other.** The console switches an instance off, or into a panic
  or soft close, with several assignments the trading thread reads in between.
* **partial failure.** A get that fails looks like a missing key, a login that fails in the
  second account ends a program whose first account already trades.
* **a list that is edited by position.** A fill divides, closes and inserts
  records of the position table; the next fill, the clean-up at the end of a case and
  the repackaging after a hedge all rely on what the last one left.

What makes each part correct:

* trading account and order account: no fill is lost or counted twice; the position,
  the executed total and the live counters agree with the orders; a callback that
  changes anything finds its order; a waiter is woken; a call returns;
* position table: every share the account holds is in an open record; a close
  takes its size out of the open records, profitable ones first; the list is sorted
  by price as long as it is not repackaged;
* symbol and stamps: what the trading thread takes is the newest; it does not sleep
  on a stamp; the two bars it compares belong together;
* trade instance and cases: no order outlives the case that sent it; what a case closes is
  held; an order that hedges never carries one account past the other; a panic close
  that is ordered has its case, and ends the thread with both accounts equal;
* Redis writer: a field one thread writes is not undone by another, and a restart
  finds what was last true;
* start and stop: nothing trades whose answers nobody hears; a stop of all reaches every
  instance; the program does not leave with orders at the market it has not asked to cancel.

## 2. Modules

| module | what it is | models |
|---|---|---|
| `OrderTypes` | the record of one order and the questions asked of it | `OrderInfo`, `PositionRequest`, limits and sides |
| `Exchange` | the router and the exchange, external | `Execution::Connection` as `OrderAccount` uses it |
| `TradeAccount` | a trading account over its order account, with its threads | `AbstractTradeAccount`, `LongTradeAccount`, `ShortTradeAccount`, `OrderAccount` |
| `FillLedger` | abstract specification: what the account promises about its fills | - |
| `MCTradeAccount` | the model-checking module of `TradeAccount` | - |
| `FoldLemmas` | lemmas on sums over finite sets, and on the weight and the order of lists laid out piece by piece | - |
| `TradeAccountProofs` | the invariance proofs of `TradeAccount`, the totals as sums over all orders, that it implements `FillLedger`, that a cancel is final, and that no wake-up and no pending close order is lost | - |
| `PositionTable` | the list of open positions of one account | `PositionRecordTable`, `PositionRecord` |
| `PositionTableProofs` | the proofs of its types, that no share is lost from the list, that fills keep its order, and what a close takes out of it | - |
| `SymbolFeed` | a symbol between market data, timers and the trading thread | `Symbol`, the dispatch of `SymbolManager`, the timers of `AvicennaInterface`, `TradeInstance::readSymbolData` and its loop |
| `Mailbox` | abstract specification: a box that keeps the newest value | - |
| `PairAccounts` | the two accounts of a symbol with every call taken as one step, and its last fills as two | `AbstractTradeAccount` as a trade case sees it |
| `TradeCases` | what a run of a trade case decides, as operators | `TradeCase`: panic close, soft close, cases 4, 9 and 10, hedge of the current account |
| `ConsoleCommands` | the commands as lists of steps | `TradeAccountManager::operator()`, `TradeAccount`, the flags of `TradeInstance` |
| `TradeInstance` | the trading thread beside the console and the market | `TradeInstance::triggerProcessing`, `~TradeCase`, `CLI` |
| `MCTradeInstance` | the model-checking module of `TradeInstance` | - |
| `TradeInstanceProofs` | the proofs of its types, of the forms of what the trading thread has still to do, and that a panic close is answered | - |
| `TradeInstanceOrders` | the proofs of whose the orders at the market are, and what they can and cannot do to the positions | - |
| `RedisStore` | what one account keeps in Redis, over restarts | `RedisWriter`, the restore in the constructor of `TradeInstance` |
| `RedisStoreProofs` | the proofs of its types, that what is stored does not go back and no time of an order is lost | - |
| `Startup` | the life of the program from `main` to its end | `main`, `SymbolManager`, the constructors of `TradeAccountManager` and `TradeAccount`, the signal handler |
| `MCStartup` | the model-checking module of `Startup` | - |
| `StartupProofs` | the proofs of its types, that whoever trades is heard, that a stop of all reaches every instance and what an exit leaves | - |
| `SymbolFeedProofs` | the invariance proofs of `SymbolFeed`, and that it implements `Mailbox` | - |

`TradeAccount` extends `Exchange`, which extends `OrderTypes`. `TradeInstance` extends
`ConsoleCommands`, `TradeCases` and `PairAccounts`, one layer over the other: the thread,
the commands, the cases, the accounts. `PairAccounts` is what is left of
`TradeAccount` when each of its calls is one step, with the answers they have there; the
two are related by what the runs of `TradeAccount` show (when a call returns, a cancel is
final, fills add up), not by a refinement. `PositionTable`, `SymbolFeed`, `RedisStore` and `Startup` touch
the others in one place each: a fill handler calls `OnOpenFill` or `OnCloseFill` of the table,
the `Trade` step of the feed is a round of `TradeInstance`, a round ends with the
write of `RedisStore`, and `Startup` only knows whether a round is under way.

### TradeAccount

`t[th]` is the program counter and the locals of each thread that may call the
account: `Trader` (the trading thread, which opens, closes, changes, cancels and
sends pending orders) and any number of `Stoppers` (console threads, which call
`cancelAll` through `TradeInstance::stopAction`). `g` is the callback thread.
`mt` is the holder of the mutex. The rest of the variables are the members of
the classes, under their own names.

An action is what a thread does between two points where another thread could
tell that it has not finished. So

* `open` is `Open` (build the order, put it in `order_hash`, post it), then
  `CheckFails` / `Block` / being woken, for as long as `isAcknowledged()` is
  false, then `AckFailed` or `AckGranted`, then `LiveRead` and `LiveWrite`, the
  unlocked `totalopen += size`;
* `OnOrder(NEW)` is `OnNew` (stage), `OnNewAcknowledge` (is_acknowledged) and
  `OnNewOrderAcknowledgement` (lock, notify): the two writes are not under the
  mutex, and a waiter may look between them;
* `OnOrder(DONE)` takes the mutex, reads the live counter (`OnDone`) and writes it
  (`OnDoneCount`): the mutex is held between the two, but the trading thread's
  own update of the same counter does not take it;
* `OnFill` is one action. The one thing it writes before its handler takes the mutex is the
  stage of an order filled in full (`OrderAccount.cpp:284`), and within the account only a
  cancel looks at that, which then passes over the order, as it does a moment later. The
  position is not read here; what a case makes of a position that lags behind that stage
  is the subject of `TradeInstance`;
* `cancel` marks the order (`BeginCancel`, `MarkCancel`), sends the request
  (`SendCancel`), waits, and ends in `CancelFailed` or `CancelDone`;
  `cancelAll` is `CancelAll`, which drops the pending queue, and `Scan`, which
  cancels order after order and then drops the cancelled ones.

`Wake` moves every sleeping thread to the re-check of its predicate.
`SpuriousWakeup` does so for no reason, as the standard allows.

The data is abstracted to what the transitions read: an order has no symbol,
user or price; the message copied into the order (`order_info->order = order`)
is kept as its `condition` and `openSize`; `divisor` is taken as 1; the four trade
callbacks are the two fill functions and the three flags (done, cancel, change)
that decide anything. `PENDING_NEW`, `PARTIAL` and `PENDING_CHANGE` only refresh
that copy and are left out. The callbacks about one request id arrive in the order
they were sent, those of different ids in any order. A change gives the new
request id an order of its own, of the size the request carries, as
`OrderAccount::change` builds it.

### Exchange

What the router may answer is a parameter: `Faults` is a set of refusals out of
`FaultKinds` (a failing post, a rejection, the rate throttle, a failing repost, a
refused cancel, an unsolicited cancel, a refused change, an unknown change). A
run names the faults it injects; the proofs hold for any set of them.

### FillLedger

The promise of an account whatever its threads do: an order is entered once
with its size and direction, a fill moves the position by its quantity and
never takes an order past its size, an order is booked as executed once, when it is
full. `TradeAccount` implements it under the mapping `Ledger`.

### PositionTable

`table` is the list, `open_size` the unsigned counter of the class, `total` the
position of the account that owns it, and `restored` what `total` was read back as
when the program started, with an empty table (`TradeInstance.cpp:124-150`). Every
call holds the mutex of the table, so every call is one action:
`OnOpenFill` (`recordOpenPosition`), `OnCloseFill` (`recordClosePosition`),
`DeleteCompletePosition` and `Repackaging`. A close is up to two passes over the
list, each from its best end; `Pass` gives every record the part of the fill that the
records visited before it left over, instead of walking an iterator. The passes differ
for the two kinds of account, as in the code: only the first pass of a long
account asks whether a record is closed already.

Prices are whole ticks. Order ids, the average, the profit and the clean-up of
`clear` are left out: no branch of the table reads them. The average a repackaging
spreads its orders around is therefore any price. Close orders carry
ORDER_FLAG_CHECK_POSITION, so a fill never closes more than the account holds.

### SymbolFeed

Three producers, the market data thread and the two timer threads, update the
symbol under `rw_mutex`. `pc[p]` says how far an update is: `Admit` is the look
at the switch of the symbol, which is not under the mutex; `UpdateQuoteData` or
`ResetIntervalCallback` change the fields and copy the stamp, `Push` appends it under
`stack_mutex`, `Notify` wakes the trading thread and ends the update. A price at
the start of an interval saves the bar as the previous one (`SavePreviousBar`) and
opens the next (`OpenBar`) in two steps, because the trading thread reads the
bars without the mutex (`ReadPreviousBar`, `ReadCurrentBar`).

`consumer` is the trading thread: `FindEmpty` and `Block` are the two halves of going
to sleep, with `stack_mutex` held between them; `Pop` takes the newest stamp and
throws the others away. `Replaced` says which estimate a timer writes.

A bar is the number of its interval, a quote a model value, an estimate any price
the library may compute; `avicenna_toggle` only chooses between fields
of one stamp and is left out.

### PairAccounts and TradeCases

`total` is what `getPosition` returns of each account, and `pos` what it holds by the fills
that were told. The two differ while `booking` names an order whose last fill has made it
STAGE_FILLED and whose handler is still to move `total` (`LastFill`, then `Book`); a fill that
leaves some of its order shows nothing before its handler has run, and is one step (`Fill`).
`orders` are the orders at the market in a few `Slots`,
`pending` the pending orders, `leak` what the live counters count besides live orders
(what was filled of an order that is then cancelled, see section 4; it can be negative, see
there too), `tranch` the tranche
counter, which a close below a multiple of `max_pos` counts down and nothing counts up: it
is 0 or has wrapped. An order carries its `trade_done` function by name.
`known` says whether the account has it among its `orders`.
`Send`, `Change` and `Cancel` have the outcomes of `TradeAccount`: done, refused
(`RefusedCalls` says which calls may be), or answered 0 while the order works,
which then is not known to the account; `Crossed` is when a cancel or a change may wait for ever,
which `TradeInstance` makes an action (`Hang`). An order may be of no shares:
`open` and `close` check an upper bound only. `ReplaceWorks` says whether the exchange
takes the size of a replacement to include what was filled.

A case is a record with the members of `TradeCase` and of its classes that decide anything.
`Run` is `TradeCase::run`: it reads the positions and the quote and gives the
set of outcomes, each with the changed case, the new trigger and *the list of calls the case
makes*. The calls are steps of their own, because orders are filled between them;
`AnsweredNew` and `AnsweredChange` are what the case does with an answer. Prices matter by
comparison only: a quote is a bid and an ask, and whatever hangs on the depth of the book, on
a profit or on an average is a free choice (`thin`, the two outcomes of `SoftReprice`,
`Profitable`).

### ConsoleCommands and TradeInstance

`todo[th]` is the list of steps a thread still has to do: calls on the accounts,
assignments to a flag, and the labels of the loop. Every action takes the step at the head
of one list (`AtHead`, `Then`), so the market and the other thread run between any
two. `Round(e)` takes a stamp with the estimate `e` and puts down what the loop will do: the two
assignments of `selfDestruct` if a live counter exceeds `maximum_live`, then `specialCases`,
which reads and resets its flags in a step each (`ReadFlag`, `WriteFlag`) and so makes a special
case (`SpecialCase`) or leaves the round to `Select` and `TriggerSelection`;
`RunCase` replaces itself by the calls of the case; `Finish` is what the
loop does after the run. `Hang` is a wait for an answer that never comes, of the trading thread or a
console: of a cancel or a change that the last fill of its order has crossed, of a change refused
under the old id, of a throttled order whose repost fails. The thread does nothing any more. `Replace` is the assignment `trade_case = ...`: the new case exists
before the old one, `dying`, is destroyed, `DestroyCancels` are the calls of the destructor
and `Bury` is its end, after which the callbacks of the old case are
`"dangling"`. `CallbackIsLost` is a callback in a case that is gone.

A command line is a name, `-d` or not, and whom it addresses seen from this instance.
`Script` is what it comes to here. `st`, for a whole account, is cancel, cancel, disable, and
cancel again; `pc` is two assignments. The cancels behind the disable are CancelAllOrders, a
message nobody waits for, taken as a step of the console when the exchange carries it out.

Two variables are history. `misled` records that the trading thread was told 0 for an order that
works, or read a position that a fill already told had still to move: it then decides on what is
not so, and what it sends may stand beside, or beyond, what there is already (section 4). The
properties of what a case owns and sends are about a thread that neither has happened to, and
the runs that check them stop where it happens (`UntilMisled`). `crossed` records that
`selfDestruct` has assigned a flag while a console was between its own assignments.

### RedisStore

One account, its key `user:symbol` and one key per order. A get and a set are locked calls,
so each read-modify-write is two actions with what was read kept in
`trader.got` or `gateway.got`. The arguments of a round are read one by one and in any order
(`ReadArgument`), before the lock. `Crash` may come between any two steps and keeps what is in
Redis; `Start`, `GetPosition` and `PutPosition` are the restore and the three
read-modify-writes that follow it. A set may throw, and is then as if it had not been made; a get
that throws is taken for a key that does not exist. `fills`, `used` and `misread` are history.

### Startup

`main` is where the main thread is, from the configuration to `io.run`. `SymbolManager`
hashes a name, subscribes and lists the symbols of each user; then, user by user, the timers
are started, the accounts log in to every venue, and the instances start with their
thread. Market data, timers, rounds and the consoles, any number of them, run meanwhile.
A trade (`TradePrice`) and a quote reach a Symbol unless `ss` has stopped the name or everything
(`Heeded`, `FeedCommand`). A trading thread looks at `is_enable` (`Check`), waits for a stamp,
perhaps for ever, and then trades a round (`BeginRound`, `EndRound`), which may be its last
(`over`): `PastCheck` are the threads that a disable no longer keeps from sending.

A stop is the list of steps
of `TradeAccountManager::stop` for one instance, one user or all, followed, when the signal
handler does it, by the return of `main`. `Cancel`, the `cancelAll` of one account of an
instance, asks for any part of its orders: it passes over those it does not know or that are
filled, and a cancel that is refused has asked all the same. `Ask`, CancelAllOrders of one account, asks
for all. Neither ends an order: the exchange does (`End`), when and if it agrees, and `main` does not
wait for it. What an instance trades is of no interest, only whether a side of it has an order at
the market (`live`) and whether somebody has asked to cancel it since it was sent
(`asked`, history, like `restarted`, `late` and `stopped`).

## 3. Runs

| run | question | bounds |
|---|---|---|
| `account_fills` | do the fills, the position and the executed total agree with the exchange, over changes too, and does the account implement the ledger? | 2 request ids, sizes 1..2, long account, one thread; failed post, refused and unknown change; no cancels, no queue |
| `account_answers` | do `open`, `close` and `cancel` return, also for a queued order, and is a queued order only dropped when it was sent? | 1 request id, sizes 1..2, a queue of one, one cancel in flight, every fault but the failed repost |
| `account_stop` | with a second thread in `cancelAll`, is a wake-up ever lost, is a cancel that is done final, does every callback that matters find its order, is the invariant of the proofs an invariant? | 1 request id, sizes 1..2, short account, one stopper, two cancels in flight; six faults, the failed repost among them |
| `table_long` | is every share in an open record, does a close take exactly its size, do fills keep the order of the list? | long account, 3 prices, sizes 1..3, a position of 4, 3 records, base_qty 2, a start with 0 or 2 |
| `feed_stamps` | does the newest stamp hold the newest fields, is a wake-up lost, is a waiting stamp taken, is the stack a mailbox, can the previous bar be newer than the current one? | 1 quote, 2 estimates, 2 waiting stamps, 2 intervals |
| `instance_trade` | can an order outlive its case or stand beside the one its case works with, close more than is held, or carry one account past the other? | 2 orders at a time of 1..2 shares, positions up to 2, one pending order, one share round of 2, `maximum_live` 3, 2 estimates; opens, closes and changes may be refused, or never answered; up to the first step that misleads the thread; no console |
| `instance_console` | has a panic close that is on its case, does the thread end only with equal positions, does a panic close end it? | as above from two uneven starts, nothing refused, 1 estimate, `maximum_live` 1, so that `selfDestruct` arms panic closes too, `MaxLeak` 1; one console, two of nine command lines |
| `redis_restart` | is what is stored ever replaced by something older, does it catch up with the fills, is a time of an order undone? | short account, 2 ids, a position of 1, 2 fills, 2 starts, sets may fail, one get may |
| `startup` | does a stop of all reach every instance whenever it comes, has everything left at the market been asked to cancel when `main` returns, does every instance get an estimate, are its answers heard? | one name, traded by two users, and one venue; two accounts, the second of a user who trades nothing or of one without symbols; 1 order, one console, 2 commands; with and without `AdminConfig::parse` |
| `cancel_races_fill` | violation: `cancel` returns | 1 request id, no fault |
| `case_outlived` | violation: no callback runs in a case that has been destroyed | as `instance_trade`, nothing refused |
| `special_crashes` | violation: a panic or soft close never takes the program down | as `instance_console` |

Bounds. `MaxId` bounds the request ids: two let an order and its replacement, or
two independent orders, be in flight at once, which is what every interaction
between orders needs (nothing in the code relates three). `OrderLimit` stands for
`ORDER_ACCOUNT_MAXIMUM_LIMIT` (30) and gives the sizes: two are enough for a
partial fill and for a change to a smaller or larger size. `MaxPending` bounds
`pending_orders`, `MaxCancels` the cancel requests of one order on their way.
Because ids run out, and because the trading thread can wait for ever (the
findings), a state without successor is no error: `CHECK_DEADLOCK FALSE`. The same holds
for the instance, whose thread ends with a special close and whose commands run
out, for the last run of `redis_restart`, and for a program that has ended. The
table and the feed check for deadlock.

In the table, three prices give a record on either side of another and one that
ties, a position of four lets a fill divide a record or cross two
records, a fill of three can take a whole record and a part of the next or
exceed what is open after a restart, and three records leave room for the closed part of a
divided one. `Width` is 8 instead of 32 bits: all that `TableAssumption` asks is that
`open_size` can count every share of a position (`MaxTotal < 2^Width`), and a small
one shows `open_size` wrap when a restored position is closed. In the feed, two
estimates make an old stamp different from a new one, a stack of two
(and one more for each producer on its way) lets a pop throw something away, and two
intervals give a bar before the current one.

The instance needs two orders at once, because a case other than 4 works with one and
the question is what another one does to it; size 2 and position 2 give a partial
fill and a position that is ahead, even or behind; `base_qty` and the round are 2 so that one
order can be partly filled and a requote is due. Two estimates are a trigger up and down. Two
commands are the shortest sequence in which one can undo or disturb the other. `MaxLeak` is where
the leak of a live counter stops counting, either way: in `instance_console` it is one, which with
`maximum_live` 1 is enough for an order to take the counter past the limit and below zero; in `instance_trade`,
where a cancelled order may have leaked before, it is none, because only `selfDestruct` asks and
`maximum_live` 3 is passed by two orders as well. `instance_trade` and `instance_console` go as
far as the first step that sets `misled`: behind it the properties of what the cases own hold
vacuously, and what else there is to say is in section 4.

In `redis_restart` two ids are an order and its replacement and a run after
which ids are used again, and two starts are one crash at every point. In `startup` the first of two
accounts has an instance that trades while the other is still being built, the second has no instance or
no symbol map, which makes the constructor fail then; with two users listed for one name, the
dispatch of a price is over a list that grows meanwhile. Two users with instances at once, or two consoles,
are too many states for the liveness check; the theorems are about any number of both.

Fairness (`FairSpec` of `TradeAccount`): the router answers every request and does not throttle
the same order for ever, callbacks are delivered, the callback thread finishes
its handler and a thread that is neither idle nor asleep runs. It is strong
where a step needs the mutex or the callback thread, which the others keep
taking and giving up; a `std::mutex` held for a bounded time is eventually got.
The decisions to trade carry no fairness. `FairSpec` of the feed: the trading thread runs
its loop (a `Trade` step ends; what can keep it inside an account is the subject of
`TradeAccount`), and a producer that holds `rw_mutex` finishes its update, which
takes only `stack_mutex`. Nothing obliges the market, a timer or a console.
`FairSpec` of the instance: the trading thread and a console that has begun a command run,
stamps keep coming, and the market in the end fills what is offered at its price and reports
it, and the handler of a fill ends. A thread that hangs is not run. `FairSpec` of `RedisStore`: the threads run, rounds come again and again, and a
set that is tried for ever succeeds at last; nothing obliges the exchange. `FairSpec` of
`Startup`: trades for a subscribed name, which the exchange keeps reporting, and the timers, whose
threads only sleep; nothing of the main thread, which may throw anywhere, of a console, of quotes or of
a trading thread, which may sleep, wait for a stamp for ever, hang or have ended. A failed repost is outside
`account_answers`: `OrderAccount.cpp:185` logs it and tells nobody, so `open` waits
for ever and `AckReturns` does not hold.

## 4. Findings

The violation runs are disagreements between the code and what its own comments
and messages say; `PROJECT.json` quotes the lines.

* `cancel_races_fill`: a cancel request crosses the last fill. DONE takes the order out
  of `order_hash`, TOO_LATE_TO_CANCEL is dropped, and the trading thread waits
  in `waitCancelAcknowledgement` for ever.
* `case_outlived`: `cancelAll` passes over an order that is filled and whose DONE is on
  its way; its callback then runs in a trade case that has been destroyed.
* `special_crashes`: a soft or panic close that is entered before the first trigger
  works through a `current_acc` that is null.

Met while modelling and left as they are, with the model doing what the code does:

* `waitAcknowledgement` may look between the writes of `stage` and `is_acknowledged`
  (`OrderAccount.cpp:125-126`) and report failure for an order that is working. It is not in
  `orders` then: no `cancelAll` finds it, it outlives its case, and the case sends another beside it
  or is given up and selected again. Without `~misled`, TLC violates `LiveHasCase`,
  `OnlyItsOrderTrades`, `LiveClosesCovered`, `NeverOvershoots` and `EndedIsHedged` this way.
* A fill that completes an order makes it STAGE_FILLED before its handler takes the mutex
  (`OrderAccount.cpp:283-288`), and `getPosition` takes no mutex: a thread that destroys a case,
  selects the next or decides that it is done in between reads the position before the fill while
  `cancelAll` passes the order over (`AbstractTradeAccount.cpp:743`). The properties just named can fail
  this way too.
* DONE takes the size of an order off the live counters also when the order was never put on them,
  because it had been taken for failed. The counter is then below zero, the comparison with the
  unsigned `maximum_live` (`TradeInstance.cpp:526-527`) finds it larger, and every round arms a panic close.
* A cancel or a change that the last fill crosses waits for ever (`AbstractTradeAccount.cpp:671`,
  `:563`), also in `~TradeCase` and also of a panic close that is to be made: `PanicEnds` excludes it.
  So does a change the exchange refuses under the id of the old order, which wakes nobody.
* `selfDestruct` writes the panic flags on the trading thread: when a `pc -d` comes between its two
  assignments, or it writes between those of the console (`TradeInstance.h:301-305`), a panic close can
  be on that has no case, and the thread then takes stamps and does nothing. `PanicIsAnswered` excludes it
  by `crossed`.
* A cancelled order that was partly filled stays in the live counters by what was filled of it;
  `selfDestruct` compares them with `maximum_live`, and above it arms a new panic close in
  every round, so that the thread need not end: `PanicEnds` excludes it by `OverLive`. The same of a
  panic close that is refused: the case stays FAILED while the flag is set, and
  `instance_console` refuses nothing.
* An unchanged estimate of the first timer falls into the branch of the second and overwrites
  its estimate (`SymbolConfig.h:308`).
* A close of a short account that is larger than its profitable records closes them twice and
  leaves others open, also on a clean and sorted table (`PositionRecordTable.h:294`), which is
  why `table_long` is of a long account.
* Without `cancel_on_trigger`, or when a cancel is refused, orders outlive their case and stand beside
  the next one's; `instance_trade` sets the first and refuses no cancel.
* `change` sends the replacement with the whole size of the order, filled shares included. If
  the exchange does not take these off (`ReplaceWorks` false), TLC violates
  `LiveClosesCovered`, `OnlyItsOrderTrades` and `NeverOvershoots` within a few steps.
* `LiveClosesCovered` counts orders at the market: those still in `pending_orders` may ask for
  more than is held.
* With two consoles, `pc` and `pc -d` can interleave to a panic close that is on and has no case.
* `open` and `close` check an upper bound of the size only (`AbstractTradeAccount.cpp:309`, `:357`,
  `:411`, `:458`): a soft close of equal positions and a case 10 with nothing left send orders of
  no shares. `HedgeCurrent` may take a difference below zero for a `uint32_t`, which the bound refuses.
* A stop while a thread is past its look at `is_enable`, in a round or waiting for its stamp, can
  leave the orders it still sends (`late`): a thread that waits trades one more round after
  the stop. `st user symbol` has no second cancel at all.
* `TradeAccountManager::stop` returns when the requests to cancel are out (`TradingConfig.h:181-182`),
  and `main` then ends: whether an exchange refuses one (`AbstractTradeAccount.cpp:676-680`), and what it
  answers to CancelAllOrders, nobody learns. And a `cancelAll` that hangs keeps the stop, and the
  exit, from going on at all.
* `AdminConfig::parse` is commented out (`stem1.cpp:223`) while `AdminConfig::settings`, which
  only it sets, is dereferenced at `:240`: as committed the program ends there. `startup` runs with
  the call and without.
* An account whose user has no symbols is a null dereference (`TradeAccountManager.cpp:30`,
  `SymbolConfig.h:359-361`), and a login that fails throws out of `main`: the orders of
  instances that trade by then stay at the market. A subscription that fails is only
  logged.
* A get that fails at start-up looks like a missing key: the account starts at 0 and its first
  round writes that over the position (`RedisWriter.cpp:57`); and `writeLiveSharesInfo` writes a
  quantity of 0 when its own get fails (`:246-254`). `NewestIsKept` is stated for runs
  without such a failure.
* Fills after the last round's write are lost with the process; request ids start again, so the
  entries of a new run replace or join those of an old one; the order that replaces
  another gets no entry (`AbstractTradeAccount.cpp:618`); an execution time that arrives before
  the entry is made is dropped.
* `calculateSpread` divides by the position of the other account (`AbstractTradeAccount.h:505`): when
  the last shares are closed against an account that holds none, the spread is infinite or no number.
* ORDER_COND_ORDER_UNKNOWN flags a change as failed (`OrderAccount.cpp:262`) and notifies
  nobody, so `waitChangeAcknowledgement` does not end.
* `cancelAll` on a console thread replaces `pending_orders` while `sendPendingOrders` waits, and
  the pop takes a request nobody has sent; `PendingIsSent` is checked without a second
  thread.
* Two threads that cancel one order share its `cancel_stage`: the second resets an answer the
  first has not read (`AbstractTradeAccount.cpp:720`).
* The first pass over a short account does not ask whether a record is closed already
  (`PositionRecordTable.h:294`), nor does the second pass of either
  (`:316`), so a second fill may close a closed record again: `OpenIsCovered` is
  an inequality, and `ProfitCloseIsExact` is checked for a long account.
* After a restart the account may hold more than its table, and a close may be larger than the
  open records. The second pass then reaches what the first has just closed, divides
  such a record and writes one part back as open (`PositionRecordTable.h:316`), so the open shares
  are not those the fill left. `CleanCloseIsExact` is about closes of no more than the open shares.
* A repackaged list is not sorted (`PositionRecordTable.h:394-410`), and its first record
  need not be the extreme one `startingPrice` returns.
* The two bars the trading thread reads need not be neighbours (`TradeInstance.cpp:340-350`).

Undefined behaviour the model does not show, listed as hazards: the reference
`cancel` keeps into `orders` across its wait, the iterator of `cancelAll` whose node
`cancel` may erase, unlocked access to `std::map` and `std::queue`, and `pop()` of an
empty queue (modelled as doing nothing).

## 5. Proofs

`TradeAccountProofs` proves, for any number of orders, sizes, stoppers and any
faults:

* `Invariance`: `Spec => []IInv`;
* `TypeCorrect`: `Spec => []TypeOK`;
* `FillsAreExact`: `Spec => []FillsReconcile`, no fill is lost, counted twice or
  applied out of order;
* `CallbacksFindTheirOrder`: `Spec => []CallbacksMatch`, `order_hash` forgets an order only
  when nothing but the refusal of a cancel or a change can still arrive for it;
* `PositionIsSumOfFills`: `Spec => []PositionReconciles`, `total` is the sum of what the opening
  orders, less what the closing orders, have filled;
* `ExecutedIsSumOfDone`: `Spec => []ExecutedReconciles`, `totalExecuted` is the sum of what was
  filled of the orders whose DONE is booked;
* `ImplementsLedger`: `Spec => KeepsLedger`;

and, under the same generality, about its answers:

* `AnswersInvariance`: `Spec => []AnswersInv`;
* `CancelsAreFinal`: `Spec => []CancelIsFinal`, an order whose cancel is reported done is
  cancelled and will not be filled any more;
* `SleepersAreNotified`: `Spec => []SleeperIsNotified`, no wake-up is lost, provided that the
  router answers no change with `ORDER_UNKNOWN` (`"change_unknown" \notin Faults`). That
  answer, which `OnOrderChange` takes, changes the stage and notifies nobody; the run that
  checks `SleeperIsNotified` leaves it out too;

and, for an account no console or signal thread stops (`Stoppers = {}`; with one, section 4
tells how a request can be lost):

* `PendingInvariance`: `Spec => []PendingInv`;
* `PendingOrdersAreSent`: `Spec => PendingIsSent`, a pending close order leaves the queue only
  through `cancelAll` or when the order sent for it has been acknowledged.

`PositionTableProofs` proves, for any prices, sizes, positions and lengths of the list, and for
both kinds of account where none is named:

* `TableTyped`: `Spec => []TypeOK`;
* `SharesCovered`: `Spec => []OpenIsCovered`, the list never holds fewer open shares than the
  account has gained since the start;
* `FillsStaySorted`: `Spec => FillsKeepOrder`, fills and clean-ups keep a list in order;
* `ProfitClosesExactly`: for a long account `Spec => ProfitCloseIsExact`, a close of no more
  than the profitable shares takes exactly its size, whatever the list holds;
* `OpenListClosesExactly`: `Spec => OpenProfitIsExact`, the same of either account, for a list
  without closed records;
* `CleanClosesExactly`: for a long account `Spec => CleanCloseIsExact`, on a list in order and
  without closed records any close takes exactly its size, profitable shares first.

The last and the first of the exact closes are false of a short account (section 4).

`SymbolFeedProofs` proves, for any quotes, estimates and bounds:

* `FeedTypes`: `Spec => []TypeOK`;
* `UpdatesArePublished`: `Spec => []LatestIsPublished`;
* `NoLostWakeup`: `Spec => []SleeperMissesNothing`;
* `BarsStayInOrder`: `Spec => []BarsInOrder`;
* `ImplementsMailbox`: `Spec => KeepsNewest`.

`RedisStoreProofs` proves, for any number of orders, fills, starts and crashes:

* `RedisInvariance`: `Spec => []RedisInv`;
* `NewestStays`: `Spec => NewestIsKept`, no write takes the stored position or executed total
  back, as long as no get fails;
* `TimesInvariance`: `Spec => []TimesInv`;
* `TimesStay`: `Spec => TimesAreKept`, no time written of an order is lost to a
  read-modify-write of the other thread, whatever fails;
* `RedisTyped`: `Spec => []TypeOK`, which bounds the stored position by what the account can hold and
  the stored executed total by the orders of all the runs so far.

`StartupProofs` proves, for any users, symbols, venues and failures:

* `BuildsInOrder`: `Spec => []HeardInv`;
* `Heard`: `Spec => []OrdersAreHeard`, only a user whose two accounts listen has orders at the
  market;
* `StartupTyped`: `Spec => []TypeOK`;
* `StopsReachAll`: `Spec => []StopReachesAll`, a stop of all has disabled every instance that was
  not started again since, also if it was entered before `main` had built them all;
* `ExitsCancelled`: `Spec => []ExitCancels`, when the signal handler lets `main` return, every order at
  the market has been asked to cancel since it was sent, but for those of an instance that was past
  its look at `is_enable` when it was disabled and still when its account asked last, and of one that was
  started again. Whether the exchange agrees is no part of it.

`TradeInstanceProofs` proves, for any number of orders and consoles, any commands, quotes, sizes
and refusals:

* `InstanceTyped`: `Spec => []TypeOK`;
* `PanicAnswered`: `OneConsole /\ Spec => []PanicIsAnswered`, a panic close that is on and
  not about to be made has its case, unless `selfDestruct` wrote between two writes of a command.

`TradeInstanceOrders` proves, with `Cancels` (`cancel_on_trigger` is set and no cancel is refused),
of a trading thread that has not been misled:

* `OrdersHaveCases`: `Cancels /\ Spec => []LiveHasCase`, no order that can still be filled
  outlives the case its callbacks capture;

and, with `ReplaceWorks` (the size of a replacement counts what was filled) as well:

* `OnlyItsOrder`: `[]OnlyItsOrderTrades`, beside a case that works with one order no other can
  move a position;
* `NoneOvershoots`: `[]NeverOvershoots`, an order that hedges never carries one account past the
  other;
* `EndsHedged`: `[]EndedIsHedged`, the trading thread ends only with both accounts equal and
  nothing at the market;
* `ClosesCovered`: `[]LiveClosesCovered`, the close orders at the market never ask for more than
  the account holds.

The hypotheses are about the configuration, the exchange and the operator, and what the thread was
told and has read; they are those of the runs that check these properties, and are needed: section 4
tells what happens without each of them. Hanging threads, refused opens, closes and changes, orders of no
shares, fills told and not yet booked, and any number of consoles are covered.

Assumptions: `OrderAssumption`, `FaultAssumption`, `ThreadAssumption`, `TableAssumption`, `FeedAssumption`,
`RedisAssumption`, `StartupAssumption`, `PairAssumption`, `CaseAssumption`, `InstanceAssumption`,
`ConsoleAssumption` (the types of the constants and that the threads, the gateway, the producers
and nobody are different; of the table also that its counter can count a whole position), which TLC evaluates on every run.

The argument. `FillsReconcile` says that the account's count of an order, carried
over the events still in its inbox, arrives at the exchange's count. It is not
inductive: a callback is only applied if `order_hash` holds the order
(`CallbacksMatch`), which needs to know that the event that makes the account forget
it is the last one that matters (`ClosedIsLast`), also while the callback thread is
between writing and erasing (`Erasing`); that a throttled order is told so
once and is not working meanwhile (`ThrottledOnce`), so that the second post does not
make a second order; that a change works on an order of its own
(`ReplacesAnother`); and that an id not given out yet is unknown to everybody (`FreshId`).
`SidesAgree` and `DoneIsFull` are what the ledger needs besides. `IInv` is
`TypeOK`, `ActorsInv` (the threads work on ids that exist) and `OrderInv(i)` for every
order; the step lemmas prove that an action keeps `OrderInv(i)` for the order it works
on and, from one lemma for the orders it does not touch, for the others.

The totals are sums over all orders (`SumFunctionOnSet`), which is a recursive function.
`FoldLemmas` proves what is needed of it without induction: if a fact failed for some set,
it would fail for a smallest one, and for that one the recursive equation gives it. So a sum is a number,
an element can be taken out of it, it moves by what one of its terms moves, and terms that are equal,
or smaller, give sums that are. With these, `TotalsInv` follows from the ledger: a step of `FillLedger`
either applies one fill, and moves `total` and one term, or books one order, and moves
`totalExecuted` and one term (`ShareMoves`), or moves none (`SharesStay`).

`AnswersInv` adds four parts to `IInv`. `MutexInv` says that a thread inside a section of `mt`
that takes several steps owns it, so that a callback that locks `mt` to notify finds nobody between
the predicate and sleep. `FinalInv(i)` says that a CANCELED event in the inbox, or its verdict in
`cancel_stage`, means that the book has the order cancelled, with nothing but refusals behind it.
`NoticeInv` is `SleeperIsNotified` also for a thread that has found its predicate false and still
holds `mt`. It needs `AckInv(i)`: fills, the end of an order and a cancel write the stage the wait
for an acknowledgement looks at, and do not notify; they do not have to, because the NEW of the
order, which does, is in front of them. The lemmas sum a step up before they use it: a thread never
gives an answer (`ThreadAnswers`), the exchange tells an order of each of its moves
(`ExchangeTells`), a callback that gives an answer goes on to notify (`CallbackHandles`), and
the end of a callback wakes whoever sleeps (`FinishFinishes`).

`PendingInv` adds two parts to `IInv`. `PendInv(th)` follows `sendPendingOrders` from the post of
its order to the pop: the thread waits for that order, whose size is the head of the queue, and
from the end of the wait on the order is acknowledged. It stays acknowledged because no refusal
follows an acceptance (`GrantInv`): once the exchange has told of it, it does not reject the order
any more. Callbacks may queue requests behind the head meanwhile; only a second thread could take
it away, which is why the theorem assumes there is none.

For the table, what a list holds is its weight, a sum over its places (`Total`), and three
weights are enough: the shares that are open, those a price closes at a profit, and those a visit may
take. A close lays the list out anew from one piece per record (`FlattenSeq`), so it weighs what its pieces
weigh (`TotalFlatten`) and is in order if the pieces are (`FlattenOrder`): a
divided record leaves two parts at its own price. What a pass takes is what its pieces lose. Going
through the visits in their order, what is left of the fill before a visit is the size less what the
visits before could take, and never below zero; so together the pieces lose the smaller
of the size and what was eligible. A fill therefore never takes more
out of the open records than it closes, although it may close a record twice, which is the inequality of
`OpenIsCovered`. A repackaging lays out as many shares as `open_size` says, whatever the list held;
that is why the inductive invariant needs `Counted`: `open_size` is `total - restored`,
modulo its width. An open fill is an insertion, which adds one weight, in a place that
the order of the list admits.

A close at a profit is exact because its first pass finds enough and the second has nothing to do.
When the first pass of a long account is not enough, it has closed every profitable record whole. In a list
in order these are at one end, so the second pass, which starts from the other, meets the
records without a profit first and is done before it reaches a closed one.

For the feed, `LatestIsPublished` needs to know that only the holder of `rw_mutex` is inside
an update (`UpdatesLocked`), that the stamp it carries to the stack is a copy of the
fields (`CopyIsCurrent`), and `SleeperMissesNothing` that the trading thread goes to
sleep with an empty stack (`BlocksOnEmpty`); with `TypeOK` these are `FeedInv`. A
step of the feed is a step of the mailbox because a push is made of the fields as they
are and a pop leaves the newest stamp as `stamp`. `BarsInOrder` needs a strengthening of
its own, `BarInv`: the symbol's own bars are in order, and the previous bar, once the trading
thread has read it, is no newer than the bar it has still to read.

For Redis, a stored position is written either by a round or by one of the read-modify-writes
of a restart. `RedisInv` says that what is stored is never newer than the account
(`StoredIsOld`); that the arguments of a round, read one by one while fills arrive, lie between
what is stored and the account (`ArgumentsAreNewer`); and that what a read-modify-write has read is
still what is stored, because nobody else writes the key (`ReadIsCurrent`). All of this holds only
while no get has failed: a failed get is taken for a key that does not exist. The times need
no such restriction. An order of this run has no entry before `writeOrderInfo`, and an entry is only
ever extended; the trading thread records times of an order that was changed or cancelled, the
callback thread of one that is done, and no order is both; so what a thread has read of an entry is
still there when it writes (`Current`).

The types bound the stored executed total, which needs more than types: every order of a run
adds to it once, so the total and the orders not done yet stay below `Most`
(`TypesInv`), through restarts that take the stored value over.

For the start, `OrdersAreHeard` follows from the order in which a `TradeAccount` is built: its
timers, then the login of the short account, then that of the long one, then its instances
(`BuiltInOrder`); none of these is ever undone, and an order comes from an instance that exists.
A stop is a list of steps that other threads may run between and behind. `StopsInv` says of each
list what its remaining steps will do: an instance that is enabled and was not started again is
one that the rest of the list disables (`StopInv`), and for the list that ends in the return of `main`, each side of every
instance is disabled and then asked for by the rest, or is quiet and still to be asked for, or is quiet
and settled: what it has at the market was asked for, or is late (`ExitInv`). Quiet is an
instance that is disabled and, if it is past its look at `is_enable`, late. `StagesInv` says how far `main` has come,
which is what types the constructor steps.

For the instance, all rests on what the trading thread has still to do. `ScriptInv` says that its
list is always the last n of the five calls of the destructor of `dying`, followed by a part of a
round (`From` one of its `Stages`: the two writes of `selfDestruct`, the reads and resets of
`specialCases`, a selection), or the calls of the running case followed by `finish`; every action
takes one step off, or puts one of these in front. `OwnedInv` says that only case 4 hands callbacks over, to its orders and to
its pending closes.

Until the thread is misled, every order is known to its account (`Known`), and where it reads positions they
are those the accounts hold (`TotalIsPos`); the parts below are about `pos`, what the fills told come to.
`ClearInv` says for each of the five calls (drop the pending orders of the long account, cancel its
live ones, the same of the short account, bury) that an account that has been dealt with has nothing at
the market. `Owner` is the case whose orders are at the market: the one being destroyed, as long as
one is. `CallbackInv` says that an order that hands its callback over is its owner's. A fill may
queue a close after the destructor has dropped the pending orders, and that close stays: it is in
the account of the case that is destroyed (`DroppedInv`), and behind a position that keeps another
case 4 from being selected until it is gone (`Behind4`, `BehindNone`).

`SoloInv` is about the cases that work with one order: nothing else is at the market, and what
is left of it is no more than what is to be hedged or closed (`SoloWork`, `Covers`); an order is sent
with nothing at the market since the run that read the positions (`SoloSends`), and while a change of size
is on its way the old order may still be filled (`SoloChanges`). The thread ends only with a special
case that is done, which was decided with nothing at the market (`SoloDone`, `SoloEnds`).

Case 4 sends many orders, and whatever it opens is closed later. `CoverInv` weighs them: an
order that will queue a close counts for what was filled of it, a queued close for its
size, a close at the market for what is left of it, and together (`Owed`) they are never more
than the position. A fill that opens adds to both sides, a fill that closes takes from both; a DONE
turns the weight of an order into a queued close, sending that into an order; a cancel or a
drop only takes weight away. What `LiveClosesCovered` adds up is a part of `Owed`.

`PanicInv` is about two flags that two threads write one after the other, and one of them reads and
resets: a console is at one of the places of its commands (`PanicLists`), and, unless the two have `crossed`,
if `panic` is on while `panic_init` is off, the case is a panic close, or some thread has still to arm
it, or the trading thread is about to make it (`Answered`). A trading thread that read `panic` as off and is
past `specialCases` (`Lacking(SoftLabels)`) must not be there then, for it would select another case: it can only
while the console is between its two writes, and reads both again in the next round. A second
console would break this.

Model-checked only: what needs fairness, which is out of the prover's reach (`AckReturns`,
`CancelReturnsIfKnown`, `StampIsTaken`, `PanicEnds`, `FillsAreStored`, `EveryInstanceHears`). Every
invariant and action property of the passing runs is a theorem. The properties of the violation
runs are refuted.

## 6. Not modelled

* **Trade cases nobody creates**: 1, 3, 5, 6C, 7, MaxTLV, CloseOpposite and its variants,
  HedgedMode, CloseTrigger and OnEquality. The lines of `caseSelection` that would create them
  are commented out.
* **Averages and spreads** of the accounts (`calculateSpread`, `average`, `price_in_force`), the
  market-making orders (MMF, FCO, SCO) and the profit of the table: they are sums and quotients
  of doubles that end in a price or a log line. Where a branch depends on one, the
  model takes both. `av`, whose flag no case reads, is left out.
* **Redis keys that are never read back**: the state of the trade case and the position table.
  The table is walked without its mutex there (`RedisWriter.cpp:453`), a data race that is listed
  as a hazard. `readStem1KeyFromRedis`, which would lock twice, has no caller.
* **`ThreadPool`, `AsynchronousQueue`, `AsynchronousVector`**: no object of them exists (the pool
  of `TradeInstance.cpp:13` is commented out). `AsynchronousUnorderedMap` is `order_hash`, whose
  locked calls `TradeAccount` takes as atomic.
* **Reconnecting and the position download** of `OrderAccount`, and the callbacks of
  `STEMDirectConnection` other than trades and quotes: they count and print.
  `STEMMaddogConnection` is not instantiated.
* **Input and output**: the XML of the configuration, the command line, the line editor and message
  queue of the console, logging, the shell scripts.
* **Vendored code**: the Redis client and the estimator library, which are whatever the
  code expects of them.

## 7. What could follow

1. A refinement of `PairAccounts` by two copies of `TradeAccount`, which would turn
   the relation between the layers from an argument into a check.
2. The account with its table, so that `total` and the open records are compared fill by fill.
3. What a short account closes when a fill needs both passes: at most how much, since it is not exact.
4. Averages and spreads over small integers, if a decision ever hangs on them.

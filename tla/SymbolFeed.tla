------------------------------ MODULE SymbolFeed ------------------------------
(***************************************************************************)
(* How a Symbol carries market data to the trading thread.  The market     *)
(* data thread and the two Avicenna timer threads update the fields of the *)
(* symbol under rw_mutex and push a stamp of them on symbol_stack; the     *)
(* trading thread sleeps on the stack, takes the newest stamp and throws   *)
(* the others away, and then reads the price bars without rw_mutex.        *)
(*                                                                         *)
(* A bar is the number of the interval it was opened in, 0 before the      *)
(* first; a quote is one of Quotes; an estimate is one of Estimates, or -1 *)
(* before there is one.                                                    *)
(***************************************************************************)
EXTENDS Integers, Sequences

CONSTANTS
  Quotes,      \* the bids and asks the market may send
  NoQuote,     \* what a symbol holds before the first
  Estimates,   \* the prices an estimator may compute
  MaxStack,    \* bound: stamps waiting when an update begins
  MaxBars,     \* bound: intervals in a run
  Market, Nobody

Timers    == {0, 1}   \* the index of AvicennaInterface::timeoutThread
Producers == Timers \cup {Market}

ASSUME FeedAssumption ==
  /\ NoQuote \notin Quotes
  /\ Estimates \subseteq Nat \ {0}
  /\ MaxStack \in Nat /\ MaxBars \in Nat
  /\ Market \notin Timers /\ Nobody \notin Producers

NoEstimate == -1

SymbolStamp == [quote    : Quotes \cup {NoQuote},
                estimate : [Timers -> Estimates \cup {NoEstimate}]]

VARIABLES
  rw_mutex,        \* the producer that holds it, or Nobody
  pc,              \* what each producer is doing
  copied,          \* the stamp its push has copied from the fields
  fields,          \* quote and price_estimate1, price_estimate2 of the Symbol
  avicenna,        \* AvicennaConnection::price_estimate of each timer
  start_interval,
  bar, prev_bar,   \* open_price ... and open_price_prev ...
  symbol_stack,
  this_enable,     \* SymbolInfo: ss and rs
  is_enable,       \* TradeInstance: pause and resume
  consumer,        \* what the trading thread is doing
  stamp,           \* the stamp it took last
  bar0, bar1       \* its copies of the bars

bars     == <<bar, prev_bar, start_interval>>
copies   == <<bar0, bar1>>
switches == <<this_enable, is_enable>>
vars     == <<rw_mutex, pc, copied, fields, avicenna, bars, symbol_stack, switches,
              consumer, stamp, copies>>

ProducerSteps == {"idle", "admitted", "open", "push", "notify"}
ConsumerSteps == {"loop", "pop", "blocking", "asleep", "previous", "current", "trade"}

\* Wrong: the estimates start at 0.
FirstStamp_Zero == [quote |-> NoQuote, estimate |-> [t \in Timers |-> 0]]

FirstStamp == [quote |-> NoQuote, estimate |-> [t \in Timers |-> NoEstimate]]

TypeOK ==
  /\ rw_mutex \in Producers \cup {Nobody}
  /\ pc \in [Producers -> ProducerSteps]
  /\ copied \in [Producers -> SymbolStamp]
  /\ fields \in SymbolStamp
  /\ avicenna \in [Timers -> Estimates \cup {NoEstimate}]
  /\ start_interval \in BOOLEAN
  /\ bar \in Nat /\ prev_bar \in Nat
  /\ symbol_stack \in Seq(SymbolStamp)
  /\ this_enable \in BOOLEAN /\ is_enable \in BOOLEAN
  /\ consumer \in ConsumerSteps
  /\ stamp \in SymbolStamp
  /\ bar0 \in Nat /\ bar1 \in Nat

Init ==
  /\ rw_mutex = Nobody
  /\ pc = [p \in Producers |-> "idle"]
  /\ copied = [p \in Producers |-> FirstStamp]
  /\ fields = FirstStamp
  /\ avicenna = [t \in Timers |-> NoEstimate]
  /\ start_interval = TRUE
  /\ bar = 0 /\ prev_bar = 0
  /\ symbol_stack = <<>>
  /\ this_enable = TRUE /\ is_enable = TRUE
  /\ consumer = "loop"
  /\ stamp = FirstStamp
  /\ bar0 = 0 /\ bar1 = 0

-----------------------------------------------------------------------------
(* The producers *)

Goto(p, step) == pc' = [pc EXCEPT ![p] = step]

\* Wrong: the symbol is updated without rw_mutex.
Acquire_Unlocked(p) == UNCHANGED rw_mutex

Acquire(p) ==
  /\ rw_mutex = Nobody
  /\ rw_mutex' = p

\* Symbol::push begins with a copy of the updated fields.
CopyFields(p) ==
  /\ copied' = [copied EXCEPT ![p] = fields']
  /\ Goto(p, "push")

\* SymbolManager::updatePrice and updateQuote look at the switch first; the
\* update of the symbol comes later.
Admit ==
  /\ pc[Market] = "idle"
  /\ this_enable
  /\ Goto(Market, "admitted")
  /\ UNCHANGED <<rw_mutex, copied, fields, avicenna, bars, symbol_stack, switches,
                 consumer, stamp, copies>>

\* Wrong: the bar saved as the previous one is the one about to be opened.
SavePreviousBar_Opened ==
  /\ pc[Market] = "admitted"
  /\ Acquire(Market)
  /\ start_interval
  /\ bar < MaxBars
  /\ start_interval' = FALSE
  /\ prev_bar' = bar + 1
  /\ Goto(Market, "open")
  /\ UNCHANGED <<copied, bar, fields, avicenna, symbol_stack, switches, consumer, stamp, copies>>

\* Symbol::updatePrice at the start of an interval: the bar becomes the
\* previous one.  Within an interval only the prices of the bar change.
SavePreviousBar ==
  /\ pc[Market] = "admitted"
  /\ Acquire(Market)
  /\ start_interval
  /\ bar < MaxBars
  /\ start_interval' = FALSE
  /\ prev_bar' = bar
  /\ Goto(Market, "open")
  /\ UNCHANGED <<copied, bar, fields, avicenna, symbol_stack, switches, consumer, stamp, copies>>

\* ... and then a new bar is opened.
OpenBar ==
  /\ pc[Market] = "open"
  /\ bar' = bar + 1
  /\ rw_mutex' = Nobody
  /\ Goto(Market, "idle")
  /\ UNCHANGED <<copied, prev_bar, start_interval, fields, avicenna, symbol_stack,
                 switches, consumer, stamp, copies>>

PriceWithinInterval ==
  /\ pc[Market] = "admitted"
  /\ rw_mutex = Nobody
  /\ ~start_interval
  /\ Goto(Market, "idle")
  /\ UNCHANGED <<rw_mutex, copied, fields, avicenna, bars, symbol_stack, switches,
                 consumer, stamp, copies>>

\* Symbol::updateQuoteData pushes only a quote that differs.
UpdateQuoteData ==
  /\ pc[Market] = "admitted"
  /\ Acquire(Market)
  /\ Len(symbol_stack) < MaxStack
  /\ \E q \in Quotes \ {fields.quote} : fields' = [fields EXCEPT !.quote = q]
  /\ CopyFields(Market)
  /\ UNCHANGED <<avicenna, bars, symbol_stack, switches, consumer, stamp, copies>>

\* ... and forgets one that does not, or that has no bid or no ask.
SameQuote ==
  /\ pc[Market] = "admitted"
  /\ rw_mutex = Nobody
  /\ Goto(Market, "idle")
  /\ UNCHANGED <<rw_mutex, copied, fields, avicenna, bars, symbol_stack, switches,
                 consumer, stamp, copies>>

\* Which estimate the callback replaces: the branch for index 0 is left when
\* estimate 1 is the same, and the branch behind it does not ask the index.
Replaced(t, e) ==
  IF t = 0 /\ e # fields.estimate[0] THEN {0}
  ELSE IF e # fields.estimate[1] THEN {1} ELSE {}

\* Symbol::resetIntervalCallback: the estimator of timer t computes a price
\* once the symbol has one, and the next price begins a new interval.
ResetIntervalCallback(t) ==
  /\ pc[t] = "idle"
  /\ Acquire(t)
  /\ Len(symbol_stack) < MaxStack
  /\ bar > 0
  /\ \E e \in Estimates :
       /\ avicenna' = [avicenna EXCEPT ![t] = e]
       /\ Replaced(t, e) # {}
       /\ fields' = [fields EXCEPT !.estimate =
                       [u \in Timers |-> IF u \in Replaced(t, e) THEN e ELSE @[u]]]
  /\ start_interval' = TRUE
  /\ CopyFields(t)
  /\ UNCHANGED <<bar, prev_bar, symbol_stack, switches, consumer, stamp, copies>>

\* ... with nothing to publish: no price yet, or no new estimate.
ResetIntervalOnly(t) ==
  /\ pc[t] = "idle"
  /\ rw_mutex = Nobody
  /\ \/ bar = 0 /\ UNCHANGED avicenna
     \/ /\ bar > 0
        /\ \E e \in Estimates :
             /\ Replaced(t, e) = {}
             /\ avicenna' = [avicenna EXCEPT ![t] = e]
  /\ start_interval' = TRUE
  /\ UNCHANGED <<rw_mutex, pc, copied, fields, bar, prev_bar, symbol_stack, switches,
                 consumer, stamp, copies>>

\* Wrong: the stack is written without stack_mutex.
CanPush_Unlocked == TRUE

\* stack_mutex is free unless the trading thread is between finding the
\* stack empty and going to sleep.
CanPush == consumer # "blocking"

\* Symbol::push
Push(p) ==
  /\ pc[p] = "push"
  /\ CanPush
  /\ symbol_stack' = Append(symbol_stack, copied[p])
  /\ Goto(p, "notify")
  /\ UNCHANGED <<rw_mutex, copied, fields, avicenna, bars, switches, consumer, stamp, copies>>

\* Wrong: only the push of the market data thread notifies.
Wakes_MarketOnly(p) == p = Market /\ consumer = "asleep"

Wakes(p) == consumer = "asleep"

\* stack_size_condition.notify_one, after which the update is over
Notify(p) ==
  /\ pc[p] = "notify"
  /\ consumer' = IF Wakes(p) THEN "pop" ELSE consumer
  /\ rw_mutex' = Nobody
  /\ Goto(p, "idle")
  /\ copied' = [copied EXCEPT ![p] = FirstStamp]
  /\ UNCHANGED <<fields, avicenna, bars, symbol_stack, switches, stamp, copies>>

-----------------------------------------------------------------------------
(* The trading thread: TradeInstance::triggerProcessing and readSymbolData *)

ProducersUnchanged ==
  UNCHANGED <<rw_mutex, pc, copied, fields, avicenna, bars, switches>>

\* A paused instance looks again a minute later.
StartLoop ==
  /\ consumer = "loop"
  /\ is_enable
  /\ consumer' = "pop"
  /\ ProducersUnchanged /\ UNCHANGED <<symbol_stack, stamp, copies>>

\* Symbol::pop finds nothing, with stack_mutex held,
FindEmpty ==
  /\ consumer = "pop"
  /\ symbol_stack = <<>>
  /\ consumer' = "blocking"
  /\ ProducersUnchanged /\ UNCHANGED <<symbol_stack, stamp, copies>>

\* gives the mutex up and sleeps.
Block ==
  /\ consumer = "blocking"
  /\ consumer' = "asleep"
  /\ ProducersUnchanged /\ UNCHANGED <<symbol_stack, stamp, copies>>

SpuriousWakeup ==
  /\ consumer = "asleep"
  /\ consumer' = "pop"
  /\ ProducersUnchanged /\ UNCHANGED <<symbol_stack, stamp, copies>>

\* Wrong: the oldest stamp instead of the newest.
Taken_Oldest(stack) == stack[1]

Taken(stack) == stack[Len(stack)]

\* The newest stamp is taken and the others are thrown away.
Pop ==
  /\ consumer = "pop"
  /\ symbol_stack # <<>>
  /\ stamp' = Taken(symbol_stack)
  /\ symbol_stack' = <<>>
  /\ consumer' = "previous"
  /\ ProducersUnchanged /\ UNCHANGED copies

ReadPreviousBar ==
  /\ consumer = "previous"
  /\ bar1' = prev_bar
  /\ consumer' = "current"
  /\ ProducersUnchanged /\ UNCHANGED <<symbol_stack, stamp, bar0>>

ReadCurrentBar ==
  /\ consumer = "current"
  /\ bar0' = bar
  /\ consumer' = "trade"
  /\ ProducersUnchanged /\ UNCHANGED <<symbol_stack, stamp, bar1>>

\* The rest of the loop reads only the copies.
Trade ==
  /\ consumer = "trade"
  /\ consumer' = "loop"
  /\ ProducersUnchanged /\ UNCHANGED <<symbol_stack, stamp, copies>>

-----------------------------------------------------------------------------
(* The console: ss and rs of SymbolManager, pause and resume *)

SwitchSymbol ==
  /\ this_enable' = ~this_enable
  /\ UNCHANGED <<rw_mutex, pc, copied, fields, avicenna, bars, symbol_stack, is_enable,
                 consumer, stamp, copies>>

SwitchInstance ==
  /\ is_enable' = ~is_enable
  /\ UNCHANGED <<rw_mutex, pc, copied, fields, avicenna, bars, symbol_stack, this_enable,
                 consumer, stamp, copies>>

Publishing(p) == Push(p) \/ Notify(p)

Producer ==
  \/ Admit \/ SavePreviousBar \/ OpenBar \/ PriceWithinInterval
  \/ UpdateQuoteData \/ SameQuote
  \/ \E t \in Timers : ResetIntervalCallback(t) \/ ResetIntervalOnly(t)
  \/ \E p \in Producers : Publishing(p)

Loop == \/ StartLoop \/ FindEmpty \/ Block \/ Pop
        \/ ReadPreviousBar \/ ReadCurrentBar \/ Trade

Next == Producer \/ Loop \/ SpuriousWakeup \/ SwitchSymbol \/ SwitchInstance

Spec == Init /\ [][Next]_vars

\* The trading thread runs, and a thread that holds rw_mutex finishes its
\* update.  Nothing obliges the market to send or a console to type.
FairSpec ==
  /\ Spec
  /\ WF_vars(Loop)
  /\ WF_vars(OpenBar)
  /\ \A p \in Producers : WF_vars(Publishing(p))

-----------------------------------------------------------------------------
(* Properties *)

Latest == IF symbol_stack = <<>> THEN stamp ELSE symbol_stack[Len(symbol_stack)]

\* Between two updates the newest stamp, waiting or taken, is a copy of the
\* fields: no interleaving of push, pop and the three producers loses an
\* update of the quote or of an estimate (Symbol::push under rw_mutex).
LatestIsPublished ==
  (\A p \in Producers : pc[p] # "push") => Latest = fields

\* A sleeping trading thread misses nothing: a stamp waits only if the
\* producer that pushed it has still to notify (Symbol::push, Symbol::pop).
SleeperMissesNothing ==
  consumer = "asleep" /\ symbol_stack # <<>> => \E p \in Producers : pc[p] = "notify"

\* A waiting stamp is taken unless the instance is paused: the wait of
\* Symbol::pop ends.
StampIsTaken == symbol_stack # <<>> ~> (symbol_stack = <<>> \/ ~is_enable)

\* The stack is a mailbox that keeps the newest value.
Box == INSTANCE Mailbox WITH Values <- SymbolStamp, FirstValue <- FirstStamp,
                             latest <- Latest, fresh <- symbol_stack # <<>>,
                             seen <- stamp
KeepsNewest == Box!Spec

\* The bars are read without rw_mutex, the previous one first, so the two may
\* be further apart than one interval or be the same; but the previous bar is
\* never newer than the current one (readSymbolData, Symbol::updatePrice).
BarsInOrder == consumer = "trade" => bar1 <= bar0
=============================================================================

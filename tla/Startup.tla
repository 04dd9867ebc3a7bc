------------------------------- MODULE Startup -------------------------------
(***************************************************************************)
(* The life of the program: main reads the configuration, connects, builds *)
(* SymbolManager and TradeAccountManager and waits for a signal, while the *)
(* threads it has started on the way run already: the console, the market  *)
(* data callbacks, the timers and the trading thread of every instance.    *)
(* What is traded is of no interest here, only whether a round is under    *)
(* way and whether an order is at the market.                              *)
(***************************************************************************)
EXTENDS Naturals, Sequences, FiniteSets, SequencesExt

CONSTANTS
  Configurations,  \* the accounts a trading configuration may list, in order
  Trades,          \* the names each user of the symbol configuration trades
  Venues,          \* the gateways of every account
  AdminParsed,     \* may main call AdminConfig::parse?  may it leave it out?
  Consoles,        \* the threads that read commands
  MaxCommands,     \* bound on the commands entered
  MaxOrders        \* bound on the orders at the market at once

ASSUME StartupAssumption ==
  /\ \A us \in Configurations : us \in Seq(Range(us)) /\ IsInjective(us)
  /\ Venues # {}
  /\ AdminParsed \subseteq BOOLEAN
  /\ "main" \notin Consoles
  /\ {MaxCommands, MaxOrders} \subseteq Nat

Names     == UNION {Trades[u] : u \in DOMAIN Trades}
Instances == UNION {{<<u, n>> : n \in Trades[u]} : u \in DOMAIN Trades}
Sides     == {"short", "long"}

VARIABLES
  process,     \* "up", "ended" by main, or "terminated" by anything else
  main,        \* where main is
  users,       \* trade_accounts_map
  user,        \* which of them TradeAccountManager is at
  adding,      \* the symbol SymbolManager is at
  symbol_hash, \* the names that have a SymbolInfo
  subscribed,  \* the names market data comes for
  symbols,     \* the users whose Symbol the SymbolInfo of a name lists
  all_enable,  \* SymbolInfo::all_enable, and this_enable of each name:
  this_enable, \* "ss" and "rs" clear and set them
  priced,      \* instances whose Symbol has a price
  estimated,   \* and an estimate
  stamped,     \* those with a stamp to pop
  timers,      \* the users whose timer threads run
  listening,   \* the users, sides and venues that are logged in
  callbacks,   \* callbackLookup: the commands that have a handler
  todo,        \* what the consoles, and main once signalled, still have to do
  instances,   \* the trade instances whose thread runs
  enabled,     \* those with is_enable
  waiting,     \* those that found it set and wait for a stamp
  trading,     \* those in the middle of a round
  over,        \* those whose thread a panic or soft close has ended
  live,        \* the instances and sides with an order at the market
  asked,       \* history: the orders of theirs somebody asked to cancel
  restarted,   \* history: enabled by rt since the stops under way began
  late,        \* history: disabled too late, and not asked for since
  stopped,     \* history: has the last stop of all ended?
  commands     \* commands entered so far

mainVars  == <<main, users, user, adding>>
feedVars  == <<symbol_hash, subscribed, symbols>>
stopFeed  == <<all_enable, this_enable>>
dataVars  == <<stopFeed, priced, estimated, stamped>>
readyVars == <<timers, listening, callbacks>>
threadVars == <<waiting, trading, over>>
tradeVars == <<threadVars, live, asked>>
stopVars  == <<restarted, late, stopped>>
vars == <<process, mainVars, feedVars, dataVars, readyVars, todo, instances,
          enabled, tradeVars, stopVars, commands>>

Stages == {"symbol config", "trading config", "connect", "admin", "symbols",
           "subscribe", "register", "accounts", "short", "long", "instances", "run"}
Nothing == <<"nobody", "nothing">>
Threads == {"main"} \cup Consoles
Orders  == Instances \X Sides

TypeOK ==
  /\ process \in {"up", "ended", "terminated"}
  /\ main \in Stages
  /\ users \in Configurations \cup {<<>>}
  /\ user \in 1..(Len(users) + 1)
  /\ adding \in Instances \cup {Nothing}
  \* data comes only for a name the callbacks find in symbol_hash
  /\ subscribed \subseteq symbol_hash /\ symbol_hash \subseteq Names
  /\ symbols \in [Names -> SUBSET DOMAIN Trades]
  /\ all_enable \in BOOLEAN /\ this_enable \in [Names -> BOOLEAN]
  /\ estimated \subseteq priced /\ priced \cup stamped \subseteq Instances
  /\ timers \subseteq DOMAIN Trades
  /\ listening \subseteq Range(users) \X Sides \X Venues
  /\ callbacks \subseteq {"ss", "rs", "st", "rt"}
  /\ instances \subseteq Instances
  /\ enabled \cup waiting \cup trading \cup over \cup restarted \subseteq instances
  /\ asked \subseteq live /\ live \cup late \subseteq instances \X Sides
  /\ stopped \in BOOLEAN
  /\ commands \in 0..MaxCommands

Init ==
  /\ process = "up"
  /\ main = "symbol config" /\ users = <<>> /\ user = 1 /\ adding = Nothing
  /\ symbol_hash = {} /\ subscribed = {}
  /\ symbols = [n \in Names |-> {}]
  /\ all_enable = TRUE /\ this_enable = [n \in Names |-> TRUE]
  /\ priced = {} /\ estimated = {} /\ stamped = {}
  /\ timers = {} /\ listening = {} /\ callbacks = {}
  /\ todo = [th \in Threads |-> <<>>]
  /\ instances = {} /\ enabled = {}
  /\ waiting = {} /\ trading = {} /\ over = {} /\ live = {} /\ asked = {}
  /\ restarted = {} /\ late = {} /\ stopped = FALSE
  /\ commands = 0

At(stage) == process = "up" /\ main = stage
Go(stage) == main' = stage /\ UNCHANGED process

(* An exception nobody catches, a null pointer, or a return from main.     *)
Terminate == process' = "terminated" /\ UNCHANGED main

-----------------------------------------------------------------------------
(* main, up to the managers.                                               *)

ParseSymbols ==
  /\ At("symbol config")
  /\ Go("trading config") \/ Terminate
  /\ UNCHANGED <<users, user, adding, feedVars, dataVars, readyVars, todo,
                 instances, enabled, tradeVars, stopVars, commands>>

(* An account that lacks anything makes its constructor throw.             *)
ParseTrading ==
  /\ At("trading config")
  /\ \/ \E us \in Configurations : users' = us /\ Go("connect")
     \/ Terminate /\ UNCHANGED users
  /\ UNCHANGED <<user, adding, feedVars, dataVars, readyVars, todo, instances,
                 enabled, tradeVars, stopVars, commands>>

(* The connection to the router.                                           *)
ConnectRouter ==
  /\ At("connect")
  /\ Go("admin") \/ Terminate
  /\ UNCHANGED <<users, user, adding, feedVars, dataVars, readyVars, todo,
                 instances, enabled, tradeVars, stopVars, commands>>

(* AdminConfig::settings is null unless somebody has called parse.  Then   *)
(* CLI::init starts the threads that read commands.                        *)
Admin ==
  /\ At("admin")
  /\ \E parsed \in AdminParsed : IF parsed THEN Go("symbols") ELSE Terminate
  /\ UNCHANGED <<users, user, adding, feedVars, dataVars, readyVars, todo,
                 instances, enabled, tradeVars, stopVars, commands>>

-----------------------------------------------------------------------------
(* SymbolManager: a name is subscribed once, a Symbol listed for each user.*)

Hashed_Later(n) == symbol_hash
Hashed(n) == symbol_hash \cup {n}

AddSymbol(u, n) ==
  /\ At("symbols")
  /\ u \notin symbols[n]
  /\ adding' = <<u, n>>
  /\ symbol_hash' = Hashed(n)
  /\ Go(IF n \in symbol_hash THEN "register" ELSE "subscribe")
  /\ UNCHANGED <<users, user, subscribed, symbols, dataVars, readyVars, todo,
                 instances, enabled, tradeVars, stopVars, commands>>

(* A subscription that fails is logged.                                    *)
Subscribe ==
  /\ At("subscribe")
  /\ subscribed' \in {subscribed, subscribed \cup {adding[2]}}
  /\ Go("register")
  /\ UNCHANGED <<users, user, adding, symbol_hash, symbols, dataVars, readyVars,
                 todo, instances, enabled, tradeVars, stopVars, commands>>

Register ==
  /\ At("register")
  /\ symbols' = [symbols EXCEPT ![adding[2]] = @ \cup {adding[1]}]
  /\ adding' = Nothing
  /\ Go("symbols")
  /\ UNCHANGED <<users, user, symbol_hash, subscribed, dataVars, readyVars, todo,
                 instances, enabled, tradeVars, stopVars, commands>>

EndSymbols ==
  /\ At("symbols")
  /\ \A i \in Instances : i[1] \in symbols[i[2]]
  /\ callbacks' = callbacks \cup {"ss", "rs"}
  /\ Go("accounts")
  /\ UNCHANGED <<users, user, adding, feedVars, dataVars, timers, listening, todo,
                 instances, enabled, tradeVars, stopVars, commands>>

-----------------------------------------------------------------------------
(* TradeAccountManager: the timers, the short and the long account, and    *)
(* the instances of one user after the other, then the commands.           *)

User == users[user]

(* AvicennaInterface; without a symbol map it starts no thread.            *)
StartTimers ==
  /\ At("accounts")
  /\ user <= Len(users)
  /\ timers' = timers \cup ({User} \cap DOMAIN Trades)
  /\ Go("short")
  /\ UNCHANGED <<users, user, adding, feedVars, dataVars, listening, callbacks,
                 todo, instances, enabled, tradeVars, stopVars, commands>>

(* OrderAccount connects, logs in and listens at its venue, and makes the  *)
(* account of the next one; a failure throws out of main.                  *)
LoggedIn(u, side) == \A v \in Venues : <<u, side, v>> \in listening
AfterLogin_Short(side) == "instances"
AfterLogin(side) == IF side = "short" THEN "long" ELSE "instances"

Login(side, v) ==
  /\ At(side)
  /\ <<User, side, v>> \notin listening
  /\ \/ listening' = listening \cup {<<User, side, v>>} /\ Go(side)
     \/ Terminate /\ UNCHANGED listening
  /\ UNCHANGED <<users, user, adding, feedVars, dataVars, timers, callbacks, todo,
                 instances, enabled, tradeVars, stopVars, commands>>

NextAccount(side) ==
  /\ At(side)
  /\ LoggedIn(User, side)
  /\ Go(AfterLogin(side))
  /\ UNCHANGED <<users, user, adding, feedVars, dataVars, readyVars, todo,
                 instances, enabled, tradeVars, stopVars, commands>>

(* A user without a symbol map: operator[] makes a null pointer of it.     *)
StartInstance(n) ==
  /\ At("instances")
  /\ User \in DOMAIN Trades
  /\ n \in Trades[User]
  /\ <<User, n>> \notin instances
  /\ instances' = instances \cup {<<User, n>>}
  /\ enabled' = enabled \cup {<<User, n>>}
  /\ UNCHANGED <<process, mainVars, feedVars, dataVars, readyVars, todo,
                 tradeVars, stopVars, commands>>

NextUser ==
  /\ At("instances")
  /\ \/ /\ User \in DOMAIN Trades
        /\ \A n \in Trades[User] : <<User, n>> \in instances
        /\ user' = user + 1
        /\ Go("accounts")
     \/ /\ User \notin DOMAIN Trades
        /\ Terminate
        /\ UNCHANGED user
  /\ UNCHANGED <<users, adding, feedVars, dataVars, readyVars, todo, instances,
                 enabled, tradeVars, stopVars, commands>>

CommandsDue_AtOnce == TRUE
CommandsDue == user > Len(users)

RegisterCommands ==
  /\ At("accounts")
  /\ CommandsDue
  /\ "st" \notin callbacks
  /\ callbacks' = callbacks \cup {"st", "rt"}
  /\ UNCHANGED <<process, mainVars, feedVars, dataVars, timers, listening, todo,
                 instances, enabled, tradeVars, stopVars, commands>>

(* The signal handler is set, and io.run waits.                            *)
Ready ==
  /\ At("accounts")
  /\ user > Len(users)
  /\ "st" \in callbacks
  /\ Go("run")
  /\ UNCHANGED <<users, user, adding, feedVars, dataVars, readyVars, todo,
                 instances, enabled, tradeVars, stopVars, commands>>

-----------------------------------------------------------------------------
(* Stopping and restarting, by a command or by the signal handler.         *)

Of(u) == {i \in instances : i[1] = u}
Each(set, Steps(_)) ==
  LET seq == SetToSeq(set) IN FlattenSeq([k \in DOMAIN seq |-> Steps(seq[k])])

(* A step of a script, for one account or for both.                        *)
Do(label, side, set) == [do |-> label, side |-> side, of |-> set]

(* stopAction: the orders of the short, then of the long account are       *)
(* cancelled, then is_enable is cleared.                                   *)
StopInstance(i) ==
  <<Do("cancel", "short", {i}), Do("cancel", "long", {i}), Do("disable", "both", {i})>>

(* TradeAccount::stop: the instances, then both accounts ask the exchange  *)
(* to cancel whatever they have.                                           *)
StopUser_InstancesOnly(u) == Each(Of(u), StopInstance)
StopUser(u) ==
  Each(Of(u), StopInstance) \o <<Do("ask", "short", Of(u)), Do("ask", "long", Of(u))>>

RestartInstance(i) == <<Do("enable", "both", {i})>>

StopAll == FlattenSeq([k \in DOMAIN users |-> StopUser(users[k])])
             \o <<Do("stopped", "both", {})>>

AllOf(name) ==
  IF name = "st" THEN StopAll ELSE Each(instances, RestartInstance)
UserOf(name, u) ==
  IF name = "st" THEN StopUser(u) ELSE Each(Of(u), RestartInstance)
OnlyOf(name, i) ==
  IF name = "st" THEN StopInstance(i) ELSE RestartInstance(i)

BeginStop ==
  /\ stopped' = FALSE
  /\ restarted' = IF \A th \in Threads : todo[th] = <<>> THEN {} ELSE restarted
  /\ UNCHANGED late

(* A line of a console.  A command nobody has registered is unrecognized.  *)
Entered(c) ==
  /\ process = "up"
  /\ main \notin {"symbol config", "trading config", "connect", "admin"}
  /\ todo[c] = <<>>
  /\ commands < MaxCommands
  /\ commands' = commands + 1
  /\ UNCHANGED <<process, mainVars, feedVars, priced, estimated, stamped, readyVars,
                 instances, enabled, tradeVars>>

Enter(c, name, script) ==
  /\ Entered(c)
  /\ IF name \in callbacks
     THEN /\ todo' = [todo EXCEPT ![c] = script]
          /\ IF name = "st" /\ script = StopAll THEN BeginStop
             ELSE UNCHANGED stopVars
     ELSE UNCHANGED <<todo, stopVars>>
  /\ UNCHANGED stopFeed

Command(c, name) ==
  \/ Enter(c, name, AllOf(name))
  \/ \E u \in Range(users) : Enter(c, name, UserOf(name, u))
  \/ \E i \in instances : Enter(c, name, OnlyOf(name, i))

(* "ss" and "rs", for one name or for all; a name without a SymbolInfo is  *)
(* ignored.                                                                *)
FeedCommand(c, name) ==
  /\ Entered(c)
  /\ \/ /\ name \in callbacks
        /\ \/ all_enable' = (name = "rs") /\ UNCHANGED this_enable
           \/ /\ UNCHANGED all_enable
              /\ \E n \in symbol_hash :
                   this_enable' = [this_enable EXCEPT ![n] = (name = "rs")]
     \/ name \notin callbacks /\ UNCHANGED stopFeed
  /\ UNCHANGED <<todo, stopVars>>

(* SIGINT or SIGTERM: before the handler is set they end the program.      *)
Signal ==
  /\ process = "up"
  /\ IF main = "run"
     THEN /\ todo["main"] = <<>>
          /\ todo' = [todo EXCEPT !["main"] = StopAll \o <<Do("exit", "both", {})>>]
          /\ BeginStop
          /\ UNCHANGED process
     ELSE Terminate /\ UNCHANGED <<todo, stopVars>>
  /\ UNCHANGED <<mainVars, feedVars, dataVars, readyVars, instances, enabled,
                 tradeVars, commands>>

AtHead(th, label) ==
  process = "up" /\ todo[th] # <<>> /\ Head(todo[th]).do = label
Pop(th) == todo' = [todo EXCEPT ![th] = Tail(@)]

(* The orders, and the instances that no longer look at is_enable before   *)
(* they have traded once more: they wait for a stamp or are in a round.    *)
OrdersOf(step) == step.of \X {step.side}
PastCheck == waiting \cup trading

(* cancelAll of one account of an instance: it skips an order that no      *)
(* answer to its send has come for, or whose last fill has.  A cancel may  *)
(* be refused; one that is accepted ends the order (End), and one whose    *)
(* answer never comes keeps the script where it is.                        *)
Cancel(th) ==
  /\ AtHead(th, "cancel")
  /\ \E known \in SUBSET (live \cap OrdersOf(Head(todo[th]))) : asked' = asked \cup known
  /\ Pop(th)
  /\ UNCHANGED <<process, mainVars, feedVars, dataVars, readyVars, instances,
                 enabled, threadVars, live, stopVars, commands>>

(* CancelAllOrders of an account of a user: a message, for what is at the  *)
(* market on that account, whether known here or not; nothing is awaited.  *)
Ask(th) ==
  /\ AtHead(th, "ask")
  /\ asked' = asked \cup (live \cap OrdersOf(Head(todo[th])))
  /\ late' = {o \in late : o \in OrdersOf(Head(todo[th])) => o[1] \in PastCheck}
  /\ Pop(th)
  /\ UNCHANGED <<process, mainVars, feedVars, dataVars, readyVars, instances,
                 enabled, threadVars, live, restarted, stopped, commands>>

Disable(th) ==
  /\ AtHead(th, "disable")
  /\ enabled' = enabled \ Head(todo[th]).of
  /\ late' = late \cup ((PastCheck \cap Head(todo[th]).of) \X Sides)
  /\ Pop(th)
  /\ UNCHANGED <<process, mainVars, feedVars, dataVars, readyVars, instances,
                 tradeVars, restarted, stopped, commands>>

Enable(th) ==
  /\ AtHead(th, "enable")
  /\ enabled' = enabled \cup Head(todo[th]).of
  /\ restarted' = restarted \cup Head(todo[th]).of
  /\ Pop(th)
  /\ UNCHANGED <<process, mainVars, feedVars, dataVars, readyVars, instances,
                 tradeVars, late, stopped, commands>>

EndStop(th) ==
  /\ AtHead(th, "stopped")
  /\ stopped' = (\A other \in Threads \ {th} : todo[other] = <<>>)
  /\ Pop(th)
  /\ UNCHANGED <<process, mainVars, feedVars, dataVars, readyVars, instances,
                 enabled, tradeVars, restarted, late, commands>>

Exit ==
  /\ AtHead("main", "exit")
  /\ process' = "ended"
  /\ Pop("main")
  /\ UNCHANGED <<mainVars, feedVars, dataVars, readyVars, instances, enabled,
                 tradeVars, stopVars, commands>>

-----------------------------------------------------------------------------
(* The other threads.                                                      *)

(* OnTradeList and OnQuote: what comes for a name is handed to the Symbol  *)
(* of every user listed for it, unless the name or everything is stopped;  *)
(* a name without a SymbolInfo is a null pointer.                          *)
Heeded(n) == all_enable /\ this_enable[n]
Told_First(n) ==
  {<<u, n>> : u \in {v \in symbols[n] : Heeded(n) /\ v = CHOOSE w \in symbols[n] : TRUE}}
Told(n) == {<<u, n>> : u \in {v \in symbols[n] : Heeded(n)}}

TradePrice(n) ==
  /\ process = "up"
  /\ n \in subscribed
  /\ IF n \in symbol_hash
     THEN priced' = priced \cup Told(n) /\ UNCHANGED process
     ELSE process' = "terminated" /\ UNCHANGED priced
  /\ UNCHANGED <<mainVars, feedVars, stopFeed, estimated, stamped, readyVars, todo,
                 instances, enabled, tradeVars, stopVars, commands>>

(* A quote that differs from a Symbol's last one is pushed.                *)
Quote(n) ==
  /\ process = "up"
  /\ n \in subscribed
  /\ IF n \in symbol_hash
     THEN /\ \E changed \in SUBSET Told(n) : stamped' = stamped \cup changed
          /\ UNCHANGED process
     ELSE process' = "terminated" /\ UNCHANGED stamped
  /\ UNCHANGED <<mainVars, feedVars, stopFeed, priced, estimated, readyVars, todo,
                 instances, enabled, tradeVars, stopVars, commands>>

(* A Symbol that has no price yet is left alone; an estimate is pushed     *)
(* when it is the first one, or another than before.                       *)
Estimable(u) == {i \in priced : i[1] = u}

Timer(u) ==
  /\ process = "up"
  /\ u \in timers
  /\ estimated' = estimated \cup Estimable(u)
  /\ \E changed \in SUBSET Estimable(u) :
       /\ Estimable(u) \ estimated \subseteq changed
       /\ stamped' = stamped \cup changed
  /\ UNCHANGED <<process, mainVars, feedVars, stopFeed, priced, readyVars, todo,
                 instances, enabled, tradeVars, stopVars, commands>>

(* The trading thread looks at is_enable, and then waits for a stamp.      *)
Check(i) ==
  /\ process = "up"
  /\ i \in (instances \cap enabled) \ (PastCheck \cup over)
  /\ waiting' = waiting \cup {i}
  /\ UNCHANGED <<process, mainVars, feedVars, dataVars, readyVars, todo, instances,
                 enabled, trading, over, live, asked, stopVars, commands>>

(* A stamp without the estimate the instance listens to, or with one that  *)
(* is older than it, is thrown away.                                       *)
BeginRound(i) ==
  /\ process = "up"
  /\ i \in waiting \cap stamped
  /\ stamped' = stamped \ {i}
  /\ waiting' = waiting \ {i}
  /\ \/ i \in estimated /\ trading' = trading \cup {i}
     \/ UNCHANGED trading
  /\ UNCHANGED <<process, mainVars, feedVars, stopFeed, priced, estimated, readyVars,
                 todo, instances, enabled, over, live, asked, stopVars, commands>>

SendOrder(i, side) ==
  /\ process = "up"
  /\ i \in trading
  /\ Cardinality(live) < MaxOrders
  /\ live' = live \cup {<<i, side>>}
  /\ asked' = asked \ {<<i, side>>}
  /\ UNCHANGED <<process, mainVars, feedVars, dataVars, readyVars, todo, instances,
                 enabled, threadVars, stopVars, commands>>

(* A round that completes a panic or a soft close is the thread's last.    *)
EndRound(i) ==
  /\ process = "up"
  /\ i \in trading
  /\ trading' = trading \ {i}
  /\ over' \in {over, over \cup {i}}
  /\ UNCHANGED <<process, mainVars, feedVars, dataVars, readyVars, todo, instances,
                 enabled, waiting, live, asked, stopVars, commands>>

(* The exchange has filled, cancelled or rejected all there was.           *)
End(o) ==
  /\ o \in live
  /\ live' = live \ {o}
  /\ asked' = asked \ {o}
  /\ UNCHANGED <<process, mainVars, feedVars, dataVars, readyVars, todo, instances,
                 enabled, threadVars, stopVars, commands>>

-----------------------------------------------------------------------------
StartUp ==
  \/ ParseSymbols \/ ParseTrading \/ ConnectRouter \/ Admin
  \/ \E i \in Instances : AddSymbol(i[1], i[2])
  \/ Subscribe \/ Register \/ EndSymbols
  \/ StartTimers
  \/ \E side \in Sides : NextAccount(side) \/ \E v \in Venues : Login(side, v)
  \/ \E n \in Names : StartInstance(n)
  \/ NextUser \/ RegisterCommands \/ Ready

Follow(th) == Cancel(th) \/ Ask(th) \/ Disable(th) \/ Enable(th) \/ EndStop(th)

Next ==
  \/ StartUp
  \/ \E c \in Consoles : \/ \E name \in {"st", "rt"} : Command(c, name)
                         \/ \E name \in {"ss", "rs"} : FeedCommand(c, name)
  \/ Signal \/ Exit
  \/ \E th \in Threads : Follow(th)
  \/ \E n \in Names : TradePrice(n) \/ Quote(n)
  \/ \E u \in DOMAIN Trades : Timer(u)
  \/ \E i \in Instances : Check(i) \/ BeginRound(i) \/ EndRound(i)
  \/ \E o \in Orders : SendOrder(o[1], o[2]) \/ End(o)

Spec == Init /\ [][Next]_vars

(* Trades keep coming for what is subscribed and the timers go off; nothing*)
(* is asked of main, of a console, of a quote or of a trading thread: it   *)
(* may sleep, wait for a stamp for ever or have ended.                     *)
Fairness ==
  /\ \A n \in Names : WF_vars(TradePrice(n))
  /\ \A u \in DOMAIN Trades : WF_vars(Timer(u))

FairSpec == Spec /\ Fairness

-----------------------------------------------------------------------------
(* Instances trade while main is still building others, and a login that   *)
(* fails ends the program: whatever is at the market was sent by a pair    *)
(* both of whose accounts listen to every venue, and whose timers run.     *)
OrdersAreHeard ==
  \A o \in live : o[1][1] \in timers /\ \A side \in Sides : LoggedIn(o[1][1], side)

(* "all symbol must stop" (TradeAccountManager.cpp:66): a stop of all that *)
(* nobody else interfered with has reached every instance there is, also   *)
(* if it was entered before main had built them all, and one is enabled    *)
(* only if it was restarted since.                                         *)
StopReachesAll == stopped => enabled \subseteq restarted

(* "Canceling all pending orders" (stem1.cpp:282): when the signal handler *)
(* lets main return, whatever is at the market has been asked to cancel    *)
(* since it was sent, also what cancelAll does not know or what is sent    *)
(* between a cancelAll and the disable after it.  Left out is only what an *)
(* instance sent that was past its look at is_enable when it was disabled, *)
(* and still was when its account asked last, or that was restarted        *)
(* meanwhile.  Nothing says that the exchange has agreed: cancels may be   *)
(* refused, and main does not wait for an answer to CancelAllOrders.       *)
ExitCancels == process = "ended" => live \subseteq asked \cup late \cup (restarted \X Sides)

(* Every instance gets an estimate to trade on, whatever order things came *)
(* up in: its Symbol is listed with the name, the name is subscribed and   *)
(* its user's timers run; "ss" alone may keep its data away.               *)
EveryInstanceHears ==
  \A i \in Instances :
    i \in instances ~>
      i \in estimated \/ process # "up" \/ i[2] \notin subscribed \/ ~Heeded(i[2])
=============================================================================

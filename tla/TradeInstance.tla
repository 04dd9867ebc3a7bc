---------------------------- MODULE TradeInstance ----------------------------
(***************************************************************************)
(* TradeInstance::triggerProcessing: the detached thread that, stamp after *)
(* stamp, selects a trade case and runs it, beside the console thread that *)
(* stops, restarts, panics and soft-closes the instance, and the market    *)
(* that fills the orders of both accounts.  What a thread still has to do  *)
(* is its list of steps, todo; the other threads run between any two.      *)
(***************************************************************************)
EXTENDS ConsoleCommands

CONSTANTS
  Estimates,         \* the price estimates of the stamps
  RestoredPositions, \* the positions the accounts may start with
  CancelOnTrigger,   \* cancel_on_trigger
  MaximumLive        \* maximum_live

ASSUME InstanceAssumption ==
  /\ Estimates \subseteq Nat \ {0}
  /\ RestoredPositions \subseteq [Accounts -> Nat]
  /\ CancelOnTrigger \in BOOLEAN
  /\ MaximumLive \in Nat

VARIABLES
  tcase,     \* trade_case
  dying,     \* the case a new one has replaced, until its destructor is over
  todo,      \* what the trading thread and the console still have to do
  current,   \* current_acc; opposite_acc is the other one
  trigger,   \* trigger_state
  prev_trigger,
  estimate,  \* price_estimate
  estimate_prev,
  wait,      \* wait_for_next_time_window and its estimate
  flags,     \* is_enable, is_panic_close, panic_close_init, ...
  ended,     \* has triggerProcessing returned?
  crashed,   \* has the program read through a null or a dead pointer?
  hung,      \* the threads that wait for an answer that never comes
  misled,    \* history: was 0 returned for an order that works, or a position
             \*   read that a fill already told had still to change?
  crossed,   \* history: has selfDestruct assigned a flag while a console was
             \*   at its own assignments?
  commands   \* commands given so far

instanceVars == <<tcase, dying, todo, current, trigger, prev_trigger, estimate,
                  estimate_prev, wait, flags, ended, crashed, hung, misled, crossed, commands>>
vars == <<pairVars, instanceVars>>

Threads == {"trader"} \cup Consoles

TypeOK ==
  /\ PairTypeOK
  /\ tcase \in Case
  /\ dying \in Case
  /\ todo \in [Threads -> Seq(Step)]
  /\ current \in Accounts \cup {NoAcc}
  /\ trigger \in Triggers
  /\ prev_trigger \in Triggers
  /\ estimate \in {0} \cup Estimates
  /\ estimate_prev \in {0} \cup Estimates
  /\ wait \in [window : BOOLEAN, avicenna : {0} \cup Estimates]
  /\ flags \in [Flags -> BOOLEAN]
  /\ ended \in BOOLEAN
  /\ crashed \in BOOLEAN
  /\ hung \subseteq Threads
  /\ misled \in BOOLEAN
  /\ crossed \in BOOLEAN
  /\ commands \in 0..MaxCommands

Init ==
  /\ \E restored \in RestoredPositions : PairInit(restored)
  /\ tcase = NoCase
  /\ dying = NoCase
  /\ todo = [th \in Threads |-> <<>>]
  /\ current = NoAcc
  /\ trigger = "INIT"
  /\ prev_trigger = "INIT"
  /\ estimate = 0
  /\ estimate_prev = 0
  /\ wait = [window |-> FALSE, avicenna |-> 0]
  /\ flags = [f \in Flags |-> f = "enable"]
  /\ ended = FALSE
  /\ crashed = FALSE
  /\ hung = {}
  /\ misled = FALSE
  /\ crossed = FALSE
  /\ commands = 0

-----------------------------------------------------------------------------
(* A thread does the step at the head of its list; rest is what it puts in *)
(* front of the others.                                                    *)

AtHead(th, label) == th \notin hung /\ todo[th] # <<>> /\ Head(todo[th]).do = label
The(th)          == Head(todo[th])
Then(th, rest)   == todo' = [todo EXCEPT ![th] =
                      rest \o (IF @ = <<>> THEN <<>> ELSE Tail(@))]

(* The id an order may get: not one that is live or remembered.            *)
Fresh == LET free == Slots \ (Live \cup {tcase.main}
                              \cup {tcase.requotes[k] : k \in DOMAIN tcase.requotes})
         IN IF free = {} THEN {} ELSE {Min(free)}

(* "trade_case = ...": the new case is there before the old one is         *)
(* destroyed, which cancels all orders if cancel_on_trigger is set.        *)
DestroyCancels_OneSide == CancelAll("short")
DestroyCancels == CancelAll("long") \o CancelAll("short")

Destroy == IF tcase = NoCase THEN <<>>
           ELSE (IF CancelOnTrigger THEN DestroyCancels ELSE <<>>) \o <<Do("bury")>>

Replace(new) ==
  /\ tcase' = new
  /\ dying' = tcase
  /\ Then("trader", Destroy)

-----------------------------------------------------------------------------
(* The accounts, seen from either thread.                                  *)

Drop(th) ==
  /\ AtHead(th, "drop")
  /\ DropPending(The(th).acct)
  /\ Then(th, <<>>)
  /\ UNCHANGED <<tcase, dying, current, trigger, prev_trigger, estimate,
                 estimate_prev, wait, flags, ended, crashed, hung, misled, crossed,
                 commands>>

CancelOrders(th) ==
  /\ AtHead(th, "cancel")
  /\ Cancel(The(th).acct)
  /\ Then(th, <<>>)
  /\ UNCHANGED <<tcase, dying, current, trigger, prev_trigger, estimate,
                 estimate_prev, wait, flags, ended, crashed, hung, misled, crossed,
                 commands>>

(* A wait without timeout whose answer never comes.  The last fill of an   *)
(* order crosses its cancel or its change, and the refusal comes for an    *)
(* order that order_hash has forgotten; a change is refused under the id   *)
(* of the order it was to replace; an order that was throttled is not      *)
(* posted again.                                                           *)
Concerned(s) == IF s.do = "cancel" THEN {i \in Live : orders[i].acct = s.acct} ELSE {s.id}
Unanswered(s) ==
  \/ s.do \in {"cancel", "change"} /\ Crossed(Concerned(s))
  \/ s.do \in {"open", "close", "change"} \cap RefusedCalls
  \/ s.do = "pending" /\ pending[s.acct] # <<>> /\ "close" \in RefusedCalls

Hang(th) ==
  /\ th \notin hung
  /\ todo[th] # <<>>
  /\ Unanswered(The(th))
  /\ hung' = hung \cup {th}
  /\ UNCHANGED <<pairVars, tcase, dying, todo, current, trigger, prev_trigger,
                 estimate, estimate_prev, wait, flags, ended, crashed, misled,
                 crossed, commands>>

SendOrder ==
  LET s == The("trader") IN
  /\ AtHead("trader", "open") \/ AtHead("trader", "close")
  /\ \E id \in {0} \cup Slots :
       /\ Send(s.acct, s.do, s.size, s.done, Fresh, id)
       /\ tcase' = AnsweredNew(tcase, s, id)
       /\ misled' = (misled \/ (id = 0 /\ orders' # orders))
  /\ Then("trader", <<>>)
  /\ UNCHANGED <<pos, total, booking, pending, leak, tranch, dying, current, trigger,
                 prev_trigger, estimate, estimate_prev, wait, flags, ended, crashed,
                 hung, crossed, commands>>

ChangeOrder ==
  LET s == The("trader") IN
  /\ AtHead("trader", "change")
  /\ \E answer \in {"gone", "same", "new"} :
       /\ Change(s.id, s.size, answer)
       /\ tcase' = AnsweredChange(tcase, s, answer)
       /\ misled' = (misled \/ (answer = "same" /\ orders' # orders))
  /\ Then("trader", <<>>)
  /\ UNCHANGED <<pos, total, booking, pending, tranch, dying, current, trigger,
                 prev_trigger, estimate, estimate_prev, wait, flags, ended, crashed,
                 hung, crossed, commands>>

(* sendPendingOrders sends the front, and keeps it when it is refused.     *)
SendPending ==
  LET a == The("trader").acct IN
  /\ AtHead("trader", "pending")
  /\ IF pending[a] = <<>> THEN UNCHANGED <<orders, pending, misled>>
     ELSE \E id \in {0} \cup Slots :
            /\ Send(a, "close", Head(pending[a]).size, Head(pending[a]).done, Fresh, id)
            /\ pending' = IF id = 0 THEN pending
                          ELSE [pending EXCEPT ![a] = Tail(@)]
            /\ misled' = (misled \/ (id = 0 /\ orders' # orders))
  /\ Then("trader", <<>>)
  /\ UNCHANGED <<pos, total, booking, leak, tranch, tcase, dying, current, trigger,
                 prev_trigger, estimate, estimate_prev, wait, flags, ended, crashed,
                 hung, crossed, commands>>

SendRequotes ==
  /\ AtHead("trader", "requote")
  /\ \E q \in Quotes :
       \E holds \in BOOLEAN :       \* the price condition
         Then("trader", IF holds THEN RequoteOrders(The("trader").acct, q) ELSE <<>>)
  /\ UNCHANGED <<pairVars, tcase, dying, current, trigger, prev_trigger,
                 estimate, estimate_prev, wait, flags, ended, crashed, hung, misled,
                 crossed, commands>>

-----------------------------------------------------------------------------
(* The loop of triggerProcessing.                                          *)

(* selfDestruct compares an int with an unsigned limit: a count below zero *)
(* is over it as well.                                                     *)
OverLive == \E a \in Accounts : LiveCount(a) \notin 0..MaximumLive

(* A round begins with a stamp; one without an estimate is thrown away.    *)
Round(e) ==
  /\ ~ended
  /\ "trader" \notin hung
  /\ flags["enable"]
  /\ todo["trader"] = <<>>
  /\ estimate' = e
  /\ Then("trader", (IF OverLive THEN enablePanicClose ELSE <<>>)
                      \o <<Do("special"), Do("run"), Do("finish")>>)
  /\ UNCHANGED <<pairVars, tcase, dying, current, trigger, prev_trigger,
                 estimate_prev, wait, flags, ended, crashed, hung, misled, crossed,
                 commands>>

(* specialCases: a panic or soft close that is on keeps its case until the *)
(* thread ends.  Each flag is read, and reset, by a step of its own, for   *)
(* the console assigns to it without a lock.                               *)
Branch(label) ==
  CASE label = "special" -> <<Do(IF flags["panic"] THEN "panic init" ELSE "soft special")>>
    [] label = "panic init" ->
         IF flags["panic_init"] THEN <<Do("disarm panic"), Do("panic case")>> ELSE <<>>
    [] label = "soft special" ->
         IF flags["soft"] THEN <<Do("soft init")>> ELSE <<Do("select"), Do("trigger")>>
    [] label = "soft init" ->
         IF flags["soft_init"] THEN <<Do("disarm soft"), Do("soft case")>> ELSE <<>>

ReadFlag ==
  /\ \E label \in {"special", "panic init", "soft special", "soft init"} :
       AtHead("trader", label) /\ Then("trader", Branch(label))
  /\ UNCHANGED <<pairVars, tcase, dying, current, trigger, prev_trigger, estimate,
                 estimate_prev, wait, flags, ended, crashed, hung, misled, crossed,
                 commands>>

SpecialCase(label, type) ==
  /\ AtHead("trader", label)
  /\ Replace(NewCase(type, current, IF current = NoAcc THEN NoAcc ELSE Other(current)))
  /\ UNCHANGED <<pairVars, current, trigger, prev_trigger, estimate, estimate_prev,
                 wait, flags, ended, crashed, hung, misled, crossed, commands>>

(* caseSelection *)
CaseType(a, e) ==
  LET mine == total[a]
      opposite == total[Other(a)]
  IN CASE mine = 0 /\ opposite = 0 -> "CASE_4"
       [] mine > 0 /\ opposite = 0 -> "CASE_9"
       [] mine = opposite /\ mine # 0 /\ wait.window /\ wait.avicenna # e -> "CASE_10"
       [] mine < opposite -> "HEDGECURRENT"
       [] OTHER -> "NONE"

CaseSelection(a, e) ==
  LET type == CaseType(a, e) IN
  /\ Replace(IF type = "NONE" THEN NoCase ELSE NewCase(type, a, Other(a)))
  /\ wait' = IF type = "CASE_10" THEN [wait EXCEPT !.window = FALSE] ELSE wait
  /\ misled' = (misled \/ Lagging)

(* Without a special case, a case is selected if there is none, and again  *)
(* if the trigger changes.                                                 *)
Select ==
  /\ AtHead("trader", "select")
  /\ IF current # NoAcc /\ tcase = NoCase
     THEN CaseSelection(current, estimate)
     ELSE UNCHANGED <<tcase, dying, wait, misled>> /\ Then("trader", <<>>)
  /\ UNCHANGED <<pairVars, current, trigger, prev_trigger, estimate, estimate_prev,
                 flags, ended, crashed, hung, crossed, commands>>

(* triggerSelection: the estimate moves up or down.                        *)
Triggered(e) == IF e > estimate_prev THEN "POSITIVE"
                ELSE IF e < estimate_prev THEN "NEGATIVE" ELSE trigger

TriggerSelection ==
  LET a == IF Triggered(estimate) = "POSITIVE" THEN "long" ELSE "short" IN
  /\ AtHead("trader", "trigger")
  /\ trigger' = Triggered(estimate)
  /\ estimate_prev' = estimate
  /\ IF Triggered(estimate) \notin {prev_trigger, "INIT"}
     THEN /\ prev_trigger' = Triggered(estimate)
          /\ current' = a
          /\ CaseSelection(a, estimate)
     ELSE /\ UNCHANGED <<prev_trigger, current, wait, tcase, dying, misled>>
          /\ Then("trader", <<>>)
  /\ UNCHANGED <<pairVars, estimate, flags, ended, crashed, hung, crossed, commands>>

RunCase ==
  /\ AtHead("trader", "run")
  /\ IF tcase = NoCase
     THEN UNCHANGED <<tcase, trigger, misled>> /\ Then("trader", <<>>)
     ELSE \E q \in Quotes, thin \in BOOLEAN :
            \E o \in Run(tcase, trigger, q, thin) :
              /\ tcase' = o.c
              /\ trigger' = o.trigger
              /\ misled' = (misled \/ Lagging)
              /\ Then("trader", o.steps)
  /\ UNCHANGED <<pairVars, dying, current, prev_trigger, estimate,
                 estimate_prev, wait, flags, ended, crashed, hung, crossed,
                 commands>>

Crash ==
  /\ AtHead("trader", "crash")
  /\ crashed' = TRUE
  /\ UNCHANGED <<pairVars, tcase, dying, todo, current, trigger, prev_trigger,
                 estimate, estimate_prev, wait, flags, ended, hung, misled, crossed,
                 commands>>

(* After the run: a special case that is done ends the thread, another     *)
(* that is done or has failed is given up.  A case that is left is written *)
(* to Redis under the symbol of the current account.                       *)
Finish ==
  /\ AtHead("trader", "finish")
  /\ ended' = (tcase.type \in Specials /\ tcase.state = "DONE")
  /\ crashed' = (tcase # NoCase /\ current = NoAcc)
  /\ IF tcase.type \notin Specials \cup {"NONE"} /\ tcase.state \in {"DONE", "FAILED"}
     THEN Replace(NoCase)
     ELSE UNCHANGED <<tcase, dying>> /\ Then("trader", <<>>)
  /\ UNCHANGED <<pairVars, current, trigger, prev_trigger, estimate,
                 estimate_prev, wait, flags, hung, misled, crossed, commands>>

(* The end of ~TradeCase, once the orders are cancelled: what still is to  *)
(* come back for an order of this case comes back to nobody.               *)
Bury ==
  LET lost(d) == IF d = "none" THEN d ELSE "dangling" IN
  /\ AtHead("trader", "bury")
  /\ wait' = IF Equal THEN [window |-> TRUE, avicenna |-> estimate] ELSE wait
  /\ dying' = NoCase
  /\ orders' = [i \in Slots |-> IF i \in Live THEN [orders[i] EXCEPT !.done = lost(@)]
                                ELSE NoOrder]
  /\ pending' = [a \in Accounts |-> [k \in DOMAIN pending[a] |->
                                       [pending[a][k] EXCEPT !.done = lost(@)]]]
  /\ Then("trader", <<>>)
  /\ UNCHANGED <<pos, total, booking, leak, tranch, tcase, current, trigger,
                 prev_trigger, estimate, estimate_prev, flags, ended, crashed, hung,
                 misled, crossed, commands>>

-----------------------------------------------------------------------------
(* The threads of CLI, which read a line and run its command to the end.   *)

Command(th, line) ==
  /\ commands < MaxCommands
  /\ todo[th] = <<>>
  /\ commands' = commands + 1
  /\ Then(th, Script(line))
  /\ UNCHANGED <<pairVars, tcase, dying, current, trigger, prev_trigger,
                 estimate, estimate_prev, wait, flags, ended, crashed, hung, misled,
                 crossed>>

WriteFlag(th) ==
  /\ th \notin hung
  /\ todo[th] # <<>>
  /\ The(th).do \in DOMAIN Writes
  /\ LET w == Writes[The(th).do] IN flags' = [flags EXCEPT ![w[1]] = w[2]]
  /\ crossed' = (crossed \/ (/\ th = "trader"
                               /\ The(th).do \in {"panic", "arm panic"}
                               /\ \E other \in Consoles : todo[other] # <<>>))
  /\ Then(th, <<>>)
  /\ UNCHANGED <<pairVars, tcase, dying, current, trigger, prev_trigger,
                 estimate, estimate_prev, wait, ended, crashed, hung, misled, commands>>

-----------------------------------------------------------------------------
(* The market.                                                             *)

Fills(i) == /\ LastFill(i) \/ \E n \in 1..SizeLimit : Fill(i, n)
            /\ UNCHANGED instanceVars
Books(a) == Book(a) /\ UNCHANGED instanceVars

(* on_requote_order_done sets the flag of the case that registered it.     *)
Flagged(o) == IF o.done = "requote_done" /\ Equal /\ dying = NoCase
              THEN [tcase EXCEPT !.flag = TRUE] ELSE tcase

OrderDone(i) ==
  LET o == orders[i] IN
  /\ Forget(i)
  /\ o.done # "dangling"
  /\ tcase' = Flagged(o)
  /\ \/ /\ QueuesClose(o)
        /\ QueueClose(o, "requote_done")
     \/ /\ ~QueuesClose(o)
        /\ UNCHANGED pending
  /\ UNCHANGED <<dying, todo, current, trigger, prev_trigger, estimate,
                 estimate_prev, wait, flags, ended, crashed, hung, misled, crossed,
                 commands>>

(* A callback that runs in a deleted case reads and writes freed memory.   *)
CallbackIsLost(i) ==
  /\ i \in Live
  /\ orders[i].left = 0
  /\ booking[orders[i].acct] = 0
  /\ orders[i].done = "dangling"
  /\ crashed' = TRUE
  /\ UNCHANGED <<pairVars, tcase, dying, todo, current, trigger, prev_trigger,
                 estimate, estimate_prev, wait, flags, ended, hung, misled, crossed,
                 commands>>

-----------------------------------------------------------------------------
Trader ==
  \/ Drop("trader") \/ CancelOrders("trader")
  \/ SendOrder \/ ChangeOrder \/ SendPending \/ SendRequotes
  \/ WriteFlag("trader") \/ ReadFlag
  \/ SpecialCase("panic case", "PANIC_CLOSE") \/ SpecialCase("soft case", "SOFT_CLOSE")
  \/ Select \/ TriggerSelection \/ RunCase \/ Crash \/ Finish \/ Bury

Console(th) == Drop(th) \/ CancelOrders(th) \/ WriteFlag(th)

Next ==
  /\ ~crashed
  /\ \/ \E e \in Estimates : Round(e)
     \/ Trader
     \/ \E th \in Consoles : Console(th) \/ \E line \in Commands : Command(th, line)
     \/ \E th \in Threads : Hang(th)
     \/ \E i \in Slots : Fills(i) \/ OrderDone(i) \/ CallbackIsLost(i)
     \/ \E a \in Accounts : Books(a)

Spec == Init /\ [][Next]_vars

-----------------------------------------------------------------------------
(* The trading thread and the console are threads that run, stamps keep    *)
(* coming, and the market takes in the end what is offered at its price    *)
(* and reports what it has taken.                                          *)
Fairness ==
  /\ WF_vars(Trader)
  /\ WF_vars(\E e \in Estimates : Round(e))
  /\ \A th \in Consoles : WF_vars(Console(th))
  /\ \A i \in Slots : WF_vars(Fills(i)) /\ WF_vars(OrderDone(i))
  /\ \A a \in Accounts : WF_vars(Books(a))

FairSpec == Spec /\ Fairness

-----------------------------------------------------------------------------
(* What must hold while orders are filled between any two steps.  Two      *)
(* things make the trading thread decide on what is not so: an answer 0    *)
(* for an order that works, and a position that a fill already told has    *)
(* still to change.  The properties of what the cases own and send are     *)
(* about a thread that neither has happened to.                            *)

Working == {i \in Live : orders[i].left > 0}

(* The cases close what they read as the position, and cancelAll, the      *)
(* callbacks and sendPendingOrders work on the same shares: together the   *)
(* close orders at the market never ask for more than an account holds.    *)
LiveClosesCovered ==
  ~misled => \A a \in Accounts : Left(OrdersOf(a, "close")) <= pos[a]

(* ~TradeCase cancels the orders whose callbacks capture the case: none    *)
(* that can still be filled outlives it, if no cancel is refused.          *)
LiveHasCase == ~misled => \A i \in Working : orders[i].done # "dangling"

(* The same of every order there is.  cancelAll passes over an order that  *)
(* is filled and whose DONE is on its way.                                 *)
CallbackHasCase == \A i \in Live : orders[i].done # "dangling"

(* A case other than 4 works with one order: once the case before it is    *)
(* destroyed, no order but the one it remembers can change a position,     *)
(* whatever became of the changes and cancels it has asked for.            *)
OnlyItsOrderTrades ==
  ~misled /\ dying = NoCase /\ tcase.type \notin {"CASE_4", "NONE"}
    => Working \subseteq {tcase.main}

(* HedgeCurrent, PanicClose and SoftClose send a difference they read once *)
(* and change the price while it is being filled: what is left of the      *)
(* order never carries one account past the other.                         *)
NeverOvershoots ==
  LET c == tcase IN
  ~misled /\ dying = NoCase /\ c.main \in Working =>
    CASE c.type = "HEDGECURRENT" -> pos[c.cur] + orders[c.main].left <= pos[c.opp]
      [] c.type \in Specials     -> pos[c.opp] - orders[c.main].left >= pos[c.cur]
      [] OTHER                   -> TRUE

(* enablePanicClose and disablePanicClose write two flags, specialCases    *)
(* reads both and resets one, and nothing locks them: with one console, a  *)
(* panic close that is on has its case or is about to have it, unless      *)
(* selfDestruct, too, has written between the two writes of a command.     *)
About(label) == \E k \in DOMAIN todo["trader"] : todo["trader"][k].do = label

PanicIsAnswered ==
  /\ flags["panic"] /\ ~flags["panic_init"]
  /\ ~ended /\ ~crossed
  /\ \A th \in Consoles : todo[th] = <<>>
  => tcase.type = "PANIC_CLOSE" \/ About("arm panic") \/ About("panic case")

(* "panic/soft close complete ... exiting!!!": the thread ends with equal  *)
(* positions and nothing at the market that could make them differ.        *)
EndedIsHedged ==
  ended /\ ~misled => pos["long"] = pos["short"] /\ Working = {}

(* A panic close that is ordered makes the thread end, unless trading is   *)
(* stopped, the order is taken back, in full or in half by a command that  *)
(* selfDestruct has crossed, the live counters pass maximum_live or the    *)
(* thread waits for ever in a cancel or a change; while no order is        *)
(* refused.                                                                *)
PanicEnds ==
  flags["panic"] /\ flags["panic_init"]
    ~> \/ ended \/ crashed \/ ~flags["enable"] \/ ~flags["panic"]
       \/ OverLive \/ crossed \/ misled \/ "trader" \in hung

(* "specialCases are cases that executes irrespective of trigger state     *)
(* like panic and soft close" (TradeInstance.cpp:480): running one never   *)
(* takes the program down.                                                 *)
SpecialCasesExecute == tcase.type \in Specials => ~crashed
=============================================================================

------------------------- MODULE TradeInstanceProofs -------------------------
(***************************************************************************)
(* What holds of TradeInstance for every number of orders, consoles,       *)
(* commands, sizes, prices and estimates: its types; what the trading      *)
(* thread still has to do, which has one of a few forms; and that with one *)
(* console a panic close that is on has its case or is about to.           *)
(***************************************************************************)
EXTENDS TradeInstance, FoldLemmas

-----------------------------------------------------------------------------
(* Types.  An order has no more left than its size, a step that is a call  *)
(* names an account, and a case that trades has its two accounts.          *)

GoodOrder == {o \in Order : o.left <= o.size}

GoodStep ==
  {s \in Step :
     /\ s.do \in {"open", "close", "drop", "cancel", "pending", "requote"} => s.acct \in Accounts
     /\ s.do = "change" => s.size \in Nat}

GoodCase ==
  {c \in Case :
     /\ c.type = "NONE" => c = NoCase
     /\ c.type \notin Specials \cup {"NONE"} =>
          c.cur \in Accounts /\ c.opp = Other(c.cur) /\ c.to_close \in Accounts
     /\ c.cur \in Accounts => c.opp = Other(c.cur)}

TypesInv ==
  /\ pos \in [Accounts -> Nat]
  /\ total \in [Accounts -> Nat]
  /\ booking \in [Accounts -> {0} \cup Slots]
  /\ \A a \in Accounts : booking[a] = 0 => total[a] = pos[a]
  /\ orders \in [Slots -> GoodOrder \cup {NoOrder}]
  /\ pending \in [Accounts -> Seq(Pending)]
  /\ leak \in [Accounts -> (-MaxLeak)..MaxLeak]
  /\ tranch \in [Accounts -> {-1, 0}]
  /\ tcase \in GoodCase
  /\ dying \in GoodCase
  /\ todo \in [Threads -> Seq(GoodStep)]
  /\ current \in Accounts \cup {NoAcc}
  /\ trigger \in Triggers
  /\ prev_trigger \in Triggers
  /\ estimate \in {0} \cup Estimates
  /\ estimate_prev \in {0} \cup Estimates
  /\ wait \in [window : BOOLEAN, avicenna : {0} \cup Estimates]
  /\ flags \in [Flags -> BOOLEAN]
  /\ ended \in BOOLEAN
  /\ crashed \in BOOLEAN
  /\ hung \subseteq Threads
  /\ misled \in BOOLEAN
  /\ crossed \in BOOLEAN
  /\ commands \in 0..MaxCommands

LEMMA OtherAccount ==
  ASSUME NEW a \in Accounts
  PROVE  Other(a) \in Accounts /\ Other(a) # a /\ Other(Other(a)) = a
BY DEF Other, Accounts

LEMMA NoAccIsNone == NoAcc \notin Accounts
BY DEF NoAcc, Accounts

LEMMA NoOrderIsNone == NoOrder \notin Order /\ NoOrder \notin GoodOrder
BY DEF NoOrder, Order, GoodOrder

LEMMA TypesImply == TypesInv => TypeOK
<1> SUFFICES ASSUME TypesInv  PROVE TypeOK
  OBVIOUS
<1>1. PairTypeOK
  BY DEF TypesInv, PairTypeOK, GoodOrder
<1>2. /\ tcase \in Case /\ dying \in Case
      /\ todo \in [Threads -> Seq(Step)]
  <2>1. \A s \in Seq(GoodStep) : s \in Seq(Step)
    BY DEF GoodStep
  <2> QED
    BY <2>1 DEF TypesInv, GoodCase
<1> QED
  BY <1>1, <1>2 DEF TypesInv, TypeOK

(* The simplest steps and cases are well formed.                           *)
Fields(do, a, size, price, id, done, to) ==
  [do |-> do, acct |-> a, size |-> size, price |-> price, id |-> id, done |-> done, to |-> to]

LEMMA StepFields ==
  ASSUME NEW do \in Calls \cup Labels, NEW a \in Accounts \cup {NoAcc}, NEW size \in Int,
         NEW price \in {0} \cup Prices, NEW id \in {0} \cup Slots, NEW done \in Callbacks,
         NEW to \in {"main", "requote", "none"},
         do \in {"open", "close", "drop", "cancel", "pending", "requote"} => a \in Accounts,
         do = "change" => size \in Nat
  PROVE  Fields(do, a, size, price, id, done, to) \in GoodStep
BY DEF GoodStep, Step, Fields

LEMMA DoIsStep ==
  ASSUME NEW l \in Labels, l \notin {"drop", "pending", "requote"}
  PROVE  Do(l) \in GoodStep /\ Do(l).do = l
<1>1. l \notin {"open", "close", "change", "cancel"}
  BY DEF Labels
<1>2. l \in Calls \cup Labels /\ "none" \in Callbacks /\ NoAcc \in Accounts \cup {NoAcc}
  BY DEF Callbacks
<1>3. Do(l) = Fields(l, NoAcc, 0, 0, 0, "none", "none")
  BY DEF Do, Fields
<1>4. Fields(l, NoAcc, 0, 0, 0, "none", "none") \in GoodStep
  BY <1>1, <1>2, StepFields
<1> QED
  BY <1>3, <1>4 DEF Do

LEMMA OnIsStep ==
  ASSUME NEW a \in Accounts, NEW l \in {"drop", "cancel", "pending", "requote"}
  PROVE  On(a, l) \in GoodStep /\ On(a, l).do = l /\ On(a, l).acct = a
<1>1. l \in Calls \cup Labels /\ "none" \in Callbacks
  BY DEF Labels, Calls, Callbacks
<1>2. On(a, l) = Fields(l, a, 0, 0, 0, "none", "none")
  BY DEF On, Do, Fields
<1>3. Fields(l, a, 0, 0, 0, "none", "none") \in GoodStep
  BY <1>1, StepFields
<1> QED
  BY <1>2, <1>3 DEF Fields

LEMMA OnIsRecord ==
  ASSUME NEW a \in Accounts \cup {NoAcc}, NEW l \in {"open", "close", "change"}
  PROVE  /\ On(a, l) \in Step /\ On(a, l).do = l /\ On(a, l).acct = a
         /\ On(a, l).id = 0 /\ On(a, l).done = "none"
<1>1. On(a, l) = Fields(l, a, 0, 0, 0, "none", "none")
  BY DEF On, Do, Fields
<1>2. l \in Calls \cup Labels /\ "none" \in Callbacks
  BY DEF Calls, Callbacks
<1> QED
  BY <1>1, <1>2 DEF Fields, Step

LEMMA OpenIsStep ==
  ASSUME NEW a \in Accounts, NEW size \in Int, NEW price \in {0} \cup Prices,
         NEW done \in Callbacks, NEW to \in {"main", "requote", "none"}
  PROVE  LET s == CallOpen(a, size, price, done, to) IN
         s \in GoodStep /\ s.do = "open" /\ s.acct = a /\ s.size = size /\ s.done = done /\ s.to = to
<1> DEFINE f == On(a, "open")
<1>1. f \in Step /\ f.do = "open" /\ f.acct = a /\ f.id = 0 /\ f.done = "none"
  BY OnIsRecord
<1> HIDE DEF f
<1>2. LET s == [f EXCEPT !.size = size, !.price = price, !.done = done, !.to = to] IN
      s \in Step /\ s.do = "open" /\ s.acct = a /\ s.size = size /\ s.done = done /\ s.to = to
  BY <1>1 DEF Step, Callbacks
<1>3. ASSUME NEW s \in Step, s.do = "open", s.acct = a  PROVE s \in GoodStep
  BY <1>3 DEF GoodStep
<1> QED
  BY <1>2, <1>3 DEF CallOpen, f

LEMMA CloseIsStep ==
  ASSUME NEW a \in Accounts, NEW size \in Int, NEW price \in {0} \cup Prices
  PROVE  LET s == CallClose(a, size, price) IN
         s \in GoodStep /\ s.do = "close" /\ s.acct = a /\ s.size = size /\ s.done = "none" /\ s.to = "main"
<1> DEFINE f == On(a, "close")
<1>1. f \in Step /\ f.do = "close" /\ f.acct = a /\ f.id = 0 /\ f.done = "none"
  BY OnIsRecord
<1> HIDE DEF f
<1>2. LET s == [f EXCEPT !.size = size, !.price = price, !.to = "main"] IN
      s \in Step /\ s.do = "close" /\ s.acct = a /\ s.size = size /\ s.done = "none" /\ s.to = "main"
  BY <1>1 DEF Step, Callbacks
<1>3. ASSUME NEW s \in Step, s.do = "close", s.acct = a  PROVE s \in GoodStep
  BY <1>3 DEF GoodStep
<1> QED
  BY <1>2, <1>3 DEF CallClose, f

LEMMA ChangeIsStep ==
  ASSUME NEW a \in Accounts \cup {NoAcc}, NEW id \in {0} \cup Slots, NEW size \in Nat,
         NEW price \in {0} \cup Prices, NEW to \in {"main", "requote", "none"}
  PROVE  LET s == CallChange(a, id, size, price, to) IN
         s \in GoodStep /\ s.do = "change" /\ s.acct = a /\ s.size = size /\ s.id = id /\ s.to = to
<1> DEFINE f == On(a, "change")
<1>1. f \in Step /\ f.do = "change" /\ f.acct = a /\ f.id = 0 /\ f.done = "none"
  BY OnIsRecord
<1> HIDE DEF f
<1>2. LET s == [f EXCEPT !.id = id, !.size = size, !.price = price, !.to = to] IN
      s \in Step /\ s.do = "change" /\ s.acct = a /\ s.size = size /\ s.id = id /\ s.to = to
  <2>1. size \in Int
    OBVIOUS
  <2> QED
    BY <1>1, <2>1 DEF Step
<1>3. ASSUME NEW s \in Step, s.do = "change", s.size = size  PROVE s \in GoodStep
  BY <1>3 DEF GoodStep
<1> QED
  BY <1>2, <1>3 DEF CallChange, f

LEMMA NewIsCase ==
  ASSUME NEW type \in Types \ {"NONE"}, NEW a \in Accounts
  PROVE  NewCase(type, a, Other(a)) \in GoodCase
<1>1. Other(a) \in Accounts
  BY OtherAccount
<1> QED
  BY <1>1 DEF NewCase, GoodCase, Case, Types, Specials, States

LEMMA NewSpecialIsCase ==
  ASSUME NEW type \in Specials
  PROVE  NewCase(type, NoAcc, NoAcc) \in GoodCase
BY NoAccIsNone DEF NewCase, GoodCase, Case, Types, Specials, States

LEMMA NoCaseIsCase == NoCase \in GoodCase
BY NoAccIsNone DEF NoCase, NewCase, GoodCase, Case, Types, Specials, States

-----------------------------------------------------------------------------
(* What a run of a case comes to.  Case 4 leaves a list of calls on the    *)
(* current account; every other case at most one call, for the order it    *)
(* remembers.                                                              *)

Case4Steps(c) ==
  {s \in GoodStep :
     /\ s.do \in {"open", "change", "pending", "requote", "drop", "cancel"}
     /\ s.acct = c.cur
     /\ s.do = "open" => s.done = "send_close"
     /\ s.do = "change" => s.size = 0}

MainSteps(c) ==
  {s \in GoodStep :
     \/ s.do \in {"open", "close"} /\ s.to = "main" /\ s.done = "none"
     \/ s.do = "change" /\ s.to = "main" /\ s.id = c.main
     \/ s.do = "crash"}

Lists(c) == IF c.type = "CASE_4" THEN Seq(Case4Steps(c))
            ELSE IF c.type = "NONE" THEN {<<>>}
            ELSE {<<>>} \cup {<<s>> : s \in MainSteps(c)}

LEMMA ListsTyped == ASSUME NEW c  PROVE Lists(c) \subseteq Seq(GoodStep)
<1>1. Case4Steps(c) \subseteq GoodStep /\ MainSteps(c) \subseteq GoodStep
  BY DEF Case4Steps, MainSteps
<1>2. \A s \in MainSteps(c) : <<s>> \in Seq(GoodStep)
  BY <1>1
<1>3. Seq(Case4Steps(c)) \subseteq Seq(GoodStep) /\ <<>> \in Seq(GoodStep)
  BY <1>1
<1>4. CASE c.type = "CASE_4"
  BY <1>3, <1>4 DEF Lists
<1>5. CASE c.type # "CASE_4"
  <2>1. Lists(c) \subseteq {<<>>} \cup {<<s>> : s \in MainSteps(c)}
    BY <1>5 DEF Lists
  <2> QED
    BY <2>1, <1>2, <1>3
<1> QED
  BY <1>4, <1>5

(* A case stays the same case while it runs.                               *)
SameCase(c, d) ==
  /\ d \in GoodCase
  /\ d.type = c.type
  /\ d.main = c.main

SameData(c, d) ==
  /\ d.cur = c.cur
  /\ d.opp = c.opp
  /\ d.to_close = c.to_close
  /\ d.original = c.original
  /\ d.size = c.size

(* The account and the kind of the one order of a case other than 4, and   *)
(* that n shares of it more can be filled: a hedge never carries the       *)
(* current account past the other, a special close never takes the other   *)
(* one below the current, and cases 9 and 10 close what there is and one   *)
(* piece.                                                                  *)
Side(c) == CASE c.type \in Specials           -> c.opp
             [] c.type = "CASE_10"            -> c.to_close
             [] c.type \in {"CASE_9", "HEDGECURRENT"} -> c.cur
SideOp(c) == IF c.type = "HEDGECURRENT" THEN "open" ELSE "close"

Covers(c, n) ==
  /\ c.type = "HEDGECURRENT" => total[c.cur] + n <= total[c.opp]
  /\ c.type \in Specials => c.cur \in Accounts /\ total[c.opp] - n >= total[c.cur]
  /\ c.type = "CASE_9" => n <= total[c.cur]
  /\ c.type = "CASE_10" => n <= total[c.to_close] /\ total[c.to_close] - n >= c.original - c.size

(* An order is sent by a case that has none.                               *)
HasNone(c) ==
  \/ c.state = "INIT"
  \/ c.type = "CASE_10" /\ total[c.to_close] <= c.original - c.size

Sends(c, d, s) ==
  /\ HasNone(c)
  /\ s.do = SideOp(d) /\ s.acct = Side(d)
  /\ Covers(d, s.size)

Reprices(c, d, s) ==
  /\ s.do = "change"
  /\ SameData(c, d)
  /\ s.size = 0 \/ (c.type = "CASE_9" /\ s.size <= total[c.cur])

OneCallOut(c, d, steps) ==
  /\ d.state = "INIT" => c.state = "INIT"
  /\ d.type \in Specials /\ d.state = "DONE" => (c.state = "DONE" \/ Equal)
  /\ \/ steps = <<>> /\ (c.state = "INIT" \/ SameData(c, d))
     \/ \E s \in MainSteps(d) :
          /\ steps = <<s>>
          /\ Sends(c, d, s) \/ Reprices(c, d, s) \/ (s.do = "crash" /\ c.state = "INIT")

Case4Out(c, d, steps) ==
  /\ d.cur = c.cur
  /\ c.state \in {"INIT", "PRICE_CHANGE"} => d.state = c.state
  /\ d.state = "INIT" => c.state = "INIT"
  /\ steps \in Seq(Case4Steps(d))

GoodOut(c, o) ==
  /\ SameCase(c, o.c)
  /\ o.trigger \in Triggers
  /\ IF c.type = "CASE_4" THEN Case4Out(c, o.c, o.steps) ELSE OneCallOut(c, o.c, o.steps)

LEMMA PricesTyped ==
  ASSUME NEW ts, NEW q \in Quotes, NEW thin, NEW p \in {0} \cup Prices
  PROVE  /\ openPrice(ts, q, thin, p) \in {0} \cup Prices
         /\ closePrice(ts, q, thin) \in {0} \cup Prices
         /\ sendPrice(ts, q, thin) \in {0} \cup Prices
         /\ marketPrice(ts, q) \in {0} \cup Prices
<1>1. q.bid \in Prices /\ q.ask \in Prices
  BY DEF Prices
<1>2. \A t, x : x \in {0} \cup Prices => openPrice(t, q, thin, x) \in {0} \cup Prices
  BY <1>1 DEF openPrice
<1> QED
  BY <1>1, <1>2 DEF closePrice, sendPrice, marketPrice

LEMMA BecomesFacts ==
  ASSUME NEW c \in GoodCase, c.type # "NONE", NEW state \in States
  PROVE  /\ SameCase(c, Becomes(c, state))
         /\ Becomes(c, state).cur = c.cur /\ Becomes(c, state).opp = c.opp
         /\ Becomes(c, state).state = state /\ Becomes(c, state).size = c.size
         /\ Becomes(c, state).to_close = c.to_close /\ Becomes(c, state).original = c.original
BY DEF SameCase, Becomes, GoodCase, Case

Sized(c, size, price) == [c EXCEPT !.size = size, !.price = price]

LEMMA SizedFacts ==
  ASSUME NEW c \in GoodCase, c.type # "NONE", NEW size \in Int, NEW price \in {0} \cup Prices
  PROVE  LET d == Sized(c, size, price) IN
         /\ SameCase(c, d)
         /\ d.cur = c.cur /\ d.opp = c.opp /\ d.state = c.state /\ d.size = size
         /\ d.price = price /\ d.to_close = c.to_close /\ d.original = c.original
BY DEF Sized, SameCase, GoodCase, Case

LEMMA OutFacts ==
  ASSUME NEW c, NEW steps, NEW t
  PROVE  /\ Out(c, steps, t).c = c /\ Out(c, steps, t).steps = steps
         /\ Out(c, steps, t).trigger = t
BY DEF Out

(* The one call of a run is a step of the case.                            *)
LEMMA SendIsMain ==
  ASSUME NEW c, NEW a \in Accounts, NEW size \in Int, NEW price \in {0} \cup Prices
  PROVE  /\ LET s == CallOpen(a, size, price, "none", "main") IN
            s \in MainSteps(c) /\ s.do = "open" /\ s.acct = a /\ s.size = size
         /\ LET s == CallClose(a, size, price) IN
            s \in MainSteps(c) /\ s.do = "close" /\ s.acct = a /\ s.size = size
<1>1. "none" \in Callbacks /\ "main" \in {"main", "requote", "none"}
  BY DEF Callbacks
<1>2. LET s == CallOpen(a, size, price, "none", "main") IN
      s \in MainSteps(c) /\ s.do = "open" /\ s.acct = a /\ s.size = size
  <2> DEFINE s == CallOpen(a, size, price, "none", "main")
  <2>1. s \in GoodStep /\ s.do = "open" /\ s.to = "main" /\ s.done = "none" /\ s.acct = a /\ s.size = size
    BY <1>1, OpenIsStep
  <2> QED
    BY <2>1 DEF MainSteps
<1>3. LET s == CallClose(a, size, price) IN
      s \in MainSteps(c) /\ s.do = "close" /\ s.acct = a /\ s.size = size
  <2> DEFINE s == CallClose(a, size, price)
  <2>1. s \in GoodStep /\ s.do = "close" /\ s.to = "main" /\ s.done = "none" /\ s.acct = a /\ s.size = size
    BY CloseIsStep
  <2> QED
    BY <2>1 DEF MainSteps
<1> QED
  BY <1>2, <1>3

LEMMA ChangeIsMain ==
  ASSUME NEW c, c.main \in {0} \cup Slots, NEW a \in Accounts \cup {NoAcc},
         NEW size \in Nat, NEW price \in {0} \cup Prices
  PROVE  LET s == CallChange(a, c.main, size, price, "main") IN
         s \in MainSteps(c) /\ s.do = "change" /\ s.size = size
<1>1. "main" \in {"main", "requote", "none"}
  OBVIOUS
<1>2. ASSUME NEW id \in {0} \cup Slots
      PROVE  LET s == CallChange(a, id, size, price, "main") IN
             s \in GoodStep /\ s.do = "change" /\ s.to = "main" /\ s.id = id /\ s.size = size
  BY <1>1, ChangeIsStep
<1> DEFINE s == CallChange(a, c.main, size, price, "main")
<1>3. s \in GoodStep /\ s.do = "change" /\ s.to = "main" /\ s.id = c.main /\ s.size = size
  BY <1>2
<1> QED
  BY <1>3 DEF MainSteps

LEMMA CrashIsMain == ASSUME NEW c  PROVE Do("crash") \in MainSteps(c) /\ Do("crash").do = "crash"
<1>1. "crash" \in Labels /\ "crash" \notin {"drop", "pending", "requote"}
  BY DEF Labels
<1> QED
  BY <1>1, DoIsStep DEF MainSteps

(* The record a panic or soft close works with, and what it closes.        *)
LEMMA SelectedFacts ==
  ASSUME TypesInv, NEW c \in GoodCase, c.type \in Specials
  PROVE  /\ SameCase(c, Selected(c)) /\ Selected(c).state = c.state
         /\ ~Equal => Selected(c).cur \in Accounts
         /\ Equal => Selected(c) = c
<1>1. Behind \in Accounts /\ Other(Behind) \in Accounts
  BY DEF Behind, Accounts, Other
<1>2. CASE Equal
  BY <1>2 DEF Selected, SameCase
<1>3. CASE ~Equal
  <2>1. Selected(c) = [c EXCEPT !.cur = Behind, !.opp = Other(Behind)]
    BY <1>3 DEF Selected
  <2>2. LET d == [c EXCEPT !.cur = Behind, !.opp = Other(Behind)] IN
        d \in Case /\ d.type = c.type /\ d.cur = Behind /\ d.opp = Other(Behind)
        /\ d.main = c.main /\ d.state = c.state
    BY <1>1 DEF GoodCase, Case
  <2>3. \A d \in Case : d.type \in Specials /\ d.opp = Other(d.cur) => d \in GoodCase
    BY DEF GoodCase, Specials
  <2> QED
    BY <1>1, <1>3, <2>1, <2>2, <2>3 DEF SameCase
<1> QED
  BY <1>2, <1>3

LEMMA SelectedTriggerTyped ==
  ASSUME NEW ts \in Triggers  PROVE SelectedTrigger(ts) \in Triggers
BY DEF SelectedTrigger, Triggers

LEMMA ExcessIsCovered ==
  ASSUME TypesInv, NEW c \in GoodCase, c.cur \in Accounts
  PROVE  /\ c.opp \in Accounts
         /\ Excess(c) \in Int
         /\ Excess(c) = total[c.opp] - total[c.cur]
<1>1. c.opp \in Accounts
  BY OtherAccount DEF GoodCase
<1>2. total[c.opp] \in Int /\ total[c.cur] \in Int
  BY <1>1 DEF TypesInv
<1> QED
  BY <1>1, <1>2 DEF Excess

(* Closing, in the account ahead, what it is ahead.                        *)
LEMMA SendsExcess ==
  ASSUME TypesInv, NEW c \in GoodCase, c.state = "INIT", NEW s \in GoodCase, s.type = c.type,
         c.type \in Specials, s.cur \in Accounts, NEW price \in {0} \cup Prices
  PROVE  LET d == [s EXCEPT !.size = Excess(s), !.price = price]
             call == CallClose(d.opp, d.size, d.price) IN
         /\ SameCase(s, d) /\ d.state = s.state
         /\ call \in MainSteps(d) /\ Sends(c, d, call)
<1> DEFINE d == [s EXCEPT !.size = Excess(s), !.price = price]
           call == CallClose(d.opp, d.size, d.price)
<1>1. s.opp \in Accounts /\ Excess(s) \in Int /\ Excess(s) = total[s.opp] - total[s.cur]
  BY ExcessIsCovered
<1>2. SameCase(s, d) /\ d.cur = s.cur /\ d.opp = s.opp /\ d.state = s.state
      /\ d.size = Excess(s) /\ d.price = price
  <2>1. s.type # "NONE"
    BY DEF Specials
  <2>2. d = Sized(s, Excess(s), price)
    BY DEF Sized
  <2> QED
    BY <1>1, <2>1, <2>2, SizedFacts
<1> HIDE DEF d
<1>3. call \in MainSteps(d) /\ call.do = "close" /\ call.acct = s.opp /\ call.size = Excess(s)
  <2>1. ASSUME NEW a \in Accounts, NEW x \in Int
        PROVE  LET k == CallClose(a, x, price) IN
               k \in MainSteps(d) /\ k.do = "close" /\ k.acct = a /\ k.size = x
    BY SendIsMain
  <2> QED
    BY <1>1, <1>2, <2>1
<1> HIDE DEF call
<1>4. Covers(d, call.size)
  <2>1. total[s.opp] \in Nat /\ total[s.cur] \in Nat
    BY <1>1 DEF TypesInv
  <2>2. total[s.opp] - Excess(s) >= total[s.cur]
    BY <1>1, <2>1
  <2>3. d.type \in Specials /\ d.type \notin {"HEDGECURRENT", "CASE_9", "CASE_10"}
    BY <1>2 DEF SameCase, Specials
  <2> QED
    BY <1>2, <1>3, <2>2, <2>3 DEF Covers
<1>5. Side(d) = s.opp /\ SideOp(d) = "close"
  BY <1>2 DEF Side, SideOp, SameCase, Specials
<1>6. Sends(c, d, call)
  BY <1>2, <1>3, <1>4, <1>5 DEF Sends, HasNone
<1> QED
  BY <1>2, <1>3, <1>6 DEF d, call

LEMMA PanicInitOut ==
  ASSUME TypesInv, NEW c \in GoodCase, c.type = "PANIC_CLOSE", c.state = "INIT",
         NEW ts \in Triggers, NEW q \in Quotes, NEW o \in PanicInit(c, ts, q)
  PROVE  GoodOut(c, o)
<1>0. c.type # "NONE" /\ c.type # "CASE_4" /\ c.type \in Specials
  BY DEF Specials
<1>1. CASE Equal
  <2>1. o = Out(Becomes(c, "DONE"), <<>>, ts)
    BY <1>1 DEF PanicInit
  <2>2. SameCase(c, Becomes(c, "DONE")) /\ Becomes(c, "DONE").state = "DONE"
    BY <1>0, BecomesFacts DEF States
  <2>3. OneCallOut(c, Becomes(c, "DONE"), <<>>)
    BY <1>1, <2>2 DEF OneCallOut
  <2> QED
    BY <1>0, <2>1, <2>2, <2>3, OutFacts DEF GoodOut
<1>2. CASE ~Equal
  <2> DEFINE s == Selected(c)
             t == SelectedTrigger(ts)
             p == marketPrice(t, q)
             d == [s EXCEPT !.size = Excess(s), !.price = p]
             call == CallClose(d.opp, d.size, d.price)
  <2>1. o = Out(d, <<call>>, t)
    BY <1>2 DEF PanicInit
  <2>2. SameCase(c, s) /\ s.state = c.state /\ s.cur \in Accounts /\ p \in {0} \cup Prices
        /\ t \in Triggers
    BY <1>0, <1>2, SelectedFacts, PricesTyped, SelectedTriggerTyped
  <2> HIDE DEF s, t, p
  <2>3. SameCase(s, d) /\ d.state = s.state /\ call \in MainSteps(d) /\ Sends(c, d, call)
    BY <1>0, <2>2, SendsExcess DEF SameCase
  <2> HIDE DEF d, call
  <2>4. SameCase(c, d) /\ d.state = "INIT"
    BY <2>2, <2>3 DEF SameCase
  <2>5. OneCallOut(c, d, <<call>>)
    BY <2>3, <2>4 DEF OneCallOut
  <2> QED
    BY <1>0, <2>1, <2>2, <2>4, <2>5, OutFacts DEF GoodOut
<1> QED
  BY <1>1, <1>2

(* A run that at most changes the order of the case.                       *)
LEMMA ChangeOut ==
  ASSUME NEW c \in GoodCase, c.type \notin {"NONE", "CASE_4"}, NEW ts \in Triggers,
         NEW a \in Accounts \cup {NoAcc}, NEW n \in Nat, NEW price \in {0} \cup Prices,
         n = 0 \/ (c.type = "CASE_9" /\ n <= total[c.cur]),
         NEW d, SameCase(c, d), SameData(c, d), d.state = "INIT" => c.state = "INIT",
         d.type \in Specials /\ d.state = "DONE" => (c.state = "DONE" \/ Equal),
         NEW steps, steps = <<>> \/ steps = <<CallChange(a, c.main, n, price, "main")>>
  PROVE  GoodOut(c, Out(d, steps, ts))
<1>1. OneCallOut(c, d, steps)
  <2>1. CASE steps = <<>>
    BY <2>1 DEF OneCallOut
  <2>2. CASE steps = <<CallChange(a, c.main, n, price, "main")>>
    <3> DEFINE call == CallChange(a, c.main, n, price, "main")
    <3>1. d.main \in {0} \cup Slots /\ d.main = c.main
      BY DEF SameCase, GoodCase, Case
    <3>2. call \in MainSteps(d) /\ call.do = "change" /\ call.size = n
      <4>1. LET s == CallChange(a, d.main, n, price, "main") IN
            s \in MainSteps(d) /\ s.do = "change" /\ s.size = n
        BY <3>1, ChangeIsMain
      <4> QED
        BY <3>1, <4>1
    <3> HIDE DEF call
    <3>3. Reprices(c, d, call)
      BY <3>2 DEF Reprices
    <3> QED
      BY <2>2, <3>2, <3>3 DEF OneCallOut, call
  <2> QED
    BY <2>1, <2>2
<1> QED
  BY <1>1, OutFacts DEF GoodOut

LEMMA ItselfSame ==
  ASSUME NEW c \in GoodCase, c.type # "NONE", NEW state \in States
  PROVE  /\ SameCase(c, c) /\ SameData(c, c)
         /\ SameCase(c, Becomes(c, state)) /\ SameData(c, Becomes(c, state))
         /\ Becomes(c, state).state = state /\ Becomes(c, state).type = c.type
BY BecomesFacts DEF SameCase, SameData

(* A case that is done, or goes on as it is.                               *)
LEMMA QuietOut ==
  ASSUME NEW c \in GoodCase, c.type \notin {"NONE", "CASE_4"}, NEW ts \in Triggers
  PROVE  /\ GoodOut(c, Out(c, <<>>, ts))
         /\ (c.type \in Specials => Equal) => GoodOut(c, Out(Becomes(c, "DONE"), <<>>, ts))
<1>1. "DONE" \in States /\ "DONE" # "INIT" /\ NoAcc \in Accounts \cup {NoAcc} /\ 0 \in Nat
      /\ 0 \in {0} \cup Prices
  BY DEF States
<1>2. /\ SameCase(c, c) /\ SameData(c, c)
      /\ SameCase(c, Becomes(c, "DONE")) /\ SameData(c, Becomes(c, "DONE"))
      /\ Becomes(c, "DONE").state = "DONE" /\ Becomes(c, "DONE").type = c.type
  BY <1>1, ItselfSame
<1>3. GoodOut(c, Out(c, <<>>, ts))
  BY <1>1, <1>2, ChangeOut
<1>4. ASSUME c.type \in Specials => Equal  PROVE GoodOut(c, Out(Becomes(c, "DONE"), <<>>, ts))
  BY <1>1, <1>2, <1>4, ChangeOut
<1> QED
  BY <1>3, <1>4

LEMMA PanicRepriceOut ==
  ASSUME NEW c \in GoodCase, c.type = "PANIC_CLOSE", NEW ts \in Triggers, NEW q \in Quotes,
         NEW o \in PanicReprice(c, ts, q)
  PROVE  GoodOut(c, o)
<1>0. c.type \notin {"NONE", "CASE_4"} /\ c.opp \in Accounts \cup {NoAcc} /\ SameCase(c, c)
      /\ SameData(c, c)
  BY ItselfSame DEF GoodCase, Case, States
<1>1. CASE Equal
  BY <1>0, <1>1, QuietOut DEF PanicReprice
<1>2. CASE ~Equal
  <2>1. marketPrice(ts, q) \in {0} \cup Prices
    BY PricesTyped
  <2>2. \E steps : /\ o = Out(c, steps, ts)
                   /\ steps = <<>> \/ steps = <<CallChange(c.opp, c.main, 0, marketPrice(ts, q), "main")>>
    BY <1>2 DEF PanicReprice
  <2> QED
    BY <1>0, <2>1, <2>2, ChangeOut
<1> QED
  BY <1>1, <1>2

LEMMA SoftRepriceOut ==
  ASSUME NEW c \in GoodCase, c.type = "SOFT_CLOSE", NEW ts \in Triggers, NEW q \in Quotes, NEW thin,
         NEW o \in SoftReprice(c, ts, q, thin)
  PROVE  GoodOut(c, o)
<1>0. c.type \notin {"NONE", "CASE_4"} /\ c.opp \in Accounts \cup {NoAcc} /\ SameCase(c, c)
      /\ SameData(c, c)
  BY ItselfSame DEF GoodCase, Case, States
<1>1. CASE Equal
  BY <1>0, <1>1, QuietOut DEF SoftReprice
<1>2. CASE ~Equal
  <2>1. closePrice(ts, q, thin) \in {0} \cup Prices
    BY PricesTyped DEF Prices
  <2>2. \E steps : /\ o = Out(c, steps, ts)
                   /\ steps = <<>> \/ steps = <<CallChange(c.opp, c.main, 0, closePrice(ts, q, thin), "main")>>
    BY <1>2 DEF SoftReprice
  <2> QED
    BY <1>0, <2>1, <2>2, ChangeOut
<1> QED
  BY <1>1, <1>2

(* A run that sends the order of the case.                                 *)
LEMMA SendOut ==
  ASSUME NEW c \in GoodCase, c.type \notin {"NONE", "CASE_4"}, NEW ts \in Triggers,
         NEW d, SameCase(c, d), d.state = "INIT" => c.state = "INIT",
         d.type \in Specials /\ d.state = "DONE" => (c.state = "DONE" \/ Equal),
         NEW call \in MainSteps(d), Sends(c, d, call)
  PROVE  GoodOut(c, Out(d, <<call>>, ts))
<1>1. OneCallOut(c, d, <<call>>)
  BY DEF OneCallOut
<1> QED
  BY <1>1, OutFacts DEF GoodOut

(* A run that only gets its record ready, in the first state.              *)
LEMMA ReadyOut ==
  ASSUME NEW c \in GoodCase, c.type \notin {"NONE", "CASE_4"}, NEW ts \in Triggers,
         c.state = "INIT", NEW d, SameCase(c, d),
         d.type \in Specials /\ d.state = "DONE" => Equal
  PROVE  GoodOut(c, Out(d, <<>>, ts))
<1>1. OneCallOut(c, d, <<>>)
  BY DEF OneCallOut
<1> QED
  BY <1>1, OutFacts DEF GoodOut

LEMMA SoftInitOut ==
  ASSUME TypesInv, NEW c \in GoodCase, c.type = "SOFT_CLOSE", c.state = "INIT",
         NEW ts \in Triggers, NEW q \in Quotes, NEW thin, NEW o \in SoftInit(c, ts, q, thin)
  PROVE  GoodOut(c, o)
<1> DEFINE s == [Selected(c) EXCEPT !.state = IF Equal THEN "DONE" ELSE @]
           t == SelectedTrigger(ts)
           p == closePrice(t, q, thin)
           d == [s EXCEPT !.size = Excess(s), !.price = p]
           call == CallClose(d.opp, d.size, d.price)
<1>0. c.type \notin {"NONE", "CASE_4"} /\ c.type \in Specials
  BY DEF Specials
<1>1. /\ SameCase(c, Selected(c)) /\ Selected(c).state = "INIT"
      /\ ~Equal => Selected(c).cur \in Accounts
  BY <1>0, SelectedFacts
<1>2. SameCase(c, s) /\ s.state = IF Equal THEN "DONE" ELSE "INIT"
  <2>1. CASE Equal
    <3>1. s = Becomes(Selected(c), "DONE")
      BY <2>1 DEF Becomes
    <3>2. Selected(c) \in GoodCase /\ Selected(c).type # "NONE" /\ "DONE" \in States
      BY <1>0, <1>1 DEF SameCase, States
    <3>3. SameCase(Selected(c), s) /\ s.state = "DONE"
      <4>1. ASSUME NEW x \in GoodCase, x.type # "NONE"
            PROVE  SameCase(x, Becomes(x, "DONE")) /\ Becomes(x, "DONE").state = "DONE"
        BY <3>2, <4>1, BecomesFacts
      <4> HIDE DEF s
      <4> QED
        BY <3>1, <3>2, <4>1
    <3> QED
      BY <2>1, <3>3, <1>1 DEF SameCase
  <2>2. CASE ~Equal
    <3>1. s = Selected(c)
      BY <2>2, <1>1 DEF SameCase, GoodCase, Case
    <3> QED
      BY <2>2, <3>1, <1>1
  <2> QED
    BY <2>1, <2>2
<1>3. t \in Triggers /\ p \in {0} \cup Prices
  BY SelectedTriggerTyped, PricesTyped
<1>4. \/ o = Out(s, <<Do("crash")>>, t) /\ s.cur = NoAcc
      \/ o = Out(d, <<>>, t) /\ s.cur # NoAcc
      \/ o = Out(d, <<call>>, t) /\ s.cur # NoAcc
  BY DEF SoftInit
<1> HIDE DEF s, t, p
<1>5. CASE s.cur = NoAcc
  <2>1. OneCallOut(c, s, <<Do("crash")>>)
    BY <1>2, CrashIsMain DEF OneCallOut
  <2> QED
    BY <1>0, <1>2, <1>3, <1>4, <1>5, <2>1, OutFacts DEF GoodOut
<1>6. CASE s.cur # NoAcc
  <2>1. s \in GoodCase /\ s.type = c.type /\ s.cur \in Accounts
    BY <1>2, <1>6 DEF SameCase, GoodCase, Case
  <2>2. SameCase(s, d) /\ d.state = s.state /\ call \in MainSteps(d) /\ Sends(c, d, call)
    BY <1>0, <1>3, <2>1, SendsExcess
  <2> HIDE DEF d, call
  <2>3. SameCase(c, d) /\ (d.state = "DONE" => Equal)
    BY <1>2, <2>2 DEF SameCase
  <2>4. GoodOut(c, Out(d, <<>>, t))
    BY <1>0, <1>3, <2>3, ReadyOut
  <2>5. GoodOut(c, Out(d, <<call>>, t))
    BY <1>0, <1>3, <2>2, <2>3, SendOut
  <2> QED
    BY <1>4, <1>6, <2>4, <2>5
<1> QED
  BY <1>5, <1>6

LEMMA HedgeInitOut ==
  ASSUME TypesInv, NEW c \in GoodCase, c.type = "HEDGECURRENT", c.state = "INIT",
         NEW ts \in Triggers, NEW q \in Quotes, NEW thin, NEW o \in HedgeInit(c, ts, q, thin)
  PROVE  GoodOut(c, o)
<1> DEFINE p == sendPrice(ts, q, thin)
           d == [c EXCEPT !.size = Excess(c), !.price = p]
           call == CallOpen(d.cur, d.size, d.price, "none", "main")
<1>0. c.type \notin {"NONE", "CASE_4"} /\ c.type \notin Specials /\ c.cur \in Accounts
  BY DEF Specials, GoodCase
<1>1. c.opp \in Accounts /\ Excess(c) \in Int /\ Excess(c) = total[c.opp] - total[c.cur]
  BY <1>0, ExcessIsCovered
<1>2. p \in {0} \cup Prices
  BY PricesTyped
<1>3. SameCase(c, d) /\ d.cur = c.cur /\ d.opp = c.opp /\ d.state = "INIT" /\ d.size = Excess(c)
      /\ d.price = p
  <2>1. d = Sized(c, Excess(c), p)
    BY DEF Sized
  <2> QED
    BY <1>0, <1>1, <1>2, <2>1, SizedFacts
<1>4. o = Out(Becomes(d, "FAILED"), <<>>, ts) \/ o = Out(d, <<call>>, ts)
  BY DEF HedgeInit
<1> HIDE DEF d, p
<1>5. call \in MainSteps(d) /\ call.do = "open" /\ call.acct = c.cur /\ call.size = Excess(c)
  <2>1. ASSUME NEW a \in Accounts, NEW x \in Int
        PROVE  LET k == CallOpen(a, x, p, "none", "main") IN
               k \in MainSteps(d) /\ k.do = "open" /\ k.acct = a /\ k.size = x
    BY <1>2, SendIsMain
  <2> QED
    BY <1>0, <1>1, <1>3, <2>1
<1> HIDE DEF call
<1>6. Sends(c, d, call)
  <2>1. total[c.cur] + Excess(c) <= total[c.opp]
    <3>1. total[c.opp] \in Nat /\ total[c.cur] \in Nat
      BY <1>0, <1>1 DEF TypesInv
    <3> QED
      BY <1>1, <3>1
  <2>2. Covers(d, call.size)
    BY <1>3, <1>5, <2>1 DEF Covers, SameCase, Specials
  <2> QED
    BY <1>3, <1>5, <2>2 DEF Sends, HasNone, Side, SideOp, SameCase, Specials
<1>7. GoodOut(c, Out(d, <<call>>, ts))
  BY <1>0, <1>3, <1>5, <1>6, SendOut DEF SameCase
<1>8. GoodOut(c, Out(Becomes(d, "FAILED"), <<>>, ts))
  <2>1. SameCase(d, Becomes(d, "FAILED"))
    BY <1>0, <1>3, BecomesFacts DEF SameCase, States
  <2>2. SameCase(c, Becomes(d, "FAILED"))
    BY <1>3, <2>1 DEF SameCase
  <2> QED
    BY <1>0, <2>2, ReadyOut DEF SameCase
<1> QED
  BY <1>4, <1>7, <1>8

LEMMA HedgeRepriceOut ==
  ASSUME NEW c \in GoodCase, c.type = "HEDGECURRENT", NEW ts \in Triggers, NEW q \in Quotes, NEW thin,
         NEW o \in HedgeReprice(c, ts, q, thin)
  PROVE  GoodOut(c, o)
<1> DEFINE d == IF Equal THEN Becomes(c, "DONE") ELSE c
           p == openPrice(ts, q, thin, c.price)
<1>0. c.type \notin {"NONE", "CASE_4"} /\ c.type \notin Specials /\ c.cur \in Accounts \cup {NoAcc}
      /\ c.price \in {0} \cup Prices
  BY DEF GoodCase, Case, Specials
<1>1. SameCase(c, d) /\ SameData(c, d) /\ (d.state = "INIT" => c.state = "INIT")
  <2>1. CASE Equal
    BY <1>0, <2>1, ItselfSame DEF States
  <2>2. CASE ~Equal
    BY <1>0, <2>2, ItselfSame DEF States
  <2> QED
    BY <2>1, <2>2
<1>2. p \in {0} \cup Prices
  BY <1>0, PricesTyped
<1>3. \E steps : /\ o = Out(d, steps, ts)
                 /\ steps = <<>> \/ steps = <<CallChange(c.cur, c.main, 0, p, "main")>>
  BY DEF HedgeReprice
<1> HIDE DEF d, p
<1>4. d.type \notin Specials
  BY <1>0, <1>1 DEF SameCase
<1> QED
  BY <1>0, <1>1, <1>2, <1>3, <1>4, ChangeOut

LEMMA Case9InitOut ==
  ASSUME TypesInv, NEW c \in GoodCase, c.type = "CASE_9", c.state = "INIT",
         NEW ts \in Triggers, NEW q \in Quotes, NEW thin, NEW o \in Case9Init(c, ts, q, thin)
  PROVE  GoodOut(c, o)
<1> DEFINE p == closePrice(ts, q, thin)
<1>0. c.type \notin {"NONE", "CASE_4"} /\ c.type \notin Specials /\ c.cur \in Accounts
  BY DEF Specials, GoodCase
<1>1. p \in {0} \cup Prices /\ total[c.cur] \in Nat
  BY <1>0, PricesTyped DEF TypesInv
<1>2. PICK n \in 0..total[c.cur] :
        LET new == [c EXCEPT !.price = p, !.size = n] IN
        IF n = 0 THEN o = Out(Becomes(new, "FAILED"), <<>>, ts)
        ELSE o = Out(new, <<CallClose(new.cur, n, new.price)>>, ts)
  BY DEF Case9Init, Profitable
<1> DEFINE d == [c EXCEPT !.price = p, !.size = n]
           call == CallClose(d.cur, n, d.price)
<1>3. n \in Int /\ n <= total[c.cur]
  BY <1>1
<1>4. SameCase(c, d) /\ d.cur = c.cur /\ d.state = "INIT" /\ d.size = n /\ d.price = p
  BY <1>0, <1>1, <1>3 DEF SameCase, GoodCase, Case
<1> HIDE DEF p
<1>6. CASE n = 0
  <2>1. o = Out(Becomes(d, "FAILED"), <<>>, ts)
    BY <1>2, <1>6
  <2> HIDE DEF d
  <2>2. SameCase(d, Becomes(d, "FAILED"))
    BY <1>0, <1>4, BecomesFacts DEF SameCase, States
  <2>3. SameCase(c, Becomes(d, "FAILED"))
    BY <1>4, <2>2 DEF SameCase
  <2> QED
    BY <1>0, <2>1, <2>3, ReadyOut DEF SameCase
<1>7. CASE n # 0
  <2>1. o = Out(d, <<call>>, ts)
    BY <1>2, <1>7
  <2> HIDE DEF d
  <2>5. d.cur \in Accounts /\ d.price \in {0} \cup Prices
    BY <1>0, <1>1, <1>4
  <2>6. ASSUME NEW a \in Accounts, NEW x \in Int, NEW price \in {0} \cup Prices
        PROVE  LET k == CallClose(a, x, price) IN
               k \in MainSteps(d) /\ k.do = "close" /\ k.acct = a /\ k.size = x
    BY SendIsMain
  <2>2. call \in MainSteps(d) /\ call.do = "close" /\ call.acct = c.cur /\ call.size = n
    <3>1. n \in Int /\ d.cur = c.cur
      BY <1>3, <1>4
    <3>2. PICK x, price : x = d.cur /\ price = d.price /\ call = CallClose(x, n, price)
      OBVIOUS
    <3>3. x \in Accounts /\ price \in {0} \cup Prices /\ x = c.cur
      BY <2>5, <3>1, <3>2
    <3> HIDE DEF call
    <3>4. LET k == CallClose(x, n, price) IN
          k \in MainSteps(d) /\ k.do = "close" /\ k.acct = x /\ k.size = n
      BY ONLY <2>6, <3>1, <3>3
    <3> QED
      BY ONLY <3>2, <3>3, <3>4
  <2> HIDE DEF call
  <2>3. Covers(d, call.size)
    BY <1>3, <1>4, <2>2 DEF Covers, SameCase, Specials
  <2>4. Sends(c, d, call)
    BY <1>4, <2>2, <2>3 DEF Sends, HasNone, Side, SideOp, SameCase, Specials
  <2> QED
    BY <1>0, <1>4, <2>1, <2>2, <2>4, SendOut DEF SameCase
<1> QED
  BY <1>6, <1>7

LEMMA Case9RepriceOut ==
  ASSUME TypesInv, NEW c \in GoodCase, c.type = "CASE_9", NEW ts \in Triggers, NEW q \in Quotes,
         NEW thin, NEW o \in Case9Reprice(c, ts, q, thin)
  PROVE  GoodOut(c, o)
<1> DEFINE p == closePrice(ts, q, thin)
<1>0. c.type \notin {"NONE", "CASE_4"} /\ c.type \notin Specials /\ c.cur \in Accounts
      /\ c.cur \in Accounts \cup {NoAcc} /\ SameCase(c, c) /\ SameData(c, c)
  BY ItselfSame DEF GoodCase, Specials, States
<1>1. p \in {0} \cup Prices /\ total[c.cur] \in Nat
  BY <1>0, PricesTyped DEF TypesInv
<1>2. CASE total[c.cur] = 0
  BY <1>0, <1>2, QuietOut DEF Case9Reprice
<1>3. CASE total[c.cur] # 0
  <2>1. \E n \in 0..total[c.cur] : \E steps :
          /\ o = Out(c, steps, ts)
          /\ steps = <<>> \/ steps = <<CallChange(c.cur, c.main, n, p, "main")>>
    BY <1>3 DEF Case9Reprice, Profitable
  <2>2. \A n \in 0..total[c.cur] : n \in Nat /\ n <= total[c.cur]
    BY <1>1
  <2> HIDE DEF p
  <2> QED
    BY <1>0, <1>1, <2>1, <2>2, ChangeOut
<1> QED
  BY <1>2, <1>3

LEMMA MinOfTwo ==
  ASSUME NEW a \in Int, NEW b \in Int
  PROVE  Min({a, b}) \in {a, b} /\ Min({a, b}) \in Int /\ Min({a, b}) <= a /\ Min({a, b}) <= b
BY DEF Min

Pieced(c, whole, size, price) ==
  [[c EXCEPT !.original = whole, !.size = size] EXCEPT !.price = price]

LEMMA PiecedFacts ==
  ASSUME NEW c \in GoodCase, c.type # "NONE", NEW whole \in Int, NEW size \in Int,
         NEW price \in {0} \cup Prices
  PROVE  LET d == Pieced(c, whole, size, price) IN
         /\ SameCase(c, d)
         /\ d.to_close = c.to_close /\ d.original = whole /\ d.size = size
         /\ d.state = c.state /\ d.price = price
BY DEF Pieced, SameCase, GoodCase, Case

LEMMA Case10InitOut ==
  ASSUME TypesInv, NEW c \in GoodCase, c.type = "CASE_10", HasNone(c), NEW ts \in Triggers,
         NEW o \in Case10Init(c, ts)
  PROVE  GoodOut(c, o)
<1> DEFINE s == IF total[c.cur] > total[c.opp] /\ ~(total[c.cur] > 0 /\ total[c.opp] = 0)
                THEN [c EXCEPT !.to_close = c.cur] ELSE c
           whole == total[s.to_close]
           n == Min({BaseQty, total[s.to_close]})
<1>0. c.type \notin {"NONE", "CASE_4"} /\ c.type \notin Specials /\ c.cur \in Accounts
      /\ c.to_close \in Accounts
  BY DEF Specials, GoodCase
<1>1. SameCase(c, s) /\ s.to_close \in Accounts /\ s.state = c.state
  BY <1>0 DEF SameCase, GoodCase, Case
<1>2. whole \in Nat
  BY <1>1 DEF TypesInv
<1>3. n \in Int /\ n <= whole
  <2>1. BaseQty \in Int /\ whole \in Int
    BY <1>2, CaseAssumption
  <2> HIDE DEF whole
  <2>2. Min({BaseQty, whole}) \in Int /\ Min({BaseQty, whole}) <= whole
    BY <2>1, MinOfTwo
  <2> QED
    BY <2>2 DEF whole
<1>4. \E p \in Prices : o = Out(Pieced(s, whole, n, p),
                                <<CallClose(Pieced(s, whole, n, 0).to_close,
                                            Pieced(s, whole, n, 0).size, p)>>, ts)
  <2>1. /\ Pieced(s, whole, n, 0).to_close = [s EXCEPT !.original = whole, !.size = n].to_close
        /\ Pieced(s, whole, n, 0).size = [s EXCEPT !.original = whole, !.size = n].size
    BY <1>1, <1>2, <1>3 DEF Pieced, SameCase, GoodCase, Case
  <2> QED
    BY <2>1 DEF Case10Init, Pieced
<1> HIDE DEF s, whole, n
<1>5. PICK p \in Prices : o = Out(Pieced(s, whole, n, p),
                                <<CallClose(Pieced(s, whole, n, 0).to_close,
                                            Pieced(s, whole, n, 0).size, p)>>, ts)
  BY <1>4
<1> DEFINE d == Pieced(s, whole, n, p)
           call == CallClose(s.to_close, n, p)
<1>6. s \in GoodCase /\ s.type # "NONE"
  BY <1>0, <1>1 DEF SameCase
<1>7. /\ SameCase(s, d) /\ d.to_close = s.to_close /\ d.original = whole /\ d.size = n
      /\ d.state = s.state
      /\ Pieced(s, whole, n, 0).to_close = s.to_close /\ Pieced(s, whole, n, 0).size = n
  <2>1. 0 \in {0} \cup Prices /\ p \in {0} \cup Prices /\ whole \in Int
    BY <1>2
  <2> QED
    BY <1>3, <1>6, <2>1, PiecedFacts
<1>8. o = Out(d, <<call>>, ts)
  BY <1>5, <1>7
<1> HIDE DEF d
<1>9. call \in MainSteps(d) /\ call.do = "close" /\ call.acct = s.to_close /\ call.size = n
  <2>1. n \in Int /\ s.to_close \in Accounts /\ p \in {0} \cup Prices
    BY <1>1, <1>3
  <2>2. LET x == CallClose(s.to_close, n, p) IN
        x \in MainSteps(d) /\ x.do = "close" /\ x.acct = s.to_close /\ x.size = n
    <3>1. ASSUME NEW a \in Accounts, NEW k \in Int, NEW price \in {0} \cup Prices
          PROVE  LET x == CallClose(a, k, price) IN
                 x \in MainSteps(d) /\ x.do = "close" /\ x.acct = a /\ x.size = k
      BY SendIsMain
    <3> QED
      BY <2>1, <3>1
  <2> QED
    BY <2>2
<1> HIDE DEF call
<1>10. SameCase(c, d) /\ d.state = c.state
  BY <1>1, <1>7 DEF SameCase
<1>11. Sends(c, d, call)
  <2>1. d.type = "CASE_10"
    BY <1>10 DEF SameCase
  <2>2. call.size <= total[d.to_close] /\ total[d.to_close] - call.size >= d.original - d.size
    BY <1>2, <1>3, <1>7, <1>9 DEF whole
  <2>3. Covers(d, call.size)
    BY <2>1, <2>2 DEF Covers, Specials
  <2> QED
    BY <2>1, <2>3, <1>7, <1>9 DEF Sends, Side, SideOp, Specials
<1> QED
  BY <1>0, <1>8, <1>9, <1>10, <1>11, SendOut DEF SameCase

LEMMA Case10RepriceOut ==
  ASSUME NEW c \in GoodCase, c.type = "CASE_10", NEW ts \in Triggers,
         NEW o \in Case10Reprice(c, ts)
  PROVE  GoodOut(c, o)
<1>0. c.type \notin {"NONE", "CASE_4"} /\ c.type \notin Specials
      /\ c.to_close \in Accounts \cup {NoAcc} /\ SameCase(c, c) /\ SameData(c, c)
  BY ItselfSame DEF GoodCase, Specials, States
<1>1. \E p \in Prices : \E steps :
        /\ o = Out(c, steps, ts)
        /\ steps = <<>> \/ steps = <<CallChange(c.to_close, c.main, 0, p, "main")>>
  BY DEF Case10Reprice
<1> QED
  BY <1>0, <1>1, ChangeOut

LEMMA WaitOut ==
  ASSUME TypesInv, NEW c \in GoodCase, c.type \notin {"NONE", "CASE_4"}, NEW ts \in Triggers,
         NEW o \in Wait(c, ts)
  PROVE  GoodOut(c, o)
<1>1. CASE c.type = "CASE_10"
  <2>1. c.type \notin Specials
    BY <1>1 DEF Specials
  <2>2. CASE total[c.cur] > 0 /\ total[c.opp] = 0
    <3>1. o = Out(Becomes(c, "DONE"), <<>>, ts)
      BY <1>1, <2>2 DEF Wait, Case10Wait
    <3> QED
      BY <2>1, <3>1, QuietOut
  <2>3. CASE ~(total[c.cur] > 0 /\ total[c.opp] = 0) /\ total[c.to_close] <= c.original - c.size
    <3>1. o \in Case10Init(c, ts) /\ HasNone(c)
      BY <1>1, <2>3 DEF Wait, Case10Wait, HasNone
    <3> QED
      BY <1>1, <3>1, Case10InitOut
  <2>4. CASE ~(total[c.cur] > 0 /\ total[c.opp] = 0) /\ ~(total[c.to_close] <= c.original - c.size)
    <3>1. o = Out(c, <<>>, ts)
      BY <1>1, <2>4 DEF Wait, Case10Wait
    <3> QED
      BY <3>1, QuietOut
  <2> QED
    BY <2>2, <2>3, <2>4
<1>2. CASE c.type # "CASE_10"
  <2>1. \/ o = Out(Becomes(c, "DONE"), <<>>, ts) /\ (c.type \in Specials => Equal)
        \/ o = Out(c, <<>>, ts)
    <3>1. c.type \in Specials => c.type \notin {"CASE_9", "CASE_4"}
      BY DEF Specials
    <3> QED
      BY <1>2, <3>1 DEF Wait, WaitIsOver
  <2> QED
    BY <2>1, QuietOut
<1> QED
  BY <1>1, <1>2

-----------------------------------------------------------------------------
(* Case 4.                                                                 *)

LEMMA OpenIsCase4 ==
  ASSUME NEW c, c.cur \in Accounts, NEW size \in Int, NEW price \in {0} \cup Prices,
         NEW to \in {"main", "requote", "none"}
  PROVE  CallOpen(c.cur, size, price, "send_close", to) \in Case4Steps(c)
<1>1. "send_close" \in Callbacks
  BY DEF Callbacks
<1>2. ASSUME NEW a \in Accounts
      PROVE  LET s == CallOpen(a, size, price, "send_close", to) IN
             s \in GoodStep /\ s.do = "open" /\ s.acct = a /\ s.done = "send_close"
  BY <1>1, OpenIsStep
<1> DEFINE s == CallOpen(c.cur, size, price, "send_close", to)
<1>3. s \in GoodStep /\ s.do = "open" /\ s.acct = c.cur /\ s.done = "send_close"
  BY <1>2
<1> QED
  BY <1>3 DEF Case4Steps

LEMMA ChangeIsCase4 ==
  ASSUME NEW c, c.cur \in Accounts, NEW id \in {0} \cup Slots, NEW price \in {0} \cup Prices,
         NEW to \in {"main", "requote", "none"}
  PROVE  CallChange(c.cur, id, 0, price, to) \in Case4Steps(c)
<1>1. 0 \in Nat
  OBVIOUS
<1>2. ASSUME NEW a \in Accounts \cup {NoAcc}
      PROVE  LET s == CallChange(a, id, 0, price, to) IN
             s \in GoodStep /\ s.do = "change" /\ s.acct = a /\ s.size = 0
  BY <1>1, ChangeIsStep
<1> DEFINE s == CallChange(c.cur, id, 0, price, to)
<1>3. s \in GoodStep /\ s.do = "change" /\ s.acct = c.cur /\ s.size = 0
  BY <1>2
<1> QED
  BY <1>3 DEF Case4Steps

LEMMA OnIsCase4 ==
  ASSUME NEW c, c.cur \in Accounts, NEW l \in {"drop", "cancel", "pending", "requote"}
  PROVE  On(c.cur, l) \in Case4Steps(c)
<1>1. ASSUME NEW a \in Accounts
      PROVE  On(a, l) \in GoodStep /\ On(a, l).do = l /\ On(a, l).acct = a
  BY OnIsStep
<1> DEFINE s == On(c.cur, l)
<1>2. s \in GoodStep /\ s.do = l /\ s.acct = c.cur
  BY <1>1
<1> QED
  BY <1>2 DEF Case4Steps

(* The list FlattenSeq is given to choose from ids.                        *)
LEMMA ChoiceTyped ==
  ASSUME NEW ids \in Seq(Slots), NEW s, s = [k \in DOMAIN ids |-> s[k]],
         \A k \in DOMAIN ids : s[k] = <<ids[k]>> \/ s[k] = <<>>
  PROVE  FlattenSeq(s) \in Seq(Slots)
<1>1. ASSUME NEW k \in 1..Len(ids)  PROVE s[k] \in Seq(Slots)
  <2>1. ids[k] \in Slots /\ (s[k] = <<ids[k]>> \/ s[k] = <<>>)
    OBVIOUS
  <2>2. \A x \in Slots : <<x>> \in Seq(Slots) /\ <<>> \in Seq(Slots)
    OBVIOUS
  <2> QED
    BY ONLY <2>1, <2>2
<1>2. s = [k \in 1..Len(ids) |-> s[k]] /\ Len(ids) \in Nat
  OBVIOUS
<1>3. s \in Seq(Seq(Slots))
  BY ONLY <1>1, <1>2, IsASeq
<1> QED
  BY <1>3, FlattenFacts

LEMMA ChosenTyped ==
  ASSUME NEW ids \in Seq(Slots), NEW S
  PROVE  Chosen(ids, S) \in Seq(Slots)
<1> DEFINE s == [k \in DOMAIN ids |-> IF ids[k] \in S THEN <<ids[k]>> ELSE <<>>]
<1>1. s = [k \in DOMAIN ids |-> s[k]] /\ \A k \in DOMAIN ids : s[k] = <<ids[k]>> \/ s[k] = <<>>
  OBVIOUS
<1>2. Chosen(ids, S) = FlattenSeq(s)
  BY DEF Chosen
<1> HIDE DEF s
<1> QED
  BY <1>1, <1>2, ChoiceTyped

LEMMA Case4InitOut ==
  ASSUME TypesInv, NEW c \in GoodCase, c.type = "CASE_4", NEW ts \in Triggers, NEW q \in Quotes,
         NEW thin, NEW o \in Case4Init(c, ts, q, thin)
  PROVE  GoodOut(c, o)
<1> DEFINE p == openPrice(ts, q, thin, 0)
           n == ShareRounds[1]
           d == Sized(c, n, p)
           steps == [k \in DOMAIN ShareRounds |->
                       CallOpen(d.cur, ShareRounds[k], d.price, "send_close",
                                IF k = 1 THEN "main" ELSE "none")]
<1>0. c.type # "NONE" /\ c.type \notin Specials /\ c.cur \in Accounts
  BY DEF Specials, GoodCase
<1>1. p \in {0} \cup Prices
  BY PricesTyped
<1>2. ShareRounds \in Seq(Int) /\ Len(ShareRounds) \in Nat /\ DOMAIN ShareRounds = 1..Len(ShareRounds)
      /\ n \in Int
  <2>1. Len(ShareRounds) # 0
    BY CaseAssumption
  <2> QED
    BY <2>1, CaseAssumption
<1>3. o = Out(d, steps, ts)
  BY DEF Case4Init, Sized
<1> HIDE DEF p
<1>4. SameCase(c, d) /\ d.cur = c.cur /\ d.state = c.state /\ d.price = p
  BY <1>0, <1>1, <1>2, SizedFacts
<1> HIDE DEF d
<1>5. steps \in Seq(Case4Steps(d))
  <2>1. ASSUME NEW k \in 1..Len(ShareRounds)
        PROVE  CallOpen(d.cur, ShareRounds[k], d.price, "send_close",
                        IF k = 1 THEN "main" ELSE "none") \in Case4Steps(d)
    <3>1. ShareRounds[k] \in Int /\ (IF k = 1 THEN "main" ELSE "none") \in {"main", "requote", "none"}
      BY <1>2
    <3>2. d.cur \in Accounts /\ d.price \in {0} \cup Prices
      BY <1>0, <1>1, <1>4
    <3>3. ASSUME NEW x \in Int, NEW y \in {0} \cup Prices, NEW z \in {"main", "requote", "none"}
          PROVE  CallOpen(d.cur, x, y, "send_close", z) \in Case4Steps(d)
      BY <3>2, OpenIsCase4
    <3> QED
      BY ONLY <3>1, <3>2, <3>3
  <2> QED
    BY <1>2, <2>1, IsASeq
<1> HIDE DEF steps
<1> QED
  BY <1>0, <1>3, <1>4, <1>5, OutFacts DEF GoodOut, Case4Out

LEMMA RequotesAreCase4 ==
  ASSUME TypesInv, NEW c, NEW a \in Accounts, c.cur = a, NEW q \in Quotes
  PROVE  RequoteOrders(a, q) \in Seq(Case4Steps(c))
<1>1. CASE tranch[a] = TranchValue \/ Residual(a) <= 0
  BY <1>1 DEF RequoteOrders
<1>2. CASE ~(tranch[a] = TranchValue \/ Residual(a) <= 0)
  <2> DEFINE r == Residual(a)
             m == (r + BaseQty - 1) \div BaseQty
  <2>1. r \in Int
    <3>1. tranch[a] \in Int /\ total[a] \in Int /\ RoundTotal \in Int
      BY PairAssumption DEF TypesInv
    <3>2. \A x, y, z \in Int : x * (y + 1) - z \in Int
      OBVIOUS
    <3> QED
      BY <3>1, <3>2 DEF Residual
  <2> HIDE DEF r
  <2>2. ~(r <= 0)
    BY <1>2 DEF r
  <2>3. BaseQty \in Nat /\ BaseQty # 0
    BY CaseAssumption
  <2>4. m \in Nat
    BY ONLY <2>1, <2>2, <2>3
  <2> HIDE DEF m
  <2> DEFINE piece(k) == Min({BaseQty, r - (k - 1) * BaseQty})
  <2>5. ASSUME NEW k \in 1..m  PROVE piece(k) \in Int
    <3>1. r - (k - 1) * BaseQty \in Int /\ BaseQty \in Int
      BY ONLY <2>1, <2>3, <2>4, k \in 1..m
    <3> QED
      BY ONLY <3>1, MinOfTwo
  <2> HIDE DEF piece
  <2>6. Pieces(r) = [k \in 1..m |-> piece(k)]
    BY DEF Pieces, m, piece
  <2>7. RequoteOrders(a, q) = [k \in 1..m |-> CallOpen(a, piece(k), q.bid, "send_close", "requote")]
    BY <1>2, <2>6 DEF RequoteOrders, r
  <2>8. ASSUME NEW k \in 1..m
        PROVE  CallOpen(a, piece(k), q.bid, "send_close", "requote") \in Case4Steps(c)
    <3>1. piece(k) \in Int
      BY <2>5
    <3>2. q.bid \in {0} \cup Prices /\ "requote" \in {"main", "requote", "none"}
      BY DEF Prices
    <3>3. ASSUME NEW x \in Int, NEW y \in {0} \cup Prices, NEW z \in {"main", "requote", "none"}
          PROVE  CallOpen(c.cur, x, y, "send_close", z) \in Case4Steps(c)
      BY OpenIsCase4
    <3> QED
      BY <3>1, <3>2, <3>3
  <2> QED
    BY <2>4, <2>7, <2>8, IsASeq
<1> QED
  BY <1>1, <1>2

Listed(c, ids) == [c EXCEPT !.requotes = ids]

LEMMA ListedFacts ==
  ASSUME NEW c \in GoodCase, c.type # "NONE", NEW ids \in Seq(Slots)
  PROVE  LET d == Listed(c, ids) IN
         /\ SameCase(c, d) /\ d.cur = c.cur /\ d.state = c.state /\ d.requotes = ids
BY DEF Listed, SameCase, GoodCase, Case

LEMMA UpdateRequotesOut ==
  ASSUME NEW c \in GoodCase, c.type = "CASE_4", NEW q \in Quotes, NEW r \in UpdateRequotes(c, q)
  PROVE  /\ SameCase(c, r.c) /\ r.c.cur = c.cur /\ r.c.state = c.state
         /\ r.steps \in Seq(Case4Steps(c))
<1> DEFINE kept == Chosen(c.requotes, {i \in Live : orders[i].left > 0})
           changes == [k \in DOMAIN kept |-> CallChange(c.cur, kept[k], 0, q.bid, "requote")]
           anew == CancelAll(c.cur) \o <<On(c.cur, "requote")>>
<1>0. c.type # "NONE" /\ c.cur \in Accounts /\ c.requotes \in Seq(Slots)
  BY DEF Specials, GoodCase, Case
<1>1. kept \in Seq(Slots)
  BY <1>0, ChosenTyped
<1>2. r.c = Listed(c, kept) /\ (r.steps = anew \/ r.steps = <<>> \/ r.steps = changes)
  <2>1. UpdateRequotes(c, q) =
          {[c |-> Listed(c, kept), steps |-> s] :
             s \in IF kept = <<>> THEN {anew} ELSE {<<>>, changes}}
    BY DEF UpdateRequotes, Listed
  <2> HIDE DEF kept, anew, changes
  <2> QED
    BY <2>1
<1> HIDE DEF kept
<1>3. SameCase(c, r.c) /\ r.c.cur = c.cur /\ r.c.state = c.state
  BY <1>0, <1>1, <1>2, ListedFacts
<1>4. anew \in Seq(Case4Steps(c))
  <2>1. /\ On(c.cur, "drop") \in Case4Steps(c) /\ On(c.cur, "cancel") \in Case4Steps(c)
        /\ On(c.cur, "requote") \in Case4Steps(c)
    BY <1>0, OnIsCase4
  <2> QED
    BY <2>1 DEF CancelAll
<1>5. changes \in Seq(Case4Steps(c))
  <2>1. DOMAIN kept = 1..Len(kept) /\ Len(kept) \in Nat /\ q.bid \in {0} \cup Prices
    BY <1>1 DEF Prices
  <2>2. ASSUME NEW k \in 1..Len(kept)
        PROVE  CallChange(c.cur, kept[k], 0, q.bid, "requote") \in Case4Steps(c)
    <3>1. kept[k] \in {0} \cup Slots /\ "requote" \in {"main", "requote", "none"}
      BY <1>1
    <3>2. ASSUME NEW id \in {0} \cup Slots, NEW y \in {0} \cup Prices,
                 NEW z \in {"main", "requote", "none"}
          PROVE  CallChange(c.cur, id, 0, y, z) \in Case4Steps(c)
      BY <1>0, ChangeIsCase4
    <3> QED
      BY <2>1, <3>1, <3>2
  <2> QED
    BY <2>1, <2>2, IsASeq
<1> HIDE DEF anew, changes
<1>6. <<>> \in Seq(Case4Steps(c))
  OBVIOUS
<1> QED
  BY <1>2, <1>3, <1>4, <1>5, <1>6

LEMMA Case4RepriceOut ==
  ASSUME NEW c \in GoodCase, c.type = "CASE_4", NEW ts \in Triggers, NEW q \in Quotes,
         NEW thin, NEW o \in Case4Reprice(c, ts, q, thin)
  PROVE  GoodOut(c, o)
<1> DEFINE p == openPrice(ts, q, thin, 0)
           first == IF c.main = 0 \/ p = c.price THEN <<>>
                    ELSE <<CallChange(c.cur, c.main, 0, p, "main")>>
<1>0. c.type # "NONE" /\ c.cur \in Accounts /\ c.main \in {0} \cup Slots
  BY DEF Specials, GoodCase, Case
<1>1. p \in {0} \cup Prices
  BY PricesTyped
<1>2. PICK r : /\ o = Out(r.c, r.steps \o <<On(c.cur, "pending")>> \o first, ts)
               /\ r \in UpdateRequotes(c, q) \/ r = [c |-> c, steps |-> <<>>]
  BY DEF Case4Reprice
<1>3. SameCase(c, r.c) /\ r.c.cur = c.cur /\ r.c.state = c.state /\ r.steps \in Seq(Case4Steps(c))
  <2>1. CASE r \in UpdateRequotes(c, q)
    BY <2>1, UpdateRequotesOut
  <2>2. CASE r = [c |-> c, steps |-> <<>>]
    BY <1>0, <2>2 DEF SameCase
  <2> QED
    BY <1>2, <2>1, <2>2
<1>4. first \in Seq(Case4Steps(c))
  <2>1. "main" \in {"main", "requote", "none"}
    OBVIOUS
  <2>2. ASSUME NEW id \in {0} \cup Slots
        PROVE  CallChange(c.cur, id, 0, p, "main") \in Case4Steps(c)
    BY <1>0, <1>1, <2>1, ChangeIsCase4
  <2>3. CallChange(c.cur, c.main, 0, p, "main") \in Case4Steps(c)
    BY <1>0, <2>2
  <2> QED
    BY <2>3
<1>5. <<On(c.cur, "pending")>> \in Seq(Case4Steps(c))
  BY <1>0, OnIsCase4
<1> HIDE DEF first
<1>6. r.steps \o <<On(c.cur, "pending")>> \o first \in Seq(Case4Steps(c))
  BY <1>3, <1>4, <1>5
<1>7. Case4Steps(r.c) = Case4Steps(c)
  BY <1>3 DEF Case4Steps
<1>8. Case4Out(c, r.c, r.steps \o <<On(c.cur, "pending")>> \o first)
  BY <1>3, <1>6, <1>7 DEF Case4Out
<1> QED
  BY <1>2, <1>3, <1>8, OutFacts DEF GoodOut

LEMMA Case4QuietOut ==
  ASSUME NEW c \in GoodCase, c.type = "CASE_4", NEW ts \in Triggers, NEW state \in States,
         c.state \notin {"INIT", "PRICE_CHANGE"}, state # "INIT"
  PROVE  GoodOut(c, Out(Becomes(c, state), <<>>, ts)) /\ GoodOut(c, Out(c, <<>>, ts))
<1>1. SameCase(c, c) /\ SameCase(c, Becomes(c, state)) /\ Becomes(c, state).cur = c.cur
      /\ Becomes(c, state).state = state
  BY BecomesFacts, ItselfSame
<1>2. <<>> \in Seq(Case4Steps(c)) /\ <<>> \in Seq(Case4Steps(Becomes(c, state)))
  OBVIOUS
<1>3. Case4Out(c, c, <<>>) /\ Case4Out(c, Becomes(c, state), <<>>)
  BY <1>1, <1>2 DEF Case4Out
<1> QED
  BY <1>1, <1>3, OutFacts DEF GoodOut

LEMMA RunOut ==
  ASSUME TypesInv, NEW c \in GoodCase, c.type # "NONE", NEW ts \in Triggers, NEW q \in Quotes,
         NEW thin, NEW o \in Run(c, ts, q, thin)
  PROVE  GoodOut(c, o)
<1>1. c.type \in {"PANIC_CLOSE", "SOFT_CLOSE", "CASE_4", "CASE_9", "CASE_10", "HEDGECURRENT"}
      /\ c.state \in States
  BY DEF GoodCase, Case, Types, Specials
<1>2. CASE c.state = "INIT"
  <2>1. o \in FirstRun(c, ts, q, thin)
    BY <1>2 DEF Run
  <2>2. CASE c.type = "CASE_10"
    BY <1>2, <2>1, <2>2, Case10InitOut DEF FirstRun, HasNone
  <2> QED
    BY <1>1, <1>2, <2>1, <2>2, PanicInitOut, SoftInitOut, HedgeInitOut, Case9InitOut, Case4InitOut
       DEF FirstRun
<1>3. CASE c.state = "PRICE_CHANGE"
  <2>1. o \in Reprice(c, ts, q, thin)
    BY <1>3 DEF Run
  <2> QED
    BY <1>1, <2>1, PanicRepriceOut, SoftRepriceOut, HedgeRepriceOut, Case9RepriceOut,
       Case10RepriceOut, Case4RepriceOut DEF Reprice
<1>4. CASE c.state = "WAIT"
  <2>1. o \in Wait(c, ts)
    BY <1>4 DEF Run
  <2>2. CASE c.type = "CASE_4"
    <3>1. o = Out(Becomes(c, "DONE"), <<>>, ts) \/ o = Out(c, <<>>, ts)
      BY <2>1, <2>2 DEF Wait
    <3> QED
      BY <1>4, <2>2, <3>1, Case4QuietOut DEF States
  <2> QED
    BY <1>1, <2>1, <2>2, WaitOut
<1>5. CASE c.state \in {"DONE", "FAILED"}
  <2>1. o = Out(c, <<>>, ts)
    BY <1>5 DEF Run
  <2> QED
    BY <1>1, <1>5, <2>1, QuietOut, Case4QuietOut
<1> QED
  BY <1>1, <1>2, <1>3, <1>4, <1>5 DEF States

-----------------------------------------------------------------------------
(* The list of the trading thread.  It begins with what is left of the     *)
(* destructor of a replaced case, the last n steps of it, and goes on with *)
(* a part of the round, or with what a run has left and the end of it.     *)

RiteStep(n) == CASE n = 5 -> On("long", "drop")
                 [] n = 4 -> On("long", "cancel")
                 [] n = 3 -> On("short", "drop")
                 [] n = 2 -> On("short", "cancel")
                 [] n = 1 -> Do("bury")

Rites(n, t) == [k \in 1..(n + Len(t)) |-> IF k <= n THEN RiteStep(n + 1 - k) ELSE t[k - n]]

LEMMA RiteIsStep ==
  ASSUME NEW n \in 1..5
  PROVE  /\ RiteStep(n) \in GoodStep
         /\ RiteStep(n).do = IF n = 1 THEN "bury" ELSE IF n \in {2, 4} THEN "cancel" ELSE "drop"
         /\ n # 1 => RiteStep(n).acct = IF n \in {4, 5} THEN "long" ELSE "short"
<1>1. "long" \in Accounts /\ "short" \in Accounts /\ "bury" \in Labels
      /\ "bury" \notin {"drop", "pending", "requote"}
      /\ "drop" \in {"drop", "cancel", "pending", "requote"}
      /\ "cancel" \in {"drop", "cancel", "pending", "requote"}
  BY DEF Accounts, Labels
<1>2. \A a \in Accounts : \A l \in {"drop", "cancel", "pending", "requote"} :
        On(a, l) \in GoodStep /\ On(a, l).do = l /\ On(a, l).acct = a
  BY OnIsStep
<1>3. Do("bury") \in GoodStep /\ Do("bury").do = "bury"
  BY <1>1, DoIsStep
<1>4. CASE n = 5
  BY <1>1, <1>2, <1>4 DEF RiteStep
<1>5. CASE n = 4
  BY <1>1, <1>2, <1>5 DEF RiteStep
<1>6. CASE n = 3
  BY <1>1, <1>2, <1>6 DEF RiteStep
<1>7. CASE n = 2
  BY <1>1, <1>2, <1>7 DEF RiteStep
<1>8. CASE n = 1
  BY <1>3, <1>8 DEF RiteStep
<1> QED
  BY <1>4, <1>5, <1>6, <1>7, <1>8

LEMMA RitesTyped ==
  ASSUME NEW n \in 0..5, NEW t \in Seq(GoodStep)
  PROVE  /\ Rites(n, t) \in Seq(GoodStep)
         /\ Len(Rites(n, t)) = n + Len(t)
<1>1. Len(t) \in Nat /\ \A j \in 1..Len(t) : t[j] \in GoodStep
  BY LenProperties, ElementOfSeq
<1>2. ASSUME NEW k \in 1..(n + Len(t))
      PROVE  (IF k <= n THEN RiteStep(n + 1 - k) ELSE t[k - n]) \in GoodStep
  <2>1. CASE k <= n
    <3>1. n + 1 - k \in 1..5
      BY <1>1, <2>1
    <3> QED
      BY <2>1, <3>1, RiteIsStep
  <2>2. CASE ~(k <= n)
    <3>1. k - n \in 1..Len(t)
      BY <1>1, <2>2
    <3> QED
      BY <1>1, <2>2, <3>1
  <2> QED
    BY <2>1, <2>2
<1>3. n + Len(t) \in Nat
  BY <1>1
<1> DEFINE e(k) == IF k <= n THEN RiteStep(n + 1 - k) ELSE t[k - n]
<1>4. \A k \in 1..(n + Len(t)) : e(k) \in GoodStep
  BY <1>2
<1>5. Rites(n, t) = [k \in 1..(n + Len(t)) |-> e(k)]
  BY DEF Rites
<1> HIDE DEF e
<1> QED
  BY ONLY <1>3, <1>4, <1>5, IsASeq

LEMMA NoRites == ASSUME NEW t \in Seq(GoodStep)  PROVE Rites(0, t) = t
<1>1. Rites(0, t) \in Seq(GoodStep) /\ Len(Rites(0, t)) = 0 + Len(t) /\ Len(t) \in Nat
  BY RitesTyped, LenProperties
<1>2. \A k \in 1..Len(Rites(0, t)) : Rites(0, t)[k] = t[k]
  BY <1>1 DEF Rites
<1> QED
  BY <1>1, <1>2, SeqEqual

LEMMA NextRite ==
  ASSUME NEW n \in 1..5, NEW t \in Seq(GoodStep)
  PROVE  /\ Rites(n, t) # <<>>
         /\ Head(Rites(n, t)) = RiteStep(n)
         /\ Tail(Rites(n, t)) = Rites(n - 1, t)
<1> DEFINE s == Rites(n, t)
<1>1. /\ n \in 0..5 /\ n - 1 \in 0..5 /\ Len(t) \in Nat
      /\ s \in Seq(GoodStep) /\ Len(s) = n + Len(t)
      /\ Rites(n - 1, t) \in Seq(GoodStep) /\ Len(Rites(n - 1, t)) = (n - 1) + Len(t)
  <2>1. n \in 0..5 /\ n - 1 \in 0..5
    OBVIOUS
  <2>2. \A m \in 0..5 : Rites(m, t) \in Seq(GoodStep) /\ Len(Rites(m, t)) = m + Len(t)
    BY RitesTyped
  <2> QED
    BY <2>1, <2>2, LenProperties
<1>2. s # <<>>
  <2>1. Len(s) # 0
    BY <1>1
  <2>2. s = <<>> => Len(s) = 0
    OBVIOUS
  <2> QED
    BY <2>1, <2>2
<1>3. s[1] = RiteStep(n)
  BY <1>1 DEF Rites
<1>4. /\ Tail(s) \in Seq(GoodStep) /\ Len(Tail(s)) = Len(s) - 1
      /\ \A i \in 1..Len(Tail(s)) : Tail(s)[i] = s[i + 1]
  BY <1>1, <1>2, HeadTailProperties
<1>5. ASSUME NEW i \in 1..Len(Tail(s))  PROVE Tail(s)[i] = Rites(n - 1, t)[i]
  <2>1. i \in 1..((n - 1) + Len(t)) /\ i + 1 \in 1..(n + Len(t))
    BY <1>1, <1>4
  <2>2. s[i + 1] = IF i + 1 <= n THEN RiteStep(n + 1 - (i + 1)) ELSE t[i + 1 - n]
    BY <2>1 DEF Rites
  <2>3. Rites(n - 1, t)[i] = IF i <= n - 1 THEN RiteStep((n - 1) + 1 - i) ELSE t[i - (n - 1)]
    BY <2>1 DEF Rites
  <2>4. n + 1 - (i + 1) = (n - 1) + 1 - i /\ i + 1 - n = i - (n - 1) /\ (i + 1 <= n <=> i <= n - 1)
    BY <2>1
  <2> QED
    BY <1>4, <2>2, <2>3, <2>4
<1>6. Tail(s) = Rites(n - 1, t)
  BY <1>1, <1>4, <1>5, SeqEqual
<1>7. Head(s) = s[1]
  BY <1>2
<1> QED
  BY <1>2, <1>3, <1>6, <1>7

DestroySteps == IF tcase = NoCase THEN 0 ELSE IF CancelOnTrigger THEN 5 ELSE 1

(* A list that is the first of the rites and then t.                       *)
LEMMA RitesAre ==
  ASSUME NEW n \in 0..5, NEW d \in Seq(GoodStep), NEW t \in Seq(GoodStep), Len(d) = n,
         \A k \in 1..n : d[k] = RiteStep(n + 1 - k)
  PROVE  d \o t = Rites(n, t)
<1>1. /\ d \o t \in Seq(GoodStep) /\ Len(d \o t) = n + Len(t) /\ Len(t) \in Nat
      /\ \A k \in 1..(n + Len(t)) : (d \o t)[k] = IF k <= n THEN d[k] ELSE t[k - n]
  BY ConcatProperties, LenProperties
<1>2. Rites(n, t) \in Seq(GoodStep) /\ Len(Rites(n, t)) = n + Len(t)
  BY RitesTyped
<1>3. ASSUME NEW k \in 1..(n + Len(t))  PROVE (d \o t)[k] = Rites(n, t)[k]
  BY <1>1, <1>3 DEF Rites
<1> QED
  BY <1>1, <1>2, <1>3, SeqEqual

LEMMA DestroyIsRites ==
  ASSUME NEW t \in Seq(GoodStep)
  PROVE  /\ Destroy \o t = Rites(DestroySteps, t)
         /\ DestroySteps \in 0..5
<1>0. DestroySteps \in 0..5
  BY DEF DestroySteps
<1>1. \A k \in 1..5 : RiteStep(k) \in GoodStep
  BY RiteIsStep
<1>2. /\ RiteStep(5) = On("long", "drop") /\ RiteStep(4) = On("long", "cancel")
      /\ RiteStep(3) = On("short", "drop") /\ RiteStep(2) = On("short", "cancel")
      /\ RiteStep(1) = Do("bury")
  BY DEF RiteStep
<1>3. CASE tcase = NoCase
  <2>1. Destroy = <<>> /\ DestroySteps = 0
    BY <1>3 DEF Destroy, DestroySteps
  <2> QED
    BY <2>1, NoRites
<1>4. CASE tcase # NoCase /\ ~CancelOnTrigger
  <2>1. DestroySteps = 1
    BY <1>4 DEF DestroySteps
  <2>2. ASSUME NEW s \in GoodStep
        PROVE  <<>> \o <<s>> \in Seq(GoodStep) /\ Len(<<>> \o <<s>>) = 1 /\ (<<>> \o <<s>>)[1] = s
    OBVIOUS
  <2>3. Destroy = <<>> \o <<RiteStep(1)>>
    BY <1>2, <1>4 DEF Destroy
  <2>4. RiteStep(1) \in GoodStep
    BY <1>1
  <2>5. Destroy \in Seq(GoodStep) /\ Len(Destroy) = 1 /\ Destroy[1] = RiteStep(1)
    BY <2>2, <2>3, <2>4
  <2>6. \A k \in 1..1 : Destroy[k] = RiteStep(1 + 1 - k)
    BY <2>5
  <2>7. 1 \in 0..5
    OBVIOUS
  <2> QED
    BY <2>1, <2>5, <2>6, <2>7, RitesAre
<1>5. CASE tcase # NoCase /\ CancelOnTrigger
  <2>1. DestroySteps = 5
    BY <1>5 DEF DestroySteps
  <2>2. ASSUME NEW a \in GoodStep, NEW b \in GoodStep, NEW c \in GoodStep, NEW d \in GoodStep,
               NEW e \in GoodStep, NEW l, l = (<<a, b>> \o <<c, d>>) \o <<e>>
        PROVE  /\ l \in Seq(GoodStep) /\ Len(l) = 5
               /\ l[1] = a /\ l[2] = b /\ l[3] = c /\ l[4] = d /\ l[5] = e
    <3>1. \A x, y \in GoodStep : <<x, y>> \in Seq(GoodStep) /\ Len(<<x, y>>) = 2
                                 /\ <<x, y>>[1] = x /\ <<x, y>>[2] = y
      OBVIOUS
    <3>2. <<e>> \in Seq(GoodStep) /\ Len(<<e>>) = 1 /\ <<e>>[1] = e
      OBVIOUS
    <3>3. PICK f : f = <<a, b>> \o <<c, d>>
      OBVIOUS
    <3>4. /\ f \in Seq(GoodStep) /\ Len(f) = 4
          /\ f[1] = a /\ f[2] = b /\ f[3] = c /\ f[4] = d
      <4>1. /\ f \in Seq(GoodStep) /\ Len(f) = 2 + 2
            /\ \A i \in 1..(2 + 2) : f[i] = IF i <= 2 THEN <<a, b>>[i] ELSE <<c, d>>[i - 2]
        BY <3>1, <3>3, ConcatProperties
      <4> QED
        BY <3>1, <4>1
    <3>5. /\ l \in Seq(GoodStep) /\ Len(l) = 4 + 1
          /\ \A i \in 1..(4 + 1) : l[i] = IF i <= 4 THEN f[i] ELSE <<e>>[i - 4]
      BY <2>2, <3>2, <3>3, <3>4, ConcatProperties
    <3> QED
      BY <3>2, <3>4, <3>5
  <2>3. Destroy = (<<RiteStep(5), RiteStep(4)>> \o <<RiteStep(3), RiteStep(2)>>) \o <<RiteStep(1)>>
    BY <1>2, <1>5 DEF Destroy, DestroyCancels, CancelAll
  <2>4. /\ Destroy \in Seq(GoodStep) /\ Len(Destroy) = 5
        /\ Destroy[1] = RiteStep(5) /\ Destroy[2] = RiteStep(4) /\ Destroy[3] = RiteStep(3)
        /\ Destroy[4] = RiteStep(2) /\ Destroy[5] = RiteStep(1)
    BY <1>1, <2>2, <2>3
  <2>5. ASSUME NEW k \in 1..5  PROVE Destroy[k] = RiteStep(5 + 1 - k)
    <3>1. k = 1 \/ k = 2 \/ k = 3 \/ k = 4 \/ k = 5
      OBVIOUS
    <3> QED
      BY <2>4, <3>1
  <2>6. 5 \in 0..5
    OBVIOUS
  <2> QED
    BY <2>1, <2>4, <2>5, <2>6, RitesAre
<1> QED
  BY <1>0, <1>3, <1>4, <1>5

(* What follows: a part of a round, or what a run has left.  A stage of a  *)
(* round is the step a part begins with; After is what comes behind it.    *)
Stages == {"panic", "arm panic", "special", "panic init", "disarm panic", "panic case",
           "soft special", "soft init", "disarm soft", "soft case", "select", "trigger", "run"}

FromRun     == <<Do("run")>> \o <<Do("finish")>>
FromSpecial == <<Do("special")>> \o FromRun

After(l) == CASE l = "panic"        -> <<Do("arm panic")>> \o FromSpecial
              [] l = "arm panic"    -> FromSpecial
              [] l = "disarm panic" -> <<Do("panic case")>> \o FromRun
              [] l = "disarm soft"  -> <<Do("soft case")>> \o FromRun
              [] l = "select"       -> <<Do("trigger")>> \o FromRun
              [] l = "run"          -> <<Do("finish")>>
              [] OTHER              -> FromRun

From(l) == <<Do(l)>> \o After(l)
Rounds  == {<<>>} \cup {From(l) : l \in Stages}

Running(c) == {p \o <<Do("finish")>> : p \in Lists(c)}

(* n steps of the destructor of d are left before t; while any is, the new *)
(* case c has not run.                                                     *)
Scripted(l, n, t, c, d) ==
  /\ l = Rites(n, t)
  /\ IF n = 0 THEN d = NoCase /\ t \in Rounds \cup Running(c)
     ELSE d.type # "NONE" /\ t \in Rounds /\ c.state = "INIT" /\ c.main = 0

ScriptInv ==
  \E n \in 0..5, t \in Seq(GoodStep) : Scripted(todo["trader"], n, t, tcase, dying)

(* The case whose orders are at the market: the one that is being          *)
(* destroyed, as long as it is.  Only case 4 hands callbacks over.         *)
Owner == IF dying = NoCase THEN tcase ELSE dying

Unowned ==
  /\ \A i \in Live : orders[i].done \in {"none", "dangling"}
  /\ \A a \in Accounts : \A k \in 1..Len(pending[a]) : pending[a][k].done \in {"none", "dangling"}

OwnedInv == Owner.type # "CASE_4" => Unowned

InstanceInv == TypesInv /\ ScriptInv /\ OwnedInv

LEMMA LabelSteps ==
  /\ \A l \in Stages \cup {"finish", "bury", "crash", "no panic", "soft", "arm soft", "no soft",
                          "enable", "disable"} :
        Do(l) \in GoodStep /\ Do(l).do = l
  /\ \A a \in Accounts : On(a, "drop") \in GoodStep /\ On(a, "cancel") \in GoodStep
<1>1. ASSUME NEW l \in Stages \cup {"finish", "bury", "crash", "no panic", "soft", "arm soft",
                                  "no soft", "enable", "disable"}
      PROVE  Do(l) \in GoodStep /\ Do(l).do = l
  <2>1. l \in Labels
    BY DEF Labels, Stages
  <2>2. l \notin {"drop", "pending", "requote"}
    BY DEF Stages
  <2> QED
    BY <2>1, <2>2, DoIsStep
<1>2. ASSUME NEW a \in Accounts  PROVE On(a, "drop") \in GoodStep /\ On(a, "cancel") \in GoodStep
  <2>1. "drop" \in {"drop", "cancel", "pending", "requote"}
        /\ "cancel" \in {"drop", "cancel", "pending", "requote"}
    OBVIOUS
  <2> QED
    BY <2>1, OnIsStep
<1> QED
  BY <1>1, <1>2

(* One step in front of a list.                                            *)
LEMMA InFront ==
  ASSUME NEW S, NEW e \in S, NEW t \in Seq(S)
  PROVE  /\ <<e>> \o t \in Seq(S) /\ <<e>> \o t # <<>>
         /\ Head(<<e>> \o t) = e /\ Tail(<<e>> \o t) = t
<1> DEFINE s == <<e>> \o t
<1>1. <<e>> \in Seq(S) /\ Len(<<e>>) = 1 /\ <<e>>[1] = e
  OBVIOUS
<1>2. /\ s \in Seq(S) /\ Len(s) = 1 + Len(t) /\ Len(t) \in Nat
      /\ \A i \in 1..(1 + Len(t)) : s[i] = IF i <= 1 THEN <<e>>[i] ELSE t[i - 1]
  BY <1>1, ConcatProperties, LenProperties
<1>3. s # <<>>
  BY <1>2, EmptySeq
<1>4. /\ Tail(s) \in Seq(S) /\ Len(Tail(s)) = Len(t) /\ \A i \in 1..Len(t) : Tail(s)[i] = s[i + 1]
  <2>1. /\ Tail(s) \in Seq(S) /\ Len(Tail(s)) = Len(s) - 1
        /\ \A i \in 1..Len(Tail(s)) : Tail(s)[i] = s[i + 1]
    BY <1>2, <1>3, HeadTailProperties
  <2> QED
    BY <1>2, <2>1
<1>5. Head(s) = e
  <2>1. Head(s) = s[1]
    BY <1>3
  <2> QED
    BY <1>1, <1>2, <2>1
<1> HIDE DEF s
<1>6. \A i \in 1..Len(t) : Tail(s)[i] = t[i]
  <2> TAKE i \in 1..Len(t)
  <2>1. i + 1 \in 1..(1 + Len(t)) /\ ~(i + 1 <= 1) /\ (i + 1) - 1 = i
    BY <1>2
  <2> QED
    BY <1>2, <1>4, <2>1
<1>7. Tail(s) = t
  BY <1>4, <1>6, SeqEqual
<1> QED
  BY <1>2, <1>3, <1>5, <1>7 DEF s

(* The parts of a round, step by step.                                     *)
LEMMA RoundFacts ==
  /\ Rounds \subseteq Seq(GoodStep)
  /\ \A l \in Stages :
       /\ From(l) \in Rounds /\ From(l) # <<>> /\ Head(From(l)) = Do(l) /\ Tail(From(l)) = After(l)
       /\ After(l) \in Seq(GoodStep) /\ (l # "run" => After(l) \in Rounds)
  /\ \A t \in Rounds : t # <<>> => \E l \in Stages : Head(t) = Do(l) /\ Tail(t) = After(l)
<1>1. /\ \A l \in Stages : Do(l) \in GoodStep
      /\ Do("finish") \in GoodStep
  BY LabelSteps
<1>2. \A l \in Stages, t \in Seq(GoodStep) :
        /\ <<Do(l)>> \o t \in Seq(GoodStep) /\ <<Do(l)>> \o t # <<>>
        /\ Head(<<Do(l)>> \o t) = Do(l) /\ Tail(<<Do(l)>> \o t) = t
  BY <1>1, InFront
<1>3. <<>> \in Seq(GoodStep) /\ <<Do("finish")>> \in Seq(GoodStep)
  BY <1>1
<1>4. FromRun \in Seq(GoodStep)
  BY <1>2, <1>3 DEF FromRun, Stages
<1>5. FromSpecial \in Seq(GoodStep)
  BY <1>2, <1>4 DEF FromSpecial, Stages
<1>6. \A l \in Stages : After(l) \in Seq(GoodStep)
  <2>1. \A l \in {"arm panic", "panic case", "soft case", "trigger"} : l \in Stages
    BY DEF Stages
  <2>2. \A l \in {"arm panic", "panic case", "soft case", "trigger"} :
          <<Do(l)>> \o FromRun \in Seq(GoodStep) /\ <<Do(l)>> \o FromSpecial \in Seq(GoodStep)
    BY <1>2, <1>4, <1>5, <2>1
  <2> QED
    BY <1>3, <1>4, <1>5, <2>2 DEF After
<1>7. \A l \in Stages : /\ From(l) \in Seq(GoodStep) /\ From(l) # <<>>
                        /\ Head(From(l)) = Do(l) /\ Tail(From(l)) = After(l)
  BY <1>2, <1>6 DEF From
<1>8. \A l \in Stages : From(l) \in Rounds
  BY DEF Rounds
<1>9. ASSUME NEW l \in Stages, l # "run"  PROVE After(l) \in Rounds
  <2>1. /\ From("run") = FromRun /\ From("special") = FromSpecial
        /\ From("arm panic") = <<Do("arm panic")>> \o FromSpecial
        /\ From("panic case") = <<Do("panic case")>> \o FromRun
        /\ From("soft case") = <<Do("soft case")>> \o FromRun
        /\ From("trigger") = <<Do("trigger")>> \o FromRun
    BY DEF From, After, FromRun, FromSpecial
  <2>2. \E k \in {"run", "special", "arm panic", "panic case", "soft case", "trigger"} :
          After(l) = From(k)
    BY <1>9, <2>1 DEF After
  <2>3. {"run", "special", "arm panic", "panic case", "soft case", "trigger"} \subseteq Stages
    BY DEF Stages
  <2> QED
    BY <1>8, <2>2, <2>3
<1>10. ASSUME NEW t \in Rounds, t # <<>>
       PROVE  \E l \in Stages : Head(t) = Do(l) /\ Tail(t) = After(l)
  BY <1>7, <1>10 DEF Rounds
<1> QED
  BY <1>3, <1>6, <1>7, <1>8, <1>9, <1>10 DEF Rounds

LEMMA BeforeLast ==
  ASSUME NEW S, NEW p \in Seq(S), NEW e \in S
  PROVE  /\ p \o <<e>> \in Seq(S) /\ p \o <<e>> # <<>>
         /\ p = <<>> => Head(p \o <<e>>) = e /\ Tail(p \o <<e>>) = <<>>
         /\ p # <<>> => /\ Head(p \o <<e>>) = Head(p)
                        /\ Tail(p \o <<e>>) = Tail(p) \o <<e>>
                        /\ Tail(p) \in Seq(S)
<1> DEFINE s == p \o <<e>>
<1>0. <<e>> \in Seq(S) /\ Len(<<e>>) = 1 /\ <<e>>[1] = e
  OBVIOUS
<1>1. /\ s \in Seq(S) /\ Len(s) = Len(p) + 1 /\ Len(p) \in Nat
      /\ \A i \in 1..(Len(p) + 1) : s[i] = IF i <= Len(p) THEN p[i] ELSE <<e>>[i - Len(p)]
  BY <1>0, ConcatProperties, LenProperties
<1>2. s # <<>>
  <2>1. Len(s) # 0
    BY <1>1
  <2>2. s = <<>> => Len(s) = 0
    OBVIOUS
  <2> QED
    BY <2>1, <2>2
<1>3. /\ Tail(s) \in Seq(S) /\ Len(Tail(s)) = Len(p) /\ \A i \in 1..Len(p) : Tail(s)[i] = s[i + 1]
  <2>1. /\ Tail(s) \in Seq(S) /\ Len(Tail(s)) = Len(s) - 1
        /\ \A i \in 1..Len(Tail(s)) : Tail(s)[i] = s[i + 1]
    BY <1>1, <1>2, HeadTailProperties
  <2> QED
    BY <1>1, <2>1
<1>4. Head(s) = s[1]
  BY <1>2
<1>5. ASSUME p = <<>>  PROVE Head(s) = e /\ Tail(s) = <<>>
  <2>1. Len(p) = 0
    BY <1>5
  <2>2. s[1] = e
    BY <1>0, <1>1, <2>1
  <2>3. Tail(s) = <<>>
    BY <1>3, <2>1, EmptySeq
  <2> QED
    BY <1>4, <2>2, <2>3
<1>6. ASSUME p # <<>>
      PROVE  Head(s) = Head(p) /\ Tail(s) = Tail(p) \o <<e>> /\ Tail(p) \in Seq(S)
  <2>1. /\ Tail(p) \in Seq(S) /\ Len(Tail(p)) = Len(p) - 1 /\ Len(p) \in Nat \ {0}
        /\ \A i \in 1..Len(Tail(p)) : Tail(p)[i] = p[i + 1]
    BY <1>6, HeadTailProperties, EmptySeq
  <2>2. Head(s) = Head(p)
    BY <1>1, <1>4, <1>6, <2>1
  <2> DEFINE t == Tail(p) \o <<e>>
  <2>3. /\ t \in Seq(S) /\ Len(t) = Len(Tail(p)) + 1
        /\ \A i \in 1..(Len(Tail(p)) + 1) :
             t[i] = IF i <= Len(Tail(p)) THEN Tail(p)[i] ELSE <<e>>[i - Len(Tail(p))]
    BY <1>0, <2>1, ConcatProperties
  <2> HIDE DEF t, s
  <2>4. ASSUME NEW i \in 1..Len(p)  PROVE Tail(s)[i] = t[i]
    <3>1. Tail(s)[i] = s[i + 1] /\ i + 1 \in 1..(Len(p) + 1) /\ i \in 1..(Len(Tail(p)) + 1)
      BY <1>3, <2>1
    <3>2. CASE i <= Len(Tail(p))
      <4>1. i + 1 <= Len(p) /\ i \in 1..Len(Tail(p))
        BY <2>1, <3>1, <3>2
      <4> QED
        BY <1>1, <2>1, <2>3, <3>1, <3>2, <4>1
    <3>3. CASE ~(i <= Len(Tail(p)))
      <4>0. ASSUME NEW m \in Nat, NEW j \in 1..m, ~(j <= m - 1)  PROVE j = m
        BY <4>0
      <4>2. Len(p) \in Nat /\ Len(Tail(p)) = Len(p) - 1
        BY <2>1
      <4>3. i = Len(p)
        BY <3>3, <4>0, <4>2
      <4>1. ~(i + 1 <= Len(p)) /\ (i + 1) - Len(p) = 1 /\ i - Len(Tail(p)) = 1
        BY ONLY <4>2, <4>3
      <4> QED
        BY <1>1, <2>3, <3>1, <3>3, <4>1
    <3> QED
      BY <3>2, <3>3
  <2>5. Len(t) = Len(p)
    BY <2>1, <2>3
  <2>6. Tail(s) = t
    BY <1>3, <2>3, <2>4, <2>5, SeqEqual
  <2> QED
    BY <2>1, <2>2, <2>6 DEF t, s
<1> QED
  BY <1>1, <1>2, <1>5, <1>6

LEMMA ListsSame ==
  ASSUME NEW c, NEW d, d.type = c.type, d.cur = c.cur
  PROVE  /\ d.main = c.main => Lists(d) = Lists(c)
         /\ \A p \in Lists(c) : p # <<>> => Tail(p) \in Lists(d)
         /\ <<>> \in Lists(d)
<1>1. Case4Steps(d) = Case4Steps(c)
  BY DEF Case4Steps
<1>2. d.main = c.main => MainSteps(d) = MainSteps(c)
  BY DEF MainSteps
<1>3. d.main = c.main => Lists(d) = Lists(c)
  BY <1>1, <1>2 DEF Lists
<1>4. ASSUME NEW p \in Lists(c), p # <<>>  PROVE Tail(p) \in Lists(d)
  <2>1. CASE c.type = "CASE_4"
    BY <1>1, <1>4, <2>1, HeadTailProperties DEF Lists
  <2>2. CASE c.type # "CASE_4"
    <3>1. \E s : p = <<s>>
      BY <1>4, <2>2 DEF Lists
    <3>2. \A s : Tail(<<s>>) = <<>>
      OBVIOUS
    <3>3. Tail(p) = <<>>
      BY <3>1, <3>2
    <3> QED
      BY <2>2, <3>3 DEF Lists
  <2> QED
    BY <2>1, <2>2
<1>5. <<>> \in Lists(d)
  <2>1. <<>> \in Seq(Case4Steps(d))
    OBVIOUS
  <2> QED
    BY <2>1 DEF Lists
<1> QED
  BY <1>3, <1>4, <1>5

LEMMA RunningTyped == ASSUME NEW c  PROVE Running(c) \subseteq Seq(GoodStep)
<1>1. Do("finish") \in GoodStep
  BY LabelSteps
<1>2. \A p \in Lists(c) : p \in Seq(GoodStep)
  BY ListsTyped
<1>3. \A p \in Seq(GoodStep) : p \o <<Do("finish")>> \in Seq(GoodStep)
  BY <1>1, BeforeLast
<1> QED
  BY <1>2, <1>3 DEF Running

(* What a thread does next, and what it puts in front of the rest.         *)
LEMMA ThenFacts ==
  ASSUME TypesInv, NEW th \in Threads, NEW rest \in Seq(GoodStep), Then(th, rest)
  PROVE  /\ todo' \in [Threads -> Seq(GoodStep)]
         /\ todo[th] # <<>> => todo'[th] = rest \o Tail(todo[th])
         /\ todo[th] = <<>> => todo'[th] = rest
         /\ \A t \in Threads \ {th} : todo'[t] = todo[t]
<1>0. todo \in [Threads -> Seq(GoodStep)]
  BY DEF TypesInv
<1> DEFINE now == rest \o (IF todo[th] = <<>> THEN <<>> ELSE Tail(todo[th]))
<1>1. todo' = [todo EXCEPT ![th] = now]
  BY <1>0 DEF Then
<1>2. CASE todo[th] = <<>>
  <2>1. now = rest
    BY <1>2, ConcatEmptySeq
  <2> QED
    BY <1>0, <1>1, <1>2, <2>1
<1>3. CASE todo[th] # <<>>
  <2>1. Tail(todo[th]) \in Seq(GoodStep) /\ now = rest \o Tail(todo[th])
    BY <1>0, <1>3, HeadTailProperties
  <2>2. now \in Seq(GoodStep)
    BY <2>1, ConcatProperties
  <2> HIDE DEF now
  <2> QED
    BY <1>0, <1>1, <1>3, <2>1, <2>2
<1> QED
  BY <1>2, <1>3

LEMMA ThenNext ==
  ASSUME TypesInv, NEW th \in Threads, Then(th, <<>>), todo[th] # <<>>
  PROVE  /\ todo' \in [Threads -> Seq(GoodStep)]
         /\ todo'[th] = Tail(todo[th])
         /\ \A t \in Threads \ {th} : todo'[t] = todo[t]
<1>1. <<>> \in Seq(GoodStep) /\ Tail(todo[th]) \in Seq(GoodStep)
  BY HeadTailProperties DEF TypesInv
<1>2. <<>> \o Tail(todo[th]) = Tail(todo[th])
  BY <1>1, ConcatEmptySeq
<1> QED
  BY <1>1, <1>2, ThenFacts

(* The step at the head of the list, and the list without it.              *)
HeadRite ==
  /\ dying.type # "NONE" /\ tcase.state = "INIT" /\ tcase.main = 0
  /\ \E n \in 1..5, t \in Rounds :
       /\ Head(todo["trader"]) = RiteStep(n)
       /\ Tail(todo["trader"]) = Rites(n - 1, t)

HeadRound ==
  /\ dying = NoCase
  /\ \/ \E l \in Stages : Head(todo["trader"]) = Do(l) /\ Tail(todo["trader"]) = After(l)
     \/ /\ Head(todo["trader"]) = Do("finish")
        /\ Tail(todo["trader"]) = <<>>

HeadRun ==
  /\ dying = NoCase
  /\ \E p \in Lists(tcase) :
       /\ p # <<>>
       /\ Head(todo["trader"]) = Head(p)
       /\ Tail(todo["trader"]) = Tail(p) \o <<Do("finish")>>

LEMMA Heads ==
  ASSUME TypesInv, ScriptInv, todo["trader"] # <<>>
  PROVE  HeadRite \/ HeadRound \/ HeadRun
<1>1. PICK n \in 0..5, t \in Seq(GoodStep) : Scripted(todo["trader"], n, t, tcase, dying)
  BY DEF ScriptInv
<1>2. CASE n # 0
  <2>1. n \in 1..5
    BY <1>2
  <2>2. t \in Rounds /\ dying.type # "NONE" /\ tcase.state = "INIT" /\ tcase.main = 0
        /\ todo["trader"] = Rites(n, t)
    BY <1>1, <1>2 DEF Scripted
  <2>3. Head(Rites(n, t)) = RiteStep(n) /\ Tail(Rites(n, t)) = Rites(n - 1, t)
    BY <2>1, NextRite
  <2>4. Head(todo["trader"]) = RiteStep(n) /\ Tail(todo["trader"]) = Rites(n - 1, t)
    BY <2>2, <2>3
  <2>5. HeadRite
    BY <2>1, <2>2, <2>4 DEF HeadRite
  <2> QED
    BY <2>5
<1>3. CASE n = 0
  <2>1. todo["trader"] = t /\ dying = NoCase /\ (t \in Rounds \/ t \in Running(tcase))
    BY <1>1, <1>3, NoRites DEF Scripted
  <2>2. CASE t \in Rounds
    BY <2>1, <2>2, RoundFacts DEF HeadRound
  <2>3. CASE t \in Running(tcase)
    <3>1. PICK p \in Lists(tcase) : t = p \o <<Do("finish")>>
      BY <2>3 DEF Running
    <3>2. p \in Seq(GoodStep) /\ Do("finish") \in GoodStep
      <4>1. Lists(tcase) \subseteq Seq(GoodStep)
        BY ListsTyped
      <4>2. Do("finish") \in GoodStep
        BY LabelSteps
      <4> QED
        BY <4>1, <4>2
    <3>3. /\ p = <<>> => Head(t) = Do("finish") /\ Tail(t) = <<>>
          /\ p # <<>> => Head(t) = Head(p) /\ Tail(t) = Tail(p) \o <<Do("finish")>>
      BY <3>1, <3>2, BeforeLast
    <3> QED
      BY <2>1, <3>3 DEF HeadRound, HeadRun
  <2> QED
    BY <2>1, <2>2, <2>3
<1> QED
  BY <1>2, <1>3

(* Which form has a given label at its head.                               *)
LEMMA RunHead ==
  ASSUME TypesInv, HeadRun
  PROVE  /\ tcase.type # "NONE"
         /\ tcase.type = "CASE_4" => Head(todo["trader"]) \in Case4Steps(tcase)
         /\ tcase.type # "CASE_4" => Head(todo["trader"]) \in MainSteps(tcase)
<1>1. PICK p \in Lists(tcase) : p # <<>> /\ Head(todo["trader"]) = Head(p)
  BY DEF HeadRun
<1>2. tcase.type # "NONE"
  BY <1>1 DEF Lists
<1>3. CASE tcase.type = "CASE_4"
  BY <1>1, <1>3, HeadTailProperties DEF Lists
<1>4. CASE tcase.type # "CASE_4"
  <2>1. PICK s \in MainSteps(tcase) : p = <<s>>
    BY <1>1, <1>2, <1>4 DEF Lists
  <2>2. Head(p) = s
    BY <2>1
  <2> QED
    BY <1>1, <1>2, <1>4, <2>1, <2>2
<1> QED
  BY <1>2, <1>3, <1>4

LEMMA RoundLabels == \A l \in Stages \cup {"finish"} : Do(l).do = l
BY LabelSteps

LEMMA CallHead ==
  ASSUME TypesInv, ScriptInv, NEW l \in {"open", "close", "change", "pending", "requote", "crash"},
         AtHead("trader", l)
  PROVE  HeadRun
<1>1. HeadRite \/ HeadRound \/ HeadRun
  BY Heads DEF AtHead
<1>2. ~HeadRite
  <2>1. \A n \in 1..5 : RiteStep(n).do \in {"bury", "cancel", "drop"}
    BY RiteIsStep
  <2> QED
    BY <2>1 DEF HeadRite, AtHead
<1>3. ~HeadRound
  BY RoundLabels DEF HeadRound, AtHead, Stages
<1> QED
  BY <1>1, <1>2, <1>3

LEMMA NotRunHead ==
  ASSUME TypesInv, HeadRun
  PROVE  Head(todo["trader"]).do \notin Stages \cup {"finish", "bury"}
<1>1. \A s \in Case4Steps(tcase) : s.do \notin Stages \cup {"finish", "bury"}
  BY DEF Case4Steps, Stages
<1>2. \A s \in MainSteps(tcase) : s.do \notin Stages \cup {"finish", "bury"}
  BY DEF MainSteps, Stages
<1> QED
  BY <1>1, <1>2, RunHead

LEMMA RoundHead ==
  ASSUME TypesInv, ScriptInv, NEW l \in Stages \cup {"finish"}, AtHead("trader", l)
  PROVE  /\ dying = NoCase
         /\ l \in Stages => Tail(todo["trader"]) = After(l)
         /\ l = "finish" => Tail(todo["trader"]) = <<>>
<1>1. HeadRite \/ HeadRound \/ HeadRun
  BY Heads DEF AtHead
<1>2. ~HeadRite
  <2>1. \A n \in 1..5 : RiteStep(n).do \in {"bury", "cancel", "drop"}
    BY RiteIsStep
  <2> QED
    BY <2>1 DEF HeadRite, AtHead, Stages
<1>3. ~HeadRun
  BY NotRunHead DEF AtHead
<1>4. "finish" \notin Stages
  BY DEF Stages
<1> QED
  BY <1>1, <1>2, <1>3, <1>4, RoundLabels DEF HeadRound, AtHead

LEMMA BuryHead ==
  ASSUME TypesInv, ScriptInv, AtHead("trader", "bury")
  PROVE  /\ dying.type # "NONE" /\ tcase.state = "INIT" /\ tcase.main = 0
         /\ Tail(todo["trader"]) \in Rounds
<1>1. HeadRite \/ HeadRound \/ HeadRun
  BY Heads DEF AtHead
<1>2. ~HeadRun /\ ~HeadRound
  BY NotRunHead, RoundLabels DEF AtHead, HeadRound, Stages
<1>3. PICK n \in 1..5, t \in Rounds : Head(todo["trader"]) = RiteStep(n)
                                      /\ Tail(todo["trader"]) = Rites(n - 1, t)
  BY <1>1, <1>2 DEF HeadRite
<1>4. n = 1
  BY <1>3, RiteIsStep DEF AtHead
<1>5. Tail(todo["trader"]) = t
  BY <1>3, <1>4, NoRites, RoundFacts
<1> QED
  BY <1>1, <1>2, <1>5 DEF HeadRite

LEMMA CancelHead ==
  ASSUME TypesInv, ScriptInv, NEW l \in {"drop", "cancel"}, AtHead("trader", l)
  PROVE  HeadRite \/ (HeadRun /\ tcase.type = "CASE_4")
<1>1. HeadRite \/ HeadRound \/ HeadRun
  BY Heads DEF AtHead
<1>2. ~HeadRound
  BY RoundLabels DEF AtHead, HeadRound, Stages
<1>3. \A s \in MainSteps(tcase) : s.do \notin {"drop", "cancel"}
  BY DEF MainSteps
<1> QED
  BY <1>1, <1>2, <1>3, RunHead DEF AtHead

(* How the list stays of one of the forms.                                 *)
LEMMA RunningNext ==
  ASSUME TypesInv, HeadRun, NEW front, front \in Lists(tcase'),
         front = <<>> \/ tcase.type = "CASE_4",
         todo'["trader"] = front \o Tail(todo["trader"]),
         tcase'.type = tcase.type, tcase'.cur = tcase.cur, dying' = dying
  PROVE  ScriptInv'
<1>1. PICK p \in Lists(tcase) : p # <<>> /\ Tail(todo["trader"]) = Tail(p) \o <<Do("finish")>>
  BY DEF HeadRun
<1>2. Tail(p) \in Lists(tcase')
  BY <1>1, ListsSame
<1>3. Tail(p) \in Seq(GoodStep) /\ front \in Seq(GoodStep) /\ <<Do("finish")>> \in Seq(GoodStep)
  <2>1. Lists(tcase') \subseteq Seq(GoodStep)
    BY ListsTyped
  <2>2. Do("finish") \in GoodStep
    BY LabelSteps
  <2>3. \A e \in GoodStep : <<e>> \in Seq(GoodStep)
    OBVIOUS
  <2> QED
    BY <1>2, <2>1, <2>2, <2>3
<1>4. PICK t : t = (front \o Tail(p)) \o <<Do("finish")>>
  OBVIOUS
<1>5. todo'["trader"] = t
  <2> DEFINE l == <<Do("finish")>>
  <2>1. l \in Seq(GoodStep)
    BY <1>3
  <2> HIDE DEF l
  <2>2. (front \o Tail(p)) \o l = front \o (Tail(p) \o l)
    BY <1>3, <2>1, ConcatAssociative, SMTT(30)
  <2> QED
    BY <1>1, <1>4, <2>2 DEF l
<1>6. front \o Tail(p) \in Lists(tcase')
  <2>1. CASE front = <<>>
    BY <1>2, <1>3, <2>1, ConcatEmptySeq
  <2>2. CASE tcase.type = "CASE_4"
    <3>1. Lists(tcase') = Seq(Case4Steps(tcase'))
      BY <2>2 DEF Lists
    <3>2. front \in Seq(Case4Steps(tcase')) /\ Tail(p) \in Seq(Case4Steps(tcase'))
      BY <1>2, <3>1
    <3> QED
      BY <3>1, <3>2, ConcatProperties
  <2> QED
    BY <2>1, <2>2
<1>7. t \in Running(tcase')
  BY <1>4, <1>6 DEF Running
<1>8. t \in Seq(GoodStep) /\ Rites(0, t) = t
  BY <1>7, RunningTyped, NoRites
<1>9. Scripted(todo'["trader"], 0, t, tcase', dying')
  BY <1>5, <1>7, <1>8 DEF Scripted, HeadRun
<1> QED
  BY <1>8, <1>9 DEF ScriptInv

LEMMA RitesNext ==
  ASSUME TypesInv, HeadRite, Head(todo["trader"]).do # "bury",
         todo'["trader"] = Tail(todo["trader"]), tcase' = tcase, dying' = dying
  PROVE  ScriptInv'
<1>1. PICK n \in 1..5, t \in Rounds : Head(todo["trader"]) = RiteStep(n)
                                      /\ Tail(todo["trader"]) = Rites(n - 1, t)
  BY DEF HeadRite
<1>2. n # 1
  BY <1>1, RiteIsStep
<1>3. n - 1 \in 0..5 /\ n - 1 # 0 /\ t \in Seq(GoodStep)
  BY <1>2, RoundFacts
<1>4. Scripted(todo'["trader"], n - 1, t, tcase', dying')
  BY <1>1, <1>3 DEF Scripted, HeadRite
<1> QED
  BY <1>3, <1>4 DEF ScriptInv

LEMMA RoundNext ==
  ASSUME NEW t \in Rounds \cup Running(tcase'), todo'["trader"] = t, dying' = NoCase
  PROVE  ScriptInv'
<1>1. t \in Seq(GoodStep) /\ Rites(0, t) = t
  BY RoundFacts, RunningTyped, NoRites
<1>2. Scripted(todo'["trader"], 0, t, tcase', dying')
  BY <1>1 DEF Scripted
<1> QED
  BY <1>1, <1>2 DEF ScriptInv

LEMMA SameNext ==
  ASSUME ScriptInv, todo'["trader"] = todo["trader"], dying' = dying,
         tcase'.type = tcase.type, tcase'.cur = tcase.cur, tcase'.main = tcase.main,
         tcase'.state = tcase.state
  PROVE  ScriptInv'
<1>1. PICK n \in 0..5, t \in Seq(GoodStep) : Scripted(todo["trader"], n, t, tcase, dying)
  BY DEF ScriptInv
<1>2. Lists(tcase') = Lists(tcase)
  BY ListsSame
<1>3. Running(tcase') = Running(tcase)
  BY <1>2 DEF Running
<1>4. Scripted(todo'["trader"], n, t, tcase', dying')
  BY <1>1, <1>3 DEF Scripted
<1> QED
  BY <1>4 DEF ScriptInv

(* A new case is made between two steps of a round.                        *)
LEMMA ReplaceFacts ==
  ASSUME TypesInv, dying = NoCase, NEW new \in GoodCase, new.state = "INIT", new.main = 0,
         Replace(new), todo["trader"] # <<>>, Tail(todo["trader"]) \in Rounds
  PROVE  /\ tcase' = new /\ dying' = tcase
         /\ todo' \in [Threads -> Seq(GoodStep)]
         /\ \A t \in Threads \ {"trader"} : todo'[t] = todo[t]
         /\ ScriptInv'
         /\ todo'["trader"] = Rites(DestroySteps, Tail(todo["trader"]))
<1> DEFINE t == Tail(todo["trader"])
<1>0. "trader" \in Threads
  BY DEF Threads
<1>1. tcase' = new /\ dying' = tcase /\ Then("trader", Destroy)
  BY DEF Replace
<1>2. t \in Seq(GoodStep) /\ <<>> \in Seq(GoodStep)
  <2>1. Rounds \subseteq Seq(GoodStep)
    BY RoundFacts
  <2>2. <<>> \in Seq(GoodStep)
    OBVIOUS
  <2> QED
    BY <2>1, <2>2
<1>3. /\ DestroySteps \in 0..5
      /\ \A x \in Seq(GoodStep) : Destroy \o x = Rites(DestroySteps, x)
  BY <1>2, DestroyIsRites
<1>4. Destroy \in Seq(GoodStep)
  <2>1. CASE tcase = NoCase
    BY <1>2, <2>1 DEF Destroy
  <2>2. CASE tcase # NoCase
    <3>1. On("long", "drop") \in GoodStep /\ On("long", "cancel") \in GoodStep
          /\ On("short", "drop") \in GoodStep /\ On("short", "cancel") \in GoodStep
          /\ Do("bury") \in GoodStep
      BY LabelSteps DEF Accounts
    <3>2. <<On("long", "drop"), On("long", "cancel")>> \in Seq(GoodStep)
          /\ <<On("short", "drop"), On("short", "cancel")>> \in Seq(GoodStep)
          /\ <<Do("bury")>> \in Seq(GoodStep)
      BY <3>1
    <3>3. \A x, y \in Seq(GoodStep) : x \o y \in Seq(GoodStep)
      BY ConcatProperties
    <3>4. DestroyCancels \in Seq(GoodStep)
      BY <3>2, <3>3 DEF DestroyCancels, CancelAll
    <3>5. Destroy = DestroyCancels \o <<Do("bury")>> \/ Destroy = <<>> \o <<Do("bury")>>
      BY <2>2 DEF Destroy
    <3> QED
      BY <1>2, <3>2, <3>3, <3>4, <3>5
  <2> QED
    BY <2>1, <2>2
<1>5. /\ todo' \in [Threads -> Seq(GoodStep)]
      /\ todo'["trader"] = Destroy \o t
      /\ \A x \in Threads \ {"trader"} : todo'[x] = todo[x]
  BY <1>0, <1>1, <1>4, ThenFacts
<1>6. todo'["trader"] = Rites(DestroySteps, t)
  BY <1>2, <1>3, <1>5
<1> HIDE DEF t
<1>7. Scripted(todo'["trader"], DestroySteps, t, tcase', dying')
  <2>1. DestroySteps = 0 <=> tcase = NoCase
    BY DEF DestroySteps
  <2>2. tcase # NoCase => tcase.type # "NONE"
    BY DEF TypesInv, GoodCase
  <2> QED
    BY <1>1, <1>6, <2>1, <2>2 DEF Scripted, t
<1>8. ScriptInv'
  BY <1>2, <1>3, <1>7 DEF ScriptInv
<1> QED
  BY <1>1, <1>5, <1>6, <1>8 DEF t

-----------------------------------------------------------------------------
(* What the calls on the accounts, and the market, do to the orders.       *)

PairGood ==
  /\ pos \in [Accounts -> Nat]
  /\ total \in [Accounts -> Nat]
  /\ booking \in [Accounts -> {0} \cup Slots]
  /\ \A a \in Accounts : booking[a] = 0 => total[a] = pos[a]
  /\ orders \in [Slots -> GoodOrder \cup {NoOrder}]
  /\ pending \in [Accounts -> Seq(Pending)]
  /\ leak \in [Accounts -> (-MaxLeak)..MaxLeak]
  /\ tranch \in [Accounts -> {-1, 0}]

LEMMA LiveOrders ==
  ASSUME PairGood, NEW i \in Live
  PROVE  /\ i \in Slots
         /\ orders[i] \in GoodOrder /\ orders[i] \in Order
         /\ orders[i].acct \in Accounts /\ orders[i].op \in {"open", "close"}
         /\ orders[i].size \in 0..SizeLimit /\ orders[i].left \in 0..SizeLimit
         /\ orders[i].left <= orders[i].size /\ orders[i].done \in Callbacks
         /\ orders[i].known \in BOOLEAN
         /\ SizeLimit \in Nat
BY PairAssumption DEF Live, PairGood, GoodOrder, Order

LEMMA DropFacts ==
  ASSUME PairGood, NEW a \in Accounts, DropPending(a)
  PROVE  /\ PairGood' /\ orders' = orders /\ pos' = pos /\ leak' = leak
         /\ total' = total /\ booking' = booking
         /\ pending'[a] = <<>> /\ \A b \in Accounts \ {a} : pending'[b] = pending[b]
         /\ Unowned => Unowned'
<1>1. pending' = [pending EXCEPT ![a] = <<>>] /\ UNCHANGED <<pos, total, booking, orders, leak, tranch>>
  BY DEF DropPending
<1>2. <<>> \in Seq(Pending) /\ Len(<<>>) = 0
  OBVIOUS
<1>3. pending'[a] = <<>> /\ \A b \in Accounts \ {a} : pending'[b] = pending[b]
  BY <1>1 DEF PairGood
<1>4. PairGood'
  BY <1>1, <1>2 DEF PairGood
<1>5. ASSUME Unowned  PROVE Unowned'
  <2>1. Live' = Live /\ orders' = orders
    BY <1>1 DEF Live
  <2>2. ASSUME NEW b \in Accounts, NEW k \in 1..Len(pending'[b])
        PROVE  pending'[b][k].done \in {"none", "dangling"}
    <3>1. b # a
      BY <1>2, <1>3, <2>2
    <3> QED
      BY <1>3, <1>5, <2>2, <3>1 DEF Unowned
  <2> QED
    BY <1>5, <2>1, <2>2 DEF Unowned
<1> QED
  BY <1>1, <1>3, <1>4, <1>5

LEMMA MaxOfTwo ==
  ASSUME NEW a \in Int, NEW b \in Int
  PROVE  Max({a, b}) \in {a, b} /\ Max({a, b}) \in Int /\ a <= Max({a, b}) /\ b <= Max({a, b})
BY DEF Max

LEMMA KeptTyped == ASSUME NEW n \in Int  PROVE Kept(n) \in (-MaxLeak)..MaxLeak
<1>1. MaxLeak \in Nat /\ -MaxLeak \in Int /\ MaxLeak \in Int
  BY PairAssumption
<1>2. PICK m : m = Min({MaxLeak, n})
  OBVIOUS
<1>3. m \in {MaxLeak, n} /\ m <= MaxLeak
  BY <1>1, <1>2, MinOfTwo
<1>4. m \in Int
  BY <1>1, <1>3
<1>5. PICK x : x = -MaxLeak
  OBVIOUS
<1>6. /\ Max({x, m}) \in {x, m} /\ Max({x, m}) \in Int /\ x <= Max({x, m})
  BY <1>1, <1>4, <1>5, MaxOfTwo
<1>7. Kept(n) = Max({x, m})
  BY <1>2, <1>5 DEF Kept
<1>8. PICK k : k = Max({x, m})
  OBVIOUS
<1>9. k \in x..MaxLeak
  BY <1>1, <1>3, <1>4, <1>5, <1>6, <1>8
<1> QED
  BY <1>5, <1>7, <1>8, <1>9

LEMMA CancelFacts ==
  ASSUME PairGood, NEW a \in Accounts, Cancel(a)
  PROVE  /\ PairGood' /\ pos' = pos /\ pending' = pending
         /\ total' = total /\ booking' = booking
         /\ Live' \subseteq Live /\ \A i \in Live' : orders'[i] = orders[i]
         /\ "cancel" \notin RefusedCalls =>
              \A i \in Live' : orders[i].acct = a /\ orders[i].known => orders[i].left = 0
         /\ Unowned => Unowned'
<1>1. PICK ids \in IF "cancel" \in RefusedCalls THEN SUBSET Cancellable(a) ELSE {Cancellable(a)} :
        /\ orders' = [i \in Slots |-> IF i \in ids THEN NoOrder ELSE orders[i]]
        /\ leak' = [leak EXCEPT ![a] =
             Kept(@ + SumFunctionOnSet([i \in ids |-> orders[i].size - orders[i].left], ids))]
        /\ UNCHANGED <<pos, total, booking, pending, tranch>>
  BY DEF Cancel
<1>2. ids \subseteq Live /\ ids \subseteq Slots /\ IsFiniteSet(ids)
  <2>1. ids \subseteq Live /\ Live \subseteq Slots
    BY <1>1 DEF Cancellable, Live
  <2> QED
    BY <2>1, PairAssumption, FS_Subset
<1>3. orders' \in [Slots -> GoodOrder \cup {NoOrder}]
  BY <1>1 DEF PairGood
<1>4. Live' \subseteq Live /\ \A i \in Live' : orders'[i] = orders[i] /\ i \notin ids
  BY <1>1 DEF Live, PairGood
<1>5. leak' \in [Accounts -> (-MaxLeak)..MaxLeak]
  <2> DEFINE f == [i \in ids |-> orders[i].size - orders[i].left]
  <2>1. ASSUME NEW i \in ids  PROVE f[i] \in Nat
    <3>1. orders[i].size \in 0..SizeLimit /\ orders[i].left \in 0..SizeLimit
          /\ orders[i].left <= orders[i].size /\ SizeLimit \in Nat
      BY <1>2, LiveOrders
    <3>2. orders[i].size - orders[i].left \in Nat
      BY ONLY <3>1
    <3> QED
      BY <3>2
  <2> HIDE DEF f
  <2>2. SumFunctionOnSet(f, ids) \in Nat
    BY <1>2, <2>1, SumNat
  <2>3. leak[a] \in Int
    BY PairAssumption DEF PairGood
  <2>4. PICK n : n = leak[a] + SumFunctionOnSet(f, ids)
    OBVIOUS
  <2>5. Kept(n) \in (-MaxLeak)..MaxLeak
    BY <2>2, <2>3, <2>4, KeptTyped
  <2>6. leak' = [leak EXCEPT ![a] = Kept(n)]
    BY <1>1, <2>4 DEF f
  <2> QED
    BY <2>5, <2>6 DEF PairGood
<1>6. ASSUME "cancel" \notin RefusedCalls, NEW i \in Live', orders[i].acct = a, orders[i].known
      PROVE  orders[i].left = 0
  <2>1. i \notin Cancellable(a) /\ i \in Live
    BY <1>1, <1>4, <1>6
  <2>2. orders[i].left \in 0..SizeLimit /\ SizeLimit \in Nat
    BY <2>1, LiveOrders
  <2> QED
    BY <1>6, <2>1, <2>2 DEF Cancellable
<1>7. Unowned => Unowned'
  BY <1>1, <1>4 DEF Unowned
<1> QED
  BY <1>1, <1>3, <1>4, <1>5, <1>6, <1>7 DEF PairGood

(* Send places an order of s.size shares on a free id, or answers 0; the   *)
(* account does not know every order that is placed.                       *)
Sent(a, op, size, done, id, known) ==
  /\ id \in Slots /\ id \notin Live
  /\ size \in 0..SizeLimit
  /\ Live' = Live \cup {id}
  /\ \A i \in Live : orders'[i] = orders[i]
  /\ orders'[id].acct = a /\ orders'[id].op = op /\ orders'[id].size = size
  /\ orders'[id].left = size /\ orders'[id].done = done /\ orders'[id].known = known

FreeId(id) ==
  /\ id \in Slots /\ id \notin Live /\ id # tcase.main
  /\ \A k \in DOMAIN tcase.requotes : id # tcase.requotes[k]

LEMMA FreshIsFree == ASSUME NEW id \in Fresh  PROVE FreeId(id)
<1> DEFINE free == Slots \ (Live \cup {tcase.main} \cup {tcase.requotes[k] : k \in DOMAIN tcase.requotes})
<1>1. Fresh = IF free = {} THEN {} ELSE {Min(free)}
  BY DEF Fresh
<1>2. free # {} /\ id = Min(free)
  BY <1>1
<1>3. free \subseteq Nat
  <2>1. Slots \subseteq Nat
    BY PairAssumption
  <2>2. free \subseteq Slots
    OBVIOUS
  <2> QED
    BY <2>1, <2>2
<1>4. \E m \in free : \A n \in free : m <= n
  BY <1>2, <1>3, SmallestIndex
<1>5. Min(free) \in free
  <2> HIDE DEF free
  <2> QED
    BY <1>4 DEF Min
<1> QED
  BY <1>2, <1>5 DEF FreeId

LEMMA PlaceFacts ==
  ASSUME PairGood, NEW a \in Accounts, NEW op \in {"open", "close"}, NEW size \in 0..SizeLimit,
         NEW done \in Callbacks, NEW id \in Fresh, NEW known \in BOOLEAN,
         Place(id, a, op, size, done, known)
  PROVE  /\ orders' \in [Slots -> GoodOrder \cup {NoOrder}] /\ orders' # orders
         /\ FreeId(id) /\ Sent(a, op, size, done, id, known)
<1>1. FreeId(id) /\ id \in Slots /\ id \notin Live
  BY FreshIsFree DEF FreeId
<1> DEFINE o == [acct |-> a, op |-> op, size |-> size, left |-> size, done |-> done, known |-> known]
<1>2. o \in Order /\ o.left <= o.size
  <2>1. size <= size
    BY PairAssumption
  <2> QED
    BY <2>1 DEF Order
<1>3. o \in GoodOrder /\ o # NoOrder
  BY <1>2, NoOrderIsNone DEF GoodOrder
<1>4. /\ o.acct = a /\ o.op = op /\ o.size = size /\ o.left = size /\ o.done = done
      /\ o.known = known
  OBVIOUS
<1>5. orders' = [orders EXCEPT ![id] = o]
  BY DEF Place
<1> HIDE DEF o
<1>6. orders' \in [Slots -> GoodOrder \cup {NoOrder}] /\ orders'[id] = o
      /\ \A i \in Slots \ {id} : orders'[i] = orders[i]
  BY <1>1, <1>3, <1>5 DEF PairGood
<1>7. Live' = Live \cup {id} /\ (\A i \in Live : orders'[i] = orders[i]) /\ orders' # orders
  BY <1>1, <1>3, <1>6 DEF Live
<1> QED
  BY <1>1, <1>4, <1>6, <1>7 DEF Sent

(* An order that works may be answered by 0; nothing is told by that.      *)
Unheard(a, op, size, done) ==
  orders' # orders /\ \E i \in Slots : FreeId(i) /\ Sent(a, op, size, done, i, FALSE)

LEMMA SendFacts ==
  ASSUME PairGood, NEW a \in Accounts, NEW op \in {"open", "close"}, NEW size \in Int,
         NEW done \in Callbacks, NEW id, Send(a, op, size, done, Fresh, id)
  PROVE  /\ orders' \in [Slots -> GoodOrder \cup {NoOrder}]
         /\ \/ FreeId(id) /\ Sent(a, op, size, done, id, TRUE)
            \/ id = 0 /\ orders' = orders /\ (size \notin 1..SizeLimit \/ op \in RefusedCalls)
            \/ id = 0 /\ Unheard(a, op, size, done)
<1>1. CASE Acceptable(size) /\ id \in Fresh /\ Place(id, a, op, size, done, TRUE)
  BY <1>1, PlaceFacts DEF Acceptable
<1>2. CASE (~Acceptable(size) \/ size = 0 \/ op \in RefusedCalls) /\ id = 0 /\ UNCHANGED orders
  <2>1. size \notin 1..SizeLimit \/ op \in RefusedCalls
    BY <1>2, PairAssumption DEF Acceptable
  <2> QED
    BY <1>2, <2>1 DEF PairGood
<1>3. CASE Acceptable(size) /\ id = 0 /\ \E i \in Fresh : Place(i, a, op, size, done, FALSE)
  <2>1. PICK i \in Fresh : Place(i, a, op, size, done, FALSE)
    BY <1>3
  <2>2. size \in 0..SizeLimit
    BY <1>3 DEF Acceptable
  <2>3. /\ orders' \in [Slots -> GoodOrder \cup {NoOrder}] /\ orders' # orders
        /\ FreeId(i) /\ Sent(a, op, size, done, i, FALSE)
    BY <2>1, <2>2, PlaceFacts
  <2> QED
    BY <1>3, <2>3 DEF Unheard, FreeId
<1> QED
  BY <1>1, <1>2, <1>3 DEF Send

(* Change gives the order another size, and what is left of that.          *)
Changed(id, size, known) ==
  /\ id \in Live /\ orders[id].known /\ orders[id].left > 0
  /\ Live' = Live
  /\ \A i \in Live \ {id} : orders'[i] = orders[i]
  /\ orders'[id].acct = orders[id].acct /\ orders'[id].op = orders[id].op
  /\ orders'[id].done = orders[id].done /\ orders'[id].known = known
  /\ orders'[id].size = IF size = 0 THEN orders[id].size ELSE size
  /\ orders'[id].left = IF ReplaceWorks
                        THEN Max({0, orders'[id].size - (orders[id].size - orders[id].left)})
                        ELSE orders'[id].size

LEMMA ReplacementFacts ==
  ASSUME NEW o \in GoodOrder, NEW size \in Nat, size <= SizeLimit
  PROVE  LET n == Replacement(o, size) IN
         /\ n \in GoodOrder
         /\ n.acct = o.acct /\ n.op = o.op /\ n.done = o.done /\ n.known = o.known
         /\ n.size = IF size = 0 THEN o.size ELSE size
         /\ n.left = IF ReplaceWorks THEN Max({0, n.size - (o.size - o.left)}) ELSE n.size
<1> DEFINE new == IF size = 0 THEN o.size ELSE size
           left == IF ReplaceWorks THEN Max({0, new - (o.size - o.left)}) ELSE new
<1>1. o \in Order /\ o.size \in 0..SizeLimit /\ o.left \in 0..SizeLimit /\ o.left <= o.size
      /\ SizeLimit \in Nat
  BY PairAssumption DEF GoodOrder, Order
<1>2. new \in 0..SizeLimit
  BY <1>1
<1>3. left \in 0..SizeLimit /\ left <= new
  <2>1. new - (o.size - o.left) \in Int /\ new - (o.size - o.left) <= new /\ 0 <= new /\ new <= SizeLimit
        /\ new \in Int
    BY <1>1, <1>2
  <2> HIDE DEF new
  <2>2. PICK r : r = new - (o.size - o.left)
    OBVIOUS
  <2>3. Max({0, r}) \in {0, r} /\ Max({0, r}) \in Int /\ 0 <= Max({0, r})
    <3>1. 0 \in Int /\ r \in Int
      BY <2>1, <2>2
    <3> QED
      BY <3>1, MaxOfTwo
  <2>4. Max({0, r}) \in 0..SizeLimit /\ Max({0, r}) <= new
    BY <1>1, <2>1, <2>2, <2>3
  <2>5. new \in 0..SizeLimit /\ new <= new
    BY <1>1, <2>1
  <2> QED
    BY <2>2, <2>4, <2>5
<1> HIDE DEF new, left
<1>4. Replacement(o, size) = [o EXCEPT !.size = new, !.left = left]
  BY DEF Replacement, new, left
<1>5. LET n == [o EXCEPT !.size = new, !.left = left] IN
      /\ n \in Order /\ n.acct = o.acct /\ n.op = o.op /\ n.done = o.done /\ n.known = o.known
      /\ n.size = new /\ n.left = left
  BY <1>1, <1>2, <1>3 DEF Order
<1>6. Replacement(o, size) \in GoodOrder
  BY <1>3, <1>4, <1>5 DEF GoodOrder
<1>7. new = IF size = 0 THEN o.size ELSE size
  BY DEF new
<1>8. left = IF ReplaceWorks THEN Max({0, new - (o.size - o.left)}) ELSE new
  BY DEF left
<1> QED
  BY <1>4, <1>5, <1>6, <1>7, <1>8

LEMMA ReplacedFacts ==
  ASSUME PairGood, NEW id, NEW size \in Nat, NEW known \in BOOLEAN,
         HasOrder(id), orders[id].left > 0, size <= SizeLimit,
         orders' = [orders EXCEPT ![id] = [Replacement(@, size) EXCEPT !.known = known]]
  PROVE  /\ orders' \in [Slots -> GoodOrder \cup {NoOrder}] /\ Changed(id, size, known)
<1>0. id \in Live /\ orders[id].known
  BY DEF HasOrder
<1>1. PICK o \in GoodOrder : o = orders[id]
  BY <1>0, LiveOrders
<1>2. PICK m : m = Replacement(o, size)
  OBVIOUS
<1>3. /\ m \in GoodOrder
      /\ m.acct = o.acct /\ m.op = o.op /\ m.done = o.done
      /\ m.size = IF size = 0 THEN o.size ELSE size
      /\ m.left = IF ReplaceWorks THEN Max({0, m.size - (o.size - o.left)}) ELSE m.size
  BY <1>2, ReplacementFacts
<1>4. PICK n : n = [m EXCEPT !.known = known]
  OBVIOUS
<1>5. /\ n \in GoodOrder
      /\ n.acct = m.acct /\ n.op = m.op /\ n.done = m.done /\ n.size = m.size
      /\ n.left = m.left /\ n.known = known
  BY <1>3, <1>4 DEF GoodOrder, Order
<1>6. /\ n \in GoodOrder /\ n # NoOrder
      /\ n.acct = o.acct /\ n.op = o.op /\ n.done = o.done /\ n.known = known
      /\ n.size = IF size = 0 THEN o.size ELSE size
      /\ n.left = IF ReplaceWorks THEN Max({0, n.size - (o.size - o.left)}) ELSE n.size
  BY <1>3, <1>5, NoOrderIsNone
<1>7. orders' = [orders EXCEPT ![id] = n] /\ id \in Slots
  BY <1>0, <1>1, <1>2, <1>4, LiveOrders
<1>8. orders' \in [Slots -> GoodOrder \cup {NoOrder}] /\ orders'[id] = n
      /\ \A i \in Slots \ {id} : orders'[i] = orders[i]
  <2>1. orders \in [Slots -> GoodOrder \cup {NoOrder}] /\ n \in GoodOrder
    BY <1>6 DEF PairGood
  <2> QED
    BY ONLY <1>7, <2>1
<1>9. Live' = Live /\ \A i \in Live \ {id} : orders'[i] = orders[i]
  BY <1>0, <1>6, <1>8 DEF Live
<1>10. /\ orders'[id].size = IF size = 0 THEN orders[id].size ELSE size
       /\ orders'[id].left = IF ReplaceWorks
                              THEN Max({0, orders'[id].size - (orders[id].size - orders[id].left)})
                              ELSE orders'[id].size
  BY <1>1, <1>6, <1>8
<1>11. /\ orders'[id].acct = orders[id].acct /\ orders'[id].op = orders[id].op
       /\ orders'[id].done = orders[id].done /\ orders'[id].known = known
  BY <1>1, <1>6, <1>8
<1> QED
  BY <1>0, <1>8, <1>9, <1>10, <1>11, Zenon DEF Changed

LEMMA ChangeFacts ==
  ASSUME PairGood, NEW id, NEW size \in Nat, NEW answer, Change(id, size, answer)
  PROVE  /\ orders' \in [Slots -> GoodOrder \cup {NoOrder}]
         /\ leak' \in [Accounts -> (-MaxLeak)..MaxLeak]
         /\ \/ answer = "gone" /\ ~HasOrder(id) /\ orders' = orders
            \/ answer = "same" /\ HasOrder(id) /\ orders' = orders
            \/ answer = "new" /\ size <= SizeLimit /\ Changed(id, size, TRUE)
            \/ answer = "same" /\ orders' # orders /\ size <= SizeLimit /\ Changed(id, size, FALSE)
<1>1. CASE /\ answer \in {"new", "same"} /\ HasOrder(id) /\ orders[id].left > 0 /\ size <= SizeLimit
           /\ orders' = [orders EXCEPT ![id] =
                            [Replacement(@, size) EXCEPT !.known = (answer = "new")]]
           /\ leak' = [leak EXCEPT ![orders[id].acct] =
                IF answer = "new" THEN @ ELSE Kept(@ + orders[id].size)]
  <2>1. PICK known \in BOOLEAN : known = (answer = "new")
    OBVIOUS
  <2>2. orders' \in [Slots -> GoodOrder \cup {NoOrder}] /\ Changed(id, size, known)
    BY <1>1, <2>1, ReplacedFacts
  <2>3. leak' \in [Accounts -> (-MaxLeak)..MaxLeak]
    <3>1. id \in Live /\ leak \in [Accounts -> (-MaxLeak)..MaxLeak] /\ MaxLeak \in Nat
      BY <1>1, PairAssumption DEF HasOrder, PairGood
    <3>2. orders[id].acct \in Accounts /\ orders[id].size \in Int
      BY <3>1, LiveOrders
    <3>3. PICK n : n = leak[orders[id].acct] + orders[id].size
      OBVIOUS
    <3>4. n \in Int
      BY <3>1, <3>2, <3>3
    <3>5. Kept(n) \in (-MaxLeak)..MaxLeak
      BY <3>4, KeptTyped
    <3>6. leak' = [leak EXCEPT ![orders[id].acct] =
                     IF answer = "new" THEN leak[orders[id].acct] ELSE Kept(n)]
      BY <1>1, <3>1, <3>2, <3>3
    <3> QED
      BY <3>1, <3>2, <3>5, <3>6
  <2>4. ASSUME answer = "same"  PROVE orders' # orders
    <3>1. ~orders'[id].known /\ orders[id].known
      BY <2>1, <2>2, <2>4 DEF Changed
    <3> QED
      BY <3>1
  <2> QED
    BY <1>1, <2>1, <2>2, <2>3, <2>4
<1>2. CASE answer = "gone" /\ ~HasOrder(id) /\ UNCHANGED <<orders, leak>>
  BY <1>2 DEF PairGood
<1>3. CASE answer = "same" /\ HasOrder(id) /\ UNCHANGED <<orders, leak>>
  BY <1>3 DEF PairGood
<1> QED
  BY <1>1, <1>2, <1>3 DEF Change

(* A fill takes n shares off an order, and off or onto the position.       *)
Filled(i, n) ==
  /\ i \in Live /\ n \in 1..orders[i].left
  /\ booking[orders[i].acct] = 0
  /\ pos' = [pos EXCEPT ![orders[i].acct] =
               IF orders[i].op = "open" THEN @ + n ELSE @ - n]
  /\ Live' = Live
  /\ \A j \in Live \ {i} : orders'[j] = orders[j]
  /\ orders'[i].acct = orders[i].acct /\ orders'[i].op = orders[i].op
  /\ orders'[i].done = orders[i].done /\ orders'[i].size = orders[i].size
  /\ orders'[i].known = orders[i].known
  /\ orders'[i].left = orders[i].left - n

LEMMA ToldFacts ==
  ASSUME PairGood, NEW i \in Slots, NEW n, Told(i, n)
  PROVE  /\ pos' \in [Accounts -> Nat] /\ orders' \in [Slots -> GoodOrder \cup {NoOrder}]
         /\ pending' = pending /\ leak' = leak
         /\ pos' = [pos EXCEPT ![orders[i].acct] = Traded(orders[i], n)]
         /\ Traded(orders[i], n) \in Nat /\ orders[i].acct \in Accounts
         /\ Filled(i, n)
         /\ Unowned => Unowned'
<1>1. i \in Live /\ n \in 1..orders[i].left /\ booking[orders[i].acct] = 0
  BY DEF Told
<1>2. PICK o \in GoodOrder : o = orders[i]
  BY <1>1, LiveOrders
<1>3. /\ o.acct \in Accounts /\ o.op \in {"open", "close"} /\ o.size \in 0..SizeLimit
      /\ o.left \in 0..SizeLimit /\ o.left <= o.size /\ o.done \in Callbacks /\ SizeLimit \in Nat
      /\ o \in Order
  BY <1>1, <1>2, LiveOrders
<1> DEFINE d == [o EXCEPT !.left = o.left - n]
           after == Traded(o, n)
<1>4. o.left - n \in 0..SizeLimit /\ o.left - n <= o.size
  BY <1>1, <1>2, <1>3
<1>5. /\ d \in Order /\ d.acct = o.acct /\ d.op = o.op /\ d.done = o.done /\ d.size = o.size
      /\ d.known = o.known /\ d.left = o.left - n
  BY <1>3, <1>4 DEF Order
<1>6. d \in GoodOrder /\ d # NoOrder
  BY <1>4, <1>5, NoOrderIsNone DEF GoodOrder
<1>7. orders' = [orders EXCEPT ![i] = d]
  BY <1>2 DEF Told
<1>8. /\ after \in 0..MaxPosition /\ pos' = [pos EXCEPT ![o.acct] = after]
      /\ UNCHANGED <<pending, leak>>
  BY <1>2 DEF Told
<1> HIDE DEF d
<1>9. /\ orders' \in [Slots -> GoodOrder \cup {NoOrder}] /\ orders'[i] = d
      /\ \A j \in Slots \ {i} : orders'[j] = orders[j]
  BY <1>6, <1>7 DEF PairGood
<1> HIDE DEF after
<1>10. after \in Nat /\ pos' \in [Accounts -> Nat]
  <2>1. after \in Nat
    BY <1>8, PairAssumption
  <2> QED
    BY <1>3, <1>8, <2>1 DEF PairGood
<1>11. Filled(i, n)
  <2>1. Live' = Live /\ \A j \in Live \ {i} : orders'[j] = orders[j]
    BY <1>1, <1>6, <1>9 DEF Live
  <2>2. pos' = [pos EXCEPT ![orders[i].acct] = IF orders[i].op = "open" THEN @ + n ELSE @ - n]
    BY <1>2, <1>3, <1>8 DEF after, Traded, PairGood
  <2> QED
    BY <1>1, <1>2, <1>5, <1>9, <2>1, <2>2 DEF Filled
<1>12. Unowned => Unowned'
  BY <1>8, <1>11 DEF Filled, Unowned
<1> QED
  BY <1>2, <1>3, <1>8, <1>9, <1>10, <1>11, <1>12 DEF after

(* The handler of a fill runs with it or, after the last one, later.       *)
LEMMA FillFacts ==
  ASSUME PairGood, NEW i \in Slots, LastFill(i) \/ \E n \in 1..SizeLimit : Fill(i, n)
  PROVE  /\ PairGood' /\ pending' = pending /\ leak' = leak
         /\ \E n \in Nat : Filled(i, n)
         /\ Unowned => Unowned'
<1>1. CASE LastFill(i)
  <2> DEFINE n == orders[i].left
  <2>1. Told(i, n) /\ total' = total /\ tranch' = tranch
        /\ booking' = [booking EXCEPT ![orders[i].acct] = i]
    BY <1>1 DEF LastFill
  <2> HIDE DEF n
  <2>2. /\ pos' \in [Accounts -> Nat] /\ orders' \in [Slots -> GoodOrder \cup {NoOrder}]
        /\ pending' = pending /\ leak' = leak
        /\ pos' = [pos EXCEPT ![orders[i].acct] = Traded(orders[i], n)]
        /\ orders[i].acct \in Accounts
        /\ Filled(i, n) /\ (Unowned => Unowned')
    BY <2>1, ToldFacts
  <2>3. i # 0
    BY PairAssumption
  <2>4. /\ booking' \in [Accounts -> {0} \cup Slots]
        /\ \A a \in Accounts : booking'[a] = 0 => total'[a] = pos'[a]
    BY <2>1, <2>2, <2>3 DEF PairGood
  <2>5. PairGood'
    BY <2>1, <2>2, <2>4 DEF PairGood
  <2>6. n \in Nat
    <3>1. i \in Live
      BY <2>2 DEF Filled
    <3> QED
      BY <3>1, LiveOrders DEF n
  <2> QED
    BY <2>2, <2>5, <2>6
<1>2. ASSUME NEW n \in 1..SizeLimit, Fill(i, n)  PROVE
        /\ PairGood' /\ pending' = pending /\ leak' = leak
        /\ \E k \in Nat : Filled(i, k)
        /\ Unowned => Unowned'
  <2>1. Told(i, n) /\ booking' = booking
        /\ Booked(orders[i].acct, orders[i].op, Traded(orders[i], n))
    BY <1>2 DEF Fill
  <2>2. /\ pos' \in [Accounts -> Nat] /\ orders' \in [Slots -> GoodOrder \cup {NoOrder}]
        /\ pending' = pending /\ leak' = leak
        /\ pos' = [pos EXCEPT ![orders[i].acct] = Traded(orders[i], n)]
        /\ Traded(orders[i], n) \in Nat /\ orders[i].acct \in Accounts
        /\ Filled(i, n) /\ (Unowned => Unowned')
    BY <2>1, ToldFacts
  <2>3. /\ total' = [total EXCEPT ![orders[i].acct] = Traded(orders[i], n)]
        /\ \E x \in {-1, 0} : tranch' = [tranch EXCEPT ![orders[i].acct] = x]
    <3>1. tranch[orders[i].acct] \in {-1, 0}
      BY <2>2 DEF PairGood
    <3> QED
      BY <2>1, <3>1 DEF Booked
  <2>4. PICK after \in Nat : after = Traded(orders[i], n)
    BY <2>2
  <2>5. /\ total' \in [Accounts -> Nat] /\ tranch' \in [Accounts -> {-1, 0}]
        /\ \A a \in Accounts : booking'[a] = 0 => total'[a] = pos'[a]
    BY <2>1, <2>2, <2>3, <2>4 DEF PairGood
  <2>6. PairGood'
    BY <2>1, <2>2, <2>5 DEF PairGood
  <2>7. n \in Nat
    BY PairAssumption
  <2> QED
    BY <2>2, <2>6, <2>7
<1> QED
  BY <1>1, <1>2

LEMMA BookFacts ==
  ASSUME PairGood, NEW a \in Accounts, Book(a)
  PROVE  /\ PairGood'
         /\ pos' = pos /\ orders' = orders /\ pending' = pending /\ leak' = leak
         /\ Live' = Live /\ (Unowned => Unowned')
<1>1. /\ UNCHANGED <<pos, orders, pending, leak>>
      /\ booking' = [booking EXCEPT ![a] = 0]
      /\ total' = [total EXCEPT ![a] = pos[a]]
      /\ \E x \in {-1, 0} : tranch' = [tranch EXCEPT ![a] = x]
  <2>1. tranch[a] \in {-1, 0}
    BY DEF PairGood
  <2> QED
    BY <2>1 DEF Book, Booked
<1>2. PairGood'
  BY <1>1 DEF PairGood
<1>3. Live' = Live
  BY <1>1 DEF Live
<1>4. Unowned => Unowned'
  BY <1>1, <1>3 DEF Unowned
<1> QED
  BY <1>1, <1>2, <1>3, <1>4

LEMMA ForgetFacts ==
  ASSUME PairGood, NEW i \in Slots, Forget(i)
  PROVE  /\ orders' \in [Slots -> GoodOrder \cup {NoOrder}]
         /\ leak' \in [Accounts -> (-MaxLeak)..MaxLeak]
         /\ i \in Live /\ orders[i].left = 0 /\ booking[orders[i].acct] = 0
         /\ Live' = Live \ {i} /\ \A j \in Live' : orders'[j] = orders[j]
         /\ pos' = pos /\ total' = total /\ booking' = booking /\ tranch' = tranch
<1>1. /\ i \in Live /\ orders[i].left = 0 /\ booking[orders[i].acct] = 0
      /\ orders' = [orders EXCEPT ![i] = NoOrder]
      /\ leak' = [leak EXCEPT ![orders[i].acct] =
                     IF orders[i].known THEN @ ELSE Kept(@ - orders[i].size)]
      /\ UNCHANGED <<pos, total, booking, tranch>>
  BY DEF Forget
<1>2. orders' \in [Slots -> GoodOrder \cup {NoOrder}] /\ Live' = Live \ {i}
      /\ \A j \in Live' : orders'[j] = orders[j]
  BY <1>1 DEF PairGood, Live
<1>3. leak' \in [Accounts -> (-MaxLeak)..MaxLeak]
  <2>1. /\ leak \in [Accounts -> (-MaxLeak)..MaxLeak] /\ MaxLeak \in Nat
        /\ orders[i].acct \in Accounts /\ orders[i].size \in Int
    BY <1>1, LiveOrders, PairAssumption DEF PairGood
  <2>2. PICK n : n = leak[orders[i].acct] - orders[i].size
    OBVIOUS
  <2>3. Kept(n) \in (-MaxLeak)..MaxLeak
    BY <2>1, <2>2, KeptTyped
  <2>4. leak' = [leak EXCEPT ![orders[i].acct] =
                   IF orders[i].known THEN leak[orders[i].acct] ELSE Kept(n)]
    BY <1>1, <2>1, <2>2
  <2> QED
    BY <2>1, <2>3, <2>4
<1> QED
  BY <1>1, <1>2, <1>3

LEMMA QueueFacts ==
  ASSUME PairGood, NEW i \in Live, NEW done \in Callbacks, QueueClose(orders[i], done)
  PROVE  /\ pending' \in [Accounts -> Seq(Pending)]
         /\ pending' = [pending EXCEPT ![orders[i].acct] =
                          Append(@, [size |-> orders[i].size, done |-> done])]
<1>1. orders[i].acct \in Accounts /\ orders[i].size \in 0..SizeLimit
  BY LiveOrders
<1>2. [size |-> orders[i].size, done |-> done] \in Pending
  BY <1>1 DEF Pending
<1> QED
  BY <1>1, <1>2 DEF QueueClose, PairGood

-----------------------------------------------------------------------------
(* Every step keeps the types, the forms of the list and the callbacks in  *)
(* their owner's hands.                                                    *)

LEMMA TypesParts ==
  ASSUME TypesInv  PROVE PairGood
BY DEF TypesInv, PairGood

LEMMA TheirThreads ==
  /\ "trader" \in Threads /\ \A th \in Consoles : th \in Threads /\ th # "trader"
BY ConsoleAssumption DEF Threads

LEMMA StepOf ==
  ASSUME TypesInv, NEW th \in Threads, todo[th] # <<>>
  PROVE  The(th) \in GoodStep
BY HeadTailProperties DEF TypesInv, The

LEMMA InstanceInit == Init => InstanceInv
<1> SUFFICES ASSUME Init  PROVE InstanceInv
  OBVIOUS
<1>1. PICK restored \in RestoredPositions : PairInit(restored)
  BY DEF Init
<1>2. PairGood
  <2>1. restored \in [Accounts -> Nat] /\ 0 \in (-MaxLeak)..MaxLeak /\ 0 \in {-1, 0} /\ <<>> \in Seq(Pending)
    BY InstanceAssumption, PairAssumption
  <2> QED
    BY <1>1, <2>1, PairAssumption DEF PairGood, PairInit
<1>3. TypesInv
  <2>1. /\ NoCase \in GoodCase /\ <<>> \in Seq(GoodStep) /\ NoAcc \in Accounts \cup {NoAcc}
        /\ "INIT" \in Triggers /\ 0 \in 0..MaxCommands /\ 0 \in {0} \cup Estimates
    BY NoCaseIsCase, ConsoleAssumption DEF Triggers
  <2>2. wait \in [window : BOOLEAN, avicenna : {0} \cup Estimates]
    BY DEF Init
  <2>3. flags \in [Flags -> BOOLEAN]
    BY DEF Init
  <2>4. todo \in [Threads -> Seq(GoodStep)]
    BY <2>1 DEF Init
  <2> QED
    BY <1>2, <2>1, <2>2, <2>3, <2>4 DEF Init, TypesInv, PairGood
<1>4. ScriptInv
  <2>0. <<>> \in Seq(GoodStep)
    OBVIOUS
  <2>1. PICK t \in Seq(GoodStep) : t = <<>>
    BY <2>0, Zenon
  <2>2. todo["trader"] = t /\ dying = NoCase /\ t \in Rounds
    BY <2>1, TheirThreads DEF Init, Rounds
  <2>3. Rites(0, t) = t
    BY NoRites
  <2>4. Scripted(todo["trader"], 0, t, tcase, dying)
    BY <2>2, <2>3 DEF Scripted
  <2>5. 0 \in 0..5
    OBVIOUS
  <2> QED
    BY <2>4, <2>5 DEF ScriptInv
<1>5. OwnedInv
  <2>1. Live = {} /\ \A a \in Accounts : 1..Len(pending[a]) = {}
    <3>1. Len(<<>>) = 0
      OBVIOUS
    <3> QED
      BY <1>1, <3>1 DEF Live, PairInit
  <2> QED
    BY <2>1 DEF OwnedInv, Unowned
<1> QED
  BY <1>3, <1>4, <1>5 DEF InstanceInv

(* A step that leaves the case and the list of the trading thread alone.   *)
LEMMA KeepsScript ==
  ASSUME ScriptInv, tcase' = tcase, dying' = dying, todo'["trader"] = todo["trader"]
  PROVE  ScriptInv'
BY SameNext

LEMMA KeepsOwned ==
  ASSUME OwnedInv, tcase'.type = tcase.type, (tcase' = NoCase) = (tcase = NoCase), dying' = dying,
         Unowned => Unowned'
  PROVE  OwnedInv'
BY DEF OwnedInv, Owner

(* Drop and CancelOrders, of either thread.                                *)
LEMMA CancelsStep ==
  ASSUME InstanceInv, NEW th \in {"trader"} \cup Consoles,
         Drop(th) \/ CancelOrders(th)
  PROVE  InstanceInv'
<1>0. /\ TypesInv /\ ScriptInv /\ OwnedInv /\ PairGood
      /\ th \in Threads /\ (th # "trader" => th \in Consoles)
  BY TypesParts, TheirThreads DEF InstanceInv
<1>1. /\ th \notin hung /\ todo[th] # <<>> /\ The(th).do \in {"drop", "cancel"} /\ Then(th, <<>>)
      /\ UNCHANGED <<tcase, dying, current, trigger, prev_trigger, estimate,
                     estimate_prev, wait, flags, ended, crashed, hung, misled, crossed, commands>>
      /\ DropPending(The(th).acct) \/ Cancel(The(th).acct)
  BY DEF Drop, CancelOrders, AtHead, The
<1>2. The(th).acct \in Accounts
  BY <1>0, <1>1, StepOf DEF GoodStep
<1>3. PairGood' /\ (Unowned => Unowned')
  BY <1>0, <1>1, <1>2, DropFacts, CancelFacts
<1>4. /\ todo' \in [Threads -> Seq(GoodStep)]
      /\ todo'[th] = Tail(todo[th])
      /\ \A t \in Threads \ {th} : todo'[t] = todo[t]
  BY <1>0, <1>1, ThenNext
<1>5. TypesInv'
  BY <1>0, <1>1, <1>3, <1>4 DEF TypesInv, PairGood
<1>6. OwnedInv'
  BY <1>0, <1>1, <1>3, KeepsOwned
<1>7. ScriptInv'
  <2>1. CASE th # "trader"
    BY <1>0, <1>1, <1>4, <2>1, KeepsScript, TheirThreads
  <2>2. CASE th = "trader"
    <3>1. HeadRite \/ (HeadRun /\ tcase.type = "CASE_4")
      BY <1>0, <1>1, <2>2, CancelHead DEF AtHead, The
    <3>2. CASE HeadRite
      <4>1. Head(todo["trader"]).do # "bury"
        BY <1>1, <2>2 DEF The
      <4> QED
        BY <1>0, <1>1, <1>4, <2>2, <3>2, <4>1, RitesNext
    <3>3. CASE HeadRun
      <4>1. <<>> \in Lists(tcase') /\ Tail(todo["trader"]) \in Seq(GoodStep)
        BY <1>0, <1>1, <2>2, ListsSame, HeadTailProperties DEF TypesInv
      <4>2. <<>> \o Tail(todo["trader"]) = Tail(todo["trader"])
        BY <4>1, ConcatEmptySeq
      <4> QED
        BY <1>0, <1>1, <1>4, <2>2, <3>3, <4>1, <4>2, RunningNext
    <3> QED
      BY <3>1, <3>2, <3>3
  <2> QED
    BY <2>1, <2>2
<1> QED
  BY <1>5, <1>6, <1>7 DEF InstanceInv

(* AnsweredNew and AnsweredChange change neither the kind of a case nor    *)
(* its accounts.                                                           *)
SameKind(c, d) ==
  /\ d \in GoodCase
  /\ d.type = c.type /\ d.cur = c.cur /\ d.opp = c.opp /\ d.to_close = c.to_close
  /\ d.original = c.original

LEMMA NoneTyped ==
  ASSUME NEW c \in GoodCase, NEW d \in Case, c.type # "NONE", d.type = c.type, d.cur = c.cur,
         d.opp = c.opp, d.to_close = c.to_close, d.original = c.original
  PROVE  SameKind(c, d)
BY DEF SameKind, GoodCase

LEMMA AnsweredNewFacts ==
  ASSUME NEW c \in GoodCase, c.type # "NONE", NEW s \in GoodStep, NEW id \in {0} \cup Slots
  PROVE  LET d == AnsweredNew(c, s, id) IN
         /\ SameKind(c, d) /\ d.size = c.size
         /\ s.to = "main" => /\ d.main = id
                             /\ d.state = IF id = 0 /\ GivesUp(c) THEN "FAILED" ELSE "PRICE_CHANGE"
         /\ s.to # "main" => d.main = c.main /\ d.state = c.state
<1> DEFINE d == AnsweredNew(c, s, id)
<1>0. c \in Case /\ c.requotes \in Seq(Slots)
  BY DEF GoodCase, Case
<1>1. CASE s.to = "main"
  <2> DEFINE st == IF id = 0 /\ GivesUp(c) THEN "FAILED" ELSE "PRICE_CHANGE"
  <2>1. st \in States
    BY DEF States
  <2>2. d = [c EXCEPT !.main = id, !.state = st]
    BY <1>1 DEF AnsweredNew
  <2> HIDE DEF st
  <2>3. LET e == [c EXCEPT !.main = id, !.state = st] IN
        /\ e \in Case /\ e.type = c.type /\ e.cur = c.cur /\ e.opp = c.opp /\ e.to_close = c.to_close
        /\ e.original = c.original /\ e.size = c.size /\ e.main = id /\ e.state = st
    BY <1>0, <2>1 DEF Case
  <2>4. SameKind(c, d)
    BY <2>2, <2>3, NoneTyped
  <2>5. st = IF id = 0 /\ GivesUp(c) THEN "FAILED" ELSE "PRICE_CHANGE"
    BY DEF st
  <2> HIDE DEF d
  <2>6. d.size = c.size /\ d.main = id /\ d.state = st
    BY <2>2, <2>3
  <2> QED
    BY <1>1, <2>4, <2>5, <2>6 DEF d
<1>2. CASE s.to # "main"
  <2>1. \E q \in Seq(Slots) : d = Listed(c, q) \/ d = c
    <3>1. CASE s.to = "requote" /\ id # 0
      <4>1. Append(c.requotes, id) \in Seq(Slots)
        BY <1>0, <3>1
      <4>2. d = Listed(c, Append(c.requotes, id))
        BY <3>1 DEF AnsweredNew, Listed
      <4> QED
        BY <4>1, <4>2
    <3>2. CASE ~(s.to = "requote" /\ id # 0)
      BY <1>0, <1>2, <3>2 DEF AnsweredNew
    <3> QED
      BY <3>1, <3>2
  <2>2. PICK q \in Seq(Slots) : d = Listed(c, q) \/ d = c
    BY <2>1
  <2>3. LET e == Listed(c, q) IN
        /\ e \in Case /\ e.type = c.type /\ e.cur = c.cur /\ e.opp = c.opp /\ e.to_close = c.to_close
        /\ e.original = c.original /\ e.size = c.size /\ e.main = c.main /\ e.state = c.state
    BY <1>0 DEF Case, Listed
  <2> HIDE DEF d
  <2>4. /\ d \in Case /\ d.type = c.type /\ d.cur = c.cur /\ d.opp = c.opp /\ d.to_close = c.to_close
        /\ d.original = c.original /\ d.size = c.size /\ d.main = c.main /\ d.state = c.state
    BY <1>0, <2>2, <2>3
  <2>5. SameKind(c, d)
    BY <2>4, NoneTyped
  <2> QED
    BY <1>2, <2>4, <2>5 DEF d
<1> QED
  BY <1>1, <1>2

(* A change is answered in one of five ways.                               *)
ChangeAnswer(c, s, answer, d) ==
  \/ s.to = "requote" /\ d.main = c.main /\ d.size = c.size /\ d.state = c.state
  \/ /\ s.to # "requote" /\ c.type = "CASE_4" /\ d.size = c.size /\ d.state = c.state
     /\ d.main = IF answer = "gone" THEN 0 ELSE c.main
  \/ /\ s.to # "requote" /\ c.type = "SOFT_CLOSE" /\ answer # "new" /\ d.size = c.size
     /\ d.state = "WAIT" /\ d.main = IF answer = "gone" THEN 0 ELSE c.main
  \/ /\ s.to # "requote" /\ c.type # "CASE_4" /\ answer = "new"
     /\ d.main = c.main /\ d.state = c.state
     /\ d.size = IF s.size = 0 THEN c.size ELSE s.size
  \/ /\ s.to # "requote" /\ c.type # "CASE_4" /\ answer # "new" /\ d.main = c.main
     /\ d.size = c.size /\ d.state = "WAIT"

LEMMA AnsweredChangeFacts ==
  ASSUME NEW c \in GoodCase, c.type # "NONE", NEW s \in GoodStep, NEW answer
  PROVE  LET d == AnsweredChange(c, s, answer) IN
         SameKind(c, d) /\ ChangeAnswer(c, s, answer, d)
<1> DEFINE d == AnsweredChange(c, s, answer)
           m == IF answer = "gone" THEN 0 ELSE c.main
           n == IF s.size = 0 THEN c.size ELSE s.size
<1>0. /\ c \in Case /\ c.requotes \in Seq(Slots) /\ c.main \in {0} \cup Slots /\ c.size \in Int
      /\ s.price \in {0} \cup Prices /\ s.size \in Int /\ "WAIT" \in States
  BY DEF GoodCase, Case, GoodStep, Step, States
<1>1. CASE s.to = "requote"
  <2>1. PICK q \in Seq(Slots) : d = Listed(c, q)
    <3>1. Without(c.requotes, s.id) \in Seq(Slots)
      BY <1>0, ChosenTyped DEF Without
    <3>2. d = Listed(c, IF answer = "gone" THEN Without(c.requotes, s.id) ELSE c.requotes)
      BY <1>1, Zenon DEF AnsweredChange, Listed
    <3> QED
      BY <1>0, <3>1, <3>2
  <2>2. LET e == Listed(c, q) IN
        /\ e \in Case /\ e.type = c.type /\ e.cur = c.cur /\ e.opp = c.opp /\ e.to_close = c.to_close
        /\ e.original = c.original /\ e.size = c.size /\ e.main = c.main /\ e.state = c.state
    BY <1>0 DEF Case, Listed
  <2> HIDE DEF d
  <2>3. SameKind(c, d)
    BY <2>1, <2>2, NoneTyped
  <2>4. ChangeAnswer(c, s, answer, d)
    BY <1>1, <2>1, <2>2 DEF ChangeAnswer
  <2> QED
    BY <2>3, <2>4 DEF d
<1>2. CASE s.to # "requote" /\ c.type = "CASE_4"
  <2>1. d = [c EXCEPT !.main = m, !.price = s.price]
    BY <1>2, Zenon DEF AnsweredChange
  <2>2. m \in {0} \cup Slots
    BY <1>0
  <2>3. m = IF answer = "gone" THEN 0 ELSE c.main
    OBVIOUS
  <2> HIDE DEF d, m
  <2>4. /\ d \in Case /\ d.type = c.type /\ d.cur = c.cur /\ d.opp = c.opp /\ d.to_close = c.to_close
        /\ d.original = c.original /\ d.size = c.size /\ d.main = m /\ d.state = c.state
    BY <1>0, <2>1, <2>2 DEF Case
  <2>5. SameKind(c, d)
    BY <2>4, NoneTyped
  <2>6. ChangeAnswer(c, s, answer, d)
    BY <1>2, <2>3, <2>4 DEF ChangeAnswer
  <2> QED
    BY <2>5, <2>6 DEF d
<1>3. CASE s.to # "requote" /\ c.type = "SOFT_CLOSE" /\ answer # "new"
  <2>1. d = [c EXCEPT !.main = m, !.price = s.price, !.state = "WAIT"]
    BY <1>3 DEF AnsweredChange
  <2>2. m \in {0} \cup Slots
    BY <1>0
  <2>3. m = IF answer = "gone" THEN 0 ELSE c.main
    OBVIOUS
  <2> HIDE DEF d, m
  <2>4. /\ d \in Case /\ d.type = c.type /\ d.cur = c.cur /\ d.opp = c.opp /\ d.to_close = c.to_close
        /\ d.original = c.original /\ d.size = c.size /\ d.main = m /\ d.state = "WAIT"
    BY <1>0, <2>1, <2>2 DEF Case
  <2>5. SameKind(c, d)
    BY <2>4, NoneTyped
  <2>6. ChangeAnswer(c, s, answer, d)
    BY <1>3, <2>3, <2>4 DEF ChangeAnswer
  <2> QED
    BY <2>5, <2>6 DEF d
<1>4. CASE s.to # "requote" /\ c.type # "CASE_4" /\ answer = "new"
  <2>1. d = [c EXCEPT !.price = s.price, !.size = n]
    BY <1>4 DEF AnsweredChange
  <2>2. n \in Int
    BY <1>0
  <2>3. n = IF s.size = 0 THEN c.size ELSE s.size
    OBVIOUS
  <2> HIDE DEF d, n
  <2>4. /\ d \in Case /\ d.type = c.type /\ d.cur = c.cur /\ d.opp = c.opp /\ d.to_close = c.to_close
        /\ d.original = c.original /\ d.size = n /\ d.main = c.main /\ d.state = c.state
    BY <1>0, <2>1, <2>2 DEF Case
  <2>5. SameKind(c, d)
    BY <2>4, NoneTyped
  <2>6. ChangeAnswer(c, s, answer, d)
    BY <1>4, <2>3, <2>4 DEF ChangeAnswer
  <2> QED
    BY <2>5, <2>6 DEF d
<1>5. CASE s.to # "requote" /\ c.type \notin {"CASE_4", "SOFT_CLOSE"} /\ answer # "new"
  <2>1. d = [c EXCEPT !.state = "WAIT"]
    BY <1>5 DEF AnsweredChange, Becomes
  <2> HIDE DEF d
  <2>4. /\ d \in Case /\ d.type = c.type /\ d.cur = c.cur /\ d.opp = c.opp /\ d.to_close = c.to_close
        /\ d.original = c.original /\ d.size = c.size /\ d.main = c.main /\ d.state = "WAIT"
    BY <1>0, <2>1 DEF Case
  <2>5. SameKind(c, d)
    BY <2>4, NoneTyped
  <2>6. ChangeAnswer(c, s, answer, d)
    BY <1>5, <2>4 DEF ChangeAnswer
  <2> QED
    BY <2>5, <2>6 DEF d
<1> QED
  BY <1>1, <1>2, <1>3, <1>4, <1>5

(* The calls of a run: one at the head of the list, and the case after it. *)
LEMMA CallNext ==
  ASSUME TypesInv, HeadRun, Then("trader", <<>>), todo["trader"] # <<>>, dying' = dying,
         tcase'.type = tcase.type, tcase'.cur = tcase.cur
  PROVE  ScriptInv' /\ todo' \in [Threads -> Seq(GoodStep)]
<1>1. "trader" \in Threads
  BY TheirThreads
<1>2. todo' \in [Threads -> Seq(GoodStep)] /\ todo'["trader"] = Tail(todo["trader"])
  BY <1>1, ThenNext
<1>3. <<>> \in Lists(tcase') /\ Tail(todo["trader"]) \in Seq(GoodStep)
  BY <1>1, ListsSame, HeadTailProperties DEF TypesInv
<1>4. <<>> \o Tail(todo["trader"]) = Tail(todo["trader"])
  BY <1>3, ConcatEmptySeq
<1> QED
  BY <1>2, <1>3, <1>4, RunningNext

LEMMA SentUnowned ==
  ASSUME Unowned, pending' = pending, NEW a, NEW op, NEW size, NEW id, NEW known,
         Sent(a, op, size, "none", id, known) \/ orders' = orders
  PROVE  Unowned'
BY DEF Unowned, Sent, Live

(* What a call may come to: an order with an answer, no order, or an order *)
(* that the thread has been told nothing of.                               *)
Answers(a, op, size, done, id) ==
  \/ FreeId(id) /\ Sent(a, op, size, done, id, TRUE)
  \/ id = 0 /\ orders' = orders /\ (size \notin 1..SizeLimit \/ op \in RefusedCalls)
  \/ id = 0 /\ Unheard(a, op, size, done)

LEMMA AnswersUnowned ==
  ASSUME Unowned, pending' = pending, NEW a, NEW op, NEW size, NEW id,
         Answers(a, op, size, "none", id)
  PROVE  Unowned'
BY SentUnowned DEF Answers, Unheard

LEMMA SendOrderStep ==
  ASSUME InstanceInv, SendOrder
  PROVE  /\ InstanceInv'
         /\ HeadRun /\ The("trader") \in GoodStep /\ tcase.type # "NONE"
         /\ \E id \in {0} \cup Slots :
              /\ tcase' = AnsweredNew(tcase, The("trader"), id)
              /\ Answers(The("trader").acct, The("trader").do, The("trader").size,
                         The("trader").done, id)
              /\ misled' = (misled \/ (id = 0 /\ orders' # orders))
<1> DEFINE s == The("trader")
<1>0. TypesInv /\ ScriptInv /\ OwnedInv /\ PairGood /\ "trader" \in Threads
  BY TypesParts, TheirThreads DEF InstanceInv
<1>1. /\ todo["trader"] # <<>> /\ s.do \in {"open", "close"} /\ Then("trader", <<>>)
      /\ UNCHANGED <<pos, total, booking, pending, leak, tranch, dying, current, trigger, prev_trigger,
                     estimate, estimate_prev, wait, flags, ended, crashed, hung, crossed, commands>>
  BY DEF SendOrder, AtHead, The
<1>2. HeadRun
  BY <1>0, CallHead DEF SendOrder
<1>3. s \in GoodStep /\ tcase.type # "NONE" /\ tcase \in GoodCase
  BY <1>0, <1>1, <1>2, StepOf, RunHead DEF TypesInv
<1>4. s.acct \in Accounts /\ s.size \in Int /\ s.done \in Callbacks
  BY <1>1, <1>3 DEF GoodStep, Step
<1>5. PICK id \in {0} \cup Slots : /\ Send(s.acct, s.do, s.size, s.done, Fresh, id)
                                   /\ tcase' = AnsweredNew(tcase, s, id)
                                   /\ misled' = (misled \/ (id = 0 /\ orders' # orders))
  BY DEF SendOrder
<1>6. ASSUME NEW a \in Accounts, NEW op \in {"open", "close"}, NEW size \in Int,
             NEW done \in Callbacks, Send(a, op, size, done, Fresh, id)
      PROVE  /\ orders' \in [Slots -> GoodOrder \cup {NoOrder}]
             /\ Answers(a, op, size, done, id)
  BY <1>0, <1>6, SendFacts DEF Answers
<1>7. /\ orders' \in [Slots -> GoodOrder \cup {NoOrder}]
      /\ Answers(s.acct, s.do, s.size, s.done, id)
  BY <1>1, <1>4, <1>5, <1>6
<1>8. SameKind(tcase, tcase')
  BY <1>3, <1>5, AnsweredNewFacts
<1>9. ScriptInv' /\ todo' \in [Threads -> Seq(GoodStep)]
  BY <1>0, <1>1, <1>2, <1>8, CallNext DEF SameKind
<1>10. TypesInv'
  <2>1. misled' \in BOOLEAN
    BY <1>0, <1>5 DEF TypesInv
  <2> QED
    BY <1>0, <1>1, <1>7, <1>8, <1>9, <2>1 DEF TypesInv, SameKind
<1>11. OwnedInv'
  <2>1. dying = NoCase
    BY <1>2 DEF HeadRun
  <2>2. tcase.type # "CASE_4" => Unowned /\ s.done = "none"
    <3>1. tcase.type # "CASE_4" => s \in MainSteps(tcase)
      BY <1>0, <1>2, RunHead DEF The
    <3> QED
      BY <1>0, <1>1, <2>1, <3>1 DEF MainSteps, OwnedInv, Owner
  <2>3. tcase.type # "CASE_4" => Unowned'
    BY <1>1, <1>7, <2>2, AnswersUnowned
  <2>4. Owner'.type = tcase.type
    BY <1>1, <1>8, <2>1 DEF Owner, SameKind
  <2> QED
    BY <2>3, <2>4 DEF OwnedInv
<1> QED
  BY <1>2, <1>3, <1>5, <1>7, <1>9, <1>10, <1>11 DEF InstanceInv

LEMMA ChangeOrderStep ==
  ASSUME InstanceInv, ChangeOrder
  PROVE  /\ InstanceInv'
         /\ HeadRun /\ The("trader") \in GoodStep /\ tcase.type # "NONE"
         /\ The("trader").size \in Nat
         /\ \E answer \in {"gone", "same", "new"} :
              /\ tcase' = AnsweredChange(tcase, The("trader"), answer)
              /\ \/ answer = "gone" /\ ~HasOrder(The("trader").id) /\ orders' = orders
                 \/ answer = "same" /\ HasOrder(The("trader").id) /\ orders' = orders
                 \/ answer = "new" /\ Changed(The("trader").id, The("trader").size, TRUE)
                 \/ /\ answer = "same" /\ orders' # orders
                    /\ Changed(The("trader").id, The("trader").size, FALSE)
              /\ misled' = (misled \/ (answer = "same" /\ orders' # orders))
<1> DEFINE s == The("trader")
<1>0. TypesInv /\ ScriptInv /\ OwnedInv /\ PairGood /\ "trader" \in Threads
  BY TypesParts, TheirThreads DEF InstanceInv
<1>1. /\ todo["trader"] # <<>> /\ s.do = "change" /\ Then("trader", <<>>)
      /\ UNCHANGED <<pos, total, booking, pending, tranch, dying, current, trigger, prev_trigger,
                     estimate, estimate_prev, wait, flags, ended, crashed, hung, crossed, commands>>
  BY DEF ChangeOrder, AtHead, The
<1>2. HeadRun
  BY <1>0, CallHead DEF ChangeOrder
<1>3. s \in GoodStep /\ tcase.type # "NONE" /\ tcase \in GoodCase
  BY <1>0, <1>1, <1>2, StepOf, RunHead DEF TypesInv
<1>4. s.size \in Nat
  BY <1>1, <1>3 DEF GoodStep
<1>5. PICK answer \in {"gone", "same", "new"} :
        /\ Change(s.id, s.size, answer)
        /\ tcase' = AnsweredChange(tcase, s, answer)
        /\ misled' = (misled \/ (answer = "same" /\ orders' # orders))
  BY DEF ChangeOrder
<1>6. ASSUME NEW id, NEW size \in Nat, Change(id, size, answer)
      PROVE  /\ orders' \in [Slots -> GoodOrder \cup {NoOrder}]
             /\ leak' \in [Accounts -> (-MaxLeak)..MaxLeak]
             /\ \/ answer = "gone" /\ ~HasOrder(id) /\ orders' = orders
                \/ answer = "same" /\ HasOrder(id) /\ orders' = orders
                \/ answer = "new" /\ Changed(id, size, TRUE)
                \/ answer = "same" /\ orders' # orders /\ Changed(id, size, FALSE)
  BY <1>0, <1>6, ChangeFacts
<1>7. /\ orders' \in [Slots -> GoodOrder \cup {NoOrder}]
      /\ leak' \in [Accounts -> (-MaxLeak)..MaxLeak]
      /\ \/ answer = "gone" /\ ~HasOrder(s.id) /\ orders' = orders
         \/ answer = "same" /\ HasOrder(s.id) /\ orders' = orders
         \/ answer = "new" /\ Changed(s.id, s.size, TRUE)
         \/ answer = "same" /\ orders' # orders /\ Changed(s.id, s.size, FALSE)
  BY <1>4, <1>5, <1>6
<1>8. SameKind(tcase, tcase')
  BY <1>3, <1>5, AnsweredChangeFacts
<1>9. ScriptInv' /\ todo' \in [Threads -> Seq(GoodStep)]
  BY <1>0, <1>1, <1>2, <1>8, CallNext DEF SameKind
<1>10. TypesInv'
  <2>1. misled' \in BOOLEAN
    BY <1>0, <1>5 DEF TypesInv
  <2> QED
    BY <1>0, <1>1, <1>7, <1>8, <1>9, <2>1 DEF TypesInv, SameKind
<1>11. OwnedInv'
  <2>1. dying = NoCase
    BY <1>2 DEF HeadRun
  <2>2. Unowned => Unowned'
    <3>1. CASE orders' = orders
      BY <1>1, <3>1 DEF Unowned, Live
    <3>2. ASSUME NEW known, Changed(s.id, s.size, known)  PROVE Unowned => Unowned'
      BY <1>1, <3>2 DEF Unowned, Changed
    <3> QED
      BY <1>7, <3>1, <3>2
  <2>3. Owner'.type = Owner.type
    BY <1>1, <1>8, <2>1 DEF Owner, SameKind
  <2> QED
    BY <1>0, <2>2, <2>3 DEF OwnedInv
<1> QED
  BY <1>2, <1>3, <1>4, <1>5, <1>7, <1>9, <1>10, <1>11 DEF InstanceInv

(* Only case 4 has these two steps in its list.                            *)
LEMMA PendingHead ==
  ASSUME TypesInv, ScriptInv, NEW l \in {"pending", "requote"}, AtHead("trader", l)
  PROVE  HeadRun /\ tcase.type = "CASE_4" /\ The("trader").acct = tcase.cur
         /\ The("trader").acct \in Accounts
<1>1. HeadRun
  BY CallHead
<1>2. \A s \in MainSteps(tcase) : s.do \notin {"pending", "requote"}
  BY DEF MainSteps
<1>3. tcase.type = "CASE_4" /\ Head(todo["trader"]) \in Case4Steps(tcase)
  BY <1>1, <1>2, RunHead DEF AtHead
<1> QED
  BY <1>1, <1>3 DEF Case4Steps, The, GoodStep, AtHead

LEMMA SendPendingStep ==
  ASSUME InstanceInv, SendPending
  PROVE  /\ InstanceInv'
         /\ HeadRun /\ tcase.type = "CASE_4" /\ The("trader").acct = tcase.cur
         /\ \/ orders' = orders /\ pending' = pending
            \/ \E id \in Slots :
                 /\ pending[tcase.cur] # <<>>
                 /\ Head(pending[tcase.cur]) \in Pending
                 /\ Sent(tcase.cur, "close", Head(pending[tcase.cur]).size,
                         Head(pending[tcase.cur]).done, id, TRUE)
                 /\ pending' = [pending EXCEPT ![tcase.cur] = Tail(@)]
            \/ misled'
         /\ misled => misled'
<1> DEFINE a == The("trader").acct
<1>0. TypesInv /\ ScriptInv /\ OwnedInv /\ PairGood /\ "trader" \in Threads
  BY TypesParts, TheirThreads DEF InstanceInv
<1>1. /\ todo["trader"] # <<>> /\ AtHead("trader", "pending") /\ Then("trader", <<>>)
      /\ UNCHANGED <<pos, total, booking, leak, tranch, tcase, dying, current, trigger, prev_trigger,
                     estimate, estimate_prev, wait, flags, ended, crashed, hung, crossed, commands>>
  BY DEF SendPending, AtHead
<1>2. HeadRun /\ tcase.type = "CASE_4" /\ a = tcase.cur /\ a \in Accounts
  BY <1>0, <1>1, PendingHead
<1>3. /\ orders' \in [Slots -> GoodOrder \cup {NoOrder}]
      /\ pending' \in [Accounts -> Seq(Pending)]
      /\ misled' \in BOOLEAN /\ (misled => misled')
      /\ \/ orders' = orders /\ pending' = pending
         \/ \E id \in Slots :
              /\ pending[a] # <<>>
              /\ Head(pending[a]) \in Pending
              /\ Sent(a, "close", Head(pending[a]).size, Head(pending[a]).done, id, TRUE)
              /\ pending' = [pending EXCEPT ![a] = Tail(@)]
         \/ misled'
  <2>0. misled \in BOOLEAN
    BY <1>0 DEF TypesInv
  <2>1. CASE pending[a] = <<>>
    BY <1>0, <2>0, <2>1 DEF SendPending, PairGood
  <2>2. CASE pending[a] # <<>>
    <3>1. Head(pending[a]) \in Pending /\ Tail(pending[a]) \in Seq(Pending)
      BY <1>0, <1>2, <2>2, HeadTailProperties DEF PairGood
    <3>2. PICK h \in Pending : h = Head(pending[a])
      BY <3>1
    <3>3. h.size \in Int /\ h.done \in Callbacks
      <4>1. h.size \in 0..SizeLimit /\ SizeLimit \in Nat /\ h.done \in Callbacks
        BY PairAssumption DEF Pending
      <4> QED
        BY <4>1
    <3>4. PICK id \in {0} \cup Slots :
            /\ Send(a, "close", h.size, h.done, Fresh, id)
            /\ pending' = IF id = 0 THEN pending ELSE [pending EXCEPT ![a] = Tail(@)]
            /\ misled' = (misled \/ (id = 0 /\ orders' # orders))
      BY <2>2, <3>2 DEF SendPending
    <3>5. ASSUME NEW op \in {"open", "close"}, NEW size \in Int,
                 NEW done \in Callbacks, Send(a, op, size, done, Fresh, id)
          PROVE  /\ orders' \in [Slots -> GoodOrder \cup {NoOrder}]
                 /\ Answers(a, op, size, done, id)
      BY <1>0, <1>2, <3>5, SendFacts DEF Answers
    <3>6. /\ orders' \in [Slots -> GoodOrder \cup {NoOrder}]
          /\ \/ FreeId(id) /\ Sent(a, "close", h.size, h.done, id, TRUE)
             \/ id = 0 /\ orders' = orders
             \/ id = 0 /\ orders' # orders
      <4>1. Answers(a, "close", h.size, h.done, id) /\ orders' \in [Slots -> GoodOrder \cup {NoOrder}]
        BY <3>3, <3>4, <3>5
      <4> QED
        BY <4>1 DEF Answers, Unheard
    <3>7. FreeId(id) => id \in Slots /\ id # 0
      BY PairAssumption DEF FreeId
    <3>8. pending' \in [Accounts -> Seq(Pending)]
      BY <1>0, <3>1, <3>4 DEF PairGood
    <3>9. misled' \in BOOLEAN /\ (misled => misled') /\ (id = 0 /\ orders' # orders => misled')
      BY <2>0, <3>4
    <3> QED
      BY <2>2, <3>1, <3>2, <3>4, <3>6, <3>7, <3>8, <3>9
  <2> QED
    BY <2>1, <2>2
<1>4. ScriptInv' /\ todo' \in [Threads -> Seq(GoodStep)]
  BY <1>0, <1>1, <1>2, CallNext
<1>5. TypesInv'
  BY <1>0, <1>1, <1>3, <1>4 DEF TypesInv
<1>6. OwnedInv'
  BY <1>1, <1>2 DEF OwnedInv, Owner, HeadRun
<1> QED
  BY <1>2, <1>3, <1>4, <1>5, <1>6 DEF InstanceInv

LEMMA SendRequotesStep ==
  ASSUME InstanceInv, SendRequotes
  PROVE  InstanceInv' /\ HeadRun /\ tcase.type = "CASE_4"
<1> DEFINE a == The("trader").acct
<1>0. TypesInv /\ ScriptInv /\ OwnedInv /\ PairGood /\ "trader" \in Threads
  BY TypesParts, TheirThreads DEF InstanceInv
<1>1. /\ todo["trader"] # <<>> /\ AtHead("trader", "requote")
      /\ UNCHANGED <<pairVars, tcase, dying, current, trigger, prev_trigger,
                     estimate, estimate_prev, wait, flags, ended, crashed, hung, misled,
                     crossed, commands>>
  BY DEF SendRequotes, AtHead
<1>2. HeadRun /\ tcase.type = "CASE_4" /\ a = tcase.cur /\ a \in Accounts
  BY <1>0, <1>1, PendingHead
<1>3. PICK q \in Quotes, holds \in BOOLEAN :
        Then("trader", IF holds THEN RequoteOrders(a, q) ELSE <<>>)
  BY DEF SendRequotes
<1>4. PICK l : l = IF holds THEN RequoteOrders(a, q) ELSE <<>>
  OBVIOUS
<1>5. l \in Seq(Case4Steps(tcase))
  <2>1. \A b \in Accounts : tcase.cur = b => RequoteOrders(b, q) \in Seq(Case4Steps(tcase))
    BY <1>0, RequotesAreCase4
  <2>2. RequoteOrders(a, q) \in Seq(Case4Steps(tcase)) /\ <<>> \in Seq(Case4Steps(tcase))
    BY <1>2, <2>1
  <2> QED
    BY <1>4, <2>2
<1>6. l \in Lists(tcase') /\ l \in Seq(GoodStep)
  <2>1. l \in Lists(tcase)
    BY <1>2, <1>5 DEF Lists
  <2>2. Lists(tcase) \subseteq Seq(GoodStep)
    BY ListsTyped
  <2> QED
    BY <1>1, <2>1, <2>2
<1>7. todo' \in [Threads -> Seq(GoodStep)] /\ todo'["trader"] = l \o Tail(todo["trader"])
  BY <1>0, <1>1, <1>3, <1>4, <1>6, ThenFacts
<1>8. ScriptInv'
  BY <1>0, <1>1, <1>2, <1>6, <1>7, RunningNext
<1>9. TypesInv'
  BY <1>0, <1>1, <1>7 DEF TypesInv, pairVars
<1>10. OwnedInv'
  BY <1>0, <1>1 DEF OwnedInv, Owner, Unowned, Live, pairVars
<1> QED
  BY <1>2, <1>8, <1>9, <1>10 DEF InstanceInv

LEMMA OutListed ==
  ASSUME NEW c \in GoodCase, c.type # "NONE", NEW o, GoodOut(c, o)
  PROVE  o.steps \in Lists(o.c)
<1>1. SameCase(c, o.c)
  BY DEF GoodOut
<1>2. CASE c.type = "CASE_4"
  BY <1>1, <1>2 DEF GoodOut, Case4Out, Lists, SameCase
<1>3. CASE c.type # "CASE_4"
  <2>1. OneCallOut(c, o.c, o.steps)
    BY <1>3 DEF GoodOut
  <2>2. o.steps = <<>> \/ \E s \in MainSteps(o.c) : o.steps = <<s>>
    BY <2>1 DEF OneCallOut
  <2> QED
    BY <1>1, <1>3, <2>2 DEF Lists, SameCase
<1> QED
  BY <1>2, <1>3

LEMMA RunCaseStep ==
  ASSUME InstanceInv, RunCase
  PROVE  /\ InstanceInv'
         /\ dying = NoCase /\ Tail(todo["trader"]) = <<Do("finish")>>
         /\ \/ tcase = NoCase /\ tcase' = tcase /\ trigger' = trigger
               /\ todo'["trader"] = <<Do("finish")>>
            \/ tcase # NoCase /\ \E o : /\ GoodOut(tcase, o) /\ tcase' = o.c /\ trigger' = o.trigger
                                        /\ todo'["trader"] = o.steps \o <<Do("finish")>>
         /\ misled' = (misled \/ (tcase # NoCase /\ Lagging))
<1>0. TypesInv /\ ScriptInv /\ OwnedInv /\ PairGood /\ "trader" \in Threads
  BY TypesParts, TheirThreads DEF InstanceInv
<1>1. /\ todo["trader"] # <<>> /\ AtHead("trader", "run")
      /\ UNCHANGED <<pairVars, dying, current, prev_trigger, estimate,
                     estimate_prev, wait, flags, ended, crashed, hung, crossed, commands>>
  BY DEF RunCase, AtHead
<1>2. dying = NoCase /\ Tail(todo["trader"]) = <<Do("finish")>>
  <2>1. "run" \in Stages /\ After("run") = <<Do("finish")>>
    BY DEF Stages, After
  <2> QED
    BY <1>0, <1>1, <2>1, RoundHead
<1>3. CASE tcase = NoCase
  <2>1. tcase' = tcase /\ trigger' = trigger /\ misled' = misled /\ Then("trader", <<>>)
    BY <1>3 DEF RunCase
  <2>2. todo' \in [Threads -> Seq(GoodStep)] /\ todo'["trader"] = <<Do("finish")>>
    BY <1>0, <1>1, <1>2, <2>1, ThenNext
  <2>3. <<Do("finish")>> \in Running(tcase')
    <3>1. PICK p : p = <<>>
      OBVIOUS
    <3>2. p \in Lists(tcase')
      BY <3>1, ListsSame
    <3>3. p \o <<Do("finish")>> \in Running(tcase')
      BY <3>2 DEF Running
    <3>4. Do("finish") \in GoodStep
      BY LabelSteps
    <3>5. \A e \in GoodStep : <<>> \o <<e>> = <<e>>
      OBVIOUS
    <3> QED
      BY <3>1, <3>3, <3>4, <3>5
  <2>4. ScriptInv'
    BY <1>1, <1>2, <2>2, <2>3, RoundNext
  <2>5. TypesInv'
    BY <1>0, <1>1, <2>1, <2>2 DEF TypesInv, pairVars
  <2>6. OwnedInv'
    BY <1>0, <1>1, <2>1 DEF OwnedInv, Owner, Unowned, Live, pairVars
  <2> QED
    BY <1>0, <1>2, <1>3, <2>1, <2>2, <2>4, <2>5, <2>6 DEF InstanceInv, TypesInv
<1>4. CASE tcase # NoCase
  <2>1. tcase \in GoodCase /\ tcase.type # "NONE" /\ trigger \in Triggers
    BY <1>0, <1>4 DEF TypesInv, GoodCase
  <2>2. PICK q \in Quotes, thin \in BOOLEAN :
          \E o \in Run(tcase, trigger, q, thin) :
            /\ tcase' = o.c /\ trigger' = o.trigger /\ Then("trader", o.steps)
            /\ misled' = (misled \/ Lagging)
    BY <1>4 DEF RunCase
  <2>3. PICK o \in Run(tcase, trigger, q, thin) :
          /\ tcase' = o.c /\ trigger' = o.trigger /\ Then("trader", o.steps)
          /\ misled' = (misled \/ Lagging)
    BY <2>2
  <2>4. GoodOut(tcase, o)
    <3>1. ASSUME NEW c \in GoodCase, c.type # "NONE", NEW ts \in Triggers, NEW e \in Run(c, ts, q, thin)
          PROVE  GoodOut(c, e)
      BY <1>0, <3>1, RunOut
    <3> QED
      BY <2>1, <3>1
  <2>5. o.steps \in Lists(tcase')
    BY <2>1, <2>3, <2>4, OutListed
  <2>6. o.steps \in Seq(GoodStep)
    <3>1. Lists(tcase') \subseteq Seq(GoodStep)
      BY ListsTyped
    <3> QED
      BY <2>5, <3>1
  <2>7. /\ todo' \in [Threads -> Seq(GoodStep)]
        /\ todo'["trader"] = o.steps \o <<Do("finish")>>
    BY <1>0, <1>1, <1>2, <2>3, <2>6, ThenFacts
  <2>8. SameCase(tcase, tcase') /\ trigger' \in Triggers
    BY <2>3, <2>4 DEF GoodOut
  <2>9. ScriptInv'
    <3>1. o.steps \o <<Do("finish")>> \in Running(tcase')
      BY <2>5 DEF Running
    <3> QED
      BY <1>1, <1>2, <2>7, <3>1, RoundNext
  <2>10. TypesInv'
    <3>1. misled' \in BOOLEAN
      BY <1>0, <2>3 DEF TypesInv
    <3> QED
      BY <1>0, <1>1, <2>7, <2>8, <3>1 DEF TypesInv, pairVars, SameCase
  <2>11. OwnedInv'
    BY <1>0, <1>1, <1>2, <2>8 DEF OwnedInv, Owner, Unowned, Live, pairVars, SameCase
  <2> QED
    BY <1>2, <1>4, <2>3, <2>4, <2>7, <2>9, <2>10, <2>11 DEF InstanceInv
<1> QED
  BY <1>3, <1>4

LEMMA CrashStep ==
  ASSUME InstanceInv, Crash
  PROVE  InstanceInv'
<1>0. TypesInv /\ ScriptInv /\ OwnedInv
  BY DEF InstanceInv
<1>1. UNCHANGED <<pairVars, tcase, dying, todo, current, trigger, prev_trigger,
                  estimate, estimate_prev, wait, flags, ended, hung, misled, crossed,
                  commands>> /\ crashed' = TRUE
  BY DEF Crash
<1>2. TypesInv'
  BY <1>0, <1>1 DEF TypesInv, pairVars
<1>3. ScriptInv'
  BY <1>0, <1>1, KeepsScript
<1>4. OwnedInv'
  BY <1>0, <1>1 DEF OwnedInv, Owner, Unowned, Live, pairVars
<1> QED
  BY <1>2, <1>3, <1>4 DEF InstanceInv

(* A case that is given up, or that a new one replaces, still owns the     *)
(* orders.                                                                 *)
LEMMA ReplacedOwned ==
  ASSUME TypesInv, OwnedInv, dying = NoCase, dying' = tcase, UNCHANGED pairVars
  PROVE  OwnedInv'
<1>1. Unowned => Unowned'
  BY DEF Unowned, Live, pairVars
<1>2. CASE tcase = NoCase
  BY <1>1, <1>2 DEF OwnedInv, Owner, NoCase, NewCase
<1>3. CASE tcase # NoCase
  BY <1>1, <1>3 DEF OwnedInv, Owner
<1> QED
  BY <1>2, <1>3

LEMMA BuryStep ==
  ASSUME InstanceInv, Bury
  PROVE  /\ InstanceInv'
         /\ dying # NoCase /\ tcase.state = "INIT" /\ tcase.main = 0
         /\ Tail(todo["trader"]) \in Rounds /\ todo'["trader"] = Tail(todo["trader"])
         /\ Live' = Live
         /\ \A i \in Live : /\ orders'[i].acct = orders[i].acct /\ orders'[i].op = orders[i].op
                            /\ orders'[i].left = orders[i].left /\ orders'[i].size = orders[i].size
                            /\ orders'[i].known = orders[i].known
                            /\ orders'[i].done = IF orders[i].done = "none" THEN "none" ELSE "dangling"
         /\ \A a \in Accounts : pending'[a] \in Seq(Pending) /\ Len(pending'[a]) = Len(pending[a])
<1>0. TypesInv /\ ScriptInv /\ OwnedInv /\ PairGood /\ "trader" \in Threads
  BY TypesParts, TheirThreads DEF InstanceInv
<1> DEFINE lost(d) == IF d = "none" THEN d ELSE "dangling"
<1>1. /\ todo["trader"] # <<>> /\ AtHead("trader", "bury") /\ Then("trader", <<>>)
      /\ dying' = NoCase
      /\ orders' = [i \in Slots |-> IF i \in Live THEN [orders[i] EXCEPT !.done = lost(@)]
                                    ELSE NoOrder]
      /\ pending' = [a \in Accounts |-> [k \in DOMAIN pending[a] |->
                                           [pending[a][k] EXCEPT !.done = lost(@)]]]
      /\ wait' = IF Equal THEN [window |-> TRUE, avicenna |-> estimate] ELSE wait
      /\ UNCHANGED <<pos, total, booking, leak, tranch, tcase, current, trigger, prev_trigger,
                     estimate, estimate_prev, flags, ended, crashed, hung, misled, crossed,
                     commands>>
  BY DEF Bury, AtHead
<1>2. dying.type # "NONE" /\ tcase.state = "INIT" /\ tcase.main = 0 /\ Tail(todo["trader"]) \in Rounds
  BY <1>0, <1>1, BuryHead
<1>3. todo' \in [Threads -> Seq(GoodStep)] /\ todo'["trader"] = Tail(todo["trader"])
  BY <1>0, <1>1, ThenNext
<1>4. \A d \in Callbacks : lost(d) \in Callbacks /\ lost(d) \in {"none", "dangling"}
                           /\ lost(d) = IF d = "none" THEN "none" ELSE "dangling"
  BY DEF Callbacks
<1> HIDE DEF lost
<1>5. ASSUME NEW i \in Live
      PROVE  LET n == [orders[i] EXCEPT !.done = lost(@)] IN
             /\ n \in GoodOrder /\ n # NoOrder
             /\ n.acct = orders[i].acct /\ n.op = orders[i].op /\ n.left = orders[i].left
             /\ n.size = orders[i].size /\ n.done = lost(orders[i].done)
             /\ n.known = orders[i].known
  <2>1. PICK o \in GoodOrder : o = orders[i]
    BY <1>0, LiveOrders
  <2>2. o \in Order /\ o.left <= o.size /\ o.done \in Callbacks
    BY DEF GoodOrder, Order
  <2>3. PICK d \in Callbacks : d = lost(o.done)
    BY <1>4, <2>2
  <2>4. LET n == [o EXCEPT !.done = d] IN
        /\ n \in Order /\ n.acct = o.acct /\ n.op = o.op /\ n.left = o.left
        /\ n.size = o.size /\ n.done = d /\ n.known = o.known
    BY <2>2 DEF Order
  <2>5. \A n \in Order : n.left <= n.size => n \in GoodOrder /\ n # NoOrder
    BY NoOrderIsNone DEF GoodOrder
  <2>6. LET n == [o EXCEPT !.done = d] IN
        /\ n \in GoodOrder /\ n # NoOrder /\ n.acct = o.acct /\ n.op = o.op /\ n.left = o.left
        /\ n.size = o.size /\ n.done = d /\ n.known = o.known
    BY <2>2, <2>4, <2>5
  <2> QED
    BY <2>1, <2>3, <2>6
<1>6. orders' \in [Slots -> GoodOrder \cup {NoOrder}] /\ Live' = Live
  <2>1. orders' \in [Slots -> GoodOrder \cup {NoOrder}]
    BY <1>1, <1>5
  <2>2. \A i \in Slots : orders'[i] = IF i \in Live THEN [orders[i] EXCEPT !.done = lost(@)]
                                      ELSE NoOrder
    BY <1>1
  <2>3. \A i \in Slots : orders'[i] # NoOrder <=> i \in Live
    BY <1>5, <2>2
  <2> QED
    BY <2>1, <2>3 DEF Live
<1>7. \A i \in Live : /\ orders'[i].acct = orders[i].acct /\ orders'[i].op = orders[i].op
                      /\ orders'[i].left = orders[i].left /\ orders'[i].size = orders[i].size
                      /\ orders'[i].known = orders[i].known
                      /\ orders'[i].done = lost(orders[i].done)
                      /\ orders[i].done \in Callbacks
  <2>1. \A i \in Live : i \in Slots /\ orders[i].done \in Callbacks
    BY <1>0, LiveOrders
  <2> QED
    BY <1>1, <1>5, <2>1
<1>8. ASSUME NEW a \in Accounts
      PROVE  /\ pending'[a] \in Seq(Pending)
             /\ Len(pending'[a]) = Len(pending[a])
             /\ \A k \in 1..Len(pending[a]) : /\ pending'[a][k].done \in {"none", "dangling"}
                                              /\ pending'[a][k].size = pending[a][k].size
  <2>1. pending[a] \in Seq(Pending)
    BY <1>0 DEF PairGood
  <2> DEFINE e(k) == [pending[a][k] EXCEPT !.done = lost(@)]
             m == Len(pending[a])
  <2>2. ASSUME NEW k \in 1..m
        PROVE  e(k) \in Pending /\ e(k).done \in {"none", "dangling"} /\ e(k).size = pending[a][k].size
    <3>1. PICK o \in Pending : o = pending[a][k]
      BY <2>1
    <3>2. o.done \in Callbacks
      BY DEF Pending
    <3>3. PICK d \in Callbacks : d = lost(o.done) /\ d \in {"none", "dangling"}
      BY <1>4, <3>2
    <3>4. LET n == [o EXCEPT !.done = d] IN n \in Pending /\ n.done = d /\ n.size = o.size
      BY DEF Pending
    <3> QED
      BY <3>1, <3>3, <3>4
  <2>3. m \in Nat /\ DOMAIN pending[a] = 1..m
    BY <2>1
  <2>4. pending'[a] = [k \in 1..m |-> e(k)]
    BY <1>1, <2>3
  <2> HIDE DEF e, m
  <2>5. pending'[a] \in Seq(Pending) /\ Len(pending'[a]) = m
    BY <2>2, <2>3, <2>4, IsASeq
  <2>6. \A k \in 1..m : pending'[a][k] = e(k)
    BY <2>4
  <2>7. m = Len(pending[a])
    BY DEF m
  <2> QED
    BY <2>2, <2>5, <2>6, <2>7
<1>9. TypesInv'
  <2>1. pending' \in [Accounts -> Seq(Pending)]
    BY <1>1, <1>8
  <2>2. wait' \in [window : BOOLEAN, avicenna : {0} \cup Estimates]
    BY <1>0, <1>1 DEF TypesInv
  <2>3. dying' \in GoodCase
    BY <1>1, NoCaseIsCase
  <2> QED
    BY <1>0, <1>1, <1>3, <1>6, <2>1, <2>2, <2>3 DEF TypesInv
<1>10. OwnedInv'
  <2>1. Unowned'
    BY <1>4, <1>6, <1>7, <1>8 DEF Unowned
  <2> QED
    BY <2>1 DEF OwnedInv
<1>11. ScriptInv'
  BY <1>1, <1>2, <1>3, RoundNext
<1>12. dying # NoCase
  BY <1>2 DEF NoCase, NewCase
<1>13. \A i \in Live : orders'[i].done = IF orders[i].done = "none" THEN "none" ELSE "dangling"
  BY <1>4, <1>7
<1> QED
  BY <1>2, <1>3, <1>6, <1>7, <1>8, <1>9, <1>10, <1>11, <1>12, <1>13 DEF InstanceInv

(* The case that is selected.                                              *)
NextCase(a, e) == IF CaseType(a, e) = "NONE" THEN NoCase ELSE NewCase(CaseType(a, e), a, Other(a))

NewOne(c) == c \in GoodCase /\ c.state = "INIT" /\ c.main = 0

LEMMA NextCaseFacts ==
  ASSUME NEW a \in Accounts, NEW e
  PROVE  /\ NewOne(NextCase(a, e))
         /\ NextCase(a, e).type \notin Specials
         /\ NextCase(a, e).type # "NONE" => NextCase(a, e).cur = a
         /\ NextCase(a, e).type = "CASE_4" => total[a] = 0 /\ total[Other(a)] = 0
<1>1. CaseType(a, e) \in {"CASE_4", "CASE_9", "CASE_10", "HEDGECURRENT", "NONE"}
  BY DEF CaseType
<1>2. CaseType(a, e) = "CASE_4" => total[a] = 0 /\ total[Other(a)] = 0
  BY DEF CaseType
<1>3. CASE CaseType(a, e) = "NONE"
  BY <1>3, NoCaseIsCase DEF NextCase, NewOne, NoCase, NewCase, Specials
<1>4. CASE CaseType(a, e) # "NONE"
  <2>1. CaseType(a, e) \in Types \ {"NONE"} /\ CaseType(a, e) \notin Specials
    BY <1>1, <1>4 DEF Types, Specials
  <2>2. PICK t \in Types \ {"NONE"} : t = CaseType(a, e)
    BY <2>1
  <2>3. NewCase(t, a, Other(a)) \in GoodCase
    BY NewIsCase
  <2>4. NextCase(a, e) = NewCase(t, a, Other(a))
    BY <1>4, <2>2 DEF NextCase
  <2>5. LET n == NewCase(t, a, Other(a)) IN n.type = t /\ n.state = "INIT" /\ n.main = 0 /\ n.cur = a
    BY DEF NewCase
  <2> QED
    BY <1>2, <2>1, <2>2, <2>3, <2>4, <2>5 DEF NewOne
<1> QED
  BY <1>3, <1>4

(* What a selection leaves: the same case, or a new one and the destructor *)
(* of the old one before the rest of the list.                             *)
Selects ==
  \/ /\ tcase' = tcase /\ dying' = dying
     /\ Then("trader", <<>>)
  \/ /\ NewOne(tcase')
     /\ Replace(tcase')

LEMMA CaseSelectionFacts ==
  ASSUME TypesInv, NEW a \in Accounts, NEW e, CaseSelection(a, e)
  PROVE  /\ tcase' = NextCase(a, e) /\ NewOne(tcase') /\ Replace(tcase')
         /\ wait' \in [window : BOOLEAN, avicenna : {0} \cup Estimates]
         /\ misled' = (misled \/ Lagging) /\ misled' \in BOOLEAN
<1>1. Replace(NextCase(a, e)) /\ misled' = (misled \/ Lagging)
  BY DEF CaseSelection, NextCase
<1>2. tcase' = NextCase(a, e)
  BY <1>1 DEF Replace
<1>3. wait' \in [window : BOOLEAN, avicenna : {0} \cup Estimates]
  <2>1. ASSUME NEW w \in [window : BOOLEAN, avicenna : {0} \cup Estimates]
        PROVE  [w EXCEPT !.window = FALSE] \in [window : BOOLEAN, avicenna : {0} \cup Estimates]
    OBVIOUS
  <2>2. wait \in [window : BOOLEAN, avicenna : {0} \cup Estimates]
    BY DEF TypesInv
  <2> QED
    BY <2>1, <2>2 DEF CaseSelection
<1>4. misled' \in BOOLEAN
  BY <1>1 DEF TypesInv
<1> QED
  BY <1>1, <1>2, <1>3, <1>4, NextCaseFacts

(* Any of them keeps the list in form.                                     *)
LEMMA SelectsKeeps ==
  ASSUME InstanceInv, dying = NoCase, UNCHANGED pairVars, Selects,
         todo["trader"] # <<>>, Tail(todo["trader"]) \in Rounds
  PROVE  /\ ScriptInv' /\ OwnedInv'
         /\ tcase' \in GoodCase /\ dying' \in GoodCase
         /\ todo' \in [Threads -> Seq(GoodStep)]
<1>0. TypesInv /\ ScriptInv /\ OwnedInv /\ PairGood /\ "trader" \in Threads /\ tcase \in GoodCase
      /\ dying \in GoodCase
  BY TypesParts, TheirThreads DEF InstanceInv, TypesInv
<1>1. CASE NewOne(tcase') /\ Replace(tcase')
  <2>1. \A n \in GoodCase : n.state = "INIT" /\ n.main = 0 /\ Replace(n) =>
          /\ tcase' = n /\ dying' = tcase
          /\ todo' \in [Threads -> Seq(GoodStep)]
          /\ ScriptInv'
    BY <1>0, ReplaceFacts
  <2>2. dying' = tcase /\ todo' \in [Threads -> Seq(GoodStep)] /\ ScriptInv' /\ tcase' \in GoodCase
    BY <1>1, <2>1 DEF NewOne
  <2> QED
    BY <1>0, <2>2, ReplacedOwned
<1>2. CASE tcase' = tcase /\ dying' = dying /\ Then("trader", <<>>)
  <2>1. todo' \in [Threads -> Seq(GoodStep)] /\ todo'["trader"] = Tail(todo["trader"])
    BY <1>0, <1>2, ThenNext
  <2>2. ScriptInv'
    BY <1>2, <2>1, RoundNext
  <2>3. OwnedInv'
    BY <1>0, <1>2 DEF OwnedInv, Owner, Unowned, Live, pairVars
  <2> QED
    BY <1>0, <1>2, <2>1, <2>2, <2>3
<1> QED
  BY <1>1, <1>2 DEF Selects

LEMMA EmptyList ==
  ASSUME ScriptInv, todo["trader"] = <<>>
  PROVE  dying = NoCase
<1>1. PICK n \in 0..5, t \in Seq(GoodStep) : Scripted(todo["trader"], n, t, tcase, dying)
  BY DEF ScriptInv
<1>2. n = 0
  <2>1. ASSUME n # 0  PROVE FALSE
    <3>1. n \in 1..5
      BY <2>1
    <3>2. Rites(n, t) # <<>>
      BY <3>1, NextRite
    <3> QED
      BY <1>1, <3>2 DEF Scripted
  <2> QED
    BY <2>1
<1> QED
  BY <1>1, <1>2 DEF Scripted

LEMMA ShortLists ==
  ASSUME NEW S, NEW a \in S, NEW b \in S, NEW c \in S
  PROVE  <<a>> \o <<b>> = <<a, b>> /\ <<a>> \o <<b, c>> = <<a, b, c>>
<1>1. /\ <<a>> \in Seq(S) /\ Len(<<a>>) = 1 /\ <<a>>[1] = a
      /\ <<b>> \in Seq(S) /\ Len(<<b>>) = 1 /\ <<b>>[1] = b
      /\ <<b, c>> \in Seq(S) /\ Len(<<b, c>>) = 2 /\ <<b, c>>[1] = b /\ <<b, c>>[2] = c
      /\ <<a, b>> \in Seq(S) /\ Len(<<a, b>>) = 2 /\ <<a, b>>[1] = a /\ <<a, b>>[2] = b
      /\ <<a, b, c>> \in Seq(S) /\ Len(<<a, b, c>>) = 3
      /\ <<a, b, c>>[1] = a /\ <<a, b, c>>[2] = b /\ <<a, b, c>>[3] = c
  OBVIOUS
<1>2. PICK l, m : l = <<a>> \o <<b, c>> /\ m = <<a>> \o <<b>>
  OBVIOUS
<1>3. /\ l \in Seq(S) /\ Len(l) = 1 + 2
      /\ \A i \in 1..(1 + 2) : l[i] = IF i <= 1 THEN <<a>>[i] ELSE <<b, c>>[i - 1]
      /\ m \in Seq(S) /\ Len(m) = 1 + 1
      /\ \A i \in 1..(1 + 1) : m[i] = IF i <= 1 THEN <<a>>[i] ELSE <<b>>[i - 1]
  BY <1>1, <1>2, ConcatProperties
<1>4. l[1] = a /\ l[2] = b /\ l[3] = c /\ Len(l) = 3 /\ m[1] = a /\ m[2] = b /\ Len(m) = 2
  BY <1>1, <1>3
<1>5. (\A i \in 1..3 : l[i] = <<a, b, c>>[i]) /\ \A i \in 1..2 : m[i] = <<a, b>>[i]
  BY <1>1, <1>4
<1>6. l = <<a, b, c>> /\ m = <<a, b>>
  BY <1>1, <1>3, <1>4, <1>5, SeqEqual
<1> QED
  BY <1>2, <1>6

LEMMA TwoInFront ==
  ASSUME NEW S, NEW a \in S, NEW b \in S, NEW t \in Seq(S)
  PROVE  <<a, b>> \in Seq(S) /\ <<a, b>> \o t = <<a>> \o (<<b>> \o t)
<1>0. <<a, b>> = <<a>> \o <<b>>
  BY ShortLists
<1>1. <<a>> \in Seq(S) /\ <<b>> \in Seq(S) /\ <<a, b>> \in Seq(S)
  OBVIOUS
<1>2. PICK x, y : x = <<a>> /\ y = <<b>>
  OBVIOUS
<1>3. (x \o y) \o t = x \o (y \o t)
  BY <1>1, <1>2, ConcatAssociative
<1> QED
  BY <1>0, <1>1, <1>2, <1>3

LEMMA ShortSteps ==
  /\ \A x \in GoodStep : <<x>> \in Seq(GoodStep)
  /\ \A x, y \in GoodStep : <<x, y>> \in Seq(GoodStep)
  /\ <<>> \in Seq(GoodStep)
  /\ FromRun \in Seq(GoodStep)
  /\ \A x, y \in GoodStep : <<x, y>> \o FromRun = <<x>> \o (<<y>> \o FromRun)
<1>1. /\ \A x \in GoodStep : <<x>> \in Seq(GoodStep)
      /\ \A x, y \in GoodStep : <<x, y>> \in Seq(GoodStep)
      /\ <<>> \in Seq(GoodStep)
  OBVIOUS
<1>2. FromRun \in Seq(GoodStep)
  <2>1. From("run") = FromRun /\ "run" \in Stages
    BY DEF From, After, FromRun, Stages
  <2>2. From("run") \in Rounds
    BY <2>1, RoundFacts
  <2> QED
    BY <2>1, <2>2, RoundFacts
<1>3. \A x, y \in GoodStep : <<x, y>> \o FromRun = <<x>> \o (<<y>> \o FromRun)
  BY <1>2, TwoInFront
<1> QED
  BY <1>1, <1>2, <1>3

(* A flag that is read puts what it decides on before the rest.            *)
LEMMA BranchFacts ==
  ASSUME NEW l \in {"special", "panic init", "soft special", "soft init"}
  PROVE  Branch(l) \in Seq(GoodStep) /\ Branch(l) \o After(l) \in Rounds
<1>1. \A k \in Stages : Do(k) \in GoodStep /\ From(k) \in Rounds
  BY LabelSteps, RoundFacts
<1>3. After(l) = FromRun
  BY DEF After
<1>4. ASSUME NEW k \in {"panic init", "soft special", "soft init"}, Branch(l) = <<Do(k)>>
      PROVE  Branch(l) \in Seq(GoodStep) /\ Branch(l) \o FromRun \in Rounds
  <2>1. k \in Stages /\ From(k) = <<Do(k)>> \o FromRun
    BY DEF Stages, From, After
  <2>2. Do(k) \in GoodStep /\ From(k) \in Rounds
    BY <1>1, <2>1
  <2> QED
    BY ShortSteps, <1>4, <2>1, <2>2
<1>5. ASSUME NEW j \in {"disarm panic", "disarm soft", "select"},
             NEW k \in {"panic case", "soft case", "trigger"},
             After(j) = <<Do(k)>> \o FromRun, Branch(l) = <<Do(j), Do(k)>>
      PROVE  Branch(l) \in Seq(GoodStep) /\ Branch(l) \o FromRun \in Rounds
  <2>1. j \in Stages /\ k \in Stages
    BY DEF Stages
  <2>2. Do(j) \in GoodStep /\ Do(k) \in GoodStep /\ From(j) \in Rounds
    BY <1>1, <2>1
  <2>3. PICK x \in GoodStep : x = Do(j)
    BY <2>2
  <2>6. PICK y \in GoodStep : y = Do(k)
    BY <2>2
  <2>4. <<x, y>> \o FromRun = <<x>> \o (<<y>> \o FromRun)
    BY ShortSteps
  <2>5. From(j) = <<x>> \o (<<y>> \o FromRun)
    BY <1>5, <2>3, <2>6 DEF From
  <2> QED
    BY ShortSteps, <1>5, <2>2, <2>3, <2>4, <2>5, <2>6
<1>6. ASSUME Branch(l) = <<>>
      PROVE  Branch(l) \in Seq(GoodStep) /\ Branch(l) \o FromRun \in Rounds
  <2>1. From("run") = FromRun /\ "run" \in Stages
    BY DEF From, After, FromRun, Stages
  <2>2. <<>> \o FromRun = FromRun
    BY ShortSteps, ConcatEmptySeq
  <2> QED
    BY ShortSteps, <1>1, <1>6, <2>1, <2>2
<1>7. /\ After("disarm panic") = <<Do("panic case")>> \o FromRun
      /\ After("disarm soft") = <<Do("soft case")>> \o FromRun
      /\ After("select") = <<Do("trigger")>> \o FromRun
  BY DEF After
<1>8. CASE l = "special"
  <2>1. Branch(l) = <<Do("panic init")>> \/ Branch(l) = <<Do("soft special")>>
    BY <1>8 DEF Branch
  <2> QED
    BY <1>3, <1>4, <2>1
<1>9. CASE l = "panic init"
  <2>1. Branch(l) = <<Do("disarm panic"), Do("panic case")>> \/ Branch(l) = <<>>
    BY <1>9 DEF Branch
  <2> QED
    BY <1>3, <1>5, <1>6, <1>7, <2>1
<1>10. CASE l = "soft special"
  <2>1. Branch(l) = <<Do("soft init")>> \/ Branch(l) = <<Do("select"), Do("trigger")>>
    BY <1>10 DEF Branch
  <2> QED
    BY <1>3, <1>4, <1>5, <1>7, <2>1
<1>11. CASE l = "soft init"
  <2>1. Branch(l) = <<Do("disarm soft"), Do("soft case")>> \/ Branch(l) = <<>>
    BY <1>11 DEF Branch
  <2> QED
    BY <1>3, <1>5, <1>6, <1>7, <2>1
<1> QED
  BY <1>8, <1>9, <1>10, <1>11

LEMMA ReadFlagStep ==
  ASSUME InstanceInv, ReadFlag
  PROVE  InstanceInv' /\ dying = NoCase /\ Tail(todo["trader"]) \in Rounds
<1>0. TypesInv /\ ScriptInv /\ OwnedInv /\ "trader" \in Threads
  BY TheirThreads DEF InstanceInv
<1>1. PICK l \in {"special", "panic init", "soft special", "soft init"} :
        AtHead("trader", l) /\ Then("trader", Branch(l))
  BY DEF ReadFlag
<1>2. UNCHANGED <<pairVars, tcase, dying, current, trigger, prev_trigger, estimate,
                  estimate_prev, wait, flags, ended, crashed, hung, misled, crossed,
                  commands>> /\ todo["trader"] # <<>>
  BY <1>1 DEF ReadFlag, AtHead
<1>3. l \in Stages /\ l # "run"
  BY DEF Stages
<1>4. dying = NoCase /\ Tail(todo["trader"]) = After(l)
  BY <1>0, <1>1, <1>3, RoundHead
<1>5. Branch(l) \in Seq(GoodStep) /\ Branch(l) \o After(l) \in Rounds /\ After(l) \in Rounds
  BY <1>3, BranchFacts, RoundFacts
<1>6. todo' \in [Threads -> Seq(GoodStep)] /\ todo'["trader"] = Branch(l) \o After(l)
  BY <1>0, <1>1, <1>2, <1>4, <1>5, ThenFacts
<1>7. ScriptInv'
  BY <1>2, <1>4, <1>5, <1>6, RoundNext
<1>8. TypesInv'
  BY <1>0, <1>2, <1>6 DEF TypesInv, pairVars
<1>9. OwnedInv'
  BY <1>0, <1>2 DEF OwnedInv, Owner, Unowned, Live, pairVars
<1> QED
  BY <1>4, <1>5, <1>7, <1>8, <1>9 DEF InstanceInv

LEMMA SpecialCaseStep ==
  ASSUME InstanceInv, NEW l \in {"panic case", "soft case"}, NEW type \in Specials,
         SpecialCase(l, type)
  PROVE  /\ InstanceInv'
         /\ dying = NoCase /\ Tail(todo["trader"]) \in Rounds
         /\ NewOne(tcase') /\ Replace(tcase') /\ tcase'.type = type
<1>0. TypesInv /\ ScriptInv /\ OwnedInv /\ "trader" \in Threads
  BY TheirThreads DEF InstanceInv
<1>1. PICK n : n = NewCase(type, current, IF current = NoAcc THEN NoAcc ELSE Other(current))
  OBVIOUS
<1>2. /\ AtHead("trader", l) /\ todo["trader"] # <<>> /\ Replace(n)
      /\ UNCHANGED <<pairVars, current, trigger, prev_trigger, estimate, estimate_prev,
                     wait, flags, ended, crashed, hung, misled, crossed, commands>>
  BY <1>1 DEF SpecialCase, AtHead
<1>3. l \in Stages /\ l # "run"
  BY DEF Stages
<1>4. dying = NoCase /\ Tail(todo["trader"]) \in Rounds
  <2>1. dying = NoCase /\ Tail(todo["trader"]) = After(l)
    BY <1>0, <1>2, <1>3, RoundHead
  <2> QED
    BY <1>3, <2>1, RoundFacts
<1>5. NewOne(n) /\ n.type = type
  <2>1. current \in Accounts \/ current = NoAcc
    BY <1>0 DEF TypesInv
  <2>2. type \in Types \ {"NONE"}
    BY DEF Specials, Types
  <2>3. n \in GoodCase
    <3>1. CASE current = NoAcc
      <4>1. n = NewCase(type, NoAcc, NoAcc)
        BY <1>1, <3>1
      <4> QED
        BY <4>1, NewSpecialIsCase
    <3>2. CASE current \in Accounts
      <4>1. n = NewCase(type, current, Other(current))
        BY <1>1, <3>2, NoAccIsNone
      <4>2. \A a \in Accounts : NewCase(type, a, Other(a)) \in GoodCase
        BY <2>2, NewIsCase
      <4> QED
        BY <3>2, <4>1, <4>2
    <3> QED
      BY <2>1, <3>1, <3>2
  <2> QED
    BY <1>1, <2>3 DEF NewOne, NewCase
<1>6. tcase' = n
  BY <1>2 DEF Replace
<1>7. Selects
  BY <1>2, <1>5, <1>6 DEF Selects
<1>8. UNCHANGED pairVars
  BY <1>2
<1>9. /\ ScriptInv' /\ OwnedInv' /\ tcase' \in GoodCase /\ dying' \in GoodCase
      /\ todo' \in [Threads -> Seq(GoodStep)]
  BY <1>2, <1>4, <1>7, <1>8, SelectsKeeps
<1>10. TypesInv'
  BY <1>0, <1>2, <1>9 DEF TypesInv, pairVars
<1> QED
  BY <1>2, <1>4, <1>5, <1>6, <1>9, <1>10 DEF InstanceInv

(* caseSelection, when there is no case or when the trigger changes.       *)
LEMMA SelectStep ==
  ASSUME InstanceInv, Select
  PROVE  /\ InstanceInv'
         /\ dying = NoCase /\ Tail(todo["trader"]) \in Rounds
         /\ \/ UNCHANGED <<tcase, dying, misled>> /\ Then("trader", <<>>)
            \/ /\ current \in Accounts /\ tcase' = NextCase(current, estimate)
               /\ NewOne(tcase') /\ Replace(tcase') /\ tcase = NoCase
               /\ misled' = (misled \/ Lagging)
<1>0. TypesInv /\ ScriptInv /\ OwnedInv /\ "trader" \in Threads
  BY TheirThreads DEF InstanceInv
<1>1. /\ AtHead("trader", "select") /\ todo["trader"] # <<>>
      /\ UNCHANGED <<pairVars, current, trigger, prev_trigger, estimate, estimate_prev,
                     flags, ended, crashed, hung, crossed, commands>>
  BY DEF Select, AtHead
<1>2. dying = NoCase /\ Tail(todo["trader"]) \in Rounds
  <2>1. "select" \in Stages /\ "select" # "run"
    BY DEF Stages
  <2>2. dying = NoCase /\ Tail(todo["trader"]) = After("select")
    BY <1>0, <1>1, <2>1, RoundHead
  <2> QED
    BY <2>1, <2>2, RoundFacts
<1>3. UNCHANGED pairVars
  BY <1>1
<1> DEFINE Chosen4 == /\ current \in Accounts /\ tcase' = NextCase(current, estimate)
                      /\ NewOne(tcase') /\ Replace(tcase') /\ tcase = NoCase
                      /\ misled' = (misled \/ Lagging)
           Left4 == UNCHANGED <<tcase, dying, misled>> /\ Then("trader", <<>>)
<1>4. /\ Chosen4 \/ Left4
      /\ wait' \in [window : BOOLEAN, avicenna : {0} \cup Estimates]
      /\ misled' \in BOOLEAN
  <2>1. CASE current # NoAcc /\ tcase = NoCase
    <3>1. current \in Accounts /\ CaseSelection(current, estimate)
      BY <1>0, <2>1 DEF Select, TypesInv
    <3>2. \A a \in Accounts : CaseSelection(a, estimate) =>
            /\ tcase' = NextCase(a, estimate) /\ NewOne(tcase') /\ Replace(tcase')
            /\ wait' \in [window : BOOLEAN, avicenna : {0} \cup Estimates]
            /\ misled' = (misled \/ Lagging) /\ misled' \in BOOLEAN
      BY <1>0, CaseSelectionFacts
    <3> QED
      BY <2>1, <3>1, <3>2
  <2>2. CASE ~(current # NoAcc /\ tcase = NoCase)
    <3>1. UNCHANGED <<tcase, dying, wait, misled>> /\ Then("trader", <<>>)
      BY <2>2 DEF Select
    <3> QED
      BY <1>0, <3>1 DEF TypesInv
  <2> QED
    BY <2>1, <2>2
<1>5. Selects
  BY <1>4 DEF Selects
<1>6. /\ ScriptInv' /\ OwnedInv' /\ tcase' \in GoodCase /\ dying' \in GoodCase
      /\ todo' \in [Threads -> Seq(GoodStep)]
  BY <1>1, <1>2, <1>3, <1>5, SelectsKeeps
<1>7. TypesInv'
  BY <1>0, <1>1, <1>4, <1>6 DEF TypesInv, pairVars
<1> QED
  BY <1>2, <1>4, <1>6, <1>7 DEF InstanceInv

LEMMA TriggerStep ==
  ASSUME InstanceInv, TriggerSelection
  PROVE  /\ InstanceInv'
         /\ dying = NoCase /\ Tail(todo["trader"]) \in Rounds
         /\ \/ UNCHANGED <<tcase, dying, current, prev_trigger, misled>> /\ Then("trader", <<>>)
            \/ /\ current' \in Accounts /\ tcase' = NextCase(current', estimate)
               /\ NewOne(tcase') /\ Replace(tcase')
               /\ misled' = (misled \/ Lagging)
               /\ prev_trigger' \in {"POSITIVE", "NEGATIVE"} /\ prev_trigger' # prev_trigger
               /\ current' = IF prev_trigger' = "POSITIVE" THEN "long" ELSE "short"
<1> DEFINE a == IF Triggered(estimate) = "POSITIVE" THEN "long" ELSE "short"
<1>0. TypesInv /\ ScriptInv /\ OwnedInv /\ "trader" \in Threads
  BY TheirThreads DEF InstanceInv
<1>1. /\ AtHead("trader", "trigger") /\ todo["trader"] # <<>>
      /\ trigger' = Triggered(estimate) /\ estimate_prev' = estimate
      /\ UNCHANGED <<pairVars, estimate, flags, ended, crashed, hung, crossed, commands>>
  BY DEF TriggerSelection, AtHead
<1>2. dying = NoCase /\ Tail(todo["trader"]) \in Rounds
  <2>1. "trigger" \in Stages /\ "trigger" # "run"
    BY DEF Stages
  <2>2. dying = NoCase /\ Tail(todo["trader"]) = After("trigger")
    BY <1>0, <1>1, <2>1, RoundHead
  <2> QED
    BY <2>1, <2>2, RoundFacts
<1>3. UNCHANGED pairVars
  BY <1>1
<1>4. Triggered(estimate) \in Triggers /\ a \in Accounts /\ estimate \in {0} \cup Estimates
  BY <1>0 DEF TypesInv, Triggered, Triggers, Accounts
<1> DEFINE Turned == /\ current' \in Accounts /\ tcase' = NextCase(current', estimate)
                     /\ NewOne(tcase') /\ Replace(tcase')
                     /\ misled' = (misled \/ Lagging)
                     /\ prev_trigger' \in {"POSITIVE", "NEGATIVE"} /\ prev_trigger' # prev_trigger
                     /\ current' = IF prev_trigger' = "POSITIVE" THEN "long" ELSE "short"
           Stayed == UNCHANGED <<tcase, dying, current, prev_trigger, misled>> /\ Then("trader", <<>>)
<1>5. /\ Turned \/ Stayed
      /\ wait' \in [window : BOOLEAN, avicenna : {0} \cup Estimates]
      /\ misled' \in BOOLEAN /\ prev_trigger' \in Triggers /\ current' \in Accounts \cup {NoAcc}
  <2>1. CASE Triggered(estimate) \notin {prev_trigger, "INIT"}
    <3>1. prev_trigger' = Triggered(estimate) /\ current' = a /\ CaseSelection(a, estimate)
      BY <2>1 DEF TriggerSelection
    <3>2. /\ tcase' = NextCase(a, estimate) /\ NewOne(tcase') /\ Replace(tcase')
          /\ wait' \in [window : BOOLEAN, avicenna : {0} \cup Estimates]
          /\ misled' = (misled \/ Lagging) /\ misled' \in BOOLEAN
      BY <1>0, <1>4, <3>1, CaseSelectionFacts
    <3>3. prev_trigger' \in {"POSITIVE", "NEGATIVE"} /\ prev_trigger' # prev_trigger
      BY <1>4, <2>1, <3>1 DEF Triggers
    <3> QED
      BY <1>4, <3>1, <3>2, <3>3
  <2>2. CASE Triggered(estimate) \in {prev_trigger, "INIT"}
    <3>1. UNCHANGED <<prev_trigger, current, wait, tcase, dying, misled>> /\ Then("trader", <<>>)
      BY <2>2 DEF TriggerSelection
    <3> QED
      BY <1>0, <3>1 DEF TypesInv
  <2> QED
    BY <2>1, <2>2
<1>6. Selects
  BY <1>5 DEF Selects
<1>7. /\ ScriptInv' /\ OwnedInv' /\ tcase' \in GoodCase /\ dying' \in GoodCase
      /\ todo' \in [Threads -> Seq(GoodStep)]
  BY <1>1, <1>2, <1>3, <1>6, SelectsKeeps
<1>8. TypesInv'
  BY <1>0, <1>1, <1>4, <1>5, <1>7 DEF TypesInv, pairVars
<1> QED
  BY <1>2, <1>5, <1>7, <1>8 DEF InstanceInv

(* A round begins with specialCases, or with selfDestruct's two writes.    *)
LEMMA RoundStep ==
  ASSUME InstanceInv, NEW e \in Estimates, Round(e)
  PROVE  /\ InstanceInv' /\ dying = NoCase /\ todo["trader"] = <<>>
         /\ todo'["trader"] = From("panic") \/ todo'["trader"] = From("special")
         /\ \A th \in Consoles : todo'[th] = todo[th]
<1>0. TypesInv /\ ScriptInv /\ OwnedInv /\ "trader" \in Threads
  BY TheirThreads DEF InstanceInv
<1> DEFINE rest == (IF OverLive THEN enablePanicClose ELSE <<>>)
                      \o <<Do("special"), Do("run"), Do("finish")>>
<1>1. /\ todo["trader"] = <<>> /\ estimate' = e /\ Then("trader", rest)
      /\ UNCHANGED <<pairVars, tcase, dying, current, trigger, prev_trigger,
                     estimate_prev, wait, flags, ended, crashed, hung, misled, crossed,
                     commands>>
  BY DEF Round
<1>2. dying = NoCase
  BY <1>0, <1>1, EmptyList
<1>3. /\ "panic" \in Stages /\ "arm panic" \in Stages /\ "special" \in Stages /\ "run" \in Stages
      /\ From("panic") \in Seq(GoodStep) /\ From("special") \in Seq(GoodStep)
      /\ From("panic") \in Rounds /\ From("special") \in Rounds
  <2>1. "panic" \in Stages /\ "arm panic" \in Stages /\ "special" \in Stages /\ "run" \in Stages
    BY DEF Stages
  <2> QED
    BY <2>1, RoundFacts
<1>4. /\ Do("panic") \in GoodStep /\ Do("arm panic") \in GoodStep /\ Do("special") \in GoodStep
      /\ Do("run") \in GoodStep /\ Do("finish") \in GoodStep
  BY <1>3, LabelSteps
<1>5. <<Do("special"), Do("run"), Do("finish")>> = From("special")
  <2>1. \A x, y, z \in GoodStep : <<x, y, z>> = <<x>> \o (<<y>> \o <<z>>)
    <3> TAKE x, y, z \in GoodStep
    <3>1. <<y>> \o <<z>> = <<y, z>>
      BY ShortLists
    <3>2. <<x>> \o <<y, z>> = <<x, y, z>>
      BY ShortLists
    <3> QED
      BY <3>1, <3>2
  <2> QED
    BY <1>4, <2>1 DEF From, After, FromRun
<1>6. rest = From("panic") \/ rest = From("special")
  <2>1. CASE OverLive
    <3>1. rest = <<Do("panic"), Do("arm panic")>> \o From("special")
      BY <1>5, <2>1 DEF enablePanicClose
    <3>2. \A x, y \in GoodStep : \A t \in Seq(GoodStep) : <<x, y>> \o t = <<x>> \o (<<y>> \o t)
      BY TwoInFront
    <3>3. From("special") = FromSpecial
      BY DEF From, After, FromSpecial
    <3>4. From("panic") = <<Do("panic")>> \o (<<Do("arm panic")>> \o From("special"))
      BY <3>3 DEF From, After
    <3>5. PICK x, y : x = Do("panic") /\ y = Do("arm panic")
      OBVIOUS
    <3>6. <<x, y>> \o From("special") = <<x>> \o (<<y>> \o From("special"))
      BY <1>3, <1>4, <3>2, <3>5
    <3> QED
      BY <3>1, <3>4, <3>5, <3>6
  <2>2. CASE ~OverLive
    <3>1. rest = <<>> \o From("special")
      BY <1>5, <2>2
    <3> QED
      BY <1>3, <3>1, ConcatEmptySeq
  <2> QED
    BY <2>1, <2>2
<1>7. rest \in Seq(GoodStep) /\ rest \in Rounds
  BY <1>3, <1>6
<1> HIDE DEF rest
<1>8. /\ todo' \in [Threads -> Seq(GoodStep)] /\ todo'["trader"] = rest
      /\ \A th \in Consoles : todo'[th] = todo[th]
  BY <1>0, <1>1, <1>7, ThenFacts, TheirThreads
<1>9. ScriptInv'
  BY <1>1, <1>2, <1>7, <1>8, RoundNext
<1>10. TypesInv'
  BY <1>0, <1>1, <1>8 DEF TypesInv, pairVars
<1>11. OwnedInv'
  BY <1>0, <1>1 DEF OwnedInv, Owner, Unowned, Live, pairVars
<1> QED
  BY <1>1, <1>2, <1>6, <1>8, <1>9, <1>10, <1>11 DEF InstanceInv

LEMMA FinishStep ==
  ASSUME InstanceInv, Finish
  PROVE  /\ InstanceInv'
         /\ dying = NoCase /\ UNCHANGED pairVars
         /\ \/ /\ tcase.type \notin Specials \cup {"NONE"} /\ tcase.state \in {"DONE", "FAILED"}
               /\ tcase' = NoCase /\ dying' = tcase
               /\ todo'["trader"] = Rites(DestroySteps, <<>>)
            \/ /\ tcase.type \in Specials \cup {"NONE"} \/ tcase.state \notin {"DONE", "FAILED"}
               /\ tcase' = tcase /\ dying' = dying /\ todo'["trader"] = <<>>
<1>0. TypesInv /\ ScriptInv /\ OwnedInv /\ PairGood /\ "trader" \in Threads
  BY TypesParts, TheirThreads DEF InstanceInv
<1>1. /\ todo["trader"] # <<>> /\ AtHead("trader", "finish")
      /\ ended' \in BOOLEAN /\ crashed' \in BOOLEAN
      /\ UNCHANGED <<pairVars, current, trigger, prev_trigger, estimate,
                     estimate_prev, wait, flags, hung, misled, crossed, commands>>
  BY DEF Finish, AtHead
<1>2. dying = NoCase /\ Tail(todo["trader"]) = <<>> /\ Tail(todo["trader"]) \in Rounds
  BY <1>0, <1>1, RoundHead DEF Rounds
<1>3. UNCHANGED pairVars
  BY <1>1
<1>4. NewOne(NoCase)
  BY NoCaseIsCase DEF NewOne, NoCase, NewCase
<1>5. CASE tcase.type \notin Specials \cup {"NONE"} /\ tcase.state \in {"DONE", "FAILED"}
  <2>1. Replace(NoCase)
    BY <1>5 DEF Finish
  <2>2. tcase' = NoCase /\ dying' = tcase
    BY <2>1 DEF Replace
  <2>3. Selects
    BY <1>4, <2>1, <2>2 DEF Selects
  <2>4. /\ ScriptInv' /\ OwnedInv' /\ tcase' \in GoodCase /\ dying' \in GoodCase
        /\ todo' \in [Threads -> Seq(GoodStep)]
    BY <1>1, <1>2, <1>3, <2>3, SelectsKeeps
  <2>5. TypesInv'
    BY <1>0, <1>1, <2>4 DEF TypesInv, pairVars
  <2>6. todo'["trader"] = Rites(DestroySteps, Tail(todo["trader"]))
    <3>1. \A n \in GoodCase : n.state = "INIT" /\ n.main = 0 /\ Replace(n) =>
            todo'["trader"] = Rites(DestroySteps, Tail(todo["trader"]))
      BY <1>0, <1>1, <1>2, ReplaceFacts
    <3> QED
      BY <1>4, <2>1, <3>1 DEF NewOne
  <2> QED
    BY <1>1, <1>2, <1>3, <1>5, <2>2, <2>4, <2>5, <2>6 DEF InstanceInv
<1>6. CASE ~(tcase.type \notin Specials \cup {"NONE"} /\ tcase.state \in {"DONE", "FAILED"})
  <2>1. tcase' = tcase /\ dying' = dying /\ Then("trader", <<>>)
    BY <1>6 DEF Finish
  <2>2. Selects
    BY <2>1 DEF Selects
  <2>3. /\ ScriptInv' /\ OwnedInv' /\ tcase' \in GoodCase /\ dying' \in GoodCase
        /\ todo' \in [Threads -> Seq(GoodStep)]
    BY <1>1, <1>2, <1>3, <2>2, SelectsKeeps
  <2>4. TypesInv'
    BY <1>0, <1>1, <2>3 DEF TypesInv, pairVars
  <2>5. todo'["trader"] = <<>>
    BY <1>0, <1>1, <1>2, <2>1, ThenNext
  <2> QED
    BY <1>1, <1>2, <1>3, <1>6, <2>1, <2>3, <2>4, <2>5 DEF InstanceInv
<1> QED
  BY <1>5, <1>6

(* A thread that waits for ever.                                           *)
LEMMA HangStep ==
  ASSUME InstanceInv, NEW th \in Threads, Hang(th)
  PROVE  InstanceInv'
<1>0. TypesInv /\ ScriptInv /\ OwnedInv
  BY DEF InstanceInv
<1>1. UNCHANGED <<pairVars, tcase, dying, todo, current, trigger, prev_trigger,
                  estimate, estimate_prev, wait, flags, ended, crashed, misled,
                  crossed, commands>> /\ hung' = hung \cup {th}
  BY DEF Hang
<1>2. TypesInv'
  BY <1>0, <1>1 DEF TypesInv, pairVars
<1>3. ScriptInv'
  BY <1>0, <1>1, KeepsScript
<1>4. OwnedInv'
  BY <1>0, <1>1 DEF OwnedInv, Owner, Unowned, Live, pairVars
<1> QED
  BY <1>2, <1>3, <1>4 DEF InstanceInv

LEMMA ScriptsTyped == ASSUME NEW line \in Line  PROVE Script(line) \in Seq(GoodStep)
<1>1. /\ \A l \in {"panic", "arm panic", "no panic", "disarm panic", "soft", "arm soft", "no soft",
                   "disarm soft", "enable", "disable"} : Do(l) \in GoodStep
      /\ \A a \in Accounts : On(a, "drop") \in GoodStep /\ On(a, "cancel") \in GoodStep
      /\ "long" \in Accounts /\ "short" \in Accounts
  BY LabelSteps DEF Accounts, Stages
<1>2. \A x \in GoodStep : <<x>> \in Seq(GoodStep)
  OBVIOUS
<1>3. \A x, y \in GoodStep : <<x, y>> \in Seq(GoodStep)
  OBVIOUS
<1>4. \A x, y \in Seq(GoodStep) : x \o y \in Seq(GoodStep)
  BY ConcatProperties
<1>5. /\ startAction \in Seq(GoodStep)
      /\ enablePanicClose \in Seq(GoodStep) /\ disablePanicClose \in Seq(GoodStep)
      /\ enableSoftClose \in Seq(GoodStep) /\ disableSoftClose \in Seq(GoodStep)
  BY <1>1, <1>2, <1>3
     DEF startAction, enablePanicClose, disablePanicClose, enableSoftClose, disableSoftClose
<1>6. stopAction \in Seq(GoodStep)
  <2>1. CancelAll("short") \in Seq(GoodStep) /\ CancelAll("long") \in Seq(GoodStep)
        /\ <<Do("disable")>> \in Seq(GoodStep)
    BY <1>1, <1>2, <1>3 DEF CancelAll
  <2> QED
    BY <1>4, <2>1 DEF stopAction
<1>7. AccountStop(line.whom) \in Seq(GoodStep)
  <2>0. <<>> \in Seq(GoodStep)
    OBVIOUS
  <2>1. <<On("short", "cancel"), On("long", "cancel")>> \in Seq(GoodStep) /\ <<>> \in Seq(GoodStep)
    BY <1>1, <1>3, <2>0
  <2> QED
    BY <1>4, <1>6, <2>1 DEF AccountStop
<1>8. line.name \in Names /\ line.off \in BOOLEAN
  BY DEF Line
<1>9. <<>> \in Seq(GoodStep)
  OBVIOUS
<1> QED
  BY <1>5, <1>7, <1>8, <1>9 DEF Script, Names

LEMMA CommandStep ==
  ASSUME InstanceInv, NEW th \in Consoles, NEW line \in Commands, Command(th, line)
  PROVE  InstanceInv' /\ todo'[th] = Script(line)
<1>0. TypesInv /\ ScriptInv /\ OwnedInv /\ th \in Threads /\ th # "trader"
  BY TheirThreads DEF InstanceInv
<1>1. /\ commands < MaxCommands /\ commands' = commands + 1
      /\ todo[th] = <<>> /\ Then(th, Script(line))
      /\ UNCHANGED <<pairVars, tcase, dying, current, trigger, prev_trigger,
                     estimate, estimate_prev, wait, flags, ended, crashed, hung, misled,
                     crossed>>
  BY DEF Command
<1>2. Script(line) \in Seq(GoodStep)
  BY ScriptsTyped, ConsoleAssumption
<1>3. /\ todo' \in [Threads -> Seq(GoodStep)] /\ todo'[th] = Script(line)
      /\ todo'["trader"] = todo["trader"]
  BY <1>0, <1>1, <1>2, ThenFacts, TheirThreads
<1>4. commands' \in 0..MaxCommands
  <2>1. commands \in 0..MaxCommands /\ MaxCommands \in Nat
    BY <1>0, ConsoleAssumption DEF TypesInv
  <2> QED
    BY <1>1, <2>1
<1>5. TypesInv'
  BY <1>0, <1>1, <1>3, <1>4 DEF TypesInv, pairVars
<1>6. ScriptInv'
  BY <1>0, <1>1, <1>3, KeepsScript
<1>7. OwnedInv'
  BY <1>0, <1>1 DEF OwnedInv, Owner, Unowned, Live, pairVars
<1> QED
  BY <1>3, <1>5, <1>6, <1>7 DEF InstanceInv

LEMMA WrittenFlags ==
  ASSUME NEW l \in DOMAIN Writes
  PROVE  Writes[l][1] \in Flags /\ Writes[l][2] \in BOOLEAN
<1>1. /\ <<"enable", TRUE>>[1] \in Flags /\ <<"enable", TRUE>>[2] \in BOOLEAN
      /\ <<"enable", FALSE>>[1] \in Flags /\ <<"enable", FALSE>>[2] \in BOOLEAN
      /\ <<"panic", TRUE>>[1] \in Flags /\ <<"panic", TRUE>>[2] \in BOOLEAN
      /\ <<"panic", FALSE>>[1] \in Flags /\ <<"panic", FALSE>>[2] \in BOOLEAN
      /\ <<"panic_init", TRUE>>[1] \in Flags /\ <<"panic_init", TRUE>>[2] \in BOOLEAN
      /\ <<"panic_init", FALSE>>[1] \in Flags /\ <<"panic_init", FALSE>>[2] \in BOOLEAN
      /\ <<"soft", TRUE>>[1] \in Flags /\ <<"soft", TRUE>>[2] \in BOOLEAN
      /\ <<"soft", FALSE>>[1] \in Flags /\ <<"soft", FALSE>>[2] \in BOOLEAN
      /\ <<"soft_init", TRUE>>[1] \in Flags /\ <<"soft_init", TRUE>>[2] \in BOOLEAN
      /\ <<"soft_init", FALSE>>[1] \in Flags /\ <<"soft_init", FALSE>>[2] \in BOOLEAN
  BY DEF Flags
<1>2. Writes[l] \in {<<"enable", TRUE>>, <<"enable", FALSE>>, <<"panic", TRUE>>, <<"panic", FALSE>>,
                     <<"panic_init", TRUE>>, <<"panic_init", FALSE>>, <<"soft", TRUE>>,
                     <<"soft", FALSE>>, <<"soft_init", TRUE>>, <<"soft_init", FALSE>>}
  BY DEF Writes
<1> QED
  BY <1>1, <1>2

LEMMA WriteFlagStep ==
  ASSUME InstanceInv, NEW th \in Threads, WriteFlag(th)
  PROVE  /\ InstanceInv'
         /\ todo[th] # <<>> /\ The(th).do \in DOMAIN Writes
         /\ flags' = [flags EXCEPT ![Writes[The(th).do][1]] = Writes[The(th).do][2]]
         /\ todo'[th] = Tail(todo[th]) /\ \A t \in Threads \ {th} : todo'[t] = todo[t]
         /\ UNCHANGED <<pairVars, tcase, dying, misled>>
         /\ th = "trader" => /\ The(th).do \in Stages \ {"run"} /\ dying = NoCase
                             /\ Tail(todo[th]) = After(The(th).do)
<1>0. TypesInv /\ ScriptInv /\ OwnedInv
  BY TheirThreads DEF InstanceInv
<1>1. /\ th \notin hung /\ todo[th] # <<>> /\ The(th).do \in DOMAIN Writes /\ Then(th, <<>>)
      /\ flags' = [flags EXCEPT ![Writes[The(th).do][1]] = Writes[The(th).do][2]]
      /\ UNCHANGED <<pairVars, tcase, dying, current, trigger, prev_trigger,
                     estimate, estimate_prev, wait, ended, crashed, hung, misled, commands>>
  BY DEF WriteFlag
<1>2. /\ todo' \in [Threads -> Seq(GoodStep)]
      /\ todo'[th] = Tail(todo[th]) /\ \A t \in Threads \ {th} : todo'[t] = todo[t]
  BY <1>0, <1>1, ThenNext
<1>3. flags' \in [Flags -> BOOLEAN]
  <2>1. Writes[The(th).do][1] \in Flags /\ Writes[The(th).do][2] \in BOOLEAN
    BY <1>1, WrittenFlags
  <2>2. flags \in [Flags -> BOOLEAN]
    BY <1>0 DEF TypesInv
  <2> QED
    BY <1>1, <2>1, <2>2
<1>4. crossed' \in BOOLEAN
  BY <1>0 DEF WriteFlag, TypesInv
<1>5. TypesInv'
  BY <1>0, <1>1, <1>2, <1>3, <1>4 DEF TypesInv, pairVars
<1>6. OwnedInv'
  BY <1>0, <1>1 DEF OwnedInv, Owner, Unowned, Live, pairVars
<1>7. CASE th # "trader"
  <2>1. todo'["trader"] = todo["trader"]
    BY <1>2, <1>7, TheirThreads
  <2>2. ScriptInv'
    BY <1>0, <1>1, <2>1, KeepsScript
  <2> QED
    BY <1>1, <1>2, <1>5, <1>6, <1>7, <2>2 DEF InstanceInv
<1>8. CASE th = "trader"
  <2> DEFINE l == The("trader").do
  <2>1. AtHead("trader", l) /\ todo["trader"] # <<>> /\ l \in DOMAIN Writes
    BY <1>1, <1>8 DEF AtHead, The
  <2>2. l \notin {"bury", "cancel", "drop", "open", "close", "change", "pending", "requote",
                 "crash", "run", "finish"}
    BY <2>1 DEF Writes
  <2>3. ~HeadRite
    <3>1. \A n \in 1..5 : RiteStep(n).do \in {"bury", "cancel", "drop"}
      BY RiteIsStep
    <3> QED
      BY <2>2, <3>1 DEF HeadRite, The
  <2>4. ~HeadRun
    <3>1. \A s \in Case4Steps(tcase) :
            s.do \in {"open", "change", "drop", "cancel", "requote", "pending"}
      BY DEF Case4Steps
    <3>2. \A s \in MainSteps(tcase) : s.do \in {"open", "close", "change", "crash"}
      BY DEF MainSteps
    <3> QED
      BY <1>0, <2>2, <3>1, <3>2, RunHead DEF The
  <2>5. HeadRound
    BY <1>0, <2>1, <2>3, <2>4, Heads
  <2>6. dying = NoCase /\ l \in Stages \ {"run"} /\ Tail(todo["trader"]) = After(l)
    <3>1. Do("finish").do = "finish" /\ \A k \in Stages : Do(k).do = k
      BY RoundLabels
    <3>2. PICK k \in Stages : Head(todo["trader"]) = Do(k) /\ Tail(todo["trader"]) = After(k)
      BY <2>2, <2>5, <3>1 DEF HeadRound, The
    <3>3. l = k
      BY <3>1, <3>2 DEF The
    <3> QED
      BY <2>2, <2>5, <3>2, <3>3 DEF HeadRound
  <2>7. todo'["trader"] \in Rounds
    BY <1>2, <1>8, <2>6, RoundFacts
  <2>8. ScriptInv'
    BY <1>1, <2>6, <2>7, RoundNext
  <2> QED
    BY <1>1, <1>2, <1>5, <1>6, <1>8, <2>6, <2>8 DEF InstanceInv
<1> QED
  BY <1>7, <1>8

LEMMA FillsStep ==
  ASSUME InstanceInv, NEW i \in Slots, Fills(i)
  PROVE  /\ InstanceInv' /\ pending' = pending /\ UNCHANGED instanceVars
         /\ \E n \in Nat : Filled(i, n)
<1>0. TypesInv /\ ScriptInv /\ OwnedInv /\ PairGood
  BY TypesParts DEF InstanceInv
<1>1. /\ LastFill(i) \/ \E n \in 1..SizeLimit : Fill(i, n)
      /\ UNCHANGED instanceVars
  BY DEF Fills
<1>2. /\ PairGood' /\ pending' = pending /\ (Unowned => Unowned')
      /\ \E n \in Nat : Filled(i, n)
  BY <1>0, <1>1, FillFacts
<1>3. TypesInv'
  BY <1>0, <1>1, <1>2 DEF TypesInv, PairGood, instanceVars
<1>4. ScriptInv'
  BY <1>0, <1>1, KeepsScript DEF instanceVars
<1>5. OwnedInv'
  BY <1>0, <1>1, <1>2, KeepsOwned DEF instanceVars
<1> QED
  BY <1>1, <1>2, <1>3, <1>4, <1>5 DEF InstanceInv

LEMMA BooksStep ==
  ASSUME InstanceInv, NEW a \in Accounts, Books(a)
  PROVE  /\ InstanceInv' /\ UNCHANGED instanceVars
         /\ pos' = pos /\ orders' = orders /\ pending' = pending /\ Live' = Live
<1>0. TypesInv /\ ScriptInv /\ OwnedInv /\ PairGood
  BY TypesParts DEF InstanceInv
<1>1. Book(a) /\ UNCHANGED instanceVars
  BY DEF Books
<1>2. /\ PairGood' /\ (Unowned => Unowned')
      /\ pos' = pos /\ orders' = orders /\ pending' = pending /\ Live' = Live
  BY <1>0, <1>1, BookFacts
<1>3. TypesInv'
  BY <1>0, <1>1, <1>2 DEF TypesInv, PairGood, instanceVars
<1>4. ScriptInv'
  BY <1>0, <1>1, KeepsScript DEF instanceVars
<1>5. OwnedInv'
  BY <1>0, <1>1, <1>2, KeepsOwned DEF instanceVars
<1> QED
  BY <1>1, <1>2, <1>3, <1>4, <1>5 DEF InstanceInv

LEMMA OrderDoneStep ==
  ASSUME InstanceInv, NEW i \in Slots, OrderDone(i)
  PROVE  /\ InstanceInv'
         /\ i \in Live /\ orders[i].left = 0
         /\ Live' = Live \ {i} /\ \A j \in Live' : orders'[j] = orders[j]
         /\ \/ pending' = pending
            \/ /\ QueuesClose(orders[i]) /\ Owner.type = "CASE_4"
               /\ pending' = [pending EXCEPT ![orders[i].acct] =
                                Append(@, [size |-> orders[i].size, done |-> "requote_done"])]
         /\ SameKind(tcase, tcase') /\ tcase'.state = tcase.state /\ tcase'.main = tcase.main
         /\ tcase'.size = tcase.size
         /\ pos' = pos /\ total' = total /\ booking' = booking
         /\ dying' = dying /\ todo' = todo /\ misled' = misled
<1>0. TypesInv /\ ScriptInv /\ OwnedInv /\ PairGood
  BY TypesParts DEF InstanceInv
<1>1. /\ Forget(i) /\ tcase' = Flagged(orders[i])
      /\ (QueuesClose(orders[i]) /\ QueueClose(orders[i], "requote_done")) \/ pending' = pending
      /\ UNCHANGED <<dying, todo, current, trigger, prev_trigger, estimate,
                     estimate_prev, wait, flags, ended, crashed, hung, misled, crossed,
                     commands>>
  BY DEF OrderDone
<1>2. /\ orders' \in [Slots -> GoodOrder \cup {NoOrder}]
      /\ i \in Live /\ orders[i].left = 0
      /\ Live' = Live \ {i} /\ \A j \in Live' : orders'[j] = orders[j]
      /\ leak' \in [Accounts -> (-MaxLeak)..MaxLeak]
      /\ pos' = pos /\ total' = total /\ booking' = booking /\ tranch' = tranch
  BY <1>0, <1>1, ForgetFacts
<1>3. /\ pending' \in [Accounts -> Seq(Pending)]
      /\ \/ pending' = pending
         \/ /\ QueuesClose(orders[i]) /\ Owner.type = "CASE_4"
            /\ pending' = [pending EXCEPT ![orders[i].acct] =
                             Append(@, [size |-> orders[i].size, done |-> "requote_done"])]
  <2>1. CASE pending' = pending
    BY <1>0, <2>1 DEF PairGood
  <2>2. CASE QueuesClose(orders[i]) /\ QueueClose(orders[i], "requote_done")
    <3>1. "requote_done" \in Callbacks
      BY DEF Callbacks
    <3>2. /\ pending' \in [Accounts -> Seq(Pending)]
          /\ pending' = [pending EXCEPT ![orders[i].acct] =
                           Append(@, [size |-> orders[i].size, done |-> "requote_done"])]
      BY <1>0, <1>2, <2>2, <3>1, QueueFacts
    <3>3. orders[i].done = "send_close"
      BY <2>2 DEF QueuesClose
    <3>4. Owner.type = "CASE_4"
      BY <1>0, <1>2, <3>3 DEF OwnedInv, Unowned
    <3> QED
      BY <2>2, <3>2, <3>4
  <2> QED
    BY <1>1, <2>1, <2>2
<1>4. /\ SameKind(tcase, tcase') /\ tcase'.state = tcase.state /\ tcase'.main = tcase.main
      /\ tcase'.size = tcase.size /\ (tcase' = NoCase) = (tcase = NoCase)
  <2>0. tcase \in GoodCase /\ tcase \in Case
    BY <1>0 DEF TypesInv, GoodCase
  <2>1. CASE orders[i].done = "requote_done" /\ Equal /\ dying = NoCase
    <3>1. tcase.type = "CASE_4"
      BY <1>0, <1>2, <2>1 DEF OwnedInv, Unowned, Owner
    <3>2. tcase' = [tcase EXCEPT !.flag = TRUE]
      BY <1>1, <2>1 DEF Flagged
    <3>3. LET d == [tcase EXCEPT !.flag = TRUE] IN
          /\ d \in Case /\ d.type = tcase.type /\ d.cur = tcase.cur /\ d.opp = tcase.opp
          /\ d.to_close = tcase.to_close /\ d.original = tcase.original /\ d.state = tcase.state
          /\ d.main = tcase.main /\ d.size = tcase.size
      BY <2>0 DEF Case
    <3>4. /\ tcase' \in Case /\ tcase'.type = tcase.type /\ tcase'.cur = tcase.cur
          /\ tcase'.opp = tcase.opp
          /\ tcase'.to_close = tcase.to_close /\ tcase'.original = tcase.original
          /\ tcase'.state = tcase.state /\ tcase'.main = tcase.main /\ tcase'.size = tcase.size
      BY <3>2, <3>3
    <3>5. SameKind(tcase, tcase')
      BY <2>0, <3>1, <3>4, NoneTyped
    <3>6. tcase' # NoCase /\ tcase # NoCase
      BY <3>1, <3>4 DEF NoCase, NewCase
    <3> QED
      BY <3>4, <3>5, <3>6
  <2>2. CASE ~(orders[i].done = "requote_done" /\ Equal /\ dying = NoCase)
    <3>1. tcase' = tcase
      BY <1>1, <2>2 DEF Flagged
    <3> QED
      BY <2>0, <3>1 DEF SameKind
  <2> QED
    BY <2>1, <2>2
<1>5. TypesInv'
  BY <1>0, <1>1, <1>2, <1>3, <1>4 DEF TypesInv, SameKind
<1>6. ScriptInv'
  BY <1>0, <1>1, <1>4, SameNext DEF SameKind
<1>7. OwnedInv'
  <2>1. CASE pending' = pending
    <3>1. Unowned => Unowned'
      BY <1>2, <2>1 DEF Unowned
    <3> QED
      BY <1>0, <1>1, <1>4, <3>1, KeepsOwned DEF SameKind
  <2>2. CASE Owner.type = "CASE_4"
    <3>1. Owner'.type = "CASE_4"
      BY <1>1, <1>4, <2>2 DEF Owner, SameKind
    <3> QED
      BY <3>1 DEF OwnedInv
  <2> QED
    BY <1>3, <2>1, <2>2
<1> QED
  BY <1>1, <1>2, <1>3, <1>4, <1>5, <1>6, <1>7 DEF InstanceInv

LEMMA LostStep ==
  ASSUME InstanceInv, NEW i \in Slots, CallbackIsLost(i)
  PROVE  InstanceInv'
<1>0. TypesInv /\ ScriptInv /\ OwnedInv
  BY DEF InstanceInv
<1>1. UNCHANGED <<pairVars, tcase, dying, todo, current, trigger, prev_trigger,
                  estimate, estimate_prev, wait, flags, ended, hung, misled, crossed,
                  commands>> /\ crashed' = TRUE
  BY DEF CallbackIsLost
<1>2. TypesInv'
  BY <1>0, <1>1 DEF TypesInv, pairVars
<1>3. ScriptInv'
  BY <1>0, <1>1, KeepsScript
<1>4. OwnedInv'
  BY <1>0, <1>1 DEF OwnedInv, Owner, Unowned, Live, pairVars
<1> QED
  BY <1>2, <1>3, <1>4 DEF InstanceInv

LEMMA InstanceStutters == InstanceInv /\ UNCHANGED vars => InstanceInv'
<1> SUFFICES ASSUME InstanceInv, UNCHANGED vars  PROVE InstanceInv'
  OBVIOUS
<1>0. TypesInv /\ ScriptInv /\ OwnedInv
  BY DEF InstanceInv
<1>1. TypesInv'
  BY <1>0 DEF TypesInv, vars, pairVars, instanceVars
<1>2. ScriptInv'
  BY <1>0, KeepsScript DEF vars, instanceVars
<1>3. OwnedInv'
  BY <1>0 DEF OwnedInv, Owner, Unowned, Live, vars, pairVars, instanceVars
<1> QED
  BY <1>1, <1>2, <1>3 DEF InstanceInv

LEMMA InstanceNext == InstanceInv /\ [Next]_vars => InstanceInv'
<1> SUFFICES ASSUME InstanceInv, [Next]_vars  PROVE InstanceInv'
  OBVIOUS
<1>1. ASSUME NEW e \in Estimates, Round(e)  PROVE InstanceInv'
  BY <1>1, RoundStep
<1>2. ASSUME Trader  PROVE InstanceInv'
  <2>1. "trader" \in Threads /\ "PANIC_CLOSE" \in Specials /\ "SOFT_CLOSE" \in Specials
    BY TheirThreads DEF Specials
  <2>2. CASE \/ Drop("trader") \/ CancelOrders("trader")
             \/ SendOrder \/ ChangeOrder \/ SendPending \/ SendRequotes
    BY <2>2, CancelsStep, SendOrderStep, ChangeOrderStep, SendPendingStep, SendRequotesStep
  <2>3. CASE \/ WriteFlag("trader") \/ ReadFlag
             \/ SpecialCase("panic case", "PANIC_CLOSE") \/ SpecialCase("soft case", "SOFT_CLOSE")
             \/ Select \/ TriggerSelection
    BY <2>1, <2>3, WriteFlagStep, ReadFlagStep, SpecialCaseStep, SelectStep, TriggerStep
  <2>4. CASE RunCase \/ Crash \/ Finish \/ Bury
    BY <2>4, RunCaseStep, CrashStep, FinishStep, BuryStep
  <2> QED
    BY <1>2, <2>2, <2>3, <2>4 DEF Trader
<1>3. ASSUME NEW th \in Consoles, Console(th)  PROVE InstanceInv'
  BY <1>3, CancelsStep, WriteFlagStep, TheirThreads DEF Console
<1>4. ASSUME NEW th \in Consoles, NEW line \in Commands, Command(th, line)  PROVE InstanceInv'
  BY <1>4, CommandStep
<1>5. ASSUME NEW i \in Slots, Fills(i)  PROVE InstanceInv'
  BY <1>5, FillsStep
<1>6. ASSUME NEW i \in Slots, OrderDone(i) \/ CallbackIsLost(i)  PROVE InstanceInv'
  BY <1>6, OrderDoneStep, LostStep
<1>7. CASE UNCHANGED vars
  BY <1>7, InstanceStutters
<1>8. ASSUME NEW th \in Threads, Hang(th)  PROVE InstanceInv'
  BY <1>8, HangStep
<1>9. ASSUME NEW a \in Accounts, Books(a)  PROVE InstanceInv'
  BY <1>9, BooksStep
<1> QED
  BY <1>1, <1>2, <1>3, <1>4, <1>5, <1>6, <1>7, <1>8, <1>9 DEF Next

LEMMA InstanceAlways == Spec => []InstanceInv
BY InstanceInit, InstanceNext, PTL DEF Spec

(* Every order, pending order, step, case and flag of a trading instance   *)
(* is what triggerProcessing and the cases take it to be, whatever the     *)
(* market, the consoles and refused calls do: no case that was given up is *)
(* ever run or answered, and no order has more left than its size.         *)
THEOREM InstanceTyped == Spec => []TypeOK
<1>1. InstanceInv => TypeOK
  BY TypesImply DEF InstanceInv
<1> QED
  BY <1>1, InstanceAlways, PTL

-----------------------------------------------------------------------------
(* A panic close that is on has its case, or is still being ordered, armed *)
(* or given its case: while one console gives the orders and selfDestruct  *)
(* does not write between two of its writes.  The flags of the soft close  *)
(* are read, and a case is selected, only where none was on; the thread    *)
(* that has got there goes on when a console orders one.                   *)

OneConsole == \A a, b \in Consoles : a = b

(* The lists without a step of some labels.                                *)
Lacking(ls) == Seq({s \in GoodStep : s.do \notin ls})
HasStep(l)  == todo["trader"] \notin Lacking({l})

SoftLabels == {"soft special", "soft init", "disarm soft", "soft case", "select", "trigger"}

(* What a console still has to do: one half of a panic order, or nothing   *)
(* that concerns a panic close.                                            *)
PanicWords == {"panic", "arm panic", "no panic", "disarm panic"}
Unpanicked == {s \in GoodStep : s.do \notin PanicWords}

PanicLists ==
  Seq(Unpanicked) \cup {enablePanicClose, <<Do("arm panic")>>,
                        disablePanicClose, <<Do("disarm panic")>>}

Ordering(label) == \E th \in Consoles : todo[th] # <<>> /\ Head(todo[th]).do = label

PanicOn == flags["panic"] = TRUE /\ flags["panic_init"] = FALSE

Answered ==
  /\ Ordering("disarm panic") => flags["panic"] = FALSE
  /\ PanicOn /\ todo["trader"] \notin Lacking(SoftLabels) => Ordering("arm panic")
  /\ PanicOn => \/ tcase.type = "PANIC_CLOSE" \/ Ordering("arm panic")
                \/ HasStep("arm panic") \/ HasStep("panic case")

PanicInv ==
  /\ \A th \in Consoles : todo[th] \in PanicLists
  /\ crossed \/ Answered

LEMMA ElementsSeq ==
  ASSUME NEW S, NEW T, NEW s \in Seq(S), \A k \in 1..Len(s) : s[k] \in T
  PROVE  s \in Seq(T)
<1>1. Len(s) \in Nat /\ s \in [1..Len(s) -> S]
  BY LenProperties
<1>2. s \in [1..Len(s) -> T]
  BY <1>1
<1> QED
  BY <1>1, <1>2, SeqDef

LEMMA LackingFacts ==
  ASSUME NEW ls
  PROVE  /\ <<>> \in Lacking(ls) /\ Lacking(ls) \subseteq Seq(GoodStep)
         /\ \A s, t \in Seq(GoodStep) :
              /\ s \in Lacking(ls) /\ t \in Lacking(ls) => s \o t \in Lacking(ls)
              /\ s \o t \in Lacking(ls) => t \in Lacking(ls)
         /\ \A s \in Seq(GoodStep) :
              s # <<>> => (s \in Lacking(ls) <=> Head(s).do \notin ls /\ Tail(s) \in Lacking(ls))
<1> DEFINE S == {s \in GoodStep : s.do \notin ls}
<1>1. S \subseteq GoodStep /\ \A e \in GoodStep : e \in S <=> e.do \notin ls
  OBVIOUS
<1>2. Lacking(ls) = Seq(S)
  BY DEF Lacking
<1> HIDE DEF S
<1>3. <<>> \in Seq(S) /\ Seq(S) \subseteq Seq(GoodStep)
  <2>1. <<>> \in Seq(S)
    OBVIOUS
  <2>2. Seq(S) \subseteq Seq(GoodStep)
    BY <1>1
  <2> QED
    BY <2>1, <2>2
<1>4. \A s, t \in Seq(S) : s \o t \in Seq(S)
  BY ConcatProperties
<1>5. ASSUME NEW s \in Seq(GoodStep), NEW t \in Seq(GoodStep), s \o t \in Seq(S)
      PROVE  t \in Seq(S)
  <2>1. /\ Len(s \o t) = Len(s) + Len(t) /\ Len(s) \in Nat /\ Len(t) \in Nat
        /\ \A i \in 1..(Len(s) + Len(t)) : (s \o t)[i] = IF i <= Len(s) THEN s[i] ELSE t[i - Len(s)]
    BY ConcatProperties, LenProperties
  <2>2. PICK l \in Seq(S) : l = s \o t
    BY <1>5
  <2>3. ASSUME NEW k \in 1..Len(t)  PROVE t[k] \in S
    <3>1. Len(s) + k \in 1..Len(l) /\ l[Len(s) + k] = t[k]
      BY <2>1, <2>2
    <3> QED
      BY <2>2, <3>1, ElementOfSeq
  <2> QED
    BY <2>3, ElementsSeq
<1>6. ASSUME NEW s \in Seq(GoodStep), s # <<>>
      PROVE  s \in Seq(S) <=> Head(s) \in S /\ Tail(s) \in Seq(S)
  <2>1. s \in Seq(S) => Head(s) \in S /\ Tail(s) \in Seq(S)
    BY <1>6, HeadTailProperties
  <2>2. ASSUME Head(s) \in S, Tail(s) \in Seq(S)  PROVE s \in Seq(S)
    <3>1. /\ Len(Tail(s)) = Len(s) - 1 /\ Len(s) \in Nat /\ Head(s) = s[1]
          /\ \A i \in 1..Len(Tail(s)) : Tail(s)[i] = s[i + 1]
      BY <1>6, HeadTailProperties, LenProperties
    <3>2. PICK l \in Seq(S) : l = Tail(s)
      BY <2>2
    <3>3. ASSUME NEW k \in 1..Len(s)  PROVE s[k] \in S
      <4>1. CASE k = 1
        BY <2>2, <3>1, <4>1
      <4>2. CASE k # 1
        <5>1. k - 1 \in 1..Len(l) /\ l[k - 1] = s[k]
          BY <3>1, <3>2, <4>2
        <5> QED
          BY <3>2, <5>1, ElementOfSeq
      <4> QED
        BY <4>1, <4>2
    <3> QED
      BY <3>3, ElementsSeq
  <2> QED
    BY <2>1, <2>2
<1>7. \A s \in Seq(GoodStep) : s # <<>> => Head(s) \in GoodStep
  BY HeadTailProperties
<1>8. \A s \in Seq(GoodStep) :
        s # <<>> => (s \in Seq(S) <=> Head(s).do \notin ls /\ Tail(s) \in Seq(S))
  BY <1>1, <1>6, <1>7
<1> QED
  BY <1>2, <1>3, <1>4, <1>5, <1>8


(* The lists a step of the trading thread puts before the others: none but *)
(* those that read the soft close's flags has a step of that part.         *)
LEMMA CalmLists ==
  /\ <<>> \in Lacking(SoftLabels) /\ Destroy \in Lacking(SoftLabels)
  /\ \A c : Lists(c) \subseteq Lacking(SoftLabels)
  /\ \A l \in {"panic", "arm panic", "special", "panic init", "disarm panic", "panic case", "run"} :
       From(l) \in Lacking(SoftLabels) /\ After(l) \in Lacking(SoftLabels)
<1> DEFINE Calm == {s \in GoodStep : s.do \notin SoftLabels}
<1>0. Lacking(SoftLabels) = Seq(Calm)
  BY DEF Lacking
<1>1. \A l \in {"panic", "arm panic", "special", "panic init", "disarm panic", "panic case", "run",
               "finish", "bury"} : Do(l) \in Calm
  <2> TAKE l \in {"panic", "arm panic", "special", "panic init", "disarm panic", "panic case", "run",
                  "finish", "bury"}
  <2>1. Do(l) \in GoodStep /\ Do(l).do = l
    BY LabelSteps DEF Stages
  <2> QED
    BY <2>1 DEF SoftLabels
<1>2. \A a \in Accounts : On(a, "drop") \in Calm /\ On(a, "cancel") \in Calm
  BY OnIsStep DEF SoftLabels
<1>3. \A c : Case4Steps(c) \subseteq Calm /\ MainSteps(c) \subseteq Calm
  BY DEF Case4Steps, MainSteps, SoftLabels
<1> HIDE DEF Calm
<1>4. \A x, y \in Calm : <<x>> \in Seq(Calm) /\ <<x, y>> \in Seq(Calm)
  OBVIOUS
<1>5. \A x, y \in Seq(Calm) : x \o y \in Seq(Calm)
  BY ConcatProperties
<1>6. <<>> \in Seq(Calm)
  OBVIOUS
<1>7. Destroy \in Seq(Calm)
  <2>1. CancelAll("long") \in Seq(Calm) /\ CancelAll("short") \in Seq(Calm)
    BY <1>2, <1>4 DEF CancelAll, Accounts
  <2>2. DestroyCancels \in Seq(Calm)
    BY <1>5, <2>1 DEF DestroyCancels
  <2>3. <<Do("bury")>> \in Seq(Calm)
    BY <1>1, <1>4
  <2> QED
    BY <1>5, <1>6, <2>2, <2>3 DEF Destroy
<1>8. ASSUME NEW c  PROVE Lists(c) \subseteq Seq(Calm)
  <2>1. Seq(Case4Steps(c)) \subseteq Seq(Calm)
    BY <1>3
  <2>2. \A s \in MainSteps(c) : <<s>> \in Seq(Calm)
    BY <1>3, <1>4
  <2> QED
    BY <1>6, <2>1, <2>2 DEF Lists
<1>9. FromRun \in Seq(Calm)
  BY <1>1, <1>4, <1>5 DEF FromRun
<1>10. FromSpecial \in Seq(Calm)
  BY <1>1, <1>4, <1>5, <1>9 DEF FromSpecial
<1>11. ASSUME NEW l \in {"panic", "arm panic", "special", "panic init", "disarm panic", "panic case",
                        "run"}
       PROVE  From(l) \in Seq(Calm) /\ After(l) \in Seq(Calm)
  <2>1. \A k \in {l, "arm panic", "panic case", "finish"} : Do(k) \in Calm /\ <<Do(k)>> \in Seq(Calm)
    BY <1>1, <1>4
  <2>2. After(l) \in Seq(Calm)
    <3>1. \/ After(l) = <<Do("arm panic")>> \o FromSpecial \/ After(l) = FromSpecial
          \/ After(l) = <<Do("panic case")>> \o FromRun \/ After(l) = <<Do("finish")>>
          \/ After(l) = FromRun
      BY DEF After
    <3> QED
      BY <1>5, <1>9, <1>10, <2>1, <3>1
  <2> QED
    BY <1>5, <2>1, <2>2 DEF From
<1> QED
  BY <1>0, <1>6, <1>7, <1>8, <1>11

(* A step of the trading thread that writes no flag of the panic close and *)
(* neither arms it nor makes its case.                                     *)
LEMMA PanicTrader ==
  ASSUME TypesInv, PanicInv, todo["trader"] # <<>>,
         flags'["panic"] = flags["panic"], flags'["panic_init"] = flags["panic_init"],
         crossed' = crossed,
         NEW rest \in Seq(GoodStep), Then("trader", rest),
         Head(todo["trader"]).do \notin {"arm panic", "panic case"},
         rest \in Lacking(SoftLabels) \/ ~PanicOn \/ Head(todo["trader"]).do \in SoftLabels,
         \/ tcase'.type = tcase.type \/ tcase.type # "PANIC_CLOSE"
         \/ Head(todo["trader"]).do \in SoftLabels
  PROVE  PanicInv'
<1>1. /\ todo'["trader"] = rest \o Tail(todo["trader"])
      /\ \A th \in Consoles : todo'[th] = todo[th]
      /\ todo["trader"] \in Seq(GoodStep) /\ Tail(todo["trader"]) \in Seq(GoodStep)
  <2>1. todo["trader"] \in Seq(GoodStep)
    BY TheirThreads DEF TypesInv
  <2> QED
    BY <2>1, TheirThreads, ThenFacts, HeadTailProperties
<1> DEFINE l == todo["trader"]
<1>2. /\ \A label : Ordering(label)' <=> Ordering(label)
      /\ PanicOn' <=> PanicOn
  BY <1>1 DEF Ordering, PanicOn
<1>3. \A th \in Consoles : todo'[th] \in PanicLists
  BY <1>1 DEF PanicInv
<1>4. CASE crossed
  BY <1>3, <1>4 DEF PanicInv
<1>5. \A ls : LET S == Lacking(ls) IN
        /\ rest \in S /\ Tail(l) \in S => rest \o Tail(l) \in S
        /\ rest \o Tail(l) \in S => Tail(l) \in S
  <2> TAKE ls
  <2>1. PICK t : t = Tail(l)
    OBVIOUS
  <2>2. /\ rest \in Lacking(ls) /\ t \in Lacking(ls) => rest \o t \in Lacking(ls)
        /\ rest \o t \in Lacking(ls) => t \in Lacking(ls)
    BY <1>1, <2>1, LackingFacts
  <2> QED
    BY <2>1, <2>2
<1>6. CASE Answered
  <2>1. Ordering("disarm panic") => flags["panic"] = FALSE
    BY <1>6 DEF Answered
  <2>2. ASSUME PanicOn, Head(l).do \in SoftLabels  PROVE Ordering("arm panic")
    <3>1. l \notin Lacking(SoftLabels)
      BY <1>1, <2>2, LackingFacts
    <3> QED
      BY <1>6, <2>2, <3>1 DEF Answered
  <2>3. ASSUME PanicOn, todo'["trader"] \notin Lacking(SoftLabels)  PROVE Ordering("arm panic")
    <3>1. CASE Head(l).do \in SoftLabels
      BY <2>2, <2>3, <3>1
    <3>2. CASE rest \in Lacking(SoftLabels)
      <4>1. Tail(l) \notin Lacking(SoftLabels)
        BY <1>1, <1>5, <2>3, <3>2
      <4>2. l \notin Lacking(SoftLabels)
        BY <1>1, <4>1, LackingFacts
      <4> QED
        BY <1>6, <2>3, <4>2 DEF Answered
    <3> QED
      BY <2>3, <3>1, <3>2
  <2>4. ASSUME NEW k \in {"arm panic", "panic case"}, l \notin Lacking({k})
        PROVE  todo'["trader"] \notin Lacking({k})
    <3>1. Head(l).do \notin {k}
      OBVIOUS
    <3>2. Tail(l) \notin Lacking({k})
      BY <1>1, <2>4, <3>1, LackingFacts
    <3> QED
      BY <1>1, <1>5, <3>2
  <2>5. ASSUME PanicOn
        PROVE  \/ tcase'.type = "PANIC_CLOSE" \/ Ordering("arm panic")
               \/ HasStep("arm panic")' \/ HasStep("panic case")'
    <3>1. \/ tcase.type = "PANIC_CLOSE" \/ Ordering("arm panic")
          \/ HasStep("arm panic") \/ HasStep("panic case")
      BY <1>6, <2>5 DEF Answered
    <3>2. \A k \in {"arm panic", "panic case"} : HasStep(k) => HasStep(k)'
      BY <2>4 DEF HasStep, Lacking
    <3> QED
      BY <2>2, <2>5, <3>1, <3>2
  <2>6. /\ Ordering("disarm panic")' => flags'["panic"] = FALSE
        /\ PanicOn' /\ todo'["trader"] \notin Lacking(SoftLabels) => Ordering("arm panic")'
        /\ PanicOn' => \/ tcase'.type = "PANIC_CLOSE" \/ Ordering("arm panic")'
                       \/ HasStep("arm panic")' \/ HasStep("panic case")'
    BY <1>2, <2>1, <2>3, <2>5
  <2>7. Answered'
    BY <2>6 DEF Answered, Lacking
  <2> QED
    BY <1>3, <2>7 DEF PanicInv
<1> QED
  BY <1>4, <1>6 DEF PanicInv

LEMMA PanicKeeps ==
  ASSUME PanicInv, UNCHANGED <<flags, todo, crossed>>, tcase'.type = tcase.type
  PROVE  PanicInv'
<1>1. \A label : Ordering(label)' <=> Ordering(label)
  BY DEF Ordering
<1>2. Answered => Answered'
  BY <1>1 DEF Answered, PanicOn, HasStep, Lacking
<1> QED
  BY <1>1, <1>2 DEF PanicInv

(* The lists of a console, and what they give it to do next.               *)
LEMMA PanicSteps ==
  /\ \A l \in {"panic", "arm panic", "no panic", "disarm panic"} : Do(l) \in GoodStep /\ Do(l).do = l
  /\ Head(enablePanicClose) = Do("panic") /\ Tail(enablePanicClose) = <<Do("arm panic")>>
  /\ Head(disablePanicClose) = Do("no panic") /\ Tail(disablePanicClose) = <<Do("disarm panic")>>
  /\ enablePanicClose # <<>> /\ disablePanicClose # <<>>
  /\ \A l \in {"arm panic", "disarm panic"} :
       <<Do(l)>> # <<>> /\ Head(<<Do(l)>>) = Do(l) /\ Tail(<<Do(l)>>) = <<>>
<1>1. \A x, y : /\ Head(<<x, y>>) = x /\ Tail(<<x, y>>) = <<y>> /\ <<x, y>> # <<>>
                /\ <<x>> # <<>> /\ Head(<<x>>) = x /\ Tail(<<x>>) = <<>>
  OBVIOUS
<1>2. \A l \in {"panic", "arm panic", "no panic", "disarm panic"} : Do(l) \in GoodStep /\ Do(l).do = l
  BY LabelSteps DEF Stages
<1> QED
  BY <1>1, <1>2 DEF enablePanicClose, disablePanicClose

LEMMA PanicHeads ==
  ASSUME NEW l \in PanicLists, l # <<>>
  PROVE  \/ Head(l) \in Unpanicked /\ Tail(l) \in Seq(Unpanicked)
         \/ Head(l).do = "panic" /\ Tail(l) = <<Do("arm panic")>>
         \/ Head(l).do = "no panic" /\ Tail(l) = <<Do("disarm panic")>>
         \/ Head(l).do \in {"arm panic", "disarm panic"} /\ Tail(l) = <<>>
<1>1. CASE l \in Seq(Unpanicked)
  BY <1>1, HeadTailProperties
<1>2. CASE l = enablePanicClose \/ l = disablePanicClose
  BY <1>2, PanicSteps
<1>3. CASE l = <<Do("arm panic")>> \/ l = <<Do("disarm panic")>>
  <2>1. \A k \in {"arm panic", "disarm panic"} :
          /\ Do(k).do = k /\ Head(<<Do(k)>>) = Do(k) /\ Tail(<<Do(k)>>) = <<>>
    BY PanicSteps
  <2> QED
    BY <1>3, <2>1
<1> QED
  BY <1>1, <1>2, <1>3 DEF PanicLists

LEMMA PanicTails ==
  /\ <<>> \in PanicLists /\ Seq(Unpanicked) \subseteq PanicLists
  /\ <<Do("arm panic")>> \in PanicLists /\ <<Do("disarm panic")>> \in PanicLists
  /\ \A l \in Seq(Unpanicked) : l # <<>> => Head(l).do \notin {"arm panic", "disarm panic"}
<1>1. <<>> \in Seq(Unpanicked)
  OBVIOUS
<1>2. \A l \in Seq(Unpanicked) : l # <<>> => Head(l) \in Unpanicked
  BY HeadTailProperties
<1> QED
  BY <1>1, <1>2 DEF PanicLists, Unpanicked, PanicWords

(* The flags a step writes.                                                *)
LEMMA PanicWrites ==
  ASSUME TypesInv, NEW l \in DOMAIN Writes,
         flags' = [flags EXCEPT ![Writes[l][1]] = Writes[l][2]]
  PROVE  /\ l \notin {"panic", "no panic"} => flags'["panic"] = flags["panic"]
         /\ l = "no panic" => flags'["panic"] = FALSE
         /\ l \notin {"arm panic", "disarm panic"} => flags'["panic_init"] = flags["panic_init"]
         /\ l = "arm panic" => flags'["panic_init"] = TRUE
<1>1. flags \in [Flags -> BOOLEAN] /\ "panic" \in Flags /\ "panic_init" \in Flags
  BY DEF TypesInv, Flags
<1>2. PICK w : w = Writes[l]
  OBVIOUS
<1>3. flags' = [flags EXCEPT ![w[1]] = w[2]]
  BY <1>2
<1>4. /\ l = "panic" => w = <<"panic", TRUE>>
      /\ l = "no panic" => w = <<"panic", FALSE>>
      /\ l = "arm panic" => w = <<"panic_init", TRUE>>
      /\ l = "disarm panic" => w = <<"panic_init", FALSE>>
      /\ l \notin {"panic", "no panic", "arm panic", "disarm panic"} =>
           w \in {<<"enable", TRUE>>, <<"enable", FALSE>>, <<"soft", TRUE>>, <<"soft", FALSE>>,
                  <<"soft_init", TRUE>>, <<"soft_init", FALSE>>}
  BY <1>2 DEF Writes
<1>5. /\ <<"panic", TRUE>>[1] = "panic"
      /\ <<"panic", FALSE>>[1] = "panic" /\ <<"panic", FALSE>>[2] = FALSE
      /\ <<"panic_init", TRUE>>[1] = "panic_init" /\ <<"panic_init", TRUE>>[2] = TRUE
      /\ <<"panic_init", FALSE>>[1] = "panic_init"
      /\ <<"enable", TRUE>>[1] = "enable" /\ <<"enable", FALSE>>[1] = "enable"
      /\ <<"soft", TRUE>>[1] = "soft" /\ <<"soft", FALSE>>[1] = "soft"
      /\ <<"soft_init", TRUE>>[1] = "soft_init" /\ <<"soft_init", FALSE>>[1] = "soft_init"
  OBVIOUS
<1>6. /\ l = "panic" => w[1] = "panic"
      /\ l = "no panic" => w[1] = "panic" /\ w[2] = FALSE
      /\ l = "arm panic" => w[1] = "panic_init" /\ w[2] = TRUE
      /\ l = "disarm panic" => w[1] = "panic_init"
      /\ l \notin {"panic", "no panic", "arm panic", "disarm panic"} =>
           w[1] \in {"enable", "soft", "soft_init"}
  BY <1>4, <1>5
<1>7. /\ \A f \in Flags : f # w[1] => flags'[f] = flags[f]
      /\ w[1] \in Flags => flags'[w[1]] = w[2]
  BY <1>1, <1>3
<1> QED
  BY <1>1, <1>6, <1>7

LEMMA ShortSeqs ==
  ASSUME NEW S
  PROVE  \A x, y \in S : <<x>> \in Seq(S) /\ <<x, y>> \in Seq(S)
OBVIOUS

(* selfDestruct and specialCases write as a console does: when one is at   *)
(* its own writes, selfDestruct has crossed it.                            *)
LEMMA PanicOrdered ==
  ASSUME InstanceInv, PanicInv, WriteFlag("trader")
  PROVE  PanicInv'
<1> DEFINE l == The("trader").do
<1>0. TypesInv /\ "trader" \in Threads
  BY TheirThreads DEF InstanceInv
<1>1. /\ l \in DOMAIN Writes /\ l \in Stages \ {"run"} /\ todo["trader"] # <<>>
      /\ flags' = [flags EXCEPT ![Writes[l][1]] = Writes[l][2]]
      /\ todo'["trader"] = Tail(todo["trader"]) /\ Tail(todo["trader"]) = After(l)
      /\ \A th \in Consoles : todo'[th] = todo[th]
      /\ tcase' = tcase
  BY <1>0, WriteFlagStep, TheirThreads
<1>2. /\ crossed' = (crossed \/ (/\ l \in {"panic", "arm panic"}
                                 /\ \E other \in Consoles : todo[other] # <<>>))
      /\ Then("trader", <<>>) /\ l = Head(todo["trader"]).do
  BY DEF WriteFlag, The
<1> HIDE DEF l
<1>3. /\ l \notin {"panic", "no panic"} => flags'["panic"] = flags["panic"]
      /\ l \notin {"arm panic", "disarm panic"} => flags'["panic_init"] = flags["panic_init"]
      /\ l = "arm panic" => flags'["panic_init"] = TRUE
  BY <1>0, <1>1, PanicWrites
<1>4. /\ \A label : Ordering(label)' <=> Ordering(label)
      /\ \A th \in Consoles : todo'[th] \in PanicLists
  BY <1>1 DEF Ordering, PanicInv
<1>5. l \in {"panic", "arm panic", "disarm panic", "disarm soft"}
  BY <1>1 DEF Writes, Stages
<1>6. CASE crossed'
  BY <1>4, <1>6 DEF PanicInv
<1>7. ASSUME ~crossed'
      PROVE  /\ ~crossed /\ Answered
             /\ l \in {"panic", "arm panic"} => \A label : ~Ordering(label)
  BY <1>2, <1>7 DEF PanicInv, Ordering
<1>8. ASSUME NEW k \in {"arm panic", "panic case"}, NEW t \in Seq(GoodStep),
             todo'["trader"] = <<Do(k)>> \o t
      PROVE  HasStep(k)'
  <2>1. Do(k) \in GoodStep /\ Do(k).do = k
    BY LabelSteps DEF Stages
  <2>2. PICK s : s = <<Do(k)>> \o t
    OBVIOUS
  <2>3. s \in Seq(GoodStep) /\ s # <<>> /\ Head(s) = Do(k)
    BY <2>1, <2>2, InFront
  <2>4. s \notin Lacking({k})
    BY <2>1, <2>3, LackingFacts
  <2> QED
    BY <1>8, <2>2, <2>4 DEF HasStep, Lacking
<1>9. CASE ~crossed' /\ l = "panic"
  <2>1. FromSpecial \in Seq(GoodStep) /\ After(l) = <<Do("arm panic")>> \o FromSpecial
    <3>1. "special" \in Stages /\ From("special") = FromSpecial
      BY DEF Stages, From, After, FromSpecial
    <3>2. FromSpecial \in Seq(GoodStep)
      BY <3>1, RoundFacts
    <3> QED
      BY <1>9, <3>2 DEF After
  <2>2. HasStep("arm panic")'
    BY <1>1, <1>8, <2>1
  <2>3. todo'["trader"] \in Lacking(SoftLabels)
    BY <1>1, <1>9, CalmLists
  <2>4. ~Ordering("disarm panic")'
    BY <1>4, <1>7, <1>9
  <2>5. Answered'
    BY <2>2, <2>3, <2>4 DEF Answered, Lacking
  <2> QED
    BY <1>4, <2>5 DEF PanicInv
<1>10. CASE ~crossed' /\ l = "arm panic"
  <2>1. ~PanicOn'
    BY <1>3, <1>10 DEF PanicOn
  <2>2. ~Ordering("disarm panic")'
    BY <1>4, <1>7, <1>10
  <2>3. Answered'
    BY <2>1, <2>2 DEF Answered
  <2> QED
    BY <1>4, <2>3 DEF PanicInv
<1>11. CASE ~crossed' /\ l = "disarm panic"
  <2>1. FromRun \in Seq(GoodStep) /\ After(l) = <<Do("panic case")>> \o FromRun
    BY <1>11, ShortSteps DEF After
  <2>2. HasStep("panic case")'
    BY <1>1, <1>8, <2>1
  <2>3. todo'["trader"] \in Lacking(SoftLabels)
    BY <1>1, <1>11, CalmLists
  <2>4. Ordering("disarm panic")' => flags'["panic"] = FALSE
    BY <1>3, <1>4, <1>7, <1>11 DEF Answered
  <2>5. Answered'
    BY <2>2, <2>3, <2>4 DEF Answered, Lacking
  <2> QED
    BY <1>4, <2>5 DEF PanicInv
<1>12. CASE ~crossed' /\ l = "disarm soft"
  <2>1. crossed' = crossed
    BY <1>0, <1>2, <1>12 DEF TypesInv
  <2>2. /\ flags'["panic"] = flags["panic"] /\ flags'["panic_init"] = flags["panic_init"]
        /\ l \in SoftLabels /\ l \notin {"arm panic", "panic case"}
    BY <1>3, <1>12 DEF SoftLabels
  <2>3. <<>> \in Seq(GoodStep)
    BY ShortSteps
  <2> QED
    BY <1>0, <1>1, <1>2, <2>1, <2>2, <2>3, PanicTrader
<1> QED
  BY <1>5, <1>6, <1>9, <1>10, <1>11, <1>12

(* A flag that is read.                                                    *)
LEMMA PanicReads ==
  ASSUME InstanceInv, PanicInv, ReadFlag
  PROVE  PanicInv'
<1>0. TypesInv
  BY DEF InstanceInv
<1>1. PICK l \in {"special", "panic init", "soft special", "soft init"} :
        AtHead("trader", l) /\ Then("trader", Branch(l))
  BY DEF ReadFlag
<1>2. /\ todo["trader"] # <<>> /\ Head(todo["trader"]).do = l
      /\ UNCHANGED <<flags, crossed, tcase>>
  BY <1>1 DEF ReadFlag, AtHead
<1>3. Branch(l) \in Seq(GoodStep)
  BY BranchFacts
<1>4. ASSUME NEW k \in {"panic init", "disarm panic", "panic case"}
      PROVE  Do(k) \in GoodStep /\ Do(k).do \notin SoftLabels
  <2>1. Do(k) \in GoodStep /\ Do(k).do = k
    BY LabelSteps DEF Stages
  <2> QED
    BY <2>1 DEF SoftLabels
<1>5. /\ <<Do("panic init")>> \in Lacking(SoftLabels)
      /\ <<Do("disarm panic"), Do("panic case")>> \in Lacking(SoftLabels)
  <2> DEFINE Calm == {s \in GoodStep : s.do \notin SoftLabels}
  <2>1. Lacking(SoftLabels) = Seq(Calm)
    BY DEF Lacking
  <2>2. \A k \in {"panic init", "disarm panic", "panic case"} : Do(k) \in Calm
    BY <1>4
  <2> HIDE DEF Calm
  <2>3. \A x, y \in Calm : <<x>> \in Seq(Calm) /\ <<x, y>> \in Seq(Calm)
    BY ShortSeqs
  <2> QED
    BY <2>1, <2>2, <2>3
<1>6. Branch(l) \in Lacking(SoftLabels) \/ ~PanicOn \/ l \in SoftLabels
  <2>1. CASE l = "special"
    <3>1. CASE flags["panic"]
      BY <1>5, <2>1, <3>1 DEF Branch
    <3>2. CASE ~flags["panic"]
      BY <3>2 DEF PanicOn
    <3> QED
      BY <3>1, <3>2
  <2>2. CASE l = "panic init"
    BY <1>5, <2>2, CalmLists DEF Branch
  <2>3. CASE l \in {"soft special", "soft init"}
    BY <2>3 DEF SoftLabels
  <2> QED
    BY <2>1, <2>2, <2>3
<1>7. l \notin {"arm panic", "panic case"} /\ tcase'.type = tcase.type
      /\ flags'["panic"] = flags["panic"] /\ flags'["panic_init"] = flags["panic_init"]
  BY <1>2
<1> QED
  BY <1>0, <1>1, <1>2, <1>3, <1>6, <1>7, PanicTrader

(* A case that is made: the one that answers a panic close, or another in  *)
(* a round that has found no panic close.                                  *)
LEMMA PanicMakes ==
  ASSUME InstanceInv, PanicInv, NEW type \in Specials, NEW l \in {"panic case", "soft case"},
         SpecialCase(l, type), l = "panic case" => type = "PANIC_CLOSE"
  PROVE  PanicInv'
<1>0. TypesInv
  BY DEF InstanceInv
<1>1. /\ todo["trader"] # <<>> /\ Head(todo["trader"]).do = l /\ Then("trader", Destroy)
      /\ UNCHANGED <<flags, crossed>>
  BY DEF SpecialCase, AtHead, Replace
<1>2. tcase'.type = type
  BY SpecialCaseStep
<1>3. Destroy \in Lacking(SoftLabels) /\ Destroy \in Seq(GoodStep)
  BY CalmLists, LackingFacts
<1>4. CASE l = "soft case"
  <2>1. l \in SoftLabels /\ l \notin {"arm panic", "panic case"}
    BY <1>4 DEF SoftLabels
  <2>2. flags'["panic"] = flags["panic"] /\ flags'["panic_init"] = flags["panic_init"]
    BY <1>1
  <2> QED
    BY <1>0, <1>1, <1>3, <2>1, <2>2, PanicTrader
<1>5. CASE l = "panic case"
  <2>1. /\ todo'["trader"] = Destroy \o Tail(todo["trader"])
        /\ \A th \in Consoles : todo'[th] = todo[th]
        /\ todo["trader"] \in Seq(GoodStep) /\ Tail(todo["trader"]) \in Seq(GoodStep)
    <3>1. todo["trader"] \in Seq(GoodStep)
      BY <1>0, TheirThreads DEF TypesInv
    <3> QED
      BY <1>0, <1>1, <1>3, <3>1, TheirThreads, ThenFacts, HeadTailProperties
  <2>2. /\ \A label : Ordering(label)' <=> Ordering(label)
        /\ PanicOn' <=> PanicOn
        /\ \A th \in Consoles : todo'[th] \in PanicLists
    BY <1>1, <2>1 DEF Ordering, PanicOn, PanicInv
  <2>3. todo'["trader"] \notin Lacking(SoftLabels) => todo["trader"] \notin Lacking(SoftLabels)
    <3>1. PICK t : t = Tail(todo["trader"])
      OBVIOUS
    <3>2. t \in Lacking(SoftLabels) => Destroy \o t \in Lacking(SoftLabels)
      BY <1>3, <2>1, <3>1, LackingFacts
    <3>3. t \notin Lacking(SoftLabels) => todo["trader"] \notin Lacking(SoftLabels)
      BY <1>1, <2>1, <3>1, LackingFacts
    <3> QED
      BY <2>1, <3>1, <3>2, <3>3
  <2>4. tcase'.type = "PANIC_CLOSE"
    BY <1>2, <1>5
  <2>5. Answered => Answered'
    BY <1>1, <2>2, <2>3, <2>4 DEF Answered, Lacking
  <2> QED
    BY <1>1, <2>2, <2>5 DEF PanicInv
<1> QED
  BY <1>4, <1>5

LEMMA PanicSelects ==
  ASSUME InstanceInv, PanicInv, Select \/ TriggerSelection
  PROVE  PanicInv'
<1>0. TypesInv
  BY DEF InstanceInv
<1>1. /\ todo["trader"] # <<>> /\ Head(todo["trader"]).do \in {"select", "trigger"}
      /\ UNCHANGED <<flags, crossed>>
  BY DEF Select, TriggerSelection, AtHead
<1>2. /\ Head(todo["trader"]).do \in SoftLabels
      /\ Head(todo["trader"]).do \notin {"arm panic", "panic case"}
      /\ flags'["panic"] = flags["panic"] /\ flags'["panic_init"] = flags["panic_init"]
  BY <1>1 DEF SoftLabels
<1>3. Then("trader", <<>>) \/ Then("trader", Destroy)
  BY SelectStep, TriggerStep DEF Replace
<1>4. <<>> \in Seq(GoodStep) /\ Destroy \in Seq(GoodStep)
  BY CalmLists, LackingFacts, ShortSteps
<1> QED
  BY <1>0, <1>1, <1>2, <1>3, <1>4, PanicTrader

(* A round begins where the last one has ended.                            *)
LEMMA PanicRound ==
  ASSUME InstanceInv, PanicInv, NEW e \in Estimates, Round(e)
  PROVE  PanicInv'
<1>1. /\ todo["trader"] = <<>>
      /\ todo'["trader"] = From("panic") \/ todo'["trader"] = From("special")
      /\ \A th \in Consoles : todo'[th] = todo[th]
      /\ UNCHANGED <<flags, crossed, tcase>>
  BY RoundStep DEF Round
<1>2. /\ \A label : Ordering(label)' <=> Ordering(label)
      /\ PanicOn' <=> PanicOn
      /\ \A th \in Consoles : todo'[th] \in PanicLists
  BY <1>1 DEF Ordering, PanicOn, PanicInv
<1>3. todo'["trader"] \in Lacking(SoftLabels)
  BY <1>1, CalmLists
<1>4. \A k : ~HasStep(k)
  BY <1>1, LackingFacts DEF HasStep
<1>5. Answered => Answered'
  BY <1>1, <1>2, <1>3, <1>4 DEF Answered, Lacking
<1> QED
  BY <1>1, <1>2, <1>5 DEF PanicInv

(* A step of the one console.                                              *)
LEMMA PanicConsole ==
  ASSUME OneConsole, InstanceInv, PanicInv, NEW th \in Consoles,
         \/ Drop(th) \/ CancelOrders(th)
         \/ WriteFlag(th)
  PROVE  PanicInv'
<1>0. TypesInv /\ th \in Threads /\ th # "trader"
  BY TheirThreads DEF InstanceInv
<1>1. /\ todo[th] # <<>> /\ Then(th, <<>>) /\ tcase' = tcase
  BY DEF Drop, CancelOrders, WriteFlag, AtHead
<1>2. /\ todo'[th] = Tail(todo[th]) /\ todo'["trader"] = todo["trader"]
  BY <1>0, <1>1, ThenNext, TheirThreads
<1>3. crossed' = crossed
  BY <1>0, <1>1 DEF Drop, CancelOrders, WriteFlag, TypesInv
<1> DEFINE l == todo[th]
           do == Head(l).do
<1>4. l \in PanicLists /\ (crossed \/ Answered)
  BY DEF PanicInv
<1>5. /\ \A label : Ordering(label) <=> do = label
      /\ \A label : Ordering(label)' <=> Tail(l) # <<>> /\ Head(Tail(l)).do = label
  BY <1>1, <1>2 DEF Ordering, OneConsole
<1>6. \/ Head(l) \in Unpanicked /\ Tail(l) \in Seq(Unpanicked)
      \/ do = "panic" /\ Tail(l) = <<Do("arm panic")>>
      \/ do = "no panic" /\ Tail(l) = <<Do("disarm panic")>>
      \/ do \in {"arm panic", "disarm panic"} /\ Tail(l) = <<>>
  BY <1>1, <1>4, PanicHeads
<1>7. /\ do \notin {"panic", "no panic"} => flags'["panic"] = flags["panic"]
      /\ do = "no panic" => flags'["panic"] = FALSE
      /\ do \notin {"arm panic", "disarm panic"} => flags'["panic_init"] = flags["panic_init"]
      /\ do = "arm panic" => flags'["panic_init"] = TRUE
  <2>1. CASE WriteFlag(th)
    <3>1. do \in DOMAIN Writes /\ flags' = [flags EXCEPT ![Writes[do][1]] = Writes[do][2]]
      BY <2>1 DEF WriteFlag, The
    <3> HIDE DEF do
    <3> QED
      BY <1>0, <3>1, PanicWrites
  <2>2. CASE Drop(th) \/ CancelOrders(th)
    <3>1. flags' = flags /\ do \in {"drop", "cancel"}
      BY <2>2 DEF Drop, CancelOrders, AtHead
    <3> QED
      BY <3>1
  <2> QED
    BY <2>1, <2>2
<1>8. \A t \in Consoles : todo'[t] \in PanicLists
  <2>1. Tail(l) \in PanicLists
    BY <1>6, PanicTails
  <2> QED
    BY <1>2, <2>1 DEF OneConsole
<1>9. /\ Do("arm panic").do = "arm panic" /\ Do("disarm panic").do = "disarm panic"
      /\ \A k \in {"arm panic", "disarm panic"} : <<Do(k)>> # <<>> /\ Head(<<Do(k)>>) = Do(k)
  BY PanicSteps
<1>10. ASSUME Answered  PROVE Answered'
  <2>0. /\ todo'["trader"] = todo["trader"] /\ tcase' = tcase
        /\ \A k : HasStep(k)' <=> HasStep(k)
    BY <1>1, <1>2 DEF HasStep, Lacking
  <2> DEFINE Met == /\ ~Ordering("disarm panic")' \/ flags'["panic"] = FALSE
                    /\ \/ flags'["panic"] # TRUE \/ flags'["panic_init"] # FALSE
                       \/ Ordering("arm panic")'
                       \/ PanicOn /\ ~Ordering("arm panic")
  <2>1. ASSUME Head(l) \in Unpanicked /\ Tail(l) \in Seq(Unpanicked)
        PROVE  Met
    <3>1. do \notin PanicWords
      BY <2>1 DEF Unpanicked
    <3>2. ~Ordering("disarm panic")' /\ ~Ordering("arm panic")
      BY <1>5, <2>1, <3>1, PanicTails DEF PanicWords
    <3>3. flags'["panic"] = flags["panic"] /\ flags'["panic_init"] = flags["panic_init"]
      BY <1>7, <3>1 DEF PanicWords
    <3>4. Met
      BY <3>2, <3>3 DEF PanicOn
    <3> QED
      BY <3>4
  <2>2. ASSUME do = "panic" /\ Tail(l) = <<Do("arm panic")>>
        PROVE  Met
    <3>1. Ordering("arm panic")' /\ ~Ordering("disarm panic")'
      BY <1>5, <1>9, <2>2
    <3> QED
      BY <3>1
  <2>3. ASSUME do = "no panic" /\ Tail(l) = <<Do("disarm panic")>>
        PROVE  Met
    <3>1. flags'["panic"] = FALSE
      BY <1>7, <2>3
    <3> QED
      BY <3>1
  <2>4. ASSUME do \in {"arm panic", "disarm panic"} /\ Tail(l) = <<>>
        PROVE  Met
    <3>1. ~Ordering("disarm panic")' /\ flags'["panic"] = flags["panic"]
      BY <1>5, <1>7, <2>4
    <3>2. CASE do = "arm panic"
      BY <1>7, <3>1, <3>2
    <3>3. CASE do = "disarm panic"
      <4>1. flags["panic"] = FALSE
        BY <1>5, <1>10, <3>3 DEF Answered
      <4> QED
        BY <3>1, <4>1
    <3> QED
      BY <2>4, <3>2, <3>3
  <2>5. Met
    BY <1>6, <2>1, <2>2, <2>3, <2>4
  <2>6. /\ Ordering("disarm panic")' => flags'["panic"] = FALSE
        /\ PanicOn' => Ordering("arm panic")' \/ (PanicOn /\ ~Ordering("arm panic"))
    BY <2>5 DEF PanicOn
  <2>7. /\ PanicOn /\ ~Ordering("arm panic") => todo["trader"] \in Lacking(SoftLabels)
        /\ PanicOn /\ ~Ordering("arm panic") =>
             tcase.type = "PANIC_CLOSE" \/ HasStep("arm panic") \/ HasStep("panic case")
    BY <1>10 DEF Answered
  <2> HIDE DEF Met
  <2> QED
    BY <2>0, <2>6, <2>7 DEF Answered, Lacking
<1> QED
  BY <1>3, <1>4, <1>8, <1>10 DEF PanicInv

LEMMA PanicScripts ==
  ASSUME NEW line \in Line
  PROVE  Script(line) \in Seq(Unpanicked) \cup {enablePanicClose, disablePanicClose}
<1>1. /\ \A l \in {"soft", "arm soft", "no soft", "disarm soft", "enable", "disable"} :
           Do(l) \in Unpanicked
      /\ \A a \in Accounts : On(a, "drop") \in Unpanicked /\ On(a, "cancel") \in Unpanicked
      /\ "long" \in Accounts /\ "short" \in Accounts
  <2>1. ASSUME NEW l \in {"soft", "arm soft", "no soft", "disarm soft", "enable", "disable"}
        PROVE  Do(l) \in Unpanicked
    <3>1. Do(l) \in GoodStep /\ Do(l).do = l
      BY LabelSteps DEF Stages
    <3> QED
      BY <3>1 DEF Unpanicked, PanicWords
  <2>2. ASSUME NEW a \in Accounts
        PROVE  On(a, "drop") \in Unpanicked /\ On(a, "cancel") \in Unpanicked
    <3>1. ASSUME NEW l \in {"drop", "cancel"}
          PROVE  On(a, l) \in Unpanicked
      <4>1. On(a, l) \in GoodStep /\ On(a, l).do = l
        BY OnIsStep
      <4> QED
        BY <4>1 DEF Unpanicked, PanicWords
    <3> QED
      BY <3>1
  <2>3. "long" \in Accounts /\ "short" \in Accounts
    BY DEF Accounts
  <2> QED
    BY <2>1, <2>2, <2>3
<1>2. \A x, y \in Unpanicked : <<x>> \in Seq(Unpanicked) /\ <<x, y>> \in Seq(Unpanicked)
  BY ShortSeqs
<1>3. \A x, y \in Seq(Unpanicked) : x \o y \in Seq(Unpanicked)
  BY ConcatProperties
<1>4. <<>> \in Seq(Unpanicked)
  OBVIOUS
<1>5. /\ startAction \in Seq(Unpanicked)
      /\ enableSoftClose \in Seq(Unpanicked) /\ disableSoftClose \in Seq(Unpanicked)
  BY <1>1, <1>2 DEF startAction, enableSoftClose, disableSoftClose
<1>6. stopAction \in Seq(Unpanicked)
  <2>1. CancelAll("short") \in Seq(Unpanicked) /\ CancelAll("long") \in Seq(Unpanicked)
        /\ <<Do("disable")>> \in Seq(Unpanicked)
    BY <1>1, <1>2 DEF CancelAll
  <2> QED
    BY <1>3, <2>1 DEF stopAction
<1>7. AccountStop(line.whom) \in Seq(Unpanicked)
  <2>1. <<On("short", "cancel"), On("long", "cancel")>> \in Seq(Unpanicked)
    BY <1>1, <1>2
  <2> QED
    BY <1>3, <1>4, <1>6, <2>1 DEF AccountStop
<1>8. line.name \in Names /\ line.off \in BOOLEAN
  BY DEF Line
<1> QED
  BY <1>4, <1>5, <1>7, <1>8 DEF Script, Names

LEMMA PanicCommand ==
  ASSUME OneConsole, InstanceInv, PanicInv, NEW th \in Consoles, NEW line \in Commands, Command(th, line)
  PROVE  PanicInv'
<1>0. TypesInv /\ th \in Threads /\ th # "trader" /\ line \in Line
  BY TheirThreads, ConsoleAssumption DEF InstanceInv
<1>1. todo[th] = <<>> /\ Then(th, Script(line)) /\ UNCHANGED <<tcase, flags, crossed>>
  BY DEF Command
<1>2. Script(line) \in Seq(GoodStep)
  BY <1>0, ScriptsTyped
<1>3. todo'[th] = Script(line) /\ todo'["trader"] = todo["trader"]
  BY <1>0, <1>1, <1>2, ThenFacts, TheirThreads
<1>4. /\ \A k : HasStep(k)' <=> HasStep(k)
      /\ PanicOn' <=> PanicOn
  BY <1>1, <1>3 DEF HasStep, Lacking, PanicOn
<1>5. Script(line) \in Seq(Unpanicked) \cup {enablePanicClose, disablePanicClose}
  BY <1>0, PanicScripts
<1>6. \A t \in Consoles : todo'[t] \in PanicLists
  BY <1>3, <1>5 DEF OneConsole, PanicLists
<1>7. ~Ordering("arm panic") /\ ~Ordering("disarm panic")'
  <2>1. ~Ordering("arm panic")
    BY <1>1 DEF Ordering, OneConsole
  <2>2. Script(line) # <<>> => Head(Script(line)).do # "disarm panic"
    <3>1. Do("panic").do = "panic" /\ Do("no panic").do = "no panic"
      BY PanicSteps
    <3> QED
      BY <1>5, <3>1, PanicTails, PanicSteps
  <2> QED
    BY <1>3, <2>1, <2>2 DEF Ordering, OneConsole
<1>8. Answered => Answered'
  BY <1>1, <1>3, <1>4, <1>7 DEF Answered, Lacking
<1> QED
  BY <1>1, <1>6, <1>8 DEF PanicInv

LEMMA PanicStarts == Init => PanicInv
<1> SUFFICES ASSUME Init  PROVE PanicInv
  OBVIOUS
<1>1. todo = [th \in Threads |-> <<>>] /\ flags = [f \in Flags |-> f = "enable"]
  BY DEF Init
<1>2. \A th \in Consoles : todo[th] = <<>>
  BY <1>1, TheirThreads
<1>3. flags["panic"] = FALSE
  BY <1>1 DEF Flags
<1>4. Answered
  BY <1>2, <1>3 DEF Answered, PanicOn, Ordering
<1> QED
  BY <1>2, <1>4, PanicTails DEF PanicInv

(* What a trader's step puts in front, when it is not of specialCases.     *)
LEMMA PanicApart ==
  ASSUME InstanceInv, PanicInv, todo["trader"] # <<>>, UNCHANGED <<flags, crossed>>,
         NEW rest \in Lacking(SoftLabels), Then("trader", rest),
         Head(todo["trader"]).do \notin {"arm panic", "panic case"},
         tcase'.type = tcase.type \/ tcase.type # "PANIC_CLOSE"
  PROVE  PanicInv'
<1>1. TypesInv /\ rest \in Seq(GoodStep)
  BY LackingFacts DEF InstanceInv
<1>2. flags'["panic"] = flags["panic"] /\ flags'["panic_init"] = flags["panic_init"]
  OBVIOUS
<1> QED
  BY <1>1, <1>2, PanicTrader

(* The calls of a case.                                                    *)
LEMMA PanicCalls ==
  ASSUME InstanceInv, PanicInv,
         \/ Drop("trader") \/ CancelOrders("trader")
         \/ SendOrder \/ ChangeOrder \/ SendPending \/ SendRequotes
  PROVE  PanicInv'
<1>0. TypesInv
  BY DEF InstanceInv
<1>1. <<>> \in Lacking(SoftLabels)
  BY CalmLists
<1>2. CASE Drop("trader") \/ CancelOrders("trader")
  BY <1>1, <1>2, PanicApart DEF Drop, CancelOrders, AtHead
<1>3. CASE SendOrder
  <2>1. tcase \in GoodCase /\ tcase.type # "NONE" /\ The("trader") \in GoodStep
    BY <1>0, <1>3, SendOrderStep DEF TypesInv
  <2>2. tcase'.type = tcase.type
    <3>1. PICK id \in {0} \cup Slots : tcase' = AnsweredNew(tcase, The("trader"), id)
      BY <1>3 DEF SendOrder
    <3>2. \A x \in {0} \cup Slots : \A d \in GoodStep : SameKind(tcase, AnsweredNew(tcase, d, x))
      BY <2>1, AnsweredNewFacts
    <3> QED
      BY <2>1, <3>1, <3>2 DEF SameKind
  <2> QED
    BY <1>1, <1>3, <2>2, PanicApart DEF SendOrder, AtHead
<1>4. CASE ChangeOrder
  <2>1. tcase \in GoodCase /\ tcase.type # "NONE" /\ The("trader") \in GoodStep
    BY <1>0, <1>4, ChangeOrderStep DEF TypesInv
  <2>2. tcase'.type = tcase.type
    <3>1. PICK answer \in {"gone", "same", "new"} : tcase' = AnsweredChange(tcase, The("trader"), answer)
      BY <1>4 DEF ChangeOrder
    <3> QED
      BY <2>1, <3>1, AnsweredChangeFacts DEF SameKind
  <2> QED
    BY <1>1, <1>4, <2>2, PanicApart DEF ChangeOrder, AtHead
<1>5. CASE SendPending
  BY <1>1, <1>5, PanicApart DEF SendPending, AtHead
<1>6. CASE SendRequotes
  <2> DEFINE a == The("trader").acct
  <2>1. ScriptInv /\ AtHead("trader", "requote")
    BY <1>6 DEF InstanceInv, SendRequotes
  <2>2. a = tcase.cur /\ a \in Accounts
    BY <1>0, <2>1, PendingHead
  <2>3. PICK q \in Quotes, holds \in BOOLEAN :
          Then("trader", IF holds THEN RequoteOrders(a, q) ELSE <<>>)
    BY <1>6 DEF SendRequotes
  <2>4. \A b \in Accounts : tcase.cur = b => RequoteOrders(b, q) \in Seq(Case4Steps(tcase))
    BY <1>0, RequotesAreCase4
  <2>5. Case4Steps(tcase) \subseteq {s \in GoodStep : s.do \notin SoftLabels}
    BY DEF Case4Steps, SoftLabels
  <2>6. Seq(Case4Steps(tcase)) \subseteq Lacking(SoftLabels)
    BY <2>5 DEF Lacking
  <2>7. PICK l \in Lacking(SoftLabels) : Then("trader", l)
    BY <1>1, <2>2, <2>3, <2>4, <2>6
  <2>8. UNCHANGED <<flags, crossed, tcase>> /\ todo["trader"] # <<>>
        /\ Head(todo["trader"]).do = "requote"
    BY <1>6 DEF SendRequotes, AtHead
  <2> QED
    BY <2>7, <2>8, PanicApart
<1> QED
  BY <1>2, <1>3, <1>4, <1>5, <1>6

LEMMA PanicRuns ==
  ASSUME InstanceInv, PanicInv, RunCase
  PROVE  PanicInv'
<1>0. TypesInv
  BY DEF InstanceInv
<1>1. /\ todo["trader"] # <<>> /\ UNCHANGED <<flags, crossed>>
      /\ Head(todo["trader"]).do \notin {"arm panic", "panic case"}
  BY DEF RunCase, AtHead
<1>2. CASE tcase = NoCase
  <2>1. tcase' = tcase /\ Then("trader", <<>>) /\ <<>> \in Lacking(SoftLabels)
    BY <1>2, CalmLists DEF RunCase
  <2> QED
    BY <1>1, <2>1, PanicApart
<1>3. CASE tcase # NoCase
  <2>1. tcase \in GoodCase /\ tcase.type # "NONE" /\ trigger \in Triggers
    BY <1>0, <1>3 DEF TypesInv, GoodCase
  <2>2. PICK q \in Quotes, thin \in BOOLEAN :
          \E o \in Run(tcase, trigger, q, thin) : tcase' = o.c /\ Then("trader", o.steps)
    BY <1>3 DEF RunCase
  <2>3. PICK o \in Run(tcase, trigger, q, thin) : tcase' = o.c /\ Then("trader", o.steps)
    BY <2>2
  <2>4. \A c \in GoodCase : \A ts \in Triggers : c.type # "NONE" =>
          \A x \in Run(c, ts, q, thin) : GoodOut(c, x)
    BY <1>0, RunOut
  <2>5. GoodOut(tcase, o)
    BY <2>1, <2>3, <2>4
  <2>6. tcase'.type = tcase.type
    BY <2>3, <2>5 DEF GoodOut, SameCase
  <2>7. o.steps \in Lacking(SoftLabels)
    BY <2>1, <2>5, OutListed, CalmLists
  <2> QED
    BY <1>1, <2>3, <2>6, <2>7, PanicApart
<1> QED
  BY <1>2, <1>3

LEMMA PanicFinishes ==
  ASSUME InstanceInv, PanicInv, Finish \/ Bury
  PROVE  PanicInv'
<1>1. /\ todo["trader"] # <<>> /\ UNCHANGED <<flags, crossed>>
      /\ Head(todo["trader"]).do \notin {"arm panic", "panic case"}
  BY DEF Finish, Bury, AtHead
<1>2. <<>> \in Lacking(SoftLabels) /\ Destroy \in Lacking(SoftLabels)
  BY CalmLists
<1>3. \/ Then("trader", Destroy) /\ tcase.type \notin Specials
      \/ Then("trader", <<>>) /\ tcase' = tcase
  BY DEF Finish, Bury, Replace
<1> QED
  BY <1>1, <1>2, <1>3, PanicApart DEF Specials

LEMMA PanicNext ==
  ASSUME OneConsole, InstanceInv, PanicInv, [Next]_vars
  PROVE  PanicInv'
<1>1. CASE UNCHANGED vars
  BY <1>1, PanicKeeps DEF vars, instanceVars
<1>2. ASSUME Trader  PROVE PanicInv'
  <2>1. "PANIC_CLOSE" \in Specials /\ "SOFT_CLOSE" \in Specials
    BY DEF Specials
  <2>2. CASE SpecialCase("panic case", "PANIC_CLOSE") \/ SpecialCase("soft case", "SOFT_CLOSE")
    BY <2>1, <2>2, PanicMakes
  <2>3. CASE Crash
    BY <2>3, PanicKeeps DEF Crash
  <2> QED
    BY <1>2, <2>2, <2>3, PanicCalls, PanicOrdered, PanicReads, PanicSelects, PanicRuns,
       PanicFinishes DEF Trader
<1>3. ASSUME NEW i \in Slots, Fills(i)  PROVE PanicInv'
  BY <1>3, PanicKeeps DEF Fills, instanceVars
<1>4. ASSUME NEW i \in Slots, OrderDone(i)  PROVE PanicInv'
  <2>1. tcase'.type = tcase.type
    BY <1>4, OrderDoneStep DEF SameKind
  <2> QED
    BY <1>4, <2>1, PanicKeeps DEF OrderDone
<1>5. ASSUME NEW i \in Slots, CallbackIsLost(i)  PROVE PanicInv'
  BY <1>5, PanicKeeps DEF CallbackIsLost
<1>6. ASSUME NEW th \in Threads, Hang(th)  PROVE PanicInv'
  BY <1>6, PanicKeeps DEF Hang
<1>7. ASSUME NEW a \in Accounts, Books(a)  PROVE PanicInv'
  BY <1>7, PanicKeeps DEF Books, instanceVars
<1> QED
  BY <1>1, <1>2, <1>3, <1>4, <1>5, <1>6, <1>7, PanicRound, PanicConsole, PanicCommand
     DEF Next, Console

(* With one console, a panic close that is on and no longer to be made has *)
(* its case or is about to have it, and keeps it until it is taken back or *)
(* the thread ends, whatever is refused, filled or overtaken:              *)
(* enablePanicClose and disablePanicClose write two flags that             *)
(* specialCases reads and resets one by one, selfDestruct writes them      *)
(* beside the console, and neither a change of the trigger in a round that *)
(* began before the order nor the end of another case takes the panic      *)
(* close away.  Only selfDestruct writing between the two writes of a      *)
(* command, which crossed records, can leave it on with no case.           *)
THEOREM PanicAnswered == OneConsole /\ Spec => []PanicIsAnswered
<1> DEFINE I == OneConsole /\ InstanceInv /\ PanicInv
<1>1. OneConsole /\ Init => I
  BY InstanceInit, PanicStarts
<1>2. I /\ [Next]_vars => I'
  <2> SUFFICES ASSUME I, [Next]_vars  PROVE I'
    OBVIOUS
  <2>1. OneConsole'
    BY DEF OneConsole
  <2> QED
    BY <2>1, InstanceNext, PanicNext
<1>3. I => PanicIsAnswered
  <2> SUFFICES ASSUME I, flags["panic"], ~flags["panic_init"], ~crossed,
                      \A th \in Consoles : todo[th] = <<>>
               PROVE  tcase.type = "PANIC_CLOSE" \/ About("arm panic") \/ About("panic case")
    BY DEF PanicIsAnswered
  <2>1. PanicOn /\ Answered /\ ~Ordering("arm panic")
    BY DEF InstanceInv, TypesInv, Flags, PanicOn, PanicInv, Ordering
  <2>2. ASSUME NEW l, HasStep(l)  PROVE About(l)
    <3>1. todo["trader"] \in Seq(GoodStep)
      BY TheirThreads DEF InstanceInv, TypesInv
    <3>2. DOMAIN todo["trader"] = 1..Len(todo["trader"])
      BY <3>1, LenProperties
    <3>3. ASSUME ~About(l)  PROVE todo["trader"] \in Lacking({l})
      <4>1. \A k \in 1..Len(todo["trader"]) : todo["trader"][k] \in {s \in GoodStep : s.do \notin {l}}
        BY <3>1, <3>2, <3>3, ElementOfSeq DEF About
      <4> QED
        BY <3>1, <4>1, ElementsSeq DEF Lacking
    <3> QED
      BY <2>2, <3>3 DEF HasStep
  <2> QED
    BY <2>1, <2>2 DEF Answered
<1> QED
  BY <1>1, <1>2, <1>3, PTL DEF Spec
=============================================================================

------------------------- MODULE TradeInstanceOrders -------------------------
(***************************************************************************)
(* Whose the orders at the market are.  When cancel_on_trigger is set and  *)
(* every cancel succeeds, the destructor of a case leaves nothing at the   *)
(* market: that a callback never outlives its case, that a case with one   *)
(* order has no other, never hedges too much, that a panic or soft close   *)
(* ends hedged and that closes never ask for more than is held all rest on *)
(* it, for every number of orders, consoles, sizes, prices and estimates.  *)
(***************************************************************************)
EXTENDS TradeInstanceProofs

Cancels == CancelOnTrigger /\ "cancel" \notin RefusedCalls

-----------------------------------------------------------------------------
(* The rites of a case, step by step.                                      *)

AtRite(n) == dying # NoCase /\ todo["trader"] # <<>> /\ Head(todo["trader"]) = RiteStep(n)

(* After which step no pending order of the account is left.               *)
LastDrop(a) == IF a = "long" THEN 5 ELSE 3

LEMMA RitesDiffer ==
  ASSUME NEW m \in 1..5, NEW n \in 1..5, RiteStep(m) = RiteStep(n)
  PROVE  m = n
<1>1. /\ RiteStep(m).do = IF m = 1 THEN "bury" ELSE IF m \in {2, 4} THEN "cancel" ELSE "drop"
      /\ RiteStep(n).do = IF n = 1 THEN "bury" ELSE IF n \in {2, 4} THEN "cancel" ELSE "drop"
      /\ m # 1 => RiteStep(m).acct = IF m \in {4, 5} THEN "long" ELSE "short"
      /\ n # 1 => RiteStep(n).acct = IF n \in {4, 5} THEN "long" ELSE "short"
  BY RiteIsStep
<1> QED
  BY <1>1

(* A list that begins with a rite, or with a part of the round, makes no   *)
(* call of a case.                                                         *)
Quiet(l) == l # <<>> => Head(l).do \notin {"open", "close", "change", "pending", "requote"}

LEMMA RoundsQuiet ==
  /\ \A t \in Rounds : Quiet(t)
  /\ \A n \in 0..5 : \A t \in Rounds : Quiet(Rites(n, t))
<1>1. ASSUME NEW t \in Rounds  PROVE Quiet(t)
  <2>1. ASSUME t # <<>>  PROVE Head(t).do \in Stages
    BY <2>1, RoundFacts, RoundLabels
  <2> QED
    BY <2>1 DEF Quiet, Stages
<1>2. ASSUME NEW n \in 0..5, NEW t \in Rounds  PROVE Quiet(Rites(n, t))
  <2>1. t \in Seq(GoodStep)
    BY RoundFacts
  <2>2. CASE n = 0
    BY <1>1, <2>1, <2>2, NoRites
  <2>3. CASE n \in 1..5
    BY <2>1, <2>3, NextRite, RiteIsStep DEF Quiet
  <2> QED
    BY <2>2, <2>3
<1> QED
  BY <1>1, <1>2

(* What the actions do to the case, the list and the orders.               *)
Replaced ==
  /\ NewOne(tcase') /\ dying' = tcase
  /\ IF tcase = NoCase THEN todo'["trader"] \in Rounds
     ELSE \E t \in Rounds : todo'["trader"] = Rites(5, t)

GoesOn == tcase' = tcase /\ dying' = NoCase /\ todo'["trader"] \in Rounds

Between == todo["trader"] # <<>> /\ Tail(todo["trader"]) \in Rounds

LEMMA ReplacedEffect ==
  ASSUME TypesInv, Cancels, dying = NoCase, Between, NewOne(tcase'), Replace(tcase')
  PROVE  Replaced
<1>1. \A n \in GoodCase : n.state = "INIT" /\ n.main = 0 /\ Replace(n) =>
        /\ dying' = tcase
        /\ todo'["trader"] = Rites(DestroySteps, Tail(todo["trader"]))
  BY ReplaceFacts DEF Between
<1>2. dying' = tcase /\ \E t \in Rounds : todo'["trader"] = Rites(DestroySteps, t)
  BY <1>1 DEF NewOne, Between
<1>3. PICK t \in Rounds : todo'["trader"] = Rites(DestroySteps, t)
  BY <1>2
<1>4. CASE tcase = NoCase
  <2>1. t \in Seq(GoodStep)
    BY RoundFacts
  <2>2. todo'["trader"] = t
    BY <1>3, <1>4, <2>1, NoRites DEF DestroySteps
  <2> QED
    BY <1>2, <1>4, <2>2 DEF Replaced
<1>5. CASE tcase # NoCase
  <2>1. DestroySteps = 5
    BY <1>5 DEF DestroySteps, Cancels
  <2> QED
    BY <1>2, <1>3, <1>5, <2>1 DEF Replaced
<1> QED
  BY <1>4, <1>5

LEMMA GoesOnEffect ==
  ASSUME TypesInv, dying = NoCase, Between, tcase' = tcase, dying' = dying, Then("trader", <<>>)
  PROVE  GoesOn
<1>1. todo'["trader"] = Tail(todo["trader"])
  BY TheirThreads, ThenNext DEF Between
<1> QED
  BY <1>1 DEF GoesOn, Between

(* Drop and CancelOrders, of either thread.                                *)
CancelEffect(th) ==
  /\ UNCHANGED <<pos, total, booking, tcase, dying, current, trigger, prev_trigger, flags, ended,
                 misled>>
  /\ Live' \subseteq Live /\ \A i \in Live' : orders'[i] = orders[i]
  /\ th \notin hung /\ todo[th] # <<>> /\ todo'[th] = Tail(todo[th])
  /\ \A t \in Threads \ {th} : todo'[t] = todo[t]
  /\ \/ /\ The(th).do = "drop"
        /\ pending'[The(th).acct] = <<>>
        /\ \A a \in Accounts \ {The(th).acct} : pending'[a] = pending[a]
     \/ /\ The(th).do = "cancel" /\ pending' = pending
        /\ "cancel" \notin RefusedCalls =>
             \A i \in Live' : orders[i].acct = The(th).acct /\ orders[i].known => orders[i].left = 0

LEMMA CancelsEffect ==
  ASSUME InstanceInv, NEW th \in {"trader"} \cup Consoles, Drop(th) \/ CancelOrders(th)
  PROVE  CancelEffect(th)
<1>0. /\ TypesInv /\ PairGood /\ th \in Threads
  BY TypesParts, TheirThreads DEF InstanceInv
<1>1. /\ th \notin hung /\ todo[th] # <<>> /\ Then(th, <<>>)
      /\ UNCHANGED <<tcase, dying, current, trigger, prev_trigger, flags, ended, misled>>
  BY DEF Drop, CancelOrders, AtHead
<1>2. /\ todo'[th] = Tail(todo[th])
      /\ \A t \in Threads \ {th} : todo'[t] = todo[t]
  BY <1>0, <1>1, ThenNext
<1>3. The(th) \in GoodStep
  BY <1>0, <1>1, StepOf
<1>4. CASE Drop(th)
  <2>1. The(th).do = "drop" /\ DropPending(The(th).acct)
    BY <1>4 DEF Drop, AtHead, The
  <2>2. The(th).acct \in Accounts
    BY <1>3, <2>1 DEF GoodStep
  <2>3. /\ orders' = orders /\ pos' = pos /\ total' = total /\ booking' = booking
        /\ pending'[The(th).acct] = <<>>
        /\ \A b \in Accounts \ {The(th).acct} : pending'[b] = pending[b]
    BY <1>0, <2>1, <2>2, DropFacts
  <2> QED
    BY <1>1, <1>2, <2>1, <2>3 DEF CancelEffect, Live
<1>5. CASE CancelOrders(th)
  <2>1. The(th).do = "cancel" /\ Cancel(The(th).acct)
    BY <1>5 DEF CancelOrders, AtHead, The
  <2>2. The(th).acct \in Accounts
    BY <1>3, <2>1 DEF GoodStep
  <2>3. /\ pos' = pos /\ total' = total /\ booking' = booking /\ pending' = pending
        /\ Live' \subseteq Live /\ \A i \in Live' : orders'[i] = orders[i]
        /\ "cancel" \notin RefusedCalls =>
             \A i \in Live' : orders[i].acct = The(th).acct /\ orders[i].known => orders[i].left = 0
    BY <1>0, <2>1, <2>2, CancelFacts
  <2> QED
    BY <1>1, <1>2, <2>1, <2>3 DEF CancelEffect
<1> QED
  BY <1>4, <1>5

(* The trading thread cancels in the destructor of a case, or for case 4.  *)
AtCancel(n) ==
  /\ dying.type # "NONE" /\ dying # NoCase /\ tcase.state = "INIT" /\ tcase.main = 0
  /\ Head(todo["trader"]) = RiteStep(n)
  /\ \E t \in Rounds : todo'["trader"] = Rites(n - 1, t)
  /\ The("trader").do = IF n \in {2, 4} THEN "cancel" ELSE "drop"
  /\ The("trader").acct = IF n \in {4, 5} THEN "long" ELSE "short"

LEMMA TraderCancels ==
  ASSUME TypesInv, ScriptInv, CancelEffect("trader")
  PROVE  (\E n \in 2..5 : AtCancel(n)) \/ (HeadRun /\ tcase.type = "CASE_4")
<1>1. /\ todo["trader"] # <<>> /\ todo'["trader"] = Tail(todo["trader"]) /\ "trader" \notin hung
      /\ The("trader").do \in {"drop", "cancel"} /\ The("trader") = Head(todo["trader"])
  BY DEF CancelEffect, The
<1>2. HeadRite \/ (HeadRun /\ tcase.type = "CASE_4")
  BY <1>1, CancelHead DEF AtHead
<1>3. CASE HeadRite
  <2>1. PICK n \in 1..5, t \in Rounds : /\ Head(todo["trader"]) = RiteStep(n)
                                        /\ Tail(todo["trader"]) = Rites(n - 1, t)
    BY <1>3 DEF HeadRite
  <2>2. /\ RiteStep(n).do = IF n = 1 THEN "bury" ELSE IF n \in {2, 4} THEN "cancel" ELSE "drop"
        /\ n # 1 => RiteStep(n).acct = IF n \in {4, 5} THEN "long" ELSE "short"
    BY RiteIsStep
  <2>3. n \in 2..5
    BY <1>1, <2>1, <2>2
  <2>4. dying # NoCase
    BY <1>3 DEF HeadRite, NoCase, NewCase
  <2> QED
    BY <1>1, <1>3, <2>1, <2>2, <2>3, <2>4 DEF HeadRite, AtCancel
<1> QED
  BY <1>2, <1>3

(* What the head is after that.                                            *)
LEMMA NextAtRite ==
  ASSUME NEW n \in 1..5, NEW t \in Rounds, todo'["trader"] = Rites(n, t),
         NEW m \in 1..5, AtRite(m)'
  PROVE  m = n
<1>1. t \in Seq(GoodStep)
  BY RoundFacts
<1>2. Head(Rites(n, t)) = RiteStep(n)
  BY <1>1, NextRite
<1>3. Head(todo'["trader"]) = RiteStep(m)
  BY DEF AtRite
<1>4. RiteStep(m) = RiteStep(n)
  BY <1>2, <1>3
<1> QED
  BY <1>4, RitesDiffer

-----------------------------------------------------------------------------
(* As long as the trading thread has not been misled, every order is among *)
(* the orders of its account, and where it has read positions they are the *)
(* ones the accounts hold.                                                 *)

Known == \A i \in Live : orders[i].known

LEMMA KnownSent ==
  ASSUME TypesInv, Known, ~misled, NEW a, NEW op, NEW size, NEW done, NEW id,
         Answers(a, op, size, done, id), misled' = (misled \/ (id = 0 /\ orders' # orders)), ~misled'
  PROVE  /\ Known'
         /\ \/ FreeId(id) /\ Sent(a, op, size, done, id, TRUE)
            \/ id = 0 /\ orders' = orders /\ (size \notin 1..SizeLimit \/ op \in RefusedCalls)
<1>1. ~(id = 0 /\ Unheard(a, op, size, done))
  BY DEF Unheard
<1> QED
  BY <1>1 DEF Answers, Known, Sent, Live

LEMMA TotalIsPos ==
  ASSUME TypesInv, ~Lagging
  PROVE  total = pos
BY DEF TypesInv, Lagging

-----------------------------------------------------------------------------
(* Nothing is left at the market when the destructor is over, and nothing  *)
(* is there while there is no case.                                        *)

LeftBy(n) == \A i \in Working : LastDrop(orders[i].acct) - 1 <= n

ClearInv ==
  /\ \A n \in 1..5 : AtRite(n) => LeftBy(n)
  /\ Owner = NoCase => Working = {}

(* A step that puts no order at the market.                                *)
Fewer == \A i \in Working' : i \in Working /\ orders'[i].acct = orders[i].acct

LEMMA FewerLeft ==
  ASSUME Fewer
  PROVE  /\ \A n : LeftBy(n) => LeftBy(n)'
         /\ Working = {} => Working' = {}
BY DEF Fewer, LeftBy

LEMMA StillFewer ==
  ASSUME TypesInv, orders' = orders \/ (Live' \subseteq Live /\ \A i \in Live' : orders'[i] = orders[i])
  PROVE  Fewer
BY DEF Fewer, Working, Live

LEMMA AccountsDrop == \A a \in Accounts : LastDrop(a) \in {3, 5} /\ (LastDrop(a) = 5 <=> a = "long")
BY DEF LastDrop, Accounts

(* Steps that leave the list and the case alone.                           *)
LEMMA ClearKeeps ==
  ASSUME ClearInv, Fewer, todo'["trader"] = todo["trader"], dying' = dying,
         (tcase' = NoCase) => (tcase = NoCase)
  PROVE  ClearInv'
<1>1. \A n : AtRite(n)' => AtRite(n)
  BY DEF AtRite
<1>2. Owner' = NoCase => Owner = NoCase
  BY DEF Owner
<1> QED
  BY <1>1, <1>2, FewerLeft DEF ClearInv

(* Steps of a run.                                                         *)
LEMMA ClearRuns ==
  ASSUME dying' = NoCase, tcase' # NoCase
  PROVE  ClearInv'
BY DEF ClearInv, AtRite, Owner

LEMMA ClearReplaced ==
  ASSUME TypesInv, ClearInv, UNCHANGED pairVars, dying = NoCase, Replaced \/ GoesOn
  PROVE  ClearInv'
<1>1. Working' = Working /\ \A i \in Working : orders'[i] = orders[i]
  BY DEF Working, Live, pairVars
<1>2. CASE GoesOn
  <2>1. Owner' = NoCase => Owner = NoCase
    BY <1>2 DEF GoesOn, Owner
  <2> QED
    BY <1>1, <1>2, <2>1 DEF ClearInv, GoesOn, AtRite
<1>3. CASE Replaced
  <2>1. Owner' = NoCase => Owner = NoCase
    BY <1>3 DEF Replaced, Owner
  <2>2. ASSUME NEW m \in 1..5, AtRite(m)'  PROVE LeftBy(m)'
    <3>1. tcase # NoCase
      BY <1>3, <2>2 DEF Replaced, AtRite
    <3>2. PICK t \in Rounds : todo'["trader"] = Rites(5, t)
      BY <1>3, <3>1 DEF Replaced
    <3>3. m = 5
      BY <2>2, <3>2, NextAtRite
    <3>4. \A i \in Working : orders[i].acct \in Accounts
      BY LiveOrders, TypesParts DEF Working
    <3> QED
      BY <1>1, <3>3, <3>4, AccountsDrop DEF LeftBy
  <2> QED
    BY <1>1, <2>1, <2>2 DEF ClearInv
<1> QED
  BY <1>2, <1>3

LEMMA ClearCancels ==
  ASSUME InstanceInv, Cancels, Known, ClearInv, NEW th \in {"trader"} \cup Consoles,
         CancelEffect(th)
  PROVE  ClearInv'
<1>0. TypesInv /\ ScriptInv /\ PairGood
  BY TypesParts DEF InstanceInv
<1>1. Fewer
  BY <1>0, StillFewer DEF CancelEffect
<1>2. tcase' = tcase /\ dying' = dying
  BY DEF CancelEffect
<1>3. CASE th # "trader"
  <2>1. todo'["trader"] = todo["trader"]
    BY <1>3, TheirThreads DEF CancelEffect
  <2> QED
    BY <1>1, <1>2, <2>1, ClearKeeps
<1>4. CASE th = "trader" /\ HeadRun /\ tcase.type = "CASE_4"
  <2>1. tcase' # NoCase /\ dying' = NoCase
    BY <1>2, <1>4 DEF HeadRun, NoCase, NewCase
  <2> QED
    BY <2>1, ClearRuns
<1>5. ASSUME NEW n \in 2..5, AtCancel(n), th = "trader"
      PROVE  ClearInv'
  <2>1. PICK t \in Rounds : todo'["trader"] = Rites(n - 1, t)
    BY <1>5 DEF AtCancel
  <2>2. LeftBy(n)
    BY <1>5 DEF AtCancel, AtRite, ClearInv, CancelEffect
  <2>3. \A i \in Working' : /\ i \in Working /\ orders'[i].acct = orders[i].acct
                            /\ orders[i].acct \in Accounts
                            /\ LastDrop(orders[i].acct) - 1 <= n
    BY <1>0, <1>1, <2>2, LiveOrders DEF Fewer, LeftBy, Working
  <2>4. ASSUME NEW i \in Working'  PROVE LastDrop(orders'[i].acct) - 1 <= n - 1
    <3>1. CASE n \in {3, 5}
      BY <2>3, <3>1, AccountsDrop
    <3>2. CASE n \in {2, 4}
      <4>1. The("trader").do = "cancel" /\ The("trader").acct = IF n = 4 THEN "long" ELSE "short"
        BY <1>5, <3>2 DEF AtCancel
      <4>2. \A j \in Live' : orders[j].acct = The("trader").acct => orders[j].left = 0
        BY <1>5, <4>1 DEF CancelEffect, Cancels, Known
      <4>3. orders'[i].left > 0 /\ orders'[i] = orders[i] /\ i \in Live'
        BY <1>5, <4>1 DEF CancelEffect, Working
      <4>4. orders[i].acct # The("trader").acct
        BY <4>2, <4>3
      <4>5. orders[i].acct = IF n = 4 THEN "short" ELSE "long"
        BY <2>3, <4>1, <4>4 DEF Accounts
      <4> QED
        BY <2>3, <3>2, <4>3, <4>5 DEF LastDrop
    <3> QED
      BY <3>1, <3>2
  <2>5. ASSUME NEW m \in 1..5, AtRite(m)'  PROVE LeftBy(m)'
    <3>1. n - 1 \in 1..5
      OBVIOUS
    <3>2. \A k \in 1..5 : todo'["trader"] = Rites(k, t) => m = k
      BY <2>5, NextAtRite
    <3>3. m = n - 1
      BY <2>1, <3>1, <3>2
    <3> QED
      BY <2>4, <3>3 DEF LeftBy
  <2>6. Owner' # NoCase
    BY <1>2, <1>5 DEF AtCancel, Owner
  <2> QED
    BY <2>5, <2>6 DEF ClearInv
<1> QED
  BY <1>0, <1>3, <1>4, <1>5, TraderCancels

LEMMA ClearBury ==
  ASSUME InstanceInv, ClearInv, Bury
  PROVE  ClearInv' /\ AtRite(1) /\ Working = {} /\ Working' = {}
<1>0. TypesInv /\ ScriptInv /\ PairGood
  BY TypesParts DEF InstanceInv
<1>1. /\ dying # NoCase /\ Live' = Live /\ \A i \in Live : orders'[i].left = orders[i].left
  BY BuryStep
<1>2. todo["trader"] # <<>> /\ AtHead("trader", "bury") /\ dying' = NoCase
  BY DEF Bury, AtHead
<1>3. HeadRite
  <2>1. HeadRite \/ HeadRound \/ HeadRun
    BY <1>0, <1>2, Heads
  <2> QED
    BY <1>1, <2>1 DEF HeadRound, HeadRun
<1>4. AtRite(1)
  <2>1. PICK n \in 1..5 : Head(todo["trader"]) = RiteStep(n)
    BY <1>3 DEF HeadRite
  <2>2. n = 1
    BY <1>2, <2>1, RiteIsStep DEF AtHead
  <2> QED
    BY <1>1, <1>2, <2>1, <2>2 DEF AtRite
<1>5. Working = {}
  <2>1. LeftBy(1)
    BY <1>4 DEF ClearInv
  <2>2. \A i \in Working : LastDrop(orders[i].acct) \in {3, 5}
    BY <1>0, LiveOrders, AccountsDrop DEF Working
  <2> QED
    BY <2>1, <2>2 DEF LeftBy
<1>6. Working' = {}
  BY <1>1, <1>5 DEF Working
<1> QED
  BY <1>2, <1>4, <1>5, <1>6 DEF ClearInv, AtRite

(* The selections of a case, in a round or after it.                       *)
LEMMA SelectsEffect ==
  ASSUME TypesInv, Cancels, dying = NoCase, Between, Selects
  PROVE  Replaced \/ GoesOn
BY ReplacedEffect, GoesOnEffect DEF Selects

(* What a step of a round comes to, when the positions it reads are true.  *)
SelectionOf ==
  \/ /\ UNCHANGED <<current, prev_trigger>>
     /\ \/ GoesOn
        \/ Replaced /\ tcase'.type \in Specials /\ tcase'.cur = current
        \/ /\ Replaced /\ tcase = NoCase /\ current \in Accounts /\ ~Lagging
           /\ tcase' = NextCase(current, estimate)
  \/ /\ prev_trigger' \in {"POSITIVE", "NEGATIVE"} /\ prev_trigger' # prev_trigger
     /\ current' = IF prev_trigger' = "POSITIVE" THEN "long" ELSE "short"
     /\ Replaced /\ ~Lagging /\ tcase' = NextCase(current', estimate)

Choosing ==
  \/ \E e \in Estimates : Round(e)
  \/ ReadFlag \/ WriteFlag("trader")
  \/ SpecialCase("panic case", "PANIC_CLOSE") \/ SpecialCase("soft case", "SOFT_CLOSE")
  \/ Select \/ TriggerSelection

LEMMA ChoosingEffect ==
  ASSUME InstanceInv, Cancels, Choosing, ~misled'
  PROVE  /\ dying = NoCase /\ UNCHANGED pairVars
         /\ ended' = ended /\ (ended => todo["trader"] # <<>>)
         /\ SelectionOf
<1>0. TypesInv /\ ScriptInv /\ "trader" \in Threads
  BY TheirThreads DEF InstanceInv
<1>1. ASSUME NEW e \in Estimates, Round(e)
      PROVE  /\ dying = NoCase /\ UNCHANGED pairVars /\ ~ended /\ ended' = ended /\ SelectionOf
  <2>1. /\ dying = NoCase
        /\ todo'["trader"] = From("panic") \/ todo'["trader"] = From("special")
    BY <1>1, RoundStep
  <2>2. todo'["trader"] \in Rounds
    BY <2>1, RoundFacts DEF Stages
  <2>3. /\ UNCHANGED <<pairVars, tcase, dying, current, prev_trigger>> /\ ~ended /\ ended' = ended
    BY <1>1 DEF Round
  <2> QED
    BY <2>1, <2>2, <2>3 DEF SelectionOf, GoesOn
<1>2. CASE ReadFlag
  <2>1. dying = NoCase
    BY <1>2, ReadFlagStep
  <2>2. /\ UNCHANGED <<pairVars, tcase, dying, current, prev_trigger>> /\ ended' = ended
    BY <1>2 DEF ReadFlag
  <2>3. PICK l \in {"special", "panic init", "soft special", "soft init"} :
          AtHead("trader", l) /\ Then("trader", Branch(l))
    BY <1>2 DEF ReadFlag
  <2>4. todo["trader"] # <<>> /\ l \in Stages /\ Branch(l) \in Seq(GoodStep)
    BY <2>3, BranchFacts DEF AtHead, Stages
  <2>5. todo'["trader"] = Branch(l) \o Tail(todo["trader"])
    BY <1>0, <2>3, <2>4, ThenFacts
  <2>6. Tail(todo["trader"]) = After(l)
    BY <1>0, <2>3, <2>4, RoundHead
  <2>7. todo'["trader"] \in Rounds
    BY <2>5, <2>6, BranchFacts
  <2> QED
    BY <2>1, <2>2, <2>4, <2>7 DEF SelectionOf, GoesOn
<1>3. CASE WriteFlag("trader")
  <2>1. /\ todo["trader"] # <<>> /\ UNCHANGED <<pairVars, tcase, dying>> /\ dying = NoCase
        /\ The("trader").do \in Stages \ {"run"}
        /\ Tail(todo["trader"]) = After(The("trader").do)
        /\ todo'["trader"] = Tail(todo["trader"])
    BY <1>0, <1>3, WriteFlagStep
  <2>2. UNCHANGED <<current, prev_trigger>> /\ ended' = ended
    BY <1>3 DEF WriteFlag
  <2>3. todo'["trader"] \in Rounds
    BY <2>1, RoundFacts
  <2> QED
    BY <2>1, <2>2, <2>3 DEF SelectionOf, GoesOn
<1>4. ASSUME NEW l \in {"panic case", "soft case"}, NEW type \in Specials, SpecialCase(l, type)
      PROVE  /\ dying = NoCase /\ UNCHANGED pairVars /\ ended' = ended /\ SelectionOf
             /\ todo["trader"] # <<>>
  <2>1. /\ dying = NoCase /\ Tail(todo["trader"]) \in Rounds
        /\ NewOne(tcase') /\ Replace(tcase') /\ tcase'.type = type
    BY <1>4, SpecialCaseStep
  <2>2. /\ todo["trader"] # <<>> /\ UNCHANGED <<pairVars, current, prev_trigger>> /\ ended' = ended
    BY <1>4 DEF SpecialCase, AtHead
  <2>3. tcase' = NewCase(type, current, IF current = NoAcc THEN NoAcc ELSE Other(current))
    BY <1>4 DEF SpecialCase, Replace
  <2>4. tcase'.cur = current
    BY <2>3 DEF NewCase
  <2>5. Replaced
    BY <1>0, <2>1, <2>2, ReplacedEffect DEF Between
  <2> QED
    BY <2>1, <2>2, <2>4, <2>5 DEF SelectionOf
<1>5. CASE Select
  <2>1. /\ dying = NoCase /\ Tail(todo["trader"]) \in Rounds
        /\ \/ UNCHANGED <<tcase, dying, misled>> /\ Then("trader", <<>>)
           \/ /\ current \in Accounts /\ tcase' = NextCase(current, estimate)
              /\ NewOne(tcase') /\ Replace(tcase') /\ tcase = NoCase
              /\ misled' = (misled \/ Lagging)
    BY <1>5, SelectStep
  <2>2. /\ todo["trader"] # <<>> /\ UNCHANGED <<pairVars, current, prev_trigger>> /\ ended' = ended
    BY <1>5 DEF Select, AtHead
  <2>3. CASE UNCHANGED <<tcase, dying, misled>> /\ Then("trader", <<>>)
    <3>1. GoesOn
      BY <1>0, <2>1, <2>2, <2>3, GoesOnEffect DEF Between
    <3> QED
      BY <2>1, <2>2, <3>1 DEF SelectionOf
  <2>4. CASE /\ current \in Accounts /\ tcase' = NextCase(current, estimate)
             /\ NewOne(tcase') /\ Replace(tcase') /\ tcase = NoCase
             /\ misled' = (misled \/ Lagging)
    <3>1. Replaced
      BY <1>0, <2>1, <2>2, <2>4, ReplacedEffect DEF Between
    <3> QED
      BY <2>1, <2>2, <2>4, <3>1 DEF SelectionOf
  <2> QED
    BY <2>1, <2>3, <2>4
<1>6. CASE TriggerSelection
  <2>1. /\ dying = NoCase /\ Tail(todo["trader"]) \in Rounds
        /\ \/ UNCHANGED <<tcase, dying, current, prev_trigger, misled>> /\ Then("trader", <<>>)
           \/ /\ current' \in Accounts /\ tcase' = NextCase(current', estimate)
              /\ NewOne(tcase') /\ Replace(tcase')
              /\ misled' = (misled \/ Lagging)
              /\ prev_trigger' \in {"POSITIVE", "NEGATIVE"} /\ prev_trigger' # prev_trigger
              /\ current' = IF prev_trigger' = "POSITIVE" THEN "long" ELSE "short"
    BY <1>6, TriggerStep
  <2>2. todo["trader"] # <<>> /\ UNCHANGED pairVars /\ ended' = ended
    BY <1>6 DEF TriggerSelection, AtHead
  <2>3. CASE UNCHANGED <<tcase, dying, current, prev_trigger, misled>> /\ Then("trader", <<>>)
    <3>1. GoesOn
      BY <1>0, <2>1, <2>2, <2>3, GoesOnEffect DEF Between
    <3> QED
      BY <2>1, <2>2, <2>3, <3>1 DEF SelectionOf
  <2>4. CASE /\ current' \in Accounts /\ tcase' = NextCase(current', estimate)
             /\ NewOne(tcase') /\ Replace(tcase')
             /\ misled' = (misled \/ Lagging)
             /\ prev_trigger' \in {"POSITIVE", "NEGATIVE"} /\ prev_trigger' # prev_trigger
             /\ current' = IF prev_trigger' = "POSITIVE" THEN "long" ELSE "short"
    <3>1. Replaced
      BY <1>0, <2>1, <2>2, <2>4, ReplacedEffect DEF Between
    <3> QED
      BY <2>1, <2>2, <2>4, <3>1 DEF SelectionOf
  <2> QED
    BY <2>1, <2>3, <2>4
<1> QED
  BY <1>1, <1>2, <1>3, <1>4, <1>5, <1>6 DEF Choosing, Specials

LEMMA FinishEffect ==
  ASSUME InstanceInv, Cancels, Finish
  PROVE  /\ dying = NoCase /\ UNCHANGED <<pairVars, current, prev_trigger>>
         /\ \/ /\ Replaced /\ tcase' = NoCase /\ tcase.type \notin Specials \cup {"NONE"}
               /\ tcase.state \in {"DONE", "FAILED"}
            \/ /\ GoesOn /\ todo'["trader"] = <<>>
               /\ tcase.type \in Specials \cup {"NONE"} \/ tcase.state \notin {"DONE", "FAILED"}
         /\ ended' = (tcase.type \in Specials /\ tcase.state = "DONE")
<1>1. /\ dying = NoCase
      /\ \/ /\ tcase.type \notin Specials \cup {"NONE"} /\ tcase.state \in {"DONE", "FAILED"}
            /\ tcase' = NoCase /\ dying' = tcase
            /\ todo'["trader"] = Rites(DestroySteps, <<>>)
         \/ /\ tcase.type \in Specials \cup {"NONE"} \/ tcase.state \notin {"DONE", "FAILED"}
            /\ tcase' = tcase /\ dying' = dying /\ todo'["trader"] = <<>>
  BY FinishStep
<1>2. /\ UNCHANGED <<pairVars, current, prev_trigger>>
      /\ ended' = (tcase.type \in Specials /\ tcase.state = "DONE")
  BY DEF Finish
<1>3. ASSUME tcase.type \notin Specials \cup {"NONE"}, tcase' = NoCase, dying' = tcase,
             todo'["trader"] = Rites(DestroySteps, <<>>)
      PROVE  Replaced
  <2>1. tcase # NoCase
    BY <1>3 DEF NoCase, NewCase
  <2>2. DestroySteps = 5
    BY <2>1 DEF DestroySteps, Cancels
  <2>3. NewOne(NoCase)
    BY NoCaseIsCase DEF NewOne, NoCase, NewCase
  <2> QED
    BY <1>3, <2>1, <2>2, <2>3 DEF Replaced, Rounds
<1> QED
  BY <1>1, <1>2, <1>3 DEF GoesOn, Rounds

LEMMA ClearStays ==
  ASSUME ClearInv, Fewer, dying' = NoCase, dying = NoCase, (tcase' = NoCase) => (tcase = NoCase)
  PROVE  ClearInv'
<1>1. Owner' = NoCase => Owner = NoCase
  BY DEF Owner
<1> QED
  BY <1>1, FewerLeft DEF ClearInv, AtRite

(* What the other steps leave alone, for the consoles and the market.      *)
LEMMA OthersKeep ==
  ASSUME InstanceInv, NEW th \in Consoles,
         WriteFlag(th) \/ \E line \in Commands : Command(th, line)
  PROVE  /\ UNCHANGED <<pairVars, tcase, dying, current, prev_trigger, ended, misled>>
         /\ todo'["trader"] = todo["trader"]
<1>0. TypesInv /\ th \in Threads /\ th # "trader"
  BY TheirThreads DEF InstanceInv
<1>1. CASE WriteFlag(th)
  <2>1. /\ todo[th] # <<>> /\ Then(th, <<>>)
        /\ UNCHANGED <<pairVars, tcase, dying, current, prev_trigger, ended, misled>>
    BY <1>1 DEF WriteFlag
  <2> QED
    BY <1>0, <2>1, ThenNext, TheirThreads
<1>2. ASSUME NEW line \in Commands, Command(th, line)
      PROVE  /\ UNCHANGED <<pairVars, tcase, dying, current, prev_trigger, ended, misled>>
             /\ todo'["trader"] = todo["trader"]
  <2>1. /\ Then(th, Script(line))
        /\ UNCHANGED <<pairVars, tcase, dying, current, prev_trigger, ended, misled>>
    BY <1>2 DEF Command
  <2>2. Script(line) \in Seq(GoodStep)
    BY ScriptsTyped, ConsoleAssumption
  <2> QED
    BY <1>0, <2>1, <2>2, ThenFacts, TheirThreads
<1> QED
  BY <1>1, <1>2

LEMMA FilledFewer ==
  ASSUME TypesInv, NEW i \in Slots, NEW n \in Nat, Filled(i, n)
  PROVE  Fewer /\ i \in Working
<1>1. SizeLimit \in Nat /\ i \in Live /\ orders[i].left \in 0..SizeLimit /\ n \in 1..orders[i].left
  BY LiveOrders, TypesParts, PairAssumption DEF Filled
<1>2. i \in Working
  BY <1>1 DEF Working
<1>3. ASSUME NEW j \in Working'  PROVE j \in Working /\ orders'[j].acct = orders[j].acct
  <2>1. CASE j = i
    BY <1>2, <1>3, <2>1 DEF Filled, Working
  <2>2. CASE j # i
    BY <1>3, <2>2 DEF Filled, Working
  <2> QED
    BY <2>1, <2>2
<1> QED
  BY <1>2, <1>3 DEF Fewer

LEMMA SameWork ==
  ASSUME UNCHANGED pairVars
  PROVE  /\ Live' = Live /\ Working' = Working /\ orders' = orders /\ Fewer
         /\ pos' = pos /\ pending' = pending
BY DEF Fewer, Working, Live, pairVars

(* The steps that change nothing the properties of the orders speak of.    *)
LEMMA HangKeeps ==
  ASSUME NEW th \in Threads, Hang(th)
  PROVE  UNCHANGED <<pairVars, tcase, dying, todo, current, prev_trigger, ended, misled>>
BY DEF Hang

LEMMA BooksKeeps ==
  ASSUME InstanceInv, NEW a \in Accounts, Books(a)
  PROVE  /\ UNCHANGED <<pos, orders, pending, tcase, dying, todo, current, prev_trigger, ended, misled>>
         /\ Live' = Live /\ Working' = Working /\ Fewer
<1>1. /\ pos' = pos /\ orders' = orders /\ pending' = pending /\ Live' = Live
      /\ UNCHANGED instanceVars
  BY BooksStep
<1> QED
  BY <1>1 DEF instanceVars, Fewer, Working

LEMMA StaysMisled ==
  ASSUME InstanceInv, [Next]_vars
  PROVE  misled => misled'
<1>1. CASE UNCHANGED vars
  BY <1>1 DEF vars, instanceVars
<1>2. CASE Next
  <2>0. TypesInv
    BY DEF InstanceInv
  <2>1. CASE SendOrder
    BY <2>1 DEF SendOrder
  <2>2. CASE ChangeOrder
    BY <2>2 DEF ChangeOrder
  <2>3. CASE SendPending
    BY <2>3 DEF SendPending
  <2>4. CASE Select \/ TriggerSelection \/ RunCase
    BY <2>4 DEF Select, TriggerSelection, RunCase, CaseSelection
  <2>5. CASE \E i \in Slots : Fills(i)
    BY <2>5 DEF Fills, instanceVars
  <2>6. CASE \E a \in Accounts : Books(a)
    BY <2>6 DEF Books, instanceVars
  <2>7. ASSUME \/ \E e \in Estimates : Round(e)
               \/ ReadFlag \/ Crash \/ Finish \/ Bury \/ SendRequotes
               \/ \E l, type : SpecialCase(l, type)
               \/ \E th \in Threads : Drop(th) \/ CancelOrders(th) \/ WriteFlag(th) \/ Hang(th)
               \/ \E th \in Consoles, line \in Commands : Command(th, line)
               \/ \E i \in Slots : OrderDone(i) \/ CallbackIsLost(i)
        PROVE  misled' = misled
    BY <2>7 DEF Round, ReadFlag, Crash, Finish, Bury, SendRequotes, SpecialCase, Drop, CancelOrders,
                WriteFlag, Hang, Command, OrderDone, CallbackIsLost
  <2> QED
    BY <1>2, <2>1, <2>2, <2>3, <2>4, <2>5, <2>6, <2>7, TheirThreads DEF Next, Trader, Console
<1> QED
  BY <1>1, <1>2

LEMMA KnownNext ==
  ASSUME InstanceInv, Known, ~misled, ~misled', [Next]_vars
  PROVE  Known'
<1>0. TypesInv /\ ScriptInv /\ PairGood
  BY TypesParts DEF InstanceInv
<1>1. CASE SendOrder
  BY <1>0, <1>1, SendOrderStep, KnownSent
<1>2. CASE ChangeOrder
  <2>1. \/ orders' = orders
        \/ \E id, size : Changed(id, size, TRUE)
    BY <1>2, ChangeOrderStep
  <2> QED
    BY <2>1 DEF Known, Changed, Live
<1>3. CASE SendPending
  <2>1. \/ orders' = orders
        \/ \E id, a, op, size, done : Sent(a, op, size, done, id, TRUE)
    BY <1>3, SendPendingStep
  <2> QED
    BY <2>1 DEF Known, Sent, Live
<1>4. CASE Bury
  BY <1>4, BuryStep DEF Known
<1>5. ASSUME NEW i \in Slots, Fills(i)  PROVE Known'
  <2>1. PICK n \in Nat : Filled(i, n)
    BY <1>5, FillsStep
  <2> QED
    BY <2>1 DEF Filled, Known
<1>6. ASSUME NEW i \in Slots, OrderDone(i)  PROVE Known'
  BY <1>6, OrderDoneStep DEF Known
<1>7. ASSUME NEW th \in {"trader"} \cup Consoles, Drop(th) \/ CancelOrders(th)  PROVE Known'
  <2>1. CancelEffect(th)
    BY <1>7, CancelsEffect
  <2> QED
    BY <2>1 DEF CancelEffect, Known
<1>8. ASSUME NEW a \in Accounts, Books(a)  PROVE Known'
  BY <1>8, BooksKeeps DEF Known
<1>9. ASSUME \/ Choosing \/ Finish \/ RunCase \/ Crash \/ SendRequotes \/ UNCHANGED vars
             \/ \E th \in Threads : Hang(th) \/ WriteFlag(th)
             \/ \E th \in Consoles, line \in Commands : Command(th, line)
             \/ \E i \in Slots : CallbackIsLost(i)
      PROVE  Known'
  <2>1. UNCHANGED pairVars
    BY <1>9 DEF Choosing, Round, ReadFlag, WriteFlag, SpecialCase, Select, TriggerSelection, Finish,
                RunCase, Crash, SendRequotes, vars, Hang, Command, CallbackIsLost
  <2> QED
    BY <2>1 DEF Known, Live, pairVars
<1> QED
  BY <1>1, <1>2, <1>3, <1>4, <1>5, <1>6, <1>7, <1>8, <1>9, TheirThreads
     DEF Next, Trader, Console, Choosing

LEMMA ClearNext ==
  ASSUME InstanceInv, Cancels, Known, ClearInv, ~misled', [Next]_vars
  PROVE  ClearInv'
<1>0. TypesInv /\ ScriptInv /\ PairGood
  BY TypesParts DEF InstanceInv
<1>1. CASE Choosing
  BY <1>0, <1>1, ChoosingEffect, ClearReplaced DEF SelectionOf
<1>2. CASE (\E th \in Threads : Hang(th)) \/ \E a \in Accounts : Books(a)
  <2>1. UNCHANGED <<tcase, dying, todo>> /\ Fewer
    BY <1>2, HangKeeps, BooksKeeps, SameWork
  <2> QED
    BY <2>1, ClearKeeps
<1>3. CASE Finish
  BY <1>0, <1>3, FinishEffect, ClearReplaced
<1>4. ASSUME NEW th \in {"trader"} \cup Consoles, Drop(th) \/ CancelOrders(th)  PROVE ClearInv'
  BY <1>4, CancelsEffect, ClearCancels
<1>5. CASE SendOrder
  <2>1. PICK id \in {0} \cup Slots : tcase' = AnsweredNew(tcase, The("trader"), id)
    BY <1>5, SendOrderStep
  <2>2. tcase.type # "NONE" /\ The("trader") \in GoodStep /\ dying = NoCase /\ tcase \in GoodCase
    BY <1>0, <1>5, SendOrderStep DEF HeadRun, TypesInv
  <2>3. SameKind(tcase, tcase')
    BY <2>1, <2>2, AnsweredNewFacts
  <2>4. tcase' # NoCase
    BY <2>2, <2>3 DEF SameKind, NoCase, NewCase
  <2>5. dying' = dying
    BY <1>5 DEF SendOrder
  <2> QED
    BY <2>2, <2>4, <2>5, ClearRuns
<1>6. CASE ChangeOrder
  <2>1. PICK answer : tcase' = AnsweredChange(tcase, The("trader"), answer)
    BY <1>6, ChangeOrderStep
  <2>2. tcase.type # "NONE" /\ The("trader") \in GoodStep /\ dying = NoCase /\ tcase \in GoodCase
    BY <1>0, <1>6, ChangeOrderStep DEF HeadRun, TypesInv
  <2>3. SameKind(tcase, tcase')
    BY <2>1, <2>2, AnsweredChangeFacts
  <2>4. tcase' # NoCase
    BY <2>2, <2>3 DEF SameKind, NoCase, NewCase
  <2>5. dying' = dying
    BY <1>6 DEF ChangeOrder
  <2> QED
    BY <2>2, <2>4, <2>5, ClearRuns
<1>7. CASE SendPending \/ SendRequotes
  <2>1. HeadRun /\ tcase.type = "CASE_4"
    BY <1>7, SendPendingStep, SendRequotesStep
  <2>2. tcase' = tcase /\ dying' = dying
    BY <1>7 DEF SendPending, SendRequotes
  <2> QED
    BY <2>1, <2>2, ClearRuns DEF HeadRun, NoCase, NewCase
<1>8. CASE RunCase
  <2>1. dying = NoCase /\ dying' = dying /\ UNCHANGED pairVars
    BY <1>8, RunCaseStep DEF RunCase
  <2>2. tcase' = NoCase => tcase = NoCase
    <3>1. \/ tcase = NoCase /\ tcase' = tcase
          \/ tcase # NoCase /\ \E o : GoodOut(tcase, o) /\ tcase' = o.c
      BY <1>8, RunCaseStep
    <3>2. tcase \in GoodCase
      BY <1>0 DEF TypesInv
    <3> QED
      BY <3>1, <3>2 DEF GoodOut, SameCase, GoodCase, NoCase, NewCase
  <2> QED
    BY <2>1, <2>2, SameWork, ClearStays
<1>9. CASE Bury
  BY <1>9, ClearBury
<1>10. CASE Crash \/ \E i \in Slots : CallbackIsLost(i)
  <2>1. UNCHANGED <<pairVars, tcase, dying, todo>>
    BY <1>10 DEF Crash, CallbackIsLost
  <2> QED
    BY <2>1, SameWork, ClearKeeps
<1>11. ASSUME NEW th \in Consoles, WriteFlag(th) \/ \E line \in Commands : Command(th, line)
       PROVE  ClearInv'
  BY <1>11, OthersKeep, SameWork, ClearKeeps
<1>12. ASSUME NEW i \in Slots, Fills(i)  PROVE ClearInv'
  <2>1. (\E n \in Nat : Filled(i, n)) /\ UNCHANGED instanceVars
    BY <1>12, FillsStep
  <2> QED
    BY <1>0, <2>1, FilledFewer, ClearKeeps DEF instanceVars
<1>13. ASSUME NEW i \in Slots, OrderDone(i)  PROVE ClearInv'
  <2>1. /\ Live' = Live \ {i} /\ \A j \in Live' : orders'[j] = orders[j]
        /\ SameKind(tcase, tcase') /\ dying' = dying /\ todo' = todo
    BY <1>13, OrderDoneStep
  <2>2. tcase' = NoCase => tcase = NoCase
    <3>1. tcase \in GoodCase
      BY <1>0 DEF TypesInv
    <3> QED
      BY <2>1, <3>1 DEF SameKind, GoodCase, NoCase, NewCase
  <2> QED
    BY <1>0, <2>1, <2>2, StillFewer, ClearKeeps
<1>14. CASE UNCHANGED vars
  <2>1. UNCHANGED <<pairVars, tcase, dying, todo>>
    BY <1>14 DEF vars, instanceVars
  <2> QED
    BY <2>1, SameWork, ClearKeeps
<1> QED
  BY <1>1, <1>2, <1>3, <1>4, <1>5, <1>6, <1>7, <1>8, <1>9, <1>10, <1>11, <1>12, <1>13, <1>14
     DEF Next, Trader, Console, Choosing

-----------------------------------------------------------------------------
(* No callback outlives its case: the orders of case 4, which alone hands  *)
(* callbacks over, from the selection of the case to its burial.           *)

NoneDangles == \A i \in Working : orders[i].done # "dangling"

OpensOwned ==
  \A i \in Live : orders[i].done = "send_close" =>
    Owner.type = "CASE_4" /\ orders[i].acct = Owner.cur

OwnAccount == Owner.type = "CASE_4" => \A i \in Working : orders[i].acct = Owner.cur

(* Dropped pending orders stay so, but for a close that case 4 queues      *)
(* while it is destroyed.                                                  *)
DroppedInv ==
  \A n \in 1..5 : AtRite(n) =>
    \A a \in Accounts :
      pending[a] # <<>> /\ n < LastDrop(a) => dying.type = "CASE_4" /\ dying.cur = a

(* A close is queued behind a position: no case 4 begins before it is gone. *)
Behind4 == tcase.type = "NONE" /\ dying.type = "CASE_4" => pos[Other(dying.cur)] > 0
BehindNone ==
  tcase.type = "NONE" /\ dying = NoCase =>
    \A a \in Accounts : pending[a] # <<>> => pos[Other(a)] > 0

(* Case 4 never ends by itself, and is never followed by another on the    *)
(* same side.                                                              *)
Case4Goes ==
  tcase.type = "CASE_4" =>
    /\ tcase.state \in {"INIT", "PRICE_CHANGE"} /\ tcase.cur = current
    /\ dying.type = "CASE_4" => dying.cur # tcase.cur

PendingOwned ==
  tcase.type = "CASE_4" /\ dying = NoCase =>
    \A k \in 1..Len(pending[tcase.cur]) : pending[tcase.cur][k].done # "dangling"

CurrentSide ==
  /\ prev_trigger = "POSITIVE" => current = "long"
  /\ prev_trigger = "NEGATIVE" => current = "short"
  /\ prev_trigger = "INIT" => current = NoAcc

CallbackInv ==
  /\ NoneDangles
  /\ OpensOwned
  /\ OwnAccount
  /\ DroppedInv
  /\ Behind4
  /\ BehindNone
  /\ Case4Goes
  /\ PendingOwned
  /\ CurrentSide

LEMMA NextNone ==
  ASSUME TypesInv, ~Lagging, NEW a \in Accounts, NEW e
  PROVE  /\ NextCase(a, e).type = "NONE" => NextCase(a, e) = NoCase /\ pos[a] > 0
         /\ NextCase(a, e).type = "CASE_4" =>
              NextCase(a, e).cur = a /\ \A b \in Accounts : pos[b] = 0
<1>1. CaseType(a, e) \in {"CASE_4", "CASE_9", "CASE_10", "HEDGECURRENT", "NONE"}
  BY DEF CaseType
<1>2. /\ pos[a] \in Nat /\ pos[Other(a)] \in Nat /\ Other(a) \in Accounts
      /\ total[a] = pos[a] /\ total[Other(a)] = pos[Other(a)]
  BY OtherAccount, TotalIsPos DEF TypesInv
<1>3. CaseType(a, e) = "NONE" => pos[a] > 0
  BY <1>2 DEF CaseType
<1>4. \A b \in Accounts : b = a \/ b = Other(a)
  BY DEF Accounts, Other
<1>5. NextCase(a, e).type = CaseType(a, e)
  BY <1>1 DEF NextCase, NewCase, NoCase
<1>6. NextCase(a, e).type = "CASE_4" => pos[a] = 0 /\ pos[Other(a)] = 0 /\ NextCase(a, e).cur = a
  BY <1>2, NextCaseFacts
<1> QED
  BY <1>3, <1>4, <1>5, <1>6 DEF NextCase

LEMMA NoCaseNone ==
  ASSUME TypesInv
  PROVE  /\ NoCase.type = "NONE"
         /\ tcase.type = "NONE" <=> tcase = NoCase
         /\ dying.type = "NONE" <=> dying = NoCase
         /\ Owner.type = "NONE" <=> Owner = NoCase
<1>1. NoCase.type = "NONE"
  BY DEF NoCase, NewCase
<1> QED
  BY <1>1 DEF TypesInv, GoodCase, Owner

(* A selection.                                                            *)
GivesUpOn == Replaced /\ tcase' = NoCase /\ tcase.type # "CASE_4"

LEMMA CallbackSelected ==
  ASSUME TypesInv, ClearInv, CallbackInv, dying = NoCase, UNCHANGED pairVars,
         \/ SelectionOf
         \/ (GoesOn \/ GivesUpOn) /\ UNCHANGED <<current, prev_trigger>>
  PROVE  CallbackInv'
<1>0. /\ Live' = Live /\ Working' = Working /\ orders' = orders /\ pos' = pos /\ pending' = pending
  BY SameWork
<1>1. /\ NoCase.type = "NONE" /\ (tcase.type = "NONE" <=> tcase = NoCase)
      /\ Owner.type = "NONE" <=> Owner = NoCase
      /\ Owner = tcase
  BY NoCaseNone DEF Owner
<1>2. CASE GoesOn /\ UNCHANGED <<current, prev_trigger>>
  <2>1. tcase' = tcase /\ dying' = dying
    BY <1>2 DEF GoesOn
  <2>2. Owner' = Owner
    BY <2>1 DEF Owner
  <2>3. DroppedInv'
    BY <2>1 DEF DroppedInv, AtRite
  <2> QED
    BY <1>0, <1>2, <2>1, <2>2, <2>3
       DEF CallbackInv, NoneDangles, OpensOwned, OwnAccount, Behind4, BehindNone, Case4Goes,
           PendingOwned, CurrentSide
<1>3. ASSUME Replaced,
             \/ UNCHANGED <<current, prev_trigger>>
             \/ /\ prev_trigger' \in {"POSITIVE", "NEGATIVE"} /\ prev_trigger' # prev_trigger
                /\ current' = IF prev_trigger' = "POSITIVE" THEN "long" ELSE "short",
             \/ tcase'.type \notin {"CASE_4", "NONE"}
             \/ tcase' = NoCase /\ tcase.type # "CASE_4"
             \/ /\ current' \in Accounts /\ (tcase = NoCase \/ prev_trigger' # prev_trigger)
                /\ ~Lagging /\ \E e : tcase' = NextCase(current', e)
      PROVE  CallbackInv'
  <2>1. NewOne(tcase') /\ dying' = tcase
    BY <1>3 DEF Replaced
  <2>2. Owner' = tcase \/ (tcase = NoCase /\ dying' = NoCase /\ Owner' = tcase')
    BY <2>1 DEF Owner
  <2>3. NoneDangles'
    BY <1>0 DEF CallbackInv, NoneDangles
  <2>4. OpensOwned'
    BY <1>0, <1>1, <2>2 DEF CallbackInv, OpensOwned
  <2>5. OwnAccount'
    BY <1>0, <1>1, <2>2 DEF CallbackInv, OwnAccount, ClearInv
  <2>6. DroppedInv'
    <3>1. ASSUME NEW m \in 1..5, AtRite(m)'  PROVE m = 5
      <4>1. tcase # NoCase
        BY <2>1, <3>1 DEF AtRite
      <4>2. PICK t \in Rounds : todo'["trader"] = Rites(5, t)
        BY <1>3, <4>1 DEF Replaced
      <4> QED
        BY <3>1, <4>2, NextAtRite
    <3>2. \A m \in 1..5 : AtRite(m)' => \A a \in Accounts : ~(m < LastDrop(a))
      BY <3>1, AccountsDrop
    <3> QED
      BY <3>2 DEF DroppedInv
  <2>7. CurrentSide'
    BY <1>3 DEF CallbackInv, CurrentSide
  <2>8. current' # current \/ UNCHANGED <<current, prev_trigger>>
    BY <1>3, NoAccIsNone DEF CallbackInv, CurrentSide, TypesInv, Triggers, Accounts
  <2>9. CASE tcase'.type \notin {"CASE_4", "NONE"}
    BY <2>3, <2>4, <2>5, <2>6, <2>7, <2>9
       DEF CallbackInv, Behind4, BehindNone, Case4Goes, PendingOwned
  <2>10. CASE tcase' = NoCase /\ tcase.type # "CASE_4"
    <3>1. tcase'.type = "NONE" /\ dying'.type # "CASE_4"
      BY <1>1, <2>1, <2>10
    <3>2. BehindNone'
      BY <1>0, <1>1, <2>1 DEF CallbackInv, BehindNone
    <3> QED
      BY <2>3, <2>4, <2>5, <2>6, <2>7, <3>1, <3>2
         DEF CallbackInv, Behind4, Case4Goes, PendingOwned
  <2>11. CASE /\ current' \in Accounts /\ (tcase = NoCase \/ prev_trigger' # prev_trigger)
              /\ ~Lagging /\ \E e : tcase' = NextCase(current', e)
    <3>0. current' \in Accounts
      BY <1>3, <2>11 DEF Accounts
    <3>1. PICK e : tcase' = NextCase(current', e)
      BY <2>11
    <3>2. /\ tcase'.type = "NONE" => pos[current'] > 0
          /\ tcase'.type = "CASE_4" => tcase'.cur = current' /\ \A b \in Accounts : pos[b] = 0
      BY <2>11, <3>0, <3>1, NextNone
    <3>3. tcase.type = "CASE_4" => /\ tcase.cur = current /\ tcase.cur \in Accounts
                                   /\ current' # tcase.cur
      <4>1. tcase.type = "CASE_4" => tcase.cur \in Accounts
        BY DEF TypesInv, GoodCase, Specials
      <4>2. tcase.type = "CASE_4" => tcase # NoCase
        BY <1>1
      <4> QED
        BY <2>8, <2>11, <4>1, <4>2 DEF CallbackInv, Case4Goes
    <3>4. Behind4'
      <4>1. \A a \in Accounts, b \in Accounts : a # b => Other(a) = b
        BY DEF Accounts, Other
      <4> QED
        BY <1>0, <2>1, <3>0, <3>2, <3>3, <4>1 DEF Behind4
    <3>5. BehindNone'
      BY <1>0, <1>1, <2>1 DEF CallbackInv, BehindNone
    <3>6. Case4Goes'
      BY <2>1, <3>2, <3>3 DEF Case4Goes, NewOne
    <3>7. PendingOwned'
      <4>1. ASSUME tcase'.type = "CASE_4", tcase = NoCase  PROVE Len(pending[tcase'.cur]) = 0
        <5>1. tcase'.cur \in Accounts /\ \A b \in Accounts : pos[b] = 0
          BY <3>0, <3>2, <4>1
        <5>2. pending[tcase'.cur] = <<>>
          BY <1>1, <4>1, <5>1, OtherAccount DEF CallbackInv, BehindNone
        <5> QED
          BY <5>2
      <4> QED
        BY <1>0, <2>1, <4>1 DEF PendingOwned
    <3> QED
      BY <2>3, <2>4, <2>5, <2>6, <2>7, <3>4, <3>5, <3>6, <3>7 DEF CallbackInv
  <2> QED
    BY <1>3, <2>9, <2>10, <2>11
<1>4. ASSUME SelectionOf
      PROVE  CallbackInv'
  <2>1. CASE UNCHANGED <<current, prev_trigger>> /\ GoesOn
    BY <1>2, <2>1
  <2>2. CASE UNCHANGED <<current, prev_trigger>> /\ Replaced /\ tcase'.type \in Specials
    <3>1. tcase'.type \notin {"CASE_4", "NONE"}
      BY <2>2 DEF Specials
    <3> QED
      BY <1>3, <2>2, <3>1
  <2>3. CASE /\ UNCHANGED <<current, prev_trigger>> /\ Replaced
             /\ tcase = NoCase /\ current \in Accounts /\ ~Lagging
             /\ tcase' = NextCase(current, estimate)
    <3>1. tcase' = NextCase(current', estimate)
      BY <2>3
    <3> QED
      BY <1>3, <2>3, <3>1
  <2>4. CASE /\ prev_trigger' \in {"POSITIVE", "NEGATIVE"} /\ prev_trigger' # prev_trigger
             /\ current' = IF prev_trigger' = "POSITIVE" THEN "long" ELSE "short"
             /\ Replaced /\ ~Lagging /\ tcase' = NextCase(current', estimate)
    <3>1. current' \in Accounts
      BY <2>4 DEF Accounts
    <3> QED
      BY <1>3, <2>4, <3>1
  <2> QED
    BY <1>4, <2>1, <2>2, <2>3, <2>4 DEF SelectionOf
<1>5. CASE GivesUpOn /\ UNCHANGED <<current, prev_trigger>>
  BY <1>3, <1>5 DEF GivesUpOn
<1> QED
  BY <1>2, <1>4, <1>5

LEMMA CallbackCancels ==
  ASSUME InstanceInv, CallbackInv, NEW th \in {"trader"} \cup Consoles, CancelEffect(th)
  PROVE  CallbackInv'
<1>0. TypesInv /\ ScriptInv
  BY DEF InstanceInv
<1>1. /\ UNCHANGED <<pos, tcase, dying, current, prev_trigger>>
      /\ Live' \subseteq Live /\ \A i \in Live' : orders'[i] = orders[i]
      /\ Owner' = Owner
  BY DEF CancelEffect, Owner
<1>2. \A i \in Working' : i \in Working /\ orders'[i] = orders[i]
  BY <1>1 DEF Working
<1>3. \A a \in Accounts : pending'[a] = pending[a] \/ pending'[a] = <<>>
  BY DEF CancelEffect
<1>4. NoneDangles' /\ OpensOwned' /\ OwnAccount'
  BY <1>1, <1>2 DEF CallbackInv, NoneDangles, OpensOwned, OwnAccount
<1>5. Behind4' /\ Case4Goes' /\ CurrentSide'
  BY <1>1 DEF CallbackInv, Behind4, Case4Goes, CurrentSide
<1>6. BehindNone'
  BY <1>1, <1>3 DEF CallbackInv, BehindNone
<1>7. PendingOwned'
  <2>1. tcase.type = "CASE_4" => tcase.cur \in Accounts
    BY <1>0 DEF TypesInv, GoodCase, Specials
  <2>2. ASSUME tcase.type = "CASE_4", dying = NoCase, NEW k \in 1..Len(pending'[tcase.cur])
        PROVE  pending'[tcase.cur][k].done # "dangling"
    <3>1. CASE pending'[tcase.cur] = pending[tcase.cur]
      BY <2>2, <3>1 DEF CallbackInv, PendingOwned
    <3>2. CASE pending'[tcase.cur] = <<>>
      <4>1. Len(pending'[tcase.cur]) = 0
        BY <3>2
      <4> QED
        BY <4>1
    <3> QED
      BY <1>3, <2>1, <2>2, <3>1, <3>2
  <2> QED
    BY <1>1, <2>2 DEF PendingOwned
<1>8. DroppedInv'
  <2>1. CASE todo'["trader"] = todo["trader"]
    BY <1>1, <1>3, <2>1 DEF CallbackInv, DroppedInv, AtRite
  <2>2. CASE HeadRun
    BY <1>1, <2>2 DEF DroppedInv, AtRite, HeadRun
  <2>3. ASSUME NEW n \in 2..5, AtCancel(n), th = "trader"
        PROVE  DroppedInv'
    <3>1. PICK t \in Rounds : todo'["trader"] = Rites(n - 1, t)
      BY <2>3 DEF AtCancel
    <3>2. ASSUME NEW m \in 1..5, AtRite(m)'  PROVE m = n - 1
      <4>1. n - 1 \in 1..5
        OBVIOUS
      <4>2. \A k \in 1..5 : todo'["trader"] = Rites(k, t) => m = k
        BY <3>2, NextAtRite
      <4> QED
        BY <3>1, <4>1, <4>2
    <3>3. AtRite(n) /\ n \in 1..5
      BY <2>3 DEF AtCancel, AtRite, CancelEffect
    <3>4. ASSUME NEW a \in Accounts, pending'[a] # <<>>, n - 1 < LastDrop(a)
          PROVE  dying.type = "CASE_4" /\ dying.cur = a
      <4>1. CASE n < LastDrop(a)
        BY <1>3, <3>3, <3>4, <4>1 DEF CallbackInv, DroppedInv
      <4>2. CASE n = LastDrop(a)
        <5>1. (n = 5 /\ a = "long") \/ (n = 3 /\ a = "short")
          <6>1. a = "long" \/ a = "short"
            BY DEF Accounts
          <6> QED
            BY <4>2, <6>1 DEF LastDrop
        <5>2. The("trader").do = "drop" /\ The("trader").acct = a
          BY <2>3, <5>1 DEF AtCancel
        <5>3. pending'[a] = <<>>
          BY <2>3, <5>2 DEF CancelEffect
        <5> QED
          BY <3>4, <5>3
      <4>3. LastDrop(a) \in Int
        BY AccountsDrop
      <4> QED
        BY <3>4, <4>1, <4>2, <4>3
    <3> QED
      BY <1>1, <3>2, <3>4 DEF DroppedInv
  <2>4. th # "trader" => todo'["trader"] = todo["trader"]
    BY TheirThreads DEF CancelEffect
  <2> QED
    BY <1>0, <2>1, <2>2, <2>3, <2>4, TraderCancels
<1> QED
  BY <1>4, <1>5, <1>6, <1>7, <1>8 DEF CallbackInv

(* The calls of a run, and the run itself: the case at work owns what it   *)
(* sends.                                                                  *)
LEMMA CallbackRuns ==
  ASSUME TypesInv, CallbackInv, dying = NoCase, dying' = NoCase,
         UNCHANGED <<pos, current, prev_trigger>>,
         tcase'.type = tcase.type, tcase.type = "CASE_4" => tcase'.cur = tcase.cur,
         tcase.type = "CASE_4" => tcase'.state \in {"INIT", "PRICE_CHANGE"},
         NoneDangles', OpensOwned', OwnAccount',
         \A a \in Accounts : pending'[a] # <<>> => pending[a] # <<>>,
         tcase.type = "CASE_4" =>
           \A k \in 1..Len(pending'[tcase.cur]) : pending'[tcase.cur][k].done # "dangling"
  PROVE  CallbackInv'
<1>1. NoCase.type = "NONE"
  BY DEF NoCase, NewCase
<1>2. DroppedInv' /\ Behind4' /\ CurrentSide'
  BY <1>1 DEF CallbackInv, DroppedInv, AtRite, Behind4, CurrentSide
<1>3. BehindNone' /\ Case4Goes' /\ PendingOwned'
  BY <1>1 DEF CallbackInv, BehindNone, Case4Goes, PendingOwned
<1> QED
  BY <1>2, <1>3 DEF CallbackInv

(* An order that is sent by the case that owns the others.                 *)
LEMMA SentOwned ==
  ASSUME TypesInv, CallbackInv, dying = NoCase, dying' = NoCase,
         tcase'.type = tcase.type, tcase'.cur = tcase.cur,
         NEW a, NEW op, NEW size, NEW done, NEW id,
         Sent(a, op, size, done, id, TRUE) \/ orders' = orders,
         done # "dangling", done = "send_close" => tcase.type = "CASE_4",
         tcase.type = "CASE_4" => a = tcase.cur
  PROVE  NoneDangles' /\ OpensOwned' /\ OwnAccount'
<1>1. Owner = tcase /\ Owner' = tcase'
  BY DEF Owner
<1>2. CASE orders' = orders
  BY <1>1, <1>2 DEF CallbackInv, NoneDangles, OpensOwned, OwnAccount, Working, Live
<1>3. CASE Sent(a, op, size, done, id, TRUE)
  <2>1. \A i \in Live' : \/ i \in Live /\ orders'[i] = orders[i]
                         \/ orders'[i].done = done /\ orders'[i].acct = a
    BY <1>3 DEF Sent
  <2>2. \A i \in Working' : \/ i \in Working /\ orders'[i] = orders[i]
                            \/ orders'[i].done = done /\ orders'[i].acct = a
    BY <2>1 DEF Working
  <2> QED
    BY <1>1, <2>1, <2>2 DEF CallbackInv, NoneDangles, OpensOwned, OwnAccount
<1> QED
  BY <1>2, <1>3

LEMMA CallbackSends ==
  ASSUME InstanceInv, Known, CallbackInv, ~misled, ~misled', SendOrder
  PROVE  CallbackInv'
<1> DEFINE s == The("trader")
<1>0. TypesInv /\ tcase \in GoodCase
  BY DEF InstanceInv, TypesInv
<1>1. /\ HeadRun /\ s \in GoodStep /\ tcase.type # "NONE" /\ dying = NoCase
  BY SendOrderStep DEF HeadRun
<1>2. PICK id \in {0} \cup Slots :
        /\ tcase' = AnsweredNew(tcase, s, id)
        /\ Sent(s.acct, s.do, s.size, s.done, id, TRUE) \/ orders' = orders
  BY <1>0, SendOrderStep, KnownSent
<1>3. /\ UNCHANGED <<pos, pending, dying, current, prev_trigger>> /\ s.do \in {"open", "close"}
  BY DEF SendOrder, AtHead, The
<1>4. /\ SameKind(tcase, tcase')
      /\ \/ tcase'.state = IF id = 0 /\ GivesUp(tcase) THEN "FAILED" ELSE "PRICE_CHANGE"
         \/ tcase'.state = tcase.state
  <2>1. \A x \in {0} \cup Slots : \A d \in GoodStep :
          LET c == AnsweredNew(tcase, d, x) IN
          /\ SameKind(tcase, c)
          /\ d.to = "main" => c.state = IF x = 0 /\ GivesUp(tcase) THEN "FAILED" ELSE "PRICE_CHANGE"
          /\ d.to # "main" => c.state = tcase.state
    BY <1>0, <1>1, AnsweredNewFacts
  <2> QED
    BY <1>1, <1>2, <2>1
<1>5. tcase.type = "CASE_4" => tcase'.state \in {"INIT", "PRICE_CHANGE"}
  BY <1>4 DEF GivesUp, CallbackInv, Case4Goes
<1>6. /\ s.done # "dangling" /\ (s.done = "send_close" => tcase.type = "CASE_4")
      /\ tcase.type = "CASE_4" => s.acct = tcase.cur
  <2>1. CASE tcase.type = "CASE_4"
    <3>1. s \in Case4Steps(tcase)
      BY <1>0, <1>1, <2>1, RunHead DEF The
    <3> QED
      BY <1>3, <2>1, <3>1 DEF Case4Steps
  <2>2. CASE tcase.type # "CASE_4"
    <3>1. s \in MainSteps(tcase)
      BY <1>0, <1>1, <2>2, RunHead DEF The
    <3> QED
      BY <1>3, <2>2, <3>1 DEF MainSteps
  <2> QED
    BY <2>1, <2>2
<1>7. tcase'.type = tcase.type /\ tcase'.cur = tcase.cur /\ dying' = NoCase
  BY <1>1, <1>3, <1>4 DEF SameKind
<1>8. NoneDangles' /\ OpensOwned' /\ OwnAccount'
  BY <1>0, <1>1, <1>2, <1>6, <1>7, SentOwned
<1>9. tcase.type = "CASE_4" =>
        \A k \in 1..Len(pending'[tcase.cur]) : pending'[tcase.cur][k].done # "dangling"
  BY <1>1, <1>3 DEF CallbackInv, PendingOwned
<1> QED
  BY <1>0, <1>1, <1>3, <1>5, <1>7, <1>8, <1>9, CallbackRuns

LEMMA CallbackChanges ==
  ASSUME InstanceInv, CallbackInv, ChangeOrder
  PROVE  CallbackInv'
<1> DEFINE s == The("trader")
<1>0. TypesInv /\ tcase \in GoodCase
  BY DEF InstanceInv, TypesInv
<1>1. /\ HeadRun /\ s \in GoodStep /\ tcase.type # "NONE" /\ dying = NoCase
  BY ChangeOrderStep DEF HeadRun
<1>2. PICK answer \in {"gone", "same", "new"} :
        /\ tcase' = AnsweredChange(tcase, s, answer)
        /\ orders' = orders \/ \E known : Changed(s.id, s.size, known)
  BY ChangeOrderStep
<1>3. /\ UNCHANGED <<pos, pending, dying, current, prev_trigger>>
  BY DEF ChangeOrder
<1>4. SameKind(tcase, tcase') /\ ChangeAnswer(tcase, s, answer, tcase')
  BY <1>0, <1>1, <1>2, AnsweredChangeFacts
<1>5. tcase.type = "CASE_4" => tcase'.state \in {"INIT", "PRICE_CHANGE"}
  BY <1>4 DEF ChangeAnswer, CallbackInv, Case4Goes
<1>6. /\ \A i \in Live' : i \in Live /\ orders'[i].done = orders[i].done /\ orders'[i].acct = orders[i].acct
      /\ Working' \subseteq Working
  BY <1>2 DEF Changed, Working, Live
<1>7. tcase'.type = tcase.type /\ tcase'.cur = tcase.cur /\ dying' = NoCase
  BY <1>1, <1>3, <1>4 DEF SameKind
<1>8. NoneDangles' /\ OpensOwned' /\ OwnAccount'
  <2>1. Owner = tcase /\ Owner' = tcase' /\ Working' \subseteq Live'
    BY <1>1, <1>7 DEF Owner, Working
  <2> QED
    BY <1>6, <1>7, <2>1 DEF CallbackInv, NoneDangles, OpensOwned, OwnAccount
<1>9. tcase.type = "CASE_4" =>
        \A k \in 1..Len(pending'[tcase.cur]) : pending'[tcase.cur][k].done # "dangling"
  BY <1>1, <1>3 DEF CallbackInv, PendingOwned
<1> QED
  BY <1>0, <1>1, <1>3, <1>5, <1>7, <1>8, <1>9, CallbackRuns

LEMMA CallbackPending ==
  ASSUME InstanceInv, CallbackInv, ~misled', SendPending
  PROVE  CallbackInv'
<1>0. TypesInv /\ tcase \in GoodCase /\ pending \in [Accounts -> Seq(Pending)]
  BY DEF InstanceInv, TypesInv
<1>1. /\ dying = NoCase /\ tcase.type = "CASE_4" /\ tcase.cur \in Accounts
      /\ tcase.state \in {"INIT", "PRICE_CHANGE"}
      /\ \A k \in 1..Len(pending[tcase.cur]) : pending[tcase.cur][k].done # "dangling"
  BY <1>0, SendPendingStep DEF HeadRun, GoodCase, Specials, CallbackInv, Case4Goes, PendingOwned
<1>2. UNCHANGED <<pos, tcase, dying, current, prev_trigger>>
  BY DEF SendPending
<1> DEFINE l == pending[tcase.cur]
<1>3. CASE orders' = orders /\ pending' = pending
  <2>1. NoneDangles' /\ OpensOwned' /\ OwnAccount'
    <3>1. Owner = tcase /\ Owner' = tcase
      BY <1>1, <1>2 DEF Owner
    <3> QED
      BY <1>3, <3>1 DEF CallbackInv, NoneDangles, OpensOwned, OwnAccount, Working, Live
  <2> QED
    BY <1>0, <1>1, <1>2, <1>3, <2>1, CallbackRuns
<1>4. ASSUME NEW id \in Slots, l # <<>>,
             Sent(tcase.cur, "close", Head(l).size, Head(l).done, id, TRUE),
             pending' = [pending EXCEPT ![tcase.cur] = Tail(@)]
      PROVE  CallbackInv'
  <2>1. l \in Seq(Pending) /\ Len(l) \in Nat /\ Len(l) # 0 /\ Head(l) = l[1]
    BY <1>0, <1>1, <1>4
  <2>2. Len(Tail(l)) = Len(l) - 1 /\ \A k \in 1..Len(Tail(l)) : Tail(l)[k] = l[k + 1]
    BY <1>4, <2>1, HeadTailProperties
  <2>3. pending'[tcase.cur] = Tail(l) /\ \A a \in Accounts \ {tcase.cur} : pending'[a] = pending[a]
    BY <1>0, <1>1, <1>4
  <2>4. Head(l).done # "dangling"
    BY <1>1, <2>1
  <2>5. NoneDangles' /\ OpensOwned' /\ OwnAccount'
    <3> HIDE DEF l
    <3>1. ASSUME NEW size, NEW done, Sent(tcase.cur, "close", size, done, id, TRUE), done # "dangling"
          PROVE  NoneDangles' /\ OpensOwned' /\ OwnAccount'
      <4>1. dying' = NoCase /\ tcase'.type = tcase.type /\ tcase'.cur = tcase.cur
        BY <1>1, <1>2
      <4> QED
        BY <1>0, <1>1, <3>1, <4>1, SentOwned
    <3>2. Sent(tcase.cur, "close", Head(l).size, Head(l).done, id, TRUE)
      BY <1>4 DEF l
    <3> QED
      BY <2>4, <3>1, <3>2
  <2>6. \A k \in 1..Len(pending'[tcase.cur]) : pending'[tcase.cur][k].done # "dangling"
    <3> HIDE DEF l
    <3>1. \A k \in 1..Len(Tail(l)) : k + 1 \in 1..Len(l)
      BY <2>1, <2>2
    <3>2. \A k \in 1..Len(l) : l[k].done # "dangling"
      BY <1>1 DEF l
    <3> QED
      BY <2>2, <2>3, <3>1, <3>2
  <2>7. \A a \in Accounts : pending'[a] # <<>> => pending[a] # <<>>
    BY <1>4, <2>3
  <2> QED
    BY <1>0, <1>1, <1>2, <2>5, <2>6, <2>7, CallbackRuns
<1> QED
  BY <1>3, <1>4, SendPendingStep

LEMMA CallbackQuiet ==
  ASSUME TypesInv, CallbackInv, dying = NoCase, dying' = NoCase, UNCHANGED pairVars,
         UNCHANGED <<current, prev_trigger>>,
         tcase'.type = tcase.type, tcase.type = "CASE_4" => tcase'.cur = tcase.cur,
         tcase.type = "CASE_4" => tcase'.state \in {"INIT", "PRICE_CHANGE"}
  PROVE  CallbackInv'
<1>1. Live' = Live /\ Working' = Working /\ orders' = orders /\ pending' = pending /\ pos' = pos
  BY SameWork
<1>2. NoneDangles' /\ OpensOwned' /\ OwnAccount'
  <2>1. Owner = tcase /\ Owner' = tcase'
    BY DEF Owner
  <2> QED
    BY <1>1, <2>1 DEF CallbackInv, NoneDangles, OpensOwned, OwnAccount
<1>3. tcase.type = "CASE_4" =>
        \A k \in 1..Len(pending'[tcase.cur]) : pending'[tcase.cur][k].done # "dangling"
  BY <1>1 DEF CallbackInv, PendingOwned
<1>4. \A a \in Accounts : pending'[a] # <<>> => pending[a] # <<>>
  BY <1>1
<1> QED
  BY <1>1, <1>2, <1>3, <1>4, CallbackRuns

LEMMA CallbackRequotes ==
  ASSUME InstanceInv, CallbackInv, SendRequotes
  PROVE  CallbackInv'
<1>1. TypesInv /\ dying = NoCase
  BY SendRequotesStep DEF InstanceInv, HeadRun
<1>2. UNCHANGED <<pairVars, tcase, dying, current, prev_trigger>>
  BY DEF SendRequotes
<1>3. tcase.type = "CASE_4" => tcase'.state \in {"INIT", "PRICE_CHANGE"}
  BY <1>2 DEF CallbackInv, Case4Goes
<1> QED
  BY <1>1, <1>2, <1>3, CallbackQuiet

LEMMA CallbackRunCase ==
  ASSUME InstanceInv, CallbackInv, RunCase
  PROVE  CallbackInv'
<1>1. TypesInv /\ dying = NoCase
  BY RunCaseStep DEF InstanceInv
<1>2. UNCHANGED <<pairVars, dying, current, prev_trigger>>
  BY DEF RunCase
<1>3. CASE tcase' = tcase
  <2>1. tcase.type = "CASE_4" => tcase'.state \in {"INIT", "PRICE_CHANGE"}
    BY <1>3 DEF CallbackInv, Case4Goes
  <2> QED
    BY <1>1, <1>2, <1>3, <2>1, CallbackQuiet
<1>4. ASSUME NEW o, GoodOut(tcase, o), tcase' = o.c
      PROVE  CallbackInv'
  <2>1. tcase'.type = tcase.type
    BY <1>4 DEF GoodOut, SameCase
  <2>2. tcase.type = "CASE_4" =>
          tcase'.cur = tcase.cur /\ tcase'.state \in {"INIT", "PRICE_CHANGE"}
    BY <1>4 DEF GoodOut, Case4Out, CallbackInv, Case4Goes
  <2>3. dying' = NoCase
    BY <1>1, <1>2
  <2> QED
    BY <1>1, <1>2, <2>1, <2>2, <2>3, CallbackQuiet
<1> QED
  BY <1>3, <1>4, RunCaseStep

(* A fill needs an order, and so a case; a close takes shares off the      *)
(* account of case 4, never off the other.                                 *)
LEMMA CallbackFill ==
  ASSUME InstanceInv, ClearInv, CallbackInv, NEW i \in Slots, Fills(i)
  PROVE  CallbackInv'
<1>0. TypesInv /\ PairGood
  BY TypesParts DEF InstanceInv
<1> PICK n \in Nat : Filled(i, n)
  BY FillsStep
<1>1. Filled(i, n) /\ pending' = pending /\ UNCHANGED instanceVars
  BY FillsStep
<1>2. i \in Working /\ i \in Live
  BY <1>0, <1>1, FilledFewer DEF Working
<1>3. UNCHANGED <<tcase, dying, todo, current, prev_trigger>> /\ Owner' = Owner
  BY <1>1 DEF instanceVars, Owner
<1>4. \A j \in Live' : /\ j \in Live /\ orders'[j].done = orders[j].done
                       /\ orders'[j].acct = orders[j].acct
  BY <1>1 DEF Filled
<1>5. \A j \in Working' : j \in Working /\ j \in Live'
  <2>1. Fewer
    BY <1>0, <1>1, FilledFewer
  <2> QED
    BY <2>1 DEF Fewer, Working
<1>6. NoneDangles' /\ OpensOwned' /\ OwnAccount'
  BY <1>3, <1>4, <1>5 DEF CallbackInv, NoneDangles, OpensOwned, OwnAccount
<1>7. DroppedInv' /\ Case4Goes' /\ PendingOwned' /\ CurrentSide'
  BY <1>1, <1>3 DEF CallbackInv, DroppedInv, AtRite, Case4Goes, PendingOwned, CurrentSide
<1>8. Owner # NoCase
  BY <1>2 DEF ClearInv
<1>9. BehindNone'
  <2>1. tcase.type = "NONE" => tcase = NoCase
    BY <1>0, NoCaseNone
  <2> QED
    BY <1>3, <1>8, <2>1 DEF BehindNone, Owner
<1>10. Behind4'
  <2> SUFFICES ASSUME tcase.type = "NONE", dying.type = "CASE_4"
               PROVE  pos'[Other(dying.cur)] > 0
    BY <1>3 DEF Behind4
  <2>1. dying # NoCase /\ Owner = dying
    BY <1>0, NoCaseNone DEF Owner
  <2>2. dying.cur \in Accounts
    BY <1>0 DEF TypesInv, GoodCase, Specials
  <2>3. orders[i].acct = dying.cur
    BY <1>2, <2>1 DEF CallbackInv, OwnAccount
  <2>4. Other(dying.cur) \in Accounts /\ Other(dying.cur) # dying.cur
    BY <2>2, OtherAccount
  <2>5. pos'[Other(dying.cur)] = pos[Other(dying.cur)]
    BY <1>0, <1>1, <2>3, <2>4 DEF Filled, TypesInv
  <2> QED
    BY <2>5 DEF CallbackInv, Behind4
<1> QED
  BY <1>6, <1>7, <1>9, <1>10 DEF CallbackInv

(* A DONE makes case 4 queue a close, on its own account and with a        *)
(* callback of its own.                                                    *)
LEMMA CallbackDone ==
  ASSUME InstanceInv, CallbackInv, NEW i \in Slots, OrderDone(i)
  PROVE  CallbackInv'
<1>0. TypesInv /\ PairGood
  BY TypesParts DEF InstanceInv
<1>1. /\ i \in Live /\ Live' = Live \ {i} /\ \A j \in Live' : orders'[j] = orders[j]
      /\ SameKind(tcase, tcase') /\ tcase'.state = tcase.state
      /\ pos' = pos /\ dying' = dying /\ todo' = todo
  BY OrderDoneStep
<1>2. UNCHANGED <<current, prev_trigger>>
  BY DEF OrderDone
<1>3. tcase'.type = tcase.type /\ tcase'.cur = tcase.cur
  BY <1>1 DEF SameKind
<1>4. Owner'.type = Owner.type /\ Owner'.cur = Owner.cur
  BY <1>1, <1>3 DEF Owner
<1>5. Working' \subseteq Working
  BY <1>1 DEF Working
<1>6. NoneDangles' /\ OpensOwned' /\ OwnAccount'
  <2>1. \A j \in Working' : j \in Live' /\ j \in Working
    BY <1>5 DEF Working
  <2>2. \A j \in Live' : j \in Live
    BY <1>1
  <2> QED
    BY <1>1, <1>4, <2>1, <2>2 DEF CallbackInv, NoneDangles, OpensOwned, OwnAccount
<1>7. Behind4' /\ Case4Goes' /\ CurrentSide'
  BY <1>1, <1>2, <1>3 DEF CallbackInv, Behind4, Case4Goes, CurrentSide
<1>8. CASE pending' = pending
  BY <1>1, <1>3, <1>6, <1>7, <1>8
     DEF CallbackInv, DroppedInv, AtRite, BehindNone, PendingOwned
<1>9. ASSUME QueuesClose(orders[i]), Owner.type = "CASE_4",
             pending' = [pending EXCEPT ![orders[i].acct] =
                           Append(@, [size |-> orders[i].size, done |-> "requote_done"])]
      PROVE  CallbackInv'
  <2> DEFINE p == [size |-> orders[i].size, done |-> "requote_done"]
  <2>1. orders[i].acct = Owner.cur /\ Owner.cur \in Accounts
    <3>1. orders[i].acct = Owner.cur
      BY <1>1, <1>9 DEF CallbackInv, OpensOwned, QueuesClose
    <3> QED
      BY <1>0, <1>1, <3>1, LiveOrders
  <2>2. /\ \A a \in Accounts \ {Owner.cur} : pending'[a] = pending[a]
        /\ pending'[Owner.cur] = Append(pending[Owner.cur], p)
    BY <1>0, <1>9, <2>1 DEF TypesInv
  <2>3. DroppedInv'
    <3> SUFFICES ASSUME NEW n \in 1..5, AtRite(n), NEW a \in Accounts, pending'[a] # <<>>, n < LastDrop(a)
                 PROVE  dying.type = "CASE_4" /\ dying.cur = a
      BY <1>1 DEF DroppedInv, AtRite
    <3>1. Owner = dying
      BY DEF AtRite, Owner
    <3>2. CASE a = Owner.cur
      BY <1>9, <3>1, <3>2
    <3>3. CASE a # Owner.cur
      BY <2>2, <3>3 DEF CallbackInv, DroppedInv
    <3> QED
      BY <3>2, <3>3
  <2>4. BehindNone'
    BY <1>1, <1>3, <1>9 DEF BehindNone, Owner
  <2>5. PendingOwned'
    <3> SUFFICES ASSUME tcase.type = "CASE_4", dying = NoCase, NEW k \in 1..Len(pending'[tcase.cur])
                 PROVE  pending'[tcase.cur][k].done # "dangling"
      BY <1>1, <1>3 DEF PendingOwned
    <3>1. Owner = tcase
      BY DEF Owner
    <3> DEFINE l == pending[tcase.cur]
    <3>2. pending'[tcase.cur] = Append(l, p) /\ l \in Seq(Pending)
      BY <1>0, <2>1, <2>2, <3>1 DEF TypesInv
    <3>3. Len(l) \in Nat /\ \A j \in 1..Len(l) : l[j].done # "dangling"
      BY <3>2 DEF CallbackInv, PendingOwned
    <3> HIDE DEF l
    <3>4. Len(Append(l, p)) = Len(l) + 1 /\ k \in 1..Len(Append(l, p))
      BY <3>2
    <3>5. Append(l, p)[k] = IF k = Len(l) + 1 THEN p ELSE l[k]
      BY <3>2, <3>3, <3>4
    <3>6. k = Len(l) + 1 \/ k \in 1..Len(l)
      BY <3>3, <3>4
    <3>7. p.done # "dangling"
      OBVIOUS
    <3> HIDE DEF p
    <3>8. CASE k = Len(l) + 1
      BY <3>2, <3>5, <3>7, <3>8
    <3>9. CASE k \in 1..Len(l)
      <4>1. k # Len(l) + 1
        BY <3>3, <3>9
      <4> QED
        BY <3>2, <3>3, <3>5, <3>9, <4>1
    <3> QED
      BY <3>6, <3>8, <3>9
  <2> QED
    BY <1>6, <1>7, <2>3, <2>4, <2>5 DEF CallbackInv
<1> QED
  BY <1>8, <1>9, OrderDoneStep

(* A case is buried when its orders are cancelled, and what it still       *)
(* queued belongs to the account of no case 4 that could send it.          *)
LEMMA CallbackBury ==
  ASSUME InstanceInv, ClearInv, CallbackInv, Bury
  PROVE  CallbackInv'
<1>0. TypesInv /\ AtRite(1) /\ Working' = {}
  BY ClearBury DEF InstanceInv
<1>1. UNCHANGED <<pos, tcase, current, prev_trigger>> /\ dying' = NoCase
  BY DEF Bury
<1>2. NoCase.type = "NONE"
  BY NoCaseNone, <1>0
<1>3. NoneDangles' /\ OwnAccount'
  BY <1>0 DEF NoneDangles, OwnAccount
<1>4. OpensOwned'
  BY BuryStep DEF OpensOwned
<1>5. DroppedInv' /\ Behind4' /\ Case4Goes' /\ CurrentSide'
  BY <1>1, <1>2 DEF DroppedInv, AtRite, Behind4, CallbackInv, Case4Goes, CurrentSide
<1>6. ASSUME NEW a \in Accounts, Len(pending'[a]) # 0
      PROVE  dying.type = "CASE_4" /\ dying.cur = a
  <2>1. Len(pending[a]) # 0
    BY <1>6, BuryStep
  <2>2. pending[a] # <<>>
    BY <2>1
  <2>3. 1 < LastDrop(a) /\ 1 \in 1..5
    BY DEF LastDrop
  <2> QED
    BY <1>0, <2>2, <2>3 DEF CallbackInv, DroppedInv
<1>7. BehindNone'
  <2> SUFFICES ASSUME tcase.type = "NONE", NEW a \in Accounts, pending'[a] # <<>>
               PROVE  pos[Other(a)] > 0
    BY <1>1 DEF BehindNone
  <2>1. pending'[a] \in Seq(Pending)
    BY BuryStep
  <2>2. Len(pending'[a]) # 0
    BY <2>1
  <2> QED
    BY <1>6, <2>2 DEF CallbackInv, Behind4
<1>8. PendingOwned'
  <2> SUFFICES ASSUME tcase.type = "CASE_4", NEW k \in 1..Len(pending'[tcase.cur])
               PROVE  FALSE
    BY <1>1 DEF PendingOwned
  <2>1. tcase.cur \in Accounts
    BY <1>0 DEF TypesInv, GoodCase, Specials
  <2>2. pending'[tcase.cur] \in Seq(Pending)
    BY <2>1, BuryStep
  <2>3. Len(pending'[tcase.cur]) # 0
    BY <2>2
  <2> QED
    BY <1>6, <2>1, <2>3 DEF CallbackInv, Case4Goes
<1> QED
  BY <1>3, <1>4, <1>5, <1>7, <1>8 DEF CallbackInv

(* The steps of a console, and those that end the program.                 *)
LEMMA CallbackKeeps ==
  ASSUME TypesInv, CallbackInv,
         UNCHANGED <<pos, orders, pending, tcase, dying, current, prev_trigger>>,
         todo'["trader"] = todo["trader"]
  PROVE  CallbackInv'
<1>1. Live' = Live /\ Working' = Working /\ Owner' = Owner
  BY DEF Live, Working, Owner
<1>2. NoneDangles' /\ OpensOwned' /\ OwnAccount' /\ DroppedInv'
  BY <1>1 DEF CallbackInv, NoneDangles, OpensOwned, OwnAccount, DroppedInv, AtRite
<1>3. Behind4' /\ BehindNone' /\ Case4Goes' /\ PendingOwned' /\ CurrentSide'
  BY DEF CallbackInv, Behind4, BehindNone, Case4Goes, PendingOwned, CurrentSide
<1> QED
  BY <1>2, <1>3 DEF CallbackInv

LEMMA CallbackInit == Init => ClearInv /\ CallbackInv
<1> SUFFICES ASSUME Init  PROVE ClearInv /\ CallbackInv
  OBVIOUS
<1>1. /\ orders = [i \in Slots |-> NoOrder] /\ pending = [a \in Accounts |-> <<>>]
      /\ tcase = NoCase /\ dying = NoCase /\ prev_trigger = "INIT" /\ current = NoAcc
  BY DEF Init, PairInit
<1>2. Live = {} /\ Working = {}
  BY <1>1 DEF Live, Working
<1>3. NoCase.type = "NONE" /\ Owner = NoCase
  BY <1>1 DEF NoCase, NewCase, Owner
<1>4. ClearInv
  BY <1>1, <1>2 DEF ClearInv, AtRite
<1>5. NoneDangles /\ OpensOwned /\ OwnAccount /\ DroppedInv
  BY <1>1, <1>2 DEF NoneDangles, OpensOwned, OwnAccount, DroppedInv, AtRite
<1>6. Behind4 /\ BehindNone /\ Case4Goes /\ PendingOwned /\ CurrentSide
  BY <1>1, <1>3 DEF Behind4, BehindNone, Case4Goes, PendingOwned, CurrentSide
<1> QED
  BY <1>4, <1>5, <1>6 DEF CallbackInv

LEMMA CallbackNext ==
  ASSUME InstanceInv, Cancels, Known, ClearInv, CallbackInv, ~misled, ~misled', [Next]_vars
  PROVE  CallbackInv'
<1>0. TypesInv
  BY DEF InstanceInv
<1>1. CASE UNCHANGED vars
  BY <1>0, <1>1, CallbackKeeps DEF vars, pairVars, instanceVars
<1>2. CASE Choosing
  BY <1>0, <1>2, ChoosingEffect, CallbackSelected
<1>3. ASSUME Drop("trader") \/ CancelOrders("trader")  PROVE CallbackInv'
  BY <1>3, CancelsEffect, CallbackCancels
<1>4. CASE (\E th \in Threads : Hang(th)) \/ \E a \in Accounts : Books(a)
  BY <1>0, <1>4, HangKeeps, BooksKeeps, CallbackKeeps DEF pairVars
<1>5. CASE Crash
  BY <1>0, <1>5, CallbackKeeps DEF Crash, pairVars
<1>6. CASE Finish
  <2>1. /\ dying = NoCase /\ UNCHANGED <<pairVars, current, prev_trigger>>
        /\ \/ /\ Replaced /\ tcase' = NoCase /\ tcase.state \in {"DONE", "FAILED"}
           \/ GoesOn
    BY <1>6, FinishEffect
  <2>2. Replaced /\ tcase' = NoCase /\ tcase.state \in {"DONE", "FAILED"} => GivesUpOn
    BY DEF GivesUpOn, CallbackInv, Case4Goes
  <2> QED
    BY <1>0, <2>1, <2>2, CallbackSelected
<1>7. ASSUME NEW th \in Consoles, Drop(th) \/ CancelOrders(th)  PROVE CallbackInv'
  BY <1>7, CancelsEffect, CallbackCancels
<1>8. ASSUME NEW th \in Consoles, WriteFlag(th) \/ \E line \in Commands : Command(th, line)
      PROVE  CallbackInv'
  BY <1>0, <1>8, OthersKeep, CallbackKeeps DEF pairVars
<1>9. ASSUME NEW i \in Slots, CallbackIsLost(i)  PROVE CallbackInv'
  BY <1>0, <1>9, CallbackKeeps DEF CallbackIsLost, pairVars
<1> QED
  BY <1>1, <1>2, <1>3, <1>4, <1>5, <1>6, <1>7, <1>8, <1>9, CallbackSends, CallbackChanges,
     CallbackPending, CallbackRequotes, CallbackRunCase, CallbackFill, CallbackDone, CallbackBury
     DEF Next, Trader, Console, Choosing

(* Everything at once, under its hypothesis on the constants.              *)
ClearlyOwned ==
  Cancels /\ InstanceInv /\ (~misled => Known /\ ClearInv /\ CallbackInv)

LEMMA OwnedInit == Cancels /\ Init => ClearlyOwned
<1>1. Init => Known
  BY DEF Init, PairInit, Known, Live
<1> QED
  BY <1>1, InstanceInit, CallbackInit DEF ClearlyOwned

LEMMA OwnedNext ==
  ASSUME ClearlyOwned, [Next]_vars
  PROVE  /\ ClearlyOwned'
         /\ ~misled' => ~misled /\ Cancels /\ InstanceInv /\ Known /\ ClearInv /\ CallbackInv
<1>1. Cancels'
  BY DEF ClearlyOwned, Cancels
<1>2. InstanceInv'
  BY InstanceNext DEF ClearlyOwned
<1>3. ~misled' => ~misled /\ Cancels /\ InstanceInv /\ Known /\ ClearInv /\ CallbackInv
  BY StaysMisled DEF ClearlyOwned
<1>4. ~misled' => Known' /\ ClearInv' /\ CallbackInv'
  BY <1>3, KnownNext, ClearNext, CallbackNext
<1> QED
  BY <1>1, <1>2, <1>3, <1>4 DEF ClearlyOwned

LEMMA OwnedAlways == Cancels /\ Spec => []ClearlyOwned
<1>1. Cancels /\ Init => ClearlyOwned
  BY OwnedInit
<1>2. ClearlyOwned /\ [Next]_vars => ClearlyOwned'
  BY OwnedNext
<1> QED
  BY <1>1, <1>2, PTL DEF Spec

(* The destructor of a case (~TradeCase) cancels every order whose         *)
(* callback captures the case, if cancel_on_trigger is set and no cancel   *)
(* is refused: no order that can still be filled outlives its case, though *)
(* orders are filled and closes queued while the case is destroyed, and    *)
(* console threads cancel beside it.  It says nothing once the thread has  *)
(* been told 0 for an order that works, which cancelAll does not know, or  *)
(* has read a position that a fill already told had still to move: so do   *)
(* the theorems below.                                                     *)
THEOREM OrdersHaveCases == Cancels /\ Spec => []LiveHasCase
<1>1. ClearlyOwned => LiveHasCase
  BY DEF ClearlyOwned, CallbackInv, LiveHasCase, NoneDangles
<1> QED
  BY <1>1, OwnedAlways, PTL

-----------------------------------------------------------------------------
(* A case other than 4 has one order at most: the one it remembers, on its *)
(* own side, with no more left than its case may still trade.              *)

Solo(c) == c.type \notin {"CASE_4", "NONE"}

(* n more shares can be traded without the case going too far.             *)
Fits(c, n) ==
  /\ c.type = "HEDGECURRENT" => pos[c.cur] + n <= pos[c.opp]
  /\ c.type \in Specials => c.cur \in Accounts /\ pos[c.opp] - n >= pos[c.cur]
  /\ c.type = "CASE_9" => n <= pos[c.cur]
  /\ c.type = "CASE_10" => n <= pos[c.to_close] /\ pos[c.to_close] - n >= c.original - c.size

Level == pos["long"] = pos["short"]

LEMMA ReadRight ==
  ASSUME TypesInv, ~Lagging
  PROVE  /\ \A c, n : Covers(c, n) => Fits(c, n)
         /\ Equal <=> Level
<1>1. total = pos
  BY TotalIsPos DEF TypesInv
<1> QED
  BY <1>1 DEF Covers, Fits, Equal, Level

SoloWork ==
  Solo(Owner) =>
    \A i \in Working :
      /\ i = Owner.main /\ Owner.state # "INIT"
      /\ orders[i].acct = Side(Owner) /\ orders[i].op = SideOp(Owner)
      /\ Fits(Owner, orders[i].left)

NextCall(calls) == todo["trader"] # <<>> /\ The("trader").do \in calls

(* Between the run that reads the positions and the call nothing trades;   *)
(* between a run and the change it asks for the old order may.             *)
SoloSends ==
  Solo(tcase) /\ NextCall({"open", "close"}) =>
    /\ Working = {}
    /\ The("trader").do = SideOp(tcase) /\ The("trader").acct = Side(tcase)
    /\ Fits(tcase, The("trader").size)

SoloChanges ==
  Solo(tcase) /\ NextCall({"change"}) =>
    \/ The("trader").size = 0
    \/ /\ tcase.type = "CASE_9"
       /\ \A i \in Working :
            The("trader").size <= pos[tcase.cur] + (orders[i].size - orders[i].left)

SoloDone ==
  dying = NoCase /\ tcase.type \in Specials /\ tcase.state = "DONE" => Level /\ Working = {}

SoloEnds ==
  ended => /\ todo["trader"] = <<>> /\ dying = NoCase
           /\ tcase.type \in Specials /\ tcase.state = "DONE"

SoloInv ==
  /\ SoloWork
  /\ SoloSends
  /\ SoloChanges
  /\ SoloDone
  /\ SoloEnds

(* What SoloInv reads of a case.                                           *)
Alike(c, d) ==
  /\ d.type = c.type /\ d.cur = c.cur /\ d.opp = c.opp /\ d.to_close = c.to_close
  /\ d.original = c.original /\ d.size = c.size /\ d.main = c.main /\ d.state = c.state

LEMMA QuietCalls ==
  ASSUME Quiet(todo["trader"])
  PROVE  ~NextCall({"open", "close"}) /\ ~NextCall({"change"})
BY DEF Quiet, NextCall, The

(* A step that at most takes orders off the market.                        *)
LEMMA SoloKeeps ==
  ASSUME SoloInv, pos' = pos, \A i \in Working' : i \in Working /\ orders'[i] = orders[i],
         Alike(Owner, Owner'), Alike(tcase, tcase'), dying' = dying, ended' = ended,
         todo'["trader"] = todo["trader"] \/ (Quiet(todo["trader"])' /\ ~ended)
  PROVE  SoloInv'
<1>1. SoloWork'
  BY DEF SoloInv, SoloWork, Alike, Solo, Side, SideOp, Fits
<1>2. SoloSends' /\ SoloChanges'
  <2>1. CASE todo'["trader"] = todo["trader"]
    <3>1. The("trader")' = The("trader") /\ \A calls : NextCall(calls)' <=> NextCall(calls)
      BY <2>1 DEF The, NextCall
    <3>2. Working = {} => Working' = {}
      OBVIOUS
    <3>3. SoloSends'
      BY <3>1, <3>2 DEF SoloInv, SoloSends, Alike, Solo, Side, SideOp, Fits
    <3>4. SoloChanges'
      BY <3>1 DEF SoloInv, SoloChanges, Alike, Solo
    <3> QED
      BY <3>3, <3>4
  <2>2. CASE Quiet(todo["trader"])'
    BY <2>2 DEF SoloSends, SoloChanges, Quiet, NextCall, The
  <2> QED
    BY <2>1, <2>2
<1>3. SoloDone'
  BY DEF SoloInv, SoloDone, Alike, Level
<1>4. SoloEnds'
  BY DEF SoloInv, SoloEnds, Alike
<1> QED
  BY <1>1, <1>2, <1>3, <1>4 DEF SoloInv

LEMMA AlikeItself == \A c : Alike(c, c)
BY DEF Alike

LEMMA SoloSame ==
  ASSUME SoloInv, UNCHANGED <<pos, orders, tcase, dying, ended>>, todo'["trader"] = todo["trader"]
  PROVE  SoloInv'
<1>1. Working' = Working /\ Owner' = Owner
  BY DEF Working, Live, Owner
<1>2. Alike(Owner, Owner') /\ Alike(tcase, tcase')
  BY <1>1 DEF Alike
<1> QED
  BY <1>1, <1>2, SoloKeeps

LEMMA SoloCancels ==
  ASSUME InstanceInv, SoloInv, NEW th \in {"trader"} \cup Consoles, CancelEffect(th)
  PROVE  SoloInv'
<1>0. TypesInv /\ ScriptInv
  BY DEF InstanceInv
<1>1. /\ UNCHANGED <<pos, tcase, dying, ended>>
      /\ Live' \subseteq Live /\ \A i \in Live' : orders'[i] = orders[i]
      /\ Owner' = Owner
  BY DEF CancelEffect, Owner
<1>2. \A i \in Working' : i \in Working /\ orders'[i] = orders[i]
  BY <1>1 DEF Working
<1>3. Alike(Owner, Owner') /\ Alike(tcase, tcase')
  BY <1>1 DEF Alike
<1>4. CASE th # "trader"
  <2>1. todo'["trader"] = todo["trader"]
    BY <1>4, TheirThreads DEF CancelEffect
  <2> QED
    BY <1>1, <1>2, <1>3, <2>1, SoloKeeps
<1>5. ASSUME th = "trader", NEW n \in 2..5, AtCancel(n)
      PROVE  SoloInv'
  <2>1. Quiet(todo["trader"])'
    <3>1. PICK t \in Rounds : todo'["trader"] = Rites(n - 1, t)
      BY <1>5 DEF AtCancel
    <3>2. n - 1 \in 0..5
      OBVIOUS
    <3>3. Quiet(Rites(n - 1, t))
      BY <3>2, RoundsQuiet
    <3> QED
      BY <3>1, <3>3 DEF Quiet
  <2>2. ~ended
    BY <1>5 DEF CancelEffect, SoloInv, SoloEnds
  <2> QED
    BY <1>1, <1>2, <1>3, <2>1, <2>2, SoloKeeps
<1>6. ASSUME th = "trader", tcase.type = "CASE_4", dying = NoCase
      PROVE  SoloInv'
  <2>1. ~ended
    BY <1>6 DEF CancelEffect, SoloInv, SoloEnds
  <2>2. Owner.type = "CASE_4" /\ Owner'.type = "CASE_4" /\ tcase'.type = "CASE_4"
    BY <1>1, <1>6 DEF Owner
  <2> QED
    BY <1>1, <2>1, <2>2
       DEF SoloInv, SoloWork, SoloSends, SoloChanges, SoloDone, SoloEnds, Solo, Specials
<1> QED
  BY <1>0, <1>4, <1>5, <1>6, TraderCancels DEF HeadRun

LEMMA SoloSelected ==
  ASSUME TypesInv, ClearInv, SoloInv, dying = NoCase, UNCHANGED pairVars,
         \/ Replaced /\ ~ended'
         \/ GoesOn /\ (ended' => todo'["trader"] = <<>> /\ tcase.type \in Specials /\ tcase.state = "DONE")
  PROVE  SoloInv'
<1>1. Working' = Working /\ orders' = orders /\ pos' = pos
  BY SameWork
<1>2. Quiet(todo["trader"])'
  <2>1. \A t \in Rounds : Quiet(t) /\ \A n \in 0..5 : Quiet(Rites(n, t))
    BY RoundsQuiet
  <2>2. todo'["trader"] \in Rounds \/ \E t \in Rounds : todo'["trader"] = Rites(5, t)
    BY DEF Replaced, GoesOn
  <2> QED
    BY <2>1, <2>2
<1>3. SoloSends' /\ SoloChanges'
  BY <1>2 DEF SoloSends, SoloChanges, Quiet, NextCall, The
<1>4. CASE GoesOn /\ (ended' => todo'["trader"] = <<>> /\ tcase.type \in Specials /\ tcase.state = "DONE")
  <2>1. Owner' = Owner /\ tcase' = tcase /\ dying' = NoCase
    BY <1>4 DEF GoesOn, Owner
  <2>2. SoloWork'
    BY <1>1, <2>1 DEF SoloInv, SoloWork, Fits
  <2>3. SoloDone' /\ SoloEnds'
    BY <1>1, <1>4, <2>1 DEF SoloInv, SoloDone, SoloEnds, Level
  <2> QED
    BY <1>3, <2>2, <2>3 DEF SoloInv
<1>5. CASE Replaced /\ ~ended'
  <2>1. tcase'.state = "INIT" /\ dying' = tcase
    BY <1>5 DEF Replaced, NewOne
  <2>2. SoloDone' /\ SoloEnds'
    BY <1>5, <2>1 DEF SoloDone, SoloEnds
  <2>3. SoloWork'
    <3>1. CASE tcase = NoCase
      BY <1>1, <3>1 DEF ClearInv, Owner, SoloWork
    <3>2. CASE tcase # NoCase
      <4>1. Owner' = Owner
        BY <2>1, <3>2 DEF Owner
      <4> QED
        BY <1>1, <4>1 DEF SoloInv, SoloWork, Fits
    <3> QED
      BY <3>1, <3>2
  <2> QED
    BY <1>3, <2>2, <2>3 DEF SoloInv
<1> QED
  BY <1>4, <1>5

LEMMA SoloBury ==
  ASSUME InstanceInv, ClearInv, SoloInv, Bury
  PROVE  SoloInv'
<1>1. Working' = {} /\ AtRite(1)
  BY ClearBury
<1>2. tcase' = tcase /\ tcase.state = "INIT" /\ ended' = ended
  BY BuryStep DEF Bury
<1>3. Quiet(todo["trader"])'
  BY BuryStep, RoundsQuiet
<1>4. ~ended
  BY <1>1 DEF AtRite, SoloInv, SoloEnds
<1>5. SoloWork' /\ SoloDone' /\ SoloEnds'
  BY <1>1, <1>2, <1>4 DEF SoloWork, SoloDone, SoloEnds
<1>6. SoloSends' /\ SoloChanges'
  BY <1>3 DEF SoloSends, SoloChanges, Quiet, NextCall, The
<1> QED
  BY <1>5, <1>6 DEF SoloInv

(* The answer to a case that works with many orders, and every step while  *)
(* it works.                                                               *)
LEMMA SoloOther ==
  ASSUME tcase'.type \in {"CASE_4", "NONE"}, dying' = NoCase, ~ended'
  PROVE  SoloInv'
<1>1. Owner' = tcase'
  BY DEF Owner
<1> QED
  BY <1>1 DEF SoloInv, SoloWork, SoloSends, SoloChanges, SoloDone, SoloEnds, Solo, Specials

(* A run of such a case leaves one call, and the end of the round.         *)
LEMMA LastCall ==
  ASSUME TypesInv, HeadRun, Solo(tcase)
  PROVE  Tail(todo["trader"]) = <<Do("finish")>>
<1>1. PICK p \in Lists(tcase) : p # <<>> /\ Tail(todo["trader"]) = Tail(p) \o <<Do("finish")>>
  BY DEF HeadRun
<1>2. PICK s \in MainSteps(tcase) : p = <<s>>
  BY <1>1 DEF Lists, Solo
<1>3. Tail(p) = <<>>
  BY <1>2
<1>4. PICK e : e = Do("finish")
  OBVIOUS
<1>5. <<>> \o <<e>> = <<e>>
  OBVIOUS
<1> QED
  BY <1>1, <1>3, <1>4, <1>5

LEMMA FinishQuiet == Quiet(<<Do("finish")>>)
<1>1. Do("finish").do = "finish"
  BY RoundLabels
<1>2. \A e : <<e>> # <<>> /\ Head(<<e>>) = e
  OBVIOUS
<1> QED
  BY <1>1, <1>2 DEF Quiet

LEMMA SoloFinishes ==
  ASSUME todo'["trader"] = <<Do("finish")>>, ~ended'
  PROVE  SoloSends' /\ SoloChanges' /\ SoloEnds'
<1>1. Quiet(todo["trader"])'
  BY FinishQuiet
<1> QED
  BY <1>1 DEF SoloSends, SoloChanges, SoloEnds, Quiet, NextCall, The

LEMMA NotEnded == ASSUME SoloInv, todo["trader"] # <<>>  PROVE ~ended
BY DEF SoloInv, SoloEnds

(* A run: a case sends when it has no order at the market, for what it     *)
(* just read, or changes the one it has.                                   *)
LEMMA NoneWorks ==
  ASSUME TypesInv, ~Lagging, SoloInv, dying = NoCase, Solo(tcase), HasNone(tcase)
  PROVE  Working = {}
<1>1. Owner = tcase
  BY DEF Owner
<1> SUFFICES ASSUME NEW i \in Working  PROVE FALSE
  OBVIOUS
<1>2. tcase.state # "INIT" /\ Fits(tcase, orders[i].left)
  BY <1>1 DEF SoloInv, SoloWork
<1>3. tcase.type = "CASE_10" /\ total[tcase.to_close] <= tcase.original - tcase.size
  BY <1>2 DEF HasNone
<1>4. /\ tcase.to_close \in Accounts /\ tcase.original \in Int /\ tcase.size \in Int
      /\ pos[tcase.to_close] \in Nat /\ total[tcase.to_close] = pos[tcase.to_close]
  BY <1>3, TotalIsPos DEF TypesInv, GoodCase, Case, Specials
<1>5. orders[i].left > 0 /\ orders[i].left \in Int
  BY TypesParts, LiveOrders DEF Working
<1>6. pos[tcase.to_close] - orders[i].left >= tcase.original - tcase.size
  BY <1>2, <1>3 DEF Fits
<1> QED
  BY <1>3, <1>4, <1>5, <1>6

LEMMA EqualNoneWorks ==
  ASSUME TypesInv, SoloInv, dying = NoCase, tcase.type \in Specials, Level
  PROVE  Working = {}
<1>1. Owner = tcase /\ Solo(tcase)
  BY DEF Owner, Solo, Specials
<1> SUFFICES ASSUME NEW i \in Working  PROVE FALSE
  OBVIOUS
<1>2. tcase.cur \in Accounts /\ pos[tcase.opp] - orders[i].left >= pos[tcase.cur]
  BY <1>1 DEF SoloInv, SoloWork, Fits
<1>3. orders[i].left > 0 /\ orders[i].left \in Int
  BY TypesParts, LiveOrders DEF Working
<1>4. tcase.opp = Other(tcase.cur)
  BY <1>2 DEF TypesInv, GoodCase
<1>5. pos[tcase.opp] = pos[tcase.cur] /\ pos[tcase.cur] \in Nat
  BY <1>2, <1>4 DEF Level, Other, Accounts, TypesInv
<1> QED
  BY <1>2, <1>3, <1>5

LEMMA SoloRuns ==
  ASSUME InstanceInv, SoloInv, RunCase, ~misled'
  PROVE  SoloInv'
<1>0. TypesInv /\ dying = NoCase /\ tcase \in GoodCase
  BY RunCaseStep DEF InstanceInv, TypesInv
<1>1. UNCHANGED pairVars /\ dying' = NoCase /\ ended' = ended /\ ~ended
  BY <1>0, NotEnded DEF RunCase, AtHead
<1>2. Working' = Working /\ orders' = orders /\ pos' = pos
  BY <1>1, SameWork
<1>3. CASE tcase = NoCase /\ tcase' = tcase
  BY <1>1, <1>3, SoloOther, NoCaseNone, <1>0
<1>4. ASSUME tcase # NoCase, NEW o, GoodOut(tcase, o), tcase' = o.c,
             todo'["trader"] = o.steps \o <<Do("finish")>>
      PROVE  SoloInv'
  <2>0. ~Lagging
    BY <1>4, RunCaseStep
  <2>1. SameCase(tcase, tcase')
    BY <1>4 DEF GoodOut
  <2>2. CASE tcase.type = "CASE_4"
    BY <1>1, <2>1, <2>2, SoloOther DEF SameCase
  <2>3. CASE tcase.type # "CASE_4"
    <3>1. OneCallOut(tcase, tcase', o.steps)
      BY <1>4, <2>3 DEF GoodOut
    <3>2. Solo(tcase) /\ Solo(tcase') /\ Owner = tcase /\ Owner' = tcase'
      BY <1>0, <1>1, <1>4, <2>1, <2>3, NoCaseNone DEF Solo, SameCase, Owner
    <3>3. SoloDone'
      <4> SUFFICES ASSUME tcase'.type \in Specials, tcase'.state = "DONE"
                   PROVE  Level /\ Working = {}
        BY <1>2 DEF SoloDone, Level
      <4>1. tcase.type \in Specials
        BY <2>1 DEF SameCase
      <4>2. tcase.state = "DONE" \/ Level
        BY <1>0, <2>0, <3>1, ReadRight DEF OneCallOut
      <4>3. CASE tcase.state = "DONE"
        BY <1>0, <4>1, <4>3 DEF SoloInv, SoloDone
      <4> QED
        BY <1>0, <4>1, <4>2, <4>3, EqualNoneWorks
    <3>4. ~ended' /\ SoloEnds'
      BY <1>1 DEF SoloEnds
    <3>5. ASSUME Working = {}  PROVE SoloWork'
      BY <1>2, <3>5 DEF SoloWork
    <3>6. ASSUME SameData(tcase, tcase'), tcase.state # "INIT"  PROVE SoloWork'
      <4>1. tcase'.state # "INIT" /\ tcase'.main = tcase.main /\ tcase'.type = tcase.type
        BY <2>1, <3>1, <3>6 DEF OneCallOut, SameCase
      <4>2. Side(tcase') = Side(tcase) /\ SideOp(tcase') = SideOp(tcase)
        BY <3>6, <4>1 DEF Side, SideOp, SameData
      <4>3. \A n : Fits(tcase, n) => Fits(tcase', n)
        BY <3>6, <4>1 DEF Fits, SameData
      <4>4. \A i \in Working : Fits(Owner, orders[i].left)' = Fits(tcase', orders[i].left)
        BY <1>2, <3>2 DEF Fits
      <4> QED
        BY <1>2, <3>2, <4>1, <4>2, <4>3, <4>4 DEF SoloInv, SoloWork
    <3>7. tcase.state = "INIT" => Working = {}
      BY <1>0, <2>0, <3>2, NoneWorks DEF HasNone
    <3>8. CASE o.steps = <<>> /\ (tcase.state = "INIT" \/ SameData(tcase, tcase'))
      <4>1. todo'["trader"] = <<Do("finish")>>
        <5>1. PICK e : e = Do("finish")
          OBVIOUS
        <5>2. <<>> \o <<e>> = <<e>>
          OBVIOUS
        <5> QED
          BY <1>4, <3>8, <5>1, <5>2
      <4>2. SoloWork'
        BY <3>5, <3>6, <3>7, <3>8
      <4> QED
        BY <3>3, <3>4, <4>1, <4>2, SoloFinishes DEF SoloInv
    <3>9. ASSUME NEW s \in MainSteps(tcase'), o.steps = <<s>>,
                 \/ Sends(tcase, tcase', s) \/ Reprices(tcase, tcase', s)
                 \/ s.do = "crash" /\ tcase.state = "INIT"
          PROVE  SoloInv'
      <4>1. todo'["trader"] # <<>> /\ Head(todo'["trader"]) = s
        <5>1. \A x, e : <<x>> \o <<e>> # <<>> /\ Head(<<x>> \o <<e>>) = x
          OBVIOUS
        <5> QED
          BY <1>4, <3>9, <5>1
      <4>2. The("trader")' = s /\ \A calls : NextCall(calls)' <=> s.do \in calls
        BY <4>1 DEF The, NextCall
      <4>3. CASE Sends(tcase, tcase', s)
        <5>1. Working = {}
          BY <1>0, <2>0, <3>2, <4>3, NoneWorks DEF Sends
        <5>2. s.do \in {"open", "close"} /\ s.do = SideOp(tcase') /\ s.acct = Side(tcase')
          BY <4>3 DEF Sends, SideOp
        <5>3. Fits(tcase, The("trader").size)' = Fits(tcase', s.size)
          BY <1>2, <4>2 DEF Fits
        <5>4. SoloSends'
          <6>1. Fits(tcase', s.size)
            BY <1>0, <2>0, <4>3, ReadRight DEF Sends
          <6> QED
            BY <1>2, <4>2, <4>3, <5>1, <5>2, <5>3, <6>1 DEF SoloSends, Sends
        <5>5. SoloChanges'
          BY <4>2, <5>2 DEF SoloChanges
        <5> QED
          BY <3>3, <3>4, <3>5, <5>1, <5>4, <5>5 DEF SoloInv
      <4>4. CASE Reprices(tcase, tcase', s)
        <5>1. SoloSends'
          BY <4>2, <4>4 DEF SoloSends, Reprices
        <5>2. SoloWork'
          BY <3>5, <3>6, <3>7, <4>4 DEF Reprices
        <5>3. SoloChanges'
          <6>1. ASSUME s.size # 0, NEW i \in Working
                PROVE  /\ tcase'.type = "CASE_9"
                       /\ s.size <= pos[tcase'.cur] + (orders[i].size - orders[i].left)
            <7>1. /\ tcase.type = "CASE_9" /\ s.size <= pos[tcase.cur]
                  /\ tcase'.cur = tcase.cur /\ tcase'.type = "CASE_9"
              <8>1. tcase.type = "CASE_9" => tcase.cur \in Accounts
                BY <1>0 DEF GoodCase, Specials
              <8> QED
                BY <1>0, <2>0, <2>1, <4>4, <6>1, <8>1, TotalIsPos DEF Reprices, SameData, SameCase
            <7>2. /\ orders[i].left \in Int /\ orders[i].size \in Int
                  /\ orders[i].left <= orders[i].size
              BY <1>0, TypesParts, LiveOrders DEF Working
            <7>3. s.size \in Int
              BY DEF MainSteps, GoodStep, Step
            <7>4. pos[tcase.cur] \in Int
              BY <1>0, <7>1 DEF TypesInv, GoodCase, Specials
            <7> QED
              BY <7>1, <7>2, <7>3, <7>4
          <6>2. \/ s.size = 0
                \/ /\ tcase'.type = "CASE_9"
                   /\ \A i \in Working' : s.size <= pos'[tcase'.cur] + (orders'[i].size - orders'[i].left)
            <7>1. CASE s.size # 0
              <8>1. tcase'.type = "CASE_9"
                BY <4>4, <7>1, <2>1 DEF Reprices, SameCase
              <8> QED
                BY <1>2, <6>1, <7>1, <8>1
            <7> QED
              BY <7>1
          <6> QED
            BY <4>2, <6>2 DEF SoloChanges
        <5> QED
          BY <3>3, <3>4, <5>1, <5>2, <5>3 DEF SoloInv
      <4>5. CASE s.do = "crash" /\ tcase.state = "INIT"
        <5>1. SoloSends' /\ SoloChanges'
          BY <4>2, <4>5 DEF SoloSends, SoloChanges
        <5> QED
          BY <3>3, <3>4, <3>5, <3>7, <4>5, <5>1 DEF SoloInv
      <4> QED
        BY <3>9, <4>3, <4>4, <4>5
    <3> QED
      BY <3>1, <3>8, <3>9 DEF OneCallOut
  <2> QED
    BY <2>2, <2>3
<1> QED
  BY <1>3, <1>4, RunCaseStep

(* The order of the case, for what it found to be missing.                 *)
LEMMA SoloSendOrder ==
  ASSUME InstanceInv, Known, SoloInv, ~misled, ~misled', SendOrder
  PROVE  SoloInv'
<1> DEFINE s == The("trader")
<1>0. TypesInv /\ tcase \in GoodCase
  BY DEF InstanceInv, TypesInv
<1>1. /\ HeadRun /\ s \in GoodStep /\ tcase.type # "NONE" /\ dying = NoCase
  BY SendOrderStep DEF HeadRun
<1>2. PICK id \in {0} \cup Slots :
        /\ tcase' = AnsweredNew(tcase, s, id)
        /\ \/ FreeId(id) /\ Sent(s.acct, s.do, s.size, s.done, id, TRUE)
           \/ id = 0 /\ orders' = orders
  <2>1. PICK id \in {0} \cup Slots :
          /\ tcase' = AnsweredNew(tcase, s, id)
          /\ Answers(s.acct, s.do, s.size, s.done, id)
          /\ misled' = (misled \/ (id = 0 /\ orders' # orders))
    BY SendOrderStep
  <2>2. \/ FreeId(id) /\ Sent(s.acct, s.do, s.size, s.done, id, TRUE)
        \/ id = 0 /\ orders' = orders
    BY <1>0, <2>1, KnownSent
  <2> QED
    BY <2>1, <2>2
<1>3. /\ UNCHANGED <<pos, dying, ended>> /\ s.do \in {"open", "close"} /\ todo["trader"] # <<>>
      /\ Then("trader", <<>>)
  BY DEF SendOrder, AtHead, The
<1>4. ~ended /\ ~ended' /\ dying' = NoCase /\ NextCall({"open", "close"})
  BY <1>1, <1>3, NotEnded DEF NextCall
<1>5. /\ SameKind(tcase, tcase') /\ tcase'.size = tcase.size
      /\ s.to = "main" => /\ tcase'.main = id
                          /\ tcase'.state = IF id = 0 /\ GivesUp(tcase) THEN "FAILED" ELSE "PRICE_CHANGE"
  <2>1. \A x \in {0} \cup Slots : \A d \in GoodStep :
          LET c == AnsweredNew(tcase, d, x) IN
          /\ SameKind(tcase, c) /\ c.size = tcase.size
          /\ d.to = "main" => /\ c.main = x
                              /\ c.state = IF x = 0 /\ GivesUp(tcase) THEN "FAILED" ELSE "PRICE_CHANGE"
    BY <1>0, <1>1, AnsweredNewFacts
  <2> QED
    BY <1>1, <1>2, <2>1
<1>6. CASE tcase.type = "CASE_4"
  BY <1>4, <1>5, <1>6, SoloOther DEF SameKind
<1>7. CASE tcase.type # "CASE_4"
  <2>1. Solo(tcase) /\ s \in MainSteps(tcase) /\ s.to = "main"
    BY <1>0, <1>1, <1>3, <1>7, RunHead DEF Solo, The, MainSteps
  <2>2. /\ Working = {} /\ s.do = SideOp(tcase) /\ s.acct = Side(tcase)
        /\ Fits(tcase, s.size)
    BY <1>4, <2>1 DEF SoloInv, SoloSends
  <2>3. todo'["trader"] = <<Do("finish")>>
    BY <1>0, <1>1, <1>3, <2>1, LastCall, TheirThreads, ThenNext
  <2>4. tcase'.state \in {"FAILED", "PRICE_CHANGE"} /\ tcase'.main = id
    BY <1>5, <2>1
  <2>5. SoloDone'
    BY <2>4 DEF SoloDone
  <2>6. SoloWork'
    <3>1. CASE orders' = orders
      <4>1. Working' = {}
        BY <2>2, <3>1 DEF Working, Live
      <4> QED
        BY <4>1 DEF SoloWork
    <3>2. CASE Sent(s.acct, s.do, s.size, s.done, id, TRUE)
      <4>1. \A i \in Working' : /\ i = id /\ orders'[i].acct = Side(tcase)
                                /\ orders'[i].op = SideOp(tcase) /\ orders'[i].left = s.size
        <5>1. \A i \in Live' : i # id => i \in Live /\ orders'[i] = orders[i]
          BY <3>2 DEF Sent
        <5>2. \A i \in Working' : i = id
          BY <2>2, <5>1 DEF Working
        <5> QED
          BY <2>2, <3>2, <5>2 DEF Sent
      <4>2. tcase'.state # "INIT"
        BY <2>4
      <4>3. Owner' = tcase'
        BY <1>4 DEF Owner
      <4>4. Side(tcase') = Side(tcase) /\ SideOp(tcase') = SideOp(tcase)
        BY <1>5 DEF SameKind, Side, SideOp
      <4>5. Fits(tcase', s.size)
        BY <1>5, <2>2 DEF Fits, SameKind
      <4>6. \A i \in Working' : Fits(Owner, orders[i].left)' = Fits(tcase', s.size)
        BY <1>3, <4>1, <4>3 DEF Fits
      <4> QED
        BY <2>4, <4>1, <4>2, <4>3, <4>4, <4>5, <4>6 DEF SoloWork
    <3> QED
      BY <1>2, <3>1, <3>2
  <2> QED
    BY <1>4, <2>3, <2>5, <2>6, SoloFinishes DEF SoloInv
<1> QED
  BY <1>6, <1>7

(* A replacement of the same size, or of a size that counts what has been  *)
(* filled, asks for no more than is left to trade.                         *)
LEMMA ReplacedLeft ==
  ASSUME ReplaceWorks, TypesInv, NEW id \in Live, NEW size \in Nat,
         orders'[id].size = IF size = 0 THEN orders[id].size ELSE size,
         orders'[id].left = IF ReplaceWorks
                            THEN Max({0, orders'[id].size - (orders[id].size - orders[id].left)})
                            ELSE orders'[id].size
  PROVE  /\ size = 0 => orders'[id].left = orders[id].left
         /\ \A n \in Int : n >= 0 /\ size <= n + (orders[id].size - orders[id].left) /\ size # 0
                             => orders'[id].left <= n
<1>1. /\ orders[id].left \in Int /\ orders[id].size \in Int /\ orders[id].left >= 0
  BY TypesParts, LiveOrders
<1>2. /\ orders'[id].size = IF size = 0 THEN orders[id].size ELSE size
      /\ orders'[id].left = Max({0, orders'[id].size - (orders[id].size - orders[id].left)})
  OBVIOUS
<1>3. orders'[id].size \in Int
  BY <1>1, <1>2
<1> DEFINE m == orders'[id].size - (orders[id].size - orders[id].left)
<1>4. m \in Int /\ Max({0, m}) \in {0, m} /\ 0 <= Max({0, m}) /\ m <= Max({0, m})
  <2>1. \A x \in Int : Max({0, x}) \in {0, x} /\ 0 <= Max({0, x}) /\ x <= Max({0, x})
    <3> TAKE x \in Int
    <3>1. \A z \in Int : Max({z, x}) \in {z, x} /\ z <= Max({z, x}) /\ x <= Max({z, x})
      BY MaxOfTwo
    <3> QED
      BY <3>1
  <2>2. m \in Int
    BY <1>1, <1>3
  <2> HIDE DEF m
  <2> QED
    BY <2>1, <2>2
<1>5. size = 0 => m = orders[id].left
  BY <1>1, <1>2
<1>6. \A n \in Int : n >= 0 /\ size <= n + (orders[id].size - orders[id].left) /\ size # 0 => m <= n
  BY <1>1, <1>2
<1>7. orders'[id].left = Max({0, m})
  BY <1>2
<1> HIDE DEF m
<1>8. ASSUME size = 0  PROVE orders'[id].left = orders[id].left
  <2>1. m = orders[id].left /\ m >= 0
    BY <1>1, <1>5, <1>8
  <2> QED
    BY ONLY <1>4, <1>7, <2>1
<1>9. ASSUME NEW n \in Int, n >= 0, size <= n + (orders[id].size - orders[id].left), size # 0
      PROVE  orders'[id].left <= n
  <2>1. m <= n
    BY <1>6, <1>9
  <2> QED
    BY ONLY <1>4, <1>7, <1>9, <2>1
<1> QED
  BY <1>8, <1>9

LEMMA SoloChangeOrder ==
  ASSUME ReplaceWorks, InstanceInv, Known, SoloInv, ~misled', ChangeOrder
  PROVE  SoloInv'
<1> DEFINE s == The("trader")
<1>0. TypesInv /\ tcase \in GoodCase
  BY DEF InstanceInv, TypesInv
<1>1. /\ HeadRun /\ s \in GoodStep /\ tcase.type # "NONE" /\ dying = NoCase /\ s.size \in Nat
  BY ChangeOrderStep DEF HeadRun
<1>2. PICK answer \in {"gone", "same", "new"} :
        /\ tcase' = AnsweredChange(tcase, s, answer)
        /\ \/ answer = "gone" /\ s.id \notin Live /\ orders' = orders
           \/ answer = "same" /\ s.id \in Live /\ orders' = orders
           \/ answer = "new" /\ Changed(s.id, s.size, TRUE)
  BY ChangeOrderStep DEF HasOrder, Known
<1>3. /\ UNCHANGED <<pos, dying, ended>> /\ s.do = "change" /\ todo["trader"] # <<>>
      /\ Then("trader", <<>>)
  BY DEF ChangeOrder, AtHead, The
<1>4. ~ended /\ ~ended' /\ dying' = NoCase /\ NextCall({"change"})
  BY <1>1, <1>3, NotEnded DEF NextCall
<1>5. SameKind(tcase, tcase') /\ ChangeAnswer(tcase, s, answer, tcase')
  BY <1>0, <1>1, <1>2, AnsweredChangeFacts
<1>6. CASE tcase.type = "CASE_4"
  BY <1>4, <1>5, <1>6, SoloOther DEF SameKind
<1>7. CASE tcase.type # "CASE_4"
  <2>1. Solo(tcase) /\ s \in MainSteps(tcase) /\ s.to = "main" /\ s.id = tcase.main
    BY <1>0, <1>1, <1>3, <1>7, RunHead DEF Solo, The, MainSteps
  <2>2. todo'["trader"] = <<Do("finish")>>
    BY <1>0, <1>1, <1>3, <2>1, LastCall, TheirThreads, ThenNext
  <2>3. Owner = tcase /\ Owner' = tcase' /\ Solo(tcase')
    BY <1>1, <1>4, <1>5, <2>1 DEF Owner, SameKind, Solo
  <2>4. /\ tcase'.state \in {"WAIT", tcase.state}
        /\ tcase'.main = tcase.main \/ answer = "gone"
        /\ tcase'.size = tcase.size \/ (answer = "new" /\ s.size # 0)
    BY <1>5, <1>7, <2>1 DEF ChangeAnswer
  <2>5. Side(tcase') = Side(tcase) /\ SideOp(tcase') = SideOp(tcase) /\ tcase'.type = tcase.type
        /\ tcase'.cur = tcase.cur
    BY <1>5 DEF SameKind, Side, SideOp
  <2>6. \A i \in Working : i = tcase.main /\ tcase.state # "INIT"
    BY <2>1, <2>3 DEF SoloInv, SoloWork
  <2>7. ASSUME orders' = orders, answer # "new", answer = "gone" => s.id \notin Live
        PROVE  SoloInv'
    <3>1. Working' = Working
      BY <2>7 DEF Working, Live
    <3>2. SoloDone'
      <4>1. tcase'.state = "DONE" => tcase.state = "DONE"
        BY <2>4
      <4> QED
        BY <1>1, <1>3, <2>5, <3>1, <4>1 DEF SoloInv, SoloDone, Level
    <3>3. SoloWork'
      <4>1. CASE answer = "gone"
        <5>1. Working = {}
          BY <2>1, <2>6, <2>7, <4>1 DEF Working
        <5> QED
          BY <3>1, <5>1 DEF SoloWork
      <4>2. CASE answer # "gone"
        <5>1. CASE answer = "same"
          <6>1. tcase'.main = tcase.main /\ tcase'.size = tcase.size
            BY <2>4, <5>1
          <6>2. \A n : Fits(tcase, n) => Fits(tcase', n)
            BY <1>5, <6>1 DEF Fits, SameKind
          <6>3. \A i \in Working : Fits(Owner, orders[i].left)' = Fits(tcase', orders[i].left)
            BY <1>3, <2>3, <2>7 DEF Fits
          <6>4. tcase.state # "INIT" => tcase'.state # "INIT"
            BY <2>4
          <6> QED
            BY <2>1, <2>3, <2>5, <2>7, <3>1, <6>1, <6>2, <6>3, <6>4 DEF SoloInv, SoloWork
        <5> QED
          BY <2>7, <4>2, <5>1
      <4> QED
        BY <4>1, <4>2
    <3> QED
      BY <1>4, <2>2, <3>2, <3>3, SoloFinishes DEF SoloInv
  <2>8. CASE answer = "new" /\ Changed(s.id, s.size, TRUE)
    <3>1. s.id \in Working /\ s.id \in Live
      BY <2>8 DEF Changed, Working
    <3>2. tcase.state # "INIT" /\ s.id = tcase.main
      BY <2>1, <2>6, <3>1
    <3>3. Working' \subseteq {s.id}
      <4>1. \A i \in Working' : i # s.id => i \in Working
        BY <2>8 DEF Changed, Working
      <4> QED
        BY <2>6, <3>2, <4>1
    <3>4. SoloDone'
      <4>1. tcase.type \in Specials => tcase.state # "DONE"
        BY <1>1, <3>1 DEF SoloInv, SoloDone
      <4> QED
        BY <2>4, <2>5, <4>1 DEF SoloDone
    <3>5. /\ orders[s.id].acct = Side(tcase) /\ orders[s.id].op = SideOp(tcase)
          /\ Fits(tcase, orders[s.id].left)
      BY <2>1, <2>3, <3>1 DEF SoloInv, SoloWork
    <3>6. Fits(tcase', orders'[s.id].left)
      <4>0. /\ s.size = 0 => orders'[s.id].left = orders[s.id].left
            /\ \A n \in Int : n >= 0 /\ s.size <= n + (orders[s.id].size - orders[s.id].left) /\ s.size # 0
                                 => orders'[s.id].left <= n
        BY <1>0, <1>1, <2>8, <3>1, ReplacedLeft DEF Changed
      <4>1. CASE s.size = 0
        <5>1. orders'[s.id].left = orders[s.id].left
          BY <4>0, <4>1
        <5>2. tcase'.size = tcase.size
          BY <2>4, <4>1
        <5>3. \A n : Fits(tcase, n) => Fits(tcase', n)
          BY <1>5, <5>2 DEF Fits, SameKind
        <5> QED
          BY <3>5, <5>1, <5>3
      <4>2. CASE s.size # 0
        <5>1. /\ tcase.type = "CASE_9"
              /\ s.size <= pos[tcase.cur] + (orders[s.id].size - orders[s.id].left)
          BY <1>4, <2>1, <3>1, <4>2 DEF SoloInv, SoloChanges
        <5>2. pos[tcase.cur] \in Int /\ pos[tcase.cur] >= 0
          BY <1>0, <5>1 DEF TypesInv, GoodCase, Specials
        <5>3. orders'[s.id].left <= pos[tcase.cur]
          BY <4>0, <4>2, <5>1, <5>2
        <5> QED
          BY <2>5, <5>1, <5>3 DEF Fits, Specials
      <4> QED
        BY <4>1, <4>2
    <3>7. SoloWork'
      <4>1. tcase'.state # "INIT" /\ tcase'.main = s.id
        BY <2>4, <2>8, <3>2
      <4>2. \A i \in Working' : Fits(Owner, orders[i].left)' = Fits(tcase', orders'[s.id].left)
        BY <1>3, <2>3, <3>3 DEF Fits
      <4>3. orders'[s.id].acct = orders[s.id].acct /\ orders'[s.id].op = orders[s.id].op
        BY <2>8 DEF Changed
      <4> QED
        BY <2>3, <2>5, <3>3, <3>5, <3>6, <4>1, <4>2, <4>3 DEF SoloWork
    <3> QED
      BY <1>4, <2>2, <3>4, <3>7, SoloFinishes DEF SoloInv
  <2> QED
    BY <1>2, <2>7, <2>8
<1> QED
  BY <1>6, <1>7

(* A fill takes off the order what it puts on or off the position.         *)
(* A call is made in a run of the case.                                    *)
LEMMA CallRuns ==
  ASSUME TypesInv, ScriptInv, NextCall({"change"})
  PROVE  HeadRun
<1>1. /\ todo["trader"] # <<>> /\ Head(todo["trader"]).do = "change"
      /\ HeadRite \/ HeadRound \/ HeadRun
  BY Heads DEF NextCall, The
<1>2. ~HeadRite
  <2>1. \A n \in 1..5 : RiteStep(n).do \in {"bury", "cancel", "drop"}
    BY RiteIsStep
  <2> QED
    BY <1>1, <2>1 DEF HeadRite
<1>3. ~HeadRound
  BY <1>1, RoundLabels DEF HeadRound, Stages
<1> QED
  BY <1>1, <1>2, <1>3

LEMMA SoloFill ==
  ASSUME InstanceInv, SoloInv, NEW i \in Slots, Fills(i)
  PROVE  SoloInv'
<1>0. TypesInv /\ ScriptInv /\ PairGood
  BY TypesParts DEF InstanceInv
<1> PICK n \in Nat : Filled(i, n)
  BY FillsStep
<1>1. Filled(i, n) /\ UNCHANGED instanceVars
  BY FillsStep
<1>2. i \in Working /\ i \in Live
  BY <1>0, <1>1, FilledFewer DEF Working
<1>3. UNCHANGED <<tcase, dying, todo, ended>> /\ Owner' = Owner
  BY <1>1 DEF instanceVars, Owner
<1>4. \A j \in Working' : j \in Working
  BY <1>0, <1>1, FilledFewer DEF Fewer
<1>5. /\ orders[i].left \in Int /\ orders[i].size \in Int /\ n \in Int /\ n >= 1 /\ n <= orders[i].left
      /\ orders[i].acct \in Accounts
  BY <1>0, <1>1, <1>2, LiveOrders DEF Filled
<1>6. /\ pos'[orders[i].acct] =
           IF orders[i].op = "open" THEN pos[orders[i].acct] + n ELSE pos[orders[i].acct] - n
      /\ \A a \in Accounts : a # orders[i].acct => pos'[a] = pos[a]
  BY <1>0, <1>1, <1>5 DEF Filled, TypesInv
<1>7. \A a \in Accounts : pos[a] \in Int
  BY <1>0 DEF TypesInv
<1>8. i \in Live' => /\ orders'[i].acct = orders[i].acct /\ orders'[i].op = orders[i].op
                     /\ orders'[i].size = orders[i].size
                     /\ orders'[i].left = orders[i].left - n
  BY <1>1 DEF Filled
<1>9. Owner \in GoodCase
  BY <1>0 DEF TypesInv, Owner
<1>10. SoloWork'
  <2> SUFFICES ASSUME Solo(Owner), NEW j \in Working'
               PROVE  /\ j = Owner.main /\ Owner.state # "INIT"
                      /\ orders'[j].acct = Side(Owner) /\ orders'[j].op = SideOp(Owner)
                      /\ Fits(Owner, orders[j].left)'
    BY <1>3 DEF SoloWork
  <2>1. \A k \in Working : /\ k = Owner.main /\ Owner.state # "INIT"
                           /\ orders[k].acct = Side(Owner) /\ orders[k].op = SideOp(Owner)
                           /\ Fits(Owner, orders[k].left)
    BY DEF SoloInv, SoloWork
  <2>2. j = i /\ i \in Live'
    BY <1>2, <1>4, <2>1 DEF Working
  <2> SUFFICES Fits(Owner, orders[j].left)'
    BY <1>2, <1>8, <2>1, <2>2
  <2> DEFINE left == orders[i].left
             a == orders[i].acct
             c == Owner
  <2>3. /\ c.type = "HEDGECURRENT" => pos[c.cur] + left <= pos[c.opp]
        /\ c.type \in Specials => c.cur \in Accounts /\ pos[c.opp] - left >= pos[c.cur]
        /\ c.type = "CASE_9" => left <= pos[c.cur]
        /\ c.type = "CASE_10" => left <= pos[c.to_close] /\ pos[c.to_close] - left >= c.original - c.size
    BY <1>2, <2>1 DEF Fits
  <2>4. a = Side(c) /\ orders[i].op = SideOp(c)
    BY <1>2, <2>1
  <2>5. /\ c.cur \in Accounts => c.opp = Other(c.cur)
        /\ c.type \in {"HEDGECURRENT", "CASE_9", "CASE_10"} => c.cur \in Accounts /\ c.to_close \in Accounts
        /\ c.original \in Int /\ c.size \in Int
    BY <1>9 DEF GoodCase, Case, Specials
  <2>6. \A b \in Accounts : Other(b) \in Accounts /\ Other(b) # b
    BY OtherAccount
  <2>7. Fits(Owner, orders[j].left)' <=>
          /\ c.type = "HEDGECURRENT" => pos'[c.cur] + (left - n) <= pos'[c.opp]
          /\ c.type \in Specials => c.cur \in Accounts /\ pos'[c.opp] - (left - n) >= pos'[c.cur]
          /\ c.type = "CASE_9" => left - n <= pos'[c.cur]
          /\ c.type = "CASE_10" => /\ left - n <= pos'[c.to_close]
                                   /\ pos'[c.to_close] - (left - n) >= c.original - c.size
    BY <1>3, <1>8, <2>2 DEF Fits
  <2> HIDE DEF left, a, c
  <2>8. left \in Int
    BY <1>5 DEF left
  <2>9. pos'[a] = (IF orders[i].op = "open" THEN pos[a] + n ELSE pos[a] - n)
        /\ \A b \in Accounts : b # a => pos'[b] = pos[b]
    BY <1>6 DEF a
  <2>10. CASE c.type = "HEDGECURRENT"
    <3>1. a = c.cur /\ orders[i].op = "open" /\ c.opp # a /\ c.opp \in Accounts /\ a \in Accounts
      BY <2>4, <2>5, <2>6, <2>10 DEF Side, SideOp, Specials
    <3>2. pos'[c.cur] = pos[c.cur] + n /\ pos'[c.opp] = pos[c.opp]
      BY <2>9, <3>1
    <3>3. pos'[c.cur] + (left - n) <= pos'[c.opp]
      BY <1>5, <1>7, <2>3, <2>8, <2>10, <3>1, <3>2
    <3> QED
      BY <2>7, <2>10, <3>3 DEF Specials
  <2>11. CASE c.type \in Specials
    <3>1. a = c.opp /\ orders[i].op = "close" /\ c.cur # a /\ c.cur \in Accounts /\ a \in Accounts
      BY <2>3, <2>4, <2>5, <2>6, <2>11 DEF Side, SideOp, Specials
    <3>2. pos'[c.opp] = pos[c.opp] - n /\ pos'[c.cur] = pos[c.cur]
      BY <2>9, <3>1
    <3>3. pos'[c.opp] - (left - n) >= pos'[c.cur]
      BY <1>5, <1>7, <2>3, <2>8, <2>11, <3>1, <3>2
    <3> QED
      BY <2>7, <2>11, <3>1, <3>3 DEF Specials
  <2>12. CASE c.type = "CASE_9"
    <3>1. a = c.cur /\ orders[i].op = "close" /\ a \in Accounts
      BY <2>4, <2>5, <2>12 DEF Side, SideOp, Specials
    <3>2. pos'[c.cur] = pos[c.cur] - n
      BY <2>9, <3>1
    <3>3. left - n <= pos'[c.cur]
      BY <1>5, <1>7, <2>3, <2>8, <2>12, <3>1, <3>2
    <3> QED
      BY <2>7, <2>12, <3>3 DEF Specials
  <2>13. CASE c.type = "CASE_10"
    <3>1. a = c.to_close /\ orders[i].op = "close" /\ a \in Accounts
      BY <2>4, <2>5, <2>13 DEF Side, SideOp, Specials
    <3>2. pos'[c.to_close] = pos[c.to_close] - n
      BY <2>9, <3>1
    <3>3. left - n <= pos'[c.to_close] /\ pos'[c.to_close] - (left - n) >= c.original - c.size
      BY <1>5, <1>7, <2>3, <2>5, <2>8, <2>13, <3>1, <3>2
    <3> QED
      BY <2>7, <2>13, <3>3 DEF Specials
  <2>14. c.type \in Specials \cup {"HEDGECURRENT", "CASE_9", "CASE_10"}
    BY <1>9 DEF c, Solo, GoodCase, Case, Types
  <2> QED
    BY <2>10, <2>11, <2>12, <2>13, <2>14
<1>11. SoloSends'
  <2>1. ~(Solo(tcase) /\ NextCall({"open", "close"}))
    BY <1>2 DEF SoloInv, SoloSends
  <2> QED
    BY <1>3, <2>1 DEF SoloSends, NextCall, The
<1>12. SoloChanges'
  <2> DEFINE size == The("trader").size
  <2> SUFFICES ASSUME Solo(tcase), NextCall({"change"}), size # 0
               PROVE  /\ tcase.type = "CASE_9"
                      /\ \A j \in Working' : size <= pos'[tcase.cur] + (orders'[j].size - orders'[j].left)
    BY <1>3 DEF SoloChanges, NextCall, The
  <2>1. tcase.type = "CASE_9" /\ size <= pos[tcase.cur] + (orders[i].size - orders[i].left)
    BY <1>2 DEF SoloInv, SoloChanges
  <2>2. HeadRun
    BY <1>0, CallRuns
  <2>3. Owner = tcase
    BY <2>2 DEF HeadRun, Owner
  <2>4. /\ \A j \in Working : j = tcase.main
        /\ orders[i].acct = tcase.cur /\ orders[i].op = "close"
    BY <1>2, <2>1, <2>3 DEF SoloInv, SoloWork, Side, SideOp, Specials
  <2>5. pos'[tcase.cur] = pos[tcase.cur] - n /\ pos[tcase.cur] \in Int
    BY <1>5, <1>6, <1>7, <2>4
  <2>6. size \in Int
    BY <1>0, TheirThreads, StepOf DEF NextCall, GoodStep, Step
  <2>7. ASSUME NEW j \in Working'
        PROVE  size <= pos'[tcase.cur] + (orders'[j].size - orders'[j].left)
    <3>1. j = i /\ i \in Live'
      BY <1>2, <1>4, <2>4 DEF Working
    <3>2. orders'[j].size = orders[i].size /\ orders'[j].left = orders[i].left - n
      BY <1>8, <3>1
    <3> HIDE DEF size
    <3> QED
      BY <1>5, <2>1, <2>5, <2>6, <3>2
  <2> QED
    BY <2>1, <2>7
<1>13. SoloDone'
  <2>1. ~(dying = NoCase /\ tcase.type \in Specials /\ tcase.state = "DONE")
    BY <1>2 DEF SoloInv, SoloDone
  <2> QED
    BY <1>3, <2>1 DEF SoloDone
<1>14. SoloEnds'
  BY <1>3 DEF SoloInv, SoloEnds
<1> QED
  BY <1>10, <1>11, <1>12, <1>13, <1>14 DEF SoloInv

LEMMA SoloOrderDone ==
  ASSUME InstanceInv, SoloInv, NEW i \in Slots, OrderDone(i)
  PROVE  SoloInv'
<1>1. /\ Live' = Live \ {i} /\ \A j \in Live' : orders'[j] = orders[j]
      /\ SameKind(tcase, tcase') /\ tcase'.state = tcase.state /\ tcase'.main = tcase.main
      /\ tcase'.size = tcase.size
      /\ pos' = pos /\ dying' = dying /\ todo' = todo
  BY OrderDoneStep
<1>2. ended' = ended
  BY DEF OrderDone
<1>3. Alike(tcase, tcase')
  BY <1>1 DEF SameKind, Alike
<1>4. Alike(Owner, Owner')
  BY <1>1, <1>3, AlikeItself DEF Owner
<1>5. \A j \in Working' : j \in Working /\ orders'[j] = orders[j]
  BY <1>1 DEF Working
<1> QED
  BY <1>1, <1>2, <1>3, <1>4, <1>5, SoloKeeps

LEMMA SoloInit == Init => SoloInv
<1> SUFFICES ASSUME Init  PROVE SoloInv
  OBVIOUS
<1>1. /\ orders = [i \in Slots |-> NoOrder] /\ todo = [th \in Threads |-> <<>>]
      /\ tcase = NoCase /\ dying = NoCase /\ ended = FALSE
  BY DEF Init, PairInit
<1>2. NoCase.type = "NONE" /\ Owner = NoCase
  BY <1>1 DEF NoCase, NewCase, Owner
<1> QED
  BY <1>1, <1>2 DEF SoloInv, SoloWork, SoloSends, SoloChanges, SoloDone, SoloEnds, Solo, Specials

LEMMA SoloNext ==
  ASSUME InstanceInv, Cancels, ReplaceWorks, Known, ClearInv, SoloInv, ~misled, ~misled', [Next]_vars
  PROVE  SoloInv'
<1>0. TypesInv
  BY DEF InstanceInv
<1>1. CASE UNCHANGED vars
  BY <1>1, SoloSame DEF vars, pairVars, instanceVars
<1>2. CASE Choosing
  <2>1. /\ dying = NoCase /\ UNCHANGED pairVars /\ ~ended /\ ended' = ended /\ SelectionOf
    BY <1>2, ChoosingEffect, NotEnded
  <2> QED
    BY <1>0, <2>1, SoloSelected DEF SelectionOf
<1>3. ASSUME Drop("trader") \/ CancelOrders("trader")  PROVE SoloInv'
  BY <1>3, CancelsEffect, SoloCancels
<1>4. CASE (\E th \in Threads : Hang(th)) \/ \E a \in Accounts : Books(a)
  BY <1>4, HangKeeps, BooksKeeps, SoloSame DEF pairVars
<1>5. CASE Crash
  BY <1>5, SoloSame DEF Crash, pairVars
<1>6. CASE Finish
  <2>1. /\ dying = NoCase /\ UNCHANGED pairVars
        /\ \/ Replaced /\ tcase.type \notin Specials
           \/ GoesOn /\ todo'["trader"] = <<>>
        /\ ended' = (tcase.type \in Specials /\ tcase.state = "DONE")
    BY <1>6, FinishEffect
  <2> QED
    BY <1>0, <2>1, SoloSelected
<1>7. ASSUME NEW th \in Consoles, Drop(th) \/ CancelOrders(th)  PROVE SoloInv'
  BY <1>7, CancelsEffect, SoloCancels
<1>8. ASSUME NEW th \in Consoles, WriteFlag(th) \/ \E line \in Commands : Command(th, line)
      PROVE  SoloInv'
  BY <1>8, OthersKeep, SoloSame DEF pairVars
<1>9. ASSUME NEW i \in Slots, CallbackIsLost(i)  PROVE SoloInv'
  BY <1>9, SoloSame DEF CallbackIsLost, pairVars
<1>10. CASE SendRequotes
  <2>1. tcase.type = "CASE_4" /\ dying = NoCase
    BY <1>10, SendRequotesStep DEF HeadRun
  <2>2. UNCHANGED <<tcase, dying, ended>> /\ ~ended
    BY <1>10, NotEnded DEF SendRequotes, AtHead
  <2> QED
    BY <2>1, <2>2, SoloOther
<1>11. CASE SendPending
  <2>1. tcase.type = "CASE_4" /\ dying = NoCase
    BY <1>11, SendPendingStep DEF HeadRun
  <2>2. UNCHANGED <<tcase, dying, ended>> /\ ~ended
    BY <1>11, NotEnded DEF SendPending, AtHead
  <2> QED
    BY <2>1, <2>2, SoloOther
<1> QED
  BY <1>1, <1>2, <1>3, <1>4, <1>5, <1>6, <1>7, <1>8, <1>9, <1>10, <1>11, SoloSendOrder,
     SoloChangeOrder, SoloRuns, SoloFill, SoloOrderDone, SoloBury
     DEF Next, Trader, Console, Choosing

SolelyOwned == ReplaceWorks /\ ClearlyOwned /\ (~misled => SoloInv)

LEMMA SoloAlways == ReplaceWorks /\ Cancels /\ Spec => []SolelyOwned
<1>1. ReplaceWorks /\ Cancels /\ Init => SolelyOwned
  BY OwnedInit, SoloInit DEF SolelyOwned
<1>2. SolelyOwned /\ [Next]_vars => SolelyOwned'
  <2> SUFFICES ASSUME SolelyOwned, [Next]_vars  PROVE SolelyOwned'
    OBVIOUS
  <2>1. ReplaceWorks' /\ ClearlyOwned'
    BY OwnedNext DEF SolelyOwned
  <2>2. ~misled' => SoloInv'
    BY OwnedNext, SoloNext DEF SolelyOwned
  <2> QED
    BY <2>1, <2>2 DEF SolelyOwned
<1> QED
  BY <1>1, <1>2, PTL DEF Spec

(* A case other than 4 works with the order it remembers (main): whatever  *)
(* was cancelled, refused or filled on the way, no other order can change  *)
(* a position once the case before it is destroyed.  It takes              *)
(* cancel_on_trigger, cancels that succeed, and replacements that count    *)
(* what was filled: case 10 sends the next piece when the position says    *)
(* that the last one is closed.                                            *)
THEOREM OnlyItsOrder == ReplaceWorks /\ Cancels /\ Spec => []OnlyItsOrderTrades
<1>1. SolelyOwned => OnlyItsOrderTrades
  BY DEF SolelyOwned, SoloInv, SoloWork, OnlyItsOrderTrades, Owner, Solo
<1> QED
  BY <1>1, SoloAlways, PTL

(* HedgeCurrent, PanicClose and SoftClose read a difference once and       *)
(* change the price of their order while it is filled: what is left of it  *)
(* never carries one account past the other.                               *)
THEOREM NoneOvershoots == ReplaceWorks /\ Cancels /\ Spec => []NeverOvershoots
<1>1. SolelyOwned => NeverOvershoots
  <2> SUFFICES ASSUME SolelyOwned, ~misled, dying = NoCase, tcase.main \in Working
               PROVE  CASE tcase.type = "HEDGECURRENT" -> pos[tcase.cur] + orders[tcase.main].left <= pos[tcase.opp]
                        [] tcase.type \in Specials -> pos[tcase.opp] - orders[tcase.main].left >= pos[tcase.cur]
                        [] OTHER -> TRUE
    BY DEF NeverOvershoots
  <2>1. Solo(tcase) => Fits(tcase, orders[tcase.main].left)
    BY DEF SolelyOwned, SoloInv, SoloWork, Owner
  <2> QED
    BY <2>1 DEF Fits, Solo, Specials
<1> QED
  BY <1>1, SoloAlways, PTL

(* "panic/soft close complete ... exiting!!!" (triggerProcessing): when    *)
(* the thread returns, the two accounts hold the same and no order that    *)
(* could make them differ is at the market.                                *)
THEOREM EndsHedged == ReplaceWorks /\ Cancels /\ Spec => []EndedIsHedged
<1>1. SolelyOwned => EndedIsHedged
  BY DEF SolelyOwned, SoloInv, SoloEnds, SoloDone, EndedIsHedged, Level
<1> QED
  BY <1>1, SoloAlways, PTL

-----------------------------------------------------------------------------
(* What case 4 has to close.  An order it opened will be closed for what   *)
(* was filled of it, a close it queued for its size, and a close at the    *)
(* market for what is left of it.                                          *)

Weight(o, a) ==
  IF o = NoOrder THEN 0
  ELSE IF o.acct # a THEN 0
  ELSE IF o.op = "close" THEN o.left
  ELSE IF o.done = "send_close" THEN o.size - o.left
  ELSE 0

Worth(book, a) == SumFunctionOnSet([i \in Slots |-> Weight(book[i], a)], Slots)
Queued(q)      == SumFunctionOnSet([k \in 1..Len(q) |-> q[k].size], 1..Len(q))

OrderBooks == [Slots -> GoodOrder \cup {NoOrder}]

LEMMA WeightNat ==
  ASSUME NEW o \in GoodOrder \cup {NoOrder}, NEW a
  PROVE  Weight(o, a) \in Nat
<1>1. CASE o = NoOrder
  BY <1>1 DEF Weight
<1>2. CASE o \in GoodOrder
  <2>1. o.left \in Nat /\ o.size \in Nat /\ o.left <= o.size
    BY <1>2, PairAssumption DEF GoodOrder, Order
  <2> QED
    BY <2>1 DEF Weight
<1> QED
  BY <1>1, <1>2

LEMMA SlotsFinite == IsFiniteSet(Slots)
BY PairAssumption

LEMMA WorthNat ==
  ASSUME NEW b \in OrderBooks, NEW a
  PROVE  Worth(b, a) \in Nat
<1> DEFINE f == [i \in Slots |-> Weight(b[i], a)]
<1>1. \A i \in Slots : f[i] \in Nat
  BY WeightNat DEF OrderBooks
<1>2. SumFunctionOnSet(f, Slots) \in Nat
  <2> HIDE DEF f
  <2> QED
    BY <1>1, SlotsFinite, SumNat
<1> QED
  BY <1>2 DEF Worth

(* Orders that weigh less are worth less.                                  *)
LEMMA WorthBelow ==
  ASSUME NEW b \in OrderBooks, NEW c \in OrderBooks, NEW a,
         \A i \in Slots : Weight(c[i], a) <= Weight(b[i], a)
  PROVE  Worth(c, a) <= Worth(b, a)
<1> DEFINE f == [i \in Slots |-> Weight(b[i], a)]
           h == [i \in Slots |-> Weight(c[i], a)]
<1>1. \A i \in Slots : h[i] \in Int /\ f[i] \in Int /\ h[i] <= f[i]
  <2>1. \A i \in Slots : Weight(b[i], a) \in Nat /\ Weight(c[i], a) \in Nat
    BY WeightNat DEF OrderBooks
  <2> QED
    BY <2>1
<1>2. SumFunctionOnSet(h, Slots) <= SumFunctionOnSet(f, Slots)
  <2> HIDE DEF f, h
  <2> QED
    BY <1>1, SlotsFinite, SumBelow
<1> QED
  BY <1>2 DEF Worth

LEMMA SlotsMove ==
  ASSUME NEW f, NEW h, NEW i \in Slots, \A j \in Slots : f[j] \in Int, h[i] \in Int,
         \A j \in Slots \ {i} : h[j] = f[j]
  PROVE  SumFunctionOnSet(h, Slots) = SumFunctionOnSet(f, Slots) - f[i] + h[i]
BY SlotsFinite, SumMoves

(* One order that changes changes the sum by as much.                      *)
LEMMA WorthMoves ==
  ASSUME NEW b \in OrderBooks, NEW c \in OrderBooks, NEW a, NEW i \in Slots,
         \A j \in Slots \ {i} : Weight(c[j], a) = Weight(b[j], a)
  PROVE  Worth(c, a) = Worth(b, a) - Weight(b[i], a) + Weight(c[i], a)
<1> DEFINE f == [j \in Slots |-> Weight(b[j], a)]
           h == [j \in Slots |-> Weight(c[j], a)]
<1>1. /\ \A j \in Slots : f[j] \in Int
      /\ h[i] \in Int
      /\ \A j \in Slots \ {i} : h[j] = f[j]
  <2>1. \A j \in Slots : Weight(b[j], a) \in Nat /\ Weight(c[j], a) \in Nat
    BY WeightNat DEF OrderBooks
  <2> QED
    BY <2>1
<1>2. f[i] = Weight(b[i], a) /\ h[i] = Weight(c[i], a)
  OBVIOUS
<1>3. SumFunctionOnSet(h, Slots) = SumFunctionOnSet(f, Slots) - f[i] + h[i]
  <2> HIDE DEF f, h
  <2> QED
    BY <1>1, SlotsMove
<1>4. SumFunctionOnSet(h, Slots) = Worth(c, a) /\ SumFunctionOnSet(f, Slots) = Worth(b, a)
  BY DEF Worth
<1> HIDE DEF f, h
<1> QED
  BY <1>2, <1>3, <1>4

LEMMA QueuedSizes ==
  ASSUME NEW q \in Seq(Pending)
  PROVE  /\ \A k \in 1..Len(q) : q[k] \in Pending /\ q[k].size \in Nat
         /\ \A e \in Pending : e.size \in Nat
<1>1. \A e \in Pending : e.size \in Nat
  BY PairAssumption DEF Pending
<1>2. \A k \in 1..Len(q) : q[k] \in Pending
  OBVIOUS
<1> QED
  BY <1>1, <1>2

LEMMA QueuedNat ==
  ASSUME NEW q \in Seq(Pending)
  PROVE  Queued(q) \in Nat
<1> DEFINE f == [k \in 1..Len(q) |-> q[k].size]
           N == 1..Len(q)
<1>1. \A k \in N : f[k] \in Nat
  BY QueuedSizes
<1>2. IsFiniteSet(N)
  BY FS_Interval
<1>3. SumFunctionOnSet(f, N) \in Nat
  <2> HIDE DEF f, N
  <2> QED
    BY <1>1, <1>2, SumNat
<1> QED
  BY <1>3 DEF Queued

LEMMA QueuedEmpty == Queued(<<>>) = 0
<1>1. 1..Len(<<>>) = {}
  OBVIOUS
<1> QED
  BY <1>1, SumEmpty DEF Queued

LEMMA QueuedAppend ==
  ASSUME NEW q \in Seq(Pending), NEW e \in Pending
  PROVE  Queued(Append(q, e)) = Queued(q) + e.size
<1> DEFINE n == Len(q)
           r == Append(q, e)
           f == [k \in 1..Len(r) |-> r[k].size]
           h == [k \in 1..n |-> q[k].size]
           N == 1..(n + 1)
<1>1. n \in Nat /\ Len(r) = n + 1 /\ r \in Seq(Pending)
  OBVIOUS
<1>2. r[n + 1] = e /\ \A k \in 1..n : r[k] = q[k]
  OBVIOUS
<1>3. \A k \in N : f[k] \in Int /\ f[k] = r[k].size
  <2>1. \A k \in 1..Len(r) : r[k].size \in Nat
    <3> HIDE DEF r
    <3> QED
      BY <1>1, QueuedSizes
  <2> QED
    BY <1>1, <2>1
<1>4. \A k \in 1..n : h[k] = q[k].size
  OBVIOUS
<1>5. IsFiniteSet(N) /\ IsFiniteSet(1..n) /\ n + 1 \in N /\ N \ {n + 1} = 1..n
  <2>1. IsFiniteSet(1..(n + 1)) /\ IsFiniteSet(1..n)
    BY <1>1, FS_Interval
  <2> HIDE DEF n
  <2> QED
    BY <1>1, <2>1
<1>6. f[n + 1] = e.size /\ \A k \in 1..n : f[k] = h[k]
  BY <1>1, <1>2, <1>3, <1>4, <1>5
<1>7. e.size \in Nat
  BY PairAssumption DEF Pending
<1>8. Queued(r) = SumFunctionOnSet(f, N) /\ Queued(q) = SumFunctionOnSet(h, 1..n)
  BY <1>1 DEF Queued
<1>9. Queued(q) \in Nat
  BY QueuedNat
<1> HIDE DEF f, h, N, r, n
<1>10. SumFunctionOnSet(f, N) = f[n + 1] + SumFunctionOnSet(f, N \ {n + 1})
  BY <1>3, <1>5, SumTakes
<1>11. SumFunctionOnSet(f, 1..n) = SumFunctionOnSet(h, 1..n)
  BY <1>5, <1>6, SumAgrees
<1>12. Queued(r) = e.size + Queued(q)
  BY <1>5, <1>6, <1>8, <1>10, <1>11
<1> QED
  BY <1>7, <1>9, <1>12 DEF r

LEMMA QueuedTail ==
  ASSUME NEW q \in Seq(Pending), q # <<>>
  PROVE  Queued(q) = Head(q).size + Queued(Tail(q))
<1> DEFINE n == Len(q) - 1
           r == Tail(q)
           f == [k \in 1..Len(q) |-> q[k].size]
           h == [k \in 1..Len(r) |-> r[k].size]
<1>1. n \in Nat /\ Len(q) = n + 1 /\ Len(r) = n /\ r \in Seq(Pending)
  <2>1. Len(q) \in Nat /\ Len(q) # 0
    OBVIOUS
  <2> QED
    BY <2>1, HeadTailProperties
<1>2. Head(q) = q[1] /\ \A k \in 1..n : r[k] = q[k + 1]
  <2>1. \A k \in 1..Len(r) : r[k] = q[k + 1]
    BY HeadTailProperties
  <2> QED
    BY <1>1, <2>1
<1>3. \A k \in 1..(n + 1) : f[k] \in Int /\ f[k] = q[k].size
  <2>1. \A k \in 1..Len(q) : q[k].size \in Nat
    BY QueuedSizes
  <2> QED
    BY <1>1, <2>1
<1>4. \A k \in 1..n : h[k] = r[k].size
  BY <1>1
<1>5. \A k \in 1..n : k + 1 \in 1..(n + 1)
  BY <1>1
<1>6. 1 \in 1..(n + 1)
  BY <1>1
<1>7. Queued(q) = SumFunctionOnSet(f, 1..(n + 1)) /\ Queued(r) = SumFunctionOnSet(h, 1..n)
  BY <1>1 DEF Queued
<1> HIDE DEF f, h, n, r
<1>8. f[1] = Head(q).size /\ \A k \in 1..n : h[k] = f[k + 1]
  BY <1>2, <1>3, <1>4, <1>5, <1>6
<1>9. SumFunctionOnSet(f, 1..(n + 1)) = f[1] + SumFunctionOnSet(h, 1..n)
  BY <1>1, <1>3, <1>8, SumShifts
<1> QED
  BY <1>7, <1>8, <1>9 DEF r

Owed(a) == Worth(orders, a) + Queued(pending[a])

(* Only an order that opens asks for a close when it is done.              *)
ClosesPlain ==
  /\ \A i \in Live : orders[i].op = "close" => orders[i].done # "send_close"
  /\ \A a \in Accounts : \A k \in 1..Len(pending[a]) : pending[a][k].done # "send_close"

CoverInv ==
  /\ ClosesPlain
  /\ Owner.type = "CASE_4" => Owed(Owner.cur) <= pos[Owner.cur]

LEMMA OwnerTrades ==
  ASSUME TypesInv, Owner.type = "CASE_4"
  PROVE  /\ Owner.cur \in Accounts /\ pos[Owner.cur] \in Nat /\ pending[Owner.cur] \in Seq(Pending)
         /\ orders \in OrderBooks
         /\ Worth(orders, Owner.cur) \in Nat /\ Queued(pending[Owner.cur]) \in Nat
<1>1. Owner \in GoodCase
  BY DEF TypesInv, Owner
<1>2. Owner.cur \in Accounts
  BY <1>1 DEF GoodCase, Specials
<1>3. orders \in OrderBooks
  BY DEF TypesInv, OrderBooks
<1>4. pos[Owner.cur] \in Nat /\ pending[Owner.cur] \in Seq(Pending)
  BY <1>2 DEF TypesInv
<1> QED
  BY <1>2, <1>3, <1>4, WorthNat, QueuedNat

LEMMA SlotOrders ==
  ASSUME TypesInv
  PROVE  /\ orders \in OrderBooks
         /\ \A i \in Live : orders[i] # NoOrder /\ orders[i] \in GoodOrder /\ i \in Slots
         /\ \A i \in Slots \ Live : orders[i] = NoOrder
         /\ \A a : Weight(NoOrder, a) = 0
BY DEF TypesInv, OrderBooks, Live, Weight

(* A step that moves no position and makes nothing heavier.                *)
LEMMA CoverLess ==
  ASSUME TypesInv, TypesInv', CoverInv, ClosesPlain', pos' = pos,
         Owner'.type = Owner.type,
         Owner.type = "CASE_4" =>
           /\ Owner'.cur = Owner.cur
           /\ \A i \in Slots : Weight(orders'[i], Owner.cur) <= Weight(orders[i], Owner.cur)
           /\ Queued(pending'[Owner.cur]) <= Queued(pending[Owner.cur])
  PROVE  CoverInv'
<1> SUFFICES ASSUME Owner.type = "CASE_4"
             PROVE  Owed(Owner.cur)' <= pos'[Owner.cur]
  BY DEF CoverInv
<1> DEFINE a == Owner.cur
<1>1. /\ orders \in OrderBooks /\ pos[a] \in Nat /\ a \in Accounts
      /\ Worth(orders, a) \in Nat /\ Queued(pending[a]) \in Nat
  BY OwnerTrades
<1>2. orders' \in OrderBooks /\ Queued(pending'[a]) \in Nat
  BY <1>1, QueuedNat DEF TypesInv, OrderBooks
<1>3. Worth(orders', a) <= Worth(orders, a)
  BY <1>1, <1>2, WorthBelow
<1>4. Worth(orders', a) \in Nat
  BY <1>2, WorthNat
<1>5. Worth(orders, a) + Queued(pending[a]) <= pos[a]
  BY DEF CoverInv, Owed
<1>6. Owed(Owner.cur)' = Worth(orders', a) + Queued(pending'[a])
  BY DEF Owed
<1>7. Queued(pending'[a]) <= Queued(pending[a])
  OBVIOUS
<1> HIDE DEF a
<1> QED
  BY <1>1, <1>2, <1>3, <1>4, <1>5, <1>6, <1>7 DEF a

(* Steps that leave the orders and the queues alone.                       *)
LEMMA CoverSame ==
  ASSUME TypesInv, TypesInv', CoverInv, UNCHANGED <<pos, orders, pending>>,
         Owner'.type = Owner.type, Owner.type = "CASE_4" => Owner'.cur = Owner.cur
  PROVE  CoverInv'
<1>1. ClosesPlain'
  BY DEF CoverInv, ClosesPlain, Live
<1>2. ASSUME Owner.type = "CASE_4"
      PROVE  /\ \A i \in Slots : Weight(orders[i], Owner.cur) \in Nat
             /\ Queued(pending[Owner.cur]) \in Nat
  BY <1>2, OwnerTrades, WeightNat DEF OrderBooks
<1>3. ASSUME Owner.type = "CASE_4"
      PROVE  /\ \A i \in Slots : Weight(orders'[i], Owner.cur) <= Weight(orders[i], Owner.cur)
             /\ Queued(pending'[Owner.cur]) <= Queued(pending[Owner.cur])
  BY <1>2, <1>3
<1> QED
  BY <1>1, <1>3, CoverLess

LEMMA CoverCancels ==
  ASSUME InstanceInv, InstanceInv', CoverInv, NEW th \in {"trader"} \cup Consoles, CancelEffect(th)
  PROVE  CoverInv'
<1>0. TypesInv /\ TypesInv'
  BY DEF InstanceInv
<1>1. /\ UNCHANGED <<pos, tcase, dying>> /\ Live' \subseteq Live
      /\ \A i \in Live' : orders'[i] = orders[i]
  BY DEF CancelEffect
<1>2. \A a \in Accounts : pending'[a] = pending[a] \/ pending'[a] = <<>>
  BY DEF CancelEffect
<1>3. Owner' = Owner
  BY <1>1 DEF Owner
<1>4. ClosesPlain'
  <2>1. \A i \in Live' : orders'[i].op = "close" => orders'[i].done # "send_close"
    BY <1>1 DEF CoverInv, ClosesPlain
  <2>2. ASSUME NEW a \in Accounts, NEW k \in 1..Len(pending'[a])
        PROVE  pending'[a][k].done # "send_close"
    <3>1. pending'[a] # <<>>
      BY <2>2
    <3> QED
      BY <1>2, <2>2, <3>1 DEF CoverInv, ClosesPlain
  <2> QED
    BY <2>1, <2>2 DEF ClosesPlain
<1>5. ASSUME Owner.type = "CASE_4"
      PROVE  /\ \A i \in Slots : Weight(orders'[i], Owner.cur) <= Weight(orders[i], Owner.cur)
             /\ Queued(pending'[Owner.cur]) <= Queued(pending[Owner.cur])
  <2>1. /\ \A i \in Slots : Weight(orders[i], Owner.cur) \in Nat
        /\ Queued(pending[Owner.cur]) \in Nat /\ Owner.cur \in Accounts
    BY <1>0, <1>5, OwnerTrades, WeightNat DEF OrderBooks
  <2>2. \A i \in Slots : orders'[i] = orders[i] \/ orders'[i] = NoOrder
    BY <1>1 DEF Live
  <2>3. Weight(NoOrder, Owner.cur) = 0
    BY DEF Weight
  <2>4. \A i \in Slots : Weight(orders'[i], Owner.cur) <= Weight(orders[i], Owner.cur)
    <3> SUFFICES ASSUME NEW i \in Slots
                 PROVE  Weight(orders'[i], Owner.cur) <= Weight(orders[i], Owner.cur)
      OBVIOUS
    <3>1. CASE orders'[i] = orders[i]
      BY <2>1, <3>1
    <3>2. CASE orders'[i] = NoOrder
      BY <2>1, <2>3, <3>2
    <3> QED
      BY <2>2, <3>1, <3>2
  <2>5. Queued(pending'[Owner.cur]) <= Queued(pending[Owner.cur])
    <3>1. CASE pending'[Owner.cur] = pending[Owner.cur]
      BY <2>1, <3>1
    <3>2. CASE pending'[Owner.cur] = <<>>
      BY <2>1, <3>2, QueuedEmpty
    <3> QED
      BY <1>2, <2>1, <3>1, <3>2
  <2> QED
    BY <2>4, <2>5
<1> QED
  BY <1>0, <1>1, <1>3, <1>4, <1>5, CoverLess

(* An order that is sent: one that opens weighs nothing yet.               *)
Heard(a, op, size, done, id) == Sent(a, op, size, done, id, TRUE)

LEMMA SentWeighs ==
  ASSUME TypesInv, TypesInv', NEW a \in Accounts, NEW op \in {"open", "close"}, NEW size, NEW done,
         NEW id, Heard(a, op, size, done, id)
  PROVE  /\ id \in Slots /\ \A j \in Slots \ {id} : orders'[j] = orders[j]
         /\ \A x : Weight(orders[id], x) = 0
         /\ Weight(orders'[id], a) = IF op = "close" THEN size ELSE 0
<1>1. id \in Slots /\ id \notin Live /\ Live' = Live \cup {id} /\ size \in Nat
  BY PairAssumption DEF Heard, Sent
<1>2. \A j \in Slots \ {id} : orders'[j] = orders[j]
  BY <1>1 DEF Heard, Sent, Live
<1>3. orders[id] = NoOrder /\ orders'[id] # NoOrder
  BY <1>1 DEF Live
<1>4. /\ orders'[id].acct = a /\ orders'[id].op = op /\ orders'[id].size = size
      /\ orders'[id].left = size
  BY DEF Heard, Sent
<1>5. Weight(orders'[id], a) = IF op = "close" THEN size ELSE 0
  BY <1>1, <1>3, <1>4 DEF Weight
<1> QED
  BY <1>1, <1>2, <1>3, <1>5 DEF Weight

LEMMA CoverSends ==
  ASSUME InstanceInv, InstanceInv', Known, CoverInv, ~misled, ~misled', SendOrder
  PROVE  CoverInv'
<1> DEFINE s == The("trader")
<1>0. TypesInv /\ TypesInv' /\ tcase \in GoodCase
  BY DEF InstanceInv, TypesInv
<1>1. /\ HeadRun /\ s \in GoodStep /\ tcase.type # "NONE" /\ dying = NoCase
  BY SendOrderStep DEF HeadRun
<1>2. PICK id \in {0} \cup Slots :
        /\ tcase' = AnsweredNew(tcase, s, id)
        /\ Sent(s.acct, s.do, s.size, s.done, id, TRUE) \/ orders' = orders
  BY <1>0, SendOrderStep, KnownSent
<1>3. /\ UNCHANGED <<pos, pending, dying>> /\ s.do \in {"open", "close"}
  BY DEF SendOrder, AtHead, The
<1>4. SameKind(tcase, tcase')
  BY <1>0, <1>1, <1>2, AnsweredNewFacts
<1>5. Owner = tcase /\ Owner' = tcase' /\ tcase'.type = tcase.type /\ tcase'.cur = tcase.cur
  BY <1>1, <1>3, <1>4 DEF Owner, SameKind
<1>6. /\ s.do = "close" => s.done # "send_close"
      /\ tcase.type = "CASE_4" => s.do = "open" /\ s.acct = tcase.cur
  <2>1. CASE tcase.type = "CASE_4"
    <3>1. s \in Case4Steps(tcase)
      BY <1>0, <1>1, <2>1, RunHead DEF The
    <3> QED
      BY <1>3, <2>1, <3>1 DEF Case4Steps
  <2>2. CASE tcase.type # "CASE_4"
    <3>1. s \in MainSteps(tcase)
      BY <1>0, <1>1, <2>2, RunHead DEF The
    <3> QED
      BY <1>3, <2>2, <3>1 DEF MainSteps
  <2> QED
    BY <2>1, <2>2
<1>7. s.acct \in Accounts
  BY <1>1, <1>3 DEF GoodStep
<1>8. CASE orders' = orders
  BY <1>0, <1>3, <1>5, <1>8, CoverSame
<1>9. CASE Sent(s.acct, s.do, s.size, s.done, id, TRUE)
  <2> HIDE DEF s
  <2>1. /\ id \in Slots /\ \A j \in Slots \ {id} : orders'[j] = orders[j]
        /\ \A x : Weight(orders[id], x) = 0
        /\ s.do = "open" => Weight(orders'[id], s.acct) = 0
    <3>1. Heard(s.acct, s.do, s.size, s.done, id)
      BY <1>9 DEF Heard
    <3> QED
      BY <1>0, <1>3, <1>7, <3>1, SentWeighs, SMTT(60)
  <2>2. ClosesPlain'
    <3>1. /\ Live' = Live \cup {id} /\ \A i \in Live : orders'[i] = orders[i]
          /\ orders'[id].op = s.do /\ orders'[id].done = s.done
      BY <1>9 DEF Sent
    <3> QED
      BY <1>3, <1>6, <3>1 DEF CoverInv, ClosesPlain
  <2>3. ASSUME tcase.type = "CASE_4"
        PROVE  /\ \A i \in Slots : Weight(orders'[i], tcase.cur) <= Weight(orders[i], tcase.cur)
               /\ Queued(pending'[tcase.cur]) <= Queued(pending[tcase.cur])
    <3>1. /\ \A i \in Slots : Weight(orders[i], tcase.cur) \in Nat
          /\ Queued(pending[tcase.cur]) \in Nat
      BY <1>0, <1>5, <2>3, OwnerTrades, WeightNat DEF OrderBooks
    <3>2. Weight(orders'[id], tcase.cur) = 0 /\ Weight(orders[id], tcase.cur) = 0
      BY <1>6, <2>1, <2>3
    <3>3. \A i \in Slots : i # id => orders'[i] = orders[i]
      BY <2>1
    <3> QED
      BY <1>3, <3>1, <3>2, <3>3
  <2> QED
    BY <1>0, <1>3, <1>5, <2>2, <2>3, CoverLess
<1> QED
  BY <1>2, <1>8, <1>9

(* Case 4 changes the price of an order, and the replacement counts what   *)
(* was filled.                                                             *)
LEMMA CoverChanges ==
  ASSUME ReplaceWorks, InstanceInv, InstanceInv', CoverInv, ~misled', ChangeOrder
  PROVE  CoverInv'
<1> DEFINE s == The("trader")
<1>0. TypesInv /\ TypesInv' /\ tcase \in GoodCase
  BY DEF InstanceInv, TypesInv
<1>1. /\ HeadRun /\ s \in GoodStep /\ tcase.type # "NONE" /\ dying = NoCase
  BY ChangeOrderStep DEF HeadRun
<1>2. PICK answer \in {"gone", "same", "new"} :
        /\ tcase' = AnsweredChange(tcase, s, answer)
        /\ orders' = orders \/ Changed(s.id, s.size, TRUE)
  BY ChangeOrderStep
<1>3. UNCHANGED <<pos, pending, dying>> /\ s.do = "change"
  BY DEF ChangeOrder, AtHead, The
<1>4. SameKind(tcase, tcase')
  BY <1>0, <1>1, <1>2, AnsweredChangeFacts
<1>5. Owner = tcase /\ Owner' = tcase' /\ tcase'.type = tcase.type /\ tcase'.cur = tcase.cur
  BY <1>1, <1>3, <1>4 DEF Owner, SameKind
<1>6. CASE orders' = orders
  BY <1>0, <1>3, <1>5, <1>6, CoverSame
<1>7. CASE Changed(s.id, s.size, TRUE)
  <2> DEFINE id == s.id
  <2>1. /\ id \in Live /\ Live' = Live /\ \A i \in Live \ {id} : orders'[i] = orders[i]
        /\ orders'[id].acct = orders[id].acct /\ orders'[id].op = orders[id].op
        /\ orders'[id].done = orders[id].done
    BY <1>7 DEF Changed
  <2>2. ClosesPlain'
    BY <1>3, <2>1 DEF CoverInv, ClosesPlain
  <2>3. ASSUME tcase.type = "CASE_4"
        PROVE  /\ \A i \in Slots : Weight(orders'[i], tcase.cur) <= Weight(orders[i], tcase.cur)
               /\ Queued(pending'[tcase.cur]) <= Queued(pending[tcase.cur])
    <3>1. /\ \A i \in Slots : Weight(orders[i], tcase.cur) \in Nat
          /\ Queued(pending[tcase.cur]) \in Nat
      BY <1>0, <1>5, <2>3, OwnerTrades, WeightNat DEF OrderBooks
    <3>2. s \in Case4Steps(tcase)
      BY <1>0, <1>1, <2>3, RunHead DEF The
    <3>3. s.size = 0 /\ s.size \in Nat
      BY <1>3, <3>2 DEF Case4Steps
    <3>4. orders'[id].left = orders[id].left /\ orders'[id].size = orders[id].size
      BY <1>0, <1>7, <2>1, <3>3, ReplacedLeft DEF Changed
    <3>5. orders[id] # NoOrder /\ orders'[id] # NoOrder
      BY <2>1 DEF Live
    <3>6. Weight(orders'[id], tcase.cur) = Weight(orders[id], tcase.cur)
      BY <2>1, <3>4, <3>5 DEF Weight
    <3>7. \A i \in Slots : i # id => orders'[i] = orders[i]
      BY <2>1 DEF Live
    <3> HIDE DEF id
    <3>8. \A i \in Slots : Weight(orders'[i], tcase.cur) <= Weight(orders[i], tcase.cur)
      <4> SUFFICES ASSUME NEW i \in Slots
                   PROVE  Weight(orders'[i], tcase.cur) <= Weight(orders[i], tcase.cur)
        OBVIOUS
      <4>1. Weight(orders'[i], tcase.cur) = Weight(orders[i], tcase.cur)
        BY <3>6, <3>7
      <4> QED
        BY <3>1, <4>1
    <3> QED
      BY <1>3, <3>1, <3>8
  <2> QED
    BY <1>0, <1>3, <1>5, <2>2, <2>3, CoverLess
<1> QED
  BY <1>2, <1>6, <1>7

(* A close that leaves the queue for the market weighs the same there.     *)
LEMMA CoverPending ==
  ASSUME InstanceInv, InstanceInv', CoverInv, ~misled', SendPending
  PROVE  CoverInv'
<1>0. TypesInv /\ TypesInv'
  BY DEF InstanceInv
<1>1. HeadRun /\ dying = NoCase /\ tcase.type = "CASE_4"
  BY SendPendingStep DEF HeadRun
<1>2. UNCHANGED <<pos, tcase, dying>>
  BY DEF SendPending
<1>3. Owner = tcase /\ Owner' = tcase
  BY <1>1, <1>2 DEF Owner
<1> DEFINE a == tcase.cur
           q == pending[a]
<1>4. CASE orders' = orders /\ pending' = pending
  BY <1>0, <1>2, <1>3, <1>4, CoverSame
<1>5. ASSUME NEW id \in Slots, q # <<>>, Head(q) \in Pending,
             Sent(a, "close", Head(q).size, Head(q).done, id, TRUE),
             pending' = [pending EXCEPT ![a] = Tail(@)]
      PROVE  CoverInv'
  <2>1. /\ a \in Accounts /\ pos[a] \in Nat /\ q \in Seq(Pending) /\ orders \in OrderBooks
        /\ Worth(orders, a) \in Nat /\ Queued(q) \in Nat
    BY <1>0, <1>1, <1>3, OwnerTrades
  <2>2. pending'[a] = Tail(q) /\ \A b \in Accounts \ {a} : pending'[b] = pending[b]
    BY <1>0, <1>5, <2>1 DEF TypesInv
  <2>3. Tail(q) \in Seq(Pending) /\ Queued(Tail(q)) \in Nat /\ orders' \in OrderBooks
    BY <1>0, <1>5, <2>1, QueuedNat DEF TypesInv, OrderBooks
  <2>4. Queued(q) = Head(q).size + Queued(Tail(q)) /\ Head(q).size \in Nat
    BY <1>5, <2>1, QueuedTail, QueuedSizes
  <2>5. ClosesPlain'
    <3>1. \A k \in 1..Len(q) : q[k].done # "send_close"
      BY <2>1 DEF CoverInv, ClosesPlain
    <3> HIDE DEF q
    <3>2. Len(q) \in Nat /\ Len(q) # 0 /\ Head(q) = q[1]
      BY <1>5, <2>1
    <3>3. Len(Tail(q)) = Len(q) - 1 /\ \A k \in 1..Len(Tail(q)) : Tail(q)[k] = q[k + 1]
      BY <1>5, <2>1, <3>2, HeadTailProperties
    <3>4. Head(q).done # "send_close"
      BY <3>1, <3>2
    <3>5. \A k \in 1..Len(Tail(q)) : Tail(q)[k].done # "send_close"
      <4>1. \A k \in 1..Len(Tail(q)) : k + 1 \in 1..Len(q)
        BY <3>2, <3>3
      <4> QED
        BY <3>1, <3>3, <4>1
    <3>6. \A i \in Live' : orders'[i].op = "close" => orders'[i].done # "send_close"
      <4>1. /\ Live' = Live \cup {id} /\ \A i \in Live : orders'[i] = orders[i]
            /\ orders'[id].done = Head(q).done
        BY <1>5 DEF Sent
      <4> QED
        BY <3>4, <4>1 DEF CoverInv, ClosesPlain
    <3>7. \A b \in Accounts : \A k \in 1..Len(pending'[b]) : pending'[b][k].done # "send_close"
      <4> SUFFICES ASSUME NEW b \in Accounts, NEW k \in 1..Len(pending'[b])
                   PROVE  pending'[b][k].done # "send_close"
        OBVIOUS
      <4>1. CASE b = a
        BY <2>2, <3>5, <4>1
      <4>2. CASE b # a
        BY <2>2, <4>2 DEF CoverInv, ClosesPlain
      <4> QED
        BY <4>1, <4>2
    <3> QED
      BY <3>6, <3>7 DEF ClosesPlain
  <2>6. Worth(orders', a) = Worth(orders, a) + Head(q).size
    <3> HIDE DEF q, a
    <3>1. /\ \A j \in Slots \ {id} : orders'[j] = orders[j]
          /\ Weight(orders[id], a) = 0 /\ Weight(orders'[id], a) = Head(q).size
      <4>1. ASSUME NEW size, NEW done, Sent(a, "close", size, done, id, TRUE)
            PROVE  /\ \A j \in Slots \ {id} : orders'[j] = orders[j]
                   /\ Weight(orders[id], a) = 0 /\ Weight(orders'[id], a) = size
        <5>1. "close" \in {"open", "close"} /\ Heard(a, "close", size, done, id)
          BY <4>1 DEF Heard
        <5> QED
          BY <1>0, <2>1, <5>1, SentWeighs, SMTT(30)
      <4> QED
        BY <1>5, <4>1
    <3>2. \A j \in Slots \ {id} : Weight(orders'[j], a) = Weight(orders[j], a)
      BY <3>1
    <3>3. Worth(orders', a) = Worth(orders, a) - Weight(orders[id], a) + Weight(orders'[id], a)
      BY <2>1, <2>3, <3>2, WorthMoves
    <3> QED
      BY <2>1, <2>4, <3>1, <3>3
  <2>7. Worth(orders, a) + Queued(q) <= pos[a]
    BY <1>1, <1>3 DEF CoverInv, Owed
  <2>8. Owed(Owner.cur)' = Worth(orders', a) + Queued(Tail(q)) /\ pos'[Owner'.cur] = pos[a]
    BY <1>2, <1>3, <2>2 DEF Owed
  <2> HIDE DEF q, a
  <2>9. Worth(orders', a) + Queued(Tail(q)) <= pos[a]
    BY <2>1, <2>3, <2>4, <2>6, <2>7
  <2> QED
    BY <2>5, <2>8, <2>9 DEF CoverInv
<1> QED
  BY <1>4, <1>5, SendPendingStep

(* A fill moves the position by what it moves the weight of its order.     *)
LEMMA CoverFill ==
  ASSUME InstanceInv, InstanceInv', CallbackInv, CoverInv,
         NEW i \in Slots, Fills(i)
  PROVE  CoverInv'
<1>0. TypesInv /\ TypesInv' /\ PairGood
  BY TypesParts DEF InstanceInv
<1> PICK n \in Nat : Filled(i, n)
  BY FillsStep
<1>1. Filled(i, n) /\ pending' = pending /\ UNCHANGED instanceVars
  BY FillsStep
<1>2. i \in Working /\ i \in Live
  BY <1>0, <1>1, FilledFewer DEF Working
<1>3. Owner' = Owner
  BY <1>1 DEF instanceVars, Owner
<1>4. /\ orders[i].left \in Int /\ orders[i].size \in Int /\ n \in Int /\ n >= 1 /\ n <= orders[i].left
      /\ orders[i].left <= orders[i].size /\ orders[i].acct \in Accounts
      /\ orders[i].op \in {"open", "close"}
  BY <1>0, <1>1, <1>2, LiveOrders DEF Filled
<1>5. ClosesPlain'
  <2>1. \A j \in Live' : j \in Live /\ orders'[j].op = orders[j].op /\ orders'[j].done = orders[j].done
    BY <1>1 DEF Filled
  <2> QED
    BY <1>1, <2>1 DEF CoverInv, ClosesPlain
<1>6. ASSUME Owner.type = "CASE_4"
      PROVE  Owed(Owner.cur)' <= pos'[Owner.cur]
  <2> DEFINE a == Owner.cur
             v == Weight(orders[i], a)
             w == Weight(orders'[i], a)
  <2>1. /\ a \in Accounts /\ pos[a] \in Nat /\ orders \in OrderBooks /\ orders' \in OrderBooks
        /\ Worth(orders, a) \in Nat /\ Queued(pending[a]) \in Nat
    BY <1>0, <1>6, OwnerTrades DEF TypesInv, OrderBooks
  <2>2. orders[i].acct = a
    BY <1>2, <1>6 DEF CallbackInv, OwnAccount
  <2>3. \A j \in Slots \ {i} : orders'[j] = orders[j]
    <3>1. \A j \in Slots \ {i} : j \in Live' <=> j \in Live
      BY <1>1 DEF Filled
    <3> QED
      BY <1>1, <3>1 DEF Filled, Live
  <2>4. Worth(orders', a) = Worth(orders, a) - v + w
    <3>1. \A j \in Slots \ {i} : Weight(orders'[j], a) = Weight(orders[j], a)
      BY <2>3
    <3> QED
      BY <2>1, <3>1, WorthMoves
  <2>5. v \in Nat /\ w \in Nat
    BY <2>1, WeightNat DEF OrderBooks
  <2>6. orders[i] # NoOrder
    BY <1>2 DEF Live
  <2>7. pos'[a] = IF orders[i].op = "open" THEN pos[a] + n ELSE pos[a] - n
    BY <1>0, <1>1, <2>1, <2>2 DEF Filled, TypesInv
  <2>8. Worth(orders, a) + Queued(pending[a]) <= pos[a]
    BY <1>6 DEF CoverInv, Owed
  <2>9. Owed(Owner.cur)' = Worth(orders', a) + Queued(pending[a])
    BY <1>1, <1>3 DEF Owed
  <2>10. \/ w = v - n /\ pos'[a] = pos[a] - n
         \/ w <= v + n /\ pos'[a] = pos[a] + n
    <3>1. /\ orders'[i] # NoOrder
          /\ orders'[i].acct = orders[i].acct /\ orders'[i].op = orders[i].op
          /\ orders'[i].done = orders[i].done /\ orders'[i].size = orders[i].size
          /\ orders'[i].left = orders[i].left - n
      BY <1>1 DEF Filled, Live
    <3>2. CASE orders[i].op = "close"
      <4>1. v = orders[i].left /\ w = orders[i].left - n
        BY <2>2, <2>6, <3>1, <3>2 DEF Weight
      <4> QED
        BY <2>7, <3>2, <4>1
    <3>3. CASE orders[i].op = "open" /\ orders[i].done = "send_close"
      <4>1. v = orders[i].size - orders[i].left /\ w = orders[i].size - (orders[i].left - n)
        BY <2>2, <2>6, <3>1, <3>3 DEF Weight
      <4>2. w = v + n
        BY <1>4, <4>1
      <4> QED
        BY <1>4, <2>5, <2>7, <3>3, <4>2
    <3>4. CASE orders[i].op = "open" /\ orders[i].done # "send_close"
      <4>1. v = 0 /\ w = 0
        BY <2>2, <2>6, <3>1, <3>4 DEF Weight
      <4> QED
        BY <1>4, <2>7, <3>4, <4>1
    <3> QED
      BY <1>4, <3>2, <3>3, <3>4
  <2> HIDE DEF a, v, w
  <2>11. Worth(orders', a) + Queued(pending[a]) <= pos'[a]
    BY <1>4, <2>1, <2>4, <2>5, <2>8, <2>10
  <2> QED
    BY <2>9, <2>11 DEF a
<1> QED
  BY <1>3, <1>5, <1>6 DEF CoverInv

LEMMA WorthZero ==
  ASSUME NEW b \in OrderBooks, NEW a, \A i \in Slots : Weight(b[i], a) = 0
  PROVE  Worth(b, a) = 0
<1> DEFINE f == [i \in Slots |-> Weight(b[i], a)]
<1>1. \A i \in Slots : f[i] = 0
  OBVIOUS
<1>2. SumFunctionOnSet(f, Slots) = 0
  <2> HIDE DEF f
  <2> QED
    BY <1>1, SlotsFinite, SumZero
<1> QED
  BY <1>2 DEF Worth

(* A case 4 that begins has nothing to close.                              *)
LEMMA CoverNone ==
  ASSUME TypesInv', ClosesPlain',
         Owner'.type = "CASE_4" => /\ \A i \in Slots : Weight(orders'[i], Owner'.cur) = 0
                                   /\ pending'[Owner'.cur] = <<>>
  PROVE  CoverInv'
<1> SUFFICES ASSUME Owner'.type = "CASE_4"  PROVE Owed(Owner.cur)' <= pos'[Owner'.cur]
  BY DEF CoverInv
<1>1. Owner' \in GoodCase
  BY DEF TypesInv, Owner
<1>2. Owner'.cur \in Accounts
  BY <1>1 DEF GoodCase, Specials
<1>3. pos'[Owner'.cur] \in Nat /\ orders' \in OrderBooks
  BY <1>2 DEF TypesInv, OrderBooks
<1>4. Worth(orders', Owner'.cur) = 0
  BY <1>3, WorthZero
<1>5. Queued(pending'[Owner'.cur]) = 0
  BY QueuedEmpty
<1>6. Owed(Owner.cur)' = Worth(orders', Owner'.cur) + Queued(pending'[Owner'.cur])
  BY DEF Owed
<1> QED
  BY <1>3, <1>4, <1>5, <1>6

LEMMA NoneWeighs ==
  ASSUME TypesInv, Working = {}, NEW a,
         \A i \in Live : orders[i].op = "open" => orders[i].done # "send_close"
  PROVE  \A i \in Slots : Weight(orders[i], a) = 0
<1> SUFFICES ASSUME NEW i \in Slots  PROVE Weight(orders[i], a) = 0
  OBVIOUS
<1>1. CASE orders[i] = NoOrder
  BY <1>1 DEF Weight
<1>2. CASE orders[i] # NoOrder
  <2>1. i \in Live
    BY <1>2 DEF Live
  <2>2. orders[i].left \in Nat /\ orders[i].op \in {"open", "close"}
    BY <2>1, LiveOrders, TypesParts
  <2>3. orders[i].left = 0
    BY <2>1, <2>2 DEF Working
  <2> QED
    BY <1>2, <2>1, <2>2, <2>3 DEF Weight
<1> QED
  BY <1>1, <1>2

(* A case is buried when its orders are cancelled; what it queued is not   *)
(* for the account of a case 4 that comes after it.                        *)
LEMMA CoverBury ==
  ASSUME InstanceInv, InstanceInv', ClearInv, CallbackInv, CoverInv, Bury
  PROVE  CoverInv'
<1>0. TypesInv /\ TypesInv' /\ AtRite(1) /\ Working = {}
  BY ClearBury DEF InstanceInv
<1>1. UNCHANGED <<pos, tcase>> /\ dying' = NoCase /\ Owner' = tcase
  BY DEF Bury, Owner
<1>2. \A i \in Live : orders'[i].done \in {"none", "dangling"}
  BY BuryStep
<1>3. ClosesPlain'
  <2>1. Live' = Live
    BY BuryStep
  <2>2. ASSUME NEW a \in Accounts, NEW k \in 1..Len(pending'[a])
        PROVE  pending'[a][k].done \in {"none", "dangling"}
    <3>1. pending[a] \in Seq(Pending) /\ Len(pending'[a]) = Len(pending[a])
      BY <1>0, BuryStep DEF TypesInv
    <3>2. k \in DOMAIN pending[a] /\ pending[a][k] \in Pending
      BY <2>2, <3>1
    <3>3. pending'[a][k] = [pending[a][k] EXCEPT !.done = IF @ = "none" THEN @ ELSE "dangling"]
      BY <3>2 DEF Bury
    <3> QED
      BY <3>2, <3>3 DEF Pending
  <2> QED
    BY <1>2, <2>1, <2>2 DEF ClosesPlain
<1>4. \A i \in Slots : Weight(orders'[i], tcase.cur) = 0
  <2>1. Working' = {}
    BY ClearBury
  <2>2. \A i \in Live' : orders'[i].op = "open" => orders'[i].done # "send_close"
    BY <1>2, BuryStep
  <2> SUFFICES ASSUME NEW i \in Slots  PROVE Weight(orders'[i], tcase.cur) = 0
    OBVIOUS
  <2>3. CASE i \notin Live
    <3>1. orders'[i] = NoOrder
      BY <2>3 DEF Bury
    <3> QED
      BY <3>1 DEF Weight
  <2>4. CASE i \in Live
    <3>1. /\ orders'[i].left = orders[i].left /\ orders[i].left \in Nat
          /\ orders'[i].op \in {"open", "close"} /\ orders'[i] # NoOrder
      <4>1. orders'[i] # NoOrder
        BY <2>4, BuryStep DEF Live
      <4> QED
        BY <1>0, <2>4, <4>1, BuryStep, LiveOrders, TypesParts
    <3>2. orders[i].left = 0
      BY <1>0, <2>4, <3>1 DEF Working
    <3>3. orders'[i].done # "send_close"
      BY <1>2, <2>4
    <3> QED
      BY <3>1, <3>2, <3>3 DEF Weight
  <2> QED
    BY <2>3, <2>4
<1>5. ASSUME tcase.type = "CASE_4"  PROVE pending'[tcase.cur] = <<>>
  <2>1. tcase.cur \in Accounts
    BY <1>0, <1>5 DEF TypesInv, GoodCase, Specials
  <2>2. dying.type = "CASE_4" => dying.cur # tcase.cur
    BY <1>5 DEF CallbackInv, Case4Goes
  <2>3. 1 < LastDrop(tcase.cur) /\ 1 \in 1..5
    BY DEF LastDrop
  <2>4. pending[tcase.cur] = <<>>
    BY <1>0, <2>1, <2>2, <2>3 DEF CallbackInv, DroppedInv
  <2>5. pending'[tcase.cur] \in Seq(Pending) /\ Len(pending'[tcase.cur]) = 0
    BY <2>1, <2>4, BuryStep
  <2> QED
    BY <2>5
<1> QED
  BY <1>0, <1>1, <1>3, <1>4, <1>5, CoverNone

(* A selection: the owner stays, or begins with both positions zero, so    *)
(* that no close can have been left in a queue.                            *)
LEMMA CoverSelected ==
  ASSUME TypesInv, TypesInv', ClearInv, CallbackInv, CoverInv, dying = NoCase, UNCHANGED pairVars,
         SelectionOf \/ GoesOn \/ GivesUpOn
  PROVE  CoverInv'
<1>0. /\ Live' = Live /\ orders' = orders /\ pos' = pos /\ pending' = pending
      /\ NoCase.type = "NONE" /\ Owner = tcase
  BY SameWork, NoCaseNone DEF Owner
<1>1. CASE GoesOn
  <2>1. Owner' = Owner
    BY <1>0, <1>1 DEF GoesOn, Owner
  <2> QED
    BY <1>0, <2>1, CoverSame
<1>2. CASE Replaced /\ tcase # NoCase
  <2>1. Owner' = Owner
    BY <1>0, <1>2 DEF Replaced, Owner
  <2> QED
    BY <1>0, <2>1, CoverSame
<1>3. CASE Replaced /\ tcase = NoCase /\ tcase'.type # "CASE_4"
  <2>1. Owner' = tcase'
    BY <1>3 DEF Replaced, Owner
  <2>2. ClosesPlain'
    BY <1>0 DEF CoverInv, ClosesPlain
  <2> QED
    BY <1>3, <2>1, <2>2, CoverNone
<1>4. CASE Replaced /\ tcase = NoCase /\ tcase'.type = "CASE_4"
  <2>1. Owner' = tcase'
    BY <1>4 DEF Replaced, Owner
  <2>2. ~Lagging /\ \E e : current' \in Accounts /\ tcase' = NextCase(current', e)
    <3>1. SelectionOf
      BY <1>0, <1>4 DEF GoesOn, GivesUpOn
    <3>2. tcase'.type \notin Specials
      BY <1>4 DEF Specials
    <3>3. ASSUME prev_trigger' \in {"POSITIVE", "NEGATIVE"},
                 current' = IF prev_trigger' = "POSITIVE" THEN "long" ELSE "short"
          PROVE  current' \in Accounts
      BY <3>3 DEF Accounts
    <3>4. ~GoesOn
      BY <1>0, <1>4 DEF GoesOn
    <3> QED
      BY <3>1, <3>2, <3>3, <3>4 DEF SelectionOf
  <2>3. tcase'.cur \in Accounts /\ \A b \in Accounts : pos[b] = 0
    BY <1>4, <2>2, NextNone
  <2>4. pending[tcase'.cur] = <<>>
    BY <1>0, <1>4, <2>3, OtherAccount DEF CallbackInv, BehindNone
  <2>5. Working = {}
    BY <1>0, <1>4 DEF ClearInv
  <2>6. \A i \in Live : orders[i].done # "send_close"
    BY <1>0, <1>4 DEF CallbackInv, OpensOwned
  <2>7. \A i \in Slots : Weight(orders[i], tcase'.cur) = 0
    BY <2>5, <2>6, NoneWeighs
  <2>8. ClosesPlain'
    BY <1>0 DEF CoverInv, ClosesPlain
  <2> QED
    BY <1>0, <2>1, <2>4, <2>7, <2>8, CoverNone
<1> QED
  BY <1>1, <1>2, <1>3, <1>4 DEF SelectionOf, GivesUpOn

LEMMA CoverRunCase ==
  ASSUME InstanceInv, InstanceInv', CoverInv, RunCase
  PROVE  CoverInv'
<1>1. TypesInv /\ TypesInv' /\ dying = NoCase /\ UNCHANGED <<pairVars, dying>>
  BY RunCaseStep DEF InstanceInv, RunCase
<1>2. Owner = tcase /\ Owner' = tcase'
  BY <1>1 DEF Owner
<1>3. tcase'.type = tcase.type /\ (tcase.type = "CASE_4" => tcase'.cur = tcase.cur)
  <2>1. CASE tcase' = tcase
    BY <2>1
  <2>2. ASSUME NEW o, GoodOut(tcase, o), tcase' = o.c
        PROVE  tcase'.type = tcase.type /\ (tcase.type = "CASE_4" => tcase'.cur = tcase.cur)
    BY <2>2 DEF GoodOut, SameCase, Case4Out
  <2> QED
    BY <2>1, <2>2, RunCaseStep
<1> QED
  BY <1>1, <1>2, <1>3, CoverSame DEF pairVars

(* A DONE: what was filled of an order that opens now waits in the queue.  *)
LEMMA CoverDone ==
  ASSUME InstanceInv, InstanceInv', CallbackInv, CoverInv, NEW i \in Slots, OrderDone(i)
  PROVE  CoverInv'
<1>0. TypesInv /\ TypesInv' /\ PairGood
  BY TypesParts DEF InstanceInv
<1>1. /\ i \in Live /\ orders[i].left = 0 /\ Live' = Live \ {i}
      /\ \A j \in Live' : orders'[j] = orders[j]
      /\ SameKind(tcase, tcase') /\ pos' = pos /\ dying' = dying
  BY OrderDoneStep
<1>2. Owner'.type = Owner.type /\ Owner'.cur = Owner.cur
  BY <1>1 DEF SameKind, Owner
<1>3. orders'[i] = NoOrder /\ \A j \in Slots \ {i} : orders'[j] = orders[j]
  BY <1>1 DEF Live
<1>4. orders[i].size \in 0..SizeLimit /\ orders[i].op \in {"open", "close"}
  BY <1>0, <1>1, LiveOrders
<1>5. \A j \in Live' : orders'[j].op = "close" => orders'[j].done # "send_close"
  BY <1>1 DEF CoverInv, ClosesPlain
<1>6. CASE pending' = pending
  <2>1. ClosesPlain'
    BY <1>5, <1>6 DEF CoverInv, ClosesPlain
  <2>2. ASSUME Owner.type = "CASE_4"
        PROVE  /\ \A j \in Slots : Weight(orders'[j], Owner.cur) <= Weight(orders[j], Owner.cur)
               /\ Queued(pending'[Owner.cur]) <= Queued(pending[Owner.cur])
    <3>1. /\ \A j \in Slots : Weight(orders[j], Owner.cur) \in Nat
          /\ Queued(pending[Owner.cur]) \in Nat
      BY <1>0, <2>2, OwnerTrades, WeightNat DEF OrderBooks
    <3>2. Weight(orders'[i], Owner.cur) = 0
      BY <1>3 DEF Weight
    <3>3. \A j \in Slots : j = i \/ orders'[j] = orders[j]
      BY <1>3
    <3>4. \A j \in Slots : Weight(orders'[j], Owner.cur) <= Weight(orders[j], Owner.cur)
      <4> SUFFICES ASSUME NEW j \in Slots
                   PROVE  Weight(orders'[j], Owner.cur) <= Weight(orders[j], Owner.cur)
        OBVIOUS
      <4>1. CASE j = i
        BY <3>1, <3>2, <4>1
      <4>2. CASE orders'[j] = orders[j]
        BY <3>1, <4>2
      <4> QED
        BY <3>3, <4>1, <4>2
    <3> QED
      BY <1>6, <3>1, <3>4
  <2> QED
    BY <1>0, <1>1, <1>2, <2>1, <2>2, CoverLess
<1>7. ASSUME QueuesClose(orders[i]), Owner.type = "CASE_4",
             pending' = [pending EXCEPT ![orders[i].acct] =
                           Append(@, [size |-> orders[i].size, done |-> "requote_done"])]
      PROVE  CoverInv'
  <2> DEFINE a == Owner.cur
             p == [size |-> orders[i].size, done |-> "requote_done"]
             q == pending[a]
  <2>1. /\ a \in Accounts /\ pos[a] \in Nat /\ q \in Seq(Pending) /\ orders \in OrderBooks
        /\ Worth(orders, a) \in Nat /\ Queued(q) \in Nat
    BY <1>0, <1>7, OwnerTrades
  <2>2. orders[i].acct = a /\ orders[i].done = "send_close"
    BY <1>1, <1>7 DEF CallbackInv, OpensOwned, QueuesClose
  <2>3. orders[i].op = "open"
    BY <1>1, <1>4, <2>2 DEF CoverInv, ClosesPlain
  <2>4. pending'[a] = Append(q, p) /\ \A b \in Accounts \ {a} : pending'[b] = pending[b]
    BY <1>0, <1>7, <2>1, <2>2 DEF TypesInv
  <2>5. p \in Pending /\ p.size = orders[i].size /\ p.done # "send_close"
    BY <1>4 DEF Pending, Callbacks
  <2>6. Weight(orders[i], a) = orders[i].size - orders[i].left /\ Weight(orders'[i], a) = 0
    <3>1. orders[i] # NoOrder
      BY <1>1 DEF Live
    <3> QED
      BY <1>3, <2>2, <2>3, <3>1 DEF Weight
  <2>7. Worth(orders', a) = Worth(orders, a) - Weight(orders[i], a) + Weight(orders'[i], a)
    <3>1. \A j \in Slots \ {i} : Weight(orders'[j], a) = Weight(orders[j], a)
      BY <1>3
    <3>2. orders' \in OrderBooks
      BY <1>0 DEF TypesInv, OrderBooks
    <3> QED
      BY <2>1, <3>1, <3>2, WorthMoves
  <2>8. Queued(pending'[a]) = Queued(q) + orders[i].size
    <3> HIDE DEF p, q
    <3> QED
      BY <2>1, <2>4, <2>5, QueuedAppend
  <2>9. Worth(orders, a) + Queued(q) <= pos[a]
    BY <1>7 DEF CoverInv, Owed
  <2>10. Owed(Owner.cur)' = Worth(orders', a) + Queued(pending'[a]) /\ pos'[Owner'.cur] = pos[a]
    BY <1>1, <1>2 DEF Owed
  <2>11. orders[i].size \in Int
    BY <1>4, PairAssumption
  <2>12. ClosesPlain'
    <3> SUFFICES ASSUME NEW b \in Accounts, NEW k \in 1..Len(pending'[b])
                 PROVE  pending'[b][k].done # "send_close"
      BY <1>5 DEF ClosesPlain
    <3>1. CASE b # a
      BY <2>4, <3>1 DEF CoverInv, ClosesPlain
    <3>2. CASE b = a
      <4>1. \A j \in 1..Len(q) : q[j].done # "send_close"
        BY <2>1 DEF CoverInv, ClosesPlain
      <4>2. k \in 1..Len(Append(q, p)) /\ pending'[b][k] = Append(q, p)[k]
        BY <2>4, <3>2
      <4> HIDE DEF p, q
      <4>3. Len(q) \in Nat /\ Len(Append(q, p)) = Len(q) + 1
        BY <2>1, <2>5
      <4>4. Append(q, p)[k] = IF k = Len(q) + 1 THEN p ELSE q[k]
        BY <2>1, <2>5, <4>2, <4>3
      <4>5. k = Len(q) + 1 \/ k \in 1..Len(q)
        BY <4>2, <4>3
      <4> QED
        BY <2>5, <4>1, <4>2, <4>4, <4>5
    <3> QED
      BY <3>1, <3>2
  <2> HIDE DEF a, p, q
  <2>13. Worth(orders', a) + Queued(pending'[a]) <= pos[a]
    BY <1>1, <2>1, <2>6, <2>7, <2>8, <2>9, <2>11
  <2> QED
    BY <2>10, <2>12, <2>13 DEF CoverInv
<1> QED
  BY <1>6, <1>7, OrderDoneStep

LEMMA CoverInit == Init => CoverInv
<1> SUFFICES ASSUME Init  PROVE CoverInv
  OBVIOUS
<1>1. /\ orders = [i \in Slots |-> NoOrder] /\ pending = [a \in Accounts |-> <<>>]
      /\ tcase = NoCase /\ dying = NoCase
  BY DEF Init, PairInit
<1>2. Live = {} /\ \A a \in Accounts : Len(pending[a]) = 0
  BY <1>1 DEF Live
<1>3. Owner.type = "NONE"
  BY <1>1 DEF NoCase, NewCase, Owner
<1> QED
  BY <1>2, <1>3 DEF CoverInv, ClosesPlain

LEMMA CoverNext ==
  ASSUME InstanceInv, InstanceInv', Cancels, ReplaceWorks, Known, ClearInv, CallbackInv, CoverInv,
         ~misled, ~misled', [Next]_vars
  PROVE  CoverInv'
<1>0. TypesInv /\ TypesInv'
  BY DEF InstanceInv
<1>1. ASSUME UNCHANGED <<pairVars, tcase, dying>>  PROVE CoverInv'
  <2>1. Owner' = Owner
    BY <1>1 DEF Owner
  <2> QED
    BY <1>0, <1>1, <2>1, CoverSame DEF pairVars
<1>2. CASE UNCHANGED vars
  BY <1>1, <1>2 DEF vars, pairVars, instanceVars
<1>3. CASE Choosing
  BY <1>0, <1>3, ChoosingEffect, CoverSelected
<1>4. ASSUME Drop("trader") \/ CancelOrders("trader")  PROVE CoverInv'
  BY <1>4, CancelsEffect, CoverCancels
<1>5. CASE (\E th \in Threads : Hang(th)) \/ \E a \in Accounts : Books(a)
  <2>1. UNCHANGED <<pos, orders, pending, tcase, dying>>
    BY <1>5, HangKeeps, BooksKeeps DEF pairVars
  <2>2. Owner' = Owner
    BY <2>1 DEF Owner
  <2> QED
    BY <1>0, <2>1, <2>2, CoverSame
<1>6. CASE Crash
  BY <1>1, <1>6 DEF Crash, pairVars
<1>7. CASE Finish
  <2>1. /\ dying = NoCase /\ UNCHANGED pairVars
        /\ \/ /\ Replaced /\ tcase' = NoCase /\ tcase.state \in {"DONE", "FAILED"}
           \/ GoesOn
    BY <1>7, FinishEffect
  <2>2. Replaced /\ tcase' = NoCase /\ tcase.state \in {"DONE", "FAILED"} => GivesUpOn
    BY DEF GivesUpOn, CallbackInv, Case4Goes
  <2> QED
    BY <1>0, <2>1, <2>2, CoverSelected
<1>8. ASSUME NEW th \in Consoles, Drop(th) \/ CancelOrders(th)  PROVE CoverInv'
  BY <1>8, CancelsEffect, CoverCancels
<1>9. ASSUME NEW th \in Consoles, WriteFlag(th) \/ \E line \in Commands : Command(th, line)
      PROVE  CoverInv'
  BY <1>1, <1>9, OthersKeep
<1>10. ASSUME NEW i \in Slots, CallbackIsLost(i)  PROVE CoverInv'
  BY <1>1, <1>10 DEF CallbackIsLost, pairVars
<1>11. CASE SendRequotes
  BY <1>1, <1>11 DEF SendRequotes
<1> QED
  BY <1>2, <1>3, <1>4, <1>5, <1>6, <1>7, <1>8, <1>9, <1>10, <1>11, CoverSends, CoverChanges,
     CoverPending, CoverRunCase, CoverFill, CoverDone, CoverBury
     DEF Next, Trader, Console, Choosing

SurelyCovered == SolelyOwned /\ (~misled => CoverInv)

LEMMA CoverAlways == ReplaceWorks /\ Cancels /\ Spec => []SurelyCovered
<1>1. Init => CoverInv
  BY CoverInit
<1>2. SolelyOwned /\ SolelyOwned' /\ (~misled => CoverInv) /\ [Next]_vars => (~misled => CoverInv)'
  <2> SUFFICES ASSUME SolelyOwned, SolelyOwned', ~misled => CoverInv, [Next]_vars, ~misled'
               PROVE  CoverInv'
    OBVIOUS
  <2>1. ~misled /\ Cancels /\ InstanceInv /\ Known /\ ClearInv /\ CallbackInv
    BY OwnedNext DEF SolelyOwned
  <2>2. InstanceInv' /\ ReplaceWorks
    BY DEF SolelyOwned, ClearlyOwned
  <2> QED
    BY <2>1, <2>2, CoverNext
<1> QED
  BY <1>1, <1>2, SoloAlways, PTL DEF Spec, SurelyCovered

-----------------------------------------------------------------------------
(* How the orders that close add up.                                       *)

LEMMA LeftNone ==
  ASSUME NEW ids, ids \subseteq Slots, \A i \in ids : orders[i].left = 0
  PROVE  Left(ids) = 0
<1> DEFINE f == [i \in ids |-> orders[i].left]
<1>1. IsFiniteSet(ids)
  BY SlotsFinite, FS_Subset
<1>2. \A i \in ids : f[i] = 0
  OBVIOUS
<1>3. SumFunctionOnSet(f, ids) = 0
  <2> HIDE DEF f
  <2> QED
    BY <1>1, <1>2, SumZero
<1> QED
  BY <1>3 DEF Left

(* One order with something left, among those that close.                  *)
LEMMA LeftOne ==
  ASSUME NEW ids, ids \subseteq Slots, NEW i \in ids, \A j \in ids : orders[j].left \in Int,
         \A j \in ids \ {i} : orders[j].left = 0
  PROVE  Left(ids) = orders[i].left
<1> DEFINE f == [j \in ids |-> orders[j].left]
<1>1. IsFiniteSet(ids) /\ IsFiniteSet(ids \ {i})
  BY SlotsFinite, FS_Subset
<1>2. \A j \in ids : f[j] \in Int /\ (j # i => f[j] = 0)
  OBVIOUS
<1>3. f[i] = orders[i].left
  OBVIOUS
<1>4. SumFunctionOnSet(f, ids) = Left(ids)
  BY DEF Left
<1> HIDE DEF f
<1>5. SumFunctionOnSet(f, ids) = f[i] + SumFunctionOnSet(f, ids \ {i})
  BY <1>1, <1>2, SumTakes
<1>6. SumFunctionOnSet(f, ids \ {i}) = 0
  BY <1>1, <1>2, SumZero
<1>7. f[i] \in Int
  BY <1>2
<1> QED
  BY <1>3, <1>4, <1>5, <1>6, <1>7

(* They are part of what case 4 has to close.                              *)
LEMMA LeftWorth ==
  ASSUME TypesInv, NEW a \in Accounts
  PROVE  Left(OrdersOf(a, "close")) <= Worth(orders, a)
<1> DEFINE ids == OrdersOf(a, "close")
           f == [i \in ids |-> orders[i].left]
           h == [i \in Slots |-> IF i \in ids THEN orders[i].left ELSE 0]
           w == [i \in Slots |-> Weight(orders[i], a)]
<1>1. ids \subseteq Slots /\ IsFiniteSet(ids)
  <2>1. ids \subseteq Slots
    BY DEF OrdersOf, Live
  <2> QED
    BY <2>1, SlotsFinite, FS_Subset
<1>2. \A i \in ids : orders[i].left \in Int /\ Weight(orders[i], a) = orders[i].left
  <2> SUFFICES ASSUME NEW i \in ids
               PROVE  orders[i].left \in Int /\ Weight(orders[i], a) = orders[i].left
    OBVIOUS
  <2>1. i \in Live /\ orders[i].acct = a /\ orders[i].op = "close"
    BY DEF OrdersOf
  <2>2. orders[i] # NoOrder
    BY <2>1 DEF Live
  <2>3. orders[i].left \in Int
    BY <2>1, LiveOrders, TypesParts
  <2> QED
    BY <2>1, <2>2, <2>3 DEF Weight
<1>3. \A i \in Slots : Weight(orders[i], a) \in Nat
  BY WeightNat DEF TypesInv
<1>4. \A i \in Slots : h[i] \in Int /\ w[i] \in Int /\ h[i] <= w[i] /\ (i \notin ids => h[i] = 0)
  BY <1>2, <1>3
<1>5. \A i \in ids : f[i] = h[i]
  BY <1>1
<1>6. SumFunctionOnSet(f, ids) = Left(ids) /\ SumFunctionOnSet(w, Slots) = Worth(orders, a)
  BY DEF Left, Worth
<1> HIDE DEF f, h, w, ids
<1>7. SumFunctionOnSet(f, ids) = SumFunctionOnSet(h, ids)
  BY <1>1, <1>5, SumAgrees
<1>8. SumFunctionOnSet(h, Slots) = SumFunctionOnSet(h, ids)
  BY <1>1, <1>4, SlotsFinite, SumOfPart
<1>9. SumFunctionOnSet(h, Slots) <= SumFunctionOnSet(w, Slots)
  BY <1>4, SlotsFinite, SumBelow
<1> QED
  BY <1>6, <1>7, <1>8, <1>9 DEF ids

LEMMA LeftTyped ==
  ASSUME TypesInv, NEW a
  PROVE  Left(OrdersOf(a, "close")) \in Int
<1> DEFINE ids == OrdersOf(a, "close")
           f == [i \in ids |-> orders[i].left]
<1>1. IsFiniteSet(ids)
  <2>1. ids \subseteq Slots
    BY DEF OrdersOf, Live
  <2> QED
    BY <2>1, SlotsFinite, FS_Subset
<1>2. \A i \in ids : f[i] \in Int
  BY LiveOrders, TypesParts DEF OrdersOf
<1>3. SumFunctionOnSet(f, ids) \in Int
  <2> HIDE DEF f, ids
  <2> QED
    BY <1>1, <1>2, SumInt
<1> QED
  BY <1>3 DEF Left

LEMMA OwnerCovers ==
  ASSUME TypesInv, SoloWork, Solo(Owner), NEW i \in Working
  PROVE  /\ i = Owner.main
         /\ orders[i].op = "close" =>
              orders[i].acct \in Accounts /\ orders[i].left <= pos[orders[i].acct]
<1>1. /\ i = Owner.main /\ orders[i].acct = Side(Owner) /\ orders[i].op = SideOp(Owner)
      /\ Fits(Owner, orders[i].left)
  BY DEF SoloWork
<1>2. Owner \in GoodCase /\ Owner.type \in Types
  BY DEF TypesInv, Owner, GoodCase, Case
<1>3. i \in Live
  BY DEF Working
<1>4. orders[i].acct \in Accounts /\ orders[i].left \in Int
  BY <1>3, LiveOrders, TypesParts
<1>5. \A a \in Accounts : pos[a] \in Nat
  BY DEF TypesInv
<1>6. CASE Owner.type \in Specials
  <2>1. Owner.cur \in Accounts /\ pos[Owner.opp] - orders[i].left >= pos[Owner.cur]
    BY <1>1, <1>6 DEF Fits
  <2>2. orders[i].acct = Owner.opp
    BY <1>1, <1>6 DEF Side, Specials
  <2> QED
    BY <1>1, <1>4, <1>5, <2>1, <2>2
<1>7. CASE Owner.type = "CASE_9"
  BY <1>1, <1>4, <1>7 DEF Fits, Side, Specials
<1>8. CASE Owner.type = "CASE_10"
  BY <1>1, <1>4, <1>8 DEF Fits, Side, Specials
<1>9. CASE Owner.type = "HEDGECURRENT"
  BY <1>1, <1>9 DEF SideOp
<1> QED
  BY <1>1, <1>2, <1>6, <1>7, <1>8, <1>9 DEF Solo, Types

(* The trade cases close what they read as the position, while cancelAll,  *)
(* the callbacks of the orders (on_trade_send_close) and                   *)
(* sendPendingOrders work on the same shares: together the close orders    *)
(* at the market never ask for more than the account holds.                *)
THEOREM ClosesCovered == ReplaceWorks /\ Cancels /\ Spec => []LiveClosesCovered
<1>1. ASSUME SurelyCovered, ~misled
      PROVE  \A a \in Accounts : Left(OrdersOf(a, "close")) <= pos[a]
  <2>0. TypesInv /\ SoloWork /\ OwnAccount /\ CoverInv /\ (Owner = NoCase => Working = {})
    BY <1>1 DEF SurelyCovered, SolelyOwned, ClearlyOwned, InstanceInv, SoloInv, CallbackInv, ClearInv
  <2> SUFFICES ASSUME NEW a \in Accounts
               PROVE  Left(OrdersOf(a, "close")) <= pos[a]
    OBVIOUS
  <2> DEFINE ids == OrdersOf(a, "close")
  <2>1. ids \subseteq Slots /\ \A i \in ids : /\ i \in Live /\ orders[i].acct = a
                                              /\ orders[i].op = "close"
    BY DEF OrdersOf, Live
  <2>2. \A i \in ids : orders[i].left \in Nat /\ (i \notin Working => orders[i].left = 0)
    <3> SUFFICES ASSUME NEW i \in ids
                 PROVE  orders[i].left \in Nat /\ (i \notin Working => orders[i].left = 0)
      OBVIOUS
    <3>1. orders[i].left \in Nat
      BY <2>0, <2>1, LiveOrders, TypesParts
    <3> QED
      BY <2>1, <3>1 DEF Working
  <2>3. pos[a] \in Nat
    BY <2>0 DEF TypesInv
  <2> HIDE DEF ids
  <2>4. ASSUME ids \cap Working = {}  PROVE Left(ids) <= pos[a]
    <3>1. Left(ids) = 0
      BY <2>1, <2>2, <2>4, LeftNone
    <3> QED
      BY <2>3, <3>1
  <2>5. CASE Owner.type = "NONE"
    <3>1. Working = {}
      BY <2>0, <2>5, NoCaseNone
    <3> QED
      BY <2>4, <3>1 DEF ids
  <2>6. CASE Solo(Owner)
    <3>1. ASSUME NEW i \in ids \cap Working  PROVE Left(ids) <= pos[a]
      <4>1. \A j \in Working : j = Owner.main
        BY <2>0, <2>6, OwnerCovers
      <4>2. \A j \in ids \ {i} : orders[j].left = 0
        BY <2>2, <3>1, <4>1
      <4>3. Left(ids) = orders[i].left
        BY <2>1, <2>2, <4>2, LeftOne
      <4>4. orders[i].left <= pos[orders[i].acct] /\ orders[i].acct = a
        BY <2>0, <2>1, <2>6, OwnerCovers
      <4> QED
        BY <4>3, <4>4
    <3> QED
      BY <2>4, <3>1 DEF ids
  <2>7. CASE Owner.type = "CASE_4" /\ a # Owner.cur
    <3>1. ids \cap Working = {}
      BY <2>0, <2>1, <2>7 DEF OwnAccount
    <3> QED
      BY <2>4, <3>1 DEF ids
  <2>8. CASE Owner.type = "CASE_4" /\ a = Owner.cur
    <3>1. Left(ids) <= Worth(orders, a)
      BY <2>0, LeftWorth DEF ids
    <3>2. Worth(orders, a) + Queued(pending[a]) <= pos[a]
      BY <2>0, <2>8 DEF CoverInv, Owed
    <3>3. Worth(orders, a) \in Nat /\ Queued(pending[a]) \in Nat
      BY <2>0, <2>8, OwnerTrades
    <3>4. Left(ids) \in Int
      BY <2>0, LeftTyped DEF ids
    <3> QED
      BY <2>3, <3>1, <3>2, <3>3, <3>4 DEF ids
  <2> QED
    BY <2>5, <2>6, <2>7, <2>8 DEF Solo
<1>2. SurelyCovered => LiveClosesCovered
  BY <1>1 DEF LiveClosesCovered
<1> QED
  BY <1>2, CoverAlways, PTL
=============================================================================

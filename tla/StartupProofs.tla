---------------------------- MODULE StartupProofs ----------------------------
(***************************************************************************)
(* Whoever trades is heard, a stop of all reaches every instance, and main *)
(* returns only when all is cancelled: proofs for any users, symbols and   *)
(* venues, and for any number of commands.                                 *)
(***************************************************************************)
EXTENDS Startup, FoldLemmas

IsHeard(u) == u \in timers /\ \A side \in Sides : LoggedIn(u, side)

(* What the constructor of TradeAccount has done for its user so far.      *)
BuiltInOrder ==
  /\ main \in {"short", "long", "instances"} /\ User \in DOMAIN Trades =>
       User \in timers
  /\ main \in {"long", "instances"} => LoggedIn(User, "short")
  /\ main = "instances" => LoggedIn(User, "long")

(* Only instances trade, and one is started when all else is done.         *)
HeardInv ==
  /\ PastCheck \subseteq instances /\ live \subseteq instances \X Sides
  /\ \A i \in instances : IsHeard(i[1])
  /\ BuiltInOrder

-----------------------------------------------------------------------------
(* A step that starts nothing, of a main thread that stays where it is.    *)
LEMMA Elsewhere ==
  ASSUME HeardInv, UNCHANGED <<main, users, user, timers, listening, instances>>,
         PastCheck' \subseteq PastCheck \cup instances,
         live' \subseteq live \cup (PastCheck \X Sides)
  PROVE  HeardInv'
  <1>1. PastCheck' \subseteq instances' /\ live' \subseteq instances' \X Sides
    BY DEF HeardInv
  <1>2. BuiltInOrder' /\ \A i \in instances' : IsHeard(i[1])'
    BY DEF HeardInv, BuiltInOrder, IsHeard, LoggedIn, User, Sides
  <1> QED BY <1>1, <1>2 DEF HeardInv

(* A step of main away from the accounts.                                  *)
LEMMA NotBuilding ==
  ASSUME HeardInv, main' \notin {"short", "long", "instances"},
         UNCHANGED <<timers, listening, instances, PastCheck, live>>
  PROVE  HeardInv'
  BY DEF HeardInv, BuiltInOrder, IsHeard, LoggedIn

(* Nothing runs yet.                                                       *)
LEMMA InitHeard == Init => HeardInv
  BY DEF Init, HeardInv, BuiltInOrder, PastCheck

(* main before and after the accounts.                                     *)
LEMMA MainStep ==
  ASSUME HeardInv,
         \/ ParseSymbols \/ ParseTrading \/ ConnectRouter \/ Admin
         \/ \E i \in Instances : AddSymbol(i[1], i[2])
         \/ Subscribe \/ Register \/ EndSymbols \/ RegisterCommands \/ Ready
  PROVE  HeardInv'
  <1>1. /\ main' \notin {"short", "long", "instances"}
        /\ UNCHANGED <<timers, listening, instances, PastCheck, live>>
    BY DEF ParseSymbols, ParseTrading, ConnectRouter, Admin, AddSymbol, Subscribe,
           Register, EndSymbols, RegisterCommands, Ready, At, Go, Terminate,
           mainVars, readyVars, tradeVars, threadVars, PastCheck
  <1> QED BY <1>1, NotBuilding

(* The timers of a user are started before its accounts.                   *)
LEMMA StartTimersStep == HeardInv /\ StartTimers => HeardInv'
  <1> SUFFICES ASSUME HeardInv, StartTimers PROVE HeardInv'
    OBVIOUS
  <1>1. /\ main' = "short" /\ timers' = timers \cup ({User} \cap DOMAIN Trades)
        /\ UNCHANGED <<users, user, listening, instances, PastCheck, live>>
    BY DEF StartTimers, Go, tradeVars, threadVars, PastCheck
  <1> QED BY <1>1 DEF HeardInv, BuiltInOrder, IsHeard, LoggedIn, User

(* An account logs in to one venue more, or main throws.                   *)
LEMMA LoginStep ==
  ASSUME HeardInv, NEW side \in Sides, NEW v \in Venues, Login(side, v)
  PROVE  HeardInv'
  <1>1. /\ listening \subseteq listening'
        /\ UNCHANGED <<main, users, user, timers, instances, PastCheck, live>>
    BY DEF Login, At, Go, Terminate, tradeVars, threadVars, PastCheck
  <1> QED BY <1>1 DEF HeardInv, BuiltInOrder, IsHeard, LoggedIn, User

(* The next account follows once this one is logged in everywhere.         *)
LEMMA NextAccountStep ==
  ASSUME HeardInv, NEW side \in Sides, NextAccount(side)
  PROVE  HeardInv'
  <1>1. /\ main = side /\ LoggedIn(User, side)
        /\ main' = IF side = "short" THEN "long" ELSE "instances"
        /\ UNCHANGED <<users, user, timers, listening, instances, PastCheck, live>>
    BY DEF NextAccount, At, Go, AfterLogin, readyVars, tradeVars, threadVars, PastCheck
  <1> QED BY <1>1 DEF HeardInv, BuiltInOrder, IsHeard, LoggedIn, User, Sides

(* An instance is started last.                                            *)
LEMMA StartInstanceStep ==
  ASSUME HeardInv, NEW n \in Names, StartInstance(n)
  PROVE  HeardInv'
  <1>1. /\ main = "instances" /\ User \in DOMAIN Trades
        /\ instances' = instances \cup {<<User, n>>}
        /\ UNCHANGED <<main, users, user, timers, listening, PastCheck, live>>
    BY DEF StartInstance, At, mainVars, readyVars, tradeVars, threadVars, PastCheck
  <1>2. IsHeard(User)
    BY <1>1 DEF HeardInv, BuiltInOrder, IsHeard, Sides
  <1>3. \A u : IsHeard(u)' = IsHeard(u)
    BY <1>1 DEF IsHeard, LoggedIn
  <1>4. BuiltInOrder'
    BY <1>1 DEF HeardInv, BuiltInOrder, LoggedIn, User
  <1> QED BY <1>1, <1>2, <1>3, <1>4 DEF HeardInv

(* The user is done, or has no symbols.                                    *)
LEMMA NextUserStep == HeardInv /\ NextUser => HeardInv'
  <1> SUFFICES ASSUME HeardInv, NextUser PROVE HeardInv'
    OBVIOUS
  <1>1. UNCHANGED <<users, timers, listening, instances, PastCheck, live>>
    BY DEF NextUser, readyVars, tradeVars, threadVars, PastCheck
  <1>2. CASE main' = "accounts"
    BY <1>1, <1>2, NotBuilding
  <1>3. CASE UNCHANGED <<main, user>>
    BY <1>1, <1>3, Elsewhere
  <1> QED BY <1>2, <1>3 DEF NextUser, Go, Terminate

(* What is entered at a console.                                           *)
Typed(c) == \/ \E name \in {"st", "rt"} : Command(c, name)
            \/ \E name \in {"ss", "rs"} : FeedCommand(c, name)

(* The consoles and the signal handler stop and restart.                   *)
LEMMA StopStep ==
  ASSUME HeardInv,
         \/ \E c \in Consoles : Typed(c)
         \/ Signal \/ Exit \/ \E th \in Threads : Follow(th)
  PROVE  HeardInv'
  <1>1. UNCHANGED <<main, users, user, timers, listening, instances, PastCheck, live>>
    BY DEF Typed, Command, FeedCommand, Entered, Enter, Signal, Terminate, Exit, Follow,
           Cancel, Ask, Disable, Enable, EndStop, mainVars, readyVars, tradeVars,
           threadVars, PastCheck
  <1> QED BY <1>1, Elsewhere

(* Market data, timers, rounds and the ends of orders.                     *)
Runs == \/ \E n \in Names : TradePrice(n) \/ Quote(n)
        \/ \E u \in DOMAIN Trades : Timer(u)
        \/ \E i \in Instances : Check(i) \/ BeginRound(i) \/ EndRound(i)
        \/ \E o \in Orders : SendOrder(o[1], o[2]) \/ End(o)

LEMMA RunFacts ==
  ASSUME Runs
  PROVE  /\ UNCHANGED <<mainVars, feedVars, readyVars, todo, instances, enabled, stopVars, commands>>
         /\ process' \in {process, "terminated"}
         /\ PastCheck' \subseteq PastCheck \cup (instances \cap enabled)
         /\ live' \subseteq live \cup (PastCheck \X Sides)
         /\ live' \ asked' \subseteq (live \ asked) \cup (PastCheck \X Sides)
         /\ process' = "ended" => process = "ended" /\ live' \ asked' \subseteq live \ asked
  <1>1. CASE \E n \in Names : TradePrice(n) \/ Quote(n)
    BY <1>1 DEF TradePrice, Quote, tradeVars, threadVars, PastCheck
  <1>2. CASE \E u \in DOMAIN Trades : Timer(u)
    BY <1>2 DEF Timer, tradeVars, threadVars, PastCheck
  <1>3. CASE \E i \in Instances : Check(i) \/ BeginRound(i) \/ EndRound(i)
    BY <1>3 DEF Check, BeginRound, EndRound, PastCheck
  <1>4. ASSUME NEW o \in Orders, SendOrder(o[1], o[2]) \/ End(o)
        PROVE  /\ UNCHANGED <<mainVars, feedVars, readyVars, todo, instances, enabled, stopVars, commands>>
               /\ process' \in {process, "terminated"}
               /\ PastCheck' \subseteq PastCheck
               /\ live' \subseteq live \cup (PastCheck \X Sides)
               /\ live' \ asked' \subseteq (live \ asked) \cup (PastCheck \X Sides)
               /\ process' = "ended" => process = "ended" /\ live' \ asked' \subseteq live \ asked
    <2>1. o[2] \in Sides
      BY DEF Orders
    <2>2. CASE SendOrder(o[1], o[2])
      <3>1. <<o[1], o[2]>> \in PastCheck \X Sides
        BY <2>1, <2>2 DEF SendOrder, PastCheck
      <3> QED
        BY <2>2, <3>1 DEF SendOrder, threadVars, PastCheck
    <2>3. CASE End(o)
      BY <2>3 DEF End, threadVars, PastCheck
    <2> QED
      BY <1>4, <2>2, <2>3
  <1> QED
    BY <1>1, <1>2, <1>3, <1>4 DEF Runs

LEMMA RunStep ==
  ASSUME HeardInv, Runs
  PROVE  HeardInv'
  <1>1. /\ UNCHANGED <<main, users, user, timers, listening, instances>>
        /\ PastCheck' \subseteq PastCheck \cup instances
        /\ live' \subseteq live \cup (PastCheck \X Sides)
    BY RunFacts DEF mainVars, readyVars
  <1> QED BY <1>1, Elsewhere

(* Every step keeps the invariant.                                         *)
LEMMA StepHeard == HeardInv /\ [Next]_vars => HeardInv'
  <1> SUFFICES ASSUME HeardInv, [Next]_vars PROVE HeardInv'
    OBVIOUS
  <1>1. CASE StartUp
    BY <1>1, MainStep, StartTimersStep, LoginStep, NextAccountStep,
       StartInstanceStep, NextUserStep DEF StartUp
  <1>2. CASE UNCHANGED vars
    BY <1>2, Elsewhere DEF vars, mainVars, readyVars, tradeVars, threadVars, PastCheck
  <1> QED BY <1>1, <1>2, StopStep, RunStep DEF Next, Typed, Runs

(* The constructors build in this order whatever the console, the signal   *)
(* handler and the instances of earlier users do meanwhile.                *)
THEOREM BuildsInOrder == Spec => []HeardInv
  <1> QED BY InitHeard, StepHeard, PTL DEF Spec

(* An order is at the market only if both accounts of its pair listen to   *)
(* every venue and the timers of its user run.                             *)
THEOREM Heard == Spec => []OrdersAreHeard
  <1>1. HeardInv => OrdersAreHeard
    <2> SUFFICES ASSUME HeardInv, NEW o \in live  PROVE IsHeard(o[1][1])
      BY DEF IsHeard, OrdersAreHeard
    <2>1. o[1] \in instances
      BY DEF HeardInv
    <2> QED
      BY <2>1 DEF HeardInv
  <1> QED BY <1>1, BuildsInOrder, PTL

-----------------------------------------------------------------------------
(* What stops and restarts.                                                *)

Labels == {"cancel", "ask", "disable", "enable", "stopped", "exit"}
Step   == [do : Labels, side : Sides \cup {"both"}, of : SUBSET instances]

(* Before step p of a script, instance i is disabled, an account is asked  *)
(* to cancel its orders, or both in this order.                            *)
Does(step, label, side, i) == step.do = label /\ step.side = side /\ i \in step.of
WillDo(s, p, label, side, i) == \E q \in 1..(p - 1) : Does(s[q], label, side, i)
WillDisable(s, p, i) == WillDo(s, p, "disable", "both", i)
WillDisableAndAsk(s, p, side, i) ==
  \E r \in 1..(p - 1) : Does(s[r], "ask", side, i) /\ WillDisable(s, r, i)

(* Everything has been built.                                              *)
Built == main \in {"accounts", "run"} /\ user > Len(users)

ScriptsInv ==
  /\ todo \in [Threads -> Seq(Step)]
  /\ IsFiniteSet(instances)
  /\ \A i \in instances : i[1] \in Range(users)
  /\ \/ Built
     \/ /\ callbacks \cap {"st", "rt"} = {} /\ main # "run"
        /\ \A th \in Threads : todo[th] = <<>>
        /\ ~stopped /\ process # "ended"

(* An instance that is disabled sends nothing new: if it is past its look *)
(* at is_enable, the requests to come may be too early, and late says so.  *)
Quiet(i, side) == i \notin enabled /\ (i \in PastCheck => <<i, side>> \in late)

(* Its order on this side, if any, was asked for or is too late.           *)
Settled(i, side) == <<i, side>> \in live => <<i, side>> \in asked \cup late

StopInv(th) ==
  \A p \in DOMAIN todo[th] : todo[th][p].do = "stopped" =>
    \A i \in enabled \ restarted : WillDisable(todo[th], p, i)

Settling(s, p, i, side) ==
  \/ WillDisableAndAsk(s, p, side, i)
  \/ Quiet(i, side) /\ WillDo(s, p, "ask", side, i)
  \/ Quiet(i, side) /\ Settled(i, side)

ExitInv ==
  \A p \in DOMAIN todo["main"] : todo["main"][p].do = "exit" =>
    \A i \in instances \ restarted : \A side \in Sides :
      Settling(todo["main"], p, i, side)

StopsInv ==
  /\ ScriptsInv
  /\ \A th \in Threads : StopInv(th)
  /\ ExitInv
  /\ StopReachesAll
  /\ ExitCancels

(* Where main is tells what it has filled in.                              *)
StagesInv ==
  /\ main \in {"symbol config", "trading config"} => users = <<>> /\ listening = {}
  /\ main \in {"short", "long", "instances"} => user <= Len(users)
  /\ main \in {"subscribe", "register"} => adding \in Instances /\ adding[2] \in symbol_hash
  /\ \A n \in Names : \A u \in symbols[n] : <<u, n>> \in Instances

(* A script of stopping steps that disables i and asks for its orders     *)
(* later.                                                                  *)
Stops(s, i) ==
  \E q \in 1..Len(s) :
    /\ Does(s[q], "disable", "both", i)
    /\ \A side \in Sides : \E r \in 1..Len(s) : q < r /\ Does(s[r], "ask", side, i)

OnlyDo(s, labels) == s \in Seq(Step) /\ \A j \in 1..Len(s) : s[j].do \in labels
Stopping == {"cancel", "ask", "disable"}

LEMMA StepFacts ==
  ASSUME NEW label \in Labels, NEW side \in Sides \cup {"both"}, NEW I, I \subseteq instances
  PROVE  /\ Do(label, side, I) \in Step
         /\ Do(label, side, I).do = label /\ Do(label, side, I).side = side
         /\ Do(label, side, I).of = I
BY DEF Step, Do

LEMMA StopInstanceFacts ==
  ASSUME NEW i \in instances
  PROVE  /\ OnlyDo(StopInstance(i), Stopping)
         /\ Len(StopInstance(i)) = 3
         /\ Does(StopInstance(i)[3], "disable", "both", i)
<1> DEFINE a == Do("cancel", "short", {i})
           b == Do("cancel", "long", {i})
           c == Do("disable", "both", {i})
<1>1. /\ a \in Step /\ b \in Step /\ c \in Step
      /\ a.do = "cancel" /\ b.do = "cancel" /\ c.do = "disable" /\ c.side = "both" /\ c.of = {i}
  BY StepFacts DEF Labels, Sides
<1>2. StopInstance(i) = <<a, b, c>>
  BY DEF StopInstance
<1> HIDE DEF a, b, c
<1>3. /\ StopInstance(i) \in Seq(Step) /\ Len(StopInstance(i)) = 3
      /\ StopInstance(i)[3] = c
  BY <1>1, <1>2
<1>4. \A j \in 1..3 : StopInstance(i)[j] \in {a, b, c}
  BY <1>2
<1>5. \A j \in 1..3 : StopInstance(i)[j].do \in Stopping
  BY <1>1, <1>4 DEF Stopping
<1> QED
  BY <1>1, <1>3, <1>5 DEF OnlyDo, Does

LEMMA RestartInstanceFacts ==
  ASSUME NEW i \in instances
  PROVE  OnlyDo(RestartInstance(i), {"enable"})
<1> DEFINE a == Do("enable", "both", {i})
<1>1. a \in Step /\ a.do = "enable"
  BY StepFacts DEF Labels
<1>2. RestartInstance(i) = <<a>>
  BY DEF RestartInstance
<1> HIDE DEF a
<1> QED
  BY <1>1, <1>2 DEF OnlyDo

(* A script made of scripts that do only some things does only these.      *)
LEMMA OnlyDoFlattened ==
  ASSUME NEW labels, NEW s, NEW n \in Nat, s = [k \in 1..n |-> s[k]],
         \A k \in 1..n : OnlyDo(s[k], labels)
  PROVE  /\ OnlyDo(FlattenSeq(s), labels)
         /\ \A k \in 1..n : Within(s[k], FlattenSeq(s))
<1>1. s \in Seq(Seq(Step)) /\ Len(s) = n
  BY DEF OnlyDo
<1>2. /\ FlattenSeq(s) \in Seq(Step) /\ MadeOf(FlattenSeq(s), s, n)
      /\ \A k \in 1..n : Within(s[k], FlattenSeq(s))
  BY <1>1, FlattenFacts
<1>3. ASSUME NEW j \in 1..Len(FlattenSeq(s))  PROVE FlattenSeq(s)[j].do \in labels
  <2>1. PICK k \in 1..n : \E l \in 1..Len(s[k]) : FlattenSeq(s)[j] = s[k][l]
    BY <1>2 DEF MadeOf
  <2> QED
    BY <2>1 DEF OnlyDo
<1> QED
  BY <1>2, <1>3 DEF OnlyDo

LEMMA OnlyDoJoined ==
  ASSUME NEW labels, NEW a, OnlyDo(a, labels), NEW b, OnlyDo(b, labels)
  PROVE  OnlyDo(a \o b, labels)
<1>1. Follows(a, b, a \o b, Step)
  BY JoinWithin DEF OnlyDo
<1> QED
  BY <1>1 DEF Follows, OnlyDo

LEMMA StopsWithin ==
  ASSUME NEW s \in Seq(Step), NEW r \in Seq(Step), Within(s, r), NEW i, Stops(s, i)
  PROVE  Stops(r, i)
<1>1. PICK d \in Nat : d + Len(s) <= Len(r) /\ \A j \in 1..Len(s) : r[d + j] = s[j]
  BY DEF Within
<1>2. PICK q \in 1..Len(s) :
        /\ Does(s[q], "disable", "both", i)
        /\ \A side \in Sides : \E p \in 1..Len(s) : q < p /\ Does(s[p], "ask", side, i)
  BY DEF Stops
<1>3. d + q \in 1..Len(r) /\ r[d + q] = s[q]
  BY <1>1, <1>2
<1>4. ASSUME NEW side \in Sides
      PROVE  \E p \in 1..Len(r) : d + q < p /\ Does(r[p], "ask", side, i)
  <2>1. PICK p \in 1..Len(s) : q < p /\ Does(s[p], "ask", side, i)
    BY <1>2
  <2>2. d + p \in 1..Len(r) /\ d + q < d + p /\ r[d + p] = s[p]
    BY <1>1, <1>2, <2>1
  <2> QED
    BY <2>1, <2>2
<1> QED
  BY <1>2, <1>3, <1>4 DEF Stops

LEMMA RestartFacts ==
  ASSUME IsFiniteSet(instances), NEW I, I \subseteq instances
  PROVE  OnlyDo(Each(I, RestartInstance), {"enable"})
<1> DEFINE seq == SetToSeq(I)
           s == [k \in DOMAIN seq |-> RestartInstance(seq[k])]
<1>1. seq \in Seq(I)
  BY FS_Subset, SetToSeqFacts
<1> HIDE DEF seq
<1>2. DOMAIN seq = 1..Len(seq) /\ Len(seq) \in Nat
  BY <1>1
<1>3. s = [k \in 1..Len(seq) |-> s[k]]
  BY <1>2
<1>4. \A k \in 1..Len(seq) : OnlyDo(s[k], {"enable"})
  BY <1>1, <1>2, RestartInstanceFacts
<1> HIDE DEF s
<1>5. OnlyDo(FlattenSeq(s), {"enable"})
  BY <1>2, <1>3, <1>4, OnlyDoFlattened
<1> QED
  BY <1>5 DEF Each, s, seq

LEMMA StopUserFacts ==
  ASSUME IsFiniteSet(instances), NEW u
  PROVE  /\ OnlyDo(StopUser(u), Stopping)
         /\ \A i \in Of(u) : Stops(StopUser(u), i)
<1> DEFINE seq == SetToSeq(Of(u))
           s == [k \in DOMAIN seq |-> StopInstance(seq[k])]
           a == Do("ask", "short", Of(u))
           b == Do("ask", "long", Of(u))
<1>0. Of(u) \subseteq instances
  BY DEF Of
<1>1. /\ seq \in Seq(Of(u))
      /\ \A i \in Of(u) : \E k \in 1..Len(seq) : seq[k] = i
  BY <1>0, FS_Subset, SetToSeqFacts
<1> HIDE DEF seq
<1>2. DOMAIN seq = 1..Len(seq) /\ Len(seq) \in Nat
  BY <1>1
<1>3. s = [k \in 1..Len(seq) |-> s[k]]
  BY <1>2
<1>4. \A k \in 1..Len(seq) : s[k] = StopInstance(seq[k]) /\ seq[k] \in instances
  BY <1>0, <1>1, <1>2
<1>5. \A k \in 1..Len(seq) : OnlyDo(s[k], Stopping)
  BY <1>4, StopInstanceFacts
<1> HIDE DEF s
<1> DEFINE f == FlattenSeq(s)
<1>6. OnlyDo(f, Stopping) /\ \A k \in 1..Len(seq) : Within(s[k], f)
  BY <1>2, <1>3, <1>5, OnlyDoFlattened
<1>7. /\ a \in Step /\ a.do = "ask" /\ a.side = "short" /\ a.of = Of(u)
      /\ b \in Step /\ b.do = "ask" /\ b.side = "long" /\ b.of = Of(u)
  BY <1>0, StepFacts DEF Labels, Sides
<1> HIDE DEF a, b
<1>8. OnlyDo(<<a, b>>, Stopping)
  <2>1. \A j \in 1..2 : <<a, b>>[j] \in {a, b}
    OBVIOUS
  <2>2. <<a, b>> \in Seq(Step) /\ Len(<<a, b>>) = 2
    BY <1>7
  <2> QED
    BY <1>7, <2>1, <2>2 DEF OnlyDo, Stopping
<1>9. StopUser(u) = f \o <<a, b>>
  BY DEF StopUser, Each, s, seq, a, b
<1> HIDE DEF f
<1>10. OnlyDo(StopUser(u), Stopping)
  BY <1>6, <1>8, <1>9, OnlyDoJoined
<1>11. /\ f \in Seq(Step) /\ Len(f) \in Nat /\ Len(StopUser(u)) = Len(f) + 2
       /\ StopUser(u)[Len(f) + 1] = a /\ StopUser(u)[Len(f) + 2] = b
       /\ \A j \in 1..Len(f) : StopUser(u)[j] = f[j]
  BY <1>6, <1>7, <1>9 DEF OnlyDo
<1>12. ASSUME NEW i \in Of(u)  PROVE Stops(StopUser(u), i)
  <2>1. PICK k \in 1..Len(seq) : seq[k] = i
    BY <1>1
  <2>2. Len(s[k]) = 3 /\ Does(s[k][3], "disable", "both", i)
    BY <1>4, <2>1, StopInstanceFacts
  <2>3. PICK d \in Nat : d + 3 <= Len(f) /\ f[d + 3] = s[k][3]
    <3>1. PICK d \in Nat : /\ d + Len(s[k]) <= Len(f)
                           /\ \A j \in 1..Len(s[k]) : f[d + j] = s[k][j]
      BY <1>6 DEF Within
    <3>2. 3 \in 1..Len(s[k])
      BY <2>2
    <3>3. f[d + 3] = s[k][3] /\ d + 3 <= Len(f)
      BY <2>2, <3>1, <3>2
    <3> QED
      BY <3>3
  <2>4. /\ d + 3 \in 1..Len(StopUser(u))
        /\ Len(f) + 1 \in 1..Len(StopUser(u)) /\ Len(f) + 2 \in 1..Len(StopUser(u))
        /\ d + 3 < Len(f) + 1 /\ d + 3 < Len(f) + 2 /\ StopUser(u)[d + 3] = s[k][3]
    BY <1>11, <2>3
  <2>5. Does(StopUser(u)[d + 3], "disable", "both", i)
    BY <2>2, <2>4
  <2>6. /\ Does(StopUser(u)[Len(f) + 1], "ask", "short", i)
        /\ Does(StopUser(u)[Len(f) + 2], "ask", "long", i)
    BY <1>7, <1>11 DEF Does
  <2>7. \A side \in Sides : \E r \in 1..Len(StopUser(u)) :
          d + 3 < r /\ Does(StopUser(u)[r], "ask", side, i)
    BY <2>4, <2>6 DEF Sides
  <2> QED
    BY <2>4, <2>5, <2>7 DEF Stops
<1> QED
  BY <1>10, <1>12

(* "st" without arguments, and the signal handler: every instance is       *)
(* disabled and its orders asked for before the stop ends.                 *)
LEMMA StopAllFacts ==
  ASSUME IsFiniteSet(instances), NEW X, users \in Seq(X),
         \A i \in instances : i[1] \in Range(users)
  PROVE  \E f : /\ OnlyDo(f, Stopping)
                /\ \A i \in instances : Stops(f, i)
                /\ StopAll = Append(f, Do("stopped", "both", {}))
<1> DEFINE s == [k \in DOMAIN users |-> StopUser(users[k])]
           f == FlattenSeq(s)
           c == Do("stopped", "both", {})
<1>1. DOMAIN users = 1..Len(users) /\ Len(users) \in Nat
  OBVIOUS
<1>2. s = [k \in 1..Len(users) |-> s[k]] /\ \A k \in 1..Len(users) : s[k] = StopUser(users[k])
  BY <1>1
<1> HIDE DEF s
<1>3. \A k \in 1..Len(users) : OnlyDo(s[k], Stopping)
  BY <1>2, StopUserFacts
<1>4. /\ OnlyDo(f, Stopping)
      /\ \A k \in 1..Len(users) : Within(s[k], f)
  BY <1>1, <1>2, <1>3, OnlyDoFlattened
<1>5. StopAll = f \o <<c>>
  BY DEF StopAll, s
<1> HIDE DEF f, c
<1>6. f \o <<c>> = Append(f, c)
  BY <1>4 DEF OnlyDo
<1>7. ASSUME NEW i \in instances  PROVE Stops(f, i)
  <2>1. PICK k \in 1..Len(users) : users[k] = i[1]
    BY <1>1 DEF Range
  <2>2. i \in Of(users[k])
    BY <2>1 DEF Of
  <2>3. Stops(s[k], i)
    BY <1>2, <2>2, StopUserFacts
  <2> QED
    BY <1>3, <1>4, <2>3, StopsWithin DEF OnlyDo
<1> QED
  BY <1>4, <1>5, <1>6, <1>7 DEF c

LEMMA StartsWithStop ==
  ASSUME NEW f \in Seq(Step), NEW s, \A j \in 1..Len(f) : s[j] = f[j],
         NEW p \in Nat, p > Len(f), NEW i, Stops(f, i)
  PROVE  WillDisable(s, p, i) /\ \A side \in Sides : WillDisableAndAsk(s, p, side, i)
<1>1. PICK q \in 1..Len(f) :
        /\ Does(f[q], "disable", "both", i)
        /\ \A side \in Sides : \E r \in 1..Len(f) : q < r /\ Does(f[r], "ask", side, i)
  BY DEF Stops
<1>2. s[q] = f[q] /\ Len(f) \in Nat /\ q \in 1..(p - 1)
  OBVIOUS
<1>3. WillDisable(s, p, i)
  BY <1>1, <1>2 DEF WillDisable, WillDo
<1>4. ASSUME NEW side \in Sides  PROVE WillDisableAndAsk(s, p, side, i)
  <2>1. PICK r \in 1..Len(f) : q < r /\ Does(f[r], "ask", side, i)
    BY <1>1
  <2>2. s[r] = f[r] /\ r \in 1..(p - 1) /\ q \in 1..(r - 1)
    BY <1>2, <2>1
  <2>3. WillDisable(s, r, i)
    BY <1>1, <1>2, <2>2 DEF WillDisable, WillDo
  <2> QED
    BY <2>1, <2>2, <2>3 DEF WillDisableAndAsk
<1> QED
  BY <1>3, <1>4

(* A script after its first step.                                          *)
LEMMA TailFacts ==
  ASSUME NEW s \in Seq(Step), s # <<>>, NEW p \in DOMAIN Tail(s)
  PROVE  /\ p + 1 \in DOMAIN s /\ p \in Nat /\ p >= 1 /\ s[p + 1] = Tail(s)[p]
         /\ \A r \in 2..p : Tail(s)[r - 1] = s[r]
         /\ s[1] = Head(s) /\ Head(s) \in Step
         /\ Tail(s) \in Seq(Step)
  OBVIOUS

LEMMA TailWillDo ==
  ASSUME NEW s \in Seq(Step), s # <<>>, NEW p \in DOMAIN Tail(s), NEW label, NEW side, NEW i,
         WillDo(s, p + 1, label, side, i)
  PROVE  WillDo(Tail(s), p, label, side, i) \/ Does(Head(s), label, side, i)
<1>1. PICK q \in 1..p : Does(s[q], label, side, i)
  BY TailFacts DEF WillDo
<1>2. CASE q = 1
  BY <1>1, <1>2, TailFacts
<1>3. CASE q # 1
  <2>1. q \in 2..p /\ q - 1 \in 1..(p - 1)
    BY <1>1, <1>3, TailFacts
  <2>2. Tail(s)[q - 1] = s[q]
    BY <2>1, TailFacts
  <2> QED
    BY <1>1, <2>1, <2>2 DEF WillDo
<1> QED
  BY <1>2, <1>3

LEMMA TailWillDisableAndAsk ==
  ASSUME NEW s \in Seq(Step), s # <<>>, NEW p \in DOMAIN Tail(s), NEW side, NEW i,
         WillDisableAndAsk(s, p + 1, side, i)
  PROVE  \/ WillDisableAndAsk(Tail(s), p, side, i)
         \/ Does(Head(s), "disable", "both", i) /\ WillDo(Tail(s), p, "ask", side, i)
<1>1. PICK r \in 1..p : Does(s[r], "ask", side, i) /\ WillDisable(s, r, i)
  BY TailFacts DEF WillDisableAndAsk
<1>2. PICK q \in 1..(r - 1) : Does(s[q], "disable", "both", i)
  BY <1>1 DEF WillDisable, WillDo
<1>3. r \in 2..p /\ r - 1 \in 1..(p - 1) /\ Tail(s)[r - 1] = s[r]
  BY <1>1, <1>2, TailFacts
<1>4. WillDo(Tail(s), p, "ask", side, i)
  BY <1>1, <1>3 DEF WillDo
<1>5. CASE q = 1
  BY <1>2, <1>4, <1>5, TailFacts
<1>6. CASE q # 1
  <2>1. q \in 2..p /\ q - 1 \in 1..((r - 1) - 1)
    BY <1>1, <1>2, <1>6, TailFacts
  <2>2. Tail(s)[q - 1] = s[q]
    BY <2>1, TailFacts
  <2>3. WillDisable(Tail(s), r - 1, i)
    BY <1>2, <2>1, <2>2 DEF WillDisable, WillDo
  <2> QED
    BY <1>1, <1>3, <2>3 DEF WillDisableAndAsk
<1> QED
  BY <1>5, <1>6

-----------------------------------------------------------------------------
(* The steps.                                                              *)

LEMMA UsersFacts ==
  ASSUME TypeOK
  PROVE  /\ users \in Seq(Range(users)) /\ Len(users) \in Nat /\ user \in 1..(Len(users) + 1)
         /\ DOMAIN users = 1..Len(users)
         /\ enabled \subseteq instances /\ PastCheck \subseteq instances
         /\ live \subseteq instances \X Sides
<1>1. users \in Seq(Range(users))
  <2>1. CASE users = <<>>
    BY <2>1
  <2>2. CASE users \in Configurations
    BY <2>2, StartupAssumption
  <2> QED
    BY <2>1, <2>2 DEF TypeOK
<1> QED
  BY <1>1 DEF TypeOK, PastCheck

(* Scripts that are empty stop nothing.                                    *)
LEMMA NoScripts ==
  ASSUME ScriptsInv', \A th \in Threads : todo'[th] = <<>>, ~stopped', process' # "ended"
  PROVE  StopsInv'
<1>1. \A th \in Threads : DOMAIN todo'[th] = {}
  OBVIOUS
<1>2. "main" \in Threads
  BY DEF Threads
<1> QED
  BY <1>1, <1>2 DEF StopsInv, StopInv, ExitInv, StopReachesAll, ExitCancels

(* The threads that trade, and the steps of main that build nothing.       *)
LEMMA TradingKeeps ==
  ASSUME StopsInv, ScriptsInv',
         UNCHANGED <<todo, instances, enabled, restarted, late, stopped>>,
         PastCheck' \subseteq PastCheck \cup enabled,
         live' \ asked' \subseteq (live \ asked) \cup (PastCheck \X Sides),
         process' = "ended" => process = "ended" /\ live' \ asked' \subseteq live \ asked
  PROVE  StopsInv'
<1>1. \A th \in Threads : StopInv(th)'
  BY DEF StopsInv, StopInv, WillDisable, WillDo, Does
<1>2. \A i : \A side : Quiet(i, side) => Quiet(i, side)' /\ (Settled(i, side) => Settled(i, side)')
  BY DEF Quiet, Settled
<1>3. ExitInv'
  <2> SUFFICES ASSUME NEW p \in DOMAIN todo["main"], todo["main"][p].do = "exit",
                      NEW i \in instances \ restarted, NEW side \in Sides
               PROVE  Settling(todo["main"], p, i, side)'
    BY DEF ExitInv
  <2>1. Settling(todo["main"], p, i, side)
    BY DEF StopsInv, ExitInv
  <2>2. /\ WillDisableAndAsk(todo["main"], p, side, i)' = WillDisableAndAsk(todo["main"], p, side, i)
        /\ WillDo(todo["main"], p, "ask", side, i)' = WillDo(todo["main"], p, "ask", side, i)
    BY DEF WillDisableAndAsk, WillDisable, WillDo, Does
  <2> QED
    BY <1>2, <2>1, <2>2 DEF Settling
<1>4. StopReachesAll' /\ ExitCancels'
  BY DEF StopsInv, StopReachesAll, ExitCancels
<1> QED
  BY <1>1, <1>3, <1>4 DEF StopsInv

LEMMA BuildKeeps ==
  ASSUME TypeOK, StagesInv, StopsInv, StartUp
  PROVE  StopsInv'
<1>1. /\ process = "up" /\ process' # "ended"
      /\ UNCHANGED <<todo, stopped, restarted, late, PastCheck, live, asked>>
  BY DEF StartUp, ParseSymbols, ParseTrading, ConnectRouter, Admin, AddSymbol, Subscribe,
         Register, EndSymbols, StartTimers, NextAccount, Login, StartInstance, NextUser,
         RegisterCommands, Ready, At, Go, Terminate, stopVars, tradeVars, threadVars, PastCheck
<1>2. CASE RegisterCommands \/ Ready
  <2>1. /\ UNCHANGED <<instances, enabled, users, user>>
        /\ main' \in {"accounts", "run"} /\ user > Len(users)
    BY <1>2 DEF RegisterCommands, Ready, At, Go, CommandsDue, mainVars
  <2>2. ScriptsInv'
    BY <1>1, <2>1 DEF StopsInv, ScriptsInv, Built, Step
  <2> QED
    BY <1>1, <2>1, <2>2, TradingKeeps
<1>3. CASE ~(RegisterCommands \/ Ready)
  <2>1. ~Built
    <3>1. CASE StartTimers
      BY <3>1, UsersFacts DEF StartTimers, Built
    <3>2. ASSUME ~StartTimers  PROVE main \notin {"accounts", "run"}
      BY <1>3, <3>2
         DEF StartUp, ParseSymbols, ParseTrading, ConnectRouter, Admin, AddSymbol, Subscribe,
             Register, EndSymbols, NextAccount, Login, StartInstance, NextUser, At, Sides
    <3> QED
      BY <3>1, <3>2 DEF Built
  <2>2. /\ callbacks \cap {"st", "rt"} = {} /\ main # "run" /\ ~stopped
        /\ \A th \in Threads : todo[th] = <<>>
    BY <2>1 DEF StopsInv, ScriptsInv
  <2>3. callbacks' \cap {"st", "rt"} = {} /\ main' # "run"
    BY <1>3, <2>2
       DEF StartUp, ParseSymbols, ParseTrading, ConnectRouter, Admin, AddSymbol, Subscribe,
           Register, EndSymbols, StartTimers, NextAccount, Login, StartInstance, NextUser,
           At, Go, Terminate, AfterLogin, readyVars, mainVars, Sides
  <2>4. todo' \in [Threads -> Seq(Step')]
    <3>1. <<>> \in Seq(Step') /\ todo = [th \in Threads |-> todo[th]]
      BY DEF StopsInv, ScriptsInv
    <3> QED
      BY <1>1, <2>2, <3>1
  <2>5. IsFiniteSet(instances')
    <3>1. instances' = instances \/ \E i : instances' = instances \cup {i}
      BY <1>3
         DEF StartUp, ParseSymbols, ParseTrading, ConnectRouter, Admin, AddSymbol, Subscribe,
             Register, EndSymbols, StartTimers, NextAccount, Login, StartInstance, NextUser
    <3> QED
      BY <3>1, FS_AddElement DEF StopsInv, ScriptsInv
  <2>6. \A i \in instances' : i[1] \in Range(users')
    <3>1. CASE \E n \in Names : StartInstance(n)
      <4>1. PICK n \in Names : StartInstance(n)
        BY <3>1
      <4>2. /\ main = "instances" /\ users' = users
            /\ instances' = instances \cup {<<User, n>>}
        BY <4>1 DEF StartInstance, At, mainVars
      <4>3. user \in DOMAIN users
        BY <4>2, UsersFacts DEF StagesInv
      <4>4. User \in Range(users)
        BY <4>3 DEF User, Range
      <4> QED
        BY <4>2, <4>4 DEF StopsInv, ScriptsInv
    <3>2. CASE ParseTrading
      <4>1. users = <<>> /\ instances' = instances
        BY <3>2 DEF ParseTrading, At, StagesInv
      <4>2. Range(users) = {}
        BY <4>1 DEF Range
      <4> QED
        BY <4>1, <4>2 DEF StopsInv, ScriptsInv
    <3>3. CASE UNCHANGED <<instances, users>>
      BY <3>3 DEF StopsInv, ScriptsInv
    <3> QED
      BY <1>3, <3>1, <3>2, <3>3
         DEF StartUp, ParseSymbols, ConnectRouter, Admin, AddSymbol, Subscribe,
             Register, EndSymbols, StartTimers, NextAccount, Login, NextUser
  <2>7. ScriptsInv'
    BY <1>1, <2>2, <2>3, <2>4, <2>5, <2>6 DEF ScriptsInv
  <2> QED
    BY <1>1, <2>2, <2>7, NoScripts
<1> QED
  BY <1>2, <1>3

(* A command, or the signal, hands a thread that is idle a script.         *)
ScriptLabels == {"cancel", "ask", "disable", "enable"}

LEMMA CommandScripts ==
  ASSUME TypeOK, ScriptsInv
  PROVE  /\ \A name \in {"st", "rt"} :
              \/ OnlyDo(AllOf(name), ScriptLabels)
              \/ name = "st" /\ AllOf(name) = StopAll
         /\ \A name \in {"st", "rt"} : \A u : OnlyDo(UserOf(name, u), ScriptLabels)
         /\ \A name \in {"st", "rt"} : \A i \in instances : OnlyDo(OnlyOf(name, i), ScriptLabels)
<1>0. \A s : \A labels \in SUBSET ScriptLabels : OnlyDo(s, labels) => OnlyDo(s, ScriptLabels)
  BY DEF OnlyDo
<1>1. {"enable"} \in SUBSET ScriptLabels /\ Stopping \in SUBSET ScriptLabels
  BY DEF ScriptLabels, Stopping
<1>2. IsFiniteSet(instances)
  BY DEF ScriptsInv
<1>3. \A u : Of(u) \subseteq instances
  BY DEF Of
<1>4. /\ OnlyDo(Each(instances, RestartInstance), ScriptLabels)
      /\ \A u : OnlyDo(Each(Of(u), RestartInstance), ScriptLabels)
      /\ \A i \in instances : OnlyDo(RestartInstance(i), ScriptLabels)
  <2>1. OnlyDo(Each(instances, RestartInstance), {"enable"})
    BY <1>2, RestartFacts
  <2>2. ASSUME NEW u  PROVE OnlyDo(Each(Of(u), RestartInstance), {"enable"})
    BY <1>2, <1>3, RestartFacts
  <2>3. \A i \in instances : OnlyDo(RestartInstance(i), {"enable"})
    BY RestartInstanceFacts
  <2> QED
    BY <1>0, <1>1, <2>1, <2>2, <2>3
<1>5. /\ \A u : OnlyDo(StopUser(u), ScriptLabels)
      /\ \A i \in instances : OnlyDo(StopInstance(i), ScriptLabels)
  BY <1>0, <1>1, <1>2, StopUserFacts, StopInstanceFacts
<1> QED
  BY <1>4, <1>5 DEF AllOf, UserOf, OnlyOf

LEMMA LastStep ==
  ASSUME NEW f \in Seq(Step), NEW c
  PROVE  /\ Len(f) \in Nat /\ Len(Append(f, c)) = Len(f) + 1
         /\ DOMAIN Append(f, c) = 1..(Len(f) + 1)
         /\ \A j \in 1..Len(f) : Append(f, c)[j] = f[j]
         /\ Append(f, c)[Len(f) + 1] = c
         /\ c \in Step => Append(f, c) \in Seq(Step)
  OBVIOUS

(* A script that disables every instance, and asks for its orders, before  *)
(* it says "stopped" or "exit" is as the invariant wants it.               *)
Thorough(s) ==
  /\ s \in Seq(Step)
  /\ \A p \in DOMAIN s : s[p].do \in {"stopped", "exit"} =>
       \A i \in instances : /\ WillDisable(s, p, i)
                            /\ \A side \in Sides : WillDisableAndAsk(s, p, side, i)

LEMMA ScriptsAreThorough ==
  ASSUME TypeOK, ScriptsInv
  PROVE  /\ Thorough(StopAll)
         /\ Thorough(StopAll \o <<Do("exit", "both", {})>>)
         /\ \A s : OnlyDo(s, ScriptLabels) => Thorough(s) /\ s # StopAll
<1> DEFINE c == Do("stopped", "both", {})
           e == Do("exit", "both", {})
<1>1. PICK f : /\ OnlyDo(f, Stopping)
               /\ \A i \in instances : Stops(f, i)
               /\ StopAll = Append(f, c)
  BY UsersFacts, StopAllFacts DEF ScriptsInv
<1>2. c \in Step /\ e \in Step /\ c.do = "stopped" /\ e.do = "exit"
  BY StepFacts DEF Labels
<1> HIDE DEF c, e
<1>3. f \in Seq(Step) /\ \A j \in 1..Len(f) : f[j].do \in {"cancel", "ask", "disable"}
  BY <1>1 DEF OnlyDo, Stopping
<1>4. Thorough(StopAll)
  <2> SUFFICES ASSUME NEW p \in DOMAIN StopAll, StopAll[p].do \in {"stopped", "exit"},
                      NEW i \in instances
               PROVE  /\ WillDisable(StopAll, p, i)
                      /\ \A side \in Sides : WillDisableAndAsk(StopAll, p, side, i)
    BY <1>1, <1>2, <1>3, LastStep DEF Thorough
  <2>1. \A j \in 1..Len(f) : StopAll[j] = f[j]
    BY <1>1, <1>3, LastStep
  <2>2. p \notin 1..Len(f)
    BY <1>3, <2>1
  <2>3. p \in Nat /\ p > Len(f)
    BY <1>1, <1>3, <2>2, LastStep
  <2> QED
    BY <1>1, <1>3, <2>1, <2>3, StartsWithStop
<1>5. Thorough(StopAll \o <<e>>)
  <2> DEFINE a == Append(f, c)
  <2>0. a \in Seq(Step) /\ Len(a) = Len(f) + 1 /\ \A j \in 1..Len(f) : a[j] = f[j]
    BY <1>2, <1>3, LastStep
  <2> HIDE DEF a
  <2> DEFINE b == Append(a, e)
  <2>1. /\ b \in Seq(Step) /\ DOMAIN b = 1..(Len(a) + 1) /\ \A j \in 1..Len(a) : b[j] = a[j]
    BY <1>2, <2>0, LastStep
  <2>2. StopAll \o <<e>> = b
    BY <1>1, <2>0 DEF a
  <2> HIDE DEF b
  <2> SUFFICES ASSUME NEW p \in DOMAIN b, b[p].do \in {"stopped", "exit"},
                      NEW i \in instances
               PROVE  /\ WillDisable(b, p, i)
                      /\ \A side \in Sides : WillDisableAndAsk(b, p, side, i)
    BY <2>1, <2>2 DEF Thorough
  <2>3. \A j \in 1..Len(f) : b[j] = f[j]
    BY <1>3, <2>0, <2>1
  <2>4. p \notin 1..Len(f)
    BY <1>3, <2>3
  <2>5. p \in Nat /\ p > Len(f)
    BY <1>3, <2>0, <2>1, <2>4
  <2> QED
    BY <1>1, <1>3, <2>3, <2>5, StartsWithStop
<1>6. ASSUME NEW s, OnlyDo(s, ScriptLabels)  PROVE Thorough(s) /\ s # StopAll
  <2>1. s \in Seq(Step) /\ \A j \in DOMAIN s : s[j].do \in ScriptLabels
    BY <1>6 DEF OnlyDo
  <2>2. Thorough(s)
    BY <2>1 DEF Thorough, ScriptLabels
  <2>3. Len(f) + 1 \in DOMAIN StopAll /\ StopAll[Len(f) + 1].do = "stopped"
    BY <1>1, <1>2, <1>3, LastStep
  <2>4. s # StopAll
    BY <2>1, <2>3 DEF ScriptLabels
  <2> QED
    BY <2>2, <2>4
<1> QED
  BY <1>4, <1>5, <1>6 DEF e

LEMMA EnteredKeeps ==
  ASSUME TypeOK, StopsInv, NEW th \in Threads, NEW s, Thorough(s), todo[th] = <<>>,
         todo' = [todo EXCEPT ![th] = s], Built,
         UNCHANGED <<process, main, users, user, callbacks, instances, enabled, PastCheck, live, asked>>,
         process = "up",
         BeginStop \/ UNCHANGED stopVars
  PROVE  StopsInv'
<1>1. /\ \A other \in Threads \ {th} : todo'[other] = todo[other]
      /\ todo'[th] = s /\ "main" \in Threads
      /\ todo' \in [Threads -> Seq(Step)]
  BY DEF StopsInv, ScriptsInv, Thorough, Threads
<1>2. ScriptsInv'
  BY <1>1 DEF StopsInv, ScriptsInv, Built, Step
<1>3. \A other \in Threads : todo[other] # <<>> => restarted' = restarted
  BY DEF BeginStop, stopVars
<1>4. late' = late /\ (stopped' => stopped /\ restarted' = restarted)
  BY DEF BeginStop, stopVars
<1>5. ASSUME NEW other \in Threads  PROVE StopInv(other)'
  <2> SUFFICES ASSUME NEW p \in DOMAIN todo'[other], todo'[other][p].do = "stopped",
                      NEW i \in enabled \ restarted'
               PROVE  WillDisable(todo'[other], p, i)
    BY DEF StopInv, WillDisable, WillDo, Does
  <2>0. i \in instances
    BY UsersFacts
  <2>1. CASE other = th
    BY <1>1, <2>0, <2>1 DEF Thorough
  <2>2. CASE other # th
    <3>1. todo'[other] = todo[other] /\ todo[other] # <<>>
      BY <1>1, <2>2
    <3>2. StopInv(other) /\ restarted' = restarted
      BY <1>3, <3>1 DEF StopsInv
    <3> QED
      BY <3>1, <3>2 DEF StopInv
  <2> QED
    BY <2>1, <2>2
<1>6. ExitInv'
  <2>1. CASE th = "main"
    <3>1. \A p \in DOMAIN s : s[p].do = "exit" =>
            \A i \in instances : \A side \in Sides : WillDisableAndAsk(s, p, side, i)
      BY DEF Thorough
    <3>2. \A p : \A i : \A side : WillDisableAndAsk(s, p, side, i)' = WillDisableAndAsk(s, p, side, i)
      BY DEF WillDisableAndAsk, WillDisable, WillDo, Does
    <3> QED
      BY <1>1, <2>1, <3>1, <3>2 DEF ExitInv, Settling
  <2>2. CASE th # "main" /\ todo["main"] = <<>>
    BY <1>1, <2>2 DEF ExitInv
  <2>3. CASE th # "main" /\ todo["main"] # <<>>
    <3>1. todo'["main"] = todo["main"] /\ restarted' = restarted
      BY <1>1, <1>3, <2>3
    <3>2. \A p : \A i : \A side :
            Settling(todo["main"], p, i, side)' <=> Settling(todo["main"], p, i, side)
      BY <1>4, <3>1 DEF Quiet, Settled, Settling, WillDisableAndAsk, WillDisable, WillDo, Does
    <3> QED
      BY <3>1, <3>2 DEF StopsInv, ExitInv
  <2> QED
    BY <2>1, <2>2, <2>3
<1>7. StopReachesAll' /\ ExitCancels'
  BY <1>4 DEF StopsInv, StopReachesAll, ExitCancels
<1> QED
  BY <1>2, <1>5, <1>6, <1>7 DEF StopsInv

LEMMA CommandKeeps ==
  ASSUME TypeOK, StopsInv, NEW c \in Consoles, NEW name \in {"st", "rt"}, Command(c, name)
  PROVE  StopsInv'
<1>0. ScriptsInv
  BY DEF StopsInv
<1>1. ASSUME NEW s, Enter(c, name, s), Thorough(s), s = StopAll => name = "st"
      PROVE  StopsInv'
  <2>1. /\ process = "up" /\ todo[c] = <<>> /\ c \in Threads
        /\ UNCHANGED <<process, main, users, user, callbacks, instances, enabled, PastCheck, live, asked>>
    BY <1>1 DEF Enter, Entered, mainVars, readyVars, tradeVars, threadVars, PastCheck, Threads
  <2>2. CASE name \in callbacks
    <3>1. Built
      BY <1>0, <2>2 DEF ScriptsInv
    <3>2. todo' = [todo EXCEPT ![c] = s] /\ (BeginStop \/ UNCHANGED stopVars)
      BY <1>1, <2>2 DEF Enter
    <3> QED
      BY <1>1, <2>1, <3>1, <3>2, EnteredKeeps
  <2>3. CASE name \notin callbacks
    <3>1. UNCHANGED <<todo, restarted, late, stopped>>
      BY <1>1, <2>3 DEF Enter, stopVars
    <3>2. ScriptsInv'
      BY <1>0, <2>1, <3>1 DEF ScriptsInv, Built, Step
    <3> QED
      BY <2>1, <3>1, <3>2, TradingKeeps
  <2> QED
    BY <2>2, <2>3
<1>2. CASE Enter(c, name, AllOf(name))
  <2>1. \/ Thorough(AllOf(name)) /\ AllOf(name) # StopAll
        \/ Thorough(AllOf(name)) /\ name = "st"
    BY <1>0, CommandScripts, ScriptsAreThorough
  <2> QED
    BY <1>1, <1>2, <2>1
<1>3. ASSUME NEW u, Enter(c, name, UserOf(name, u))  PROVE StopsInv'
  <2>1. Thorough(UserOf(name, u)) /\ UserOf(name, u) # StopAll
    BY <1>0, CommandScripts, ScriptsAreThorough
  <2> QED
    BY <1>1, <1>3, <2>1
<1>4. ASSUME NEW i \in instances, Enter(c, name, OnlyOf(name, i))  PROVE StopsInv'
  <2>1. Thorough(OnlyOf(name, i)) /\ OnlyOf(name, i) # StopAll
    BY <1>0, CommandScripts, ScriptsAreThorough
  <2> QED
    BY <1>1, <1>4, <2>1
<1> QED
  BY <1>2, <1>3, <1>4 DEF Command

LEMMA SignalKeeps == TypeOK /\ StopsInv /\ Signal => StopsInv'
<1> SUFFICES ASSUME TypeOK, StopsInv, Signal  PROVE StopsInv'
  OBVIOUS
<1>0. /\ ScriptsInv /\ process = "up" /\ "main" \in Threads
      /\ UNCHANGED <<main, users, user, callbacks, instances, enabled, PastCheck, live, asked>>
  BY DEF StopsInv, Signal, mainVars, readyVars, tradeVars, threadVars, PastCheck, Threads
<1>1. CASE main = "run"
  <2>1. /\ todo["main"] = <<>> /\ BeginStop /\ UNCHANGED process
        /\ todo' = [todo EXCEPT !["main"] = StopAll \o <<Do("exit", "both", {})>>]
    BY <1>1 DEF Signal
  <2>2. Built
    BY <1>0, <1>1 DEF ScriptsInv
  <2>3. Thorough(StopAll \o <<Do("exit", "both", {})>>)
    BY <1>0, ScriptsAreThorough
  <2> QED
    BY <1>0, <2>1, <2>2, <2>3, EnteredKeeps
<1>2. CASE main # "run"
  <2>1. process' = "terminated" /\ UNCHANGED <<todo, restarted, late, stopped>>
    BY <1>2 DEF Signal, Terminate, stopVars
  <2>2. ScriptsInv'
    BY <1>0, <2>1 DEF ScriptsInv, Built, Step
  <2> QED
    BY <1>0, <2>1, <2>2, TradingKeeps
<1> QED
  BY <1>1, <1>2

(* "ss" and "rs" only touch the market data.                               *)
LEMMA FeedCommandKeeps ==
  ASSUME StopsInv, NEW c, NEW name, FeedCommand(c, name)
  PROVE  StopsInv'
<1>1. /\ UNCHANGED <<process, main, users, user, callbacks, instances, enabled, PastCheck, live, asked>>
      /\ UNCHANGED <<todo, restarted, late, stopped>>
  BY DEF FeedCommand, Entered, mainVars, readyVars, tradeVars, threadVars, PastCheck, stopVars
<1>2. ScriptsInv'
  BY <1>1 DEF StopsInv, ScriptsInv, Built, Step
<1> QED
  BY <1>1, <1>2, TradingKeeps

(* A step of a script.                                                     *)
LEMMA PoppedKeeps ==
  ASSUME TypeOK, StopsInv, NEW th \in Threads, todo[th] # <<>>, Pop(th),
         UNCHANGED <<main, users, user, callbacks, instances, PastCheck>>,
         enabled' \ restarted' \subseteq enabled \ restarted,
         \A i \in instances \ restarted' :
           /\ i \notin restarted
           /\ i \notin enabled => i \notin enabled'
           /\ Does(Head(todo[th]), "disable", "both", i) => i \notin enabled'
           /\ \A side \in Sides :
                /\ Does(Head(todo[th]), "disable", "both", i) => Quiet(i, side)'
                /\ Quiet(i, side) => Quiet(i, side)'
                /\ Settled(i, side) => Settled(i, side)'
                /\ Does(Head(todo[th]), "ask", side, i) => Settled(i, side)',
         StopReachesAll', ExitCancels'
  PROVE  StopsInv'
<1> DEFINE s == todo[th]
<1>0. todo \in [Threads -> Seq(Step)] /\ todo' = [todo EXCEPT ![th] = Tail(s)]
  BY DEF Pop, StopsInv, ScriptsInv
<1>1. /\ todo'[th] = Tail(s) /\ \A other \in Threads \ {th} : todo'[other] = todo[other]
      /\ "main" \in Threads /\ s \in Seq(Step) /\ s # <<>>
  BY <1>0 DEF Threads
<1>2. ScriptsInv'
  <2>1. todo' \in [Threads -> Seq(Step)] /\ Step' = Step
    <3>1. Tail(s) \in Seq(Step)
      BY <1>1
    <3> HIDE DEF s
    <3> QED
      BY <1>0, <3>1 DEF Step
  <2>2. Built /\ (Built <=> Built')
    BY <1>1 DEF StopsInv, ScriptsInv, Built
  <2> QED
    BY <2>1, <2>2 DEF StopsInv, ScriptsInv
<1>3. ASSUME NEW other \in Threads  PROVE StopInv(other)'
  <2> SUFFICES ASSUME NEW p \in DOMAIN todo'[other], todo'[other][p].do = "stopped",
                      NEW i \in enabled' \ restarted'
               PROVE  WillDisable(todo'[other], p, i)
    BY DEF StopInv, WillDisable, WillDo, Does
  <2>0. i \in enabled \ restarted /\ i \in instances \ restarted'
    BY UsersFacts
  <2>1. CASE other = th
    <3>1. p \in DOMAIN Tail(s) /\ Tail(s)[p].do = "stopped"
      BY <1>1, <2>1
    <3>2. p + 1 \in DOMAIN s /\ s[p + 1].do = "stopped"
      BY <1>1, <3>1, TailFacts
    <3>3. WillDo(s, p + 1, "disable", "both", i)
      BY <2>0, <3>2 DEF StopsInv, StopInv, WillDisable
    <3>4. WillDisable(Tail(s), p, i) \/ Does(Head(s), "disable", "both", i)
      BY <1>1, <3>1, <3>3, TailWillDo DEF WillDisable
    <3>5. ~Does(Head(s), "disable", "both", i)
      BY <2>0
    <3> QED
      BY <1>1, <2>1, <3>4, <3>5
  <2>2. CASE other # th
    BY <1>1, <2>0, <2>2 DEF StopsInv, StopInv
  <2> QED
    BY <2>1, <2>2
<1>4. ExitInv'
  <2> SUFFICES ASSUME NEW p \in DOMAIN todo'["main"], todo'["main"][p].do = "exit",
                      NEW i \in instances \ restarted', NEW side \in Sides
               PROVE  \/ WillDisableAndAsk(todo'["main"], p, side, i)
                      \/ Quiet(i, side)' /\ WillDo(todo'["main"], p, "ask", side, i)
                      \/ Quiet(i, side)' /\ Settled(i, side)'
    BY DEF ExitInv, Settling, WillDo, WillDisable, WillDisableAndAsk, Does
  <2>0. i \in instances \ restarted
    OBVIOUS
  <2>1. /\ Quiet(i, side) => Quiet(i, side)'
        /\ Settled(i, side) => Settled(i, side)'
    OBVIOUS
  <2>2. CASE th = "main"
    <3>1. p \in DOMAIN Tail(s) /\ Tail(s)[p].do = "exit" /\ todo'["main"] = Tail(s)
      BY <1>1, <2>2
    <3>2. p + 1 \in DOMAIN s /\ s[p + 1].do = "exit"
      BY <1>1, <3>1, TailFacts
    <3>3. Settling(s, p + 1, i, side)
      BY <2>0, <2>2, <3>2 DEF StopsInv, ExitInv
    <3>4. CASE WillDisableAndAsk(s, p + 1, side, i)
      <4>1. \/ WillDisableAndAsk(Tail(s), p, side, i)
            \/ Does(Head(s), "disable", "both", i) /\ WillDo(Tail(s), p, "ask", side, i)
        BY <1>1, <3>1, <3>4, TailWillDisableAndAsk
      <4> QED
        BY <3>1, <4>1
    <3>5. CASE Quiet(i, side) /\ WillDo(s, p + 1, "ask", side, i)
      <4>1. WillDo(Tail(s), p, "ask", side, i) \/ Does(Head(s), "ask", side, i)
        BY <1>1, <3>1, <3>5, TailWillDo
      <4> QED
        BY <2>1, <3>1, <3>5, <4>1
    <3>6. CASE Quiet(i, side) /\ Settled(i, side)
      BY <2>1, <3>6
    <3> QED
      BY <3>3, <3>4, <3>5, <3>6 DEF Settling
  <2>3. CASE th # "main"
    <3>1. todo'["main"] = todo["main"]
      BY <1>1, <2>3
    <3>2. Settling(todo["main"], p, i, side)
      BY <2>0, <3>1 DEF StopsInv, ExitInv
    <3> QED
      BY <2>1, <3>1, <3>2 DEF Settling
  <2> QED
    BY <2>2, <2>3
<1> QED
  BY <1>2, <1>3, <1>4 DEF StopsInv

LEMMA HeadFacts ==
  ASSUME ScriptsInv, NEW th \in Threads, todo[th] # <<>>
  PROVE  Head(todo[th]) = todo[th][1] /\ Head(todo[th]).of \subseteq instances
         /\ 1 \in DOMAIN todo[th]
<1>1. todo[th] \in Seq(Step)
  BY DEF ScriptsInv
<1>2. Head(todo[th]) \in Step /\ Head(todo[th]) = todo[th][1] /\ 1 \in DOMAIN todo[th]
  BY <1>1
<1> QED
  BY <1>2 DEF Step

LEMMA FollowKeeps ==
  ASSUME TypeOK, StopsInv, NEW th \in Threads, Follow(th)
  PROVE  StopsInv'
<1> DEFINE h == Head(todo[th])
<1>1. /\ todo[th] # <<>> /\ Pop(th) /\ process = "up" /\ process' = "up"
      /\ UNCHANGED <<main, users, user, callbacks, instances, PastCheck, live>>
  BY DEF Follow, Cancel, Ask, Disable, Enable, EndStop, AtHead, mainVars, readyVars,
         tradeVars, threadVars, PastCheck
<1>2. h.of \subseteq instances
  BY <1>1, HeadFacts DEF StopsInv
<1>3. /\ ExitCancels'
      /\ \/ /\ h.do = "cancel" /\ asked \subseteq asked'
            /\ UNCHANGED <<enabled, restarted, late, stopped>>
         \/ /\ h.do = "ask" /\ asked' = asked \cup (live \cap OrdersOf(h))
            /\ late' = {o \in late : o \in OrdersOf(h) => o[1] \in PastCheck}
            /\ UNCHANGED <<enabled, restarted, stopped>>
         \/ /\ h.do = "disable" /\ enabled' = enabled \ h.of
            /\ late' = late \cup ((PastCheck \cap h.of) \X Sides)
            /\ UNCHANGED <<asked, restarted, stopped>>
         \/ /\ h.do = "enable" /\ enabled' = enabled \cup h.of
            /\ restarted' = restarted \cup h.of /\ UNCHANGED <<asked, late, stopped>>
         \/ /\ h.do = "stopped" /\ UNCHANGED <<enabled, restarted, late, asked>>
  BY <1>1 DEF Follow, Cancel, Ask, Disable, Enable, EndStop, AtHead, tradeVars, stopVars, ExitCancels
<1> HIDE DEF h
<1>4. StopReachesAll'
  <2>1. CASE h.do = "stopped"
    <3>1. 1 \in DOMAIN todo[th] /\ todo[th][1].do = "stopped"
      BY <1>1, <2>1, HeadFacts DEF StopsInv, h
    <3>2. \A i \in enabled \ restarted : WillDisable(todo[th], 1, i)
      BY <3>1 DEF StopsInv, StopInv
    <3>3. \A i \in enabled \ restarted : FALSE
      BY <3>2 DEF WillDisable, WillDo
    <3> QED
      BY <1>3, <2>1, <3>3 DEF StopReachesAll
  <2>2. CASE h.do # "stopped"
    <3>1. enabled' \ restarted' \subseteq enabled \ restarted /\ stopped' = stopped
      BY <1>3, <2>2
    <3> QED
      BY <3>1 DEF StopsInv, StopReachesAll
  <2> QED
    BY <2>1, <2>2
<1>5. enabled' \ restarted' \subseteq enabled \ restarted
  BY <1>3
<1>6. ASSUME NEW i \in instances \ restarted'
      PROVE  /\ i \notin restarted
             /\ i \notin enabled => i \notin enabled'
             /\ Does(h, "disable", "both", i) => i \notin enabled'
             /\ \A side \in Sides :
                  /\ Does(h, "disable", "both", i) => Quiet(i, side)'
                  /\ Quiet(i, side) => Quiet(i, side)'
                  /\ Settled(i, side) => Settled(i, side)'
                  /\ Does(h, "ask", side, i) => Settled(i, side)'
  <2>1. /\ i \notin restarted
        /\ i \notin enabled => i \notin enabled'
        /\ Does(h, "disable", "both", i) => i \notin enabled'
    BY <1>3, <1>6 DEF Does
  <2>2. ASSUME NEW side \in Sides
        PROVE  /\ Does(h, "disable", "both", i) => Quiet(i, side)'
               /\ Quiet(i, side) => Quiet(i, side)'
               /\ Settled(i, side) => Settled(i, side)'
               /\ Does(h, "ask", side, i) => Settled(i, side)'
    <3> DEFINE o == <<i, side>>
    <3>1. o[1] = i /\ (o \in OrdersOf(h) <=> i \in h.of /\ side = h.side)
      BY DEF OrdersOf
    <3>2. /\ Does(h, "disable", "both", i) => (i \in PastCheck => o \in late')
          /\ i \in PastCheck /\ o \in late => o \in late'
      BY <1>3, <3>1 DEF Does
    <3>3. /\ o \in live /\ o \in asked \cup late => o \in asked' \cup late'
          /\ Does(h, "ask", side, i) /\ o \in live => o \in asked'
      BY <1>3, <3>1 DEF Does
    <3> HIDE DEF o
    <3>4. PastCheck' = PastCheck /\ live' = live
      BY <1>1
    <3> QED
      BY <2>1, <3>2, <3>3, <3>4 DEF Quiet, Settled, o
  <2> QED
    BY <2>1, <2>2
<1>7. todo[th] # <<>> /\ Pop(th) /\ UNCHANGED <<main, users, user, callbacks, instances, PastCheck>>
  BY <1>1
<1> QED
  BY <1>3, <1>4, <1>5, <1>6, <1>7, PoppedKeeps DEF h

LEMMA ExitKeeps == TypeOK /\ StopsInv /\ Exit => StopsInv'
<1> SUFFICES ASSUME TypeOK, StopsInv, Exit  PROVE StopsInv'
  OBVIOUS
<1> DEFINE h == Head(todo["main"])
<1>1. /\ "main" \in Threads /\ todo["main"] # <<>> /\ Pop("main") /\ h.do = "exit"
      /\ UNCHANGED <<main, users, user, callbacks, instances, PastCheck, enabled, live, asked,
                     restarted, late, stopped>>
  BY DEF Exit, AtHead, mainVars, readyVars, tradeVars, threadVars, PastCheck, stopVars, Threads
<1>2. 1 \in DOMAIN todo["main"] /\ todo["main"][1].do = "exit"
  BY <1>1, HeadFacts DEF StopsInv
<1>3. \A i \in instances \ restarted : \A side \in Sides : Settled(i, side)
  <2>1. \A i : \A side : /\ ~WillDo(todo["main"], 1, "ask", side, i)
                        /\ ~WillDisableAndAsk(todo["main"], 1, side, i)
    BY DEF WillDo, WillDisableAndAsk
  <2> QED
    BY <1>2, <2>1 DEF StopsInv, ExitInv, Settling
<1>4. StopReachesAll' /\ ExitCancels'
  <2>1. ASSUME NEW o \in live  PROVE o \in asked \cup late \cup (restarted \X Sides)
    <3>1. /\ o = <<o[1], o[2]>> /\ o[1] \in instances /\ o[2] \in Sides
      BY UsersFacts
    <3> QED
      BY <1>3, <3>1 DEF Settled
  <2> QED
    BY <1>1, <2>1 DEF StopsInv, StopReachesAll, ExitCancels
<1>5. \A i : ~Does(h, "disable", "both", i) /\ \A side : ~Does(h, "ask", side, i)
  BY <1>1 DEF Does
<1> HIDE DEF h
<1>6. \A i \in instances \ restarted' :
        /\ i \notin restarted
        /\ i \notin enabled => i \notin enabled'
        /\ Does(h, "disable", "both", i) => i \notin enabled'
        /\ \A side \in Sides :
             /\ Does(h, "disable", "both", i) => Quiet(i, side)'
             /\ Quiet(i, side) => Quiet(i, side)'
             /\ Settled(i, side) => Settled(i, side)'
             /\ Does(h, "ask", side, i) => Settled(i, side)'
  <2> TAKE i \in instances \ restarted'
  <2>1. i \notin restarted /\ (i \notin enabled => i \notin enabled')
    BY <1>1
  <2>2. ~Does(h, "disable", "both", i)
    BY <1>5
  <2>3. ASSUME NEW side \in Sides
        PROVE  /\ Does(h, "disable", "both", i) => Quiet(i, side)'
               /\ Quiet(i, side) => Quiet(i, side)'
               /\ Settled(i, side) => Settled(i, side)'
               /\ Does(h, "ask", side, i) => Settled(i, side)'
    <3>1. ~Does(h, "ask", side, i)
      BY <1>5
    <3>2. /\ Quiet(i, side) => Quiet(i, side)'
          /\ Settled(i, side) => Settled(i, side)'
      BY <1>1 DEF Quiet, Settled
    <3> QED
      BY <2>2, <3>1, <3>2
  <2> QED
    BY <2>1, <2>2, <2>3
<1>7. enabled' \ restarted' \subseteq enabled \ restarted
  BY <1>1
<1>8. /\ "main" \in Threads /\ todo["main"] # <<>> /\ Pop("main")
      /\ UNCHANGED <<main, users, user, callbacks, instances, PastCheck>>
  BY <1>1
<1> QED
  BY <1>4, <1>6, <1>7, <1>8, PoppedKeeps DEF h

LEMMA OthersKeep ==
  ASSUME TypeOK, StopsInv, Runs \/ UNCHANGED vars
  PROVE  StopsInv'
<1>1. /\ UNCHANGED <<main, users, user, callbacks>>
      /\ UNCHANGED <<todo, instances, enabled, restarted, late, stopped>>
      /\ PastCheck' \subseteq PastCheck \cup enabled
      /\ live' \ asked' \subseteq (live \ asked) \cup (PastCheck \X Sides)
      /\ process' = "ended" => process = "ended" /\ live' \ asked' \subseteq live \ asked
      /\ process = "ended" => process' \in {"ended", "terminated"}
  <2>1. CASE Runs
    BY <2>1, RunFacts DEF mainVars, readyVars, stopVars
  <2>2. CASE UNCHANGED vars
    BY <2>2 DEF vars, mainVars, readyVars, stopVars, tradeVars, threadVars, PastCheck
  <2> QED
    BY <2>1, <2>2
<1>2. ScriptsInv'
  BY <1>1 DEF StopsInv, ScriptsInv, Built, Step
<1> QED
  BY <1>1, <1>2, TradingKeeps

LEMMA StopsInit == Init => StopsInv
<1> SUFFICES ASSUME Init  PROVE StopsInv
  OBVIOUS
<1>1. /\ todo = [th \in Threads |-> <<>>] /\ instances = {} /\ process = "up"
      /\ callbacks = {} /\ main = "symbol config" /\ ~stopped
  BY DEF Init
<1>2. <<>> \in Seq(Step) /\ DOMAIN <<>> = {}
  OBVIOUS
<1>3. \A th \in Threads : todo[th] = <<>>
  BY <1>1
<1>4. todo \in [Threads -> Seq(Step)]
  BY <1>1, <1>2, Zenon
<1>5. ScriptsInv
  BY <1>1, <1>3, <1>4, FS_EmptySet DEF ScriptsInv
<1>6. \A th \in Threads : DOMAIN todo[th] = {}
  BY <1>2, <1>3, Zenon
<1>7. "main" \in Threads
  BY DEF Threads
<1>8. (\A th \in Threads : StopInv(th)) /\ ExitInv
  BY <1>6, <1>7 DEF StopInv, ExitInv
<1> QED
  BY <1>1, <1>5, <1>8 DEF StopsInv, StopReachesAll, ExitCancels

LEMMA StopsNext ==
  ASSUME TypeOK, StagesInv, StopsInv, [Next]_vars
  PROVE  StopsInv'
BY BuildKeeps, CommandKeeps, FeedCommandKeeps, SignalKeeps, ExitKeeps, FollowKeeps, OthersKeep
   DEF Next, Runs

-----------------------------------------------------------------------------
(* The types.                                                              *)

(* An instance is a user and a name it trades.                             *)
LEMMA InstanceFacts ==
  /\ \A i \in Instances : /\ i = <<i[1], i[2]>> /\ i[1] \in DOMAIN Trades
                          /\ i[2] \in Trades[i[1]] /\ i[2] \in Names
  /\ \A u \in DOMAIN Trades : \A n \in Trades[u] : <<u, n>> \in Instances
BY DEF Instances, Names

LEMMA StagesInit == Init => TypeOK /\ StagesInv
<1> SUFFICES ASSUME Init  PROVE TypeOK /\ StagesInv
  OBVIOUS
<1>1. Len(users) = 0 /\ symbols \in [Names -> SUBSET DOMAIN Trades]
  BY DEF Init
<1>2. \A n \in Names : symbols[n] = {}
  BY DEF Init
<1>3. StagesInv
  BY <1>2 DEF Init, StagesInv
<1>4. MaxCommands \in Nat
  BY StartupAssumption
<1>5. /\ user \in 1..(Len(users) + 1) /\ commands \in 0..MaxCommands
      /\ listening \subseteq Range(users) \X Sides \X Venues
  <2>1. user = 1 /\ commands = 0 /\ listening = {}
    BY DEF Init
  <2> QED
    BY <1>1, <1>4, <2>1
<1>6. TypeOK
  BY <1>1, <1>5 DEF Init, TypeOK, Stages
<1> QED
  BY <1>3, <1>6

(* What main does before the managers.                                     *)
LEMMA EarlyTyped ==
  ASSUME TypeOK, StagesInv,
         ParseSymbols \/ ParseTrading \/ ConnectRouter \/ Admin
  PROVE  TypeOK' /\ StagesInv'
<1>1. /\ UNCHANGED <<user, adding, feedVars, dataVars, readyVars, todo, instances,
                     enabled, tradeVars, stopVars, commands>>
      /\ \/ main' \in {"trading config", "admin", "symbols", main} /\ users' = users
            /\ (main' = "trading config" => main \in {"symbol config", "trading config"})
         \/ main = "trading config" /\ main' = "connect" /\ users' \in Configurations
      /\ process' \in {"up", "terminated", process}
  BY DEF ParseSymbols, ParseTrading, ConnectRouter, Admin, At, Go, Terminate
<1>2. /\ main' \in Stages /\ process' \in {"up", "ended", "terminated"}
      /\ users' \in Configurations \cup {<<>>}
  BY <1>1 DEF TypeOK, Stages
<1>3. main = "trading config" => users = <<>> /\ listening = {} /\ user = 1
  <2>1. user \in 1..(Len(users) + 1)
    BY DEF TypeOK
  <2>2. main = "trading config" => users = <<>> /\ listening = {}
    BY DEF StagesInv
  <2>3. ASSUME users = <<>>  PROVE user = 1
    <3>1. Len(users) = 0
      BY <2>3
    <3> QED
      BY ONLY <2>1, <3>1
  <2> QED
    BY <2>2, <2>3
<1>4. user' \in 1..(Len(users') + 1)
  <2>1. CASE users' = users
    BY <1>1, <2>1 DEF TypeOK
  <2>2. CASE users' \in Configurations /\ user = 1
    <3>1. Len(users') \in Nat
      BY <2>2, StartupAssumption
    <3>2. user' = 1
      BY <1>1, <2>2
    <3> QED
      BY <3>1, <3>2
  <2> QED
    BY <1>1, <1>3, <2>1, <2>2
<1>5. listening' \subseteq Range(users') \X Sides \X Venues
  BY <1>1, <1>3 DEF TypeOK, readyVars
<1>6. TypeOK'
  BY <1>1, <1>2, <1>4, <1>5
     DEF TypeOK, feedVars, dataVars, stopFeed, readyVars, tradeVars, threadVars, stopVars
<1>7. StagesInv'
  BY <1>1 DEF StagesInv, feedVars, readyVars
<1> QED
  BY <1>6, <1>7

(* SymbolManager.                                                          *)
LEMMA FeedTyped ==
  ASSUME TypeOK, StagesInv,
         \/ \E i \in Instances : AddSymbol(i[1], i[2])
         \/ Subscribe \/ Register \/ EndSymbols
  PROVE  TypeOK' /\ StagesInv'
<1>1. /\ UNCHANGED <<process, users, user, dataVars, timers, listening, todo,
                     instances, enabled, tradeVars, stopVars, commands>>
      /\ main \in {"symbols", "subscribe", "register"}
      /\ main' \in {"symbols", "subscribe", "register", "accounts"}
      /\ callbacks' \in {callbacks, callbacks \cup {"ss", "rs"}}
  BY DEF AddSymbol, Subscribe, Register, EndSymbols, At, Go, readyVars
<1>2. TypeOK' /\ StagesInv'
      <=> /\ adding' \in Instances \cup {Nothing}
          /\ subscribed' \subseteq symbol_hash' /\ symbol_hash' \subseteq Names
          /\ symbols' \in [Names -> SUBSET DOMAIN Trades]
          /\ main' \in {"subscribe", "register"} =>
               adding' \in Instances /\ adding'[2] \in symbol_hash'
          /\ \A n \in Names : \A u \in symbols'[n] : <<u, n>> \in Instances
  BY <1>1 DEF TypeOK, StagesInv, Stages, dataVars, stopFeed, tradeVars, threadVars, stopVars
<1>3. ASSUME NEW i \in Instances, AddSymbol(i[1], i[2])  PROVE TypeOK' /\ StagesInv'
  <2>1. /\ adding' = i /\ symbol_hash' = symbol_hash \cup {i[2]}
        /\ UNCHANGED <<subscribed, symbols>>
    BY <1>3, InstanceFacts DEF AddSymbol, Hashed
  <2> QED
    BY <1>2, <2>1, InstanceFacts DEF TypeOK, StagesInv
<1>4. CASE Subscribe
  <2>1. /\ main = "subscribe" /\ subscribed' \in {subscribed, subscribed \cup {adding[2]}}
        /\ UNCHANGED <<adding, symbol_hash, symbols>>
    BY <1>4 DEF Subscribe, At
  <2> QED
    BY <1>2, <2>1 DEF TypeOK, StagesInv
<1>5. CASE Register
  <2>1. /\ main = "register" /\ main' = "symbols" /\ adding' = Nothing
        /\ symbols' = [symbols EXCEPT ![adding[2]] = @ \cup {adding[1]}]
        /\ UNCHANGED <<subscribed, symbol_hash>>
    BY <1>5 DEF Register, At, Go
  <2>2. /\ adding \in Instances /\ adding = <<adding[1], adding[2]>>
        /\ adding[1] \in DOMAIN Trades /\ adding[2] \in Names
    BY <2>1, InstanceFacts DEF StagesInv
  <2>3. symbols' \in [Names -> SUBSET DOMAIN Trades]
    BY <2>1, <2>2 DEF TypeOK
  <2>4. \A n \in Names : \A u \in symbols'[n] : <<u, n>> \in Instances
    BY <2>1, <2>2 DEF TypeOK, StagesInv
  <2> QED
    BY <1>2, <2>1, <2>3, <2>4 DEF TypeOK
<1>6. CASE EndSymbols
  <2>1. main' = "accounts" /\ UNCHANGED <<adding, feedVars>>
    BY <1>6 DEF EndSymbols, Go
  <2> QED
    BY <1>2, <2>1 DEF TypeOK, StagesInv, feedVars
<1> QED
  BY <1>3, <1>4, <1>5, <1>6

(* The managers.                                                           *)
LEMMA AccountsTyped ==
  ASSUME TypeOK, StagesInv,
         \/ StartTimers
         \/ \E side \in Sides : NextAccount(side) \/ \E v \in Venues : Login(side, v)
         \/ \E n \in Names : StartInstance(n)
         \/ NextUser \/ RegisterCommands \/ Ready
  PROVE  TypeOK' /\ StagesInv'
<1>1. /\ UNCHANGED <<users, adding, feedVars, dataVars, todo, tradeVars, stopVars, commands>>
      /\ main \in {"accounts", "short", "long", "instances"}
      /\ main' \in {"accounts", "short", "long", "instances", "run"}
      /\ process' \in {process, "terminated"}
  BY DEF StartTimers, NextAccount, Login, StartInstance, NextUser, RegisterCommands,
         Ready, At, Go, Terminate, AfterLogin, Sides, mainVars
<1>2. /\ main' \in {"short", "long", "instances"} => user <= Len(users) /\ user' = user
      /\ user' = user \/ (user' = user + 1 /\ user <= Len(users))
  BY DEF StartTimers, NextAccount, Login, StartInstance, NextUser, RegisterCommands,
         Ready, At, Go, Terminate, Sides, StagesInv, mainVars
<1>3. Len(users) \in Nat
  <2>1. Len(<<>>) = 0
    OBVIOUS
  <2> QED
    BY <2>1, StartupAssumption DEF TypeOK
<1>4. user' \in 1..(Len(users) + 1)
  BY <1>2, <1>3 DEF TypeOK
<1>5. timers' \subseteq DOMAIN Trades /\ callbacks' \subseteq {"ss", "rs", "st", "rt"}
  BY DEF StartTimers, NextAccount, Login, StartInstance, NextUser, RegisterCommands,
         Ready, TypeOK, readyVars
<1>6. listening' \subseteq Range(users) \X Sides \X Venues
  <2>1. ASSUME NEW side \in Sides, NEW v \in Venues, Login(side, v)
        PROVE  listening' \subseteq Range(users) \X Sides \X Venues
    <3>1. user \in 1..Len(users)
      <4>1. main = side /\ side \in {"short", "long"}
        BY <2>1 DEF Login, At, Sides
      <4>2. user <= Len(users)
        BY <4>1 DEF StagesInv
      <4>3. user \in 1..(Len(users) + 1)
        BY DEF TypeOK
      <4> QED
        BY ONLY <1>3, <4>2, <4>3
    <3>2. users \in Seq(Range(users))
      BY <3>1, StartupAssumption DEF TypeOK
    <3>3. User \in Range(users)
      BY <3>1, <3>2 DEF User
    <3>4. listening' \subseteq listening \cup {<<User, side, v>>}
      BY <2>1 DEF Login
    <3> QED
      BY <3>3, <3>4 DEF TypeOK
  <2>2. CASE UNCHANGED listening
    BY <2>2 DEF TypeOK
  <2> QED
    BY <2>1, <2>2 DEF StartTimers, NextAccount, StartInstance, NextUser,
       RegisterCommands, Ready, readyVars
<1>7. /\ instances' \subseteq Instances
      /\ instances \subseteq instances' /\ enabled' \subseteq enabled \cup instances'
  <2>1. ASSUME NEW n \in Names, StartInstance(n)
        PROVE  /\ instances' \subseteq Instances
               /\ instances \subseteq instances' /\ enabled' \subseteq enabled \cup instances'
    <3>1. <<User, n>> \in Instances
      BY <2>1, InstanceFacts DEF StartInstance
    <3> QED
      BY <2>1, <3>1 DEF StartInstance, TypeOK
  <2>2. CASE UNCHANGED <<instances, enabled>>
    BY <2>2 DEF TypeOK
  <2> QED
    BY <2>1, <2>2 DEF StartTimers, NextAccount, Login, NextUser, RegisterCommands, Ready
<1>8. main' \in Stages /\ process' \in {"up", "ended", "terminated"}
  BY <1>1 DEF TypeOK, Stages
<1>9. TypeOK'
  <2>1. /\ enabled' \cup waiting' \cup trading' \cup over' \cup restarted' \subseteq instances'
        /\ asked' \subseteq live' /\ live' \cup late' \subseteq instances' \X Sides
    BY <1>1, <1>7 DEF TypeOK, tradeVars, threadVars, stopVars
  <2> QED
    BY <1>1, <1>4, <1>5, <1>6, <1>7, <1>8, <2>1
       DEF TypeOK, feedVars, dataVars, stopFeed, tradeVars, threadVars, stopVars
<1>10. StagesInv'
  BY <1>1, <1>2 DEF StagesInv, feedVars
<1> QED
  BY <1>9, <1>10

(* Nothing else moves main on.                                             *)
LEMMA ElsewhereTyped ==
  ASSUME TypeOK, StagesInv, UNCHANGED <<mainVars, feedVars, readyVars, instances>>,
         process' \in {"up", "ended", "terminated"},
         all_enable' \in BOOLEAN, this_enable' \in [Names -> BOOLEAN],
         estimated' \subseteq priced', priced' \cup stamped' \subseteq Instances,
         enabled' \cup waiting' \cup trading' \cup over' \cup restarted' \subseteq instances,
         asked' \subseteq live', live' \cup late' \subseteq instances \X Sides,
         stopped' \in BOOLEAN, commands' \in 0..MaxCommands
  PROVE  TypeOK' /\ StagesInv'
BY DEF TypeOK, StagesInv, mainVars, feedVars, readyVars

LEMMA EnteredTyped ==
  ASSUME TypeOK, StagesInv, NEW c \in Consoles, Typed(c)
  PROVE  TypeOK' /\ StagesInv'
<1>1. /\ UNCHANGED <<process, mainVars, feedVars, readyVars, instances, enabled>>
      /\ UNCHANGED <<priced, estimated, stamped, tradeVars>>
      /\ commands' = commands + 1 /\ commands < MaxCommands
  BY DEF Typed, Command, Enter, FeedCommand, Entered
<1>2. /\ stopped' \in BOOLEAN /\ restarted' \subseteq instances /\ late' = late
  <2>1. BeginStop \/ UNCHANGED stopVars
    BY DEF Typed, Command, Enter, FeedCommand
  <2> QED
    BY <2>1 DEF BeginStop, stopVars, TypeOK
<1>3. all_enable' \in BOOLEAN /\ this_enable' \in [Names -> BOOLEAN]
  <2>1. CASE \E name \in {"st", "rt"} : Command(c, name)
    BY <2>1 DEF Command, Enter, stopFeed, TypeOK
  <2>2. CASE \E name \in {"ss", "rs"} : FeedCommand(c, name)
    BY <2>2 DEF FeedCommand, stopFeed, TypeOK
  <2> QED
    BY <2>1, <2>2 DEF Typed
<1>4. commands' \in 0..MaxCommands
  BY <1>1, StartupAssumption DEF TypeOK
<1> QED
  BY <1>1, <1>2, <1>3, <1>4, ElsewhereTyped DEF TypeOK, tradeVars, threadVars

LEMMA CommandsTyped ==
  ASSUME TypeOK, StagesInv, ScriptsInv,
         Signal \/ Exit \/ (\E th \in Threads : Follow(th)) \/ UNCHANGED vars
  PROVE  TypeOK' /\ StagesInv'
<1>1. UNCHANGED <<mainVars, feedVars, readyVars, instances, dataVars, threadVars, commands>>
  BY DEF Signal, Terminate, Exit, Follow, Cancel, Ask, Disable, Enable, EndStop, vars,
         tradeVars, mainVars
<1>2. ASSUME Signal \/ Exit \/ UNCHANGED vars
      PROVE  /\ process' \in {process, "terminated", "ended"}
             /\ UNCHANGED <<enabled, live, asked, late>>
             /\ stopped' \in BOOLEAN /\ restarted' \subseteq instances
  <2>1. BeginStop \/ UNCHANGED stopVars
    BY <1>2 DEF Signal, Exit, vars
  <2>2. stopped' \in BOOLEAN /\ restarted' \subseteq instances /\ late' = late
    BY <2>1 DEF BeginStop, stopVars, TypeOK
  <2> QED
    BY <1>2, <2>2 DEF Signal, Terminate, Exit, vars, tradeVars
<1>3. ASSUME NEW th \in Threads, Follow(th)
      PROVE  /\ UNCHANGED process /\ stopped' \in BOOLEAN
             /\ enabled' \cup restarted' \subseteq instances
             /\ asked' \subseteq live' /\ live' \cup late' \subseteq instances \X Sides
  <2>1. todo[th] # <<>>
    BY <1>3 DEF Follow, Cancel, Ask, Disable, Enable, EndStop, AtHead
  <2>2. Head(todo[th]).of \subseteq instances
    BY <2>1, HeadFacts
  <2>3. PastCheck \subseteq instances
    BY UsersFacts
  <2>4. /\ UNCHANGED <<process, live>>
        /\ stopped' = stopped \/ stopped' \in BOOLEAN
        /\ enabled' \subseteq enabled \cup Head(todo[th]).of
        /\ restarted' \subseteq restarted \cup Head(todo[th]).of
        /\ asked' \subseteq asked \cup live
        /\ late' \subseteq late \cup (PastCheck \X Sides)
    BY <1>3 DEF Follow, Cancel, Ask, Disable, Enable, EndStop, tradeVars, stopVars
  <2> HIDE DEF ScriptsInv
  <2> QED
    BY <2>2, <2>3, <2>4 DEF TypeOK
<1>4. /\ process' \in {"up", "ended", "terminated"} /\ stopped' \in BOOLEAN
      /\ enabled' \cup restarted' \subseteq instances
      /\ asked' \subseteq live' /\ live' \cup late' \subseteq instances \X Sides
  BY <1>2, <1>3 DEF TypeOK
<1> QED
  BY <1>1, <1>4, ElsewhereTyped DEF TypeOK, dataVars, stopFeed, threadVars

LEMMA TradingTyped ==
  ASSUME TypeOK, StagesInv, Runs
  PROVE  TypeOK' /\ StagesInv'
<1>1. /\ UNCHANGED <<mainVars, feedVars, readyVars, instances, enabled, stopVars, commands>>
      /\ process' \in {process, "terminated"}
  BY RunFacts
<1>2. /\ waiting' \cup trading' \cup over' \subseteq instances
      /\ asked' \subseteq live' /\ live' \subseteq instances \X Sides
  <2>1. CASE \E n \in Names : TradePrice(n) \/ Quote(n)
    BY <2>1 DEF TradePrice, Quote, TypeOK, tradeVars, threadVars
  <2>2. CASE \E u \in DOMAIN Trades : Timer(u)
    BY <2>2 DEF Timer, TypeOK, tradeVars, threadVars
  <2>3. CASE \E i \in Instances : Check(i) \/ BeginRound(i) \/ EndRound(i)
    BY <2>3 DEF Check, BeginRound, EndRound, TypeOK
  <2>4. ASSUME NEW o \in Orders, SendOrder(o[1], o[2])
        PROVE  /\ waiting' \cup trading' \cup over' \subseteq instances
               /\ asked' \subseteq live' /\ live' \subseteq instances \X Sides
    <3>1. <<o[1], o[2]>> \in instances \X Sides
      BY <2>4 DEF Orders, SendOrder, TypeOK
    <3> QED
      BY <2>4, <3>1 DEF SendOrder, TypeOK, threadVars
  <2>5. CASE \E o \in Orders : End(o)
    BY <2>5 DEF End, TypeOK, threadVars
  <2> QED
    BY <2>1, <2>2, <2>3, <2>4, <2>5 DEF Runs
<1>3. /\ estimated' \subseteq priced' /\ priced' \cup stamped' \subseteq Instances
      /\ UNCHANGED stopFeed
  <2>1. ASSUME NEW n \in Names, TradePrice(n) \/ Quote(n)
        PROVE  /\ estimated' \subseteq priced' /\ priced' \cup stamped' \subseteq Instances
               /\ UNCHANGED stopFeed
    <3>1. Told(n) \subseteq Instances
      BY DEF Told, StagesInv
    <3> QED
      BY <2>1, <3>1 DEF TradePrice, Quote, TypeOK
  <2>2. ASSUME NEW u \in DOMAIN Trades, Timer(u)
        PROVE  /\ estimated' \subseteq priced' /\ priced' \cup stamped' \subseteq Instances
               /\ UNCHANGED stopFeed
    BY <2>2 DEF Timer, Estimable, TypeOK
  <2>3. ASSUME NEW i \in Instances, Check(i) \/ BeginRound(i) \/ EndRound(i)
        PROVE  /\ estimated' \subseteq priced' /\ priced' \cup stamped' \subseteq Instances
               /\ UNCHANGED stopFeed
    BY <2>3 DEF Check, BeginRound, EndRound, dataVars, TypeOK
  <2>4. CASE UNCHANGED dataVars
    BY <2>4 DEF dataVars, TypeOK
  <2> QED
    BY <2>1, <2>2, <2>3, <2>4 DEF Runs, SendOrder, End
<1> QED
  BY <1>1, <1>2, <1>3, ElsewhereTyped DEF TypeOK, stopFeed, stopVars

LEMMA StagesNext ==
  ASSUME TypeOK, StagesInv, ScriptsInv, [Next]_vars
  PROVE  TypeOK' /\ StagesInv'
BY EarlyTyped, FeedTyped, AccountsTyped, EnteredTyped, CommandsTyped, TradingTyped
   DEF Next, StartUp, Typed, Runs

(* Every step keeps the types, the stages and the scripts.                 *)
StartupInv == TypeOK /\ StagesInv /\ StopsInv

LEMMA StartupInvariant == Spec => []StartupInv
<1>1. Init => StartupInv
  BY StagesInit, StopsInit DEF StartupInv
<1>2. StartupInv /\ [Next]_vars => StartupInv'
  <2>1. ASSUME StartupInv, [Next]_vars  PROVE StartupInv'
    <3>1. TypeOK /\ StagesInv /\ StopsInv /\ ScriptsInv
      BY <2>1 DEF StartupInv, StopsInv
    <3> QED
      BY <2>1, <3>1, StagesNext, StopsNext DEF StartupInv
  <2> QED
    BY <2>1
<1> QED
  BY <1>1, <1>2, PTL DEF Spec

(* Every variable keeps its type: data comes only for names that have a    *)
(* SymbolInfo, prices only for instances that can be, and what is enabled, *)
(* past its check, at the market, asked for, restarted or late is always   *)
(* (an order of) an instance that a constructor of TradeAccount has        *)
(* started.                                                                *)
THEOREM StartupTyped == Spec => []TypeOK
<1>1. StartupInv => TypeOK
  BY DEF StartupInv
<1> QED
  BY <1>1, StartupInvariant, PTL

(* A stop of all that ends while no other script runs has disabled every   *)
(* instance that nobody restarted since it began, whoever entered it and   *)
(* whenever: no command is known before the last instance has been built.  *)
THEOREM StopsReachAll == Spec => []StopReachesAll
<1>1. StartupInv => StopReachesAll
  BY DEF StartupInv, StopsInv
<1> QED
  BY <1>1, StartupInvariant, PTL

(* main returns only after every instance was disabled and, later, both    *)
(* accounts of its user were asked to cancel all they have: what is left   *)
(* at the market and not asked for was sent by an instance that was past   *)
(* its look at is_enable from the disable to the request, or restarted.    *)
(* That the exchange cancels what it is asked to is no part of this.       *)
THEOREM ExitsCancelled == Spec => []ExitCancels
<1>1. StartupInv => ExitCancels
  BY DEF StartupInv, StopsInv
<1> QED
  BY <1>1, StartupInvariant, PTL
=============================================================================

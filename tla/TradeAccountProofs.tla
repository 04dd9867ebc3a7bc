------------------------- MODULE TradeAccountProofs -------------------------
(***************************************************************************)
(* The inductive invariant of TradeAccount, and what follows from it for   *)
(* every number of orders, every order limit and every set of threads:     *)
(* that it implements the ledger of its fills, and that its totals are     *)
(* sums over all the orders ever sent.  Then what the answers of the       *)
(* router mean to the threads that wait for them: a thread is never left   *)
(* asleep on an answer that is there, an order whose cancel is reported    *)
(* done is over, and a pending close order is not lost.                    *)
(***************************************************************************)
EXTENDS TradeAccount, FoldLemmas

-----------------------------------------------------------------------------
(* Sequences.                                                              *)

(* Appending to a queue leaves the earlier elements where they were.       *)
LEMMA AppendFacts ==
  ASSUME NEW S, NEW s \in Seq(S), NEW e \in S
  PROVE  /\ Append(s, e) \in Seq(S)
         /\ Len(s) \in Nat
         /\ Len(Append(s, e)) = Len(s) + 1
         /\ DOMAIN Append(s, e) = 1..(Len(s) + 1)
         /\ DOMAIN s = 1..Len(s)
         /\ \A k \in 1..Len(s) : Append(s, e)[k] = s[k]
         /\ Append(s, e)[Len(s) + 1] = e
BY AppendProperties, LenProperties

(* Taking the head of a queue moves every other element up by one.         *)
LEMMA TailFacts ==
  ASSUME NEW S, NEW s \in Seq(S), s # <<>>
  PROVE  /\ Tail(s) \in Seq(S)
         /\ Len(s) \in Nat \ {0}
         /\ Len(Tail(s)) = Len(s) - 1
         /\ DOMAIN Tail(s) = 1..(Len(s) - 1)
         /\ DOMAIN s = 1..Len(s)
         /\ Head(s) \in S
         /\ Head(s) = s[1]
         /\ \A k \in 1..(Len(s) - 1) : Tail(s)[k] = s[k + 1]
<1>1. Len(s) \in Nat \ {0}
  BY EmptySeq, LenProperties
<1>2. Tail(s) \in Seq(S) /\ Len(Tail(s)) = Len(s) - 1 /\ Head(s) \in S
  BY HeadTailProperties
<1>3. DOMAIN s = 1..Len(s) /\ DOMAIN Tail(s) = 1..(Len(s) - 1)
  BY <1>1, <1>2, LenProperties
<1>4. Head(s) = s[1] /\ \A k \in 1..(Len(s) - 1) : Tail(s)[k] = s[k + 1]
  BY <1>1, <1>2, <1>3, HeadTailProperties
<1> QED
  BY <1>1, <1>2, <1>3, <1>4

(* What is left of an order once b more of it is filled.                   *)
LEMMA LeavesAfterFill ==
  ASSUME NEW a \in Int, NEW b \in Int, NEW c \in Int, NEW d \in Int, a + b = c - d
  PROVE  a = c - (d + b)
OBVIOUS

-----------------------------------------------------------------------------
(* One order under one step.                                               *)

(* What OrderInv(i) reads of the order's own copy.                         *)
SameOrder(i) ==
  /\ info'[i].size = info[i].size
  /\ info'[i].fill_size = info[i].fill_size
  /\ info'[i].stage = info[i].stage
  /\ info'[i].side = info[i].side
  /\ info'[i].onFill = info[i].onFill

(* A step that touches nothing OrderInv(i) reads keeps it.                 *)
LEMMA OrderUntouched ==
  ASSUME NEW i \in Ids, OrderInv(i),
         book'[i] = book[i], inbox'[i] = inbox[i], SameOrder(i),
         i < next <=> i < next',
         ~(i < next) => (i \in orders' => i \in orders),
         book[i].original < next => book[i].original < next',
         next \in Nat, next' \in Nat, book[i].original \in Nat,
         i \in order_hash => i \in order_hash',
         Erasing(i)' => Erasing(i),
         (g.pc = "count" /\ g.id = i)' => g.pc = "count" /\ g.id = i
  PROVE  OrderInv(i)'
<1>1. FreshId(i)' /\ ReplacesAnother(i)'
  BY DEF OrderInv, SameOrder, FreshId, ReplacesAnother, Ids
<1>2. EventForm(i)' /\ ThrottledOnce(i)'
  BY DEF OrderInv, EventForm, ThrottledOnce
<1>3. ClosedIsLast(i)'
  BY DEF OrderInv, SameOrder, ClosedIsLast, Erasing, OnlyRefusals
<1>4. SidesAgree(i)' /\ DoneIsFull(i)'
  BY DEF OrderInv, SameOrder, SidesAgree, DoneIsFull, Opens
<1>5. Reconciles(i)' /\ Matches(i)'
  BY DEF OrderInv, SameOrder, Reconciles, Matches, LeavesBefore
<1> QED
  BY <1>1, <1>2, <1>3, <1>4, <1>5 DEF OrderInv

(* The exchange tells an order something: a refusal, which leaves the      *)
(* order as it is, or news of an order it is working on, which it stops    *)
(* working on when the news is that the order is closed.                   *)
LEMMA OrderTold ==
  ASSUME NEW i \in Ids, OrderInv(i), inbox[i] \in Seq(Event),
         book[i] \in BookEntry, book'[i] \in BookEntry,
         info[i] \in OrderInfo, next \in Nat, next' = next, orders' = orders, g' = g,
         info' = info, order_hash' = order_hash,
         NEW e \in Event, inbox'[i] = Append(inbox[i], e),
         i < next, book'[i].state = "none" <=> book[i].state = "none",
         e.openSize = book'[i].leaves, e.openSize + e.size = book[i].leaves,
         e.kind = "FILL" <=> e.size > 0,
         e.kind = "DONE" => e.openSize = 0,
         book'[i].state = "filled" => book'[i].leaves = 0,
         book'[i].state = "replacing" => book[i].state = "replacing",
         book'[i].original = book[i].original,
         \/ e.kind \in Refusals /\ book'[i].state = book[i].state
         \/ /\ book[i].state \in Working \ {"throttled"}
            /\ e.kind \notin Refusals
            /\ e.kind = "THROTTLE" => book'[i].state = "throttled"
            /\ book'[i].state \in Working => e.kind \notin Closing
  PROVE  OrderInv(i)'
<1> DEFINE s == inbox[i]  n == Len(s)  s2 == inbox'[i]
<1>1. /\ n \in Nat /\ DOMAIN s = 1..n /\ DOMAIN s2 = 1..(n + 1)
      /\ \A k \in 1..n : s2[k] = s[k]
      /\ s2[n + 1] = e /\ Len(s2) = n + 1
      /\ \A k \in 1..n : s[k] \in Event
  BY AppendFacts, ElementOfSeq
<1> HIDE DEF s, n, s2
<1> USE <1>1 DEF OrderInv
<1>k. "THROTTLE" \notin Refusals /\ "THROTTLE" \notin Closing /\ Closing \cap Refusals = {}
      /\ "none" \notin Working
  BY DEF Refusals, CancelRefusals, Closing, Working
<1>2. FreshId(i)' /\ ReplacesAnother(i)'
  BY DEF FreshId, ReplacesAnother
<1>3. EventForm(i)'
  BY <1>k DEF EventForm, s, s2
<1>4. ThrottledOnce(i)'
  BY <1>k DEF ThrottledOnce, s, s2
<1>5. ClosedIsLast(i)'
  BY <1>k DEF ClosedIsLast, OnlyRefusals, Erasing, s, s2
<1>6. SidesAgree(i)' /\ DoneIsFull(i)'
  BY DEF SidesAgree, DoneIsFull, Opens
<1>7. Reconciles(i)'
  <2> SUFFICES ASSUME book'[i].state # "none"
               PROVE  /\ \A k \in 1..(n + 1) :
                           s2[k].openSize + s2[k].size =
                             IF k = 1 THEN info[i].size - info[i].fill_size
                                      ELSE s2[k - 1].openSize
                      /\ book'[i].leaves = IF n + 2 = 1
                                             THEN info[i].size - info[i].fill_size
                                             ELSE s2[n + 1].openSize
    BY DEF Reconciles, LeavesBefore, s2
  <2>0. /\ \A k \in 1..n : s[k].openSize + s[k].size = LeavesBefore(i, k)
        /\ book[i].leaves = LeavesBefore(i, n + 1)
    BY DEF Reconciles, s, n
  <2>1. /\ \A k \in 1..n : s[k].openSize + s[k].size =
                             IF k = 1 THEN info[i].size - info[i].fill_size
                                      ELSE s[k - 1].openSize
        /\ book[i].leaves = IF n + 1 = 1 THEN info[i].size - info[i].fill_size
                                         ELSE s[(n + 1) - 1].openSize
    BY <2>0 DEF LeavesBefore, s
  <2>2. ASSUME NEW k \in 1..(n + 1)
        PROVE  s2[k].openSize + s2[k].size =
                 IF k = 1 THEN info[i].size - info[i].fill_size ELSE s2[k - 1].openSize
    <3>1. CASE k = n + 1
      BY <2>1, <3>1
    <3>2. CASE k \in 1..n
      BY <2>1, <3>2
    <3> QED
      BY <3>1, <3>2
  <2> QED
    BY <2>2
<1>8. Matches(i)'
  BY <1>k DEF Matches, ClosedIsLast, s, s2
<1> QED
  BY <1>2, <1>3, <1>4, <1>5, <1>6, <1>7, <1>8

(* What the oldest event of an order says of the order.                    *)
LEMMA HeadFacts ==
  ASSUME NEW i \in Ids, OrderInv(i), inbox[i] \in Seq(Event), inbox[i] # <<>>,
         info[i] \in OrderInfo, next \in Nat,
         NEW e, e = Head(inbox[i])
  PROVE  /\ e \in Event
         /\ i < next
         /\ e.kind = "FILL" <=> e.size > 0
         /\ e.kind # "FILL" => e.size = 0
         /\ e.kind = "THROTTLE" => book[i].state = "throttled"
         /\ e.kind \notin Refusals =>
              /\ i \in order_hash
              /\ info[i].stage # "DONE"
              /\ e.openSize = info[i].size - info[i].fill_size - e.size
         /\ e.kind = "DONE" => info[i].fill_size = info[i].size
         /\ e.kind \in Closing => book[i].state \notin Working
<1>1. e \in Event /\ e = inbox[i][1] /\ 1 \in DOMAIN inbox[i]
  BY TailFacts
<1>2. i < next
  BY DEF OrderInv, FreshId, Ids, OrderAssumption
<1>3. /\ e.kind = "FILL" <=> e.size > 0
      /\ e.kind # "FILL" => e.size = 0
      /\ e.kind = "DONE" => e.openSize = 0
      /\ e.kind \notin Refusals => book[i].state # "none"
  BY <1>1 DEF OrderInv, EventForm, Event
<1>4. e.kind = "THROTTLE" => book[i].state = "throttled"
  BY <1>1 DEF OrderInv, ThrottledOnce
<1>5. e.kind \notin Refusals => i \in order_hash /\ info[i].stage # "DONE"
  BY <1>1 DEF OrderInv, Matches, ClosedIsLast, OnlyRefusals
<1>6. e.kind \in Closing => book[i].state \notin Working
  BY <1>1 DEF OrderInv, ClosedIsLast
<1>7. e.kind \notin Refusals => e.openSize + e.size = info[i].size - info[i].fill_size
  BY <1>1, <1>3 DEF OrderInv, Reconciles, LeavesBefore
<1>8. e.kind \notin Refusals => e.openSize = info[i].size - info[i].fill_size - e.size
  BY <1>1, <1>7 DEF Event, OrderInfo
<1>9. e.kind = "DONE" => info[i].fill_size = info[i].size
  BY <1>1, <1>3, <1>8 DEF Refusals, CancelRefusals, OrderInfo, Event
<1> QED
  BY <1>1, <1>2, <1>3, <1>4, <1>5, <1>6, <1>8, <1>9

(* A callback takes the oldest event of an order, adds up what it says was *)
(* filled, and forgets the order only when the event closes it.            *)
LEMMA OrderHandled ==
  ASSUME NEW i \in Ids, OrderInv(i), inbox[i] \in Seq(Event), inbox[i] # <<>>,
         book[i] \in BookEntry, info[i] \in OrderInfo, info'[i] \in OrderInfo,
         next \in Nat, next' = next, g.pc = "idle",
         inbox'[i] = Tail(inbox[i]), orders' \subseteq orders,
         NEW e, e = Head(inbox[i]),
         \/ book'[i] = book[i]
         \/ e.kind = "THROTTLE" /\ book'[i] = [book[i] EXCEPT !.state = "posted"],
         info'[i].size = info[i].size, info'[i].side = info[i].side,
         info'[i].onFill = info[i].onFill,
         info'[i].fill_size = info[i].fill_size + e.size,
         info'[i].stage = "DONE" => info[i].stage = "DONE" \/ e.kind = "DONE",
         i \in order_hash => i \in order_hash' \/ e.kind \in Closing,
         Erasing(i)' => e.kind \in Closing,
         (g.pc = "count" /\ g.id = i)' => e.kind = "DONE" /\ info'[i].stage = "DONE"
  PROVE  OrderInv(i)'
<1> DEFINE s == inbox[i]  n == Len(s)  r == inbox'[i]
<1>1. /\ n \in Nat \ {0} /\ DOMAIN s = 1..n /\ DOMAIN r = 1..(n - 1)
      /\ \A k \in 1..(n - 1) : r[k] = s[k + 1] /\ k + 1 \in 1..n
      /\ s[1] = e /\ Len(r) = n - 1 /\ r \in Seq(Event)
      /\ \A k \in 1..n : s[k] \in Event
  BY TailFacts, ElementOfSeq
<1>2. /\ e \in Event
      /\ i < next
      /\ e.kind = "THROTTLE" => book[i].state = "throttled"
      /\ e.kind # "FILL" => e.size = 0
      /\ e.kind = "DONE" => info[i].fill_size = info[i].size
      /\ e.kind \in Closing => book[i].state \notin Working
  BY HeadFacts
<1>k. /\ "DONE" \in Closing /\ "THROTTLE" \notin Closing /\ "none" \notin Working
      /\ "throttled" \in Working /\ Closing \cap Refusals = {}
  BY DEF Closing, Refusals, CancelRefusals, Working
<1> HIDE DEF s, n, r
<1> USE <1>1, <1>2, <1>k DEF OrderInv
<1>3. FreshId(i)' /\ ReplacesAnother(i)'
  BY DEF FreshId, ReplacesAnother, BookEntry
<1>4. EventForm(i)'
  BY DEF EventForm, s, r, BookEntry
<1>5. ThrottledOnce(i)'
  <2>1. \A k \in 1..n : s[k].kind = "THROTTLE" =>
          book[i].state = "throttled" /\ \A l \in 1..n : s[l].kind = "THROTTLE" => k = l
    BY DEF ThrottledOnce, s
  <2>2. ASSUME NEW k \in 1..(n - 1), r[k].kind = "THROTTLE"
        PROVE  /\ book'[i].state = "throttled"
               /\ \A l \in 1..(n - 1) : r[l].kind = "THROTTLE" => k = l
    <3>1. s[k + 1].kind = "THROTTLE" /\ k + 1 # 1 /\ k + 1 \in 1..n
      BY <2>2
    <3>2. e.kind # "THROTTLE" /\ book'[i].state = "throttled"
      BY <2>1, <3>1, SMTT(60)
    <3>3. ASSUME NEW l \in 1..(n - 1), r[l].kind = "THROTTLE"  PROVE k = l
      BY <2>1, <3>1, <3>3
    <3> QED
      BY <3>2, <3>3
  <2> QED
    BY <2>2 DEF ThrottledOnce, r
<1>6. ASSUME e.kind \in Closing  PROVE OnlyRefusals(r)
  <2>1. \A j, k \in 1..n : j < k /\ s[j].kind \in Closing => s[k].kind \in Refusals
    BY DEF ClosedIsLast, s
  <2>2. ASSUME NEW k \in 1..(n - 1)  PROVE r[k].kind \in Refusals
    <3>1. 1 \in 1..n /\ k + 1 \in 1..n /\ 1 < k + 1 /\ r[k] = s[k + 1]
      OBVIOUS
    <3> QED
      BY <1>6, <2>1, <3>1
  <2> QED
    BY <2>2 DEF OnlyRefusals
<1>7. ClosedIsLast(i)'
  <2>1. \A j, k \in DOMAIN r : j < k /\ r[j].kind \in Closing => r[k].kind \in Refusals
    BY DEF ClosedIsLast, s
  <2>2. Erasing(i)' \/ info'[i].stage = "DONE" => OnlyRefusals(r)
    BY <1>6 DEF ClosedIsLast, OnlyRefusals, s
  <2>3. ASSUME book'[i].state \in Working
        PROVE  /\ i \in order_hash' /\ ~Erasing(i)' /\ info'[i].stage # "DONE"
               /\ \A k \in DOMAIN r : r[k].kind \notin Closing
    <3>1. book[i].state \in Working
      BY <2>3
    <3> QED
      BY <3>1 DEF ClosedIsLast, s
  <2> QED
    BY <2>1, <2>2, <2>3 DEF ClosedIsLast, r
<1>8. SidesAgree(i)' /\ DoneIsFull(i)'
  BY DEF SidesAgree, DoneIsFull, Opens, OrderInfo
<1>9. Reconciles(i)'
  <2> DEFINE B(k) == IF k = 1 THEN info'[i].size - info'[i].fill_size
                              ELSE r[k - 1].openSize
             A(k) == IF k = 1 THEN info[i].size - info[i].fill_size
                              ELSE s[k - 1].openSize
  <2> SUFFICES ASSUME book'[i].state # "none"
               PROVE  /\ \A k \in 1..(n - 1) : r[k].openSize + r[k].size = B(k)
                      /\ book'[i].leaves = B(n)
    <3>1. Len(inbox'[i]) + 1 = n /\ DOMAIN inbox'[i] = 1..(n - 1)
      BY DEF r
    <3> QED
      BY <3>1 DEF Reconciles, LeavesBefore, r
  <2>1. book[i].state # "none" /\ book'[i].leaves = book[i].leaves
    BY DEF BookEntry
  <2>2. /\ \A k \in 1..n : s[k].openSize + s[k].size = A(k)
        /\ book[i].leaves = A(n + 1)
    BY <2>1 DEF Reconciles, LeavesBefore, s, n
  <2>3. \A k \in 1..n : A(k + 1) = s[k].openSize
    OBVIOUS
  <2>4. B(1) = s[1].openSize
    <3>1. s[1] \in Event /\ s[1].openSize + s[1].size = A(1)
      <4>1. 1 \in 1..n
        OBVIOUS
      <4> QED
        BY <2>2, <4>1
    <3>2. info[i].size \in Int /\ info[i].fill_size \in Int
      BY OrderAssumption DEF OrderInfo
    <3>3. s[1].openSize \in Int /\ s[1].size \in Int
      BY <3>1 DEF Event
    <3>4. s[1].openSize + s[1].size = info[i].size - info[i].fill_size
      BY <3>1
    <3>5. s[1].openSize = info[i].size - (info[i].fill_size + s[1].size)
      BY <3>2, <3>3, <3>4, LeavesAfterFill
    <3> QED
      BY <3>5
  <2>5. \A k \in 1..n : B(k) = s[k].openSize
    <3> SUFFICES ASSUME NEW k \in 1..n, k # 1
                 PROVE  B(k) = s[k].openSize
      BY <2>4
    <3>1. k - 1 \in 1..(n - 1) /\ (k - 1) + 1 = k
      OBVIOUS
    <3> QED
      BY <3>1
  <2>6. ASSUME NEW k \in 1..(n - 1)
        PROVE  r[k].openSize + r[k].size = B(k)
    <3>1. k \in 1..n /\ k + 1 \in 1..n /\ r[k] = s[k + 1]
      OBVIOUS
    <3>2. s[k + 1].openSize + s[k + 1].size = A(k + 1) /\ A(k + 1) = s[k].openSize
      BY <2>2, <2>3, <3>1
    <3>3. B(k) = s[k].openSize
      BY <2>5, <3>1
    <3> HIDE DEF A, B
    <3> QED
      BY <3>1, <3>2, <3>3
  <2> QED
    BY <2>1, <2>2, <2>3, <2>5, <2>6
<1>10. Matches(i)'
  BY <1>6 DEF Matches, OnlyRefusals, s, r
<1> QED
  BY <1>3, <1>4, <1>5, <1>7, <1>8, <1>9, <1>10

-----------------------------------------------------------------------------
(* The first state.                                                        *)

LEMMA InitInv == Init => IInv
<1> SUFFICES ASSUME Init  PROVE IInv
  OBVIOUS
<1> USE OrderAssumption, ThreadAssumption
        DEF Init, ExchangeInit
<1>1. TypeOK
  <2>1. ExchangeTypeOK
    <3>1. NoEntry \in BookEntry
      BY DEF NoEntry, BookEntry, BookStates
    <3> QED
      BY <3>1, EmptySeq DEF ExchangeTypeOK
  <2>2. NewOrder(OpenSide, "onOpenFill", 0) \in OrderInfo
    BY DEF NewOrder, OrderInfo, Stages, CancelStages, Conditions, Sides, FillFns, OpenSide
  <2>3. Idle \in Local /\ GatewayIdle \in GatewayLocal
    BY DEF Idle, Local, PCs, Waits, GatewayIdle, GatewayLocal, GatewayPCs
  <2>4. pending \in Seq(Sizes)
    BY EmptySeq
  <2> QED
    BY <2>1, <2>2, <2>3, <2>4 DEF TypeOK
<1>2. ActorsInv
  BY DEF ActorsInv, Idle, GatewayIdle
<1>3. ASSUME NEW i \in Ids  PROVE OrderInv(i)
  <2>1. /\ book[i] = NoEntry /\ inbox[i] = <<>> /\ DOMAIN inbox[i] = {}
        /\ info[i] = NewOrder(OpenSide, "onOpenFill", 0)
    BY EmptySeq, LenProperties
  <2>2. FreshId(i) /\ ReplacesAnother(i)
    BY <2>1 DEF FreshId, ReplacesAnother, NoEntry, NewOrder, Ids
  <2>3. EventForm(i) /\ ThrottledOnce(i) /\ Matches(i) /\ Reconciles(i)
    BY <2>1 DEF EventForm, ThrottledOnce, Matches, Reconciles, NoEntry
  <2>4. ClosedIsLast(i)
    BY <2>1 DEF ClosedIsLast, OnlyRefusals, NoEntry, Working
  <2>5. SidesAgree(i) /\ DoneIsFull(i)
    BY <2>1 DEF SidesAgree, DoneIsFull, NewOrder, Opens, LiveOf, OpenSide, GatewayIdle
  <2> QED
    BY <2>2, <2>3, <2>4, <2>5 DEF OrderInv
<1> QED
  BY <1>1, <1>2, <1>3 DEF IInv

-----------------------------------------------------------------------------
(* The steps of the threads.                                               *)

(* A thread that only moves on works on an order that has an id.           *)
LEMMA ThreadMoves ==
  ASSUME IInv, NEW th \in Threads, NEW l \in Local, t' = [t EXCEPT ![th] = l],
         next' \in Nat, next <= next', g' = g, l.id < next',
         l.pc \notin {"idle", "scan"} => l.id > 0,
         l.wait = "resize" => l.orig > 0
  PROVE  ActorsInv' /\ t' \in [Threads -> Local]
<1>1. t' \in [Threads -> Local]
  BY DEF IInv, TypeOK
<1>2. ASSUME NEW u \in Threads
      PROVE  /\ t'[u].id < next'
             /\ t'[u].pc \notin {"idle", "scan"} => t'[u].id > 0
             /\ t'[u].wait = "resize" => t'[u].orig > 0
  <2>1. CASE u = th
    BY <2>1 DEF IInv, TypeOK
  <2>2. CASE u # th
    <3>1. t'[u] = t[u] /\ t[u] \in Local
      BY <2>2 DEF IInv, TypeOK
    <3> QED
      BY <3>1 DEF IInv, TypeOK, ActorsInv, Local, Ids
  <2> QED
    BY <2>1, <2>2
<1>3. g'.id < next'
  BY DEF IInv, TypeOK, ActorsInv, GatewayLocal, Ids
<1> QED
  BY <1>1, <1>2, <1>3 DEF ActorsInv, IInv

(* Moving the program counter keeps the rest of a thread's locals.         *)
LEMMA LocalMoves ==
  ASSUME NEW l \in Local, NEW pc \in PCs
  PROVE  /\ [l EXCEPT !.pc = pc] \in Local
         /\ [l EXCEPT !.pc = pc].id = l.id
         /\ [l EXCEPT !.pc = pc].wait = l.wait
         /\ [l EXCEPT !.pc = pc].orig = l.orig
BY DEF Local

LEMMA IdleFacts ==
  /\ Idle \in Local
  /\ Idle.pc = "idle" /\ Idle.wait = "none" /\ Idle.id = 0 /\ Idle.orig = 0
BY DEF Idle, Local, PCs, Waits

LEMMA ScanningLocal ==
  ASSUME NEW id \in {0} \cup Ids
  PROVE  /\ Scanning(id) \in Local
         /\ Scanning(id).id = id /\ Scanning(id).pc = "scan" /\ Scanning(id).wait = "none"
BY IdleFacts DEF Scanning, Local, PCs

(* A thread that is done with its operation does too.                      *)
LEMMA ThreadReturns ==
  ASSUME IInv, NEW l \in Local, l.id < next
  PROVE  /\ After(l) \in Local /\ After(l).id < next
         /\ After(l).pc \in {"idle", "scan"}
         /\ After(l).wait = "none"
<1>1. 0 < next
  BY DEF IInv, TypeOK
<1>2. CASE l.all
  <2>1. After(l) = Scanning(l.id)
    BY <1>2 DEF After
  <2>2. l.id \in {0} \cup Ids
    BY DEF Local
  <2> QED
    BY <2>1, <2>2, ScanningLocal
<1>3. CASE ~l.all
  BY <1>1, <1>3 DEF After, Idle, Local, PCs, Waits
<1> QED
  BY <1>2, <1>3

(* A step that leaves the exchange, the ids and the callback thread alone  *)
(* and forgets no order keeps the invariant of every order.                *)
LEMMA OrdersUntouched ==
  ASSUME IInv, UNCHANGED <<exchangeVars, next, g>>,
         order_hash \subseteq order_hash', orders' \subseteq orders \cup 1..(next - 1),
         \A i \in Ids : SameOrder(i)
  PROVE  \A i \in Ids : OrderInv(i)'
<1> SUFFICES ASSUME NEW i \in Ids  PROVE OrderInv(i)'
  OBVIOUS
<1>1. next \in Nat /\ i \in Nat /\ book[i].original \in Nat
  BY OrderAssumption DEF IInv, TypeOK, ExchangeTypeOK, BookEntry, Ids
<1>2. ~(i < next) => (i \in orders' => i \in orders)
  BY <1>1
<1> QED
  BY <1>1, <1>2, OrderUntouched DEF IInv, exchangeVars, Erasing

(* Steps of a thread that change nothing but its own program counter, the  *)
(* mutex, the counters, pending_orders and the progress of a cancel.       *)
LEMMA ThreadStepsQuietly ==
  ASSUME IInv, UNCHANGED <<exchangeVars, next, g, order_hash, total, totalExecuted>>,
         NEW th \in Threads, NEW l \in Local, t' = [t EXCEPT ![th] = l],
         l.id < next, l.pc \notin {"idle", "scan"} => l.id > 0,
         l.wait = "resize" => l.orig > 0,
         orders' \subseteq orders \cup 1..(next - 1),
         orders' \subseteq Ids,
         info' \in [Ids -> OrderInfo], \A i \in Ids : SameOrder(i),
         live' \in [{"open", "close"} -> Int], pending' \in Seq(Sizes),
         mt' \in Threads \cup {Gateway, Nobody}
  PROVE  IInv'
<1>1. ActorsInv' /\ t' \in [Threads -> Local]
  <2>1. next \in Nat /\ next' \in Nat /\ next <= next' /\ g' = g /\ next' = next
    BY OrderAssumption DEF IInv, TypeOK
  <2> QED
    BY <2>1, ThreadMoves
<1>2. TypeOK'
  BY <1>1 DEF IInv, TypeOK, ExchangeTypeOK, exchangeVars
<1>3. \A i \in Ids : OrderInv(i)'
  BY OrdersUntouched
<1> QED
  BY <1>1, <1>2, <1>3 DEF IInv

(* What the invariant says of a thread inside an operation.                *)
LEMMA LocalFacts ==
  ASSUME IInv, NEW th \in Threads
  PROVE  /\ t[th] \in Local /\ t[th].id < next /\ t[th].id \in Nat
         /\ t[th].pc \notin {"idle", "scan"} => t[th].id \in Ids
         /\ t[th].wait = "resize" => t[th].orig \in Ids
         /\ next \in Nat \ {0}
         /\ \A i \in orders : i \in Ids /\ i < next /\ i \in 1..(next - 1)
<1>1. t[th] \in Local /\ t[th].id < next /\ next \in 1..(MaxId + 1)
  BY DEF IInv, TypeOK, ActorsInv
<1>2. t[th].id \in {0} \cup 1..MaxId /\ t[th].orig \in {0} \cup 1..MaxId /\ MaxId \in Nat
  BY <1>1, OrderAssumption DEF Local, Ids
<1>3. ASSUME NEW i \in orders  PROVE i \in Ids /\ i < next /\ i \in 1..(next - 1)
  <2>1. i \in 1..MaxId
    BY DEF IInv, TypeOK, Ids
  <2>2. i < next
    BY <2>1 DEF IInv, OrderInv, FreshId, Ids
  <2> QED
    BY <1>1, <1>2, <2>1, <2>2 DEF Ids
<1> QED
  BY <1>1, <1>2, <1>3 DEF IInv, ActorsInv, Ids

LEMMA SameInfo ==
  ASSUME info' = info  PROVE \A i \in Ids : SameOrder(i)
BY DEF SameOrder

(* cv.wait, and the waits whose order has failed.                          *)
LEMMA WaitSteps ==
  ASSUME IInv, NEW th \in Threads,
         CheckFails(th) \/ Block(th) \/ SpuriousWakeup(th) \/ AckFailed(th) \/ LiveRead(th)
  PROVE  IInv'
<1>0. /\ t[th] \in Local /\ t[th].id < next
      /\ t[th].wait = "resize" => t[th].orig > 0
      /\ t[th].pc \notin {"idle", "scan"} => t[th].id > 0
      /\ {"check", "block", "asleep", "store"} \subseteq PCs
  BY DEF PCs, IInv, TypeOK, ActorsInv
<1>1. PICK l \in Local :
        /\ t' = [t EXCEPT ![th] = l]
        /\ l.id < next
        /\ l.pc \notin {"idle", "scan"} => l.id > 0
        /\ l.wait = "resize" => l.orig > 0
  <2>1. CASE CheckFails(th)
    <3> DEFINE l == [t[th] EXCEPT !.pc = "block"]
    <3>1. l \in Local /\ l.id = t[th].id /\ l.wait = t[th].wait /\ l.orig = t[th].orig
      BY <1>0, LocalMoves
    <3>2. t' = [t EXCEPT ![th] = l]
      BY <2>1 DEF CheckFails, Goto
    <3>3. t[th].pc \notin {"idle", "scan"}
      BY <2>1 DEF CheckFails
    <3> QED
      BY <1>0, <3>1, <3>2, <3>3
  <2>2. CASE Block(th)
    <3> DEFINE l == [t[th] EXCEPT !.pc = "asleep"]
    <3>1. l \in Local /\ l.id = t[th].id /\ l.wait = t[th].wait /\ l.orig = t[th].orig
      BY <1>0, LocalMoves
    <3>2. t' = [t EXCEPT ![th] = l]
      BY <2>2 DEF Block, Goto
    <3>3. t[th].pc \notin {"idle", "scan"}
      BY <2>2 DEF Block
    <3> QED
      BY <1>0, <3>1, <3>2, <3>3
  <2>3. CASE SpuriousWakeup(th)
    <3> DEFINE l == [t[th] EXCEPT !.pc = "check"]
    <3>1. l \in Local /\ l.id = t[th].id /\ l.wait = t[th].wait /\ l.orig = t[th].orig
      BY <1>0, LocalMoves
    <3>2. t' = [t EXCEPT ![th] = l]
      BY <2>3 DEF SpuriousWakeup, Goto
    <3>3. t[th].pc \notin {"idle", "scan"}
      BY <2>3 DEF SpuriousWakeup
    <3> QED
      BY <1>0, <3>1, <3>2, <3>3
  <2>4. CASE AckFailed(th)
    BY <1>0, <2>4, ThreadReturns DEF AckFailed, Return, Goto
  <2>5. CASE LiveRead(th)
    <3> DEFINE v == live[LiveOf(info[t[th].id].side)]
               l == [t[th] EXCEPT !.pc = "store", !.tmp = v]
    <3>1. v \in Int
      BY DEF IInv, TypeOK, LiveOf
    <3>2. t' = [t EXCEPT ![th] = l]
      BY <2>5 DEF LiveRead, Goto
    <3> HIDE DEF v
    <3>3. l \in Local /\ l.id = t[th].id /\ l.wait = t[th].wait /\ l.orig = t[th].orig
      BY <1>0, <3>1 DEF Local
    <3> QED
      BY <1>0, <2>5, <3>2, <3>3 DEF LiveRead
  <2> QED
    BY <2>1, <2>2, <2>3, <2>4, <2>5
<1>2. /\ UNCHANGED <<exchangeVars, info, next, g, order_hash, orders, live, total,
                     totalExecuted, pending>>
      /\ mt' \in {mt, th, Nobody}
  BY DEF CheckFails, Block, SpuriousWakeup, AckFailed, LiveRead
<1> QED
  BY <1>1, <1>2, ThreadStepsQuietly, SameInfo DEF IInv, TypeOK

(* A thread on its way through an operation.                               *)
LEMMA BusyThread ==
  ASSUME IInv, NEW th \in Threads, t[th].pc \notin {"idle", "scan"}
  PROVE  /\ t[th] \in Local /\ t[th].id < next /\ t[th].id > 0 /\ t[th].id \in Ids
         /\ t[th].wait = "resize" => t[th].orig > 0
         /\ t[th].wait = "resize" => t[th].orig \in Ids
         /\ t[th].id \in 1..(next - 1)
         /\ info[t[th].id] \in OrderInfo
<1>1. /\ t[th] \in Local /\ t[th].id < next /\ t[th].id > 0
      /\ t[th].wait = "resize" => t[th].orig > 0
  BY DEF IInv, TypeOK, ActorsInv
<1>2. /\ t[th].id \in Ids
      /\ t[th].wait = "resize" => t[th].orig \in Ids
      /\ t[th].id \in 1..(next - 1)
  BY <1>1, LocalFacts, OrderAssumption DEF Ids
<1> QED
  BY <1>1, <1>2 DEF IInv, TypeOK

(* An acknowledged order enters orders.                                    *)
LEMMA AckGrantedStep ==
  ASSUME IInv, NEW th \in Threads, AckGranted(th)  PROVE IInv'
<1>1. /\ t[th] \in Local /\ t[th].id < next /\ t[th].id > 0
      /\ t[th].wait = "resize" => t[th].orig > 0
      /\ orders' = orders \cup {t[th].id}
      /\ t[th].id \in 1..(next - 1) /\ t[th].id \in Ids
  BY BusyThread DEF AckGranted
<1>2. PICK l \in Local :
        /\ t' = [t EXCEPT ![th] = l]
        /\ l.id < next
        /\ l.pc \notin {"idle", "scan"} => l.id > 0
        /\ l.wait = "resize" => l.orig > 0
  <2>1. CASE t[th].wait = "reprice"
    BY <1>1, <2>1, ThreadReturns DEF AckGranted, Return, Goto
  <2>2. CASE t[th].wait # "reprice"
    <3> DEFINE l == [t[th] EXCEPT !.pc = "count"]
    <3>1. l \in Local /\ l.id = t[th].id /\ l.wait = t[th].wait /\ l.orig = t[th].orig
      BY <1>1, LocalMoves DEF PCs
    <3>2. t' = [t EXCEPT ![th] = l]
      BY <2>2 DEF AckGranted, Goto
    <3> QED
      BY <1>1, <3>1, <3>2
  <2> QED
    BY <2>1, <2>2
<1>3. orders' \subseteq orders \cup 1..(next - 1) /\ orders' \subseteq Ids
  BY <1>1 DEF IInv, TypeOK
<1>4. /\ UNCHANGED <<exchangeVars, next, g, order_hash, total, totalExecuted>>
      /\ info' = info /\ live' = live /\ pending' = pending /\ mt' = mt
  BY DEF AckGranted
<1> QED
  BY <1>2, <1>3, <1>4, ThreadStepsQuietly, SameInfo DEF IInv, TypeOK

(* The size of an order that has an id is a size.                          *)
LEMMA LiveWriteStep ==
  ASSUME IInv, NEW th \in Threads, LiveWrite(th)  PROVE IInv'
<1>1. /\ t[th] \in Local /\ t[th].id < next /\ info[t[th].id] \in OrderInfo
      /\ t[th].wait = "resize" => info[t[th].orig] \in OrderInfo
  BY BusyThread DEF LiveWrite, IInv, TypeOK
<1>2. LiveChange(t[th]) \in Int
  BY <1>1, OrderAssumption DEF LiveChange, OrderInfo
<1>3. live' \in [{"open", "close"} -> Int]
  <2>1. t[th].tmp + LiveChange(t[th]) \in Int
    BY <1>1, <1>2 DEF Local
  <2> QED
    BY <2>1 DEF LiveWrite, IInv, TypeOK
<1>4. pending' \in Seq(Sizes)
  BY TailFacts DEF LiveWrite, IInv, TypeOK
<1>5. /\ After(t[th]) \in Local /\ After(t[th]).id < next
      /\ After(t[th]).pc \in {"idle", "scan"} /\ After(t[th]).wait = "none"
      /\ t' = [t EXCEPT ![th] = After(t[th])]
  BY <1>1, ThreadReturns DEF LiveWrite, Return, Goto
<1>6. /\ UNCHANGED <<exchangeVars, next, g, order_hash, total, totalExecuted>>
      /\ info' = info /\ orders' = orders /\ mt' \in {mt, Nobody}
  BY DEF LiveWrite
<1> QED
  BY <1>3, <1>4, <1>5, <1>6, ThreadStepsQuietly, SameInfo DEF IInv, TypeOK

(* Marking the progress of a cancel leaves what OrderInv reads.            *)
LEMMA CancelMarks ==
  ASSUME IInv, NEW i \in Ids, NEW c \in CancelStages,
         \/ info' = [info EXCEPT ![i].cancel_stage = c]
         \/ info' = [info EXCEPT ![i].onOrderCancel = TRUE]
         \/ info' = [info EXCEPT ![i].onOrderChange = TRUE]
  PROVE  info' \in [Ids -> OrderInfo] /\ \A j \in Ids : SameOrder(j)
<1>1. info \in [Ids -> OrderInfo]
  BY DEF IInv, TypeOK
<1>2. ASSUME NEW j \in Ids  PROVE info'[j] \in OrderInfo /\ SameOrder(j)
  <2> DEFINE a == [info[i] EXCEPT !.cancel_stage = c]
             b == [info[i] EXCEPT !.onOrderCancel = TRUE]
             d == [info[i] EXCEPT !.onOrderChange = TRUE]
  <2>1. CASE j # i
    BY <1>1, <2>1 DEF SameOrder
  <2>2. CASE j = i
    <3>1. info[i] \in OrderInfo /\ info'[i] \in {a, b, d}
      BY <1>1
    <3>2. a \in OrderInfo /\ b \in OrderInfo /\ d \in OrderInfo
      BY <3>1 DEF OrderInfo
    <3>3. \A o \in {a, b, d} : /\ o.size = info[i].size /\ o.fill_size = info[i].fill_size
                                /\ o.stage = info[i].stage /\ o.side = info[i].side
                                /\ o.onFill = info[i].onFill
      BY <3>1 DEF OrderInfo
    <3> HIDE DEF a, b, d
    <3> QED
      BY <2>2, <3>1, <3>2, <3>3 DEF SameOrder
  <2> QED
    BY <2>1, <2>2
<1>3. info' \in [Ids -> OrderInfo]
  <2>2. info' = [info EXCEPT ![i] = info'[i]]
    BY <1>1
  <2> QED
    BY <1>1, <1>2, <2>2
<1> QED
  BY <1>2, <1>3

LEMMA CancelSteps ==
  ASSUME IInv, NEW th \in Threads, MarkCancel(th) \/ CancelFailed(th) \/ CancelDone(th)
  PROVE  IInv'
<1> DEFINE i == t[th].id
<1>1. /\ t[th] \in Local /\ i < next /\ i > 0 /\ i \in Ids
      /\ t[th].wait = "resize" => t[th].orig > 0
      /\ info[i] \in OrderInfo
  BY BusyThread DEF MarkCancel, CancelFailed, CancelDone
<1>2. /\ UNCHANGED <<exchangeVars, next, g, order_hash, orders, live, total,
                     totalExecuted, pending>>
      /\ mt' \in {mt, th}
  BY DEF MarkCancel, CancelFailed, CancelDone
<1>3. info' \in [Ids -> OrderInfo] /\ \A j \in Ids : SameOrder(j)
  <2>1. CASE CancelDone(th)
    BY <2>1, SameInfo DEF CancelDone, IInv, TypeOK
  <2>2. CASE MarkCancel(th)
    BY <1>1, <2>2, CancelMarks DEF MarkCancel, CancelStages
  <2>3. CASE CancelFailed(th)
    BY <1>1, <2>3, CancelMarks DEF CancelFailed, CancelStages
  <2> QED
    BY <2>1, <2>2, <2>3
<1>4. PICK l \in Local :
        /\ t' = [t EXCEPT ![th] = l]
        /\ l.id < next
        /\ l.pc \notin {"idle", "scan"} => l.id > 0
        /\ l.wait = "resize" => l.orig > 0
  <2>1. CASE MarkCancel(th)
    <3> DEFINE l == [t[th] EXCEPT !.pc = "send_cancel"]
    <3>1. l \in Local /\ l.id = t[th].id /\ l.wait = t[th].wait /\ l.orig = t[th].orig
      BY <1>1, LocalMoves DEF PCs
    <3>2. t' = [t EXCEPT ![th] = l]
      BY <2>1 DEF MarkCancel, Goto
    <3> QED
      BY <1>1, <3>1, <3>2
  <2>2. CASE CancelFailed(th)
    BY <1>1, <2>2, ThreadReturns DEF CancelFailed, Return, Goto
  <2>3. CASE CancelDone(th)
    <3> DEFINE v == live[LiveOf(info[i].side)]
               l == [t[th] EXCEPT !.pc = "store", !.tmp = v]
    <3>1. v \in Int
      BY DEF IInv, TypeOK, LiveOf
    <3>2. t' = [t EXCEPT ![th] = l]
      BY <2>3 DEF CancelDone, Goto
    <3> HIDE DEF v
    <3>3. l \in Local /\ l.id = t[th].id /\ l.wait = t[th].wait /\ l.orig = t[th].orig
      BY <1>1, <3>1 DEF Local, PCs
    <3> QED
      BY <1>1, <3>2, <3>3
  <2> QED
    BY <2>1, <2>2, <2>3
<1>5. mt' \in Threads \cup {Gateway, Nobody} /\ orders \subseteq Ids
      /\ live \in [{"open", "close"} -> Int] /\ pending \in Seq(Sizes)
  BY <1>2 DEF IInv, TypeOK
<1> QED
  BY <1>2, <1>3, <1>4, <1>5, ThreadStepsQuietly

(* cancel(i) gives the order its callback or takes it out of orders.       *)
LEMMA BeginCancelStep ==
  ASSUME IInv, NEW th \in Threads, NEW i \in orders, NEW local \in Local,
         local.wait = "resize" => local.orig > 0, BeginCancel(th, i, local),
         UNCHANGED <<exchangeVars, next, g, order_hash, live, total, totalExecuted,
                     pending, mt>>
  PROVE  IInv'
<1>1. i \in Ids /\ i < next /\ i > 0
  BY LocalFacts DEF Ids
<1>2. info' \in [Ids -> OrderInfo] /\ \A j \in Ids : SameOrder(j)
  <2>1. CASE CanCancel(info[i])
    <3>1. info' = [info EXCEPT ![i].onOrderCancel = TRUE] /\ "INIT" \in CancelStages
      BY <2>1 DEF BeginCancel, CancelStages
    <3> QED
      BY <1>1, <3>1, CancelMarks
  <2>2. CASE ~CanCancel(info[i])
    BY <2>2, SameInfo DEF BeginCancel, IInv, TypeOK
  <2> QED
    BY <2>1, <2>2
<1>3. orders' \subseteq orders
  BY DEF BeginCancel
<1>4. PICK l \in Local :
        /\ t' = [t EXCEPT ![th] = l]
        /\ l.id < next
        /\ l.pc \notin {"idle", "scan"} => l.id > 0
        /\ l.wait = "resize" => l.orig > 0
  <2>1. CASE CanCancel(info[i])
    <3> DEFINE l == [local EXCEPT !.pc = "mark_cancel", !.id = i]
    <3>1. l \in Local /\ l.id = i /\ l.wait = local.wait /\ l.orig = local.orig
      BY <1>1 DEF Local, PCs
    <3>2. t' = [t EXCEPT ![th] = l]
      BY <2>1 DEF BeginCancel, Goto
    <3> QED
      BY <1>1, <3>1, <3>2
  <2>2. CASE ~CanCancel(info[i])
    <3> DEFINE l == [local EXCEPT !.id = i]
    <3>1. l \in Local /\ l.id = i
      BY <1>1 DEF Local
    <3>2. t' = [t EXCEPT ![th] = After(l)]
      BY <2>2 DEF BeginCancel, Goto
    <3> HIDE DEF l
    <3> QED
      BY <1>1, <3>1, <3>2, ThreadReturns
  <2> QED
    BY <2>1, <2>2
<1>5. /\ orders' \subseteq orders \cup 1..(next - 1) /\ orders' \subseteq Ids
      /\ live' \in [{"open", "close"} -> Int] /\ pending' \in Seq(Sizes)
      /\ mt' \in Threads \cup {Gateway, Nobody}
  BY <1>3 DEF IInv, TypeOK
<1> QED
  BY <1>2, <1>4, <1>5, ThreadStepsQuietly

LEMMA CancelStep ==
  ASSUME IInv, NEW th \in Threads, NEW i \in Ids, Cancel(th, i)  PROVE IInv'
BY BeginCancelStep, IdleFacts DEF Cancel

LEMMA ScanStep ==
  ASSUME IInv, NEW th \in Threads, Scan(th)  PROVE IInv'
<1> DEFINE ahead == {i \in orders : i > t[th].id}
<1>1. /\ t[th] \in Local
      /\ t[th].wait = "resize" => t[th].orig > 0
  BY DEF IInv, TypeOK, ActorsInv
<1>2. UNCHANGED <<exchangeVars, next, g, order_hash, live, total, totalExecuted,
                  pending, mt>>
  BY DEF Scan
<1>3. /\ live' \in [{"open", "close"} -> Int] /\ pending' \in Seq(Sizes)
      /\ mt' \in Threads \cup {Gateway, Nobody} /\ orders \subseteq Ids
      /\ info \in [Ids -> OrderInfo] /\ 0 < next
  BY <1>2 DEF IInv, TypeOK
<1>4. CASE \E i \in ahead : CanCancel(info[i]) /\ BeginCancel(th, i, t[th])
  <2>1. PICK i \in orders : BeginCancel(th, i, t[th])
    BY <1>4
  <2>2. t[th].wait = "resize" => t[th].orig > 0
    BY <1>1
  <2> QED
    BY <1>1, <1>2, <2>1, <2>2, BeginCancelStep
<1>5. CASE \E i \in ahead : Goto(th, [t[th] EXCEPT !.id = i]) /\ UNCHANGED <<info, orders>>
  <2>1. PICK i \in orders : Goto(th, [t[th] EXCEPT !.id = i]) /\ UNCHANGED <<info, orders>>
    BY <1>5
  <2> DEFINE l == [t[th] EXCEPT !.id = i]
  <2>2. i \in Ids /\ i < next /\ i > 0
    BY LocalFacts DEF Ids
  <2>3. l \in Local /\ l.id = i /\ l.wait = t[th].wait /\ l.orig = t[th].orig
    BY <1>1, <2>2 DEF Local
  <2>4. t' = [t EXCEPT ![th] = l] /\ info' = info /\ orders' = orders
    BY <2>1 DEF Goto
  <2>5. l.wait = "resize" => l.orig > 0
    BY <1>1, <2>3
  <2> HIDE DEF l
  <2> QED
    BY <1>2, <1>3, <2>2, <2>3, <2>4, <2>5, ThreadStepsQuietly, SameInfo
<1>6. CASE orders' \subseteq orders /\ Goto(th, Idle) /\ UNCHANGED info
  <2>1. t' = [t EXCEPT ![th] = Idle] /\ info' = info
    BY <1>6 DEF Goto
  <2> QED
    BY <1>2, <1>3, <1>6, <2>1, IdleFacts, ThreadStepsQuietly, SameInfo
<1> QED
  BY <1>4, <1>5, <1>6 DEF Scan

LEMMA QueueSteps ==
  ASSUME IInv, NEW th \in Threads,
         CancelAll(th) \/ \E n \in Sizes : ClosePending(th, n)
  PROVE  IInv'
<1>1. /\ UNCHANGED <<exchangeVars, info, next, g, order_hash, orders, live, total,
                     totalExecuted, mt>>
  BY DEF CancelAll, ClosePending
<1>2. /\ live' \in [{"open", "close"} -> Int]
      /\ mt' \in Threads \cup {Gateway, Nobody} /\ orders' \subseteq Ids
      /\ info' \in [Ids -> OrderInfo] /\ 0 < next
      /\ t \in [Threads -> Local] /\ pending \in Seq(Sizes)
  BY <1>1 DEF IInv, TypeOK
<1>3. CASE CancelAll(th)
  <2> DEFINE l == Scanning(0)
  <2>2. l \in Local /\ l.id = 0 /\ l.pc = "scan" /\ l.wait = "none"
    BY ScanningLocal
  <2>3. t' = [t EXCEPT ![th] = l] /\ pending' = <<>>
    BY <1>3 DEF CancelAll, Goto
  <2>4. pending' \in Seq(Sizes)
    BY <2>3, EmptySeq
  <2> HIDE DEF l
  <2> QED
    BY <1>1, <1>2, <2>2, <2>3, <2>4, ThreadStepsQuietly, SameInfo
<1>4. CASE \E n \in Sizes : ClosePending(th, n)
  <2>1. t' = [t EXCEPT ![th] = t[th]] /\ t[th].pc = "idle"
    BY <1>2, <1>4 DEF ClosePending
  <2>2. pending' \in Seq(Sizes)
    BY <1>2, <1>4, AppendFacts DEF ClosePending
  <2>3. /\ t[th].id < next
        /\ t[th].wait = "resize" => t[th].orig > 0
    BY DEF IInv, ActorsInv
  <2> QED
    BY <1>1, <1>2, <2>1, <2>2, <2>3, ThreadStepsQuietly, SameInfo
<1> QED
  BY <1>3, <1>4

(* A cancel request is one more answer the exchange owes.                  *)
LEMMA OrderCancelRequested ==
  ASSUME NEW i \in Ids, OrderInv(i), book[i] \in BookEntry,
         book'[i] = [book[i] EXCEPT !.cancels = book[i].cancels + 1],
         UNCHANGED <<inbox, info, next, order_hash, orders, g>>, i < next
  PROVE  OrderInv(i)' /\ book'[i] \in BookEntry
<1>1. /\ book'[i] \in BookEntry
      /\ book'[i].state = book[i].state
      /\ book'[i].leaves = book[i].leaves
      /\ book'[i].original = book[i].original
  BY DEF BookEntry
<1>2. FreshId(i)' /\ ReplacesAnother(i)'
  BY <1>1 DEF OrderInv, FreshId, ReplacesAnother
<1>3. EventForm(i)' /\ ThrottledOnce(i)' /\ Matches(i)'
  BY <1>1 DEF OrderInv, EventForm, ThrottledOnce, Matches
<1>4. ClosedIsLast(i)'
  BY <1>1 DEF OrderInv, ClosedIsLast, OnlyRefusals, Erasing
<1>5. SidesAgree(i)' /\ DoneIsFull(i)'
  BY DEF OrderInv, SidesAgree, DoneIsFull, Opens
<1>6. Reconciles(i)'
  BY <1>1 DEF OrderInv, Reconciles, LeavesBefore
<1> QED
  BY <1>1, <1>2, <1>3, <1>4, <1>5, <1>6 DEF OrderInv

LEMMA SendCancelStep ==
  ASSUME IInv, NEW th \in Threads, SendCancel(th)  PROVE IInv'
<1> SUFFICES ASSUME NEW i, i = t[th].id  PROVE IInv'
  OBVIOUS
<1>1. /\ t[th] \in Local /\ i < next /\ i > 0 /\ i \in Ids
      /\ t[th].wait = "resize" => t[th].orig > 0
  BY BusyThread DEF SendCancel
<1>2. UNCHANGED <<inbox, info, next, order_hash, orders, live, total, totalExecuted,
                  pending, mt, g>>
  BY DEF SendCancel
<1>3. /\ live' \in [{"open", "close"} -> Int] /\ pending' \in Seq(Sizes)
      /\ mt' \in Threads \cup {Gateway, Nobody} /\ orders' \subseteq Ids
      /\ info' \in [Ids -> OrderInfo] /\ next \in Nat
      /\ book \in [Ids -> BookEntry]
  BY <1>2, OrderAssumption DEF IInv, TypeOK, ExchangeTypeOK
<1>4. CASE Return(th) /\ UNCHANGED book
  <2>1. /\ t' = [t EXCEPT ![th] = After(t[th])]
        /\ UNCHANGED exchangeVars
    BY <1>2, <1>4 DEF Return, Goto, exchangeVars
  <2> QED
    BY <1>1, <1>2, <1>3, <2>1, ThreadReturns, ThreadStepsQuietly, SameInfo
<1>5. CASE /\ RequestCancel(i)
           /\ Goto(th, [t[th] EXCEPT !.pc = "check", !.wait = "cancel"])
  <2> DEFINE l == [t[th] EXCEPT !.pc = "check", !.wait = "cancel"]
  <2>1. l \in Local /\ l.id = i /\ l.wait = "cancel"
    BY <1>1 DEF Local, PCs, Waits
  <2>2. /\ t' = [t EXCEPT ![th] = l]
        /\ book' = [book EXCEPT ![i] = [book[i] EXCEPT !.cancels = book[i].cancels + 1]]
    BY <1>3, <1>5 DEF Goto, RequestCancel
  <2>a. next' \in Nat /\ next <= next' /\ g' = g /\ l.id < next' /\ l.id > 0
    BY <1>1, <1>2, <1>3, <2>1
  <2> HIDE DEF l
  <2>3. ActorsInv' /\ t' \in [Threads -> Local]
    BY <2>1, <2>2, <2>a, ThreadMoves
  <2>4. ASSUME NEW j \in Ids  PROVE OrderInv(j)' /\ book'[j] \in BookEntry
    <3>1. CASE j = i
      BY <1>1, <1>2, <1>3, <2>2, <3>1, OrderCancelRequested DEF IInv
    <3>2. CASE j # i
      <4>1. book[j].original \in Nat /\ book'[j] = book[j]
        BY <1>3, <2>2, <3>2 DEF BookEntry, Ids
      <4>2. SameOrder(j)
        BY <1>2, SameInfo
      <4>3. next' = next /\ orders' = orders /\ g' = g /\ order_hash' = order_hash
            /\ inbox' = inbox
        BY <1>2
      <4> QED
        BY <1>3, <4>1, <4>2, <4>3, OrderUntouched DEF IInv, Erasing
    <3> QED
      BY <3>1, <3>2
  <2>5. book' \in [Ids -> BookEntry]
    BY <1>3, <2>2, <2>4
  <2>6. TypeOK'
    BY <1>2, <2>3, <2>5 DEF IInv, TypeOK, ExchangeTypeOK
  <2> QED
    BY <2>3, <2>4, <2>6 DEF IInv
<1> QED
  BY <1>4, <1>5 DEF SendCancel

(* A new id gets an order, which goes to the exchange or never does.       *)
LEMMA OrderEntered ==
  ASSUME NEW i \in Ids, OrderInv(i), next \in Nat, i = next, next' = next + 1,
         info'[i].size \in Sizes, info'[i].fill_size = 0, info'[i].stage = "SENT",
         info'[i].onFill = "onOpenFill" <=> Opens(info'[i]),
         inbox' = inbox, g' = g, g.id < next, book[i] \in BookEntry,
         \/ book'[i] = book[i]
         \/ /\ book'[i].state = "posted" /\ book'[i].leaves = info'[i].size
            /\ i \in order_hash'
         \/ /\ book'[i].state = "replacing" /\ book'[i].leaves = info'[i].size
            /\ book'[i].original \in 1..(next - 1)
            /\ i \in order_hash'
  PROVE  OrderInv(i)'
<1>1. /\ book[i] = NoEntry /\ inbox'[i] = <<>> /\ DOMAIN inbox'[i] = {} /\ Len(inbox'[i]) = 0
      /\ g.id # i /\ i < next' /\ book[i].state = "none"
  BY EmptySeq, LenProperties DEF OrderInv, FreshId, NoEntry
<1>2. FreshId(i)'
  BY <1>1 DEF FreshId
<1>3. ReplacesAnother(i)'
  BY <1>1 DEF ReplacesAnother
<1>4. EventForm(i)' /\ ThrottledOnce(i)' /\ Matches(i)'
  BY <1>1 DEF EventForm, ThrottledOnce, Matches
<1>5. ClosedIsLast(i)'
  BY <1>1 DEF ClosedIsLast, OnlyRefusals, Erasing, Working
<1>6. SidesAgree(i)' /\ DoneIsFull(i)'
  BY <1>1 DEF SidesAgree, DoneIsFull, Opens
<1>7. Reconciles(i)'
  <2>1. info'[i].size - 0 = info'[i].size
    BY OrderAssumption DEF Sizes
  <2> QED
    BY <1>1, <2>1 DEF Reconciles, LeavesBefore
<1> QED
  BY <1>2, <1>3, <1>4, <1>5, <1>6, <1>7 DEF OrderInv

(* All the other orders, when an id is given out.                          *)
LEMMA OthersUntouched ==
  ASSUME IInv, NEW i \in Ids, i # next, next \in Nat, next' = next + 1,
         book'[i] = book[i], inbox' = inbox, g' = g, SameOrder(i),
         order_hash \subseteq order_hash', orders' = orders
  PROVE  OrderInv(i)'
<1>1. i \in Nat /\ book[i].original \in Nat /\ next' \in Nat
  <2>1. book[i] \in BookEntry
    BY DEF IInv, TypeOK, ExchangeTypeOK
  <2> QED
    BY <2>1, OrderAssumption DEF BookEntry, Ids
<1>2. /\ i < next <=> i < next'
      /\ book[i].original < next => book[i].original < next'
  BY <1>1
<1> QED
  BY <1>1, <1>2, OrderUntouched DEF IInv, Erasing

LEMMA SendStep ==
  ASSUME IInv, NEW th \in Threads, NEW size \in Sizes, NEW local \in Local,
         local.wait # "resize",
         NEW side, NEW fn,
         \/ side = OpenSide /\ fn = "onOpenFill"
         \/ side = CloseSide /\ fn = "onCloseFill",
         Send(th, side, fn, size, local)
  PROVE  IInv'
<1>1. /\ next \in Ids /\ next \in Nat /\ next' = next + 1 /\ next' \in 1..(MaxId + 1)
      /\ next' \in Nat
  BY OrderAssumption DEF Send, IInv, TypeOK, Ids
<1>2. /\ info' = [info EXCEPT ![next] = NewOrder(side, fn, size)]
      /\ order_hash' = order_hash \cup {next}
      /\ UNCHANGED <<inbox, orders, live, total, totalExecuted, pending, mt, g>>
  BY DEF Send
<1>3. /\ NewOrder(side, fn, size) \in OrderInfo
      /\ NewOrder(side, fn, size).size = size
      /\ NewOrder(side, fn, size).fill_size = 0
      /\ NewOrder(side, fn, size).stage = "SENT"
      /\ NewOrder(side, fn, size).onFill = fn
      /\ NewOrder(side, fn, size).side = side
  BY OrderAssumption
     DEF NewOrder, OrderInfo, Stages, CancelStages, Conditions, Sides, FillFns,
         OpenSide, CloseSide, Sizes
<1>4. fn = "onOpenFill" <=> LiveOf(side) = "open"
  BY DEF LiveOf, OpenSide, CloseSide
<1>5. PICK l \in Local :
        /\ t' = [t EXCEPT ![th] = l]
        /\ l.id < next'
        /\ l.pc \notin {"idle", "scan"} => l.id > 0
        /\ l.wait = "resize" => l.orig > 0
  <2>1. CASE Goto(th, [local EXCEPT !.pc = "check", !.wait = "ack", !.id = next])
    <3> DEFINE l == [local EXCEPT !.pc = "check", !.wait = "ack", !.id = next]
    <3>1. l \in Local /\ l.id = next /\ l.wait = "ack"
      BY <1>1 DEF Local, PCs, Waits
    <3>2. next < next' /\ next > 0
      BY <1>1 DEF Ids
    <3> QED
      BY <2>1, <3>1, <3>2 DEF Goto
  <2>2. CASE Goto(th, Idle)
    <3>1. 0 < next'
      BY <1>1
    <3> QED
      BY <2>2, <3>1, IdleFacts DEF Goto
  <2> QED
    BY <2>1, <2>2 DEF Send
<1>6. ActorsInv' /\ t' \in [Threads -> Local]
  <2>1. next <= next' /\ g' = g
    BY <1>1, <1>2
  <2> QED
    BY <1>1, <1>5, <2>1, ThreadMoves
<1>7. /\ book \in [Ids -> BookEntry] /\ info \in [Ids -> OrderInfo]
      /\ g.id < next
  BY DEF IInv, TypeOK, ExchangeTypeOK, ActorsInv
<1>8. \/ book' = book
      \/ book' = [book EXCEPT ![next] = [book[next] EXCEPT !.state = "posted", !.leaves = size]]
  BY <1>1, <1>7 DEF Send, Post
<1>9. /\ book'[next] \in BookEntry
      /\ \/ book'[next] = book[next]
         \/ book'[next].state = "posted" /\ book'[next].leaves = size
  <2> DEFINE posted == [book[next] EXCEPT !.state = "posted", !.leaves = size]
  <2>1. book[next] \in BookEntry /\ size \in Nat
    BY <1>1, <1>7, OrderAssumption DEF Sizes
  <2>2. posted \in BookEntry /\ posted.state = "posted" /\ posted.leaves = size
    BY <2>1 DEF BookEntry, BookStates
  <2>3. book'[next] = book[next] \/ book'[next] = posted
    BY <1>1, <1>7, <1>8
  <2> HIDE DEF posted
  <2> QED
    BY <2>1, <2>2, <2>3
<1>10. TypeOK'
  <2>1. book' \in [Ids -> BookEntry] /\ info' \in [Ids -> OrderInfo]
        /\ order_hash' \in SUBSET Ids
    BY <1>1, <1>2, <1>3, <1>7, <1>8, <1>9 DEF IInv, TypeOK
  <2> QED
    BY <1>1, <1>2, <1>6, <2>1 DEF IInv, TypeOK, ExchangeTypeOK
<1>11. ASSUME NEW i \in Ids  PROVE OrderInv(i)'
  <2>1. CASE i = next
    <3>1. info'[i] = NewOrder(side, fn, size) /\ i \in order_hash' /\ OrderInv(i)
      BY <1>2, <1>7, <2>1 DEF IInv
    <3>2. info'[i].onFill = "onOpenFill" <=> Opens(info'[i])
      BY <1>3, <1>4, <3>1 DEF Opens
    <3> QED
      BY <1>1, <1>2, <1>3, <1>7, <1>9, <2>1, <3>1, <3>2, OrderEntered
  <2>2. CASE i # next
    <3>1. book'[i] = book[i] /\ SameOrder(i)
      BY <1>2, <1>7, <1>8, <2>2 DEF SameOrder
    <3> QED
      BY <1>1, <1>2, <2>2, <3>1, OthersUntouched
  <2> QED
    BY <2>1, <2>2
<1> QED
  BY <1>6, <1>10, <1>11 DEF IInv

(* The order a change sends has a size and no progress yet.                *)
LEMMA ChangedOrderFacts ==
  ASSUME NEW o \in OrderInfo, o.size \in Sizes, NEW n \in {0} \cup Sizes,
         NEW c, c = ChangedOrder(o, n)
  PROVE  /\ c \in OrderInfo /\ c.size \in Sizes /\ c.fill_size = 0 /\ c.stage = "SENT"
         /\ c.side = o.side /\ c.onFill = o.onFill
<1>1. Sizes \subseteq 0..OrderLimit
  BY OrderAssumption DEF Sizes
<1>2. CASE n = 0
  BY <1>1, <1>2 DEF ChangedOrder, OrderInfo, Stages, CancelStages
<1>3. CASE n # 0
  BY <1>1, <1>3 DEF ChangedOrder, OrderInfo, Stages, CancelStages
<1> QED
  BY <1>2, <1>3

LEMMA ChangeStep ==
  ASSUME IInv, NEW th \in Threads, NEW i \in Ids, NEW new_size \in {0} \cup Sizes,
         Change(th, i, new_size)
  PROVE  IInv'
<1> SUFFICES ASSUME NEW c, c = ChangedOrder(info[i], new_size)  PROVE IInv'
  OBVIOUS
<1>1. /\ i \in orders /\ i < next /\ i \in 1..(next - 1) /\ next \in Nat \ {0}
      /\ info[i].size \in Sizes /\ info[i] \in OrderInfo /\ OrderInv(i)
  BY LocalFacts DEF Change, IInv, TypeOK, OrderInv, FreshId
<1>2. /\ c \in OrderInfo /\ c.size \in Sizes /\ c.fill_size = 0 /\ c.stage = "SENT"
      /\ c.side = info[i].side /\ c.onFill = info[i].onFill
  BY <1>1, ChangedOrderFacts
<1>3. /\ UNCHANGED <<inbox, orders, live, total, totalExecuted, pending, mt, g>>
      /\ t[th].pc = "idle"
  BY DEF Change
<1>4. /\ book \in [Ids -> BookEntry] /\ info \in [Ids -> OrderInfo]
      /\ t \in [Threads -> Local] /\ g.id < next
      /\ t[th].id < next
      /\ t[th].wait = "resize" => t[th].orig > 0
  BY DEF IInv, TypeOK, ExchangeTypeOK, ActorsInv
<1>5. CASE /\ info' = [info EXCEPT ![i].onOrderChange = TRUE]
           /\ UNCHANGED <<book, next, order_hash, t>>
  <2>1. info' \in [Ids -> OrderInfo] /\ \A j \in Ids : SameOrder(j)
    <3>1. "NONE" \in CancelStages
      BY DEF CancelStages
    <3> QED
      BY <1>5, <3>1, CancelMarks
  <2>2. UNCHANGED <<exchangeVars, next, g, order_hash, total, totalExecuted>>
    BY <1>3, <1>5 DEF exchangeVars
  <2>3. t' = [t EXCEPT ![th] = t[th]] /\ t[th] \in Local
    BY <1>4, <1>5
  <2>4. /\ live' \in [{"open", "close"} -> Int] /\ pending' \in Seq(Sizes)
        /\ mt' \in Threads \cup {Gateway, Nobody} /\ orders' \subseteq Ids
        /\ orders' = orders
    BY <1>3 DEF IInv, TypeOK
  <2> QED
    BY <1>3, <1>4, <2>1, <2>2, <2>3, <2>4, ThreadStepsQuietly
<1>6. CASE /\ next \in Ids
           /\ info' = [info EXCEPT ![i].onOrderChange = TRUE, ![next] = c]
           /\ next' = next + 1
           /\ \/ /\ Replace(next, i, c.size)
                 /\ order_hash' = order_hash \cup {next}
                 /\ Goto(th, [Idle EXCEPT !.pc = "check", !.id = next, !.orig = i,
                                !.wait = IF new_size = 0 THEN "reprice" ELSE "resize"])
              \/ UNCHANGED <<book, order_hash, t>>
  <2>1. next' \in Nat /\ next' \in 1..(MaxId + 1) /\ next < next' /\ next > 0 /\ i > 0
    BY <1>1, <1>6, OrderAssumption DEF Ids
  <2>2. /\ info' \in [Ids -> OrderInfo]
        /\ info'[next] = c
        /\ \A j \in Ids \ {next} : SameOrder(j)
    <3> DEFINE m == [info EXCEPT ![i].onOrderChange = TRUE]
    <3>1. "NONE" \in CancelStages
      BY DEF CancelStages
    <3>2. m \in [Ids -> OrderInfo]
      BY <1>4 DEF OrderInfo
    <3>3. \A j \in Ids : /\ m[j].size = info[j].size /\ m[j].fill_size = info[j].fill_size
                         /\ m[j].stage = info[j].stage /\ m[j].side = info[j].side
                         /\ m[j].onFill = info[j].onFill
      BY <1>4 DEF OrderInfo
    <3>4. info' = [m EXCEPT ![next] = c]
      BY <1>6
    <3> HIDE DEF m
    <3> QED
      BY <1>2, <1>6, <3>2, <3>3, <3>4 DEF SameOrder
  <2>3. PICK l \in Local :
          /\ t' = [t EXCEPT ![th] = l]
          /\ l.id < next'
          /\ l.pc \notin {"idle", "scan"} => l.id > 0
          /\ l.wait = "resize" => l.orig > 0
    <3>1. CASE UNCHANGED t
      <4>1. t' = [t EXCEPT ![th] = t[th]] /\ t[th] \in Local /\ t[th].id < next'
        BY <1>4, <3>1, <2>1, LocalFacts
      <4> QED
        BY <1>3, <1>4, <4>1
    <3>2. CASE ~UNCHANGED t
      <4> DEFINE w == IF new_size = 0 THEN "reprice" ELSE "resize"
                 l == [Idle EXCEPT !.pc = "check", !.id = next, !.orig = i, !.wait = w]
      <4>1. w \in Waits
        BY DEF Waits
      <4>2. t' = [t EXCEPT ![th] = l]
        BY <1>6, <3>2 DEF Goto
      <4> HIDE DEF w
      <4>3. l \in Local /\ l.id = next /\ l.orig = i
        BY <1>6, <4>1, IdleFacts DEF Local, PCs
      <4> QED
        BY <2>1, <4>2, <4>3
    <3> QED
      BY <3>1, <3>2
  <2>4. ActorsInv' /\ t' \in [Threads -> Local]
    <3>1. next <= next' /\ g' = g
      BY <1>1, <1>3, <2>1
    <3> QED
      BY <2>1, <2>3, <3>1, ThreadMoves
  <2>5. \/ book' = book
        \/ /\ book' = [book EXCEPT ![next] = [book[next] EXCEPT
                       !.state = "replacing", !.leaves = c.size, !.original = i]]
           /\ next \in order_hash'
    BY <1>4, <1>6 DEF Replace
  <2>6. /\ book' \in [Ids -> BookEntry]
        /\ \A j \in Ids \ {next} : book'[j] = book[j]
        /\ \/ book'[next] = book[next]
           \/ /\ book'[next].state = "replacing" /\ book'[next].leaves = c.size
              /\ book'[next].original = i
              /\ next \in order_hash'
    <3> DEFINE b == [book[next] EXCEPT !.state = "replacing", !.leaves = c.size, !.original = i]
    <3>1. c.size \in Nat
      BY <1>2, OrderAssumption DEF Sizes
    <3>2. /\ b \in BookEntry
          /\ b.state = "replacing" /\ b.leaves = c.size /\ b.original = i
      <4>1. book[next] \in BookEntry
        BY <1>4, <1>6
      <4>2. "replacing" \in BookStates /\ i \in {0} \cup Ids
        BY DEF BookStates
      <4> QED
        BY <3>1, <4>1, <4>2 DEF BookEntry
    <3>3. book' = book \/ (book' = [book EXCEPT ![next] = b] /\ next \in order_hash')
      BY <2>5
    <3> HIDE DEF b
    <3> QED
      BY <1>4, <1>6, <3>2, <3>3
  <2>7. TypeOK'
    <3>1. order_hash' \in SUBSET Ids
      BY <1>6 DEF IInv, TypeOK
    <3> QED
      BY <1>3, <2>1, <2>2, <2>4, <2>6, <3>1 DEF IInv, TypeOK, ExchangeTypeOK
  <2>8. ASSUME NEW j \in Ids  PROVE OrderInv(j)'
    <3>1. CASE j = next
      <4>1. c.onFill = "onOpenFill" <=> Opens(c)
        BY <1>1, <1>2 DEF OrderInv, SidesAgree, Opens
      <4>2. book[j] \in BookEntry /\ OrderInv(j) /\ inbox' = inbox /\ g' = g
        BY <1>3, <1>4 DEF IInv
      <4> QED
        BY <1>1, <1>2, <1>4, <1>6, <2>2, <2>6, <3>1, <4>1, <4>2, OrderEntered
    <3>2. CASE j # next
      <4>1. book'[j] = book[j] /\ SameOrder(j) /\ inbox' = inbox /\ g' = g /\ orders' = orders
            /\ order_hash \subseteq order_hash' /\ next \in Nat
        BY <1>1, <1>3, <1>6, <2>2, <2>6, <3>2
      <4> QED
        BY <1>6, <3>2, <4>1, OthersUntouched
    <3> QED
      BY <3>1, <3>2
  <2> QED
    BY <2>4, <2>7, <2>8 DEF IInv
<1> QED
  BY <1>5, <1>6 DEF Change

-----------------------------------------------------------------------------
(* The steps of the exchange.                                              *)

LEMMA ExchangeKeeps ==
  ASSUME IInv, UNCHANGED accountVars,
         book' \in [Ids -> BookEntry], inbox' \in [Ids -> Seq(Event)],
         \A i \in Ids : OrderInv(i)'
  PROVE  IInv'
<1>1. TypeOK'
  BY DEF IInv, TypeOK, ExchangeTypeOK, accountVars
<1>2. ActorsInv'
  BY DEF IInv, ActorsInv, accountVars
<1> QED
  BY <1>1, <1>2 DEF IInv

LEMMA BookFacts ==
  ASSUME IInv, NEW i \in Ids
  PROVE  /\ book \in [Ids -> BookEntry] /\ inbox \in [Ids -> Seq(Event)]
         /\ book[i] \in BookEntry /\ inbox[i] \in Seq(Event) /\ info[i] \in OrderInfo
         /\ book[i].leaves \in Nat /\ book[i].cancels \in Nat /\ book[i].original \in Nat
         /\ book[i].state \in BookStates
         /\ next \in Nat /\ OrderInv(i) /\ next \in 1..(MaxId + 1)
         /\ book[i].state # "none" \/ book[i].cancels > 0 \/ inbox[i] # <<>> => i < next
<1>1. /\ book \in [Ids -> BookEntry] /\ inbox \in [Ids -> Seq(Event)]
      /\ book[i] \in BookEntry /\ inbox[i] \in Seq(Event) /\ info[i] \in OrderInfo
      /\ next \in Nat /\ OrderInv(i) /\ next \in 1..(MaxId + 1)
  BY OrderAssumption DEF IInv, TypeOK, ExchangeTypeOK
<1>2. /\ book[i].leaves \in Nat /\ book[i].cancels \in Nat /\ book[i].original \in Nat
      /\ book[i].state \in BookStates
  BY <1>1 DEF BookEntry, Ids
<1>3. ~(i < next) => book[i].state = "none" /\ book[i].cancels = 0 /\ inbox[i] = <<>>
  BY <1>1 DEF OrderInv, FreshId, NoEntry
<1> QED
  BY <1>1, <1>2, <1>3

(* An order nobody is told about, whose entry in the book stays.           *)
LEMMA OrderNotTold ==
  ASSUME IInv, NEW i \in Ids, UNCHANGED accountVars,
         book'[i] = book[i], inbox'[i] = inbox[i]
  PROVE  OrderInv(i)'
<1>1. next' = next /\ orders' = orders /\ g' = g /\ info' = info /\ order_hash' = order_hash
  BY DEF accountVars
<1>2. SameOrder(i)
  BY <1>1, SameInfo
<1> QED
  BY <1>1, <1>2, BookFacts, OrderUntouched DEF Erasing

(* The exchange changes its entry of one order and tells it.               *)
LEMMA OneTold ==
  ASSUME IInv, NEW i \in Ids, UNCHANGED accountVars,
         NEW b \in BookEntry, book' = [book EXCEPT ![i] = b],
         NEW e \in Event, inbox' = [inbox EXCEPT ![i] = Append(inbox[i], e)],
         book[i].state # "none" \/ book[i].cancels > 0,
         b.state = "none" <=> book[i].state = "none",
         e.openSize = b.leaves, e.openSize + e.size = book[i].leaves,
         e.kind = "FILL" <=> e.size > 0,
         e.kind = "DONE" => e.openSize = 0,
         b.state = "filled" => b.leaves = 0,
         b.state = "replacing" => book[i].state = "replacing",
         b.original = book[i].original,
         \/ e.kind \in Refusals /\ b.state = book[i].state
         \/ /\ book[i].state \in Working \ {"throttled"}
            /\ e.kind \notin Refusals
            /\ e.kind = "THROTTLE" => b.state = "throttled"
            /\ b.state \in Working => e.kind \notin Closing
  PROVE  IInv'
<1>1. /\ book' \in [Ids -> BookEntry] /\ book'[i] = b
      /\ inbox'[i] = Append(inbox[i], e) /\ i < next
  BY BookFacts
<1>2. inbox' \in [Ids -> Seq(Event)]
  BY BookFacts, AppendFacts
<1>3. OrderInv(i)'
  <2>1. /\ next' = next /\ orders' = orders /\ g' = g /\ info' = info
        /\ order_hash' = order_hash
    BY DEF accountVars
  <2> QED
    BY <1>1, <2>1, BookFacts, OrderTold
<1>4. ASSUME NEW j \in Ids, j # i  PROVE OrderInv(j)'
  BY <1>4, BookFacts, OrderNotTold
<1> QED
  BY <1>1, <1>2, <1>3, <1>4, ExchangeKeeps

LEMMA MadeEvent ==
  ASSUME NEW kind \in EventKinds, NEW size \in Nat, NEW openSize \in Nat, NEW e,
         e = [kind |-> kind, size |-> size, openSize |-> openSize]
  PROVE  e \in Event /\ e.kind = kind /\ e.size = size /\ e.openSize = openSize
BY DEF Event

LEMMA KindFacts ==
  /\ {"NEW", "REJECTED", "THROTTLE", "FILL", "DONE", "CANCELED", "CHANGED", "CANCEL_NOTICE",
      "TOO_LATE_TO_CANCEL", "CANCEL_REJECTED", "CHANGE_REJECTED", "UNKNOWN"} \subseteq EventKinds
  /\ {"TOO_LATE_TO_CANCEL", "CANCEL_REJECTED", "CHANGE_REJECTED"} = Refusals
  /\ {"DONE", "CANCELED", "REJECTED", "CHANGED"} = Closing
  /\ {"posted", "throttled", "replacing", "live", "leaving", "filled"} = Working
  /\ Working \cup {"none", "done", "cancelled", "rejected", "replaced"} = BookStates
BY DEF EventKinds, Closing, Refusals, CancelRefusals, Working, BookStates

(* An order the exchange works on gets news with no fill in it, and goes   *)
(* on or is closed.                                                        *)
LEMMA OneMoved ==
  ASSUME IInv, NEW i \in Ids, UNCHANGED accountVars,
         NEW state \in {"live", "throttled", "leaving", "done", "cancelled", "rejected"},
         NEW kind \in {"NEW", "THROTTLE", "CANCEL_NOTICE", "DONE", "CANCELED", "REJECTED",
                      "UNKNOWN"},
         NEW cancels \in Nat,
         book[i].state \in Working \ {"throttled"},
         book' = [book EXCEPT ![i] = [book[i] EXCEPT !.state = state, !.cancels = cancels]],
         inbox' = [inbox EXCEPT ![i] =
           Append(inbox[i], [kind |-> kind, size |-> 0, openSize |-> book[i].leaves])],
         kind = "DONE" => book[i].leaves = 0,
         kind = "THROTTLE" => state = "throttled",
         state \in Working => kind \notin Closing
  PROVE  IInv'
<1> DEFINE b == [book[i] EXCEPT !.state = state, !.cancels = cancels]
           e == [kind |-> kind, size |-> 0, openSize |-> book[i].leaves]
<1>0. /\ book[i] \in BookEntry /\ book[i].leaves \in Nat
      /\ state \in BookStates /\ kind \in EventKinds
  BY BookFacts, KindFacts
<1>1. /\ b \in BookEntry /\ b.state = state /\ b.leaves = book[i].leaves
      /\ b.original = book[i].original
  BY <1>0 DEF BookEntry
<1>2. e \in Event /\ e.kind = kind /\ e.size = 0 /\ e.openSize = book[i].leaves
  BY <1>0, MadeEvent
<1>3. /\ book' = [book EXCEPT ![i] = b] /\ inbox' = [inbox EXCEPT ![i] = Append(inbox[i], e)]
  OBVIOUS
<1>4. /\ state # "none" /\ state # "filled" /\ state # "replacing" /\ kind # "FILL"
      /\ kind \notin Refusals /\ book[i].state # "none"
      /\ book[i].leaves + 0 = book[i].leaves
  BY <1>0, KindFacts
<1> HIDE DEF b, e
<1>5. /\ b.state = "none" <=> book[i].state = "none"
      /\ e.openSize = b.leaves /\ e.openSize + e.size = book[i].leaves
      /\ e.kind = "FILL" <=> e.size > 0
      /\ e.kind = "DONE" => e.openSize = 0
      /\ e.kind = "THROTTLE" => b.state = "throttled"
      /\ b.state \in Working => e.kind \notin Closing
  BY <1>1, <1>2, <1>4
<1>6. /\ b.state = "filled" => b.leaves = 0
      /\ b.state = "replacing" => book[i].state = "replacing"
      /\ book[i].state # "none" \/ book[i].cancels > 0
      /\ e.kind \notin Refusals
  BY <1>1, <1>2, <1>4
<1> QED
  BY <1>1, <1>2, <1>3, <1>5, <1>6, OneTold, ZenonT(90)

LEMMA AcceptStep ==
  ASSUME IInv, NEW i \in Ids, Accept(i), UNCHANGED accountVars  PROVE IInv'
<1>1. /\ book' = [book EXCEPT ![i] = [book[i] EXCEPT !.state = "live",
                                                    !.cancels = book[i].cancels]]
      /\ book[i].cancels \in Nat
  BY BookFacts DEF Accept, Become, BookEntry
<1>2. "posted" \in Working \ {"throttled"} /\ "NEW" \notin Closing
  BY KindFacts
<1> QED
  BY <1>1, <1>2, OneMoved DEF Accept, Tell

LEMMA RejectStep ==
  ASSUME IInv, NEW i \in Ids, Reject(i), UNCHANGED accountVars  PROVE IInv'
<1>1. /\ book' = [book EXCEPT ![i] = [book[i] EXCEPT !.state = "rejected",
                                                    !.cancels = book[i].cancels]]
      /\ book[i].cancels \in Nat
  BY BookFacts DEF Reject, Become, BookEntry
<1>2. "posted" \in Working \ {"throttled"} /\ "rejected" \notin Working
  BY KindFacts
<1> QED
  BY <1>1, <1>2, OneMoved, ZenonT(90) DEF Reject, Tell

LEMMA ThrottleStep ==
  ASSUME IInv, NEW i \in Ids, Throttle(i), UNCHANGED accountVars  PROVE IInv'
<1>1. /\ book' = [book EXCEPT ![i] = [book[i] EXCEPT !.state = "throttled",
                                                    !.cancels = book[i].cancels]]
      /\ book[i].cancels \in Nat
  BY BookFacts DEF Throttle, Become, BookEntry
<1>2. "posted" \in Working \ {"throttled"} /\ "THROTTLE" \notin Closing
  BY KindFacts
<1> QED
  BY <1>1, <1>2, OneMoved, ZenonT(90) DEF Throttle, Tell

LEMMA CompleteStep ==
  ASSUME IInv, NEW i \in Ids, Complete(i), UNCHANGED accountVars  PROVE IInv'
<1>1. /\ book' = [book EXCEPT ![i] = [book[i] EXCEPT !.state = "done",
                                                    !.cancels = book[i].cancels]]
      /\ book[i].cancels \in Nat
  BY BookFacts DEF Complete, Become, BookEntry
<1>2. "filled" \in Working \ {"throttled"} /\ "done" \notin Working
  BY KindFacts
<1>3. book[i].leaves = 0
  BY BookFacts DEF Complete, OrderInv, EventForm
<1> QED
  BY <1>1, <1>2, <1>3, OneMoved, ZenonT(90) DEF Complete, Tell

LEMMA CancelOrderDoneStep ==
  ASSUME IInv, NEW i \in Ids, CancelOrderDone(i), UNCHANGED accountVars  PROVE IInv'
<1>0. book[i] \in BookEntry /\ book \in [Ids -> BookEntry] /\ book[i].cancels \in Nat
  BY BookFacts
<1>1. /\ book' = [book EXCEPT ![i] = [book[i] EXCEPT !.state = "cancelled",
                                                    !.cancels = book[i].cancels - 1]]
      /\ book[i].cancels - 1 \in Nat
  BY <1>0 DEF CancelOrderDone, AnswerCancel, BookEntry
<1>2. "live" \in Working \ {"throttled"} /\ "cancelled" \notin Working
  BY KindFacts
<1>3. /\ book[i].state = "live"
      /\ inbox' = [inbox EXCEPT ![i] = Append(inbox[i],
                     [kind |-> "CANCELED", size |-> 0, openSize |-> book[i].leaves])]
  BY DEF CancelOrderDone, AnswerCancel, Tell
<1> QED
  BY <1>1, <1>2, <1>3, OneMoved

LEMMA AnnounceCancelStep ==
  ASSUME IInv, NEW i \in Ids, AnnounceCancel(i), UNCHANGED accountVars  PROVE IInv'
<1>1. /\ book' = [book EXCEPT ![i] = [book[i] EXCEPT !.state = "leaving",
                                                    !.cancels = book[i].cancels]]
      /\ book[i].cancels \in Nat
  BY BookFacts DEF AnnounceCancel, Become, BookEntry
<1>2. "live" \in Working \ {"throttled"} /\ "CANCEL_NOTICE" \notin Closing
  BY KindFacts
<1> QED
  BY <1>1, <1>2, OneMoved, ZenonT(90) DEF AnnounceCancel, Tell

LEMMA CompleteCancelStep ==
  ASSUME IInv, NEW i \in Ids, CompleteCancel(i), UNCHANGED accountVars  PROVE IInv'
<1>1. /\ book' = [book EXCEPT ![i] = [book[i] EXCEPT !.state = "cancelled",
                                                    !.cancels = book[i].cancels]]
      /\ book[i].cancels \in Nat
  BY BookFacts DEF CompleteCancel, Become, BookEntry
<1>2. "leaving" \in Working \ {"throttled"} /\ "cancelled" \notin Working
  BY KindFacts
<1> QED
  BY <1>1, <1>2, OneMoved, ZenonT(90) DEF CompleteCancel, Tell

LEMMA CancelOrderRefusedStep ==
  ASSUME IInv, NEW i \in Ids, CancelOrderRefused(i), UNCHANGED accountVars  PROVE IInv'
<1>0. /\ book[i] \in BookEntry /\ book \in [Ids -> BookEntry] /\ book[i].cancels \in Nat
      /\ book[i].leaves \in Nat
  BY BookFacts
<1>1. PICK kind \in {"TOO_LATE_TO_CANCEL", "CANCEL_REJECTED"} :
        /\ book[i].cancels > 0
        /\ book' = [book EXCEPT ![i] = [book[i] EXCEPT !.cancels = book[i].cancels - 1]]
        /\ inbox' = [inbox EXCEPT ![i] = Append(inbox[i],
                       [kind |-> kind, size |-> 0, openSize |-> book[i].leaves])]
  <2>1. ASSUME NEW state, NEW kind, state = book[i].state, AnswerCancel(i, state, kind)
        PROVE  /\ book[i].cancels > 0
               /\ book' = [book EXCEPT ![i] = [book[i] EXCEPT !.cancels = book[i].cancels - 1]]
               /\ inbox' = [inbox EXCEPT ![i] = Append(inbox[i],
                              [kind |-> kind, size |-> 0, openSize |-> book[i].leaves])]
    BY <1>0, <2>1 DEF AnswerCancel, Tell, BookEntry
  <2> QED
    BY <2>1 DEF CancelOrderRefused
<1> DEFINE b == [book[i] EXCEPT !.cancels = book[i].cancels - 1]
           e == [kind |-> kind, size |-> 0, openSize |-> book[i].leaves]
<1>2. /\ b \in BookEntry /\ b.state = book[i].state /\ b.leaves = book[i].leaves
      /\ b.original = book[i].original
  BY <1>0, <1>1 DEF BookEntry
<1>3. e \in Event /\ e.kind = kind /\ e.size = 0 /\ e.openSize = book[i].leaves
  BY <1>0, KindFacts, MadeEvent
<1>4. book' = [book EXCEPT ![i] = b] /\ inbox' = [inbox EXCEPT ![i] = Append(inbox[i], e)]
  BY <1>1
<1> HIDE DEF b, e
<1>5. /\ b.state = "none" <=> book[i].state = "none"
      /\ e.openSize = b.leaves /\ e.openSize + e.size = book[i].leaves
      /\ e.kind = "FILL" <=> e.size > 0
      /\ e.kind = "DONE" => e.openSize = 0
      /\ b.state = "replacing" => book[i].state = "replacing"
      /\ e.kind \in Refusals
  BY <1>0, <1>2, <1>3, KindFacts
<1>6. b.state = "filled" => b.leaves = 0
  BY <1>2, BookFacts DEF OrderInv, EventForm
<1>7. /\ book[i].state # "none" \/ book[i].cancels > 0
      /\ e.kind \in Refusals /\ b.state = book[i].state
  BY <1>1, <1>2, <1>5
<1> QED
  BY <1>2, <1>3, <1>4, <1>5, <1>6, <1>7, OneTold

LEMMA ExecuteStep ==
  ASSUME IInv, NEW i \in Ids, NEW n \in Sizes, Execute(i, n), UNCHANGED accountVars
  PROVE  IInv'
<1>0. /\ book[i] \in BookEntry /\ book \in [Ids -> BookEntry] /\ book[i].leaves \in Nat
      /\ book[i].state = "live" /\ n \in 1..book[i].leaves
  BY BookFacts DEF Execute
<1> DEFINE left  == book[i].leaves - n
           state == IF n = book[i].leaves THEN "filled" ELSE "live"
           b == [book[i] EXCEPT !.leaves = left, !.state = state]
           e == [kind |-> "FILL", size |-> n, openSize |-> left]
<1>1. left \in Nat /\ left + n = book[i].leaves /\ n \in Nat /\ n > 0
  BY <1>0
<1>2. /\ state \in BookStates /\ state # "none" /\ state # "replacing"
      /\ state = "filled" => left = 0
  BY <1>0, KindFacts
<1>3. book' = [book EXCEPT ![i] = b] /\ inbox' = [inbox EXCEPT ![i] = Append(inbox[i], e)]
  BY <1>0 DEF Execute, Tell, BookEntry
<1> HIDE DEF left, state
<1>4. b \in BookEntry /\ b.state = state /\ b.leaves = left /\ b.original = book[i].original
  BY <1>0, <1>1, <1>2 DEF BookEntry
<1>5. e \in Event /\ e.kind = "FILL" /\ e.size = n /\ e.openSize = left
  BY <1>1, KindFacts, MadeEvent
<1> HIDE DEF b, e
<1>6. /\ book[i].state \in Working \ {"throttled"} /\ "FILL" \notin Refusals
      /\ "FILL" \notin Closing /\ book[i].state # "none"
  BY <1>0, KindFacts
<1>7. /\ b.state = "none" <=> book[i].state = "none"
      /\ e.openSize = b.leaves /\ e.openSize + e.size = book[i].leaves
      /\ e.kind = "FILL" <=> e.size > 0
      /\ e.kind = "DONE" => e.openSize = 0
      /\ b.state = "filled" => b.leaves = 0
      /\ b.state = "replacing" => book[i].state = "replacing"
      /\ e.kind = "THROTTLE" => b.state = "throttled"
      /\ b.state \in Working => e.kind \notin Closing
      /\ e.kind \notin Refusals
      /\ book[i].state # "none" \/ book[i].cancels > 0
  BY <1>1, <1>2, <1>4, <1>5, <1>6
<1> QED
  BY <1>3, <1>4, <1>5, <1>6, <1>7, OneTold

(* The order a change request replaces has an id of its own.               *)
LEMMA Replaced ==
  ASSUME IInv, NEW j \in Ids, book[j].state = "replacing"
  PROVE  book[j].original \in Ids /\ book[j].original # j /\ book[j].original < next
<1>1. book[j].original \in (1..(next - 1)) \ {j} /\ next \in 1..(MaxId + 1)
  BY BookFacts DEF OrderInv, ReplacesAnother
<1> QED
  BY <1>1, OrderAssumption DEF Ids

LEMMA AcceptChangeStep ==
  ASSUME IInv, NEW j \in Ids, AcceptChange(j), UNCHANGED accountVars  PROVE IInv'
<1> DEFINE i == book[j].original
           bi == [book[i] EXCEPT !.state = "replaced"]
           bj == [book[j] EXCEPT !.state = "live"]
           ei == [kind |-> "CHANGED", size |-> 0, openSize |-> book[i].leaves]
           ej == [kind |-> "NEW", size |-> 0, openSize |-> book[j].leaves]
<1>0. book[j].state = "replacing" /\ book[i].state = "live"
  BY DEF AcceptChange
<1>1. i \in Ids /\ i # j /\ i < next
  BY <1>0, Replaced
<1>2. /\ book \in [Ids -> BookEntry] /\ inbox \in [Ids -> Seq(Event)]
      /\ book[i] \in BookEntry /\ book[j] \in BookEntry
      /\ book[i].leaves \in Nat /\ book[j].leaves \in Nat /\ j < next
      /\ inbox[i] \in Seq(Event) /\ inbox[j] \in Seq(Event)
      /\ next' = next /\ orders' = orders /\ g' = g /\ info' = info
      /\ order_hash' = order_hash /\ next \in Nat
      /\ info[i] \in OrderInfo /\ info[j] \in OrderInfo /\ OrderInv(i) /\ OrderInv(j)
  BY <1>0, <1>1, BookFacts DEF accountVars
<1>3. /\ book' = [book EXCEPT ![i] = bi, ![j] = bj]
      /\ inbox' = [inbox EXCEPT ![i] = Append(inbox[i], ei), ![j] = Append(inbox[j], ej)]
  BY <1>1, <1>2 DEF AcceptChange, BookEntry
<1>4. /\ bi \in BookEntry /\ bi.state = "replaced" /\ bi.leaves = book[i].leaves
      /\ bi.original = book[i].original
      /\ bj \in BookEntry /\ bj.state = "live" /\ bj.leaves = book[j].leaves
      /\ bj.original = book[j].original
  BY <1>2, KindFacts DEF BookEntry
<1>5. /\ ei \in Event /\ ei.kind = "CHANGED" /\ ei.size = 0 /\ ei.openSize = book[i].leaves
      /\ ej \in Event /\ ej.kind = "NEW" /\ ej.size = 0 /\ ej.openSize = book[j].leaves
  BY <1>2, KindFacts, MadeEvent
<1> HIDE DEF i, bi, bj, ei, ej
<1>6. /\ book' \in [Ids -> BookEntry] /\ inbox' \in [Ids -> Seq(Event)]
      /\ book'[i] = bi /\ book'[j] = bj
      /\ inbox'[i] = Append(inbox[i], ei) /\ inbox'[j] = Append(inbox[j], ej)
      /\ \A k \in Ids \ {i, j} : book'[k] = book[k] /\ inbox'[k] = inbox[k]
  <2>1. Append(inbox[i], ei) \in Seq(Event) /\ Append(inbox[j], ej) \in Seq(Event)
    BY <1>2, <1>5, AppendFacts
  <2> QED
    BY <1>1, <1>2, <1>3, <1>4, <2>1
<1>7. /\ {"live", "replacing"} \subseteq Working \ {"throttled"} /\ "replaced" \notin Working
      /\ {"CHANGED", "NEW"} \cap Refusals = {} /\ "NEW" \notin Closing
  BY KindFacts
<1>8. ASSUME NEW k \in Ids  PROVE OrderInv(k)'
  <2>1. CASE k = i
    <3>1. /\ book'[k] \in BookEntry /\ inbox'[k] = Append(inbox[k], ei)
          /\ book'[k].state = "none" <=> book[k].state = "none"
          /\ ei.openSize = book'[k].leaves /\ ei.openSize + ei.size = book[k].leaves
          /\ ei.kind = "FILL" <=> ei.size > 0
          /\ ei.kind = "DONE" => ei.openSize = 0
          /\ book'[k].state = "filled" => book'[k].leaves = 0
          /\ book'[k].state = "replacing" => book[k].state = "replacing"
          /\ book'[k].original = book[k].original
          /\ book[k].state \in Working \ {"throttled"} /\ ei.kind \notin Refusals
          /\ ei.kind = "THROTTLE" => book'[k].state = "throttled"
          /\ book'[k].state \in Working => ei.kind \notin Closing
      BY <1>0, <1>2, <1>4, <1>5, <1>6, <1>7, <2>1
    <3> QED
      BY <1>1, <1>2, <1>5, <2>1, <3>1, OrderTold
  <2>2. CASE k = j
    <3>1. /\ book'[k] \in BookEntry /\ inbox'[k] = Append(inbox[k], ej)
          /\ book'[k].state = "none" <=> book[k].state = "none"
          /\ ej.openSize = book'[k].leaves /\ ej.openSize + ej.size = book[k].leaves
          /\ ej.kind = "FILL" <=> ej.size > 0
          /\ ej.kind = "DONE" => ej.openSize = 0
          /\ book'[k].state = "filled" => book'[k].leaves = 0
          /\ book'[k].state = "replacing" => book[k].state = "replacing"
          /\ book'[k].original = book[k].original
          /\ book[k].state \in Working \ {"throttled"} /\ ej.kind \notin Refusals
          /\ ej.kind = "THROTTLE" => book'[k].state = "throttled"
          /\ book'[k].state \in Working => ej.kind \notin Closing
      BY <1>0, <1>2, <1>4, <1>5, <1>6, <1>7, <2>2
    <3> QED
      BY <1>1, <1>2, <1>5, <2>2, <3>1, OrderTold
  <2>3. CASE k \notin {i, j}
    BY <1>6, <2>3, OrderNotTold
  <2> QED
    BY <2>1, <2>2, <2>3
<1> QED
  BY <1>6, <1>8, ExchangeKeeps

(* A replacement the exchange gives up without a word about it.            *)
LEMMA OrderGivenUp ==
  ASSUME IInv, NEW j \in Ids, UNCHANGED accountVars, book[j].state = "replacing",
         book'[j] = [book[j] EXCEPT !.state = "rejected"], inbox'[j] = inbox[j]
  PROVE  OrderInv(j)' /\ book'[j] \in BookEntry
<1>1. /\ book[j] \in BookEntry /\ next' = next /\ orders' = orders /\ g' = g /\ info' = info
      /\ order_hash' = order_hash /\ OrderInv(j) /\ j < next
  BY BookFacts DEF accountVars
<1>2. /\ book'[j] \in BookEntry /\ book'[j].state = "rejected"
      /\ book'[j].leaves = book[j].leaves /\ "rejected" \notin Working
  BY <1>1, KindFacts DEF BookEntry
<1>3. FreshId(j)' /\ ReplacesAnother(j)' /\ EventForm(j)'
  BY <1>1, <1>2 DEF OrderInv, FreshId, ReplacesAnother, EventForm
<1>4. ThrottledOnce(j)'
  BY <1>1 DEF OrderInv, ThrottledOnce
<1>5. ClosedIsLast(j)'
  BY <1>1, <1>2 DEF OrderInv, ClosedIsLast, Erasing, OnlyRefusals
<1>6. SidesAgree(j)' /\ DoneIsFull(j)' /\ Matches(j)'
  BY <1>1 DEF OrderInv, SidesAgree, Opens, DoneIsFull, Matches
<1>7. Reconciles(j)'
  BY <1>1, <1>2 DEF OrderInv, Reconciles, LeavesBefore
<1> QED
  BY <1>2, <1>3, <1>4, <1>5, <1>6, <1>7 DEF OrderInv

LEMMA RefuseChangeStep ==
  ASSUME IInv, NEW j \in Ids, RefuseChange(j), UNCHANGED accountVars  PROVE IInv'
<1> SUFFICES ASSUME NEW i, i = book[j].original  PROVE IInv'
  OBVIOUS
<1> DEFINE bj == [book[j] EXCEPT !.state = "rejected"]
           e  == [kind |-> "CHANGE_REJECTED", size |-> 0, openSize |-> book[i].leaves]
<1>0. book[j].state = "replacing"
  BY DEF RefuseChange
<1>1. i \in Ids /\ i # j /\ i < next
  BY <1>0, Replaced
<1>2. /\ book \in [Ids -> BookEntry] /\ inbox \in [Ids -> Seq(Event)]
      /\ book[i] \in BookEntry /\ book[j] \in BookEntry
      /\ book[i].leaves \in Nat /\ book[j].leaves \in Nat /\ book[j].cancels \in Nat
      /\ inbox[i] \in Seq(Event)
      /\ next' = next /\ orders' = orders /\ g' = g /\ info' = info
      /\ order_hash' = order_hash /\ next \in Nat
      /\ info[i] \in OrderInfo /\ OrderInv(i)
  BY <1>0, <1>1, BookFacts DEF accountVars
<1>3. /\ book' = [book EXCEPT ![j] = bj]
      /\ book' = [book EXCEPT ![j] = [book[j] EXCEPT !.state = "rejected",
                                                    !.cancels = book[j].cancels]]
  BY <1>1, <1>2 DEF RefuseChange, Become, BookEntry
<1>4. /\ "replacing" \in Working \ {"throttled"} /\ "rejected" \notin Working
  BY KindFacts
<1> HIDE DEF bj
<1>5. CASE Tell(j, "REJECTED", 0, book[j].leaves)
  <2>1. inbox' = [inbox EXCEPT ![j] = Append(inbox[j],
                   [kind |-> "REJECTED", size |-> 0, openSize |-> book[j].leaves])]
    BY <1>5 DEF Tell
  <2>2. book[j].state \in Working \ {"throttled"} /\ book[j].cancels \in Nat
    BY <1>0, <1>2, <1>4
  <2> QED
    BY <1>3, <1>4, <2>1, <2>2, OneMoved
<1>6. CASE Tell(j, "UNKNOWN", 0, book[j].leaves)
  <2>1. inbox' = [inbox EXCEPT ![j] = Append(inbox[j],
                   [kind |-> "UNKNOWN", size |-> 0, openSize |-> book[j].leaves])]
    BY <1>6 DEF Tell
  <2>2. book[j].state \in Working \ {"throttled"} /\ book[j].cancels \in Nat
    BY <1>0, <1>2, <1>4
  <2> QED
    BY <1>3, <1>4, <2>1, <2>2, OneMoved
<1>7. CASE Tell(i, "CHANGE_REJECTED", 0, book[i].leaves)
  <2>1. inbox' = [inbox EXCEPT ![i] = Append(inbox[i], e)]
    BY <1>7 DEF Tell
  <2>2. /\ e \in Event /\ e.kind = "CHANGE_REJECTED" /\ e.size = 0
        /\ e.openSize = book[i].leaves
    BY <1>2, KindFacts, MadeEvent
  <2> HIDE DEF e
  <2>3. book'[j] = bj /\ \A k \in Ids \ {j} : book'[k] = book[k]
    BY <1>2, <1>3
  <2>4. /\ inbox'[i] = Append(inbox[i], e) /\ inbox' \in [Ids -> Seq(Event)]
        /\ \A k \in Ids \ {i} : inbox'[k] = inbox[k]
    <3>1. Append(inbox[i], e) \in Seq(Event)
      BY <1>2, <2>2, AppendFacts
    <3> QED
      BY <1>1, <1>2, <2>1, <3>1
  <2>5. OrderInv(j)' /\ book'[j] \in BookEntry
    BY <1>0, <1>1, <2>3, <2>4, OrderGivenUp DEF bj
  <2>6. OrderInv(i)'
    <3>0. /\ i \in Ids /\ OrderInv(i) /\ inbox[i] \in Seq(Event) /\ book[i] \in BookEntry
          /\ info[i] \in OrderInfo /\ inbox'[i] = Append(inbox[i], e) /\ e \in Event
      BY <1>1, <1>2, <2>2, <2>4
    <3>1. /\ book'[i] = book[i] /\ book'[i] \in BookEntry
          /\ book'[i].state = "filled" => book'[i].leaves = 0
      BY <1>1, <1>2, <2>3 DEF OrderInv, EventForm
    <3>2. /\ book'[i].state = "none" <=> book[i].state = "none"
          /\ e.openSize = book'[i].leaves /\ e.openSize + e.size = book[i].leaves
          /\ e.kind = "FILL" <=> e.size > 0
          /\ e.kind = "DONE" => e.openSize = 0
          /\ book'[i].state = "replacing" => book[i].state = "replacing"
          /\ book'[i].original = book[i].original
          /\ e.kind \in Refusals /\ book'[i].state = book[i].state
      BY <1>2, <2>2, <3>1, KindFacts
    <3> QED
      BY <1>1, <1>2, <3>0, <3>1, <3>2, OrderTold
  <2>7. ASSUME NEW k \in Ids \ {i, j}  PROVE OrderInv(k)'
    BY <2>3, <2>4, OrderNotTold
  <2>8. book' \in [Ids -> BookEntry]
    BY <1>2, <1>3, <2>3, <2>5
  <2>9. \A k \in Ids : OrderInv(k)'
    BY <2>5, <2>6, <2>7
  <2> QED
    BY <2>4, <2>8, <2>9, ExchangeKeeps
<1> QED
  BY <1>5, <1>6, <1>7 DEF RefuseChange

(* Every step of the exchange keeps the invariant.                         *)
LEMMA ExchangeStepKeeps ==
  ASSUME IInv, NEW i \in Ids, ExchangeStep(i), UNCHANGED accountVars  PROVE IInv'
BY AcceptStep, RejectStep, ThrottleStep, CompleteStep, CancelOrderDoneStep,
   CancelOrderRefusedStep, CompleteCancelStep, AcceptChangeStep, RefuseChangeStep,
   AnnounceCancelStep, ExecuteStep DEF ExchangeStep, Decide, Answer

-----------------------------------------------------------------------------
(* The callbacks.                                                          *)

(* A callback takes the oldest event of order i and leaves o of it.        *)
LEMMA OneHandled ==
  ASSUME IInv, NEW i \in Ids, g.pc = "idle", inbox[i] # <<>>,
         NEW e, e = Head(inbox[i]), inbox' = [inbox EXCEPT ![i] = Tail(inbox[i])],
         \/ book' = book
         \/ /\ e.kind = "THROTTLE"
            /\ book' = [book EXCEPT ![i] = [book[i] EXCEPT !.state = "posted"]],
         NEW o \in OrderInfo, info' = [info EXCEPT ![i] = o],
         o.size = info[i].size, o.side = info[i].side, o.onFill = info[i].onFill,
         o.fill_size = info[i].fill_size + e.size,
         o.stage = "DONE" => info[i].stage = "DONE" \/ e.kind = "DONE",
         UNCHANGED <<next, live, totalExecuted, t>>, orders' \subseteq orders,
         \/ order_hash' = order_hash
         \/ order_hash' = order_hash \ {i} /\ e.kind \in Closing,
         g' \in GatewayLocal, g'.id \in {0, i, g.id}, g'.pc # "idle" => g'.id = i,
         g'.pc \in {"notify_failed", "cancel_done", "count"} => e.kind \in Closing,
         g'.pc = "count" => e.kind = "DONE" /\ o.stage = "DONE",
         total' \in Int, pending' \in Seq(Sizes), mt' \in Threads \cup {Gateway, Nobody}
  PROVE  IInv'
<1>1. /\ book \in [Ids -> BookEntry] /\ inbox \in [Ids -> Seq(Event)]
      /\ info \in [Ids -> OrderInfo] /\ next \in Nat /\ next' = next
      /\ book[i] \in BookEntry /\ info[i] \in OrderInfo /\ inbox[i] \in Seq(Event)
      /\ OrderInv(i) /\ i < next
  BY BookFacts DEF IInv, TypeOK
<1>2. /\ book' \in [Ids -> BookEntry]
      /\ \/ book'[i] = book[i]
         \/ e.kind = "THROTTLE" /\ book'[i] = [book[i] EXCEPT !.state = "posted"]
      /\ \A j \in Ids \ {i} : book'[j] = book[j]
  <2>1. [book[i] EXCEPT !.state = "posted"] \in BookEntry
    BY <1>1, KindFacts DEF BookEntry
  <2> QED
    BY <1>1, <2>1
<1>3. /\ inbox' \in [Ids -> Seq(Event)] /\ inbox'[i] = Tail(inbox[i])
      /\ \A j \in Ids \ {i} : inbox'[j] = inbox[j]
  <2>1. Tail(inbox[i]) \in Seq(Event)
    BY <1>1, TailFacts
  <2> QED
    BY <1>1, <2>1
<1>4. /\ info' \in [Ids -> OrderInfo] /\ info'[i] = o
      /\ \A j \in Ids \ {i} : SameOrder(j)
  BY <1>1 DEF SameOrder
<1>5. OrderInv(i)'
  <2>1. /\ i \in order_hash => i \in order_hash' \/ e.kind \in Closing
        /\ Erasing(i)' => e.kind \in Closing
        /\ (g.pc = "count" /\ g.id = i)' => e.kind = "DONE" /\ info'[i].stage = "DONE"
    BY <1>4 DEF Erasing
  <2> QED
    BY <1>1, <1>2, <1>3, <1>4, <2>1, OrderHandled
<1>6. ASSUME NEW j \in Ids \ {i}  PROVE OrderInv(j)'
  <2>1. /\ Erasing(j)' => Erasing(j)
        /\ (g.pc = "count" /\ g.id = j)' => g.pc = "count" /\ g.id = j
    BY <1>6 DEF Erasing
  <2>2. /\ book'[j] = book[j] /\ inbox'[j] = inbox[j] /\ SameOrder(j)
        /\ j \in order_hash => j \in order_hash'
    BY <1>2, <1>3, <1>4, <1>6
  <2>3. book[j].original \in Nat /\ OrderInv(j)
    BY BookFacts
  <2> QED
    BY <1>1, <2>1, <2>2, <2>3, OrderUntouched
<1>7. TypeOK'
  <2>1. order_hash' \in SUBSET Ids /\ orders' \in SUBSET Ids
    BY DEF IInv, TypeOK
  <2> QED
    BY <1>2, <1>3, <1>4, <2>1 DEF IInv, TypeOK, ExchangeTypeOK
<1>8. ActorsInv'
  <2>1. g'.id < next
    BY <1>1 DEF IInv, TypeOK, ActorsInv
  <2>2. g'.pc # "idle" => g'.id > 0
    BY <1>1 DEF Ids
  <2> QED
    BY <2>1, <2>2 DEF IInv, ActorsInv
<1> QED
  BY <1>5, <1>6, <1>7, <1>8 DEF IInv

(* What a matched callback finds.                                          *)
LEMMA MatchedFacts ==
  ASSUME IInv, NEW i \in Ids, NEW kinds, Deliver(i, kinds)
  PROVE  /\ g.pc = "idle" /\ inbox[i] # <<>>
         /\ Head(inbox[i]) \in Event /\ Head(inbox[i]).kind \in kinds
         /\ inbox' = [inbox EXCEPT ![i] = Tail(inbox[i])]
         /\ info[i] \in OrderInfo /\ GatewayIdle \in GatewayLocal
         /\ GatewayIdle.pc = "idle" /\ GatewayIdle.id = 0
         /\ Head(inbox[i]).kind # "FILL" => info[i].fill_size = info[i].fill_size + Head(inbox[i]).size
         /\ UNCHANGED <<total, pending, mt>> =>
              total' \in Int /\ pending' \in Seq(Sizes) /\ mt' \in Threads \cup {Gateway, Nobody}
         /\ g' = g => g' \in GatewayLocal /\ g'.pc = "idle"
<1>1. g.pc = "idle" /\ inbox[i] # <<>> /\ Head(inbox[i]).kind \in kinds
      /\ inbox' = [inbox EXCEPT ![i] = Tail(inbox[i])]
  BY DEF Deliver
<1>2. /\ Head(inbox[i]) \in Event /\ info[i] \in OrderInfo
      /\ Head(inbox[i]).kind # "FILL" => Head(inbox[i]).size = 0
  BY <1>1, BookFacts, HeadFacts
<1>3. info[i].fill_size + 0 = info[i].fill_size
  BY <1>2 DEF OrderInfo
<1>4. GatewayIdle \in GatewayLocal /\ GatewayIdle.pc = "idle" /\ GatewayIdle.id = 0
  BY DEF GatewayIdle, GatewayLocal, GatewayPCs
<1>5. g \in GatewayLocal /\ total \in Int /\ pending \in Seq(Sizes)
      /\ mt \in Threads \cup {Gateway, Nobody}
  BY DEF IInv, TypeOK
<1> QED
  BY <1>1, <1>2, <1>3, <1>4, <1>5

(* The copy of the message changes nothing else of the order.              *)
LEMMA ReceivedFacts ==
  ASSUME IInv, NEW i \in Ids, inbox[i] # <<>>
  PROVE  /\ Received(i) \in OrderInfo
         /\ Received(i).size = info[i].size /\ Received(i).side = info[i].side
         /\ Received(i).onFill = info[i].onFill
         /\ Received(i).fill_size = info[i].fill_size
         /\ Received(i).stage = info[i].stage
<1>1. info[i] \in OrderInfo /\ Head(inbox[i]) \in Event
  BY BookFacts, HeadFacts
<1> DEFINE c == IF Head(inbox[i]).kind \in {"DONE", "CANCELED"} THEN Head(inbox[i]).kind
                                                               ELSE "OTHER"
<1>2. c \in Conditions /\ Head(inbox[i]).openSize \in Nat
  BY <1>1 DEF Conditions, Event
<1>3. Received(i) = [info[i] EXCEPT !.condition = c, !.openSize = Head(inbox[i]).openSize]
  BY DEF Received
<1> HIDE DEF c
<1> QED
  BY <1>1, <1>2, <1>3 DEF OrderInfo

(* A callback that records o of an event other than a fill, forgets the    *)
(* order only when the event closes it, and leaves the callback thread at  *)
(* pc.                                                                     *)
LEMMA Recorded ==
  ASSUME IInv, NEW i \in Ids, NEW kinds, Deliver(i, kinds),
         \/ book' = book
         \/ kinds = {"THROTTLE"} /\ Become(i, "posted"),
         "FILL" \notin kinds,
         NEW o \in OrderInfo, Record(i, o),
         o.size = info[i].size, o.side = info[i].side, o.onFill = info[i].onFill,
         o.fill_size = info[i].fill_size,
         o.stage = "DONE" => info[i].stage = "DONE" \/ kinds = {"DONE"},
         UNCHANGED <<next, live, total, totalExecuted, t>>, orders' \subseteq orders,
         pending' \in Seq(Sizes), mt' \in Threads \cup {Gateway, Nobody},
         \/ order_hash' = order_hash
         \/ order_hash' = order_hash \ {i} /\ kinds \subseteq Closing,
         NEW pc \in GatewayPCs, NEW tmp \in Int,
         \/ g' = [pc |-> pc, id |-> i, tmp |-> tmp]
         \/ UNCHANGED g,
         pc \in {"notify_failed", "cancel_done", "count"} => kinds \subseteq Closing,
         pc = "count" => kinds = {"DONE"} /\ o.stage = "DONE"
  PROVE  IInv'
<1>1. /\ g.pc = "idle" /\ inbox[i] # <<>> /\ Head(inbox[i]).kind \in kinds
      /\ inbox' = [inbox EXCEPT ![i] = Tail(inbox[i])]
      /\ info[i].fill_size = info[i].fill_size + Head(inbox[i]).size
  BY MatchedFacts
<1>2. info' = [info EXCEPT ![i] = o] /\ total' \in Int
  BY DEF Record, IInv, TypeOK
<1>3. /\ g' \in GatewayLocal /\ g'.id \in {0, i, g.id}
      /\ g'.pc # "idle" => g'.id = i
      /\ g'.pc \in {pc, "idle"}
  BY <1>1 DEF IInv, TypeOK, GatewayLocal
<1>4. \/ book' = book
      \/ /\ Head(inbox[i]).kind = "THROTTLE"
         /\ book' = [book EXCEPT ![i] = [book[i] EXCEPT !.state = "posted"]]
  BY <1>1 DEF Become
<1>5. /\ \/ order_hash' = order_hash
         \/ order_hash' = order_hash \ {i} /\ Head(inbox[i]).kind \in Closing
      /\ g'.pc \in {"notify_failed", "cancel_done", "count"} => Head(inbox[i]).kind \in Closing
      /\ g'.pc = "count" => Head(inbox[i]).kind = "DONE" /\ o.stage = "DONE"
      /\ o.stage = "DONE" => info[i].stage = "DONE" \/ Head(inbox[i]).kind = "DONE"
  BY <1>1, <1>3
<1> QED
  BY <1>1, <1>2, <1>3, <1>4, <1>5, OneHandled

LEMMA UnmatchedStep ==
  ASSUME IInv, NEW i \in Ids, Unmatched(i)  PROVE IInv'
<1> DEFINE e == Head(inbox[i])
<1>1. Deliver(i, EventKinds) /\ i \notin order_hash /\ UNCHANGED <<book, accountVars>>
  BY DEF Unmatched
<1>2. /\ g.pc = "idle" /\ inbox[i] # <<>> /\ info[i] \in OrderInfo
      /\ inbox' = [inbox EXCEPT ![i] = Tail(inbox[i])]
  BY <1>1, MatchedFacts
<1>3. e.kind \in Refusals
  BY <1>1, <1>2, BookFacts, HeadFacts
<1>4. info[i].fill_size = info[i].fill_size + e.size
  BY <1>1, <1>3, MatchedFacts, KindFacts
<1>5. /\ info' = [info EXCEPT ![i] = info[i]] /\ UNCHANGED <<book, next, live, total>>
      /\ UNCHANGED <<totalExecuted, t, orders, order_hash, g, pending, mt>>
  BY <1>1 DEF accountVars, IInv, TypeOK
<1>6. /\ g' \in GatewayLocal /\ g'.pc = "idle" /\ g'.id = g.id /\ orders' \subseteq orders
      /\ total' \in Int /\ pending' \in Seq(Sizes) /\ mt' \in Threads \cup {Gateway, Nobody}
  BY <1>2, <1>5 DEF IInv, TypeOK
<1> HIDE DEF e
<1> QED
  BY <1>2, <1>4, <1>5, <1>6, OneHandled DEF e

LEMMA OnNewStep ==
  ASSUME IInv, NEW i \in Ids, OnNew(i)  PROVE IInv'
<1> DEFINE o == [Received(i) EXCEPT !.stage = "ACKNOWLEDGED"]
<1>1. Deliver(i, {"NEW"}) /\ inbox[i] # <<>>
  BY DEF OnNew, Matched, Deliver
<1>2. /\ o \in OrderInfo /\ o.stage = "ACKNOWLEDGED" /\ o.size = info[i].size
      /\ o.side = info[i].side /\ o.onFill = info[i].onFill /\ o.fill_size = info[i].fill_size
  BY <1>1, ReceivedFacts DEF OrderInfo, Stages
<1>3. Record(i, o) /\ UNCHANGED <<book, next, order_hash, orders, live, total, totalExecuted,
                                  pending, mt, t>>
  BY DEF OnNew
<1>4. g' = [pc |-> "ack", id |-> i, tmp |-> 0] /\ "ack" \in GatewayPCs
  BY DEF OnNew, GatewayIdle, GatewayPCs
<1>5. pending' \in Seq(Sizes) /\ mt' \in Threads \cup {Gateway, Nobody}
  BY <1>3 DEF IInv, TypeOK
<1> HIDE DEF o
<1> QED
  BY <1>1, <1>2, <1>3, <1>4, <1>5, Recorded

(* What a callback that leaves the queue, the mutex and its own thread     *)
(* alone owes Recorded.                                                    *)
LEMMA QuietCallback ==
  ASSUME IInv, UNCHANGED <<pending, mt>>
  PROVE  /\ pending' \in Seq(Sizes) /\ mt' \in Threads \cup {Gateway, Nobody}
         /\ {"idle", "ack", "notify", "notify_failed", "cancel_done", "cancel_failed",
             "count"} \subseteq GatewayPCs
BY DEF IInv, TypeOK, GatewayPCs

LEMMA OnRejectedStep ==
  ASSUME IInv, NEW i \in Ids, OnRejected(i)  PROVE IInv'
<1> DEFINE o == [Received(i) EXCEPT !.stage = "FAILED", !.is_acknowledged = FALSE]
<1>1. Deliver(i, {"REJECTED"}) /\ inbox[i] # <<>>
  BY DEF OnRejected, Matched, Deliver
<1>2. /\ o \in OrderInfo /\ o.stage = "FAILED" /\ o.size = info[i].size
      /\ o.side = info[i].side /\ o.onFill = info[i].onFill /\ o.fill_size = info[i].fill_size
  BY <1>1, ReceivedFacts, MatchedFacts, ZenonT(90) DEF OrderInfo, Stages
<1>3. /\ Record(i, o) /\ UNCHANGED <<next, live, total, totalExecuted, pending, mt, t, order_hash, orders, book>>
      /\ g' = [pc |-> "notify_failed", id |-> i, tmp |-> 0]
  BY DEF OnRejected, Record, GatewayIdle
<1>4. /\ pending' \in Seq(Sizes) /\ mt' \in Threads \cup {Gateway, Nobody}
      /\ "notify_failed" \in GatewayPCs /\ 0 \in Int
      /\ {"REJECTED"} \subseteq Closing
  BY <1>3, QuietCallback, KindFacts
<1>5. "FILL" \notin {"REJECTED"}
  OBVIOUS
<1> HIDE DEF o
<1> QED
  BY <1>1, <1>2, <1>3, <1>4, <1>5, Recorded

LEMMA OnThrottleStep ==
  ASSUME IInv, NEW i \in Ids, OnThrottle(i)  PROVE IInv'
<1> DEFINE o == Received(i)
<1>1. Deliver(i, {"THROTTLE"}) /\ inbox[i] # <<>>
  BY DEF OnThrottle, Matched, Deliver
<1>2. /\ o \in OrderInfo /\ o.stage = info[i].stage /\ o.size = info[i].size
      /\ o.side = info[i].side /\ o.onFill = info[i].onFill /\ o.fill_size = info[i].fill_size
  BY <1>1, ReceivedFacts, MatchedFacts DEF OrderInfo, Stages
<1>3. /\ Record(i, o) /\ UNCHANGED <<next, live, total, totalExecuted, pending, mt, t, order_hash, g, orders>>
      /\ book' = book \/ Become(i, "posted")
  BY DEF OnThrottle, Record, GatewayIdle
<1>4. /\ pending' \in Seq(Sizes) /\ mt' \in Threads \cup {Gateway, Nobody}
      /\ "idle" \in GatewayPCs /\ 0 \in Int
  BY <1>3, QuietCallback
<1>5. "FILL" \notin {"THROTTLE"}
  OBVIOUS
<1> HIDE DEF o
<1> QED
  BY <1>1, <1>2, <1>3, <1>4, <1>5, Recorded

LEMMA OnChangedStep ==
  ASSUME IInv, NEW i \in Ids, OnChanged(i)  PROVE IInv'
<1> DEFINE o == Received(i)
<1>1. Deliver(i, {"CHANGED"}) /\ inbox[i] # <<>>
  BY DEF OnChanged, Matched, Deliver
<1>2. /\ o \in OrderInfo /\ o.stage = info[i].stage /\ o.size = info[i].size
      /\ o.side = info[i].side /\ o.onFill = info[i].onFill /\ o.fill_size = info[i].fill_size
  BY <1>1, ReceivedFacts, MatchedFacts DEF OrderInfo, Stages
<1>3. /\ Record(i, o) /\ UNCHANGED <<next, live, total, totalExecuted, pending, mt, t, g, book>>
      /\ order_hash' = order_hash \ {i}
      /\ orders' \subseteq orders
  BY DEF OnChanged, Record, GatewayIdle
<1>4. /\ pending' \in Seq(Sizes) /\ mt' \in Threads \cup {Gateway, Nobody}
      /\ "idle" \in GatewayPCs /\ 0 \in Int
      /\ {"CHANGED"} \subseteq Closing
  BY <1>3, QuietCallback, KindFacts
<1>5. "FILL" \notin {"CHANGED"}
  OBVIOUS
<1> HIDE DEF o
<1> QED
  BY <1>1, <1>2, <1>3, <1>4, <1>5, Recorded

LEMMA OnChangeRejectedStep ==
  ASSUME IInv, NEW i \in Ids, OnChangeRejected(i)  PROVE IInv'
<1> DEFINE o == Received(i)
<1>1. Deliver(i, {"CHANGE_REJECTED"}) /\ inbox[i] # <<>>
  BY DEF OnChangeRejected, Matched, Deliver
<1>2. /\ o \in OrderInfo /\ o.stage = info[i].stage /\ o.size = info[i].size
      /\ o.side = info[i].side /\ o.onFill = info[i].onFill /\ o.fill_size = info[i].fill_size
  BY <1>1, ReceivedFacts, MatchedFacts DEF OrderInfo, Stages
<1>3. /\ Record(i, o) /\ UNCHANGED <<next, live, total, totalExecuted, pending, mt, t, order_hash, g, orders, book>>
  BY DEF OnChangeRejected, Record, GatewayIdle
<1>4. /\ pending' \in Seq(Sizes) /\ mt' \in Threads \cup {Gateway, Nobody}
      /\ "idle" \in GatewayPCs /\ 0 \in Int
  BY <1>3, QuietCallback
<1>5. "FILL" \notin {"CHANGE_REJECTED"}
  OBVIOUS
<1> HIDE DEF o
<1> QED
  BY <1>1, <1>2, <1>3, <1>4, <1>5, Recorded

LEMMA OnOrderCancelStep ==
  ASSUME IInv, NEW i \in Ids, OnOrderCancel(i)  PROVE IInv'
<1> DEFINE o == [info[i] EXCEPT !.stage = "CANCELLED"]
<1>1. Deliver(i, {"CANCEL_NOTICE"}) /\ inbox[i] # <<>>
  BY DEF OnOrderCancel, Matched, Deliver
<1>2. /\ o \in OrderInfo /\ o.stage = "CANCELLED" /\ o.size = info[i].size
      /\ o.side = info[i].side /\ o.onFill = info[i].onFill /\ o.fill_size = info[i].fill_size
  BY <1>1, ReceivedFacts, MatchedFacts DEF OrderInfo, Stages
<1>3. /\ Record(i, o) /\ UNCHANGED <<next, live, total, totalExecuted, pending, mt, t, order_hash, g, orders, book>>
  BY DEF OnOrderCancel, Record, GatewayIdle
<1>4. /\ pending' \in Seq(Sizes) /\ mt' \in Threads \cup {Gateway, Nobody}
      /\ "idle" \in GatewayPCs /\ 0 \in Int
  BY <1>3, QuietCallback
<1>5. "FILL" \notin {"CANCEL_NOTICE"}
  OBVIOUS
<1> HIDE DEF o
<1> QED
  BY <1>1, <1>2, <1>3, <1>4, <1>5, Recorded

LEMMA OnOrderChangeStep ==
  ASSUME IInv, NEW i \in Ids, OnOrderChange(i)  PROVE IInv'
<1> DEFINE o == [info[i] EXCEPT !.stage = "FAILED"]
<1>1. Deliver(i, {"UNKNOWN"}) /\ inbox[i] # <<>>
  BY DEF OnOrderChange, Matched, Deliver
<1>2. /\ o \in OrderInfo /\ o.stage = "FAILED" /\ o.size = info[i].size
      /\ o.side = info[i].side /\ o.onFill = info[i].onFill /\ o.fill_size = info[i].fill_size
  BY <1>1, ReceivedFacts, MatchedFacts DEF OrderInfo, Stages
<1>3. /\ Record(i, o) /\ UNCHANGED <<next, live, total, totalExecuted, pending, mt, t, order_hash, g, orders, book>>
  BY DEF OnOrderChange, Record, GatewayIdle
<1>4. /\ pending' \in Seq(Sizes) /\ mt' \in Threads \cup {Gateway, Nobody}
      /\ "idle" \in GatewayPCs /\ 0 \in Int
  BY <1>3, QuietCallback
<1>5. "FILL" \notin {"UNKNOWN"}
  OBVIOUS
<1> HIDE DEF o
<1> QED
  BY <1>1, <1>2, <1>3, <1>4, <1>5, Recorded

LEMMA OnCanceledStep ==
  ASSUME IInv, NEW i \in Ids, OnCanceled(i)  PROVE IInv'
<1> DEFINE o == [Received(i) EXCEPT !.stage = "CANCELLED", !.cancel_stage = "DONE"]
<1>1. /\ Deliver(i, {"CANCELED"}) /\ inbox[i] # <<>> /\ {"CANCELED"} \subseteq Closing
      /\ "FILL" \notin {"CANCELED"}
  BY KindFacts DEF OnCanceled, Matched, Deliver
<1>2. /\ o \in OrderInfo /\ o.stage = "CANCELLED" /\ o.size = info[i].size
      /\ o.side = info[i].side /\ o.onFill = info[i].onFill /\ o.fill_size = info[i].fill_size
  BY <1>1, ReceivedFacts DEF OrderInfo, Stages, CancelStages
<1>3. UNCHANGED <<book, next, orders, live, total, totalExecuted, pending, mt, t>>
  BY DEF OnCanceled
<1>4. /\ pending' \in Seq(Sizes) /\ mt' \in Threads \cup {Gateway, Nobody}
      /\ {"idle", "cancel_done"} \subseteq GatewayPCs /\ 0 \in Int
  BY <1>3, QuietCallback
<1>5. CASE info[i].onOrderCancel
  <2>1. /\ Record(i, o) /\ order_hash' = order_hash
        /\ g' = [pc |-> "cancel_done", id |-> i, tmp |-> 0]
    BY <1>5 DEF OnCanceled, GatewayIdle
  <2> HIDE DEF o
  <2> QED
    BY <1>1, <1>2, <1>3, <1>4, <2>1, Recorded
<1>6. CASE ~info[i].onOrderCancel
  <2>1. /\ Record(i, Received(i)) /\ order_hash' = order_hash \ {i} /\ UNCHANGED g
    BY <1>6 DEF OnCanceled
  <2>2. /\ Received(i) \in OrderInfo /\ Received(i).size = info[i].size
        /\ Received(i).side = info[i].side /\ Received(i).onFill = info[i].onFill
        /\ Received(i).fill_size = info[i].fill_size
        /\ Received(i).stage = info[i].stage
    BY <1>1, ReceivedFacts
  <2> QED
    BY <1>1, <1>3, <1>4, <2>1, <2>2, Recorded
<1> QED
  BY <1>5, <1>6

LEMMA OnCancelRefusedStep ==
  ASSUME IInv, NEW i \in Ids, OnCancelRefused(i)  PROVE IInv'
<1> DEFINE o == [Received(i) EXCEPT !.cancel_stage = "FAIL"]
<1>1. Deliver(i, CancelRefusals) /\ inbox[i] # <<>> /\ "FILL" \notin CancelRefusals
  BY DEF OnCancelRefused, Matched, Deliver, CancelRefusals
<1>2. /\ o \in OrderInfo /\ o.stage = info[i].stage /\ o.size = info[i].size
      /\ o.side = info[i].side /\ o.onFill = info[i].onFill /\ o.fill_size = info[i].fill_size
  BY <1>1, ReceivedFacts DEF OrderInfo, CancelStages
<1>3. UNCHANGED <<book, next, order_hash, orders, live, total, totalExecuted, pending, mt, t>>
  BY DEF OnCancelRefused
<1>4. /\ pending' \in Seq(Sizes) /\ mt' \in Threads \cup {Gateway, Nobody}
      /\ {"idle", "cancel_failed"} \subseteq GatewayPCs /\ 0 \in Int
  BY <1>3, QuietCallback
<1>5. CASE info[i].onOrderCancel
  <2>1. Record(i, o) /\ g' = [pc |-> "cancel_failed", id |-> i, tmp |-> 0]
    BY <1>5 DEF OnCancelRefused, GatewayIdle
  <2> HIDE DEF o
  <2> QED
    BY <1>1, <1>2, <1>3, <1>4, <2>1, Recorded
<1>6. CASE ~info[i].onOrderCancel
  <2>1. Record(i, Received(i)) /\ UNCHANGED g
    BY <1>6 DEF OnCancelRefused
  <2>2. /\ Received(i) \in OrderInfo /\ Received(i).size = info[i].size
        /\ Received(i).side = info[i].side /\ Received(i).onFill = info[i].onFill
        /\ Received(i).fill_size = info[i].fill_size
        /\ Received(i).stage = info[i].stage
    BY <1>1, ReceivedFacts
  <2> QED
    BY <1>1, <1>3, <1>4, <2>1, <2>2, Recorded
<1> QED
  BY <1>5, <1>6

LEMMA OnDoneStep ==
  ASSUME IInv, NEW i \in Ids, OnDone(i)  PROVE IInv'
<1> DEFINE o == [Received(i) EXCEPT !.stage = "DONE"]
           tmp == live[LiveOf(info[i].side)]
<1>1. /\ Deliver(i, {"DONE"}) /\ inbox[i] # <<>> /\ {"DONE"} \subseteq Closing
      /\ "FILL" \notin {"DONE"}
  BY KindFacts DEF OnDone, Matched, Deliver
<1>2. /\ o \in OrderInfo /\ o.stage = "DONE" /\ o.size = info[i].size
      /\ o.side = info[i].side /\ o.onFill = info[i].onFill /\ o.fill_size = info[i].fill_size
  BY <1>1, ReceivedFacts DEF OrderInfo, Stages
<1>3. /\ Record(i, o) /\ mt' = Gateway
      /\ UNCHANGED <<book, next, order_hash, orders, live, total, totalExecuted, t>>
      /\ g' = [pc |-> "count", id |-> i, tmp |-> tmp] /\ "count" \in GatewayPCs
  BY DEF OnDone, GatewayPCs
<1>4. pending' \in Seq(Sizes)
  <2>1. pending \in Seq(Sizes) /\ info[i] \in OrderInfo /\ i < next /\ OrderInv(i)
    BY <1>1, BookFacts DEF IInv, TypeOK
  <2>2. info[i].size \in Sizes
    BY <2>1 DEF OrderInv, FreshId
  <2>3. Append(pending, info[i].size) \in Seq(Sizes)
    BY <2>1, <2>2, AppendFacts
  <2> QED
    BY <2>1, <2>3 DEF OnDone
<1>5. tmp \in Int
  <2>1. LiveOf(info[i].side) \in {"open", "close"}
    BY DEF LiveOf
  <2> QED
    BY <2>1 DEF IInv, TypeOK
<1> HIDE DEF o, tmp
<1> QED
  BY <1>1, <1>2, <1>3, <1>4, <1>5, Recorded

LEMMA OnFillStep ==
  ASSUME IInv, NEW i \in Ids, OnFill(i)  PROVE IInv'
<1> DEFINE e == Head(inbox[i])
           stage == IF e.openSize = 0 THEN "FILLED" ELSE info[i].stage
           o == [info[i] EXCEPT !.stage = stage, !.fill_size = info[i].fill_size + e.size]
<1>1. Deliver(i, {"FILL"}) /\ mt = Nobody
  BY DEF OnFill, Matched
<1>2. /\ g.pc = "idle" /\ inbox[i] # <<>> /\ e \in Event /\ info[i] \in OrderInfo
      /\ inbox' = [inbox EXCEPT ![i] = Tail(inbox[i])]
  BY <1>1, MatchedFacts
<1>3. /\ o \in OrderInfo /\ o.stage = stage /\ o.size = info[i].size
      /\ o.side = info[i].side /\ o.onFill = info[i].onFill
      /\ o.fill_size = info[i].fill_size + e.size
  <2>1. stage \in Stages /\ info[i].fill_size + e.size \in Nat
    BY <1>2 DEF OrderInfo, Event, Stages
  <2> HIDE DEF stage, e
  <2> QED
    BY <1>2, <2>1 DEF OrderInfo
<1>4. info' = [info EXCEPT ![i] = o]
  BY <1>2 DEF OnFill, OrderInfo, IInv, TypeOK
<1>5. UNCHANGED <<book, next, order_hash, orders, live, totalExecuted, pending, mt, t, g>>
  BY DEF OnFill
<1>6. total' \in Int
  BY <1>2, SMTT(60) DEF OnFill, IInv, TypeOK, Event
<1>7. /\ g' \in GatewayLocal /\ g'.pc = "idle" /\ g'.id = g.id
      /\ pending' \in Seq(Sizes) /\ mt' \in Threads \cup {Gateway, Nobody}
      /\ orders' \subseteq orders
  BY <1>2, <1>5, QuietCallback DEF IInv, TypeOK
<1>8. stage = "DONE" => info[i].stage = "DONE"
  OBVIOUS
<1> HIDE DEF o, e, stage
<1> QED
  BY <1>2, <1>3, <1>4, <1>5, <1>6, <1>7, <1>8, OneHandled DEF e

(* Every callback that takes an event keeps the invariant.                 *)
LEMMA CallbackKeeps ==
  ASSUME IInv, NEW i \in Ids, Callback(i)  PROVE IInv'
BY UnmatchedStep, OnNewStep, OnRejectedStep, OnThrottleStep, OnFillStep, OnDoneStep,
   OnCanceledStep, OnCancelRefusedStep, OnChangedStep, OnChangeRejectedStep,
   OnOrderCancelStep, OnOrderChangeStep DEF Callback

(* notify_all moves sleepers only.                                         *)
LEMMA Woken ==
  ASSUME IInv, t' = Wake(t), next' = next
  PROVE  /\ t' \in [Threads -> Local]
         /\ \A th \in Threads : /\ t'[th].id < next'
                                /\ t'[th].pc \notin {"idle", "scan"} => t'[th].id > 0
                                /\ t'[th].wait = "resize" => t'[th].orig > 0
<1>1. ASSUME NEW th \in Threads
      PROVE  /\ t'[th] \in Local /\ t'[th].id = t[th].id
             /\ t'[th].wait = t[th].wait /\ t'[th].orig = t[th].orig
             /\ t'[th].pc \in {"idle", "scan"} <=> t[th].pc \in {"idle", "scan"}
  <2>1. t[th] \in Local /\ "check" \in PCs
    BY DEF IInv, TypeOK, PCs
  <2>2. t'[th] = IF t[th].pc = "asleep" THEN [t[th] EXCEPT !.pc = "check"] ELSE t[th]
    BY DEF Wake
  <2> QED
    BY <2>1, <2>2, LocalMoves DEF Local
<1>2. t' \in [Threads -> Local]
  BY <1>1 DEF Wake
<1> QED
  BY <1>1, <1>2 DEF IInv, ActorsInv

(* An order leaves order_hash once its last event has been handled.        *)
LEMMA OrderForgotten ==
  ASSUME NEW i \in Ids, OrderInv(i), book' = book, inbox' = inbox, SameOrder(i),
         next' = next, orders' \subseteq orders,
         \/ i \in order_hash => i \in order_hash'
         \/ Erasing(i),
         ~Erasing(i)', ~(g.pc = "count" /\ g.id = i)'
  PROVE  OrderInv(i)'
<1>1. FreshId(i)' /\ ReplacesAnother(i)' /\ EventForm(i)' /\ ThrottledOnce(i)'
  BY DEF OrderInv, SameOrder, FreshId, ReplacesAnother, EventForm, ThrottledOnce
<1>2. ClosedIsLast(i)'
  BY DEF OrderInv, SameOrder, ClosedIsLast, OnlyRefusals
<1>3. SidesAgree(i)' /\ DoneIsFull(i)'
  BY DEF OrderInv, SameOrder, SidesAgree, DoneIsFull, Opens
<1>4. Reconciles(i)' /\ Matches(i)'
  BY DEF OrderInv, SameOrder, Reconciles, LeavesBefore, Matches, ClosedIsLast, OnlyRefusals
<1> QED
  BY <1>1, <1>2, <1>3, <1>4 DEF OrderInv

(* The callback thread ends a callback, or goes on to notify.              *)
LEMMA CallbackFinished ==
  ASSUME IInv, UNCHANGED <<exchangeVars, next, pending>>, orders' \subseteq orders,
         info' \in [Ids -> OrderInfo], \A i \in Ids : SameOrder(i),
         g' \in GatewayLocal, g'.pc \in {"idle", "notify"}, g'.id \in {0, g.id},
         g'.pc # "idle" => g'.id > 0,
         \/ order_hash' = order_hash
         \/ order_hash' = order_hash \ {g.id} /\ Erasing(g.id),
         t' = t \/ t' = Wake(t),
         live' \in [{"open", "close"} -> Int], total' \in Int, totalExecuted' \in Int,
         mt' \in Threads \cup {Gateway, Nobody}
  PROVE  IInv'
<1>1. ASSUME NEW i \in Ids  PROVE OrderInv(i)'
  <2>1. /\ i \in order_hash => i \in order_hash' \/ Erasing(i)
        /\ ~Erasing(i)' /\ ~(g.pc = "count" /\ g.id = i)'
    BY DEF Erasing
  <2> QED
    BY <2>1, OrderForgotten DEF IInv, exchangeVars
<1>2. /\ t' \in [Threads -> Local]
      /\ \A th \in Threads : /\ t'[th].id < next'
                             /\ t'[th].pc \notin {"idle", "scan"} => t'[th].id > 0
                             /\ t'[th].wait = "resize" => t'[th].orig > 0
  <2>1. CASE t' = t
    BY <2>1 DEF IInv, TypeOK, ActorsInv
  <2>2. CASE t' = Wake(t)
    BY <2>2, Woken
  <2> QED
    BY <2>1, <2>2
<1>3. ActorsInv'
  BY <1>2 DEF IInv, TypeOK, ActorsInv
<1>4. TypeOK'
  <2>1. order_hash' \in SUBSET Ids /\ orders' \in SUBSET Ids
    BY DEF IInv, TypeOK
  <2> QED
    BY <1>2, <2>1 DEF IInv, TypeOK, ExchangeTypeOK, exchangeVars
<1> QED
  BY <1>1, <1>3, <1>4 DEF IInv

LEMMA FinishCallbackKeeps ==
  ASSUME IInv, FinishCallback  PROVE IInv'
<1>1. /\ g \in GatewayLocal /\ g.id \in {0} \cup Ids /\ g.tmp \in Int
      /\ g.pc # "idle" => g.id > 0
      /\ info \in [Ids -> OrderInfo] /\ live \in [{"open", "close"} -> Int]
      /\ total \in Int /\ totalExecuted \in Int /\ mt \in Threads \cup {Gateway, Nobody}
  BY DEF IInv, TypeOK, ActorsInv, GatewayLocal
<1>2. /\ GatewayIdle \in GatewayLocal /\ GatewayIdle.pc = "idle" /\ GatewayIdle.id = 0
      /\ "notify" \in GatewayPCs
  BY DEF GatewayIdle, GatewayLocal, GatewayPCs
<1>3. g.pc # "idle" => g.id \in Ids
  BY <1>1 DEF Ids
<1>4. CASE OnNewAcknowledge
  <2> DEFINE o == [info[g.id] EXCEPT !.is_acknowledged = TRUE]
  <2>1. g.id \in Ids /\ info[g.id] \in OrderInfo
    BY <1>1, <1>3, <1>4 DEF OnNewAcknowledge
  <2>2. /\ o \in OrderInfo /\ o.size = info[g.id].size /\ o.side = info[g.id].side
        /\ o.onFill = info[g.id].onFill /\ o.fill_size = info[g.id].fill_size
        /\ o.stage = info[g.id].stage
    BY <2>1 DEF OrderInfo
  <2>3. info' = [info EXCEPT ![g.id] = o]
    BY <1>4 DEF OnNewAcknowledge
  <2> HIDE DEF o
  <2>4. info' \in [Ids -> OrderInfo] /\ \A i \in Ids : SameOrder(i)
    BY <1>1, <2>1, <2>2, <2>3 DEF SameOrder
  <2>5. g' \in GatewayLocal /\ g'.pc = "notify" /\ g'.id = g.id
    BY <1>1, <1>2, <1>4 DEF OnNewAcknowledge, GatewayLocal
  <2>6. /\ UNCHANGED <<exchangeVars, next, order_hash, orders, live, total, totalExecuted,
                       pending, mt, t>>
        /\ g'.pc # "idle" => g'.id > 0
    BY <1>1, <1>4, <2>5 DEF OnNewAcknowledge
  <2> QED
    BY <1>1, <2>4, <2>5, <2>6, CallbackFinished
<1>5. CASE OnNewOrderAcknowledgement
  <2>1. /\ UNCHANGED <<exchangeVars, info, next, orders, live, total, totalExecuted,
                       pending, mt>>
        /\ t' = Wake(t) /\ g' = GatewayIdle
    BY <1>5 DEF OnNewOrderAcknowledgement
  <2>2. \/ order_hash' = order_hash
        \/ order_hash' = order_hash \ {g.id} /\ Erasing(g.id)
    BY <1>5 DEF OnNewOrderAcknowledgement, Erasing
  <2> QED
    BY <1>1, <1>2, <2>1, <2>2, SameInfo, CallbackFinished
<1>6. CASE OnDoneCount
  <2>1. /\ UNCHANGED <<exchangeVars, info, next, total, pending, t>>
        /\ g' = GatewayIdle /\ orders' \subseteq orders /\ mt' = Nobody
        /\ order_hash' = order_hash \ {g.id} /\ Erasing(g.id)
    BY <1>6 DEF OnDoneCount, Erasing
  <2>2. info[g.id].size \in Int
    BY <1>1, <1>3, <1>6, OrderAssumption DEF OnDoneCount, OrderInfo
  <2>3. live' \in [{"open", "close"} -> Int] /\ totalExecuted' \in Int
    <3>1. g.tmp - info[g.id].size \in Int /\ totalExecuted + info[g.id].size \in Int
      BY <1>1, <2>2
    <3> QED
      BY <1>1, <1>6, <3>1 DEF OnDoneCount
  <2> QED
    BY <1>1, <1>2, <2>1, <2>3, SameInfo, CallbackFinished
<1>7. CASE OnOrderCancelCallback
  <2>1. /\ UNCHANGED <<exchangeVars, next, orders, live, total, totalExecuted, pending, mt>>
        /\ t' = Wake(t) /\ g' = GatewayIdle
    BY <1>7 DEF OnOrderCancelCallback
  <2>2. \/ order_hash' = order_hash
        \/ order_hash' = order_hash \ {g.id} /\ Erasing(g.id)
    BY <1>7 DEF OnOrderCancelCallback, Erasing
  <2>3. info' \in [Ids -> OrderInfo] /\ \A i \in Ids : SameOrder(i)
    <3> DEFINE c == IF g.pc = "cancel_done" THEN "DONE" ELSE "FAIL"
    <3>1. g.id \in Ids /\ c \in CancelStages
      BY <1>3, <1>7 DEF OnOrderCancelCallback, CancelStages
    <3>2. info' = [info EXCEPT ![g.id].cancel_stage = c]
      BY <1>7 DEF OnOrderCancelCallback
    <3> HIDE DEF c
    <3> QED
      BY <3>1, <3>2, CancelMarks
  <2> QED
    BY <1>1, <1>2, <2>1, <2>2, <2>3, CallbackFinished
<1> QED
  BY <1>4, <1>5, <1>6, <1>7 DEF FinishCallback

-----------------------------------------------------------------------------
(* Every step.                                                             *)

LEMMA TradeKeeps ==
  ASSUME IInv, Trade  PROVE IInv'
<1>0. Trader \in Threads
  BY DEF Threads
<1>1. ASSUME NEW n \in Sizes, Open(Trader, n) \/ Close(Trader, n)  PROVE IInv'
  BY <1>0, <1>1, IdleFacts, SendStep DEF Open, Close
<1>2. ASSUME NEW n \in Sizes, ClosePending(Trader, n)  PROVE IInv'
  BY <1>0, <1>2, QueueSteps
<1>3. CASE SendPendingOrders(Trader)
  <2> DEFINE l == [Idle EXCEPT !.pend = TRUE]
  <2>1. pending \in Seq(Sizes) /\ pending # <<>>
    BY <1>3 DEF SendPendingOrders, IInv, TypeOK
  <2>2. Head(pending) \in Sizes
    BY <2>1, TailFacts
  <2>3. l \in Local /\ l.wait # "resize"
    BY IdleFacts DEF Local
  <2>4. Send(Trader, CloseSide, "onCloseFill", Head(pending), l)
    BY <1>3 DEF SendPendingOrders
  <2> HIDE DEF l
  <2> QED
    BY <1>0, <2>2, <2>3, <2>4, SendStep
<1>4. ASSUME NEW i \in Ids, NEW n \in {0} \cup Sizes, Change(Trader, i, n)  PROVE IInv'
  BY <1>0, <1>4, ChangeStep
<1>5. ASSUME NEW i \in Ids, Cancel(Trader, i)  PROVE IInv'
  BY <1>0, <1>5, CancelStep
<1>6. CASE CancelAll(Trader)
  BY <1>0, <1>6, QueueSteps
<1> QED
  BY <1>1, <1>2, <1>3, <1>4, <1>5, <1>6 DEF Trade

LEMMA ProceedKeeps ==
  ASSUME IInv, NEW th \in Threads, Proceed(th) \/ SpuriousWakeup(th)  PROVE IInv'
BY WaitSteps, AckGrantedStep, LiveWriteStep, CancelSteps, SendCancelStep, ScanStep
   DEF Proceed

LEMMA StutterKeeps ==
  ASSUME IInv, UNCHANGED vars  PROVE IInv'
<1>1. UNCHANGED <<exchangeVars, next, g, order_hash, orders, t, info, live, total,
                  totalExecuted, pending, mt>>
  BY DEF vars, accountVars
<1>2. TypeOK' /\ ActorsInv'
  BY <1>1 DEF IInv, TypeOK, ActorsInv, ExchangeTypeOK, exchangeVars
<1>3. \A i \in Ids : OrderInv(i)'
  BY <1>1, OrdersUntouched, SameInfo
<1> QED
  BY <1>2, <1>3 DEF IInv

LEMMA NextKeeps == IInv /\ [Next]_vars => IInv'
<1> SUFFICES ASSUME IInv, [Next]_vars  PROVE IInv'
  OBVIOUS
<1>1. CASE Trade
  BY <1>1, TradeKeeps
<1>2. CASE Stop
  BY <1>2, QueueSteps DEF Stop, Threads
<1>3. ASSUME NEW th \in Threads, Proceed(th) \/ SpuriousWakeup(th)  PROVE IInv'
  BY <1>3, ProceedKeeps
<1>4. ASSUME NEW i \in Ids, Callback(i)  PROVE IInv'
  BY <1>4, CallbackKeeps
<1>5. CASE FinishCallback
  BY <1>5, FinishCallbackKeeps
<1>6. ASSUME NEW i \in Ids, ExchangeStep(i), UNCHANGED accountVars  PROVE IInv'
  BY <1>6, ExchangeStepKeeps
<1>7. CASE UNCHANGED vars
  BY <1>7, StutterKeeps
<1> QED
  BY <1>1, <1>2, <1>3, <1>4, <1>5, <1>6, <1>7 DEF Next

-----------------------------------------------------------------------------
(* The theorems.                                                           *)

(* IInv is an inductive invariant of the account: whatever the trading     *)
(* threads, the callback thread and the exchange do, in any order.         *)
THEOREM Invariance == Spec => []IInv
<1>1. Init => IInv
  BY InitInv
<1>2. IInv /\ [Next]_vars => IInv'
  BY NextKeeps
<1> QED
  BY <1>1, <1>2, PTL DEF Spec

(* Every variable keeps its type: no fill, cancel, change or refusal makes *)
(* an OrderInfo, a counter or a thread's locals something else.            *)
THEOREM TypeCorrect == Spec => []TypeOK
<1>1. IInv => TypeOK
  BY DEF IInv
<1> QED
  BY <1>1, Invariance, PTL

(* What OnFill has added up for an order, with the events still on their   *)
(* way, is what the exchange has executed of it.                           *)
THEOREM FillsAreExact == Spec => []FillsReconcile
<1>1. IInv => FillsReconcile
  BY DEF IInv, OrderInv, FillsReconcile
<1> QED
  BY <1>1, Invariance, PTL

(* order_hash never forgets an order a callback other than a refusal can   *)
(* still come for.                                                         *)
THEOREM CallbacksFindTheirOrder == Spec => []CallbacksMatch
<1>1. IInv => CallbacksMatch
  BY DEF IInv, OrderInv, CallbacksMatch
<1> QED
  BY <1>1, Invariance, PTL

-----------------------------------------------------------------------------
(***************************************************************************)
(* The account keeps the ledger: every step of TradeAccount enters an      *)
(* order into FillLedger, fills it, finishes it, or leaves it as it is.    *)
(* From the ledger follow the two totals, the position and totalExecuted,  *)
(* as sums over the orders.                                                *)
(***************************************************************************)

Counting(i) == g.pc = "count" /\ g.id = i

LEMMA LedgerInit == Init => Ledger!Init
<1> SUFFICES ASSUME Init  PROVE Ledger!Init
  OBVIOUS
<1>1. \A i \in Ids : info[i] = NewOrder(OpenSide, "onOpenFill", 0)
  BY DEF Init
<1>2. \A i \in Ids : info[i].size = 0 /\ info[i].fill_size = 0 /\ info[i].stage = "SENT"
  BY <1>1 DEF NewOrder
<1>3. \A i \in Ids : ~Booked(i) /\ Opens(info[i]) \in BOOLEAN
  BY <1>2 DEF Booked, Opens
<1>4. total = 0 /\ totalExecuted = 0
  BY DEF Init
<1> QED
  BY <1>2, <1>3, <1>4 DEF Ledger!Init

(* A step that moves no size, fill, side or booking leaves the ledger      *)
(* alone.                                                                  *)
LEMMA LedgerStutters ==
  ASSUME UNCHANGED <<total, totalExecuted>>,
         \A i \in Ids : /\ info'[i].size = info[i].size
                        /\ info'[i].fill_size = info[i].fill_size
                        /\ info'[i].side = info[i].side
                        /\ Booked(i)' <=> Booked(i)
  PROVE  UNCHANGED Ledger!vars
<1>1. [i \in Ids |-> info[i].size]' = [i \in Ids |-> info[i].size]
  OBVIOUS
<1>2. [i \in Ids |-> info[i].fill_size]' = [i \in Ids |-> info[i].fill_size]
  OBVIOUS
<1>3. [i \in Ids |-> Opens(info[i])]' = [i \in Ids |-> Opens(info[i])]
  BY DEF Opens
<1>4. {i \in Ids : Booked(i)}' = {i \in Ids : Booked(i)}
  OBVIOUS
<1> QED
  BY <1>1, <1>2, <1>3, <1>4 DEF Ledger!vars

LEMMA QuietSteps ==
  ASSUME UNCHANGED <<total, totalExecuted>>, \A i \in Ids : SameOrder(i),
         \A i \in Ids : Counting(i)' <=> Counting(i)
  PROVE  UNCHANGED Ledger!vars
<1>1. \A i \in Ids : Booked(i)' <=> Booked(i)
  BY DEF Booked, SameOrder, Counting
<1> QED
  BY <1>1, LedgerStutters DEF SameOrder

(* An id given out with a size is entered.                                 *)
LEMMA LedgerEnters ==
  ASSUME NEW o \in Ids, info[o].size = 0, info'[o].size \in Sizes,
         info'[o].fill_size = info[o].fill_size,
         UNCHANGED <<total, totalExecuted>>,
         \A i \in Ids \ {o} : SameOrder(i),
         \A i \in Ids : Booked(i)' <=> Booked(i)
  PROVE  Ledger!Next
<1>1. [i \in Ids |-> info[i].size]' =
        [[i \in Ids |-> info[i].size] EXCEPT ![o] = info'[o].size]
  BY DEF SameOrder
<1>2. [i \in Ids |-> info[i].fill_size]' = [i \in Ids |-> info[i].fill_size]
  BY DEF SameOrder
<1>3. [i \in Ids |-> Opens(info[i])]' =
        [[i \in Ids |-> Opens(info[i])] EXCEPT ![o] = Opens(info'[o])]
  BY DEF SameOrder, Opens
<1>4. {i \in Ids : Booked(i)}' = {i \in Ids : Booked(i)}
  OBVIOUS
<1>5. [i \in Ids |-> info[i].size][o] = 0 /\ Opens(info'[o]) \in BOOLEAN
  BY DEF Opens
<1>6. Ledger!Enter(o)
  BY <1>1, <1>2, <1>3, <1>4, <1>5 DEF Ledger!Enter
<1> QED
  BY <1>6 DEF Ledger!Next

(* A fill within what is left of an order that is not booked.              *)
LEMMA LedgerFills ==
  ASSUME NEW o \in Ids, NEW n \in 1..(info[o].size - info[o].fill_size), ~Booked(o),
         info[o].fill_size \in Nat,
         info'[o].fill_size = info[o].fill_size + n,
         total' = IF Opens(info[o]) THEN total + n ELSE total - n,
         totalExecuted' = totalExecuted,
         \A i \in Ids : info'[i].size = info[i].size /\ info'[i].side = info[i].side,
         \A i \in Ids \ {o} : info'[i].fill_size = info[i].fill_size,
         \A i \in Ids : Booked(i)' <=> Booked(i)
  PROVE  Ledger!Next
<1>1. [i \in Ids |-> info[i].size]' = [i \in Ids |-> info[i].size]
  OBVIOUS
<1>2. [i \in Ids |-> info[i].fill_size]' =
        [[i \in Ids |-> info[i].fill_size] EXCEPT ![o] = @ + n]
  OBVIOUS
<1>3. [i \in Ids |-> Opens(info[i])]' = [i \in Ids |-> Opens(info[i])]
  BY DEF Opens
<1>4. {i \in Ids : Booked(i)}' = {i \in Ids : Booked(i)}
  OBVIOUS
<1>5. /\ [i \in Ids |-> info[i].size][o] = info[o].size
      /\ [i \in Ids |-> info[i].fill_size][o] = info[o].fill_size
      /\ [i \in Ids |-> Opens(info[i])][o] = Opens(info[o])
      /\ o \notin {i \in Ids : Booked(i)}
  OBVIOUS
<1>6. Ledger!Fill(o)
  BY <1>1, <1>2, <1>3, <1>4, <1>5 DEF Ledger!Fill
<1> QED
  BY <1>6 DEF Ledger!Next

(* A full order is booked with its size.                                   *)
LEMMA LedgerFinishes ==
  ASSUME NEW o \in Ids, ~Booked(o), Booked(o)', info[o].size > 0,
         info[o].fill_size = info[o].size,
         total' = total, totalExecuted' = totalExecuted + info[o].size,
         \A i \in Ids : SameOrder(i),
         \A i \in Ids \ {o} : Booked(i)' <=> Booked(i)
  PROVE  Ledger!Next
<1>1. [i \in Ids |-> info[i].size]' = [i \in Ids |-> info[i].size]
  BY DEF SameOrder
<1>2. [i \in Ids |-> info[i].fill_size]' = [i \in Ids |-> info[i].fill_size]
  BY DEF SameOrder
<1>3. [i \in Ids |-> Opens(info[i])]' = [i \in Ids |-> Opens(info[i])]
  BY DEF SameOrder, Opens
<1>4. {i \in Ids : Booked(i)}' = {i \in Ids : Booked(i)} \cup {o}
  OBVIOUS
<1>5. /\ [i \in Ids |-> info[i].size][o] = info[o].size
      /\ [i \in Ids |-> info[i].fill_size][o] = info[o].fill_size
      /\ o \notin {i \in Ids : Booked(i)}
  OBVIOUS
<1>6. Ledger!Finish(o)
  BY <1>1, <1>2, <1>3, <1>4, <1>5 DEF Ledger!Finish
<1> QED
  BY <1>6 DEF Ledger!Next

-----------------------------------------------------------------------------
(* The steps.                                                              *)

(* An order sent, by itself or to replace another.                         *)
LEMMA SendEnters ==
  ASSUME IInv, NEW th, NEW side, NEW fn, NEW size \in Sizes, NEW local,
         Send(th, side, fn, size, local)
  PROVE  Ledger!Next
<1>1. /\ next \in Ids /\ UNCHANGED <<total, totalExecuted, g>>
      /\ info' = [info EXCEPT ![next] = NewOrder(side, fn, size)]
      /\ info \in [Ids -> OrderInfo]
  BY DEF Send, IInv, TypeOK
<1>2. /\ NewOrder(side, fn, size).size = size /\ NewOrder(side, fn, size).fill_size = 0
      /\ NewOrder(side, fn, size).stage = "SENT"
  BY DEF NewOrder
<1>3. info[next].size = 0 /\ info[next].fill_size = 0 /\ info[next].stage = "SENT"
  BY <1>1, OrderAssumption DEF IInv, OrderInv, FreshId, Ids
<1>4. /\ \A i \in Ids \ {next} : info'[i] = info[i]
      /\ info'[next].size = size /\ info'[next].fill_size = 0 /\ info'[next].stage = "SENT"
  BY <1>1, <1>2
<1>5. \A i \in Ids : Booked(i)' <=> Booked(i)
  BY <1>1, <1>3, <1>4 DEF Booked
<1> QED
  BY <1>1, <1>3, <1>4, <1>5, LedgerEnters DEF SameOrder

LEMMA ChangeEnters ==
  ASSUME IInv, NEW th \in Threads, NEW i \in Ids, NEW new_size \in {0} \cup Sizes,
         Change(th, i, new_size)
  PROVE  Ledger!Next \/ UNCHANGED Ledger!vars
<1> SUFFICES ASSUME NEW c, c = ChangedOrder(info[i], new_size)
             PROVE  Ledger!Next \/ UNCHANGED Ledger!vars
  OBVIOUS
<1>1. /\ UNCHANGED <<total, totalExecuted, g>> /\ info[i] \in OrderInfo
      /\ info \in [Ids -> OrderInfo] /\ i \in orders /\ "NONE" \in CancelStages
  BY DEF Change, IInv, TypeOK, CancelStages
<1>2. CASE info' = [info EXCEPT ![i].onOrderChange = TRUE]
  <2>1. \A j \in Ids : SameOrder(j)
    BY <1>1, <1>2, CancelMarks
  <2> QED
    BY <1>1, <2>1, QuietSteps DEF Counting
<1>3. CASE next \in Ids /\ info' = [info EXCEPT ![i].onOrderChange = TRUE, ![next] = c]
  <2>1. info[next].size = 0 /\ info[next].fill_size = 0 /\ info[next].stage = "SENT"
    BY <1>3, OrderAssumption DEF IInv, OrderInv, FreshId, Ids
  <2>2. i # next /\ i < next
    BY <1>1, <1>3, OrderAssumption DEF IInv, OrderInv, FreshId, Ids
  <2>3. info[i].size \in Sizes
    BY <2>2 DEF IInv, OrderInv, FreshId
  <2>4. c.size \in Sizes /\ c.fill_size = 0 /\ c.stage = "SENT"
    BY <1>1, <2>3 DEF ChangedOrder, OrderInfo
  <2> DEFINE m == [info EXCEPT ![i].onOrderChange = TRUE]
  <2>5. \A j \in Ids : /\ m[j].size = info[j].size /\ m[j].fill_size = info[j].fill_size
                       /\ m[j].stage = info[j].stage /\ m[j].side = info[j].side
                       /\ m[j].onFill = info[j].onFill
    BY <1>1 DEF OrderInfo
  <2>6. info' = [m EXCEPT ![next] = c] /\ m \in [Ids -> OrderInfo]
    BY <1>1, <1>3 DEF OrderInfo
  <2> HIDE DEF m
  <2>7. info'[next] = c /\ \A j \in Ids \ {next} : SameOrder(j)
    BY <1>3, <2>5, <2>6 DEF SameOrder
  <2>8. \A j \in Ids : Booked(j)' <=> Booked(j)
    BY <1>1, <1>3, <2>1, <2>4, <2>7 DEF Booked, SameOrder
  <2> QED
    BY <1>1, <1>3, <2>1, <2>4, <2>7, <2>8, LedgerEnters
<1> QED
  BY <1>2, <1>3 DEF Change

LEMMA FillFills ==
  ASSUME IInv, NEW i \in Ids, OnFill(i)  PROVE Ledger!Next
<1> DEFINE e == Head(inbox[i])
<1>1. /\ e \in Event /\ inbox[i] # <<>> /\ info[i] \in OrderInfo /\ e.kind = "FILL"
      /\ inbox[i] \in Seq(Event) /\ OrderInv(i) /\ next \in Nat /\ g.pc = "idle"
  BY MatchedFacts, BookFacts DEF OnFill, Matched
<1>2. /\ e.size > 0 /\ info[i].stage # "DONE"
      /\ e.openSize = info[i].size - info[i].fill_size - e.size
  BY <1>1, HeadFacts, KindFacts
<1>3. e.openSize \in Nat /\ e.size \in Nat
  BY <1>1 DEF Event
<1>4. info[i].size \in Int /\ info[i].fill_size \in Nat
  BY <1>1, OrderAssumption DEF OrderInfo
<1> DEFINE stage == IF e.openSize = 0 THEN "FILLED" ELSE info[i].stage
           o == [info[i] EXCEPT !.stage = stage, !.fill_size = info[i].fill_size + e.size]
<1>5. /\ info' = [info EXCEPT ![i] = o] /\ UNCHANGED <<totalExecuted, g>>
      /\ total' = IF info[i].onFill = "onOpenFill" THEN total + e.size ELSE total - e.size
      /\ info \in [Ids -> OrderInfo]
  BY DEF OnFill, OrderInfo, IInv, TypeOK
<1>6. info[i].onFill = "onOpenFill" <=> Opens(info[i])
  BY <1>1 DEF OrderInv, SidesAgree
<1>7. /\ o.size = info[i].size /\ o.side = info[i].side /\ o.stage = stage
      /\ o.fill_size = info[i].fill_size + e.size /\ stage # "DONE"
  BY <1>1, <1>2 DEF OrderInfo
<1> HIDE DEF e, o, stage
<1>8. e.size \in 1..(info[i].size - info[i].fill_size)
  BY <1>2, <1>3, <1>4
<1>9. /\ info'[i] = o /\ \A j \in Ids \ {i} : info'[j] = info[j]
  BY <1>5
<1>10. \A j \in Ids : Booked(j)' <=> Booked(j)
  BY <1>2, <1>5, <1>7, <1>9 DEF Booked
<1>11. total' = IF Opens(info[i]) THEN total + e.size ELSE total - e.size
  BY <1>5, <1>6
<1>12. /\ \A j \in Ids : info'[j].size = info[j].size /\ info'[j].side = info[j].side
       /\ \A j \in Ids \ {i} : info'[j].fill_size = info[j].fill_size
       /\ info'[i].fill_size = info[i].fill_size + e.size
       /\ ~Booked(i)
  BY <1>2, <1>7, <1>9 DEF Booked
<1> QED
  BY <1>4, <1>5, <1>8, <1>10, <1>11, <1>12, LedgerFills

LEMMA DoneFinishes ==
  ASSUME IInv, OnDoneCount  PROVE Ledger!Next
<1> SUFFICES ASSUME NEW i, i = g.id  PROVE Ledger!Next
  OBVIOUS
<1>1. /\ g.pc = "count" /\ i \in Ids /\ i < next
      /\ info[i] \in OrderInfo
  <2>1. g.pc = "count" /\ g.id \in {0} \cup Ids /\ g.id > 0 /\ g.id < next
    BY DEF OnDoneCount, IInv, TypeOK, GatewayLocal, ActorsInv
  <2> QED
    BY <2>1 DEF IInv, TypeOK
<1>2. info[i].stage = "DONE" /\ info[i].fill_size = info[i].size /\ info[i].size \in Sizes
  BY <1>1 DEF IInv, OrderInv, DoneIsFull, FreshId
<1>3. /\ info' = info /\ total' = total /\ totalExecuted' = totalExecuted + info[i].size
      /\ g'.pc = "idle"
  BY DEF OnDoneCount, GatewayIdle
<1>4. ~Booked(i) /\ Booked(i)' /\ \A j \in Ids \ {i} : Booked(j)' <=> Booked(j)
  BY <1>1, <1>2, <1>3 DEF Booked
<1>5. info[i].size > 0
  BY <1>2, OrderAssumption DEF Sizes
<1> QED
  BY <1>1, <1>2, <1>3, <1>4, <1>5, SameInfo, LedgerFinishes

(* Everything else leaves the ledger alone.                                *)
LEMMA ThreadsStutter ==
  ASSUME IInv, NEW th \in Threads,
         \/ Proceed(th) \/ SpuriousWakeup(th) \/ CancelAll(th)
         \/ \E n \in Sizes : ClosePending(th, n)
         \/ \E i \in Ids : Cancel(th, i)
  PROVE  UNCHANGED Ledger!vars
<1>1. UNCHANGED <<total, totalExecuted, g>>
  BY DEF Proceed, SpuriousWakeup, CancelAll, ClosePending, Cancel, CheckFails, Block,
         AckFailed, AckGranted, LiveRead, LiveWrite, MarkCancel, SendCancel, CancelFailed,
         CancelDone, Scan
<1>2. \A i \in Ids : SameOrder(i)
  <2>1. CASE info' = info
    BY <2>1, SameInfo
  <2>2. ASSUME NEW i \in Ids, NEW local, BeginCancel(th, i, local)
        PROVE  \A j \in Ids : SameOrder(j)
    <3>1. info' = info \/ info' = [info EXCEPT ![i].onOrderCancel = TRUE]
      BY <2>2 DEF BeginCancel
    <3>2. "NONE" \in CancelStages
      BY DEF CancelStages
    <3> QED
      BY <3>1, <3>2, SameInfo, CancelMarks
  <2>3. CASE MarkCancel(th) \/ CancelFailed(th)
    <3>1. PICK c \in CancelStages : info' = [info EXCEPT ![t[th].id].cancel_stage = c]
      BY <2>3 DEF MarkCancel, CancelFailed, CancelStages
    <3>2. t[th].id \in Ids
      BY <2>3, BusyThread DEF MarkCancel, CancelFailed
    <3> QED
      BY <3>1, <3>2, CancelMarks
  <2>4. CASE Scan(th)
    <3>1. orders \subseteq Ids
      BY DEF IInv, TypeOK
    <3> QED
      BY <2>1, <2>2, <2>4, <3>1 DEF Scan
  <2>5. ASSUME NEW i \in Ids, Cancel(th, i)  PROVE \A j \in Ids : SameOrder(j)
    BY <2>2, <2>5 DEF Cancel
  <2> QED
    BY <2>1, <2>3, <2>4, <2>5
       DEF Proceed, SpuriousWakeup, CancelAll, ClosePending, CheckFails, Block,
           AckFailed, AckGranted, LiveRead, LiveWrite, SendCancel, CancelDone
<1> QED
  BY <1>1, <1>2, QuietSteps DEF Counting

(* A callback that records another stage of an order that is not done.     *)
LEMMA RecordStutters ==
  ASSUME IInv, NEW i \in Ids, NEW o, info' = [info EXCEPT ![i] = o], g.pc = "idle",
         o.size = info[i].size, o.side = info[i].side, o.fill_size = info[i].fill_size,
         \/ o.stage = info[i].stage /\ ~Counting(i)'
         \/ o.stage # "DONE" /\ info[i].stage # "DONE"
         \/ o.stage = "DONE" /\ info[i].stage # "DONE" /\ Counting(i)',
         \A j \in Ids \ {i} : ~Counting(j)',
         UNCHANGED <<total, totalExecuted>>
  PROVE  UNCHANGED Ledger!vars
<1>1. info'[i] = o /\ \A j \in Ids \ {i} : info'[j] = info[j]
  BY DEF IInv, TypeOK
<1>2. Booked(i)' <=> Booked(i)
  BY <1>1 DEF Booked, Counting
<1>3. \A j \in Ids \ {i} : Booked(j)' <=> Booked(j)
  BY <1>1 DEF Booked, Counting
<1> QED
  BY <1>1, <1>2, <1>3, LedgerStutters

LEMMA CallbacksStutter ==
  ASSUME IInv, NEW i \in Ids, Callback(i), ~OnFill(i)
  PROVE  UNCHANGED Ledger!vars
<1> DEFINE e == Head(inbox[i])
<1>1. PICK kinds : Deliver(i, kinds)
  BY DEF Callback, Unmatched, OnNew, OnRejected, OnThrottle, OnDone, OnCanceled,
         OnCancelRefused, OnChanged, OnChangeRejected, OnOrderCancel, OnOrderChange, Matched
<1>2. /\ g.pc = "idle" /\ inbox[i] # <<>> /\ info[i] \in OrderInfo
      /\ info \in [Ids -> OrderInfo]
  BY <1>1, MatchedFacts DEF IInv, TypeOK
<1>3. e.kind \notin Refusals => info[i].stage # "DONE"
  BY <1>2, BookFacts, HeadFacts
<1>4. UNCHANGED <<total, totalExecuted>>
  BY DEF Callback, Unmatched, OnNew, OnRejected, OnThrottle, OnDone, OnCanceled,
         OnCancelRefused, OnChanged, OnChangeRejected, OnOrderCancel, OnOrderChange, accountVars
<1>5. CASE Unmatched(i)
  <2>1. info' = info /\ UNCHANGED g
    BY <1>5 DEF Unmatched, accountVars
  <2> QED
    BY <1>4, <2>1, SameInfo, QuietSteps DEF Counting
<1>6. ASSUME NEW o, info' = [info EXCEPT ![i] = o],
             o.size = info[i].size, o.side = info[i].side, o.fill_size = info[i].fill_size,
             o.stage = info[i].stage \/ (o.stage # "DONE" /\ info[i].stage # "DONE"),
             g'.pc # "count"
      PROVE  UNCHANGED Ledger!vars
  BY <1>2, <1>4, <1>6, RecordStutters DEF Counting
<1>r. /\ Received(i).size = info[i].size /\ Received(i).side = info[i].side
      /\ Received(i).fill_size = info[i].fill_size /\ Received(i).stage = info[i].stage
      /\ Received(i) \in OrderInfo
  BY <1>2, ReceivedFacts
<1> HIDE DEF e
<1>7. CASE OnNew(i) \/ OnRejected(i) \/ OnCanceled(i)
  <2>1. info[i].stage # "DONE"
    BY <1>3, <1>7, KindFacts DEF OnNew, OnRejected, OnCanceled, Matched, Deliver, e
  <2>2. PICK o \in {Received(i), [Received(i) EXCEPT !.stage = "ACKNOWLEDGED"],
                    [Received(i) EXCEPT !.stage = "FAILED", !.is_acknowledged = FALSE],
                    [Received(i) EXCEPT !.stage = "CANCELLED", !.cancel_stage = "DONE"]} :
          info' = [info EXCEPT ![i] = o]
    BY <1>7 DEF OnNew, OnRejected, OnCanceled, Record
  <2>3. /\ o.size = info[i].size /\ o.side = info[i].side /\ o.fill_size = info[i].fill_size
        /\ o.stage # "DONE"
    BY <1>r, <2>1 DEF OrderInfo
  <2>4. g'.pc # "count"
    <3>1. g' = g \/ \E pc \in {"ack", "notify_failed", "cancel_done"} :
                      g' = [GatewayIdle EXCEPT !.pc = pc, !.id = i]
      BY <1>7 DEF OnNew, OnRejected, OnCanceled
    <3> QED
      BY <1>2, <3>1 DEF GatewayIdle
  <2> QED
    BY <1>6, <2>1, <2>2, <2>3, <2>4
<1>8. CASE OnThrottle(i) \/ OnCancelRefused(i) \/ OnChanged(i) \/ OnChangeRejected(i)
  <2>1. PICK o \in {Received(i), [Received(i) EXCEPT !.cancel_stage = "FAIL"]} :
          info' = [info EXCEPT ![i] = o]
    BY <1>8 DEF OnThrottle, OnCancelRefused, OnChanged, OnChangeRejected, Record
  <2>2. /\ o.size = info[i].size /\ o.side = info[i].side /\ o.fill_size = info[i].fill_size
        /\ o.stage = info[i].stage
    BY <1>r DEF OrderInfo
  <2>3. g'.pc # "count"
    <3>1. g' = g \/ g' = [GatewayIdle EXCEPT !.pc = "cancel_failed", !.id = i]
      BY <1>8 DEF OnThrottle, OnCancelRefused, OnChanged, OnChangeRejected
    <3> QED
      BY <1>2, <3>1 DEF GatewayIdle
  <2> QED
    BY <1>6, <2>1, <2>2, <2>3
<1>9. CASE OnOrderCancel(i) \/ OnOrderChange(i)
  <2>1. info[i].stage # "DONE"
    BY <1>3, <1>9, KindFacts DEF OnOrderCancel, OnOrderChange, Matched, Deliver, e
  <2>2. PICK stage \in {"CANCELLED", "FAILED"} :
          info' = [info EXCEPT ![i] = [info[i] EXCEPT !.stage = stage]]
    BY <1>2, <1>9 DEF OnOrderCancel, OnOrderChange
  <2> DEFINE o == [info[i] EXCEPT !.stage = stage]
  <2>3. /\ o.size = info[i].size /\ o.side = info[i].side /\ o.fill_size = info[i].fill_size
        /\ o.stage # "DONE"
    BY <1>2 DEF OrderInfo
  <2>4. g'.pc # "count"
    BY <1>2, <1>9 DEF OnOrderCancel, OnOrderChange
  <2> QED
    BY <1>6, <2>1, <2>2, <2>3, <2>4
<1>10. CASE OnDone(i)
  <2>1. info[i].stage # "DONE"
    BY <1>3, <1>10, KindFacts DEF OnDone, Matched, Deliver, e
  <2> DEFINE o == [Received(i) EXCEPT !.stage = "DONE"]
  <2>2. info' = [info EXCEPT ![i] = o]
    BY <1>10 DEF OnDone, Record
  <2>3. /\ o.size = info[i].size /\ o.side = info[i].side /\ o.fill_size = info[i].fill_size
        /\ o.stage = "DONE"
    BY <1>r DEF OrderInfo
  <2>4. Counting(i)' /\ \A j \in Ids \ {i} : ~Counting(j)'
    BY <1>10 DEF OnDone, Counting
  <2> HIDE DEF o
  <2> QED
    BY <1>2, <1>4, <2>1, <2>2, <2>3, <2>4, RecordStutters
<1> QED
  BY <1>5, <1>7, <1>8, <1>9, <1>10 DEF Callback

LEMMA FinishesStutter ==
  ASSUME IInv, FinishCallback, ~OnDoneCount
  PROVE  UNCHANGED Ledger!vars
<1>1. /\ UNCHANGED <<total, totalExecuted>> /\ g.pc # "idle" /\ g.pc # "count"
      /\ g'.pc \in {"idle", "notify"}
  BY DEF FinishCallback, OnNewAcknowledge, OnNewOrderAcknowledgement,
         OnOrderCancelCallback, GatewayIdle, IInv, TypeOK, GatewayLocal
<1>2. g.id \in Ids /\ info \in [Ids -> OrderInfo]
  BY <1>1 DEF IInv, TypeOK, ActorsInv, GatewayLocal, Ids
<1>3. \A i \in Ids : SameOrder(i)
  <2>1. CASE OnNewAcknowledge
    BY <1>2, <2>1 DEF OnNewAcknowledge, SameOrder, OrderInfo
  <2>2. CASE OnNewOrderAcknowledgement
    BY <2>2, SameInfo DEF OnNewOrderAcknowledgement
  <2>3. CASE OnOrderCancelCallback
    <3> DEFINE c == IF g.pc = "cancel_done" THEN "DONE" ELSE "FAIL"
    <3>1. c \in CancelStages
      BY DEF CancelStages
    <3>2. info' = [info EXCEPT ![g.id].cancel_stage = c]
      BY <2>3 DEF OnOrderCancelCallback
    <3> HIDE DEF c
    <3> QED
      BY <1>2, <3>1, <3>2, CancelMarks
  <2> QED
    BY <2>1, <2>2, <2>3 DEF FinishCallback
<1>4. \A i \in Ids : Counting(i)' <=> Counting(i)
  BY <1>1 DEF Counting
<1> QED
  BY <1>1, <1>3, <1>4, QuietSteps

LEMMA LedgerNext ==
  ASSUME IInv, [Next]_vars  PROVE Ledger!Next \/ UNCHANGED Ledger!vars
<1>0. Trader \in Threads /\ Stoppers \subseteq Threads
  BY DEF Threads
<1>1. CASE Trade
  <2>1. ASSUME NEW n \in Sizes, Open(Trader, n) \/ Close(Trader, n)  PROVE Ledger!Next
    BY <2>1, SendEnters DEF Open, Close
  <2>2. CASE SendPendingOrders(Trader)
    <3>1. Head(pending) \in Sizes
      BY <2>2, TailFacts DEF SendPendingOrders, IInv, TypeOK
    <3> QED
      BY <2>2, <3>1, SendEnters DEF SendPendingOrders
  <2>3. ASSUME NEW i \in Ids, NEW n \in {0} \cup Sizes, Change(Trader, i, n)
        PROVE  Ledger!Next \/ UNCHANGED Ledger!vars
    BY <1>0, <2>3, ChangeEnters
  <2> QED
    BY <1>0, <1>1, <2>1, <2>2, <2>3, ThreadsStutter DEF Trade
<1>2. CASE Stop
  BY <1>0, <1>2, ThreadsStutter DEF Stop
<1>3. ASSUME NEW th \in Threads, Proceed(th) \/ SpuriousWakeup(th)
      PROVE  UNCHANGED Ledger!vars
  BY <1>3, ThreadsStutter
<1>4. ASSUME NEW i \in Ids, Callback(i)  PROVE Ledger!Next \/ UNCHANGED Ledger!vars
  BY <1>4, FillFills, CallbacksStutter
<1>5. CASE FinishCallback
  BY <1>5, DoneFinishes, FinishesStutter
<1>6. CASE UNCHANGED <<info, total, totalExecuted, g>>
  BY <1>6, SameInfo, QuietSteps DEF Counting
<1> QED
  BY <1>1, <1>2, <1>3, <1>4, <1>5, <1>6 DEF Next, vars, accountVars

(* The fills of the account obey FillLedger: OnFill never takes an order   *)
(* past its size or books it on the wrong side of the position, and        *)
(* onOrderDone adds each order to totalExecuted once, when it is full.     *)
THEOREM ImplementsLedger == Spec => KeepsLedger
<1>1. Init => Ledger!Init
  BY LedgerInit
<1>2. IInv /\ [Next]_vars => [Ledger!Next]_(Ledger!vars)
  BY LedgerNext
<1> QED
  BY <1>1, <1>2, Invariance, PTL DEF Spec, KeepsLedger

-----------------------------------------------------------------------------
(* The totals.                                                             *)

LEMMA IdsFinite == IsFiniteSet(Ids)
BY OrderAssumption, FS_Interval DEF Ids

Signed   == [i \in Ids |-> IF Opens(info[i]) THEN info[i].fill_size
                                             ELSE 0 - info[i].fill_size]
Executed == [i \in Ids |-> IF Booked(i) THEN info[i].fill_size ELSE 0]

LEMMA TotalsAreSums ==
  /\ PositionReconciles <=> total = SumFunctionOnSet(Signed, Ids)
  /\ ExecutedReconciles <=> totalExecuted = SumFunctionOnSet(Executed, Ids)
<1>1. DOMAIN Signed = Ids /\ DOMAIN Executed = Ids
  BY DEF Signed, Executed
<1> QED
  BY <1>1 DEF PositionReconciles, ExecutedReconciles, Signed, Executed, SumFunction

LEMMA ShareTypes ==
  ASSUME IInv
  PROVE  /\ \A i \in Ids : info[i].fill_size \in Nat /\ Signed[i] \in Int /\ Executed[i] \in Int
         /\ total \in Int /\ totalExecuted \in Int
BY DEF IInv, TypeOK, OrderInfo, Signed, Executed

(* What a step of the ledger says of the account's variables.              *)
LEMMA EnterSays ==
  ASSUME NEW o \in Ids, Ledger!Enter(o)
  PROVE  /\ info[o].size = 0
         /\ \A i \in Ids : info'[i].fill_size = info[i].fill_size
         /\ \A i \in Ids \ {o} : Opens(info'[i]) <=> Opens(info[i])
         /\ \A i \in Ids : Booked(i)' <=> Booked(i)
         /\ UNCHANGED <<total, totalExecuted>>
<1>1. [i \in Ids |-> info'[i].fill_size] = [i \in Ids |-> info[i].fill_size]
  BY DEF Ledger!Enter
<1>2. PICK b : [i \in Ids |-> Opens(info'[i])] = [[i \in Ids |-> Opens(info[i])] EXCEPT ![o] = b]
  BY DEF Ledger!Enter, Opens
<1>3. {i \in Ids : Booked(i)'} = {i \in Ids : Booked(i)}
  BY DEF Ledger!Enter
<1>4. [i \in Ids |-> info[i].size][o] = 0 /\ UNCHANGED <<total, totalExecuted>>
  BY DEF Ledger!Enter
<1>5. \A i \in Ids \ {o} : Opens(info'[i]) = Opens(info[i])
  <2> SUFFICES ASSUME NEW i \in Ids \ {o}  PROVE Opens(info'[i]) = Opens(info[i])
    OBVIOUS
  <2>1. [j \in Ids |-> Opens(info'[j])][i] = [j \in Ids |-> Opens(info[j])][i]
    BY <1>2
  <2> QED
    BY <2>1
<1>6. \A i \in Ids : info'[i].fill_size = info[i].fill_size
  <2> SUFFICES ASSUME NEW i \in Ids  PROVE info'[i].fill_size = info[i].fill_size
    OBVIOUS
  <2>1. [j \in Ids |-> info'[j].fill_size][i] = [j \in Ids |-> info[j].fill_size][i]
    BY <1>1
  <2> QED
    BY <2>1
<1> QED
  BY <1>3, <1>4, <1>5, <1>6

LEMMA FillSays ==
  ASSUME NEW o \in Ids, Ledger!Fill(o)
  PROVE  \E n \in 1..(info[o].size - info[o].fill_size) :
         /\ ~Booked(o)
         /\ info'[o].fill_size = info[o].fill_size + n
         /\ total' = IF Opens(info[o]) THEN total + n ELSE total - n
         /\ \A i \in Ids \ {o} : info'[i].fill_size = info[i].fill_size
         /\ \A i \in Ids : Opens(info'[i]) = Opens(info[i])
         /\ \A i \in Ids : Booked(i)' <=> Booked(i)
         /\ totalExecuted' = totalExecuted
<1> DEFINE f == [i \in Ids |-> info[i].fill_size]
           p == [i \in Ids |-> Opens(info[i])]
<1>1. PICK n \in 1..([i \in Ids |-> info[i].size][o] - f[o]) :
        /\ [i \in Ids |-> info'[i].fill_size] = [f EXCEPT ![o] = f[o] + n]
        /\ total' = IF p[o] THEN total + n ELSE total - n
  BY DEF Ledger!Fill
<1>2. /\ [i \in Ids |-> Opens(info'[i])] = p
      /\ {i \in Ids : Booked(i)'} = {i \in Ids : Booked(i)}
      /\ totalExecuted' = totalExecuted /\ ~Booked(o)
  BY DEF Ledger!Fill
<1>3. n \in 1..(info[o].size - info[o].fill_size) /\ (p[o] = Opens(info[o]))
  BY <1>1
<1>4. ASSUME NEW i \in Ids
      PROVE  info'[i].fill_size = IF i = o THEN info[o].fill_size + n ELSE info[i].fill_size
  <2>1. [j \in Ids |-> info'[j].fill_size][i] = [f EXCEPT ![o] = f[o] + n][i]
    BY <1>1
  <2> QED
    BY <2>1
<1>5. ASSUME NEW i \in Ids  PROVE Opens(info'[i]) = Opens(info[i])
  <2>1. [j \in Ids |-> Opens(info'[j])][i] = p[i]
    BY <1>2
  <2> QED
    BY <2>1
<1>6. \A i \in Ids : Booked(i)' <=> Booked(i)
  BY <1>2
<1>7. total' = IF Opens(info[o]) THEN total + n ELSE total - n
  BY <1>1, <1>3
<1> QED
  BY <1>2, <1>3, <1>4, <1>5, <1>6, <1>7

LEMMA FinishSays ==
  ASSUME NEW o \in Ids, Ledger!Finish(o)
  PROVE  /\ ~Booked(o) /\ Booked(o)' /\ info[o].fill_size = info[o].size
         /\ totalExecuted' = totalExecuted + info[o].size /\ total' = total
         /\ \A i \in Ids \ {o} : Booked(i)' <=> Booked(i)
         /\ \A i \in Ids : /\ info'[i].fill_size = info[i].fill_size
                           /\ Opens(info'[i]) = Opens(info[i])
<1> DEFINE s == [i \in Ids |-> info[i].size]
           f == [i \in Ids |-> info[i].fill_size]
           p == [i \in Ids |-> Opens(info[i])]
<1>1. /\ f[o] = s[o] /\ totalExecuted' = totalExecuted + s[o] /\ total' = total
      /\ {i \in Ids : Booked(i)'} = {i \in Ids : Booked(i)} \cup {o} /\ ~Booked(o)
      /\ [i \in Ids |-> info'[i].fill_size] = f /\ [i \in Ids |-> Opens(info'[i])] = p
  BY DEF Ledger!Finish
<1>2. ASSUME NEW i \in Ids  PROVE info'[i].fill_size = info[i].fill_size
  <2>1. [j \in Ids |-> info'[j].fill_size][i] = f[i]
    BY <1>1
  <2> QED
    BY <2>1
<1>3. ASSUME NEW i \in Ids  PROVE Opens(info'[i]) = Opens(info[i])
  <2>1. [j \in Ids |-> Opens(info'[j])][i] = p[i]
    BY <1>1
  <2> QED
    BY <2>1
<1>4. info[o].fill_size = info[o].size /\ totalExecuted' = totalExecuted + info[o].size
  BY <1>1
<1>5. Booked(o)' /\ \A i \in Ids \ {o} : Booked(i)' <=> Booked(i)
  BY <1>1
<1> QED
  BY <1>1, <1>2, <1>3, <1>4, <1>5

(* Both totals are sums of shares; a step moves one share at most.         *)
TotalsInv == PositionReconciles /\ ExecutedReconciles

LEMMA SharesStay ==
  ASSUME IInv, IInv', TotalsInv, UNCHANGED <<total, totalExecuted>>,
         \A i \in Ids : Signed'[i] = Signed[i] /\ Executed'[i] = Executed[i]
  PROVE  TotalsInv'
<1>1. /\ SumFunctionOnSet(Signed', Ids) = SumFunctionOnSet(Signed, Ids)
      /\ SumFunctionOnSet(Executed', Ids) = SumFunctionOnSet(Executed, Ids)
  BY IdsFinite, SumAgrees
<1>2. /\ PositionReconciles' <=> total' = SumFunctionOnSet(Signed', Ids)
      /\ ExecutedReconciles' <=> totalExecuted' = SumFunctionOnSet(Executed', Ids)
  <2>1. DOMAIN Signed' = Ids /\ DOMAIN Executed' = Ids
    BY DEF Signed, Executed
  <2> QED
    BY <2>1 DEF PositionReconciles, ExecutedReconciles, Signed, Executed, SumFunction
<1> QED
  BY <1>1, <1>2, TotalsAreSums DEF TotalsInv

LEMMA ShareMoves ==
  ASSUME IInv, IInv', TotalsInv, NEW o \in Ids,
         total' = total + (Signed'[o] - Signed[o]),
         totalExecuted' = totalExecuted + (Executed'[o] - Executed[o]),
         \A i \in Ids \ {o} : Signed'[i] = Signed[i] /\ Executed'[i] = Executed[i]
  PROVE  TotalsInv'
<1>1. /\ \A i \in Ids : Signed[i] \in Int /\ Executed[i] \in Int
      /\ \A i \in Ids : Signed'[i] \in Int /\ Executed'[i] \in Int
      /\ total \in Int /\ totalExecuted \in Int
  <2>1. \A i \in Ids : info'[i].fill_size \in Nat
    BY DEF IInv, TypeOK, OrderInfo
  <2>2. \A i \in Ids : Signed'[i] \in Int /\ Executed'[i] \in Int
    BY <2>1 DEF Signed, Executed
  <2> QED
    BY <2>2, ShareTypes
<1>2. SumFunctionOnSet(Signed', Ids) = SumFunctionOnSet(Signed, Ids) - Signed[o] + Signed'[o]
  BY <1>1, IdsFinite, SumMoves
<1>3. SumFunctionOnSet(Executed', Ids)
        = SumFunctionOnSet(Executed, Ids) - Executed[o] + Executed'[o]
  BY <1>1, IdsFinite, SumMoves
<1>4. /\ PositionReconciles' <=> total' = SumFunctionOnSet(Signed', Ids)
      /\ ExecutedReconciles' <=> totalExecuted' = SumFunctionOnSet(Executed', Ids)
  <2>1. DOMAIN Signed' = Ids /\ DOMAIN Executed' = Ids
    BY DEF Signed, Executed
  <2> QED
    BY <2>1 DEF PositionReconciles, ExecutedReconciles, Signed, Executed, SumFunction
<1>5. total = SumFunctionOnSet(Signed, Ids) /\ totalExecuted = SumFunctionOnSet(Executed, Ids)
  BY TotalsAreSums DEF TotalsInv
<1> QED
  BY <1>1, <1>2, <1>3, <1>4, <1>5 DEF TotalsInv

LEMMA TotalsInit == Init => TotalsInv
<1> SUFFICES ASSUME Init  PROVE TotalsInv
  OBVIOUS
<1> DEFINE zero == [i \in Ids |-> 0]
<1>1. \A i \in Ids : info[i].fill_size = 0
  BY DEF Init, NewOrder
<1>2. \A i \in Ids : Signed[i] = 0 /\ Executed[i] = 0
  BY <1>1 DEF Signed, Executed
<1>3. ASSUME NEW f, \A i \in Ids : f[i] = 0  PROVE SumFunctionOnSet(f, Ids) = 0
  BY <1>3, IdsFinite, SumZero
<1>4. total = 0 /\ totalExecuted = 0
  BY DEF Init
<1> QED
  BY <1>2, <1>3, <1>4, TotalsAreSums DEF TotalsInv

LEMMA TotalsNext ==
  ASSUME IInv, IInv', TotalsInv, [Next]_vars
  PROVE  TotalsInv'
<1>0. \A i \in Ids : /\ info[i].fill_size \in Nat /\ info'[i].fill_size \in Nat
                     /\ info[i].size = 0 => info[i].fill_size = 0
  <2>1. \A i \in Ids : info[i].fill_size \in Nat /\ info'[i].fill_size \in Nat
    BY DEF IInv, TypeOK, OrderInfo
  <2>2. \A i \in Ids : info[i].size = 0 => info[i].fill_size = 0
    BY OrderAssumption DEF IInv, OrderInv, FreshId, Sizes
  <2> QED
    BY <2>1, <2>2
<1>1. ASSUME NEW o \in Ids, Ledger!Enter(o)  PROVE TotalsInv'
  <2>1. \A i \in Ids : Signed'[i] = Signed[i] /\ Executed'[i] = Executed[i]
    BY <1>0, <1>1, EnterSays DEF Signed, Executed
  <2>2. UNCHANGED <<total, totalExecuted>>
    BY <1>1, EnterSays
  <2> QED
    BY <2>1, <2>2, SharesStay
<1>2. ASSUME NEW o \in Ids, Ledger!Fill(o)  PROVE TotalsInv'
  <2>1. PICK n \in 1..(info[o].size - info[o].fill_size) :
         /\ ~Booked(o)
         /\ info'[o].fill_size = info[o].fill_size + n
         /\ total' = IF Opens(info[o]) THEN total + n ELSE total - n
         /\ \A i \in Ids \ {o} : info'[i].fill_size = info[i].fill_size
         /\ \A i \in Ids : Opens(info'[i]) = Opens(info[i])
         /\ \A i \in Ids : Booked(i)' <=> Booked(i)
         /\ totalExecuted' = totalExecuted
    BY <1>2, FillSays
  <2>2. \A i \in Ids \ {o} : Signed'[i] = Signed[i] /\ Executed'[i] = Executed[i]
    BY <2>1 DEF Signed, Executed
  <2>3. Executed[o] = 0 /\ Executed'[o] = 0
    BY <2>1 DEF Executed
  <2>4. Signed'[o] = IF Opens(info[o]) THEN Signed[o] + n ELSE Signed[o] - n
    BY <1>0, <2>1 DEF Signed
  <2>5. total \in Int /\ totalExecuted \in Int /\ Signed[o] \in Int
    BY ShareTypes
  <2>6. total' = total + (Signed'[o] - Signed[o])
    BY <2>1, <2>4, <2>5
  <2>7. totalExecuted' = totalExecuted + (Executed'[o] - Executed[o])
    BY <2>1, <2>3, <2>5
  <2> QED
    BY <2>2, <2>6, <2>7, ShareMoves
<1>3. ASSUME NEW o \in Ids, Ledger!Finish(o)  PROVE TotalsInv'
  <2>1. /\ ~Booked(o) /\ Booked(o)' /\ info[o].fill_size = info[o].size
        /\ totalExecuted' = totalExecuted + info[o].size /\ total' = total
        /\ \A i \in Ids \ {o} : Booked(i)' <=> Booked(i)
        /\ \A i \in Ids : /\ info'[i].fill_size = info[i].fill_size
                          /\ Opens(info'[i]) = Opens(info[i])
    BY <1>3, FinishSays
  <2>2. \A i \in Ids : Signed'[i] = Signed[i]
    BY <2>1 DEF Signed
  <2>3. \A i \in Ids \ {o} : Executed'[i] = Executed[i]
    BY <2>1 DEF Executed
  <2>4. Executed[o] = 0 /\ Executed'[o] = info[o].size
    BY <2>1 DEF Executed
  <2>5. total \in Int /\ totalExecuted \in Int /\ Signed[o] \in Int /\ info[o].size \in Int
    BY <1>0, <2>1, ShareTypes
  <2>6. total' = total + (Signed'[o] - Signed[o])
    BY <2>1, <2>2, <2>5
  <2>7. totalExecuted' = totalExecuted + (Executed'[o] - Executed[o])
    BY <2>1, <2>4, <2>5
  <2> QED
    BY <2>2, <2>3, <2>6, <2>7, ShareMoves
<1>4. CASE UNCHANGED Ledger!vars
  <2>1. /\ [i \in Ids |-> info'[i].fill_size] = [i \in Ids |-> info[i].fill_size]
        /\ [i \in Ids |-> Opens(info'[i])] = [i \in Ids |-> Opens(info[i])]
        /\ {i \in Ids : Booked(i)'} = {i \in Ids : Booked(i)}
        /\ UNCHANGED <<total, totalExecuted>>
    BY <1>4 DEF Ledger!vars
  <2>2. ASSUME NEW i \in Ids
        PROVE  info'[i].fill_size = info[i].fill_size /\ Opens(info'[i]) = Opens(info[i])
    <3>1. /\ [j \in Ids |-> info'[j].fill_size][i] = [j \in Ids |-> info[j].fill_size][i]
          /\ [j \in Ids |-> Opens(info'[j])][i] = [j \in Ids |-> Opens(info[j])][i]
      BY <2>1
    <3> QED
      BY <3>1
  <2>3. \A i \in Ids : Booked(i)' <=> Booked(i)
    BY <2>1
  <2>4. \A i \in Ids : Signed'[i] = Signed[i] /\ Executed'[i] = Executed[i]
    BY <2>2, <2>3 DEF Signed, Executed
  <2> QED
    BY <2>1, <2>4, SharesStay
<1> QED
  BY <1>1, <1>2, <1>3, <1>4, LedgerNext DEF Ledger!Next

LEMMA TotalsHold == Spec => []TotalsInv
<1>1. Init => TotalsInv
  BY TotalsInit
<1>2. IInv /\ IInv' /\ TotalsInv /\ [Next]_vars => TotalsInv'
  BY TotalsNext
<1> QED
  BY <1>1, <1>2, Invariance, PTL DEF Spec

(* The position kept by onOpenFill and onCloseFill is the one the sides    *)
(* and fills of all the orders ever sent give, for any number of them.     *)
THEOREM PositionIsSumOfFills == Spec => []PositionReconciles
<1>1. TotalsInv => PositionReconciles
  BY DEF TotalsInv
<1> QED
  BY <1>1, TotalsHold, PTL

(* What onOrderDone has added to totalExecuted is what was filled of the   *)
(* orders it was called for.                                               *)
THEOREM ExecutedIsSumOfDone == Spec => []ExecutedReconciles
<1>1. TotalsInv => ExecutedReconciles
  BY DEF TotalsInv
<1> QED
  BY <1>1, TotalsHold, PTL

-----------------------------------------------------------------------------
(* What the answers of the router mean to the threads that wait for them.  *)

(* Who is inside a section of mt that takes more than one step.            *)
Holds(l) == l.pc = "block" \/ (l.pc = "store" /\ l.wait = "cancel")

MutexInv ==
  /\ \A th \in Threads : /\ Holds(t[th]) => mt = th
                         /\ t[th].pc = "count" => t[th].wait # "cancel"
  /\ g.pc = "count" => mt = Gateway

(* The callback thread is on its way to notify_all on behalf of order i.   *)
Notifying(i) ==
  g.id = i /\ g.pc \in {"ack", "notify", "notify_failed", "cancel_done", "cancel_failed"}

(* SleeperIsNotified, also for a thread between its predicate and sleep.   *)
NoticeInv ==
  \A th \in Threads :
    t[th].pc \in {"block", "asleep"} /\ Answered(th) => Notifying(t[th].id)

(* The news of an order that follow its acceptance, and where it is then.  *)
LaterNews == {"FILL", "DONE", "CANCELED", "CANCEL_NOTICE"}
Accepted  == {"live", "leaving", "filled"}

IsNew(e) == e.kind = "NEW"

(* An accepted order's NEW comes before everything else that changes its   *)
(* stage.  ORDER_UNKNOWN, which changes it without a notify, stays away.   *)
AckInv(i) ==
  /\ \A k \in DOMAIN inbox[i] :
       /\ inbox[i][k].kind # "UNKNOWN"
       /\ inbox[i][k].kind \in LaterNews /\ info[i].stage = "SENT" =>
            \E j \in DOMAIN inbox[i] : j < k /\ IsNew(inbox[i][j])
  /\ book[i].state \in Accepted /\ info[i].stage = "SENT" =>
       \E j \in DOMAIN inbox[i] : IsNew(inbox[i][j])

(* What the account takes for cancelled is cancelled, and settled.         *)
Settled(i) == info[i].cancel_stage = "DONE" \/ (g.pc = "cancel_done" /\ g.id = i)

FinalInv(i) ==
  /\ Settled(i) => /\ book[i].state = "cancelled"
                   /\ info[i].openSize = info[i].size - info[i].fill_size
                   /\ OnlyRefusals(inbox[i])
  /\ \A k \in DOMAIN inbox[i] :
       inbox[i][k].kind = "CANCELED" => book[i].state = "cancelled"

NoUnknown == "change_unknown" \notin Faults

AnswersInv ==
  /\ IInv /\ MutexInv
  /\ \A i \in Ids : FinalInv(i)
  /\ NoUnknown => NoticeInv /\ \A i \in Ids : AckInv(i)

-----------------------------------------------------------------------------
(* The threads.                                                            *)

(* A thread may take an answer back; it never gives one.                   *)
SameAnswer(j) ==
  /\ book'[j].state = book[j].state
  /\ info'[j].stage = info[j].stage
  /\ info'[j].is_acknowledged = info[j].is_acknowledged
  /\ info'[j].cancel_stage \in {info[j].cancel_stage, "INIT", "NONE"}
  /\ info'[j].openSize = info[j].openSize
  /\ info'[j].size = info[j].size
  /\ info'[j].fill_size = info[j].fill_size

(* The order a thread has just sent, or has failed to send.                *)
JustSent(j) ==
  /\ j = next
  /\ book'[j].state \in {"none", "posted", "replacing"}
  /\ info'[j].cancel_stage = "NONE" /\ ~info'[j].is_acknowledged

(* What a step of thread th does to the orders ...                         *)
OrdersAnswered ==
  /\ UNCHANGED <<inbox, g>>
  /\ \A j \in Ids : SameAnswer(j) \/ JustSent(j)

(* ... and where it leaves the thread.                                     *)
Sleepy(th, l) ==
  \/ l.pc \notin {"block", "asleep"}
  \/ /\ l.pc = "block" /\ info' = info
     /\ l.wait = t[th].wait /\ l.id = t[th].id /\ ~Answered(th)
  \/ /\ l.pc = "asleep" /\ info' = info
     /\ l.wait = t[th].wait /\ l.id = t[th].id /\ t[th].pc = "block"

Moved(th) == \E l \in Local : t' = [t EXCEPT ![th] = l] /\ Sleepy(th, l)

LEMMA MovesTo ==
  ASSUME NEW th, NEW l \in Local, t' = [t EXCEPT ![th] = l], Sleepy(th, l)
  PROVE  Moved(th)
BY DEF Moved

LEMMA SameAnswers ==
  ASSUME info' = info, \A j \in Ids : book'[j].state = book[j].state
  PROVE  \A j \in Ids : SameAnswer(j)
BY DEF SameAnswer

(* A thread that returns does not sleep.                                   *)
LEMMA Returned ==
  ASSUME IInv, NEW th \in Threads, Return(th)  PROVE Moved(th)
<1>1. t[th] \in Local /\ t[th].id < next
  BY DEF IInv, TypeOK, ActorsInv
<1>2. After(t[th]) \in Local /\ After(t[th]).pc \in {"idle", "scan"}
  BY <1>1, ThreadReturns
<1> QED
  BY <1>2 DEF Return, Goto, Moved, Sleepy

(* The steps of a wait, which write no order.                              *)
LEMMA WaitsAnswer ==
  ASSUME IInv, NEW th \in Threads,
         \/ CheckFails(th) \/ Block(th) \/ SpuriousWakeup(th)
         \/ AckFailed(th) \/ AckGranted(th) \/ LiveRead(th) \/ LiveWrite(th)
         \/ CancelDone(th) \/ CancelAll(th)
  PROVE  OrdersAnswered /\ Moved(th)
<1>0. t[th] \in Local /\ {"check", "block", "asleep", "count", "store"} \subseteq PCs
  BY DEF PCs, IInv, TypeOK
<1>1. UNCHANGED <<exchangeVars, info, g>>
  BY DEF CheckFails, Block, SpuriousWakeup, AckFailed, AckGranted, LiveRead, LiveWrite,
         CancelDone, CancelAll
<1>2. OrdersAnswered
  BY <1>1, SameAnswers DEF OrdersAnswered, exchangeVars
<1>3. CASE CheckFails(th)
  <2> DEFINE l == [t[th] EXCEPT !.pc = "block"]
  <2>1. t' = [t EXCEPT ![th] = l] /\ ~Answered(th)
    BY <1>3 DEF CheckFails, Goto
  <2>2. l \in Local /\ l.pc = "block" /\ l.wait = t[th].wait /\ l.id = t[th].id
    BY <1>0 DEF Local
  <2> HIDE DEF l
  <2> QED
    BY <1>1, <2>1, <2>2, <1>2, MovesTo DEF Sleepy
<1>4. CASE Block(th)
  <2> DEFINE l == [t[th] EXCEPT !.pc = "asleep"]
  <2>1. t' = [t EXCEPT ![th] = l] /\ t[th].pc = "block"
    BY <1>4 DEF Block, Goto
  <2>2. l \in Local /\ l.pc = "asleep" /\ l.wait = t[th].wait /\ l.id = t[th].id
    BY <1>0 DEF Local
  <2> HIDE DEF l
  <2> QED
    BY <1>1, <2>1, <2>2, <1>2, MovesTo DEF Sleepy
<1>5. CASE SpuriousWakeup(th)
  <2> DEFINE l == [t[th] EXCEPT !.pc = "check"]
  <2>1. t' = [t EXCEPT ![th] = l]
    BY <1>5 DEF SpuriousWakeup, Goto
  <2>2. l \in Local /\ l.pc = "check"
    BY <1>0 DEF Local
  <2> HIDE DEF l
  <2> QED
    BY <2>1, <2>2, <1>2, MovesTo DEF Sleepy
<1>6. CASE AckFailed(th) \/ LiveWrite(th)
  BY <1>2, <1>6, Returned DEF AckFailed, LiveWrite
<1>7. CASE AckGranted(th)
  <2> DEFINE l == [t[th] EXCEPT !.pc = "count"]
  <2>1. l \in Local /\ l.pc = "count"
    BY <1>0 DEF Local
  <2>2. Return(th) \/ t' = [t EXCEPT ![th] = l]
    BY <1>7 DEF AckGranted, Goto
  <2> HIDE DEF l
  <2> QED
    BY <2>1, <2>2, Returned, <1>2, MovesTo DEF Sleepy
<1>8. CASE LiveRead(th) \/ CancelDone(th)
  <2> DEFINE v == live[LiveOf(info[t[th].id].side)]
             l == [t[th] EXCEPT !.pc = "store", !.tmp = v]
  <2>1. v \in Int
    BY DEF IInv, TypeOK, LiveOf
  <2>2. t' = [t EXCEPT ![th] = l]
    BY <1>8 DEF LiveRead, CancelDone, Goto
  <2> HIDE DEF v
  <2>3. l \in Local /\ l.pc = "store"
    BY <1>0, <2>1 DEF Local
  <2> HIDE DEF l
  <2> QED
    BY <2>2, <2>3, <1>2, MovesTo DEF Sleepy
<1>9. CASE CancelAll(th)
  <2>1. Scanning(0) \in Local /\ Scanning(0).pc = "scan"
    BY ScanningLocal
  <2> QED
    BY <1>9, <2>1, <1>2, MovesTo DEF CancelAll, Goto, Sleepy
<1> QED
  BY <1>2, <1>3, <1>4, <1>5, <1>6, <1>7, <1>8, <1>9

(* A new order has never been answered.                                    *)
LEMMA Sent ==
  ASSUME IInv, next \in Ids, inbox' = inbox, g' = g,
         NEW o, o.cancel_stage = "NONE", ~o.is_acknowledged,
         \A j \in Ids : j # next => SameAnswer(j),
         info'[next] = o,
         book'[next].state \in {"none", "posted", "replacing"}
  PROVE  OrdersAnswered
BY DEF OrdersAnswered, JustSent

LEMMA SendAnswers ==
  ASSUME IInv, NEW th \in Threads, NEW side, NEW fn, NEW size, NEW local \in Local,
         t[th].pc = "idle", Send(th, side, fn, size, local)
  PROVE  OrdersAnswered /\ Moved(th)
<1>1. /\ next \in Ids /\ inbox' = inbox /\ g' = g
      /\ info' = [info EXCEPT ![next] = NewOrder(side, fn, size)]
      /\ Post(next, size) \/ book' = book
  BY DEF Send
<1>2. /\ info \in [Ids -> OrderInfo] /\ book \in [Ids -> BookEntry]
      /\ book[next].state = "none"
  BY <1>1, BookFacts DEF IInv, TypeOK
<1>3. \A j \in Ids : j # next => info'[j] = info[j] /\ book'[j] = book[j]
  BY <1>1, <1>2 DEF Post
<1>4. /\ info'[next] = NewOrder(side, fn, size)
      /\ NewOrder(side, fn, size).cancel_stage = "NONE"
      /\ ~NewOrder(side, fn, size).is_acknowledged
  BY <1>1, <1>2 DEF NewOrder
<1>5. book'[next].state \in {"none", "posted", "replacing"}
  BY <1>1, <1>2 DEF Post, BookEntry
<1>6. OrdersAnswered
  BY <1>1, <1>3, <1>4, <1>5, Sent DEF SameAnswer
<1>7. Moved(th)
  <2> DEFINE l == [local EXCEPT !.pc = "check", !.wait = "ack", !.id = next]
  <2>1. l \in Local /\ l.pc = "check"
    BY <1>1 DEF Local, PCs, Waits
  <2>2. Idle \in Local /\ Idle.pc = "idle"
    BY IdleFacts
  <2>3. t' = [t EXCEPT ![th] = l] \/ t' = [t EXCEPT ![th] = Idle]
    BY DEF Send, Goto
  <2> HIDE DEF l
  <2> QED
    BY <2>1, <2>2, <2>3, MovesTo DEF Sleepy
<1> QED
  BY <1>6, <1>7

(* A step that leaves the thread idle.                                     *)
LEMMA StaysIdle ==
  ASSUME IInv, NEW th \in Threads, t[th].pc = "idle", t' = t
  PROVE  Moved(th)
<1>1. t[th] \in Local /\ t' = [t EXCEPT ![th] = t[th]]
  BY DEF IInv, TypeOK
<1> QED
  BY <1>1, MovesTo DEF Sleepy

LEMMA ChangeAnswers ==
  ASSUME IInv, NEW th \in Threads, NEW i \in Ids, NEW n, Change(th, i, n)
  PROVE  OrdersAnswered /\ Moved(th)
<1> DEFINE changed == ChangedOrder(info[i], n)
<1>1. /\ t[th].pc = "idle" /\ i \in orders /\ inbox' = inbox /\ g' = g
  BY DEF Change
<1>2. /\ info \in [Ids -> OrderInfo] /\ book \in [Ids -> BookEntry]
      /\ i < next /\ next \in Nat /\ i \in Nat
  BY <1>1, LocalFacts DEF IInv, TypeOK, ExchangeTypeOK
<1>3. changed.cancel_stage = "NONE" /\ ~changed.is_acknowledged
  BY <1>2 DEF ChangedOrder, OrderInfo
<1> HIDE DEF changed
<1>4. CASE Finished(info[i])
  <2>1. info' = [info EXCEPT ![i].onOrderChange = TRUE] /\ book' = book /\ t' = t
    BY <1>4 DEF Change
  <2>2. \A j \in Ids : SameAnswer(j)
    BY <1>2, <2>1 DEF SameAnswer, OrderInfo
  <2> QED
    BY <1>1, <2>1, <2>2, StaysIdle DEF OrdersAnswered
<1>5. CASE ~Finished(info[i])
  <2>1. /\ next \in Ids
        /\ info' = [info EXCEPT ![i].onOrderChange = TRUE, ![next] = changed]
        /\ Replace(next, i, changed.size) \/ book' = book
    BY <1>5 DEF Change, changed
  <2>2. /\ info'[next] = changed /\ book[next].state = "none"
        /\ \A j \in Ids : j # next => book'[j] = book[j]
    BY <1>2, <2>1, BookFacts DEF Replace
  <2>3. \A j \in Ids : j # next => SameAnswer(j)
    BY <1>2, <2>1, <2>2 DEF SameAnswer, OrderInfo
  <2>4. book'[next].state \in {"none", "posted", "replacing"}
    BY <1>2, <2>1, <2>2 DEF Replace, BookEntry
  <2>5. OrdersAnswered
    BY <1>1, <1>3, <2>1, <2>2, <2>3, <2>4, Sent
  <2>6. Moved(th)
    <3> DEFINE w == IF n = 0 THEN "reprice" ELSE "resize"
               l == [Idle EXCEPT !.pc = "check", !.id = next, !.orig = i, !.wait = w]
    <3>1. t' = [t EXCEPT ![th] = l] \/ t' = t
      BY <1>5 DEF Change, Goto
    <3>2. w \in Waits
      BY DEF Waits
    <3> HIDE DEF w
    <3>3. l \in Local /\ l.pc = "check"
      BY <2>1, <3>2, IdleFacts DEF Local, PCs
    <3> HIDE DEF l
    <3> QED
      BY <1>1, <3>1, <3>3, MovesTo, StaysIdle DEF Sleepy
  <2> QED
    BY <2>5, <2>6
<1> QED
  BY <1>4, <1>5

LEMMA BeginCancelAnswers ==
  ASSUME IInv, NEW th \in Threads, NEW i \in Ids, NEW local \in Local,
         BeginCancel(th, i, local), UNCHANGED <<exchangeVars, g>>, i < next
  PROVE  OrdersAnswered /\ Moved(th)
<1>1. info \in [Ids -> OrderInfo]
  BY DEF IInv, TypeOK
<1>2. CASE CanCancel(info[i])
  <2> DEFINE l == [local EXCEPT !.pc = "mark_cancel", !.id = i]
  <2>1. info' = [info EXCEPT ![i].onOrderCancel = TRUE] /\ t' = [t EXCEPT ![th] = l]
    BY <1>2 DEF BeginCancel, Goto
  <2>2. l \in Local /\ l.pc = "mark_cancel"
    BY DEF Local, PCs
  <2> HIDE DEF l
  <2>3. \A j \in Ids : SameAnswer(j)
    BY <1>1, <2>1 DEF SameAnswer, OrderInfo, exchangeVars
  <2> QED
    BY <2>1, <2>2, <2>3, MovesTo DEF OrdersAnswered, Sleepy, exchangeVars
<1>3. CASE ~CanCancel(info[i])
  <2> DEFINE l == [local EXCEPT !.id = i]
  <2>1. info' = info /\ t' = [t EXCEPT ![th] = After(l)]
    BY <1>3 DEF BeginCancel, Goto
  <2>2. l \in Local /\ l.id = i
    BY DEF Local
  <2> HIDE DEF l
  <2>3. After(l) \in Local /\ After(l).pc \in {"idle", "scan"}
    BY <2>2, ThreadReturns
  <2>4. \A j \in Ids : SameAnswer(j)
    BY <2>1, SameAnswers DEF exchangeVars
  <2> QED
    BY <2>1, <2>3, <2>4, MovesTo DEF OrdersAnswered, Sleepy, exchangeVars
<1> QED
  BY <1>2, <1>3

LEMMA CancelAnswers ==
  ASSUME IInv, NEW th \in Threads,
         \/ \E i \in Ids : Cancel(th, i)
         \/ MarkCancel(th) \/ SendCancel(th) \/ CancelFailed(th) \/ Scan(th)
  PROVE  OrdersAnswered /\ Moved(th)
<1>0. /\ t[th] \in Local /\ info \in [Ids -> OrderInfo] /\ book \in [Ids -> BookEntry]
      /\ {"send_cancel", "check"} \subseteq PCs /\ "cancel" \in Waits
  BY DEF PCs, Waits, IInv, TypeOK, ExchangeTypeOK
<1>1. ASSUME NEW i \in Ids, Cancel(th, i)  PROVE OrdersAnswered /\ Moved(th)
  <2>1. i < next
    BY <1>1, LocalFacts DEF Cancel
  <2>2. BeginCancel(th, i, Idle) /\ UNCHANGED <<exchangeVars, g>>
    BY <1>1 DEF Cancel
  <2> QED
    BY <2>1, <2>2, IdleFacts, BeginCancelAnswers
<1>2. CASE MarkCancel(th)
  <2> DEFINE l == [t[th] EXCEPT !.pc = "send_cancel"]
  <2>1. /\ info' = [info EXCEPT ![t[th].id].cancel_stage = "INIT"]
        /\ t' = [t EXCEPT ![th] = l] /\ UNCHANGED <<exchangeVars, g>>
    BY <1>2 DEF MarkCancel, Goto
  <2>2. l \in Local /\ l.pc = "send_cancel"
    BY <1>0 DEF Local
  <2> HIDE DEF l
  <2>3. \A j \in Ids : SameAnswer(j)
    BY <1>0, <2>1 DEF SameAnswer, OrderInfo, exchangeVars
  <2> QED
    BY <2>1, <2>2, <2>3, MovesTo DEF OrdersAnswered, Sleepy, exchangeVars
<1>3. CASE SendCancel(th)
  <2> DEFINE l == [t[th] EXCEPT !.pc = "check", !.wait = "cancel"]
  <2>1. /\ UNCHANGED <<inbox, info, g>>
        /\ RequestCancel(t[th].id) \/ book' = book
        /\ t' = [t EXCEPT ![th] = l] \/ Return(th)
    BY <1>3 DEF SendCancel, Goto
  <2>2. l \in Local /\ l.pc = "check"
    BY <1>0 DEF Local
  <2> HIDE DEF l
  <2>3. \A j \in Ids : book'[j].state = book[j].state
    BY <1>0, <2>1 DEF RequestCancel, BookEntry
  <2>4. \A j \in Ids : SameAnswer(j)
    BY <2>1, <2>3, SameAnswers
  <2> QED
    BY <2>1, <2>2, <2>4, MovesTo, Returned DEF OrdersAnswered, Sleepy
<1>4. CASE CancelFailed(th)
  <2>1. /\ info' = [info EXCEPT ![t[th].id].cancel_stage = "NONE"]
        /\ Return(th) /\ UNCHANGED <<exchangeVars, g>>
    BY <1>4 DEF CancelFailed
  <2>2. \A j \in Ids : SameAnswer(j)
    BY <1>0, <2>1 DEF SameAnswer, OrderInfo, exchangeVars
  <2> QED
    BY <2>1, <2>2, Returned DEF OrdersAnswered, exchangeVars
<1>5. CASE Scan(th)
  <2>1. UNCHANGED <<exchangeVars, g>>
    BY <1>5 DEF Scan
  <2>2. CASE \E i \in orders : BeginCancel(th, i, t[th])
    BY <1>0, <2>1, <2>2, LocalFacts, BeginCancelAnswers
  <2>3. CASE info' = info /\ \E i \in orders : t' = [t EXCEPT ![th] = [t[th] EXCEPT !.id = i]]
    <3>1. PICK i \in orders : t' = [t EXCEPT ![th] = [t[th] EXCEPT !.id = i]]
      BY <2>3
    <3> DEFINE l == [t[th] EXCEPT !.id = i]
    <3>2. l \in Local /\ l.pc = "scan" /\ t' = [t EXCEPT ![th] = l]
      BY <1>0, <1>5, <3>1, LocalFacts DEF Local, Scan
    <3> HIDE DEF l
    <3>3. \A j \in Ids : SameAnswer(j)
      BY <2>1, <2>3, SameAnswers DEF exchangeVars
    <3> QED
      BY <2>1, <3>2, <3>3, MovesTo DEF OrdersAnswered, Sleepy, exchangeVars
  <2>4. CASE info' = info /\ t' = [t EXCEPT ![th] = Idle]
    <3>1. \A j \in Ids : SameAnswer(j)
      BY <2>1, <2>4, SameAnswers DEF exchangeVars
    <3> QED
      BY <2>1, <2>4, <3>1, IdleFacts, MovesTo DEF OrdersAnswered, Sleepy, exchangeVars
  <2> QED
    BY <1>5, <2>2, <2>3, <2>4 DEF Scan, Goto
<1> QED
  BY <1>1, <1>2, <1>3, <1>4, <1>5

(* Whatever a thread does.                                                 *)
ThreadStep(th) ==
  \/ \E n \in Sizes : Open(th, n) \/ Close(th, n) \/ ClosePending(th, n)
  \/ SendPendingOrders(th)
  \/ \E i \in Ids, n \in {0} \cup Sizes : Change(th, i, n)
  \/ \E i \in Ids : Cancel(th, i)
  \/ CancelAll(th)
  \/ Proceed(th)
  \/ SpuriousWakeup(th)

LEMMA ThreadAnswers ==
  ASSUME IInv, NEW th \in Threads, ThreadStep(th)
  PROVE  OrdersAnswered /\ Moved(th)
<1>1. ASSUME NEW n \in Sizes, Open(th, n) \/ Close(th, n)
      PROVE  OrdersAnswered /\ Moved(th)
  BY <1>1, IdleFacts, SendAnswers DEF Open, Close
<1>2. ASSUME NEW n \in Sizes, ClosePending(th, n)  PROVE OrdersAnswered /\ Moved(th)
  <2>1. UNCHANGED <<exchangeVars, info, t, g>> /\ t[th].pc = "idle"
    BY <1>2 DEF ClosePending
  <2> QED
    BY <2>1, SameAnswers, StaysIdle DEF OrdersAnswered, exchangeVars
<1>3. CASE SendPendingOrders(th)
  <2> DEFINE l == [Idle EXCEPT !.pend = TRUE]
  <2>1. l \in Local
    BY IdleFacts DEF Local
  <2>2. Send(th, CloseSide, "onCloseFill", Head(pending), l) /\ t[th].pc = "idle"
    BY <1>3 DEF SendPendingOrders
  <2> HIDE DEF l
  <2> QED
    BY <2>1, <2>2, SendAnswers
<1> QED
  BY <1>1, <1>2, <1>3, ChangeAnswers, CancelAnswers, WaitsAnswer DEF ThreadStep, Proceed

-----------------------------------------------------------------------------
(* The exchange.                                                           *)

(* Where an order may go from one state of the book, and what it is told.  *)
Told(kind, from, to) ==
  \/ kind = "NEW" /\ from \in {"posted", "replacing"} /\ to = "live"
  \/ kind = "REJECTED" /\ from \in {"posted", "replacing"} /\ to = "rejected"
  \/ kind = "THROTTLE" /\ from = "posted" /\ to = "throttled"
  \/ kind = "UNKNOWN" /\ from = "replacing" /\ to = "rejected" /\ ~NoUnknown
  \/ kind = "FILL" /\ from = "live" /\ to \in {"live", "filled"}
  \/ kind = "DONE" /\ from = "filled" /\ to = "done"
  \/ kind = "CANCELED" /\ from \in {"live", "leaving"} /\ to = "cancelled"
  \/ kind = "CANCEL_NOTICE" /\ from = "live" /\ to = "leaving"
  \/ kind = "CHANGED" /\ from = "live" /\ to = "replaced"
  \/ kind \in Refusals /\ to = from

(* An order is told of its move; one whose change is refused on the id of  *)
(* the original is not.                                                    *)
Tells(j) ==
  \/ /\ inbox'[j] = inbox[j]
     /\ \/ book'[j].state = book[j].state
        \/ book[j].state = "replacing" /\ book'[j].state = "rejected"
  \/ \E e \in Event : /\ inbox'[j] = Append(inbox[j], e)
                      /\ Told(e.kind, book[j].state, book'[j].state)

(* One order is told of its move, and no other is.                         *)
LEMMA TellsOne ==
  ASSUME IInv, NEW i \in Ids, NEW b, book' = [book EXCEPT ![i] = b],
         NEW kind \in EventKinds, NEW size \in Nat, NEW openSize \in Nat,
         Tell(i, kind, size, openSize), Told(kind, book[i].state, b.state)
  PROVE  \A j \in Ids : Tells(j)
<1> DEFINE e == [kind |-> kind, size |-> size, openSize |-> openSize]
<1>1. e \in Event /\ e.kind = kind
  BY MadeEvent
<1>2. inbox' = [inbox EXCEPT ![i] = Append(inbox[i], e)]
  BY DEF Tell
<1> HIDE DEF e
<1>3. book \in [Ids -> BookEntry] /\ inbox \in [Ids -> Seq(Event)]
  BY BookFacts
<1>4. ASSUME NEW j \in Ids, j # i  PROVE Tells(j)
  BY <1>2, <1>3, <1>4 DEF Tells
<1>5. Tells(i)
  <2>1. book'[i] = b /\ inbox'[i] = Append(inbox[i], e)
    BY <1>2, <1>3
  <2> QED
    BY <1>1, <2>1 DEF Tells
<1> QED
  BY <1>4, <1>5

(* The moves of one order.                                                 *)
LEMMA MovesTell ==
  ASSUME IInv, NEW i \in Ids,
         \/ Accept(i) \/ Reject(i) \/ Throttle(i) \/ Complete(i)
         \/ AnnounceCancel(i) \/ CompleteCancel(i)
  PROVE  \A j \in Ids : Tells(j)
<1>1. book[i] \in BookEntry /\ book[i].leaves \in Nat /\ book \in [Ids -> BookEntry]
  BY BookFacts
<1>2. PICK kind \in EventKinds, state \in BookStates :
        /\ Told(kind, book[i].state, state)
        /\ Become(i, state)
        /\ \E n \in Nat : Tell(i, kind, 0, n)
  <2>1. CASE Accept(i)
    BY <1>1, <2>1, KindFacts DEF Accept, Told
  <2>2. CASE Reject(i)
    BY <1>1, <2>2, KindFacts DEF Reject, Told
  <2>3. CASE Throttle(i)
    BY <1>1, <2>3, KindFacts DEF Throttle, Told
  <2>4. CASE Complete(i)
    BY <1>1, <2>4, KindFacts DEF Complete, Told
  <2>5. CASE AnnounceCancel(i)
    BY <1>1, <2>5, KindFacts DEF AnnounceCancel, Told
  <2>6. CASE CompleteCancel(i)
    BY <1>1, <2>6, KindFacts DEF CompleteCancel, Told
  <2> QED
    BY <2>1, <2>2, <2>3, <2>4, <2>5, <2>6
<1> DEFINE b == [book[i] EXCEPT !.state = state]
<1>3. b.state = state /\ book' = [book EXCEPT ![i] = b]
  BY <1>1, <1>2 DEF Become, BookEntry
<1> HIDE DEF b
<1>4. PICK n \in Nat : Tell(i, kind, 0, n)
  BY <1>2
<1> QED
  BY <1>2, <1>3, <1>4, TellsOne

(* A fill, and the answers to a cancel.                                    *)
LEMMA AnswersTell ==
  ASSUME IInv, NEW i \in Ids,
         \/ \E n \in Sizes : Execute(i, n)
         \/ CancelOrderDone(i) \/ CancelOrderRefused(i)
  PROVE  \A j \in Ids : Tells(j)
<1>1. book[i] \in BookEntry /\ book[i].leaves \in Nat /\ book \in [Ids -> BookEntry]
  BY BookFacts
<1>2. ASSUME NEW n \in Sizes, Execute(i, n)  PROVE \A j \in Ids : Tells(j)
  <2> DEFINE state == IF n = book[i].leaves THEN "filled" ELSE book[i].state
             b == [book[i] EXCEPT !.leaves = book[i].leaves - n, !.state = state]
  <2>1. /\ book[i].state = "live" /\ n \in 1..book[i].leaves
        /\ Tell(i, "FILL", n, book[i].leaves - n)
    BY <1>2 DEF Execute
  <2>1a. n \in Nat /\ book[i].leaves - n \in Nat
    BY <1>1, <2>1
  <2>2. b.state = state /\ book' = [book EXCEPT ![i] = b]
    BY <1>1, <1>2 DEF Execute, BookEntry
  <2>3. Told("FILL", book[i].state, state) /\ "FILL" \in EventKinds
    BY <2>1, KindFacts DEF Told
  <2> HIDE DEF b
  <2> QED
    BY <2>1, <2>1a, <2>2, <2>3, TellsOne
<1>3. ASSUME NEW state, NEW kind \in EventKinds, AnswerCancel(i, state, kind),
             Told(kind, book[i].state, state)
      PROVE  \A j \in Ids : Tells(j)
  <2> DEFINE b == [book[i] EXCEPT !.cancels = book[i].cancels - 1, !.state = state]
  <2>1. b.state = state /\ book' = [book EXCEPT ![i] = b]
    BY <1>1, <1>3 DEF AnswerCancel, BookEntry
  <2>2. Tell(i, kind, 0, book[i].leaves)
    BY <1>3 DEF AnswerCancel
  <2> HIDE DEF b
  <2> QED
    BY <1>1, <1>3, <2>1, <2>2, TellsOne
<1>4. CASE CancelOrderDone(i)
  BY <1>3, <1>4, KindFacts DEF CancelOrderDone, Told
<1>5. CASE CancelOrderRefused(i)
  BY <1>3, <1>5, KindFacts DEF CancelOrderRefused, Told
<1> QED
  BY <1>2, <1>4, <1>5

(* The answers to a change, which may concern two orders.                  *)
LEMMA ChangesTell ==
  ASSUME IInv, NEW j \in Ids, AcceptChange(j) \/ RefuseChange(j)
  PROVE  \A k \in Ids : Tells(k)
<1> DEFINE i == book[j].original
<1>1. /\ book \in [Ids -> BookEntry] /\ inbox \in [Ids -> Seq(Event)]
      /\ book[j].state = "replacing" /\ book[j] \in BookEntry
      /\ OrderInv(j) /\ next \in 1..(MaxId + 1)
  BY BookFacts DEF AcceptChange, RefuseChange
<1>2. i \in Ids /\ i # j
  BY <1>1, OrderAssumption DEF OrderInv, ReplacesAnother, Ids
<1> HIDE DEF i
<1>3. book[i] \in BookEntry /\ book[i].leaves \in Nat /\ book[j].leaves \in Nat
  BY <1>2, BookFacts
<1>4. CASE AcceptChange(j)
  <2> DEFINE c == [kind |-> "CHANGED", size |-> 0, openSize |-> book[i].leaves]
             a == [kind |-> "NEW", size |-> 0, openSize |-> book[j].leaves]
  <2>1. /\ book[i].state = "live"
        /\ book' = [book EXCEPT ![i].state = "replaced", ![j].state = "live"]
        /\ inbox' = [inbox EXCEPT ![i] = Append(@, c), ![j] = Append(@, a)]
    BY <1>4 DEF AcceptChange, i
  <2>2. c \in Event /\ c.kind = "CHANGED" /\ a \in Event /\ a.kind = "NEW"
    BY <1>3, MadeEvent, KindFacts
  <2> HIDE DEF c, a
  <2>3. /\ inbox'[i] = Append(inbox[i], c) /\ book'[i].state = "replaced"
        /\ inbox'[j] = Append(inbox[j], a) /\ book'[j].state = "live"
    BY <1>1, <1>2, <1>3, <2>1 DEF BookEntry
  <2>4. Tells(i) /\ Tells(j)
    BY <1>1, <2>1, <2>2, <2>3 DEF Tells, Told
  <2>5. ASSUME NEW k \in Ids, k # i, k # j  PROVE Tells(k)
    BY <1>1, <2>1, <2>5 DEF Tells
  <2> QED
    BY <2>4, <2>5
<1>5. CASE RefuseChange(j)
  <2> DEFINE b == [book[j] EXCEPT !.state = "rejected"]
  <2>1. b.state = "rejected" /\ book' = [book EXCEPT ![j] = b]
    BY <1>1, <1>5 DEF RefuseChange, Become, BookEntry
  <2> HIDE DEF b
  <2>2. CASE Tell(j, "REJECTED", 0, book[j].leaves)
    BY <1>1, <1>3, <2>1, <2>2, TellsOne, KindFacts DEF Told
  <2>3. CASE "change_unknown" \in Faults /\ Tell(j, "UNKNOWN", 0, book[j].leaves)
    BY <1>1, <1>3, <2>1, <2>3, TellsOne, KindFacts DEF Told, NoUnknown
  <2>4. CASE Tell(i, "CHANGE_REJECTED", 0, book[i].leaves)
    <3> DEFINE e == [kind |-> "CHANGE_REJECTED", size |-> 0, openSize |-> book[i].leaves]
    <3>1. e \in Event /\ e.kind = "CHANGE_REJECTED"
      BY <1>3, MadeEvent, KindFacts
    <3>2. inbox' = [inbox EXCEPT ![i] = Append(inbox[i], e)]
      BY <2>4 DEF Tell
    <3> HIDE DEF e
    <3>3. Tells(i)
      <4>1. inbox'[i] = Append(inbox[i], e) /\ book'[i] = book[i]
        BY <1>1, <1>2, <2>1, <3>2
      <4> QED
        BY <3>1, <4>1, KindFacts DEF Tells, Told
    <3>4. ASSUME NEW k \in Ids, k # i  PROVE Tells(k)
      BY <1>1, <2>1, <3>2, <3>4 DEF Tells
    <3> QED
      BY <3>3, <3>4
  <2> QED
    BY <1>5, <2>2, <2>3, <2>4 DEF RefuseChange, i
<1> QED
  BY <1>4, <1>5

LEMMA ExchangeTells ==
  ASSUME IInv, NEW i \in Ids, ExchangeStep(i)  PROVE \A j \in Ids : Tells(j)
BY MovesTell, AnswersTell, ChangesTell DEF ExchangeStep, Decide, Answer

-----------------------------------------------------------------------------
(* The callbacks.                                                          *)

(* What a callback about order i does to the orders, told by its event: it *)
(* answers a thread only when it goes on to notify.                        *)
Answers(i, o) ==
  LET e == Head(inbox[i]) IN
  /\ o.size = info[i].size
  /\ e.kind # "FILL" => o.fill_size = info[i].fill_size
  /\ o.is_acknowledged => info[i].is_acknowledged
  /\ \/ o.stage = info[i].stage
     \/ e.kind \in LaterNews \cup {"UNKNOWN"}
     \/ Notifying(i)'
  /\ o.stage = "SENT" => info[i].stage = "SENT" /\ e.kind # "NEW"
  /\ o.cancel_stage = info[i].cancel_stage \/ Notifying(i)'
  /\ o.cancel_stage = "DONE" \/ g'.pc = "cancel_done" =>
       \/ info[i].cancel_stage = "DONE"
       \/ e.kind = "CANCELED" /\ o.openSize = e.openSize
  /\ e.kind \in Refusals => o.openSize \in {info[i].openSize, e.openSize}

Handles(i) ==
  /\ g.pc = "idle" /\ inbox[i] # <<>>
  /\ inbox' = [inbox EXCEPT ![i] = Tail(inbox[i])]
  /\ t' = t
  /\ g' = g \/ g'.id = i
  /\ IF g'.pc = "count" THEN mt = Nobody /\ mt' = Gateway ELSE mt' = mt
  /\ \A j \in Ids : \/ book'[j].state = book[j].state
                    \/ /\ j = i /\ Head(inbox[i]).kind = "THROTTLE"
                       /\ book'[i].state = "posted"
  /\ \A j \in Ids : j # i => info'[j] = info[j]
  /\ Answers(i, info'[i])

LEMMA ReceivedAnswers ==
  ASSUME IInv, NEW i \in Ids, inbox[i] # <<>>
  PROVE  /\ Received(i) \in OrderInfo
         /\ Received(i).size = info[i].size
         /\ Received(i).fill_size = info[i].fill_size
         /\ Received(i).stage = info[i].stage
         /\ Received(i).is_acknowledged = info[i].is_acknowledged
         /\ Received(i).cancel_stage = info[i].cancel_stage
         /\ Received(i).openSize = Head(inbox[i]).openSize
<1>1. info[i] \in OrderInfo
  BY BookFacts
<1> QED
  BY <1>1, ReceivedFacts DEF Received, OrderInfo

(* A callback that records o and leaves the mutex alone.                   *)
LEMMA RecordHandles ==
  ASSUME IInv, NEW i \in Ids, NEW kinds, Deliver(i, kinds), t' = t, mt' = mt,
         \/ book' = book
         \/ Head(inbox[i]).kind = "THROTTLE" /\ Become(i, "posted"),
         NEW o, info' = [info EXCEPT ![i] = o],
         g' = g \/ \E pc \in GatewayPCs \ {"count"} : g' = [GatewayIdle EXCEPT !.pc = pc, !.id = i],
         Answers(i, o)
  PROVE  Handles(i)
<1>1. /\ g.pc = "idle" /\ inbox[i] # <<>> /\ inbox' = [inbox EXCEPT ![i] = Tail(inbox[i])]
      /\ book \in [Ids -> BookEntry] /\ info \in [Ids -> OrderInfo]
  BY MatchedFacts, BookFacts DEF IInv, TypeOK
<1>2. \A j \in Ids : \/ book'[j].state = book[j].state
                     \/ /\ j = i /\ Head(inbox[i]).kind = "THROTTLE"
                        /\ book'[i].state = "posted"
  <2>1. CASE book' = book
    BY <2>1
  <2>2. CASE Head(inbox[i]).kind = "THROTTLE" /\ Become(i, "posted")
    <3> DEFINE b == [book[i] EXCEPT !.state = "posted"]
    <3>1. book' = [book EXCEPT ![i] = b]
      BY <2>2 DEF Become
    <3>2. b.state = "posted"
      <4>1. book[i] \in BookEntry
        BY <1>1
      <4> QED
        BY ONLY <4>1 DEF BookEntry
    <3> HIDE DEF b
    <3>3. book'[i].state = "posted" /\ \A j \in Ids : j # i => book'[j] = book[j]
      BY <1>1, <3>1, <3>2
    <3> QED
      BY <2>2, <3>3
  <2> QED
    BY <2>1, <2>2
<1>3. info'[i] = o /\ \A j \in Ids : j # i => info'[j] = info[j]
  BY <1>1
<1>4. g'.pc # "count" /\ (g' = g \/ g'.id = i)
  BY <1>1 DEF GatewayIdle
<1> QED
  BY <1>1, <1>2, <1>3, <1>4 DEF Handles

LEMMA QuietHandles ==
  ASSUME IInv, NEW i \in Ids,
         Unmatched(i) \/ OnThrottle(i) \/ OnChanged(i) \/ OnChangeRejected(i)
  PROVE  Handles(i)
<1>1. info[i] \in OrderInfo /\ info \in [Ids -> OrderInfo]
  BY BookFacts DEF IInv, TypeOK
<1>2. CASE Unmatched(i)
  <2>1. /\ Deliver(i, EventKinds) /\ g.pc = "idle"
        /\ UNCHANGED <<book, info, t, mt, g>> /\ info' = [info EXCEPT ![i] = info[i]]
    BY <1>1, <1>2 DEF Unmatched, Deliver, accountVars
  <2>2. Head(inbox[i]).kind \in Refusals
    BY <1>2, <2>1, MatchedFacts, BookFacts, HeadFacts DEF Unmatched
  <2>3. Answers(i, info[i])
    BY <2>1, <2>2, KindFacts DEF Answers
  <2> QED
    BY <2>1, <2>3, RecordHandles
<1>3. CASE OnThrottle(i) \/ OnChanged(i) \/ OnChangeRejected(i)
  <2>1. PICK kind \in {"THROTTLE", "CHANGED", "CHANGE_REJECTED"} :
          /\ Deliver(i, {kind}) /\ UNCHANGED <<t, mt, g>>
          /\ book' = book \/ (kind = "THROTTLE" /\ Become(i, "posted"))
          /\ info' = [info EXCEPT ![i] = Received(i)]
    BY <1>3 DEF OnThrottle, OnChanged, OnChangeRejected, Matched, Record
  <2>2. g.pc = "idle" /\ inbox[i] # <<>> /\ Head(inbox[i]).kind = kind
    BY <2>1, MatchedFacts
  <2>3. Answers(i, Received(i))
    BY <2>1, <2>2, ReceivedAnswers DEF Answers
  <2> QED
    BY <2>1, <2>2, <2>3, RecordHandles
<1> QED
  BY <1>2, <1>3

(* The answers to a new order and to a cancel.                             *)
LEMMA AnswerHandles ==
  ASSUME IInv, NEW i \in Ids,
         OnNew(i) \/ OnRejected(i) \/ OnCanceled(i) \/ OnCancelRefused(i)
  PROVE  Handles(i)
<1>0. /\ t' = t /\ mt' = mt /\ book' = book
      /\ {"ack", "notify_failed", "cancel_done", "cancel_failed"} \subseteq GatewayPCs \ {"count"}
  BY DEF OnNew, OnRejected, OnCanceled, OnCancelRefused, GatewayPCs
<1>1. CASE OnNew(i)
  <2> DEFINE o == [Received(i) EXCEPT !.stage = "ACKNOWLEDGED"]
  <2>1. /\ Deliver(i, {"NEW"}) /\ info' = [info EXCEPT ![i] = o]
        /\ g' = [GatewayIdle EXCEPT !.pc = "ack", !.id = i]
    BY <1>1 DEF OnNew, Matched, Record
  <2>2. inbox[i] # <<>> /\ Head(inbox[i]).kind = "NEW"
    BY <2>1, MatchedFacts
  <2>3. Notifying(i)' /\ g'.pc = "ack"
    BY <2>1 DEF GatewayIdle, Notifying
  <2>4. Answers(i, o)
    BY <2>2, <2>3, ReceivedAnswers DEF Answers, OrderInfo, Refusals, CancelRefusals
  <2> HIDE DEF o
  <2> QED
    BY <1>0, <2>1, <2>4, RecordHandles
<1>2. CASE OnRejected(i)
  <2> DEFINE o == [Received(i) EXCEPT !.stage = "FAILED", !.is_acknowledged = FALSE]
  <2>1. /\ Deliver(i, {"REJECTED"}) /\ info' = [info EXCEPT ![i] = o]
        /\ g' = [GatewayIdle EXCEPT !.pc = "notify_failed", !.id = i]
    BY <1>2 DEF OnRejected, Matched, Record
  <2>2. inbox[i] # <<>> /\ Head(inbox[i]).kind = "REJECTED"
    BY <2>1, MatchedFacts
  <2>3. Notifying(i)' /\ g'.pc = "notify_failed"
    BY <2>1 DEF GatewayIdle, Notifying
  <2>4. Answers(i, o)
    BY <2>2, <2>3, ReceivedAnswers DEF Answers, OrderInfo, Refusals, CancelRefusals
  <2> HIDE DEF o
  <2> QED
    BY <1>0, <2>1, <2>4, RecordHandles
<1>3. CASE (OnCanceled(i) \/ OnCancelRefused(i)) /\ ~info[i].onOrderCancel
  <2>1. PICK kinds \in {{"CANCELED"}, CancelRefusals} :
          Deliver(i, kinds) /\ info' = [info EXCEPT ![i] = Received(i)] /\ g' = g
    BY <1>3 DEF OnCanceled, OnCancelRefused, Matched, Record
  <2>2. /\ inbox[i] # <<>> /\ g.pc = "idle"
        /\ Head(inbox[i]).kind \notin {"FILL", "NEW"}
    BY <2>1, MatchedFacts DEF CancelRefusals
  <2>3. Answers(i, Received(i))
    BY <2>1, <2>2, ReceivedAnswers DEF Answers
  <2> QED
    BY <1>0, <2>1, <2>3, RecordHandles
<1>4. CASE OnCanceled(i) /\ info[i].onOrderCancel
  <2> DEFINE o == [Received(i) EXCEPT !.stage = "CANCELLED", !.cancel_stage = "DONE"]
  <2>1. /\ Deliver(i, {"CANCELED"}) /\ info' = [info EXCEPT ![i] = o]
        /\ g' = [GatewayIdle EXCEPT !.pc = "cancel_done", !.id = i]
    BY <1>4 DEF OnCanceled, Matched, Record
  <2>2. inbox[i] # <<>> /\ Head(inbox[i]).kind = "CANCELED"
    BY <2>1, MatchedFacts
  <2>3. Notifying(i)'
    BY <2>1 DEF GatewayIdle, Notifying
  <2>4. Answers(i, o)
    BY <2>2, <2>3, ReceivedAnswers DEF Answers, OrderInfo, Refusals, CancelRefusals
  <2> HIDE DEF o
  <2> QED
    BY <1>0, <2>1, <2>4, RecordHandles
<1>5. CASE OnCancelRefused(i) /\ info[i].onOrderCancel
  <2> DEFINE o == [Received(i) EXCEPT !.cancel_stage = "FAIL"]
  <2>1. /\ Deliver(i, CancelRefusals) /\ info' = [info EXCEPT ![i] = o]
        /\ g' = [GatewayIdle EXCEPT !.pc = "cancel_failed", !.id = i]
    BY <1>5 DEF OnCancelRefused, Matched, Record
  <2>2. inbox[i] # <<>> /\ Head(inbox[i]).kind \notin {"FILL", "NEW"}
    BY <2>1, MatchedFacts DEF CancelRefusals
  <2>3. Notifying(i)' /\ g'.pc = "cancel_failed"
    BY <2>1 DEF GatewayIdle, Notifying
  <2>4. Answers(i, o)
    BY <2>2, <2>3, ReceivedAnswers DEF Answers, OrderInfo
  <2> HIDE DEF o
  <2> QED
    BY <1>0, <2>1, <2>4, RecordHandles
<1> QED
  BY <1>1, <1>2, <1>3, <1>4, <1>5

(* The progress of an order.                                               *)
LEMMA ProgressHandles ==
  ASSUME IInv, NEW i \in Ids,
         OnFill(i) \/ OnDone(i) \/ OnOrderCancel(i) \/ OnOrderChange(i)
  PROVE  Handles(i)
<1>0. /\ t' = t /\ book' = book /\ info[i] \in OrderInfo
      /\ info \in [Ids -> OrderInfo]
  BY BookFacts DEF OnFill, OnDone, OnOrderCancel, OnOrderChange, IInv, TypeOK
<1>1. CASE OnFill(i)
  <2> DEFINE stage == IF Head(inbox[i]).openSize = 0 THEN "FILLED" ELSE info[i].stage
             o == [info[i] EXCEPT !.stage = stage,
                                  !.fill_size = info[i].fill_size + Head(inbox[i]).size]
  <2>1. Deliver(i, {"FILL"}) /\ mt' = mt /\ g' = g
    BY <1>1 DEF OnFill, Matched
  <2>2. info' = [info EXCEPT ![i] = o]
    BY <1>0, <1>1 DEF OnFill
  <2>3. inbox[i] # <<>> /\ Head(inbox[i]).kind = "FILL" /\ g.pc = "idle"
    BY <2>1, MatchedFacts
  <2>4. /\ o.size = info[i].size /\ o.stage = stage /\ o.openSize = info[i].openSize
        /\ o.is_acknowledged = info[i].is_acknowledged
        /\ o.cancel_stage = info[i].cancel_stage
    BY <1>0 DEF OrderInfo
  <2> HIDE DEF o
  <2>5. Answers(i, o)
    BY <2>1, <2>3, <2>4 DEF Answers, LaterNews, Refusals, CancelRefusals
  <2> QED
    BY <1>0, <2>1, <2>2, <2>5, RecordHandles
<1>2. CASE OnDone(i)
  <2> DEFINE o == [Received(i) EXCEPT !.stage = "DONE"]
  <2>1. /\ Deliver(i, {"DONE"}) /\ mt = Nobody /\ mt' = Gateway
        /\ info' = [info EXCEPT ![i] = o] /\ g'.pc = "count" /\ g'.id = i
    BY <1>2 DEF OnDone, Matched, Record
  <2>2. /\ inbox[i] # <<>> /\ Head(inbox[i]).kind = "DONE" /\ g.pc = "idle"
        /\ inbox' = [inbox EXCEPT ![i] = Tail(inbox[i])]
    BY <2>1, MatchedFacts
  <2>3. Answers(i, o)
    BY <2>1, <2>2, ReceivedAnswers DEF Answers, OrderInfo, LaterNews, Refusals, CancelRefusals
  <2> HIDE DEF o
  <2>4. info'[i] = o /\ \A j \in Ids : j # i => info'[j] = info[j]
    BY <1>0, <2>1
  <2> QED
    BY <1>0, <2>1, <2>2, <2>3, <2>4 DEF Handles
<1>3. CASE OnOrderCancel(i) \/ OnOrderChange(i)
  <2>1. PICK kind \in {"CANCEL_NOTICE", "UNKNOWN"}, stage \in {"CANCELLED", "FAILED"} :
          /\ Deliver(i, {kind}) /\ mt' = mt /\ g' = g
          /\ info' = [info EXCEPT ![i].stage = stage]
    BY <1>3 DEF OnOrderCancel, OnOrderChange, Matched
  <2> DEFINE o == [info[i] EXCEPT !.stage = stage]
  <2>2. inbox[i] # <<>> /\ Head(inbox[i]).kind = kind /\ g.pc = "idle"
    BY <2>1, MatchedFacts
  <2>3. /\ o.size = info[i].size /\ o.stage = stage /\ o.fill_size = info[i].fill_size
        /\ o.is_acknowledged = info[i].is_acknowledged
        /\ o.cancel_stage = info[i].cancel_stage
        /\ info' = [info EXCEPT ![i] = o]
    BY <1>0, <2>1 DEF OrderInfo
  <2> HIDE DEF o
  <2>4. Answers(i, o)
    BY <2>1, <2>2, <2>3 DEF Answers, LaterNews, Refusals, CancelRefusals
  <2> QED
    BY <1>0, <2>1, <2>3, <2>4, RecordHandles
<1> QED
  BY <1>1, <1>2, <1>3

LEMMA CallbackHandles ==
  ASSUME IInv, NEW i \in Ids, Callback(i)  PROVE Handles(i)
BY QuietHandles, AnswerHandles, ProgressHandles DEF Callback

(* The end of a callback: it confirms the answer it has given, and wakes   *)
(* whoever sleeps, under mt.                                               *)
Finishes ==
  /\ UNCHANGED exchangeVars /\ g.id \in Ids
  /\ \A j \in Ids :
       /\ info'[j].stage = info[j].stage
       /\ info'[j].size = info[j].size
       /\ info'[j].fill_size = info[j].fill_size
       /\ info'[j].openSize = info[j].openSize
       /\ Settled(j)' => Settled(j)
  /\ \/ /\ g.pc = "ack" /\ g' = [g EXCEPT !.pc = "notify"] /\ t' = t /\ mt' = mt
        /\ \A j \in Ids : j # g.id => info'[j] = info[j]
     \/ /\ g.pc = "count" /\ g' = GatewayIdle /\ t' = t /\ mt' = Nobody
        /\ info' = info
     \/ /\ mt = Nobody /\ g' = GatewayIdle /\ t' = Wake(t) /\ mt' = mt

LEMMA FinishFinishes ==
  ASSUME IInv, FinishCallback  PROVE Finishes
<1>1. /\ g \in GatewayLocal /\ info \in [Ids -> OrderInfo]
      /\ g.pc # "idle" => g.id \in Ids
  BY DEF IInv, TypeOK, ActorsInv, GatewayLocal, Ids
<1>2. GatewayIdle.pc = "idle"
  BY DEF GatewayIdle
<1>3. CASE OnNewAcknowledge
  <2>1. /\ UNCHANGED exchangeVars /\ t' = t /\ mt' = mt
        /\ g.pc = "ack" /\ g' = [g EXCEPT !.pc = "notify"] /\ g.id \in Ids
        /\ info' = [info EXCEPT ![g.id].is_acknowledged = TRUE]
    BY <1>1, <1>3 DEF OnNewAcknowledge
  <2>2. /\ \A j \in Ids : j # g.id => info'[j] = info[j]
        /\ info'[g.id] = [info[g.id] EXCEPT !.is_acknowledged = TRUE]
        /\ info[g.id] \in OrderInfo /\ g'.pc = "notify"
    BY <1>1, <2>1 DEF GatewayLocal
  <2>3. \A j \in Ids : /\ info'[j].stage = info[j].stage
                       /\ info'[j].size = info[j].size
                       /\ info'[j].fill_size = info[j].fill_size
                       /\ info'[j].openSize = info[j].openSize
                       /\ info'[j].cancel_stage = info[j].cancel_stage
    BY <2>2 DEF OrderInfo
  <2> QED
    BY <2>1, <2>2, <2>3 DEF Finishes, Settled
<1>4. CASE OnNewOrderAcknowledgement
  <2>1. /\ UNCHANGED exchangeVars /\ mt = Nobody /\ g' = GatewayIdle /\ t' = Wake(t)
        /\ mt' = mt /\ info' = info /\ g.id \in Ids
    BY <1>1, <1>4 DEF OnNewOrderAcknowledgement
  <2> QED
    BY <1>2, <2>1 DEF Finishes, Settled
<1>5. CASE OnDoneCount
  <2>1. /\ UNCHANGED exchangeVars /\ g.pc = "count" /\ g' = GatewayIdle /\ t' = t
        /\ mt' = Nobody /\ info' = info /\ g.id \in Ids
    BY <1>1, <1>5 DEF OnDoneCount
  <2> QED
    BY <1>2, <2>1 DEF Finishes, Settled
<1>6. CASE OnOrderCancelCallback
  <2> DEFINE c == IF g.pc = "cancel_done" THEN "DONE" ELSE "FAIL"
  <2>1. /\ UNCHANGED exchangeVars /\ mt = Nobody /\ g' = GatewayIdle /\ t' = Wake(t)
        /\ mt' = mt /\ g.id \in Ids
        /\ info' = [info EXCEPT ![g.id].cancel_stage = c]
    BY <1>1, <1>6 DEF OnOrderCancelCallback
  <2>2. c = "DONE" <=> g.pc = "cancel_done"
    OBVIOUS
  <2> HIDE DEF c
  <2>3. \A j \in Ids : /\ info'[j].stage = info[j].stage
                       /\ info'[j].size = info[j].size
                       /\ info'[j].fill_size = info[j].fill_size
                       /\ info'[j].openSize = info[j].openSize
                       /\ info'[j].cancel_stage = IF j = g.id THEN c ELSE info[j].cancel_stage
    BY <1>1, <2>1 DEF OrderInfo
  <2> QED
    BY <1>2, <2>1, <2>2, <2>3 DEF Finishes, Settled
<1> QED
  BY <1>3, <1>4, <1>5, <1>6 DEF FinishCallback

-----------------------------------------------------------------------------
(* A cancel that is done is final.                                         *)

LEMMA FinalInit ==
  ASSUME Init, NEW i \in Ids  PROVE FinalInv(i)
<1>1. info[i].cancel_stage = "NONE" /\ g.pc = "idle" /\ DOMAIN inbox[i] = {}
  BY EmptySeq, LenProperties DEF Init, ExchangeInit, NewOrder, GatewayIdle
<1> QED
  BY <1>1 DEF FinalInv, Settled

LEMMA FinalUnderThreads ==
  ASSUME IInv, OrdersAnswered, NEW j \in Ids, FinalInv(j)  PROVE FinalInv(j)'
<1>1. CASE SameAnswer(j)
  BY <1>1 DEF FinalInv, Settled, OrdersAnswered, SameAnswer, OnlyRefusals
<1>2. CASE JustSent(j)
  <2>1. inbox[j] = <<>> /\ g.id # j
    BY <1>2, BookFacts DEF JustSent, IInv, ActorsInv, TypeOK, GatewayLocal, Ids
  <2>2. DOMAIN inbox'[j] = {} /\ g' = g
    BY <2>1, EmptySeq, LenProperties DEF OrdersAnswered
  <2> QED
    BY <1>2, <2>1, <2>2 DEF FinalInv, Settled, JustSent
<1> QED
  BY <1>1, <1>2 DEF OrdersAnswered

LEMMA FinalUnderExchange ==
  ASSUME IInv, UNCHANGED accountVars, NEW j \in Ids, Tells(j), FinalInv(j)
  PROVE  FinalInv(j)'
<1>1. info' = info /\ g' = g /\ inbox[j] \in Seq(Event)
  BY BookFacts DEF accountVars
<1>2. Settled(j)' <=> Settled(j)
  BY <1>1 DEF Settled
<1>3. CASE inbox'[j] = inbox[j]
  BY <1>1, <1>2, <1>3, KindFacts DEF FinalInv, Tells, Told, OnlyRefusals
<1>4. ASSUME NEW e \in Event, inbox'[j] = Append(inbox[j], e),
             Told(e.kind, book[j].state, book'[j].state)
      PROVE  FinalInv(j)'
  <2> DEFINE s == inbox[j]  n == Len(s)  r == inbox'[j]
  <2>1. /\ n \in Nat /\ DOMAIN s = 1..n /\ DOMAIN r = 1..(n + 1)
        /\ \A k \in 1..n : r[k] = s[k]
        /\ r[n + 1] = e
    BY <1>1, <1>4, AppendFacts
  <2>2. /\ book[j].state = "cancelled" => e.kind \in Refusals /\ book'[j].state = "cancelled"
        /\ e.kind = "CANCELED" => book'[j].state = "cancelled"
    BY <1>4, KindFacts DEF Told
  <2> HIDE DEF s, n, r
  <2>3. \A k \in 1..(n + 1) : k \in 1..n \/ k = n + 1
    BY <2>1
  <2>4. OnlyRefusals(s) /\ e.kind \in Refusals => OnlyRefusals(r)
    BY <2>1, <2>3 DEF OnlyRefusals
  <2>5. \A k \in DOMAIN r : r[k].kind = "CANCELED" => book'[j].state = "cancelled"
    BY <2>1, <2>2, <2>3 DEF FinalInv, s
  <2> QED
    BY <1>1, <1>2, <2>2, <2>4, <2>5 DEF FinalInv, s, r
<1> QED
  BY <1>3, <1>4 DEF Tells

(* What is left of an order by the event that is read next.                *)
LEMMA NextEvent ==
  ASSUME IInv, NEW i \in Ids, inbox[i] # <<>>
  PROVE  LET e == Head(inbox[i])  r == Tail(inbox[i]) IN
         /\ inbox[i] \in Seq(Event) /\ e \in Event
         /\ 1 \in DOMAIN inbox[i] /\ e = inbox[i][1]
         /\ \A k \in DOMAIN r : k + 1 \in DOMAIN inbox[i] /\ r[k] = inbox[i][k + 1] /\ k \in Nat \ {0}
         /\ DOMAIN inbox[i] \subseteq Nat \ {0}
         /\ \A k \in DOMAIN inbox[i] : k # 1 => k - 1 \in DOMAIN r /\ r[k - 1] = inbox[i][k]
         /\ e.kind \in Refusals /\ book[i].state # "none" =>
              e.openSize = info[i].size - info[i].fill_size
         /\ e.kind = "CANCELED" => /\ e.openSize = info[i].size - info[i].fill_size
                                   /\ OnlyRefusals(r)
         /\ e.kind \notin Refusals => i \in order_hash
<1> DEFINE s == inbox[i]  e == Head(s)  r == Tail(s)
<1>1. /\ s \in Seq(Event) /\ info[i] \in OrderInfo /\ OrderInv(i)
      /\ next \in Nat
  BY BookFacts
<1>2. /\ Len(s) \in Nat \ {0} /\ DOMAIN s = 1..Len(s) /\ DOMAIN r = 1..(Len(s) - 1)
      /\ e \in Event /\ e = s[1]
      /\ \A k \in 1..(Len(s) - 1) : r[k] = s[k + 1]
  BY <1>1, TailFacts
<1>3. /\ e.kind # "FILL" => e.size = 0
      /\ e.kind \notin Refusals => /\ i \in order_hash
                                   /\ e.openSize = info[i].size - info[i].fill_size - e.size
  BY <1>1, HeadFacts
<1>4. e.kind \in Refusals /\ book[i].state # "none" => e.openSize = info[i].size - info[i].fill_size
  <2> SUFFICES ASSUME e.kind \in Refusals, book[i].state # "none"
               PROVE  e.openSize = info[i].size - info[i].fill_size
    OBVIOUS
  <2>1. e.size = 0 /\ e.openSize \in Nat
    BY <1>2, <1>3, KindFacts DEF Event
  <2>2. s[1].openSize + s[1].size = info[i].size - info[i].fill_size
    BY <1>1, <1>2 DEF OrderInv, Reconciles, LeavesBefore
  <2> QED
    BY <1>2, <2>1, <2>2
<1>5. e.kind = "CANCELED" => e.openSize = info[i].size - info[i].fill_size
  BY <1>1, <1>3, KindFacts, OrderAssumption DEF OrderInfo
<1>6. e.kind = "CANCELED" => OnlyRefusals(r)
  <2>1. \A j, k \in 1..Len(s) : j < k /\ s[j].kind \in Closing => s[k].kind \in Refusals
    BY <1>1, <1>2 DEF OrderInv, ClosedIsLast
  <2>2. ASSUME e.kind = "CANCELED", NEW k \in 1..(Len(s) - 1)  PROVE r[k].kind \in Refusals
    <3>1. k + 1 \in 1..Len(s) /\ 1 \in 1..Len(s) /\ 1 < k + 1
      BY <1>2
    <3> QED
      BY <1>2, <2>1, <2>2, <3>1, KindFacts
  <2> QED
    BY <1>2, <2>2 DEF OnlyRefusals
<1>7. /\ \A k \in DOMAIN r : k + 1 \in DOMAIN s /\ r[k] = s[k + 1] /\ k \in Nat \ {0}
      /\ DOMAIN s \subseteq Nat \ {0} /\ 1 \in DOMAIN s
  BY <1>2
<1>8. \A k \in DOMAIN s : k # 1 => k - 1 \in DOMAIN r /\ r[k - 1] = s[k]
  <2> SUFFICES ASSUME NEW k \in DOMAIN s, k # 1
               PROVE  k - 1 \in DOMAIN r /\ r[k - 1] = s[k]
    OBVIOUS
  <2>1. k - 1 \in 1..(Len(s) - 1) /\ (k - 1) + 1 = k
    BY <1>2
  <2> QED
    BY <1>2, <2>1
<1> QED
  BY <1>1, <1>2, <1>3, <1>4, <1>5, <1>6, <1>7, <1>8

LEMMA FinalUnderCallback ==
  ASSUME IInv, NEW i \in Ids, Handles(i), NEW j \in Ids, FinalInv(j)
  PROVE  FinalInv(j)'
<1> DEFINE e == Head(inbox[i])
<1>1. /\ g.pc = "idle" /\ inbox[i] # <<>> /\ inbox' = [inbox EXCEPT ![i] = Tail(inbox[i])]
      /\ g' = g \/ g'.id = i
      /\ inbox \in [Ids -> Seq(Event)]
  BY BookFacts DEF Handles
<1>2. CASE j # i
  <2>1. info'[j] = info[j] /\ inbox'[j] = inbox[j] /\ book'[j].state = book[j].state
    BY <1>1, <1>2 DEF Handles
  <2>2. Settled(j)' => Settled(j)
    BY <1>1, <1>2, <2>1 DEF Settled
  <2> QED
    BY <2>1, <2>2 DEF FinalInv, OnlyRefusals
<1>3. CASE j = i
  <2> DEFINE r == Tail(inbox[i])
  <2>1. /\ inbox'[i] = r
        /\ \A k \in DOMAIN r : k + 1 \in DOMAIN inbox[i] /\ r[k] = inbox[i][k + 1]
        /\ 1 \in DOMAIN inbox[i] /\ e = inbox[i][1]
    BY <1>1, NextEvent
  <2>2. /\ e.kind \in Refusals /\ book[i].state # "none" =>
             e.openSize = info[i].size - info[i].fill_size
        /\ e.kind = "CANCELED" => /\ e.openSize = info[i].size - info[i].fill_size
                                  /\ OnlyRefusals(r)
    BY <1>1, NextEvent
  <2>3. /\ Answers(i, info'[i])
        /\ book'[i].state = book[i].state \/ e.kind = "THROTTLE"
    BY DEF Handles
  <2>4. g'.pc = "cancel_done" => g'.id = i
    BY <1>1
  <2> HIDE DEF e, r
  <2>5. ASSUME NEW k \in DOMAIN r, r[k].kind = "CANCELED"  PROVE book'[i].state = "cancelled"
    <3>1. book[i].state = "cancelled"
      BY <1>3, <2>1, <2>5 DEF FinalInv
    <3>2. e.kind # "THROTTLE"
      BY <2>1, <3>1, BookFacts DEF OrderInv, ThrottledOnce
    <3> QED
      BY <2>3, <3>1, <3>2
  <2>6. ASSUME Settled(i)'
        PROVE  /\ book'[i].state = "cancelled"
               /\ info'[i].openSize = info'[i].size - info'[i].fill_size
               /\ OnlyRefusals(r)
    <3>1. \/ info[i].cancel_stage = "DONE"
          \/ e.kind = "CANCELED" /\ info'[i].openSize = e.openSize
      BY <2>3, <2>6 DEF Settled, Answers, e
    <3>2. CASE e.kind = "CANCELED" /\ info'[i].openSize = e.openSize
      <4>1. book[i].state = "cancelled"
        BY <1>3, <2>1, <3>2 DEF FinalInv
      <4>2. info'[i].size = info[i].size /\ info'[i].fill_size = info[i].fill_size
        BY <2>3, <3>2 DEF Answers, e
      <4> QED
        BY <2>2, <2>3, <3>2, <4>1, <4>2
    <3>3. CASE info[i].cancel_stage = "DONE"
      <4>1. /\ book[i].state = "cancelled"
            /\ info[i].openSize = info[i].size - info[i].fill_size
            /\ \A k \in DOMAIN inbox[i] : inbox[i][k].kind \in Refusals
        BY <1>3, <3>3 DEF FinalInv, Settled, OnlyRefusals
      <4>2. e.kind \in Refusals /\ OnlyRefusals(r)
        BY <2>1, <4>1 DEF OnlyRefusals
      <4>3. /\ info'[i].size = info[i].size /\ info'[i].fill_size = info[i].fill_size
            /\ info'[i].openSize \in {info[i].openSize, e.openSize}
        BY <2>3, <4>2, KindFacts DEF Answers, e
      <4>4. book'[i].state = "cancelled"
        BY <2>3, <4>1, <4>2, KindFacts
      <4> QED
        BY <2>2, <4>1, <4>2, <4>3, <4>4
    <3> QED
      BY <3>1, <3>2, <3>3
  <2> QED
    BY <1>3, <2>1, <2>5, <2>6 DEF FinalInv
<1> QED
  BY <1>2, <1>3

LEMMA FinalUnderFinish ==
  ASSUME IInv, Finishes, NEW j \in Ids, FinalInv(j)  PROVE FinalInv(j)'
BY DEF Finishes, FinalInv, exchangeVars, OnlyRefusals

-----------------------------------------------------------------------------
(* The mutex.                                                              *)

(* A thread takes mt when it is free, gives it up, or does without it.     *)
Locks(th) ==
  \E l \in Local :
    /\ t' = [t EXCEPT ![th] = l]
    /\ l.pc = "count" => l.wait # "cancel"
    /\ \/ mt' = mt /\ ~Holds(l)
       \/ mt = Nobody /\ mt' = th
       \/ Holds(t[th]) /\ mt' = Nobody /\ ~Holds(l)

LEMMA LocksBy ==
  ASSUME NEW th, NEW l \in Local, t' = [t EXCEPT ![th] = l],
         l.pc = "count" => l.wait # "cancel",
         \/ mt' = mt /\ ~Holds(l)
         \/ mt = Nobody /\ mt' = th
         \/ Holds(t[th]) /\ mt' = Nobody /\ ~Holds(l)
  PROVE  Locks(th)
BY DEF Locks

(* A step that does without mt and leaves the thread where no section is.  *)
LEMMA LocksNot ==
  ASSUME NEW th, NEW l \in Local, t' = [t EXCEPT ![th] = l], mt' = mt,
         l.pc \notin {"block", "count", "store"}
  PROVE  Locks(th)
BY LocksBy DEF Holds

LEMMA ReturnLocksNot ==
  ASSUME IInv, NEW th \in Threads, Return(th),
         mt' = mt \/ (Holds(t[th]) /\ mt' = Nobody)
  PROVE  Locks(th)
<1>1. t[th] \in Local /\ t[th].id < next
  BY DEF IInv, TypeOK, ActorsInv
<1>2. After(t[th]) \in Local /\ After(t[th]).pc \in {"idle", "scan"}
  BY <1>1, ThreadReturns
<1>3. t' = [t EXCEPT ![th] = After(t[th])]
  BY DEF Return, Goto
<1>4. ~Holds(After(t[th])) /\ After(t[th]).pc # "count"
  BY <1>2 DEF Holds
<1> QED
  BY <1>2, <1>3, <1>4, LocksBy

LEMMA WaitLocks ==
  ASSUME IInv, MutexInv, NEW th \in Threads,
         \/ CheckFails(th) \/ Block(th) \/ SpuriousWakeup(th)
         \/ AckFailed(th) \/ AckGranted(th) \/ LiveRead(th) \/ LiveWrite(th)
         \/ CancelDone(th) \/ CancelAll(th)
  PROVE  Locks(th)
<1>0. t[th] \in Local /\ {"check", "block", "asleep", "count", "store"} \subseteq PCs
  BY DEF PCs, IInv, TypeOK
<1>1. ASSUME NEW pc \in PCs, t' = [t EXCEPT ![th] = [t[th] EXCEPT !.pc = pc]],
             pc = "count" => t[th].wait # "cancel",
             \/ mt' = mt /\ pc \notin {"block", "store"}
             \/ mt = Nobody /\ mt' = th
             \/ Holds(t[th]) /\ mt' = Nobody /\ pc \notin {"block", "store"}
      PROVE  Locks(th)
  <2> DEFINE l == [t[th] EXCEPT !.pc = pc]
  <2>1. l \in Local /\ l.pc = pc /\ l.wait = t[th].wait /\ t' = [t EXCEPT ![th] = l]
    BY <1>0, <1>1 DEF Local
  <2> HIDE DEF l
  <2> QED
    BY <1>1, <2>1, LocksBy DEF Holds
<1>2. CASE CheckFails(th)
  BY <1>0, <1>1, <1>2 DEF CheckFails, Goto
<1>3. CASE Block(th)
  BY <1>0, <1>1, <1>3 DEF Block, Goto, Holds
<1>4. CASE SpuriousWakeup(th)
  BY <1>0, <1>1, <1>4 DEF SpuriousWakeup, Goto
<1>5. CASE AckFailed(th)
  BY <1>5, ReturnLocksNot DEF AckFailed
<1>6. CASE AckGranted(th)
  <2>1. mt' = mt /\ t[th].wait # "cancel"
    BY <1>6 DEF AckGranted
  <2>2. Return(th) \/ t' = [t EXCEPT ![th] = [t[th] EXCEPT !.pc = "count"]]
    BY <1>6 DEF AckGranted, Goto
  <2> QED
    BY <1>0, <1>1, <2>1, <2>2, ReturnLocksNot
<1>7. CASE LiveWrite(th)
  BY <1>7, ReturnLocksNot DEF LiveWrite, Holds
<1>8. CASE LiveRead(th) \/ CancelDone(th)
  <2> DEFINE v == live[LiveOf(info[t[th].id].side)]
             l == [t[th] EXCEPT !.pc = "store", !.tmp = v]
  <2>1. v \in Int
    BY DEF IInv, TypeOK, LiveOf
  <2>2. t' = [t EXCEPT ![th] = l]
    BY <1>8 DEF LiveRead, CancelDone, Goto
  <2> HIDE DEF v
  <2>3. l \in Local /\ l.pc = "store" /\ l.wait = t[th].wait
    BY <1>0, <2>1 DEF Local
  <2> HIDE DEF l
  <2>4. \/ mt' = mt /\ t[th].wait # "cancel"
        \/ mt = Nobody /\ mt' = th
    BY <1>8 DEF LiveRead, CancelDone, MutexInv
  <2> QED
    BY <2>2, <2>3, <2>4, LocksBy DEF Holds
<1>9. CASE CancelAll(th)
  <2>1. Scanning(0) \in Local /\ Scanning(0).pc = "scan"
    BY ScanningLocal
  <2> QED
    BY <1>9, <2>1, LocksNot DEF CancelAll, Goto
<1> QED
  BY <1>2, <1>3, <1>4, <1>5, <1>6, <1>7, <1>8, <1>9

(* A thread that is idle and does not move.                                *)
LEMMA StaysUnlocked ==
  ASSUME IInv, NEW th \in Threads, t[th].pc = "idle", t' = t, mt' = mt
  PROVE  Locks(th)
<1>1. t[th] \in Local /\ t' = [t EXCEPT ![th] = t[th]]
  BY DEF IInv, TypeOK
<1> QED
  BY <1>1, LocksNot

LEMMA SendLocks ==
  ASSUME IInv, NEW th \in Threads, NEW side, NEW fn, NEW size, NEW local \in Local,
         t[th].pc = "idle", Send(th, side, fn, size, local)
  PROVE  Locks(th)
<1> DEFINE l == [local EXCEPT !.pc = "check", !.wait = "ack", !.id = next]
<1>1. next \in Ids /\ mt' = mt
  BY DEF Send
<1>2. l \in Local /\ l.pc = "check"
  BY <1>1 DEF Local, PCs, Waits
<1>3. t' = [t EXCEPT ![th] = l] \/ t' = [t EXCEPT ![th] = Idle]
  BY DEF Send, Goto
<1> HIDE DEF l
<1> QED
  BY <1>1, <1>2, <1>3, IdleFacts, LocksNot

LEMMA ChangeLocks ==
  ASSUME IInv, NEW th \in Threads, NEW i \in Ids, NEW n, Change(th, i, n)
  PROVE  Locks(th)
<1> DEFINE w == IF n = 0 THEN "reprice" ELSE "resize"
           l == [Idle EXCEPT !.pc = "check", !.id = next, !.orig = i, !.wait = w]
<1>1. mt' = mt /\ t[th].pc = "idle"
  BY DEF Change
<1>2. t' = t \/ (next \in Ids /\ t' = [t EXCEPT ![th] = l])
  BY DEF Change, Goto
<1>3. w \in Waits
  BY DEF Waits
<1> HIDE DEF w
<1>4. next \in Ids => l \in Local /\ l.pc = "check"
  BY <1>3, IdleFacts DEF Local, PCs
<1> HIDE DEF l
<1> QED
  BY <1>1, <1>2, <1>4, LocksNot, StaysUnlocked

LEMMA BeginCancelLocks ==
  ASSUME IInv, NEW th \in Threads, NEW i \in Ids, NEW local \in Local,
         BeginCancel(th, i, local), mt' = mt, i < next
  PROVE  Locks(th)
<1> DEFINE m == [local EXCEPT !.pc = "mark_cancel", !.id = i]
           l == [local EXCEPT !.id = i]
<1>1. m \in Local /\ m.pc = "mark_cancel" /\ l \in Local /\ l.id = i
  BY DEF Local, PCs
<1>2. t' = [t EXCEPT ![th] = m] \/ t' = [t EXCEPT ![th] = After(l)]
  BY DEF BeginCancel, Goto
<1> HIDE DEF m, l
<1>3. After(l) \in Local /\ After(l).pc \in {"idle", "scan"}
  BY <1>1, ThreadReturns
<1> QED
  BY <1>1, <1>2, <1>3, LocksNot

LEMMA CancelLocks ==
  ASSUME IInv, NEW th \in Threads,
         \/ \E i \in Ids : Cancel(th, i)
         \/ MarkCancel(th) \/ SendCancel(th) \/ CancelFailed(th) \/ Scan(th)
  PROVE  Locks(th)
<1>0. t[th] \in Local /\ {"send_cancel", "check", "scan"} \subseteq PCs /\ "cancel" \in Waits
  BY DEF PCs, Waits, IInv, TypeOK
<1>1. mt' = mt
  BY DEF Cancel, MarkCancel, SendCancel, CancelFailed, Scan
<1>2. ASSUME NEW i \in Ids, Cancel(th, i)  PROVE Locks(th)
  BY <1>1, <1>2, IdleFacts, LocalFacts, BeginCancelLocks DEF Cancel
<1>3. CASE MarkCancel(th)
  <2> DEFINE l == [t[th] EXCEPT !.pc = "send_cancel"]
  <2>1. l \in Local /\ l.pc = "send_cancel" /\ t' = [t EXCEPT ![th] = l]
    BY <1>0, <1>3 DEF MarkCancel, Goto, Local
  <2> HIDE DEF l
  <2> QED
    BY <1>1, <2>1, LocksNot
<1>4. CASE SendCancel(th)
  <2> DEFINE l == [t[th] EXCEPT !.pc = "check", !.wait = "cancel"]
  <2>1. l \in Local /\ l.pc = "check"
    BY <1>0 DEF Local
  <2>2. t' = [t EXCEPT ![th] = l] \/ Return(th)
    BY <1>4 DEF SendCancel, Goto
  <2> HIDE DEF l
  <2> QED
    BY <1>1, <2>1, <2>2, LocksNot, ReturnLocksNot
<1>5. CASE CancelFailed(th)
  BY <1>1, <1>5, ReturnLocksNot DEF CancelFailed
<1>6. CASE Scan(th)
  <2>1. ASSUME NEW i \in orders, BeginCancel(th, i, t[th])  PROVE Locks(th)
    BY <1>0, <1>1, <2>1, LocalFacts, BeginCancelLocks
  <2>2. ASSUME NEW i \in orders, Goto(th, [t[th] EXCEPT !.id = i])  PROVE Locks(th)
    <3> DEFINE l == [t[th] EXCEPT !.id = i]
    <3>1. i \in Ids
      BY LocalFacts
    <3>2. l \in Local /\ l.pc = "scan" /\ t' = [t EXCEPT ![th] = l]
      BY <1>0, <1>6, <2>2, <3>1 DEF Scan, Goto, Local
    <3> HIDE DEF l
    <3> QED
      BY <1>1, <3>2, LocksNot
  <2>3. ASSUME Goto(th, Idle)  PROVE Locks(th)
    BY <1>1, <2>3, IdleFacts, LocksNot DEF Goto
  <2> QED
    BY <1>6, <2>1, <2>2, <2>3 DEF Scan
<1> QED
  BY <1>2, <1>3, <1>4, <1>5, <1>6

LEMMA ThreadLocks ==
  ASSUME IInv, MutexInv, NEW th \in Threads, ThreadStep(th)  PROVE Locks(th)
<1>1. ASSUME NEW n \in Sizes, Open(th, n) \/ Close(th, n)  PROVE Locks(th)
  BY <1>1, IdleFacts, SendLocks DEF Open, Close
<1>2. ASSUME NEW n \in Sizes, ClosePending(th, n)  PROVE Locks(th)
  BY <1>2, StaysUnlocked DEF ClosePending
<1>3. CASE SendPendingOrders(th)
  <2> DEFINE l == [Idle EXCEPT !.pend = TRUE]
  <2>1. l \in Local
    BY IdleFacts DEF Local
  <2>2. Send(th, CloseSide, "onCloseFill", Head(pending), l) /\ t[th].pc = "idle"
    BY <1>3 DEF SendPendingOrders
  <2> HIDE DEF l
  <2> QED
    BY <2>1, <2>2, SendLocks
<1> QED
  BY <1>1, <1>2, <1>3, ChangeLocks, CancelLocks, WaitLocks DEF ThreadStep, Proceed

(* Waking moves sleepers only, and only to their predicate.                *)
LEMMA Wakes ==
  ASSUME IInv, t' = Wake(t), NEW th \in Threads
  PROVE  /\ t[th].pc # "asleep" => t'[th] = t[th]
         /\ t[th].pc = "asleep" => t'[th].pc = "check"
<1>1. t[th] \in Local
  BY DEF IInv, TypeOK
<1> QED
  BY <1>1 DEF Wake, Local

LEMMA MutexUnderThreads ==
  ASSUME IInv, MutexInv, NEW th \in Threads, Locks(th), g' = g  PROVE MutexInv'
<1>1. t \in [Threads -> Local] /\ Gateway \notin Threads /\ Nobody \notin Threads
  BY ThreadAssumption DEF IInv, TypeOK
<1>2. PICK l \in Local :
        /\ t' = [t EXCEPT ![th] = l]
        /\ l.pc = "count" => l.wait # "cancel"
        /\ \/ mt' = mt /\ ~Holds(l)
           \/ mt = Nobody /\ mt' = th
           \/ Holds(t[th]) /\ mt' = Nobody /\ ~Holds(l)
  BY DEF Locks
<1>3. t'[th] = l /\ \A u \in Threads : u # th => t'[u] = t[u]
  BY <1>1, <1>2
<1>4. g.pc = "count" => mt' = Gateway
  BY <1>1, <1>2, ThreadAssumption DEF MutexInv
<1>5. ASSUME NEW u \in Threads
      PROVE  /\ Holds(t'[u]) => mt' = u
             /\ t'[u].pc = "count" => t'[u].wait # "cancel"
  <2>1. CASE u = th
    BY <1>2, <1>3, <2>1
  <2>2. CASE u # th
    BY <1>1, <1>2, <1>3, <2>2 DEF MutexInv
  <2> QED
    BY <2>1, <2>2
<1> QED
  BY <1>4, <1>5 DEF MutexInv, Holds

LEMMA MutexUnderCallback ==
  ASSUME IInv, MutexInv, NEW i \in Ids, Handles(i)  PROVE MutexInv'
<1>1. /\ t' = t /\ g.pc = "idle" /\ mt \in Threads \cup {Gateway, Nobody}
      /\ Nobody \notin Threads
      /\ IF g'.pc = "count" THEN mt = Nobody /\ mt' = Gateway ELSE mt' = mt
  BY ThreadAssumption DEF Handles, IInv, TypeOK
<1> QED
  BY <1>1 DEF MutexInv, Holds

LEMMA MutexUnderFinish ==
  ASSUME IInv, MutexInv, Finishes  PROVE MutexInv'
<1>1. Gateway \notin Threads /\ Nobody \notin Threads /\ g \in GatewayLocal
  BY ThreadAssumption DEF IInv, TypeOK
<1>2. GatewayIdle.pc = "idle"
  BY DEF GatewayIdle
<1>3. CASE g.pc = "ack" /\ g' = [g EXCEPT !.pc = "notify"] /\ t' = t /\ mt' = mt
  <2>1. g'.pc = "notify"
    BY <1>1, <1>3 DEF GatewayLocal
  <2> QED
    BY <1>3, <2>1 DEF MutexInv, Holds
<1>4. CASE g.pc = "count" /\ g' = GatewayIdle /\ t' = t /\ mt' = Nobody
  BY <1>1, <1>2, <1>4 DEF MutexInv, Holds
<1>5. CASE mt = Nobody /\ g' = GatewayIdle /\ t' = Wake(t) /\ mt' = mt
  <2>1. ASSUME NEW u \in Threads
        PROVE  /\ ~Holds(t'[u])
               /\ t'[u].pc = "count" => t'[u].wait # "cancel"
    <3>1. ~Holds(t[u]) /\ (t[u].pc = "count" => t[u].wait # "cancel")
      BY <1>1, <1>5 DEF MutexInv
    <3> QED
      BY <1>5, <3>1, Wakes DEF Holds
  <2> QED
    BY <1>2, <1>5, <2>1 DEF MutexInv, Holds
<1> QED
  BY <1>3, <1>4, <1>5 DEF Finishes

-----------------------------------------------------------------------------
(* The acceptance of an order is told before what follows it.              *)

LEMMA AckInit ==
  ASSUME Init, NEW i \in Ids  PROVE AckInv(i)
<1>1. DOMAIN inbox[i] = {} /\ book[i].state = "none"
  BY EmptySeq, LenProperties DEF Init, ExchangeInit, NoEntry
<1> QED
  BY <1>1 DEF AckInv, Accepted

LEMMA AckUnderThreads ==
  ASSUME IInv, OrdersAnswered, NEW j \in Ids, AckInv(j)  PROVE AckInv(j)'
<1>1. CASE SameAnswer(j)
  BY <1>1 DEF AckInv, OrdersAnswered, SameAnswer, IsNew
<1>2. CASE JustSent(j)
  <2>1. inbox[j] = <<>>
    BY <1>2, BookFacts DEF JustSent
  <2>2. DOMAIN inbox'[j] = {}
    BY <2>1, EmptySeq, LenProperties DEF OrdersAnswered
  <2> QED
    BY <1>2, <2>2 DEF AckInv, JustSent, Accepted
<1> QED
  BY <1>1, <1>2 DEF OrdersAnswered

LEMMA AckUnderExchange ==
  ASSUME IInv, NoUnknown, UNCHANGED accountVars, NEW j \in Ids, Tells(j), AckInv(j)
  PROVE  AckInv(j)'
<1>1. info' = info /\ inbox[j] \in Seq(Event)
  BY BookFacts DEF accountVars
<1>2. CASE inbox'[j] = inbox[j] /\ (book'[j].state = book[j].state \/ book'[j].state = "rejected")
  BY <1>1, <1>2 DEF AckInv, IsNew, Accepted
<1>3. ASSUME NEW e \in Event, inbox'[j] = Append(inbox[j], e),
             Told(e.kind, book[j].state, book'[j].state)
      PROVE  AckInv(j)'
  <2> DEFINE s == inbox[j]  n == Len(s)  r == inbox'[j]
  <2>1. /\ n \in Nat /\ DOMAIN s = 1..n /\ DOMAIN r = 1..(n + 1)
        /\ \A k \in 1..n : r[k] = s[k]
        /\ r[n + 1] = e
    BY <1>1, <1>3, AppendFacts
  <2>2. /\ e.kind # "UNKNOWN"
        /\ e.kind \in LaterNews => book[j].state \in Accepted
        /\ book'[j].state \in Accepted => e.kind = "NEW" \/ book[j].state \in Accepted
    BY <1>3, KindFacts DEF Told, LaterNews, Accepted
  <2>3. AckInv(j)
    OBVIOUS
  <2> HIDE DEF n, s, r
  <2>4. \A k \in 1..(n + 1) : k = n + 1 \/ (k \in 1..n /\ k # n + 1)
    BY <2>1
  <2>5. /\ \A k \in 1..n : k \in 1..(n + 1) /\ k < n + 1
        /\ n + 1 \in 1..(n + 1)
    BY <2>1
  <2>6. ASSUME NEW k \in DOMAIN r
        PROVE  /\ r[k].kind # "UNKNOWN"
               /\ r[k].kind \in LaterNews /\ info'[j].stage = "SENT" =>
                    \E l \in DOMAIN r : l < k /\ IsNew(r[l])
    <3>1. CASE k \in 1..n
      BY <1>1, <2>1, <2>3, <2>5, <3>1 DEF AckInv, IsNew, s
    <3>2. CASE k = n + 1
      BY <1>1, <2>1, <2>2, <2>3, <2>5, <3>2 DEF AckInv, IsNew, s
    <3> QED
      BY <2>1, <2>4, <3>1, <3>2
  <2>7. book'[j].state \in Accepted /\ info'[j].stage = "SENT" =>
          \E l \in DOMAIN r : IsNew(r[l])
    BY <1>1, <2>1, <2>2, <2>3, <2>5 DEF AckInv, IsNew, s
  <2> QED
    BY <2>6, <2>7 DEF AckInv, IsNew, r
<1> QED
  BY <1>2, <1>3 DEF Tells

LEMMA AckUnderCallback ==
  ASSUME IInv, NEW i \in Ids, Handles(i), NEW j \in Ids, AckInv(j)
  PROVE  AckInv(j)'
<1> DEFINE e == Head(inbox[i])  r == Tail(inbox[i])
<1>1. /\ inbox[i] # <<>> /\ inbox' = [inbox EXCEPT ![i] = r]
      /\ inbox \in [Ids -> Seq(Event)]
  BY BookFacts DEF Handles
<1>2. CASE j # i
  <2>1. info'[j] = info[j] /\ inbox'[j] = inbox[j] /\ book'[j].state = book[j].state
    BY <1>1, <1>2 DEF Handles
  <2> QED
    BY <2>1 DEF AckInv, IsNew
<1>3. CASE j = i
  <2>1. inbox'[i] = r /\ e = inbox[i][1] /\ DOMAIN inbox[i] \subseteq Nat \ {0}
    BY <1>1, NextEvent
  <2>2. \A k \in DOMAIN r : k + 1 \in DOMAIN inbox[i] /\ r[k] = inbox[i][k + 1] /\ k \in Nat \ {0}
    BY <1>1, NextEvent
  <2>3. \A k \in DOMAIN inbox[i] : k # 1 => k - 1 \in DOMAIN r /\ r[k - 1] = inbox[i][k]
    BY <1>1, NextEvent
  <2>4. /\ info'[i].stage = "SENT" => info[i].stage = "SENT" /\ ~IsNew(e)
        /\ book'[i].state = book[i].state \/ book'[i].state = "posted"
    BY DEF Handles, Answers, IsNew
  <2>5. AckInv(i)
    BY <1>3
  <2> HIDE DEF e, r
  <2>6. ASSUME NEW k \in DOMAIN r
        PROVE  /\ r[k].kind # "UNKNOWN"
               /\ r[k].kind \in LaterNews /\ info'[i].stage = "SENT" =>
                    \E l \in DOMAIN r : l < k /\ IsNew(r[l])
    <3>1. r[k].kind # "UNKNOWN"
      BY <2>2, <2>5 DEF AckInv
    <3>2. ASSUME r[k].kind \in LaterNews, info'[i].stage = "SENT"
          PROVE  \E l \in DOMAIN r : l < k /\ IsNew(r[l])
      <4>1. PICK l \in DOMAIN inbox[i] : l < k + 1 /\ IsNew(inbox[i][l])
        BY <2>2, <2>4, <2>5, <3>2 DEF AckInv
      <4>2. l # 1 /\ l \in Nat /\ k \in Nat
        BY <2>1, <2>2, <2>4, <3>2, <4>1
      <4>3. l - 1 \in DOMAIN r /\ r[l - 1] = inbox[i][l] /\ l - 1 < k
        BY <2>3, <4>1, <4>2
      <4> QED
        BY <4>1, <4>3
    <3> QED
      BY <3>1, <3>2
  <2>7. ASSUME book'[i].state \in Accepted, info'[i].stage = "SENT"
        PROVE  \E l \in DOMAIN r : IsNew(r[l])
    <3>1. PICK l \in DOMAIN inbox[i] : IsNew(inbox[i][l])
      BY <2>4, <2>5, <2>7 DEF AckInv, Accepted
    <3>2. l # 1
      BY <2>1, <2>4, <2>7, <3>1
    <3> QED
      BY <2>3, <3>1, <3>2
  <2> QED
    BY <1>3, <2>1, <2>6, <2>7 DEF AckInv, IsNew
<1> QED
  BY <1>2, <1>3

LEMMA AckUnderFinish ==
  ASSUME IInv, Finishes, NEW j \in Ids, AckInv(j)  PROVE AckInv(j)'
BY DEF Finishes, AckInv, exchangeVars, IsNew

-----------------------------------------------------------------------------
(* Nobody sleeps through an answer.                                        *)

Dozes(u) == t[u].pc \in {"block", "asleep"}

LEMMA DozersHaveOrders ==
  ASSUME IInv, NEW u \in Threads, Dozes(u)
  PROVE  t[u].id \in Ids /\ t[u].id # next
BY LocalFacts DEF Dozes

LEMMA NoticeInit == Init => NoticeInv
BY IdleFacts DEF Init, NoticeInv

(* An answer is a matter of the order and of what is waited for.           *)
LEMMA SameWait ==
  ASSUME NEW u \in Threads, t'[u].wait = t[u].wait, t'[u].id = t[u].id,
         info'[t[u].id] = info[t[u].id]
  PROVE  Answered(u)' <=> Answered(u)
BY DEF Answered

LEMMA SameAnswered ==
  ASSUME NEW u \in Threads, t'[u] = t[u], SameAnswer(t[u].id), Answered(u)'
  PROVE  Answered(u)
BY DEF Answered, SameAnswer, IsAcknowledged

LEMMA NoticeUnderThreads ==
  ASSUME IInv, NoticeInv, NEW th \in Threads, OrdersAnswered, Moved(th)
  PROVE  NoticeInv'
<1>1. t \in [Threads -> Local]
  BY DEF IInv, TypeOK
<1>2. PICK l \in Local : t' = [t EXCEPT ![th] = l] /\ Sleepy(th, l)
  BY DEF Moved
<1>3. t'[th] = l /\ \A u \in Threads : u # th => t'[u] = t[u]
  BY <1>1, <1>2
<1>4. SUFFICES ASSUME NEW u \in Threads, t'[u].pc \in {"block", "asleep"}, Answered(u)'
               PROVE  Notifying(t[u].id)'
  BY DEF NoticeInv
<1>5. CASE u # th
  <2>1. t'[u] = t[u] /\ t[u].pc \in {"block", "asleep"}
    BY <1>3, <1>4, <1>5
  <2>2. SameAnswer(t[u].id)
    BY <2>1, DozersHaveOrders DEF OrdersAnswered, JustSent, Dozes
  <2>3. Answered(u)
    BY <1>4, <2>1, <2>2, SameAnswered
  <2> QED
    BY <2>1, <2>3 DEF NoticeInv, OrdersAnswered, Notifying
<1>6. CASE u = th
  <2>1. info' = info /\ l.wait = t[th].wait /\ l.id = t[th].id
    BY <1>2, <1>3, <1>4, <1>6 DEF Sleepy
  <2>2. Answered(th)
    BY <1>3, <1>4, <1>6, <2>1, SameWait
  <2>3. t[th].pc = "block"
    BY <1>2, <1>3, <1>4, <1>6, <2>2 DEF Sleepy
  <2> QED
    BY <1>3, <1>6, <2>1, <2>2, <2>3 DEF NoticeInv, OrdersAnswered, Notifying
<1> QED
  BY <1>5, <1>6

LEMMA NoticeUnderExchange ==
  ASSUME NoticeInv, UNCHANGED accountVars  PROVE NoticeInv'
BY DEF NoticeInv, accountVars, Answered, Notifying

LEMMA NoticeUnderCallback ==
  ASSUME IInv, NoticeInv, NEW i \in Ids, Handles(i), AckInv(i)
  PROVE  NoticeInv'
<1> DEFINE e == Head(inbox[i])
<1>1. /\ g.pc = "idle" /\ inbox[i] # <<>> /\ t' = t /\ Answers(i, info'[i])
      /\ \A j \in Ids : j # i => info'[j] = info[j]
  BY DEF Handles
<1>2. SUFFICES ASSUME NEW u \in Threads, Dozes(u), Answered(u)'
               PROVE  Notifying(t[u].id)'
  BY <1>1 DEF NoticeInv, Dozes
<1>3. ~Answered(u)
  BY <1>1, <1>2 DEF NoticeInv, Dozes, Notifying
<1>4. t[u].id = i
  BY <1>1, <1>2, <1>3, DozersHaveOrders, SameWait
<1>5. CASE t[u].wait = "cancel"
  <2>1. info'[i].cancel_stage # info[i].cancel_stage
    BY <1>1, <1>2, <1>3, <1>4, <1>5 DEF Answered
  <2> QED
    BY <1>1, <1>4, <2>1 DEF Answers
<1>6. CASE t[u].wait # "cancel"
  <2>1. ~IsAcknowledged(info[i]) /\ IsAcknowledged(info'[i])
    BY <1>1, <1>2, <1>3, <1>4, <1>6 DEF Answered
  <2>2. info[i].stage = "SENT" /\ info'[i].stage # "SENT"
    BY <1>1, <2>1 DEF IsAcknowledged, Answers
  <2>3. e.kind \notin LaterNews \cup {"UNKNOWN"}
    <3>1. 1 \in DOMAIN inbox[i] /\ e = inbox[i][1] /\ DOMAIN inbox[i] \subseteq Nat \ {0}
      BY <1>1, NextEvent
    <3> HIDE DEF e
    <3>2. ~ \E j \in DOMAIN inbox[i] : j < 1
      BY <3>1
    <3> QED
      BY <2>2, <3>1, <3>2 DEF AckInv
  <2> QED
    BY <1>1, <1>4, <2>2, <2>3 DEF Answers
<1> QED
  BY <1>5, <1>6

LEMMA NoticeUnderFinish ==
  ASSUME IInv, MutexInv, NoticeInv, Finishes  PROVE NoticeInv'
<1>1. CASE /\ g.pc = "ack" /\ g' = [g EXCEPT !.pc = "notify"] /\ t' = t
           /\ \A j \in Ids : j # g.id => info'[j] = info[j]
  <2>1. g'.pc = "notify" /\ g'.id = g.id
    BY <1>1 DEF IInv, TypeOK, GatewayLocal
  <2>2. SUFFICES ASSUME NEW u \in Threads, Dozes(u), Answered(u)'
                 PROVE  t[u].id = g.id
    BY <1>1, <2>1 DEF NoticeInv, Dozes, Notifying
  <2>3. CASE Answered(u)
    BY <2>2, <2>3 DEF NoticeInv, Notifying, Dozes
  <2>4. CASE ~Answered(u)
    BY <1>1, <2>2, <2>4, DozersHaveOrders, SameWait
  <2> QED
    BY <2>3, <2>4
<1>2. CASE g.pc = "count" /\ t' = t /\ info' = info
  BY <1>2 DEF NoticeInv, Notifying, Answered
<1>3. CASE mt = Nobody /\ t' = Wake(t)
  <2>1. ASSUME NEW u \in Threads  PROVE t'[u].pc \notin {"block", "asleep"}
    <3>1. t[u].pc # "block"
      BY <1>3, ThreadAssumption DEF MutexInv, Holds
    <3> QED
      BY <1>3, <3>1, Wakes
  <2> QED
    BY <2>1 DEF NoticeInv
<1> QED
  BY <1>1, <1>2, <1>3 DEF Finishes

-----------------------------------------------------------------------------
(* The invariant.                                                          *)

LEMMA AnswersInit == Init => AnswersInv
<1>1. Init => MutexInv
  BY IdleFacts DEF Init, MutexInv, Holds, GatewayIdle
<1> QED
  BY <1>1, InitInv, NoticeInit, AckInit, FinalInit DEF AnswersInv

(* What every kind of step leaves of it, given that IInv holds after it.   *)
LEMMA ThreadKeepsAnswers ==
  ASSUME AnswersInv, IInv', NEW th \in Threads, ThreadStep(th)  PROVE AnswersInv'
<1>1. OrdersAnswered /\ Moved(th) /\ Locks(th) /\ g' = g
  BY ThreadAnswers, ThreadLocks DEF AnswersInv, OrdersAnswered
<1> QED
  BY <1>1, MutexUnderThreads, FinalUnderThreads, NoticeUnderThreads, AckUnderThreads
  DEF AnswersInv, NoUnknown

LEMMA ExchangeKeepsAnswers ==
  ASSUME AnswersInv, IInv', NEW i \in Ids, ExchangeStep(i), UNCHANGED accountVars
  PROVE  AnswersInv'
<1>1. \A j \in Ids : Tells(j)
  BY ExchangeTells DEF AnswersInv
<1>2. MutexInv'
  BY DEF AnswersInv, MutexInv, Holds, accountVars
<1> QED
  BY <1>1, <1>2, FinalUnderExchange, NoticeUnderExchange, AckUnderExchange
  DEF AnswersInv, NoUnknown

LEMMA CallbackKeepsAnswers ==
  ASSUME AnswersInv, IInv', NEW i \in Ids, Callback(i)  PROVE AnswersInv'
<1>1. Handles(i)
  BY CallbackHandles DEF AnswersInv
<1> QED
  BY <1>1, MutexUnderCallback, FinalUnderCallback, NoticeUnderCallback, AckUnderCallback
  DEF AnswersInv, NoUnknown

LEMMA FinishKeepsAnswers ==
  ASSUME AnswersInv, IInv', FinishCallback  PROVE AnswersInv'
<1>1. Finishes
  BY FinishFinishes DEF AnswersInv
<1> QED
  BY <1>1, MutexUnderFinish, FinalUnderFinish, NoticeUnderFinish, AckUnderFinish
  DEF AnswersInv, NoUnknown

LEMMA StutterKeepsAnswers ==
  ASSUME AnswersInv, IInv', UNCHANGED vars  PROVE AnswersInv'
<1>1. UNCHANGED <<book, inbox, info, mt, t, g>>
  BY DEF vars, exchangeVars, accountVars
<1>2. MutexInv' /\ (NoticeInv => NoticeInv')
  BY <1>1 DEF AnswersInv, MutexInv, Holds, NoticeInv, Notifying, Answered
<1>3. \A i \in Ids : FinalInv(i)' /\ (AckInv(i) => AckInv(i)')
  BY <1>1 DEF AnswersInv, FinalInv, Settled, OnlyRefusals, AckInv, IsNew
<1> QED
  BY <1>2, <1>3 DEF AnswersInv, NoUnknown

LEMMA NextKeepsAnswers == AnswersInv /\ [Next]_vars => AnswersInv'
<1> SUFFICES ASSUME AnswersInv, [Next]_vars  PROVE AnswersInv'
  OBVIOUS
<1>1. IInv'
  BY NextKeeps DEF AnswersInv
<1>2. CASE Trade
  BY <1>1, <1>2, ThreadKeepsAnswers DEF Trade, ThreadStep, Threads
<1>3. CASE Stop
  BY <1>1, <1>3, ThreadKeepsAnswers DEF Stop, ThreadStep, Threads
<1>4. ASSUME NEW th \in Threads, Proceed(th) \/ SpuriousWakeup(th)  PROVE AnswersInv'
  BY <1>1, <1>4, ThreadKeepsAnswers DEF ThreadStep
<1>5. ASSUME NEW i \in Ids, Callback(i)  PROVE AnswersInv'
  BY <1>1, <1>5, CallbackKeepsAnswers
<1>6. CASE FinishCallback
  BY <1>1, <1>6, FinishKeepsAnswers
<1>7. ASSUME NEW i \in Ids, ExchangeStep(i), UNCHANGED accountVars  PROVE AnswersInv'
  BY <1>1, <1>7, ExchangeKeepsAnswers
<1>8. CASE UNCHANGED vars
  BY <1>1, <1>8, StutterKeepsAnswers
<1> QED
  BY <1>2, <1>3, <1>4, <1>5, <1>6, <1>7, <1>8 DEF Next

(* Between any two steps of the threads, the callbacks and the router: one *)
(* thread at a time is inside a section of AbstractTradeAccount::mt; what  *)
(* OnOrder has marked cancelled is cancelled and settled; and the ORDER_   *)
(* PENDING_NEW of an order is read before anything else that moves it.     *)
THEOREM AnswersInvariance == Spec => []AnswersInv
<1>1. Init => AnswersInv
  BY AnswersInit
<1>2. AnswersInv /\ [Next]_vars => AnswersInv'
  BY NextKeepsAnswers
<1> QED
  BY <1>1, <1>2, PTL DEF Spec

(* An order whose cancel is reported DONE is cancelled at the exchange and *)
(* not filled any more, however its fills raced with the cancel: so        *)
(* waitCancelAcknowledgement may take its openSize off the live counter.   *)
THEOREM CancelsAreFinal == Spec => []CancelIsFinal
<1>1. AnswersInv => CancelIsFinal
  <2> SUFFICES ASSUME AnswersInv, NEW i \in Ids, info[i].cancel_stage = "DONE"
               PROVE  /\ book[i].state = "cancelled"
                      /\ info[i].openSize = info[i].size - info[i].fill_size
                      /\ \A k \in DOMAIN inbox[i] : inbox[i][k].kind # "FILL"
    BY DEF CancelIsFinal
  <2>1. FinalInv(i) /\ Settled(i)
    BY DEF AnswersInv, Settled
  <2> QED
    BY <2>1, KindFacts DEF FinalInv, OnlyRefusals
<1> QED
  BY <1>1, AnswersInvariance, PTL

(* No wake-up is lost, however many threads wait: OnOrder writes the stage *)
(* a waiter's predicate reads without mt, but always goes on to lock mt    *)
(* and notify_all.  The exception is OnOrderChange's ORDER_UNKNOWN, which  *)
(* changes the stage and notifies nobody: the gateway must not send it.    *)
THEOREM SleepersAreNotified == NoUnknown => (Spec => []SleeperIsNotified)
<1> SUFFICES ASSUME NoUnknown  PROVE Spec => []SleeperIsNotified
  OBVIOUS
<1>1. AnswersInv => SleeperIsNotified
  BY DEF AnswersInv, NoticeInv, SleeperIsNotified, Notifying
<1> QED
  BY <1>1, AnswersInvariance, PTL

-----------------------------------------------------------------------------
(***************************************************************************)
(* A pending close order is not lost, with the trading thread alone in the *)
(* account.                                                                *)
(***************************************************************************)

OneThread == Stoppers = {}

(* The states of the book before an order is answered.                     *)
Unanswered == {"none", "posted", "throttled", "replacing"}

(* Order i has been accepted, or will be when its inbox is read.           *)
Granted(i) ==
  \/ info[i].is_acknowledged
  \/ g.pc = "ack" /\ g.id = i
  \/ \E k \in DOMAIN inbox[i] : IsNew(inbox[i][k])

(* No refusal follows an acceptance.                                       *)
GrantInv(i) ==
  Granted(i) => /\ book[i].state \notin Unanswered
                /\ \A k \in DOMAIN inbox[i] : inbox[i][k].kind # "REJECTED"

(* sendPendingOrders works on the request at the head of the queue until   *)
(* its order is counted.                                                   *)
PendInv(th) ==
  t[th].pend =>
    /\ t[th].pc \in {"check", "block", "asleep", "count", "store"}
    /\ t[th].wait = "ack"
    /\ pending # <<>> /\ info[t[th].id].size = Head(pending)
    /\ t[th].pc \in {"count", "store"} => info[t[th].id].is_acknowledged

PendingInv ==
  /\ IInv
  /\ \A i \in Ids : GrantInv(i)
  /\ \A th \in Threads : PendInv(th)

-----------------------------------------------------------------------------
(* No refusal follows an acceptance.                                       *)

LEMMA GrantInit ==
  ASSUME Init, NEW i \in Ids  PROVE GrantInv(i)
<1>1. ~info[i].is_acknowledged /\ g.pc = "idle" /\ DOMAIN inbox[i] = {}
  BY EmptySeq, LenProperties DEF Init, ExchangeInit, NewOrder, GatewayIdle
<1> QED
  BY <1>1 DEF GrantInv, Granted

LEMMA GrantUnderThreads ==
  ASSUME IInv, OrdersAnswered, NEW j \in Ids, GrantInv(j)  PROVE GrantInv(j)'
<1>1. CASE SameAnswer(j)
  BY <1>1 DEF GrantInv, Granted, OrdersAnswered, SameAnswer, IsNew
<1>2. CASE JustSent(j)
  <2>1. inbox[j] = <<>> /\ g.id # j
    BY <1>2, BookFacts DEF JustSent, IInv, ActorsInv, TypeOK, GatewayLocal, Ids
  <2>2. DOMAIN inbox'[j] = {} /\ g' = g
    BY <2>1, EmptySeq, LenProperties DEF OrdersAnswered
  <2> QED
    BY <1>2, <2>1, <2>2 DEF GrantInv, Granted, JustSent
<1> QED
  BY <1>1, <1>2 DEF OrdersAnswered

(* An order the exchange works on has not been refused.                    *)
LEMMA GrantUnderExchange ==
  ASSUME IInv, UNCHANGED accountVars, NEW j \in Ids, Tells(j), GrantInv(j)
  PROVE  GrantInv(j)'
<1>1. info' = info /\ g' = g /\ inbox[j] \in Seq(Event)
  BY BookFacts DEF accountVars
<1>2. CASE inbox'[j] = inbox[j]
  <2>1. Granted(j)' <=> Granted(j)
    BY <1>1, <1>2 DEF Granted, IsNew
  <2>2. book[j].state \notin Unanswered => book'[j].state = book[j].state
    BY <1>2 DEF Tells, Unanswered
  <2>3. CASE book[j].state \notin Unanswered
    BY <1>2, <2>1, <2>2, <2>3 DEF GrantInv
  <2>4. CASE book[j].state \in Unanswered
    BY <2>1, <2>4 DEF GrantInv
  <2> QED
    BY <2>3, <2>4
<1>3. ASSUME NEW e \in Event, inbox'[j] = Append(inbox[j], e),
             Told(e.kind, book[j].state, book'[j].state)
      PROVE  GrantInv(j)'
  <2> DEFINE s == inbox[j]  n == Len(s)  r == inbox'[j]
  <2>1. /\ n \in Nat /\ DOMAIN s = 1..n /\ DOMAIN r = 1..(n + 1)
        /\ \A k \in 1..n : r[k] = s[k]
        /\ r[n + 1] = e
    BY <1>1, <1>3, AppendFacts
  <2>2. /\ book[j].state \notin Unanswered =>
             book'[j].state \notin Unanswered /\ e.kind # "REJECTED"
        /\ IsNew(e) => /\ book[j].state \in {"posted", "replacing"}
                       /\ book'[j].state = "live"
    BY <1>3, KindFacts DEF Told, Unanswered, IsNew
  <2>3. book[j].state \in {"posted", "replacing"} =>
          \A k \in DOMAIN s : s[k].kind # "REJECTED"
    BY BookFacts, KindFacts DEF OrderInv, ClosedIsLast
  <2>4. GrantInv(j)
    OBVIOUS
  <2>5. Granted(j)' => Granted(j) \/ IsNew(e)
    BY <1>1, <2>1 DEF Granted, IsNew
  <2> HIDE DEF s, n, r
  <2>6. \A k \in 1..(n + 1) : k \in 1..n \/ k = n + 1
    BY <2>1
  <2>7. CASE Granted(j)
    <3>1. /\ book[j].state \notin Unanswered
          /\ \A k \in DOMAIN s : s[k].kind # "REJECTED"
      BY <2>4, <2>7 DEF GrantInv, s
    <3>2. book'[j].state \notin Unanswered /\ \A k \in DOMAIN r : r[k].kind # "REJECTED"
      BY <2>1, <2>2, <2>6, <3>1
    <3> QED
      BY <3>2 DEF GrantInv, r
  <2>8. CASE IsNew(e)
    <3>1. \A k \in DOMAIN r : r[k].kind # "REJECTED"
      BY <2>1, <2>2, <2>3, <2>6, <2>8 DEF IsNew
    <3> QED
      BY <2>2, <2>8, <3>1 DEF GrantInv, Unanswered, r
  <2> QED
    BY <2>5, <2>7, <2>8 DEF GrantInv
<1> QED
  BY <1>2, <1>3 DEF Tells

(* What a callback does to an acknowledgement and to the queue.            *)
LEMMA CallbackGrants ==
  ASSUME IInv, NEW i \in Ids, Callback(i)
  PROVE  /\ info[i].is_acknowledged /\ Head(inbox[i]).kind # "REJECTED" =>
              info'[i].is_acknowledged
         /\ g'.pc = "ack" => g'.id = i /\ IsNew(Head(inbox[i]))
         /\ pending' = pending \/ \E n : pending' = Append(pending, n)
<1>1. inbox[i] # <<>> /\ g.pc = "idle" /\ info \in [Ids -> OrderInfo]
  BY CallbackHandles DEF Handles, IInv, TypeOK
<1>2. /\ Received(i) \in OrderInfo
      /\ Received(i).is_acknowledged = info[i].is_acknowledged
  BY <1>1, ReceivedAnswers
<1>3. CASE Unmatched(i)
  BY <1>1, <1>3 DEF Unmatched, accountVars
<1>4. CASE OnNew(i)
  <2>1. /\ info'[i] = [Received(i) EXCEPT !.stage = "ACKNOWLEDGED"] /\ pending' = pending
        /\ g' = [GatewayIdle EXCEPT !.pc = "ack", !.id = i] /\ Head(inbox[i]).kind = "NEW"
    BY <1>1, <1>4, MatchedFacts DEF OnNew, Matched, Record
  <2> QED
    BY <1>2, <2>1 DEF IsNew, GatewayIdle, OrderInfo
<1>5. CASE OnRejected(i)
  BY <1>5, MatchedFacts DEF OnRejected, Matched, GatewayIdle
<1>6. CASE OnThrottle(i) \/ OnChanged(i) \/ OnChangeRejected(i)
  BY <1>1, <1>2, <1>6 DEF OnThrottle, OnChanged, OnChangeRejected, Record
<1>7. CASE OnFill(i) \/ OnOrderCancel(i) \/ OnOrderChange(i)
  BY <1>1, <1>7 DEF OnFill, OnOrderCancel, OnOrderChange, OrderInfo
<1>8. CASE OnDone(i)
  <2>1. /\ info'[i] = [Received(i) EXCEPT !.stage = "DONE"] /\ g'.pc = "count"
        /\ pending' = pending \/ pending' = Append(pending, info[i].size)
    BY <1>1, <1>8 DEF OnDone, Record
  <2> QED
    BY <1>2, <2>1 DEF OrderInfo
<1>9. CASE OnCanceled(i) \/ OnCancelRefused(i)
  <2>1. /\ pending' = pending
        /\ \/ g' = g
           \/ g' = [GatewayIdle EXCEPT !.pc = "cancel_done", !.id = i]
           \/ g' = [GatewayIdle EXCEPT !.pc = "cancel_failed", !.id = i]
    BY <1>9 DEF OnCanceled, OnCancelRefused
  <2>2. \/ info'[i] = Received(i)
        \/ info'[i] = [Received(i) EXCEPT !.stage = "CANCELLED", !.cancel_stage = "DONE"]
        \/ info'[i] = [Received(i) EXCEPT !.cancel_stage = "FAIL"]
    BY <1>1, <1>9 DEF OnCanceled, OnCancelRefused, Record
  <2>3. g'.pc # "ack"
    BY <1>1, <2>1 DEF GatewayIdle
  <2>4. info'[i].is_acknowledged = info[i].is_acknowledged
    BY <1>2, <2>2 DEF OrderInfo
  <2> QED
    BY <2>1, <2>3, <2>4
<1> QED
  BY <1>3, <1>4, <1>5, <1>6, <1>7, <1>8, <1>9 DEF Callback

LEMMA GrantUnderCallback ==
  ASSUME IInv, NEW i \in Ids, Callback(i), NEW j \in Ids, GrantInv(j)
  PROVE  GrantInv(j)'
<1> DEFINE e == Head(inbox[i])  r == Tail(inbox[i])
<1>1. /\ Handles(i) /\ g.pc = "idle" /\ inbox[i] # <<>>
      /\ inbox' = [inbox EXCEPT ![i] = r] /\ inbox \in [Ids -> Seq(Event)]
      /\ g'.pc = "ack" => g'.id = i /\ IsNew(e)
  BY CallbackHandles, CallbackGrants, BookFacts DEF Handles
<1>2. CASE j # i
  <2>1. info'[j] = info[j] /\ inbox'[j] = inbox[j] /\ book'[j].state = book[j].state
    BY <1>1, <1>2 DEF Handles
  <2>2. Granted(j)' => Granted(j)
    BY <1>1, <1>2, <2>1 DEF Granted, IsNew
  <2> QED
    BY <2>1, <2>2 DEF GrantInv
<1>3. CASE j = i
  <2>1. inbox'[i] = r /\ e = inbox[i][1] /\ 1 \in DOMAIN inbox[i]
    BY <1>1, NextEvent
  <2>2. \A k \in DOMAIN r : k + 1 \in DOMAIN inbox[i] /\ r[k] = inbox[i][k + 1]
    BY <1>1, NextEvent
  <2>3. /\ info'[i].is_acknowledged => info[i].is_acknowledged
        /\ \/ book'[i].state = book[i].state
           \/ e.kind = "THROTTLE"
    BY <1>1 DEF Handles, Answers
  <2>4. e.kind = "THROTTLE" => book[i].state \in Unanswered
    BY <2>1, BookFacts DEF OrderInv, ThrottledOnce, Unanswered
  <2> HIDE DEF e, r
  <2>5. Granted(i)' => Granted(i)
    BY <1>1, <2>1, <2>2, <2>3 DEF Granted, IsNew
  <2>6. ASSUME Granted(i)
        PROVE  /\ book'[i].state \notin Unanswered
               /\ \A k \in DOMAIN r : r[k].kind # "REJECTED"
    <3>1. /\ book[i].state \notin Unanswered
          /\ \A k \in DOMAIN inbox[i] : inbox[i][k].kind # "REJECTED"
      BY <1>3, <2>6 DEF GrantInv
    <3> QED
      BY <2>2, <2>3, <2>4, <3>1
  <2> QED
    BY <1>3, <2>1, <2>5, <2>6 DEF GrantInv
<1> QED
  BY <1>2, <1>3

(* The end of a callback gives an acknowledgement, and takes none back.    *)
LEMMA FinishGrants ==
  ASSUME IInv, FinishCallback
  PROVE  /\ pending' = pending /\ g'.pc # "ack"
         /\ \A j \in Ids :
              /\ info[j].is_acknowledged => info'[j].is_acknowledged
              /\ info'[j].is_acknowledged =>
                   info[j].is_acknowledged \/ (g.pc = "ack" /\ g.id = j)
<1>1. info \in [Ids -> OrderInfo] /\ g \in GatewayLocal
  BY DEF IInv, TypeOK
<1>2. CASE OnNewAcknowledge
  <2>1. /\ info' = [info EXCEPT ![g.id].is_acknowledged = TRUE]
        /\ g.pc = "ack" /\ g' = [g EXCEPT !.pc = "notify"] /\ pending' = pending
    BY <1>2 DEF OnNewAcknowledge
  <2>2. g'.pc = "notify" /\ \A j \in Ids : j # g.id => info'[j] = info[j]
    BY <1>1, <2>1 DEF GatewayLocal
  <2>3. g.id \in Ids => info'[g.id].is_acknowledged
    BY <1>1, <2>1 DEF OrderInfo
  <2> QED
    BY <2>1, <2>2, <2>3
<1>3. CASE OnNewOrderAcknowledgement \/ OnDoneCount
  BY <1>3 DEF OnNewOrderAcknowledgement, OnDoneCount, GatewayIdle
<1>4. CASE OnOrderCancelCallback
  <2>1. /\ pending' = pending /\ g'.pc = "idle"
        /\ \E c : info' = [info EXCEPT ![g.id].cancel_stage = c]
    BY <1>4 DEF OnOrderCancelCallback, GatewayIdle
  <2> QED
    BY <1>1, <2>1 DEF OrderInfo
<1> QED
  BY <1>2, <1>3, <1>4 DEF FinishCallback

LEMMA GrantUnderFinish ==
  ASSUME IInv, FinishCallback, NEW j \in Ids, GrantInv(j)  PROVE GrantInv(j)'
<1>1. UNCHANGED exchangeVars
  BY FinishFinishes DEF Finishes
<1>2. Granted(j)' => Granted(j)
  BY <1>1, FinishGrants DEF Granted, IsNew, exchangeVars
<1> QED
  BY <1>1, <1>2 DEF GrantInv, exchangeVars

-----------------------------------------------------------------------------
(* The threads.                                                            *)

PendPCs == {"check", "block", "asleep", "count", "store"}

(* A thread leaves sendPendingOrders, goes on in it with the book of the   *)
(* account as it was, or enters it.                                        *)
PendStep(th) ==
  \/ ~t'[th].pend
  \/ /\ t[th].pend /\ info' = info /\ pending' = pending
     /\ t'[th].wait = t[th].wait /\ t'[th].id = t[th].id
     /\ t'[th].pc \in PendPCs
     /\ t'[th].pc \in {"count", "store"} =>
          t[th].pc \in {"count", "store"} \/ info[t[th].id].is_acknowledged
  \/ /\ pending # <<>> /\ pending' = pending
     /\ t'[th].pc = "check" /\ t'[th].wait = "ack"
     /\ info'[t'[th].id].size = Head(pending)

(* What takes a request out of the queue.                                  *)
PopStep(th) ==
  \/ pending' = pending
  \/ \E n : pending' = Append(pending, n)
  \/ t[th].pc = "idle" /\ t'[th].all
  \/ t[th].pend /\ t[th].pc = "store"

LEMMA Cleared ==
  ASSUME NEW l  PROVE ~After(l).pend
BY DEF After, Scanning, Idle

LEMMA ReturnPends ==
  ASSUME IInv, NEW th \in Threads, Return(th)  PROVE PendStep(th)
<1>1. t'[th] = After(t[th])
  BY DEF Return, Goto, IInv, TypeOK
<1> QED
  BY <1>1, Cleared DEF PendStep

(* A step within a wait or an update.                                      *)
LEMMA OnwardPends ==
  ASSUME IInv, NEW th \in Threads, PendInv(th),
         NEW l \in Local, t' = [t EXCEPT ![th] = l],
         l.pend = t[th].pend, l.wait = t[th].wait, l.id = t[th].id,
         info' = info, pending' = pending, l.pc \in PendPCs,
         l.pc \in {"count", "store"} =>
           t[th].pc \in {"count", "store"} \/ info[t[th].id].is_acknowledged
  PROVE  PendStep(th)
<1>1. t'[th] = l
  BY DEF IInv, TypeOK
<1> QED
  BY <1>1 DEF PendStep

LEMMA WaitPends ==
  ASSUME IInv, NEW th \in Threads, PendInv(th),
         \/ CheckFails(th) \/ Block(th) \/ SpuriousWakeup(th)
         \/ AckFailed(th) \/ AckGranted(th) \/ LiveRead(th) \/ LiveWrite(th)
  PROVE  PendStep(th) /\ PopStep(th)
<1>0. t[th] \in Local /\ {"check", "block", "asleep", "count", "store"} \subseteq PCs
  BY DEF PCs, IInv, TypeOK
<1>1. CASE CheckFails(th) \/ Block(th) \/ SpuriousWakeup(th)
  <2>1. PICK pc \in {"check", "block", "asleep"} : t' = [t EXCEPT ![th] = [t[th] EXCEPT !.pc = pc]]
    BY <1>1 DEF CheckFails, Block, SpuriousWakeup, Goto
  <2>2. info' = info /\ pending' = pending
    BY <1>1 DEF CheckFails, Block, SpuriousWakeup
  <2> DEFINE l == [t[th] EXCEPT !.pc = pc]
  <2>3. /\ l \in Local /\ l.pc = pc /\ pc \in PendPCs
        /\ l.pend = t[th].pend /\ l.wait = t[th].wait /\ l.id = t[th].id
    BY <1>0 DEF Local, PendPCs
  <2>4. t' = [t EXCEPT ![th] = l]
    BY <2>1
  <2> HIDE DEF l
  <2> QED
    BY <2>1, <2>2, <2>3, <2>4, OnwardPends DEF PopStep
<1>2. CASE AckFailed(th) \/ LiveWrite(th)
  <2>1. /\ Return(th)
        /\ pending' = pending \/ (t[th].pend /\ t[th].pc = "store")
    BY <1>2 DEF AckFailed, LiveWrite
  <2> QED
    BY <2>1, ReturnPends DEF PopStep
<1>3. CASE AckGranted(th)
  <2> DEFINE l == [t[th] EXCEPT !.pc = "count"]
  <2>1. /\ Return(th) \/ t' = [t EXCEPT ![th] = l]
        /\ info' = info /\ pending' = pending /\ info[t[th].id].is_acknowledged
    BY <1>3 DEF AckGranted, Goto
  <2>2. /\ l \in Local /\ l.pc = "count"
        /\ l.pend = t[th].pend /\ l.wait = t[th].wait /\ l.id = t[th].id
    BY <1>0 DEF Local
  <2> HIDE DEF l
  <2> QED
    BY <2>1, <2>2, ReturnPends, OnwardPends DEF PopStep, PendPCs
<1>4. CASE LiveRead(th)
  <2> DEFINE v == live[LiveOf(info[t[th].id].side)]
             l == [t[th] EXCEPT !.pc = "store", !.tmp = v]
  <2>1. v \in Int
    BY DEF IInv, TypeOK, LiveOf
  <2>2. /\ t' = [t EXCEPT ![th] = l] /\ t[th].pc = "count"
        /\ info' = info /\ pending' = pending
    BY <1>4 DEF LiveRead, Goto
  <2> HIDE DEF v
  <2>3. /\ l \in Local /\ l.pc = "store"
        /\ l.pend = t[th].pend /\ l.wait = t[th].wait /\ l.id = t[th].id
    BY <1>0, <2>1 DEF Local
  <2> HIDE DEF l
  <2> QED
    BY <2>2, <2>3, OnwardPends DEF PopStep, PendPCs
<1> QED
  BY <1>1, <1>2, <1>3, <1>4

(* Everything but sendPendingOrders leaves the thread outside of it.       *)
LEMMA OtherPends ==
  ASSUME IInv, NEW th \in Threads, PendInv(th),
         \/ \E n \in Sizes : Open(th, n) \/ Close(th, n) \/ ClosePending(th, n)
         \/ \E i \in Ids, n \in {0} \cup Sizes : Change(th, i, n)
         \/ \E i \in Ids : Cancel(th, i)
         \/ CancelAll(th)
         \/ MarkCancel(th) \/ SendCancel(th) \/ CancelFailed(th) \/ CancelDone(th)
         \/ Scan(th)
  PROVE  PendStep(th) /\ PopStep(th)
<1>0. /\ t \in [Threads -> Local] /\ t[th] \in Local
      /\ ~Idle.pend /\ Idle \in Local /\ Idle.id = 0
  BY IdleFacts DEF IInv, TypeOK, Idle
<1>1. ~t[th].pend
  BY DEF PendInv, Open, Close, ClosePending, Change, Cancel, CancelAll, MarkCancel,
         SendCancel, CancelFailed, CancelDone, Scan
<1>2. PopStep(th)
  <2>1. CASE CancelAll(th)
    BY <1>0, <2>1 DEF PopStep, CancelAll, Goto, Scanning, Idle
  <2>2. CASE \E n \in Sizes : ClosePending(th, n)
    BY <2>2 DEF PopStep, ClosePending
  <2> QED
    BY <2>1, <2>2 DEF PopStep, Open, Close, Send, Change, Cancel, MarkCancel, SendCancel,
                      CancelFailed, CancelDone, Scan
<1>3. ASSUME NEW n \in Sizes, Open(th, n) \/ Close(th, n)  PROVE ~t'[th].pend
  <2>1. t'[th] = Idle \/ t'[th] = [Idle EXCEPT !.pc = "check", !.wait = "ack", !.id = next]
    BY <1>0, <1>3 DEF Open, Close, Send, Goto
  <2>2. t'[th].pend = Idle.pend
    BY <2>1 DEF Idle
  <2> QED
    BY <1>0, <2>2
<1>4. ASSUME NEW n \in Sizes, ClosePending(th, n)  PROVE ~t'[th].pend
  BY <1>1, <1>4 DEF ClosePending
<1>5. ASSUME NEW i \in Ids, NEW n, Change(th, i, n)  PROVE ~t'[th].pend
  <2> DEFINE w == IF n = 0 THEN "reprice" ELSE "resize"
  <2>1. t' = t \/ t'[th] = [Idle EXCEPT !.pc = "check", !.id = next, !.orig = i, !.wait = w]
    BY <1>0, <1>5 DEF Change, Goto
  <2> HIDE DEF w
  <2> QED
    BY <1>1, <2>1 DEF Idle
<1>6. ASSUME NEW i, NEW l \in Local, ~l.pend, BeginCancel(th, i, l)  PROVE ~t'[th].pend
  <2>1. \/ t'[th] = [l EXCEPT !.pc = "mark_cancel", !.id = i]
        \/ t'[th] = After([l EXCEPT !.id = i])
    BY <1>0, <1>6 DEF BeginCancel, Goto
  <2> QED
    BY <1>6, <2>1, Cleared DEF Local
<1>7. ASSUME \E i \in Ids : Cancel(th, i)  PROVE ~t'[th].pend
  <2>1. PICK i \in Ids : BeginCancel(th, i, Idle)
    BY <1>7 DEF Cancel
  <2> QED
    BY <1>0, <1>6, <2>1
<1>8. ASSUME CancelAll(th)  PROVE ~t'[th].pend
  <2>1. t'[th] = Scanning(0)
    BY <1>0, <1>8 DEF CancelAll, Goto
  <2>2. t'[th].pend = Idle.pend
    BY <2>1 DEF Scanning, Idle
  <2> QED
    BY <1>0, <2>2
<1>9. ASSUME MarkCancel(th) \/ CancelDone(th)  PROVE ~t'[th].pend
  <2>1. \/ t'[th] = [t[th] EXCEPT !.pc = "send_cancel"]
        \/ \E v : t'[th] = [t[th] EXCEPT !.pc = "store", !.tmp = v]
    BY <1>0, <1>9 DEF MarkCancel, CancelDone, Goto
  <2>2. t'[th].pend = t[th].pend
    BY <1>0, <2>1 DEF Local
  <2> QED
    BY <1>1, <2>2
<1>10. ASSUME SendCancel(th) \/ CancelFailed(th)  PROVE ~t'[th].pend
  <2>1. \/ t'[th] = [t[th] EXCEPT !.pc = "check", !.wait = "cancel"]
        \/ t'[th] = After(t[th])
    BY <1>0, <1>10 DEF SendCancel, CancelFailed, Return, Goto
  <2>2. t'[th].pend = t[th].pend \/ ~t'[th].pend
    BY <1>0, <2>1, Cleared DEF Local
  <2> QED
    BY <1>1, <2>2
<1>11. ASSUME Scan(th)  PROVE ~t'[th].pend
  <2>1. \/ \E i : BeginCancel(th, i, t[th])
        \/ \E i : t'[th] = [t[th] EXCEPT !.id = i]
        \/ t'[th] = Idle
    BY <1>0, <1>11 DEF Scan, Goto
  <2>2. CASE \E i : BeginCancel(th, i, t[th])
    BY <1>0, <1>1, <1>6, <2>2
  <2>3. CASE \E i : t'[th] = [t[th] EXCEPT !.id = i]
    <3>1. t'[th].pend = t[th].pend
      BY <1>0, <2>3 DEF Local
    <3> QED
      BY <1>1, <3>1
  <2>4. CASE t'[th] = Idle
    BY <1>0, <2>4
  <2> QED
    BY <2>1, <2>2, <2>3, <2>4
<1> QED
  BY <1>2, <1>3, <1>4, <1>5, <1>7, <1>8, <1>9, <1>10, <1>11 DEF PendStep

LEMMA ThreadPends ==
  ASSUME IInv, NEW th \in Threads, PendInv(th), ThreadStep(th)
  PROVE  PendStep(th) /\ PopStep(th)
<1>1. CASE SendPendingOrders(th)
  <2> DEFINE l == [Idle EXCEPT !.pend = TRUE]
             sent == [l EXCEPT !.pc = "check", !.wait = "ack", !.id = next]
             o == NewOrder(CloseSide, "onCloseFill", Head(pending))
  <2>1. /\ next \in Ids /\ pending # <<>> /\ pending' = pending
        /\ info' = [info EXCEPT ![next] = o]
        /\ t' = [t EXCEPT ![th] = sent] \/ t' = [t EXCEPT ![th] = Idle]
    BY <1>1 DEF SendPendingOrders, Send, Goto
  <2>2. /\ ~Idle.pend /\ sent.pc = "check" /\ sent.wait = "ack" /\ sent.id = next
        /\ o.size = Head(pending)
    BY DEF Idle, NewOrder
  <2> HIDE DEF sent, o
  <2>3. /\ info'[next] = o
        /\ t'[th] = sent \/ t'[th] = Idle
    BY <2>1 DEF IInv, TypeOK
  <2> QED
    BY <2>1, <2>2, <2>3 DEF PendStep, PopStep
<1> QED
  BY <1>1, WaitPends, OtherPends DEF ThreadStep, Proceed

(* The request at the head stays there when another joins the queue.       *)
LEMMA HeadStays ==
  ASSUME IInv, pending # <<>>, pending' = pending \/ \E n : pending' = Append(pending, n)
  PROVE  pending' # <<>> /\ Head(pending') = Head(pending)
<1>1. pending \in Seq(Sizes)
  BY DEF IInv, TypeOK
<1>2. ASSUME NEW n, pending' = Append(pending, n)
      PROVE  pending' # <<>> /\ Head(pending') = Head(pending)
  <2> DEFINE S == Sizes \cup {n}
  <2>1. pending \in Seq(S) /\ n \in S
    BY <1>1
  <2>2. 1 \in 1..Len(pending)
    BY <2>1, EmptySeq, LenProperties
  <2>3. pending'[1] = pending[1] /\ pending' # <<>>
    BY <1>2, <2>1, <2>2, AppendProperties
  <2>4. pending' \in Seq(S)
    BY <1>2, <2>1, AppendProperties
  <2> QED
    BY <2>1, <2>3, <2>4, HeadTailProperties
<1> QED
  BY <1>2

LEMMA PendInit ==
  ASSUME Init, NEW th \in Threads  PROVE PendInv(th)
BY DEF Init, PendInv, Idle

LEMMA PendUnderThreads ==
  ASSUME IInv, NEW th \in Threads, PendInv(th), PendStep(th)  PROVE PendInv(th)'
BY DEF PendStep, PendInv, PendPCs

LEMMA PendUnderCallback ==
  ASSUME IInv, NEW i \in Ids, Callback(i), GrantInv(i), NEW th \in Threads, PendInv(th)
  PROVE  PendInv(th)'
<1>1. /\ t' = t /\ Answers(i, info'[i]) /\ inbox[i] # <<>>
      /\ \A j \in Ids : j # i => info'[j] = info[j]
      /\ inbox \in [Ids -> Seq(Event)]
  BY CallbackHandles, BookFacts DEF Handles
<1>2. SUFFICES ASSUME t[th].pend  PROVE PendInv(th)'
  BY <1>1 DEF PendInv
<1>3. t[th].id \in Ids /\ pending # <<>> /\ Head(pending') = Head(pending) /\ pending' # <<>>
  BY <1>2, LocalFacts, CallbackGrants, HeadStays DEF PendInv
<1>4. info'[t[th].id].size = info[t[th].id].size
  BY <1>1, <1>3 DEF Answers
<1>5. ASSUME info[t[th].id].is_acknowledged  PROVE info'[t[th].id].is_acknowledged
  <2>1. CASE t[th].id # i
    BY <1>1, <1>3, <1>5, <2>1
  <2>2. CASE t[th].id = i
    <3>1. Head(inbox[i]).kind # "REJECTED"
      BY <1>1, <1>5, <2>2, NextEvent DEF GrantInv, Granted
    <3> QED
      BY <1>5, <2>2, <3>1, CallbackGrants
  <2> QED
    BY <2>1, <2>2
<1> QED
  BY <1>1, <1>2, <1>3, <1>4, <1>5 DEF PendInv

LEMMA PendUnderFinish ==
  ASSUME IInv, FinishCallback, NEW th \in Threads, PendInv(th)  PROVE PendInv(th)'
<1>1. t[th] \in Local /\ (t' = t \/ t' = Wake(t)) /\ pending' = pending
  BY FinishFinishes, FinishGrants DEF Finishes, IInv, TypeOK
<1>2. /\ t'[th].pend = t[th].pend /\ t'[th].wait = t[th].wait /\ t'[th].id = t[th].id
      /\ t'[th].pc = t[th].pc \/ t'[th].pc = "check"
  BY <1>1 DEF Wake, Local
<1>3. CASE ~t[th].pend
  BY <1>2, <1>3 DEF PendInv
<1>4. CASE t[th].pend
  <2>1. t[th].id \in Ids
    BY <1>4, LocalFacts DEF PendInv
  <2>2. /\ info'[t[th].id].size = info[t[th].id].size
        /\ info[t[th].id].is_acknowledged => info'[t[th].id].is_acknowledged
    BY <2>1, FinishFinishes, FinishGrants DEF Finishes
  <2> QED
    BY <1>1, <1>2, <1>4, <2>2 DEF PendInv
<1> QED
  BY <1>3, <1>4

-----------------------------------------------------------------------------
(* The invariant.                                                          *)

LEMMA ThreadKeepsPending ==
  ASSUME OneThread, PendingInv, IInv', NEW th \in Threads, ThreadStep(th)
  PROVE  PendingInv' /\ PopStep(th)
<1>1. OrdersAnswered /\ PendStep(th) /\ PopStep(th)
  BY ThreadAnswers, ThreadPends DEF PendingInv
<1>2. \A u \in Threads : u = th
  BY DEF OneThread, Threads
<1>3. PendInv(th)'
  BY <1>1, PendUnderThreads DEF PendingInv
<1>4. \A i \in Ids : GrantInv(i)'
  BY <1>1, GrantUnderThreads DEF PendingInv
<1> QED
  BY <1>1, <1>2, <1>3, <1>4 DEF PendingInv

LEMMA ExchangeKeepsPending ==
  ASSUME PendingInv, IInv', NEW i \in Ids, ExchangeStep(i), UNCHANGED accountVars
  PROVE  PendingInv' /\ pending' = pending
<1>1. \A j \in Ids : Tells(j)
  BY ExchangeTells DEF PendingInv
<1>2. \A th \in Threads : PendInv(th)' <=> PendInv(th)
  BY DEF PendInv, accountVars
<1> QED
  BY <1>1, <1>2, GrantUnderExchange DEF PendingInv, accountVars

LEMMA CallbackKeepsPending ==
  ASSUME PendingInv, IInv', NEW i \in Ids, Callback(i)
  PROVE  PendingInv' /\ (pending' = pending \/ \E n : pending' = Append(pending, n))
BY CallbackGrants, GrantUnderCallback, PendUnderCallback DEF PendingInv

LEMMA FinishKeepsPending ==
  ASSUME PendingInv, IInv', FinishCallback
  PROVE  PendingInv' /\ pending' = pending
BY FinishGrants, GrantUnderFinish, PendUnderFinish DEF PendingInv

LEMMA StutterKeepsPending ==
  ASSUME PendingInv, IInv', UNCHANGED vars
  PROVE  PendingInv' /\ pending' = pending
<1>1. UNCHANGED <<book, inbox, info, pending, t, g>>
  BY DEF vars, exchangeVars, accountVars
<1> QED
  BY <1>1 DEF PendingInv, PendInv, GrantInv, Granted, IsNew

(* The queue shrinks only as PopStep says.                                 *)
Pops ==
  \/ pending' = pending
  \/ \E n : pending' = Append(pending, n)
  \/ \E th \in Threads : t[th].pc = "idle" /\ t'[th].all
  \/ \E th \in Threads : t[th].pend /\ t[th].pc = "store"

LEMMA NextKeepsPending ==
  ASSUME OneThread, PendingInv, [Next]_vars  PROVE PendingInv' /\ Pops
<1>1. IInv'
  BY NextKeeps DEF PendingInv
<1>2. ASSUME NEW th \in Threads, ThreadStep(th)  PROVE PendingInv' /\ Pops
  BY <1>1, <1>2, ThreadKeepsPending DEF PopStep, Pops
<1>3. CASE Trade \/ Stop
  BY <1>2, <1>3 DEF Trade, Stop, ThreadStep, Threads
<1>4. ASSUME NEW th \in Threads, Proceed(th) \/ SpuriousWakeup(th)
      PROVE  PendingInv' /\ Pops
  BY <1>2, <1>4 DEF ThreadStep
<1>5. ASSUME NEW i \in Ids, Callback(i)  PROVE PendingInv' /\ Pops
  BY <1>1, <1>5, CallbackKeepsPending DEF Pops
<1>6. CASE FinishCallback
  BY <1>1, <1>6, FinishKeepsPending DEF Pops
<1>7. ASSUME NEW i \in Ids, ExchangeStep(i), UNCHANGED accountVars
      PROVE  PendingInv' /\ Pops
  BY <1>1, <1>7, ExchangeKeepsPending DEF Pops
<1>8. CASE UNCHANGED vars
  BY <1>1, <1>8, StutterKeepsPending DEF Pops
<1> QED
  BY <1>3, <1>4, <1>5, <1>6, <1>7, <1>8 DEF Next

LEMMA PendingInit == Init => PendingInv
BY InitInv, GrantInit, PendInit DEF PendingInv

(* While sendPendingOrders waits for the answer to a close order and then  *)
(* counts it, the request it was sent for stays at the head of             *)
(* pending_orders, and no refusal of an accepted order is on its way.      *)
THEOREM PendingInvariance == OneThread => (Spec => []PendingInv)
<1> SUFFICES ASSUME OneThread  PROVE Spec => []PendingInv
  OBVIOUS
<1>1. Init => PendingInv
  BY PendingInit
<1>2. PendingInv /\ [Next]_vars => PendingInv'
  BY NextKeepsPending
<1> QED
  BY <1>1, <1>2, PTL DEF Spec

(* A pending close order leaves the queue only when cancelAll drops it or  *)
(* when the order sent for that very request has been acknowledged, as     *)
(* long as no console or signal thread calls cancelAll meanwhile.          *)
THEOREM PendingOrdersAreSent == OneThread => (Spec => PendingIsSent)
<1> SUFFICES ASSUME OneThread  PROVE Spec => PendingIsSent
  OBVIOUS
<1> DEFINE Sent_ ==
      Len(pending') < Len(pending) =>
       \/ \E th \in Threads : t[th].pc = "idle" /\ t'[th].all
       \/ \E th \in Threads : /\ t[th].pend
                             /\ info[t[th].id].size = Head(pending)
                             /\ info[t[th].id].is_acknowledged
<1>1. PendingInv /\ [Next]_vars => Sent_
  <2> SUFFICES ASSUME PendingInv, [Next]_vars, Len(pending') < Len(pending)
               PROVE  \/ \E th \in Threads : t[th].pc = "idle" /\ t'[th].all
                      \/ \E th \in Threads : /\ t[th].pend
                                            /\ info[t[th].id].size = Head(pending)
                                            /\ info[t[th].id].is_acknowledged
    OBVIOUS
  <2>1. Pops
    BY NextKeepsPending
  <2>2. pending \in Seq(Sizes) /\ Len(pending) \in Nat
    BY DEF PendingInv, IInv, TypeOK
  <2>3. pending' # pending /\ \A n : pending' # Append(pending, n)
    BY <2>2
  <2> QED
    BY <2>1, <2>3 DEF Pops, PendingInv, PendInv
<1>2. PendingInv /\ [Next]_vars => [Sent_]_vars
  BY <1>1
<1> QED
  BY <1>2, PendingInvariance, PTL DEF Spec, PendingIsSent

=============================================================================

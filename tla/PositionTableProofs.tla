------------------------- MODULE PositionTableProofs -------------------------
(***************************************************************************)
(* The table of positions for every account, size, price and length of    *)
(* the list: its types, that no fill, clean-up or repackaging loses a      *)
(* share, that fills and clean-ups keep the list in order, and that a long *)
(* account closes exactly the shares a fill closed.  What a list holds is  *)
(* its weight; a pass is laid out piece by piece, so what it takes is what *)
(* its pieces lose, and they lose together what the fill asks for.         *)
(***************************************************************************)
EXTENDS PositionTable, FoldLemmas

-----------------------------------------------------------------------------
(* Constants and arithmetic.                                               *)

LEMMA ConstantFacts ==
  /\ MaxTotal \in Nat /\ BaseQty \in Nat \ {0} /\ Width \in Nat
  /\ 2^Width \in Int /\ MaxTotal < 2^Width
  /\ Prices \subseteq Int /\ 0 \notin Prices /\ Sizes \subseteq Nat \ {0}
  /\ Restored \subseteq 0..MaxTotal
<1>1. /\ MaxTotal \in Nat /\ BaseQty \in Nat \ {0} /\ Width \in Nat
      /\ MaxPrice \in Nat /\ MaxSize \in Nat
      /\ Restored \subseteq 0..MaxTotal /\ MaxTotal < 2^Width
  BY TableAssumption
<1>2. 2^Width \in Int
  BY <1>1
<1> QED
  BY <1>1, <1>2 DEF Prices, Sizes

LEMMA SignFacts == Sign = IF AccountType = "long" THEN 1 ELSE -1
  BY DEF Sign

LEMMA MinTwo ==
  ASSUME NEW a \in Int, NEW b \in Int
  PROVE  Min({a, b}) = IF a <= b THEN a ELSE b
<1> DEFINE m == IF a <= b THEN a ELSE b
<1>1. m \in {a, b} /\ \A y \in {a, b} : m <= y
  OBVIOUS
<1>2. \A x \in {a, b} : (\A y \in {a, b} : x <= y) => x = m
  OBVIOUS
<1> QED
  BY <1>1, <1>2 DEF Min

(* What is left of a profit, never less than nothing.                      *)
LEMMA MaxZero ==
  ASSUME NEW a \in Int
  PROVE  Max({0, a}) = IF a >= 0 THEN a ELSE 0
<1> DEFINE m == IF a >= 0 THEN a ELSE 0
<1>1. m \in {0, a} /\ \A y \in {0, a} : m >= y
  OBVIOUS
<1>2. \A x \in {0, a} : (\A y \in {0, a} : x >= y) => x = m
  OBVIOUS
<1> QED
  BY <1>1, <1>2 DEF Max

(* Counting on an unsigned integer is counting modulo its width.           *)
LEMMA UnsignedCounts ==
  ASSUME NEW a \in Int, NEW b \in Int,
         -MaxTotal <= a, a <= MaxTotal, -MaxTotal <= a + b, a + b <= MaxTotal
  PROVE  /\ Unsigned(a) = IF a >= 0 THEN a ELSE a + 2^Width
         /\ Unsigned(Unsigned(a) + b) = Unsigned(a + b)
         /\ Unsigned(a) \in 0..(2^Width - 1)
         /\ Unsigned(Unsigned(a) + b) \in 0..(2^Width - 1)
<1> DEFINE W == 2^Width
<1>1. W \in Int /\ MaxTotal \in Nat /\ MaxTotal < W
  BY ConstantFacts
<1> HIDE DEF W
<1>2. ASSUME NEW n \in Int, -W <= n, n < 2 * W
      PROVE  n % W = IF n < 0 THEN n + W ELSE IF n < W THEN n ELSE n - W
  <2>1. CASE n < 0
    BY <1>1, <1>2, <2>1
  <2>2. CASE 0 <= n /\ n < W
    BY <1>1, <2>2
  <2>3. CASE W <= n
    BY <1>1, <1>2, <2>3
  <2> QED
    BY <1>1, <2>1, <2>2, <2>3
<1> DEFINE c == a % W  d == (a + b) % W  e == (c + b) % W
<1>3. c = (IF a < 0 THEN a + W ELSE a) /\ d = (IF a + b < 0 THEN (a + b) + W ELSE a + b)
  BY <1>1, <1>2
<1>4. e = d
  <2>1. c + b \in Int /\ -W <= c + b /\ c + b < 2 * W
    BY <1>1, <1>3
  <2>2. e = IF c + b < 0 THEN (c + b) + W ELSE IF c + b < W THEN c + b ELSE (c + b) - W
    <3> HIDE DEF c
    <3> QED
      BY <1>2, <2>1
  <2> HIDE DEF c, d, e
  <2> QED
    BY <1>1, <1>3, <2>2
<1> HIDE DEF c, d, e
<1>5. c \in 0..(W - 1) /\ d \in 0..(W - 1)
  BY <1>1, <1>3
<1>6. Unsigned(a) = c /\ Unsigned(Unsigned(a) + b) = e /\ Unsigned(a + b) = d
  BY DEF Unsigned, W, c, d, e
<1> QED
  BY <1>1, <1>3, <1>4, <1>5, <1>6 DEF W

-----------------------------------------------------------------------------
(* Records.                                                                *)

LEMMA RecordFacts ==
  ASSUME NEW r \in PositionRecord
  PROVE  /\ r.open_price \in Int /\ r.open_size \in Nat \ {0}
         /\ r.close_price \in Prices \cup {0} /\ r.is_complete \in BOOLEAN
BY DEF PositionRecord

LEMMA OpenRecordFacts ==
  ASSUME NEW size \in Nat \ {0}, NEW price \in Int
  PROVE  /\ OpenRecord(size, price) \in PositionRecord
         /\ OpenRecord(size, price).open_price = price
         /\ OpenRecord(size, price).open_size = size
         /\ IsOpen(OpenRecord(size, price))
BY DEF OpenRecord, PositionRecord, IsOpen

LEMMA ClosedRecordFacts ==
  ASSUME NEW r \in PositionRecord, NEW size \in Nat \ {0}, NEW price \in Prices
  PROVE  /\ ClosedRecord(r, size, price) \in PositionRecord
         /\ ClosedRecord(r, size, price).open_price = r.open_price
         /\ ClosedRecord(r, size, price).open_size = size
         /\ ~IsOpen(ClosedRecord(r, size, price))
BY RecordFacts DEF ClosedRecord, PositionRecord, IsOpen

(* The open shares of a record whose price is one of G, and of a list.     *)
Weight(G) ==
  [r \in PositionRecord |-> IF IsOpen(r) /\ r.open_price \in G THEN r.open_size ELSE 0]

Held(G, list) == Total(Weight(G), list)

Gains(price) == {p \in Int : (price - p) * Sign > 0}

LEMMA WeightFacts ==
  ASSUME NEW G
  PROVE  \A r \in PositionRecord :
           /\ Weight(G)[r] = IF IsOpen(r) /\ r.open_price \in G THEN r.open_size ELSE 0
           /\ Weight(G)[r] \in Nat /\ Weight(G)[r] \in Int
BY RecordFacts DEF Weight

(* The shares of some records of a list, added up over all of it.          *)
LEMMA SharesAsSum ==
  ASSUME NEW list \in Seq(PositionRecord), NEW E, E \subseteq DOMAIN list
  PROVE  /\ SharesOf(list, E)
              = SumFunctionOnSet([k \in 1..Len(list) |-> IF k \in E THEN list[k].open_size ELSE 0],
                                 1..Len(list))
         /\ SharesOf(list, E) \in Nat
         /\ IsFiniteSet(1..Len(list)) /\ IsFiniteSet(E)
<1> DEFINE n == Len(list)
           f == [k \in 1..n |-> IF k \in E THEN list[k].open_size ELSE 0]
           h == [k \in DOMAIN list |-> list[k].open_size]
<1>1. n \in Nat /\ DOMAIN list = 1..n /\ \A k \in 1..n : list[k] \in PositionRecord
  OBVIOUS
<1>2. \A k \in 1..n : f[k] \in Int /\ h[k] \in Nat /\ (k \in E => h[k] = f[k]) /\ (k \notin E => f[k] = 0)
  BY <1>1, RecordFacts
<1>3. IsFiniteSet(1..n)
  BY <1>1, FS_Interval
<1>4. IsFiniteSet(E)
  BY <1>1, <1>3, FS_Subset
<1>5. SharesOf(list, E) = SumFunctionOnSet(h, E)
  BY DEF SharesOf
<1> HIDE DEF f, h
<1>6. SumFunctionOnSet(f, 1..n) = SumFunctionOnSet(f, E)
  BY <1>1, <1>2, <1>3, SumOfPart
<1>7. SumFunctionOnSet(h, E) = SumFunctionOnSet(f, E)
  BY <1>1, <1>2, <1>4, SumAgrees
<1>8. SumFunctionOnSet(h, E) \in Nat
  BY <1>1, <1>2, <1>4, SumNat
<1> QED
  BY <1>3, <1>4, <1>5, <1>6, <1>7, <1>8 DEF f

LEMMA HeldAsSum ==
  ASSUME NEW list \in Seq(PositionRecord), NEW G
  PROVE  /\ Held(G, list)
              = SharesOf(list, {k \in DOMAIN list : IsOpen(list[k]) /\ list[k].open_price \in G})
         /\ Held(G, list) \in Nat
<1> DEFINE n == Len(list)
           E == {k \in DOMAIN list : IsOpen(list[k]) /\ list[k].open_price \in G}
           f == [k \in 1..n |-> IF k \in E THEN list[k].open_size ELSE 0]
           h == [k \in 1..n |-> Weight(G)[list[k]]]
<1>1. n \in Nat /\ DOMAIN list = 1..n /\ \A k \in 1..n : list[k] \in PositionRecord
  OBVIOUS
<1>2. \A k \in 1..n : f[k] = h[k]
  BY <1>1, WeightFacts
<1>3. E \subseteq DOMAIN list
  OBVIOUS
<1> HIDE DEF E
<1>4. SharesOf(list, E) = SumFunctionOnSet(f, 1..n) /\ SharesOf(list, E) \in Nat /\ IsFiniteSet(1..n)
  BY <1>3, SharesAsSum
<1> HIDE DEF f
<1>5. SumFunctionOnSet(f, 1..n) = SumFunctionOnSet(h, 1..n)
  BY <1>2, <1>4, SumAgrees
<1>6. Held(G, list) = SumFunctionOnSet(h, 1..n)
  BY DEF Held, Total
<1> QED
  BY <1>4, <1>5, <1>6 DEF E

LEMMA HeldNat ==
  ASSUME NEW list \in Seq(PositionRecord), NEW G
  PROVE  Held(G, list) \in Nat /\ Held(G, list) \in Int
<1>1. Held(G, list) \in Nat
  BY HeldAsSum
<1> QED
  BY <1>1

LEMMA OpenSharesHeld ==
  ASSUME NEW list \in Seq(PositionRecord)
  PROVE  OpenShares(list) = Held(Int, list)
<1>1. {k \in DOMAIN list : IsOpen(list[k])}
        = {k \in DOMAIN list : IsOpen(list[k]) /\ list[k].open_price \in Int}
  BY RecordFacts
<1> QED
  BY <1>1, HeldAsSum DEF OpenShares

LEMMA ProfitHeld ==
  ASSUME NEW list \in Seq(PositionRecord), NEW price \in Int
  PROVE  SizeofOrderWithPnl(list, price) = Held(Gains(price), list)
<1>1. {k \in DOMAIN list : IsOpen(list[k]) /\ (price - list[k].open_price) * Sign > 0}
        = {k \in DOMAIN list : IsOpen(list[k]) /\ list[k].open_price \in Gains(price)}
  BY RecordFacts DEF Gains
<1> QED
  BY <1>1, HeldAsSum DEF SizeofOrderWithPnl

-----------------------------------------------------------------------------
(* What a pass takes.                                                      *)

(* The records a pass over n records has visited after m visits, and the   *)
(* one it visits next.                                                     *)
Seen(n, m) == IF AccountType = "long" THEN {k \in 1..n : k > n - m} ELSE {k \in 1..n : k <= m}

Visit(n, m) == IF AccountType = "long" THEN n - m ELSE m + 1

LEMMA VisitFacts ==
  ASSUME NEW n \in Nat
  PROVE  /\ Seen(n, 0) = {} /\ Seen(n, n) = 1..n
         /\ \A m \in Nat : m < n =>
              /\ Visit(n, m) \in 1..n /\ Visit(n, m) \notin Seen(n, m)
              /\ Seen(n, m + 1) = Seen(n, m) \cup {Visit(n, m)}
              /\ \A j \in 1..n : VisitedBefore(j, Visit(n, m)) <=> j \in Seen(n, m)
         /\ \A m \in Nat : Seen(n, m) \subseteq 1..n
<1>1. CASE AccountType = "long"
  BY <1>1 DEF Seen, Visit, VisitedBefore
<1>2. CASE AccountType # "long"
  BY <1>2 DEF Seen, Visit, VisitedBefore
<1> QED
  BY <1>1, <1>2

(* The eligible shares a pass meets before record k.                       *)
Earlier(list, E, k) == SharesOf(list, {j \in E : VisitedBefore(j, k)})

LEMMA TakenFacts ==
  ASSUME NEW list \in Seq(PositionRecord), NEW E, E \subseteq DOMAIN list,
         NEW size \in Int, NEW k \in DOMAIN list
  PROVE  /\ Earlier(list, E, k) \in Nat
         /\ TakenFrom(list, E, size, k)
              = IF k \notin E \/ Earlier(list, E, k) >= size THEN 0
                ELSE IF size - Earlier(list, E, k) <= list[k].open_size
                     THEN size - Earlier(list, E, k) ELSE list[k].open_size
         /\ TakenFrom(list, E, size, k) \in Nat
         /\ TakenFrom(list, E, size, k) <= list[k].open_size
<1> DEFINE before == Earlier(list, E, k)
           t == TakenFrom(list, E, size, k)
<1>1. before \in Nat
  BY SharesAsSum DEF Earlier
<1>2. list[k] \in PositionRecord /\ list[k].open_size \in Nat \ {0}
  BY RecordFacts
<1>3. t = IF k \in E /\ size - before > 0 THEN Min({size - before, list[k].open_size}) ELSE 0
  BY DEF TakenFrom, Earlier
<1> HIDE DEF before, t
<1>4. Min({size - before, list[k].open_size})
        = IF size - before <= list[k].open_size THEN size - before ELSE list[k].open_size
  BY <1>1, <1>2, MinTwo
<1>5. t = IF k \notin E \/ before >= size THEN 0
          ELSE IF size - before <= list[k].open_size THEN size - before ELSE list[k].open_size
  BY <1>1, <1>3, <1>4
<1>6. t \in Nat /\ t <= list[k].open_size
  BY <1>1, <1>2, <1>5
<1> QED
  BY <1>1, <1>5, <1>6 DEF before, t

(* One more element of a sum.                                              *)
LEMMA SumOneMore ==
  ASSUME NEW S, IsFiniteSet(S), NEW f, \A x \in S : f[x] \in Int,
         NEW R, NEW a \in S, a \notin R, R \subseteq S
  PROVE  /\ SumFunctionOnSet(f, R) \in Int
         /\ SumFunctionOnSet(f, R \cup {a}) = SumFunctionOnSet(f, R) + f[a]
<1> DEFINE T == R \cup {a}
<1>1. IsFiniteSet(R) /\ IsFiniteSet(T)
  BY FS_Subset
<1>2. a \in T /\ T \ {a} = R /\ \A x \in T : f[x] \in Int
  OBVIOUS
<1> HIDE DEF T
<1>3. SumFunctionOnSet(f, T) = f[a] + SumFunctionOnSet(f, T \ {a})
  BY <1>1, <1>2, SumTakes
<1>4. SumFunctionOnSet(f, R) \in Int /\ f[a] \in Int
  BY <1>1, SumInt
<1>5. SumFunctionOnSet(f, T \ {a}) = SumFunctionOnSet(f, R)
  BY <1>2
<1>6. SumFunctionOnSet(f, T) = SumFunctionOnSet(f, R) + f[a]
  BY <1>3, <1>4, <1>5
<1> QED
  BY <1>4, <1>6 DEF T

(* Together the records lose what the pass asks for, or all they have.     *)
LEMMA TakenTogether ==
  ASSUME NEW list \in Seq(PositionRecord), NEW E, E \subseteq DOMAIN list, NEW size \in Nat
  PROVE  SumFunctionOnSet([k \in 1..Len(list) |-> TakenFrom(list, E, size, k)], 1..Len(list))
           = IF size <= SharesOf(list, E) THEN size ELSE SharesOf(list, E)
<1> DEFINE n == Len(list)
           t == [k \in 1..n |-> TakenFrom(list, E, size, k)]
           e == [k \in 1..n |-> IF k \in E THEN list[k].open_size ELSE 0]
           All(m) == SumFunctionOnSet(e, Seen(n, m))
           Good(m) == SumFunctionOnSet(t, Seen(n, m)) = IF size <= All(m) THEN size ELSE All(m)
           B == {m \in Nat : m <= n /\ ~Good(m)}
<1>1. n \in Nat /\ DOMAIN list = 1..n /\ IsFiniteSet(1..n)
  <2>1. n \in Nat /\ DOMAIN list = 1..n
    OBVIOUS
  <2> QED
    BY <2>1, FS_Interval
<1>2. \A k \in 1..n : e[k] \in Nat /\ t[k] \in Nat /\ e[k] \in Int /\ t[k] \in Int
  <2> SUFFICES ASSUME NEW k \in 1..n  PROVE e[k] \in Nat /\ t[k] \in Nat
    OBVIOUS
  <2>1. list[k].open_size \in Nat
    BY <1>1, RecordFacts
  <2>2. TakenFrom(list, E, size, k) \in Nat
    BY <1>1, TakenFacts
  <2> QED
    BY <2>1, <2>2
<1>3. \A k \in 1..n : t[k] = IF k \notin E \/ Earlier(list, E, k) >= size THEN 0
                             ELSE IF size - Earlier(list, E, k) <= e[k]
                                  THEN size - Earlier(list, E, k) ELSE e[k]
  <2> SUFFICES ASSUME NEW k \in 1..n
               PROVE  t[k] = IF k \notin E \/ Earlier(list, E, k) >= size THEN 0
                             ELSE IF size - Earlier(list, E, k) <= e[k]
                                  THEN size - Earlier(list, E, k) ELSE e[k]
    OBVIOUS
  <2>1. k \in DOMAIN list
    BY <1>1
  <2>2. t[k] = TakenFrom(list, E, size, k) /\ (k \in E => e[k] = list[k].open_size)
    OBVIOUS
  <2>3. TakenFrom(list, E, size, k)
          = IF k \notin E \/ Earlier(list, E, k) >= size THEN 0
            ELSE IF size - Earlier(list, E, k) <= list[k].open_size
                 THEN size - Earlier(list, E, k) ELSE list[k].open_size
    BY <2>1, TakenFacts
  <2> HIDE DEF t, e
  <2> QED
    BY <2>2, <2>3
<1>4. ASSUME NEW m \in Nat
      PROVE  /\ All(m) \in Nat
             /\ All(m) = SharesOf(list, E \cap Seen(n, m))
  <2> DEFINE D == Seen(n, m)
             h == [k \in 1..n |-> IF k \in E \cap D THEN list[k].open_size ELSE 0]
  <2>1. D \subseteq 1..n
    BY <1>1, VisitFacts
  <2>2. IsFiniteSet(D)
    BY <1>1, <2>1, FS_Subset
  <2>3. SharesOf(list, E \cap D) = SumFunctionOnSet(h, 1..n)
    BY <1>1, SharesAsSum
  <2> HIDE DEF D
  <2>4. \A k \in 1..n : list[k].open_size \in Int
    BY <1>1, RecordFacts
  <2>5. \A k \in 1..n : h[k] \in Int
    BY <2>4
  <2>6. \A k \in 1..n : k \notin D => h[k] = 0
    OBVIOUS
  <2>7. \A k \in D : e[k] = h[k]
    BY <2>1
  <2>8. \A k \in D : e[k] \in Nat
    BY <1>2, <2>1
  <2> HIDE DEF h, e
  <2>9. SumFunctionOnSet(h, 1..n) = SumFunctionOnSet(h, D)
    <3> DEFINE S == 1..n
    <3>1. IsFiniteSet(S) /\ D \subseteq S /\ \A k \in S : h[k] \in Int
      BY <1>1, <2>1, <2>5
    <3>2. \A k \in S \ D : h[k] = 0
      BY <2>6
    <3> HIDE DEF S
    <3>3. SumFunctionOnSet(h, S) = SumFunctionOnSet(h, D)
      BY <3>1, <3>2, SumOfPart
    <3> QED
      BY <3>3 DEF S
  <2>10. SumFunctionOnSet(e, D) = SumFunctionOnSet(h, D)
    BY <2>2, <2>7, SumAgrees
  <2>11. SumFunctionOnSet(e, D) \in Nat
    BY <2>2, <2>8, SumNat
  <2> QED
    BY <2>3, <2>9, <2>10, <2>11 DEF D
<1>5. ASSUME B # {}  PROVE FALSE
  <2>0. B \subseteq Nat
    OBVIOUS
  <2> HIDE DEF B
  <2>1. PICK m \in B : \A k \in B : m <= k
    BY <1>5, <2>0, SmallestIndex
  <2> USE DEF B
  <2>2. CASE m = 0
    <3>1. Seen(n, 0) = {}
      BY <1>1, VisitFacts
    <3> HIDE DEF t, e
    <3>2. SumFunctionOnSet(t, {}) = 0 /\ SumFunctionOnSet(e, {}) = 0
      BY SumEmpty
    <3>3. Good(0)
      BY <3>1, <3>2
    <3> QED
      BY <2>1, <2>2, <3>3
  <2>3. CASE m # 0
    <3> DEFINE p == m - 1  x == Visit(n, p)  D == Seen(n, p)
    <3>1. p \in Nat /\ m = p + 1 /\ p < m /\ p < n /\ p <= n
      BY <1>1, <2>1, <2>3
    <3>2. Good(p)
      <4> HIDE DEF Good, p
      <4> QED
        BY <2>1, <3>1
    <3>3. /\ x \in 1..n /\ x \notin D /\ Seen(n, m) = D \cup {x} /\ D \subseteq 1..n
          /\ \A j \in 1..n : VisitedBefore(j, x) <=> j \in D
      <4> HIDE DEF p
      <4> QED
        BY <1>1, <3>1, VisitFacts
    <3>4. Earlier(list, E, x) = All(p)
      <4>1. {j \in E : VisitedBefore(j, x)} = E \cap D
        BY <1>1, <3>3
      <4> HIDE DEF All
      <4> QED
        BY <1>4, <3>1, <4>1 DEF Earlier
    <3>5. t[x] = IF x \notin E \/ All(p) >= size THEN 0
                 ELSE IF size - All(p) <= e[x] THEN size - All(p) ELSE e[x]
      BY <1>3, <3>3, <3>4
    <3>6. x \notin E => e[x] = 0
      BY <3>3
    <3>7. All(p) \in Nat /\ e[x] \in Nat /\ t[x] \in Nat
      BY <1>2, <1>4, <3>1, <3>3
    <3>8. /\ SumFunctionOnSet(t, D \cup {x}) = SumFunctionOnSet(t, D) + t[x]
          /\ SumFunctionOnSet(e, D \cup {x}) = SumFunctionOnSet(e, D) + e[x]
      <4> DEFINE S == 1..n
      <4>1. \A k \in S : t[k] \in Int
        BY <1>2
      <4>2. \A k \in S : e[k] \in Int
        BY <1>2
      <4>5. IsFiniteSet(S) /\ x \in S /\ x \notin D /\ D \subseteq S
        BY <1>1, <3>3
      <4> HIDE DEF t, e, x, D, S
      <4>3. SumFunctionOnSet(t, D \cup {x}) = SumFunctionOnSet(t, D) + t[x]
        BY <4>1, <4>5, SumOneMore
      <4>4. SumFunctionOnSet(e, D \cup {x}) = SumFunctionOnSet(e, D) + e[x]
        BY <4>2, <4>5, SumOneMore
      <4> QED
        BY <4>3, <4>4
    <3> DEFINE a == All(p)  b == SumFunctionOnSet(t, D)  tx == t[x]  ex == e[x]
    <3>9. /\ All(m) = a + ex /\ SumFunctionOnSet(t, Seen(n, m)) = b + tx
          /\ b = IF size <= a THEN size ELSE a
      BY <3>2, <3>3, <3>8
    <3>10. /\ tx = IF x \notin E \/ a >= size THEN 0 ELSE IF size - a <= ex THEN size - a ELSE ex
           /\ x \notin E => ex = 0
           /\ a \in Nat /\ ex \in Nat /\ tx \in Nat
      BY <3>5, <3>6, <3>7
    <3> HIDE DEF a, b, tx, ex, x, D, All, t, e
    <3>11. Good(m)
      BY <3>9, <3>10
    <3> QED
      BY <2>1, <3>11
  <2> QED
    BY <2>2, <2>3
<1>6. Good(n)
  <2> HIDE DEF Good
  <2> QED
    BY <1>1, <1>5
<1>7. Seen(n, n) = 1..n /\ E \cap (1..n) = E
  BY <1>1, VisitFacts
<1>8. All(n) = SharesOf(list, E)
  BY <1>1, <1>4, <1>7
<1> QED
  BY <1>6, <1>7, <1>8

(* What is left of a sum when a part is taken from each of its elements.   *)
LEMMA SumMinus ==
  ASSUME NEW n \in Nat, NEW f, NEW g, NEW h,
         \A k \in 1..n : f[k] \in Int /\ g[k] \in Int /\ h[k] = f[k] - g[k]
  PROVE  /\ SumFunctionOnSet(f, 1..n) \in Int /\ SumFunctionOnSet(g, 1..n) \in Int
         /\ SumFunctionOnSet(h, 1..n) = SumFunctionOnSet(f, 1..n) - SumFunctionOnSet(g, 1..n)
<1> DEFINE A(q, m) == SumFunctionOnSet(q, 1..m)
           Good(m) == A(h, m) = A(f, m) - A(g, m)
           B == {m \in Nat : m <= n /\ ~Good(m)}
<1>1. ASSUME NEW m \in Nat, m + 1 <= n
      PROVE  /\ A(f, m) \in Int /\ A(g, m) \in Int /\ A(h, m) \in Int
             /\ A(f, m + 1) = A(f, m) + f[m + 1]
             /\ A(g, m + 1) = A(g, m) + g[m + 1]
             /\ A(h, m + 1) = A(h, m) + h[m + 1]
  <2>1. /\ \A k \in 1..(m + 1) : f[k] \in Int
        /\ \A k \in 1..(m + 1) : g[k] \in Int
        /\ \A k \in 1..(m + 1) : h[k] \in Int
    BY <1>1
  <2> QED
    BY <2>1, SumExtends
<1>2. ASSUME B # {}  PROVE FALSE
  <2>0. B \subseteq Nat
    OBVIOUS
  <2> HIDE DEF B
  <2>1. PICK m \in B : \A k \in B : m <= k
    BY <1>2, <2>0, SmallestIndex
  <2> USE DEF B
  <2>2. CASE m = 0
    <3>1. 1..0 = {}
      OBVIOUS
    <3>2. SumFunctionOnSet(f, {}) = 0 /\ SumFunctionOnSet(g, {}) = 0 /\ SumFunctionOnSet(h, {}) = 0
      BY SumEmpty
    <3>3. Good(0)
      BY <3>1, <3>2
    <3> HIDE DEF Good
    <3> QED
      BY <2>1, <2>2, <3>3
  <2>3. CASE m # 0
    <3> DEFINE p == m - 1
    <3>1. p \in Nat /\ m = p + 1 /\ p < m /\ p + 1 <= n /\ p <= n
      BY <2>1, <2>3
    <3>2. Good(p)
      <4> HIDE DEF Good, p
      <4> QED
        BY <2>1, <3>1
    <3>3. f[p + 1] \in Int /\ g[p + 1] \in Int /\ h[p + 1] = f[p + 1] - g[p + 1]
      BY <3>1
    <3> HIDE DEF p, A
    <3>4. Good(p + 1)
      BY <1>1, <3>1, <3>2, <3>3
    <3> HIDE DEF Good
    <3> QED
      BY <2>1, <3>1, <3>4
  <2> QED
    BY <2>2, <2>3
<1>3. Good(n)
  <2> HIDE DEF Good
  <2> QED
    BY <1>2
<1>4. SumFunctionOnSet(f, 1..n) \in Int /\ SumFunctionOnSet(g, 1..n) \in Int
  <2> DEFINE S == 1..n
  <2>1. IsFiniteSet(S)
    BY FS_Interval
  <2>2. (\A k \in S : f[k] \in Int) /\ (\A k \in S : g[k] \in Int)
    OBVIOUS
  <2> HIDE DEF S
  <2>3. SumFunctionOnSet(f, S) \in Int /\ SumFunctionOnSet(g, S) \in Int
    BY <2>1, <2>2, SumInt
  <2> QED
    BY <2>3 DEF S
<1> QED
  BY <1>3, <1>4

-----------------------------------------------------------------------------
(* A pass, piece by piece.                                                 *)

PassPiece(list, E, size, price, k) ==
  LET taken == TakenFrom(list, E, size, k) IN
  IF taken = 0 THEN <<list[k]>>
  ELSE IF taken = list[k].open_size THEN <<ClosedRecord(list[k], taken, price)>>
       ELSE Divided(list[k], taken, price)

LEMMA PassInPieces ==
  ASSUME NEW list, NEW E, NEW size, NEW price
  PROVE  Pass(list, E, size, price)
           = FlattenSeq([k \in DOMAIN list |-> PassPiece(list, E, size, price, k)])
BY DEF Pass, PassPiece

LEMMA HeldShort ==
  ASSUME NEW G
  PROVE  /\ \A r \in PositionRecord : Held(G, <<r>>) = Weight(G)[r]
         /\ \A r, q \in PositionRecord : Held(G, <<r, q>>) = Weight(G)[r] + Weight(G)[q]
<1> DEFINE w == Weight(G)
<1>1. \A r \in PositionRecord : w[r] \in Int
  BY WeightFacts
<1> HIDE DEF w
<1>2. /\ \A r \in PositionRecord : Total(w, <<r>>) = w[r]
      /\ \A r, q \in PositionRecord : Total(w, <<r, q>>) = w[r] + w[q]
  BY <1>1, TotalShort
<1> QED
  BY <1>2 DEF Held, w

(* What a pass leaves of record k at the prices in G.                      *)
Leaves(list, E, size, k, G) ==
  LET t == TakenFrom(list, E, size, k) IN
  IF t = 0 THEN Weight(G)[list[k]]
  ELSE IF list[k].open_price \in G THEN list[k].open_size - t ELSE 0

LEMMA PieceFacts ==
  ASSUME NEW list \in Seq(PositionRecord), NEW E, E \subseteq DOMAIN list,
         NEW size \in Int, NEW price \in Prices, NEW k \in DOMAIN list, NEW G
  PROVE  /\ PassPiece(list, E, size, price, k) \in Seq(PositionRecord)
         /\ \A l \in 1..Len(PassPiece(list, E, size, price, k)) :
              PassPiece(list, E, size, price, k)[l].open_price = list[k].open_price
         /\ Held(G, PassPiece(list, E, size, price, k)) = Leaves(list, E, size, k, G)
<1> DEFINE piece == PassPiece(list, E, size, price, k)
           t == TakenFrom(list, E, size, k)
           r == list[k]
           v == Leaves(list, E, size, k, G)
           Good(s) == /\ s \in Seq(PositionRecord)
                      /\ \A l \in 1..Len(s) : s[l].open_price = r.open_price
                      /\ Held(G, s) = v
<1>1. r \in PositionRecord /\ r.open_size \in Nat \ {0} /\ r.open_price \in Int
  BY RecordFacts
<1>2. t \in Nat /\ t <= r.open_size
  BY TakenFacts
<1>3. piece = IF t = 0 THEN <<r>>
              ELSE IF t = r.open_size THEN <<ClosedRecord(r, t, price)>>
                   ELSE Divided(r, t, price)
  BY DEF PassPiece
<1>7. v = IF t = 0 THEN Weight(G)[r]
          ELSE IF r.open_price \in G THEN r.open_size - t ELSE 0
  BY DEF Leaves
<1> HIDE DEF piece, t, r, v
<1>4. CASE t = 0
  <2>1. <<r>> \in Seq(PositionRecord) /\ Len(<<r>>) = 1 /\ <<r>>[1] = r
    BY <1>1
  <2>2. Held(G, <<r>>) = Weight(G)[r]
    BY <1>1, HeldShort
  <2>3. Good(<<r>>)
    BY <1>4, <1>7, <2>1, <2>2
  <2> QED
    BY <1>3, <1>4, <2>3 DEF piece, v, r
<1>5. CASE t # 0 /\ t = r.open_size
  <2> DEFINE c == ClosedRecord(r, t, price)
  <2>1. c \in PositionRecord /\ c.open_price = r.open_price /\ ~IsOpen(c)
    BY <1>1, <1>5, ClosedRecordFacts
  <2> HIDE DEF c
  <2>2. <<c>> \in Seq(PositionRecord) /\ Len(<<c>>) = 1 /\ <<c>>[1] = c
    BY <2>1
  <2>3. Held(G, <<c>>) = 0
    <3>1. Weight(G)[c] = 0
      BY <2>1, WeightFacts
    <3>2. Held(G, <<c>>) = Weight(G)[c]
      BY <2>1, HeldShort
    <3> QED
      BY <3>1, <3>2
  <2>4. Good(<<c>>)
    BY <1>1, <1>2, <1>5, <1>7, <2>1, <2>2, <2>3
  <2>5. piece = <<c>>
    BY <1>3, <1>5 DEF c
  <2> QED
    BY <2>4, <2>5 DEF piece, v, r
<1>6. CASE t # 0 /\ t # r.open_size
  <2> DEFINE c == ClosedRecord(r, t, price)
             o == OpenRecord(r.open_size - t, r.open_price)
  <2>1. t \in Nat \ {0} /\ r.open_size - t \in Nat \ {0}
    BY <1>1, <1>2, <1>6
  <2>2. c \in PositionRecord /\ c.open_price = r.open_price /\ ~IsOpen(c)
    BY <1>1, <2>1, ClosedRecordFacts
  <2>3. /\ o \in PositionRecord /\ o.open_price = r.open_price /\ IsOpen(o)
        /\ o.open_size = r.open_size - t
    BY <1>1, <2>1, OpenRecordFacts
  <2>4. piece = IF AccountType = "long" THEN <<c, o>> ELSE <<o, c>>
    BY <1>3, <1>6 DEF Divided
  <2> HIDE DEF c, o
  <2>5. /\ Weight(G)[c] = 0
        /\ Weight(G)[o] = IF r.open_price \in G THEN r.open_size - t ELSE 0
    BY <2>2, <2>3, WeightFacts
  <2>6. /\ Held(G, <<c, o>>) = Weight(G)[c] + Weight(G)[o]
        /\ Held(G, <<o, c>>) = Weight(G)[o] + Weight(G)[c]
    BY <2>2, <2>3, HeldShort
  <2>7. /\ Held(G, <<c, o>>) = IF r.open_price \in G THEN r.open_size - t ELSE 0
        /\ Held(G, <<o, c>>) = IF r.open_price \in G THEN r.open_size - t ELSE 0
    BY <1>1, <1>2, <2>5, <2>6
  <2>8. /\ <<c, o>> \in Seq(PositionRecord) /\ <<o, c>> \in Seq(PositionRecord)
        /\ \A l \in 1..Len(<<c, o>>) : <<c, o>>[l].open_price = r.open_price
        /\ \A l \in 1..Len(<<o, c>>) : <<o, c>>[l].open_price = r.open_price
    BY <2>2, <2>3
  <2>9. Good(<<c, o>>) /\ Good(<<o, c>>)
    BY <1>6, <1>7, <2>7, <2>8
  <2>10. Good(piece)
    <3> HIDE DEF Good
    <3> QED
      BY <2>4, <2>9
  <2> QED
    BY <2>10 DEF piece, v, r
<1> QED
  BY <1>4, <1>5, <1>6

LEMMA PieceLayout ==
  ASSUME NEW list \in Seq(PositionRecord), NEW E, E \subseteq DOMAIN list,
         NEW size \in Int, NEW price \in Prices, NEW k \in DOMAIN list,
         NEW l \in 1..Len(PassPiece(list, E, size, price, k))
  PROVE  PassPiece(list, E, size, price, k)[l].open_price = list[k].open_price
<1>1. Held(Int, PassPiece(list, E, size, price, k)) = Leaves(list, E, size, k, Int)
  BY PieceFacts
<1> QED
  BY <1>1, PieceFacts

(* What a list holds, and a pass leaves, added up over the list.           *)
LEMMA PassHeld ==
  ASSUME NEW list \in Seq(PositionRecord), NEW E, E \subseteq DOMAIN list,
         NEW size \in Int, NEW price \in Prices
  PROVE  /\ [k \in 1..Len(list) |-> PassPiece(list, E, size, price, k)] \in Seq(Seq(PositionRecord))
         /\ Pass(list, E, size, price)
              = FlattenSeq([k \in 1..Len(list) |-> PassPiece(list, E, size, price, k)])
         /\ Pass(list, E, size, price) \in Seq(PositionRecord)
         /\ \A G : Held(G, Pass(list, E, size, price))
              = SumFunctionOnSet([k \in 1..Len(list) |-> Held(G, PassPiece(list, E, size, price, k))],
                                 1..Len(list))
<1> DEFINE n       == Len(list)
           s       == [k \in 1..n |-> PassPiece(list, E, size, price, k)]
           left(G) == [k \in 1..n |-> Held(G, PassPiece(list, E, size, price, k))]
<1>1. n \in Nat /\ DOMAIN list = 1..n
  OBVIOUS
<1>2. \A k \in 1..n : PassPiece(list, E, size, price, k) \in Seq(PositionRecord)
  BY <1>1, PieceFacts
<1>3. s \in Seq(Seq(PositionRecord)) /\ Len(s) = n
  BY <1>1, <1>2
<1>4. Pass(list, E, size, price) = FlattenSeq(s)
  <2>1. s = [k \in DOMAIN list |-> PassPiece(list, E, size, price, k)]
    BY <1>1
  <2> HIDE DEF s
  <2> QED
    BY <2>1, PassInPieces
<1>5. FlattenSeq(s) \in Seq(PositionRecord)
  <2> HIDE DEF s
  <2> QED
    BY <1>3, FlattenFacts
<1>6. ASSUME NEW G  PROVE Held(G, FlattenSeq(s)) = SumFunctionOnSet(left(G), 1..n)
  <2> DEFINE w == Weight(G)
             h == [k \in 1..n |-> Total(w, s[k])]
  <2>1. \A r \in PositionRecord : w[r] \in Int
    BY WeightFacts
  <2>2. h = left(G)
    BY DEF Held
  <2>3. SumFunctionOnSet([k \in 1..Len(s) |-> Total(w, s[k])], 1..Len(s)) = SumFunctionOnSet(h, 1..n)
    BY <1>3
  <2> HIDE DEF w, s, h, left
  <2>4. Total(w, FlattenSeq(s)) = SumFunctionOnSet([k \in 1..Len(s) |-> Total(w, s[k])], 1..Len(s))
    BY <1>3, <2>1, TotalFlatten
  <2> QED
    BY <2>2, <2>3, <2>4 DEF Held, w
<1> HIDE DEF s, left
<1>7. /\ Pass(list, E, size, price) \in Seq(PositionRecord)
      /\ \A G : Held(G, Pass(list, E, size, price)) = SumFunctionOnSet(left(G), 1..n)
  BY <1>4, <1>5, <1>6
<1> QED
  BY <1>3, <1>4, <1>7 DEF s, left

(* What a pass takes of the shares at the prices in G: never more than it  *)
(* was asked for, exactly that when it meets only open ones at these       *)
(* prices, and nothing when it meets none of them.                         *)
LEMMA PassTakes ==
  ASSUME NEW list \in Seq(PositionRecord), NEW E, E \subseteq DOMAIN list,
         NEW size \in Nat, NEW price \in Prices
  PROVE  LET first == Pass(list, E, size, price)
             taken == IF size <= SharesOf(list, E) THEN size ELSE SharesOf(list, E)
             Takes(k) == TakenFrom(list, E, size, k) # 0
         IN  /\ SharesOf(list, E) \in Nat
             /\ first \in Seq(PositionRecord)
             /\ Held(Int, first) >= Held(Int, list) - taken
             /\ \A G : (\A k \in DOMAIN list : Takes(k) => IsOpen(list[k]) /\ list[k].open_price \in G)
                       => Held(G, first) = Held(G, list) - taken
             /\ \A G : (\A k \in DOMAIN list : Takes(k) => list[k].open_price \notin G)
                       => Held(G, first) <= Held(G, list)
<1> DEFINE n == Len(list)
           first == Pass(list, E, size, price)
           taken == IF size <= SharesOf(list, E) THEN size ELSE SharesOf(list, E)
           t == [k \in 1..n |-> TakenFrom(list, E, size, k)]
           piece(k) == PassPiece(list, E, size, price, k)
           left(G) == [k \in 1..n |-> Held(G, piece(k))]
           held(G) == [k \in 1..n |-> Weight(G)[list[k]]]
           rest(G) == [k \in 1..n |-> held(G)[k] - t[k]]
<1>1. n \in Nat /\ DOMAIN list = 1..n
  OBVIOUS
<1>0. size \in Int
  OBVIOUS
<1>2. first \in Seq(PositionRecord)
  BY <1>0, PassHeld
<1>3. ASSUME NEW G
      PROVE  /\ Held(G, list) = SumFunctionOnSet(held(G), 1..n)
             /\ Held(G, first) = SumFunctionOnSet(left(G), 1..n)
  <2>1. Held(G, list) = SumFunctionOnSet(held(G), 1..n)
    BY DEF Held, Total
  <2>2. Held(G, first) = SumFunctionOnSet(left(G), 1..n)
    BY <1>0, PassHeld
  <2> QED
    BY <2>1, <2>2
<1>4. SumFunctionOnSet(t, 1..n) = taken
  BY TakenTogether
<1>5. SharesOf(list, E) \in Nat
  BY SharesAsSum
<1>6. ASSUME NEW k \in 1..n, NEW G
      PROVE  /\ held(G)[k] = IF IsOpen(list[k]) /\ list[k].open_price \in G
                             THEN list[k].open_size ELSE 0
             /\ left(G)[k] = IF t[k] = 0 THEN held(G)[k]
                             ELSE IF list[k].open_price \in G THEN list[k].open_size - t[k] ELSE 0
             /\ t[k] \in Nat /\ t[k] <= list[k].open_size
             /\ list[k].open_price \in Int /\ list[k].open_size \in Nat
             /\ rest(G)[k] = held(G)[k] - t[k] /\ t[k] = TakenFrom(list, E, size, k)
  <2>1. k \in DOMAIN list /\ list[k] \in PositionRecord
    BY <1>1
  <2>2. list[k].open_price \in Int /\ list[k].open_size \in Nat
    BY <2>1, RecordFacts
  <2>3. t[k] = TakenFrom(list, E, size, k) /\ rest(G)[k] = held(G)[k] - t[k]
    OBVIOUS
  <2>4. TakenFrom(list, E, size, k) \in Nat /\ TakenFrom(list, E, size, k) <= list[k].open_size
    BY <2>1, TakenFacts
  <2>5. held(G)[k] = IF IsOpen(list[k]) /\ list[k].open_price \in G THEN list[k].open_size ELSE 0
    BY <2>1, WeightFacts
  <2>6. Held(G, piece(k)) = Leaves(list, E, size, k, G)
    BY <1>0, <2>1, PieceFacts
  <2>9. Leaves(list, E, size, k, G)
          = IF TakenFrom(list, E, size, k) = 0 THEN Weight(G)[list[k]]
            ELSE IF list[k].open_price \in G
                 THEN list[k].open_size - TakenFrom(list, E, size, k) ELSE 0
    BY DEF Leaves
  <2>7. left(G)[k] = Held(G, piece(k)) /\ held(G)[k] = Weight(G)[list[k]]
    OBVIOUS
  <2> HIDE DEF t, left, held, rest, piece
  <2>8. left(G)[k] = IF t[k] = 0 THEN held(G)[k]
                     ELSE IF list[k].open_price \in G THEN list[k].open_size - t[k] ELSE 0
    BY <2>3, <2>6, <2>7, <2>9
  <2> QED
    BY <2>2, <2>3, <2>4, <2>5, <2>8
<1> HIDE DEF t, left, held, rest, piece, first, taken
<1>7. ASSUME NEW G
      PROVE  /\ \A k \in 1..n : /\ held(G)[k] \in Int /\ left(G)[k] \in Int /\ t[k] \in Int
                                /\ rest(G)[k] \in Int /\ rest(G)[k] = held(G)[k] - t[k]
             /\ Held(G, list) - taken = SumFunctionOnSet(rest(G), 1..n)
             /\ Held(G, list) \in Int
  <2>1. \A k \in 1..n : /\ held(G)[k] \in Int /\ left(G)[k] \in Int /\ t[k] \in Int
                        /\ rest(G)[k] \in Int /\ rest(G)[k] = held(G)[k] - t[k]
    BY <1>6
  <2>2. /\ SumFunctionOnSet(held(G), 1..n) \in Int
        /\ SumFunctionOnSet(rest(G), 1..n) = SumFunctionOnSet(held(G), 1..n) - SumFunctionOnSet(t, 1..n)
    BY <1>1, <2>1, SumMinus
  <2> QED
    BY <1>3, <1>4, <2>1, <2>2
<1>8. Held(Int, first) >= Held(Int, list) - taken
  <2>1. \A k \in 1..n : rest(Int)[k] \in Int /\ left(Int)[k] \in Int /\ rest(Int)[k] <= left(Int)[k]
    <3> SUFFICES ASSUME NEW k \in 1..n
                 PROVE  rest(Int)[k] \in Int /\ left(Int)[k] \in Int /\ rest(Int)[k] <= left(Int)[k]
      OBVIOUS
    <3>1. rest(Int)[k] \in Int /\ left(Int)[k] \in Int /\ held(Int)[k] \in Int
      BY <1>7
    <3>2. /\ held(Int)[k] = IF IsOpen(list[k]) THEN list[k].open_size ELSE 0
          /\ left(Int)[k] = IF t[k] = 0 THEN held(Int)[k] ELSE list[k].open_size - t[k]
          /\ t[k] \in Nat /\ t[k] <= list[k].open_size /\ list[k].open_size \in Nat
          /\ rest(Int)[k] = held(Int)[k] - t[k]
      BY <1>6
    <3> QED
      BY <3>1, <3>2
  <2> DEFINE S == 1..n
             f == rest(Int)
             h == left(Int)
  <2>2. IsFiniteSet(S) /\ \A k \in S : f[k] \in Int /\ h[k] \in Int /\ f[k] <= h[k]
    BY <1>1, <2>1, FS_Interval
  <2> HIDE DEF S, f, h
  <2>3. SumFunctionOnSet(f, S) <= SumFunctionOnSet(h, S)
    BY <2>2, SumBelow
  <2>4. SumFunctionOnSet(f, S) \in Int /\ SumFunctionOnSet(h, S) \in Int
    BY <2>2, SumInt
  <2>5. Held(Int, list) - taken = SumFunctionOnSet(f, S) /\ Held(Int, first) = SumFunctionOnSet(h, S)
    BY <1>3, <1>7 DEF f, h, S
  <2> QED
    BY <2>3, <2>4, <2>5
<1>9. ASSUME NEW G, \A k \in DOMAIN list : TakenFrom(list, E, size, k) # 0 =>
                                              IsOpen(list[k]) /\ list[k].open_price \in G
      PROVE  Held(G, first) = Held(G, list) - taken
  <2>1. \A k \in 1..n : rest(G)[k] = left(G)[k]
    <3> SUFFICES ASSUME NEW k \in 1..n  PROVE rest(G)[k] = left(G)[k]
      OBVIOUS
    <3>1. t[k] # 0 => IsOpen(list[k]) /\ list[k].open_price \in G
      BY <1>1, <1>6, <1>9
    <3>2. held(G)[k] \in Int
      BY <1>7
    <3> QED
      BY <1>6, <3>1, <3>2
  <2> DEFINE S == 1..n
             f == rest(G)
             h == left(G)
  <2>2. IsFiniteSet(S) /\ \A k \in S : f[k] = h[k]
    BY <1>1, <2>1, FS_Interval
  <2> HIDE DEF S, f, h
  <2>3. SumFunctionOnSet(f, S) = SumFunctionOnSet(h, S)
    BY <2>2, SumAgrees
  <2> QED
    BY <1>3, <1>7, <2>3 DEF f, h, S
<1>10. ASSUME NEW G, \A k \in DOMAIN list : TakenFrom(list, E, size, k) # 0 =>
                                              list[k].open_price \notin G
       PROVE  Held(G, first) <= Held(G, list)
  <2>1. \A k \in 1..n : left(G)[k] <= held(G)[k]
    <3> SUFFICES ASSUME NEW k \in 1..n  PROVE left(G)[k] <= held(G)[k]
      OBVIOUS
    <3>1. t[k] # 0 => list[k].open_price \notin G
      BY <1>1, <1>6, <1>10
    <3>2. held(G)[k] \in Int
      BY <1>7
    <3> QED
      BY <1>6, <3>1, <3>2
  <2> DEFINE S == 1..n
             f == left(G)
             h == held(G)
  <2>2. IsFiniteSet(S) /\ \A k \in S : f[k] \in Int /\ h[k] \in Int /\ f[k] <= h[k]
    BY <1>1, <1>7, <2>1, FS_Interval
  <2> HIDE DEF S, f, h
  <2>3. SumFunctionOnSet(f, S) <= SumFunctionOnSet(h, S)
    BY <2>2, SumBelow
  <2> QED
    BY <1>3, <2>3 DEF f, h, S
<1> QED
  BY <1>2, <1>5, <1>8, <1>9, <1>10 DEF first, taken

LEMMA PassTakesFrom ==
  ASSUME NEW list \in Seq(PositionRecord), NEW E, E \subseteq DOMAIN list,
         NEW size \in Nat, NEW price \in Prices, NEW G,
         \A k \in DOMAIN list : TakenFrom(list, E, size, k) # 0 =>
                                   IsOpen(list[k]) /\ list[k].open_price \in G,
         size <= SharesOf(list, E)
  PROVE  Held(G, Pass(list, E, size, price)) = Held(G, list) - size
<1>1. Held(G, Pass(list, E, size, price))
        = Held(G, list) - (IF size <= SharesOf(list, E) THEN size ELSE SharesOf(list, E))
  BY PassTakes
<1> QED
  BY <1>1

-----------------------------------------------------------------------------
(* The order of a list.                                                    *)

LEMMA SortedMeans ==
  ASSUME NEW list
  PROVE  Sorted(list) <=> \A i, j \in 1..Len(list) :
                            i < j => (list[j].open_price - list[i].open_price) * Sign >= 0
BY DEF Sorted, IsSorted

(* A list laid out in pieces at the prices of a list in order is in order. *)
LEMMA LayoutSorted ==
  ASSUME NEW list \in Seq(PositionRecord), Sorted(list),
         NEW s \in Seq(Seq(PositionRecord)), Len(s) = Len(list),
         \A k \in 1..Len(s) : \A l \in 1..Len(s[k]) : s[k][l].open_price = list[k].open_price
  PROVE  Sorted(FlattenSeq(s))
<1> DEFINE q == FlattenSeq(s)
           n == Len(s)
<1>1. SUFFICES ASSUME NEW i \in 1..Len(q), NEW j \in 1..Len(q), i < j
               PROVE  (q[j].open_price - q[i].open_price) * Sign >= 0
  BY SortedMeans
<1>2. PICK a \in 1..n, b \in 1..n :
        /\ a <= b
        /\ \E l \in 1..Len(s[a]) : q[i] = s[a][l]
        /\ \E l \in 1..Len(s[b]) : q[j] = s[b][l]
  <2>1. \E a, b \in 1..Len(s) :
           /\ a <= b
           /\ \E l \in 1..Len(s[a]) : FlattenSeq(s)[i] = s[a][l]
           /\ \E l \in 1..Len(s[b]) : FlattenSeq(s)[j] = s[b][l]
    BY ONLY s \in Seq(Seq(PositionRecord)), i \in 1..Len(FlattenSeq(s)), j \in 1..Len(FlattenSeq(s)),
            <1>1, FlattenOrder, Zenon
  <2> QED
    BY <2>1
<1> HIDE DEF q
<1>3. q[i].open_price = list[a].open_price /\ q[j].open_price = list[b].open_price
  BY <1>2
<1>4. list[a].open_price \in Int /\ list[b].open_price \in Int
  <2>1. a \in DOMAIN list /\ b \in DOMAIN list
    OBVIOUS
  <2> QED
    BY <2>1, RecordFacts
<1>5. CASE a = b
  BY <1>3, <1>4, <1>5, SignFacts
<1>6. CASE a # b
  <2>1. a < b /\ a \in 1..Len(list) /\ b \in 1..Len(list)
    BY <1>2, <1>6
  <2> QED
    BY <1>3, <2>1, SortedMeans
<1> QED
  BY <1>5, <1>6

LEMMA PassSorted ==
  ASSUME NEW list \in Seq(PositionRecord), Sorted(list), NEW E, E \subseteq DOMAIN list,
         NEW size \in Int, NEW price \in Prices
  PROVE  Sorted(Pass(list, E, size, price))
<1> DEFINE n == Len(list)
           s == [k \in 1..n |-> PassPiece(list, E, size, price, k)]
<1>1. s \in Seq(Seq(PositionRecord)) /\ Pass(list, E, size, price) = FlattenSeq(s)
  BY PassHeld
<1>2. n \in Nat /\ DOMAIN list = 1..n /\ Len(s) = n
  OBVIOUS
<1>3. ASSUME NEW k \in 1..n, NEW l \in 1..Len(s[k])
      PROVE  s[k][l].open_price = list[k].open_price
  <2>1. k \in DOMAIN list /\ s[k] = PassPiece(list, E, size, price, k)
    BY <1>2
  <2> HIDE DEF s
  <2> QED
    BY <2>1, PieceLayout
<1> HIDE DEF s
<1>4. Sorted(FlattenSeq(s))
  BY <1>1, <1>2, <1>3, LayoutSorted
<1> QED
  BY <1>1, <1>4

-----------------------------------------------------------------------------
(* What the clean-up leaves.                                               *)

LEMMA CleanupFacts ==
  ASSUME NEW list \in Seq(PositionRecord)
  PROVE  LET clean == FlattenSeq([k \in DOMAIN list |->
                                    IF IsOpen(list[k]) THEN <<list[k]>> ELSE <<>>])
         IN  /\ clean \in Seq(PositionRecord)
             /\ Held(Int, clean) = Held(Int, list)
             /\ Sorted(list) => Sorted(clean)
<1> DEFINE n == Len(list)
           s == [k \in DOMAIN list |-> IF IsOpen(list[k]) THEN <<list[k]>> ELSE <<>>]
           w == Weight(Int)
           h == [k \in 1..n |-> Total(w, s[k])]
           held == [k \in 1..n |-> w[list[k]]]
<1>1. n \in Nat /\ DOMAIN list = 1..n /\ \A k \in 1..n : list[k] \in PositionRecord
  OBVIOUS
<1>2. \A k \in 1..n : s[k] = IF IsOpen(list[k]) THEN <<list[k]>> ELSE <<>>
  BY <1>1
<1>3. \A k \in 1..n : s[k] \in Seq(PositionRecord)
  BY <1>1, <1>2
<1>4. s \in Seq(Seq(PositionRecord)) /\ Len(s) = n
  <2>1. s = [k \in 1..n |-> s[k]]
    BY <1>1
  <2> QED
    BY <1>1, <1>3, <2>1
<1> HIDE DEF s
<1>5. FlattenSeq(s) \in Seq(PositionRecord)
  BY <1>4, FlattenFacts
<1>6. \A r \in PositionRecord : w[r] = (IF IsOpen(r) THEN r.open_size ELSE 0) /\ w[r] \in Int
  BY WeightFacts, RecordFacts
<1> HIDE DEF w
<1>7. /\ Total(w, <<>>) = 0
      /\ \A r \in PositionRecord : Total(w, <<r>>) = w[r]
  BY <1>6, TotalShort
<1>8. \A k \in 1..n : h[k] = held[k]
  BY <1>1, <1>2, <1>6, <1>7
<1>9. Total(w, FlattenSeq(s)) = SumFunctionOnSet(h, 1..n)
  <2>1. Total(w, FlattenSeq(s)) = SumFunctionOnSet([k \in 1..Len(s) |-> Total(w, s[k])], 1..Len(s))
    BY <1>4, <1>6, TotalFlatten
  <2> QED
    BY <1>4, <2>1
<1>10. SumFunctionOnSet(held, 1..n) = Total(w, list)
  BY DEF Total
<1>11. SumFunctionOnSet(h, 1..n) = SumFunctionOnSet(held, 1..n)
  <2> DEFINE S == 1..n
  <2>1. IsFiniteSet(S)
    BY <1>1, FS_Interval
  <2>3. \A k \in S : h[k] = held[k]
    BY <1>8
  <2> HIDE DEF S, h, held
  <2>2. SumFunctionOnSet(h, S) = SumFunctionOnSet(held, S)
    BY <2>1, <2>3, SumAgrees
  <2> QED
    BY <2>2 DEF S
<1>12. Held(Int, FlattenSeq(s)) = Held(Int, list)
  BY <1>9, <1>10, <1>11 DEF Held, w
<1>13. ASSUME Sorted(list)  PROVE Sorted(FlattenSeq(s))
  <2>1. \A k \in 1..n : \A l \in 1..Len(s[k]) : s[k][l].open_price = list[k].open_price
    <3> SUFFICES ASSUME NEW k \in 1..n, NEW l \in 1..Len(s[k])
                 PROVE  s[k][l].open_price = list[k].open_price
      OBVIOUS
    <3>1. CASE IsOpen(list[k])
      <4>1. s[k] = <<list[k]>>
        BY <1>2, <3>1
      <4>2. l = 1 /\ s[k][1] = list[k]
        BY <4>1
      <4> QED
        BY <4>2
    <3>2. CASE ~IsOpen(list[k])
      <4>1. s[k] = <<>>
        BY <1>2, <3>2
      <4> QED
        BY <4>1
    <3> QED
      BY <3>1, <3>2
  <2> QED
    BY <1>4, <1>13, <2>1, LayoutSorted
<1> QED
  BY <1>5, <1>12, <1>13 DEF s

-----------------------------------------------------------------------------
(* What closing leaves.                                                    *)

LEMMA WithProfitIn ==
  ASSUME NEW list, NEW price
  PROVE  WithProfit(list, price) \subseteq DOMAIN list
BY DEF WithProfit

LEMMA AfterCloseFacts ==
  ASSUME table \in Seq(PositionRecord), NEW size \in Nat, NEW price \in Prices
  PROVE  /\ AfterClose(size, price) \in Seq(PositionRecord)
         /\ Held(Int, AfterClose(size, price)) >= Held(Int, table) - size
         /\ Sorted(table) => Sorted(AfterClose(size, price))
<1> DEFINE E == WithProfit(table, price)
           all == SharesOf(table, E)
           left == size - all
           first == Pass(table, E, size, price)
           second == Pass(first, DOMAIN first, left, price)
<1>1. E \subseteq DOMAIN table
  BY WithProfitIn
<1>2. /\ all \in Nat /\ first \in Seq(PositionRecord)
      /\ Held(Int, first) >= Held(Int, table) - (IF size <= all THEN size ELSE all)
  <2> HIDE DEF E
  <2> QED
    BY <1>1, PassTakes
<1>3. Held(Int, table) \in Int /\ Held(Int, first) \in Int
  BY <1>2, HeldNat
<1>4. Sorted(table) => Sorted(first)
  <2>1. size \in Int
    OBVIOUS
  <2> HIDE DEF E
  <2> QED
    BY <1>1, <2>1, PassSorted
<1>5. AfterClose(size, price) = IF left > 0 THEN second ELSE first
  BY DEF AfterClose
<1> HIDE DEF E, all, first
<1>6. CASE left > 0
  <2>1. left \in Nat /\ DOMAIN first \subseteq DOMAIN first
    BY <1>2, <1>6
  <2> HIDE DEF left
  <2>2. /\ SharesOf(first, DOMAIN first) \in Nat /\ second \in Seq(PositionRecord)
        /\ Held(Int, second) >= Held(Int, first)
             - (IF left <= SharesOf(first, DOMAIN first) THEN left ELSE SharesOf(first, DOMAIN first))
    BY <1>2, <2>1, PassTakes
  <2>3. Held(Int, second) \in Int
    BY <2>2, HeldNat
  <2>4. Sorted(first) => Sorted(second)
    <3>1. left \in Int
      BY <2>1
    <3> QED
      BY <1>2, <2>1, <3>1, PassSorted
  <2>5. Held(Int, second) >= Held(Int, first) - left
    BY <1>3, <2>1, <2>2, <2>3
  <2>6. AfterClose(size, price) = second
    BY <1>5, <1>6
  <2> HIDE DEF second
  <2>7. Held(Int, second) >= Held(Int, table) - size
    BY <1>2, <1>3, <1>6, <2>3, <2>5 DEF left
  <2> QED
    BY <1>4, <2>2, <2>4, <2>6, <2>7
<1>7. CASE ~(left > 0)
  <2>1. AfterClose(size, price) = first
    BY <1>5, <1>7
  <2>2. Held(Int, first) >= Held(Int, table) - size
    BY <1>2, <1>3, <1>7
  <2> QED
    BY <1>2, <1>4, <2>1, <2>2
<1> QED
  BY <1>6, <1>7

-----------------------------------------------------------------------------
(* What opening leaves.                                                    *)

LEMMA InsertFacts ==
  ASSUME NEW list \in Seq(PositionRecord), NEW i \in 1..Len(list), NEW r \in PositionRecord
  PROVE  /\ InsertAt(list, i, r) \in Seq(PositionRecord)
         /\ Len(InsertAt(list, i, r)) = Len(list) + 1
         /\ \A j \in 1..(Len(list) + 1) :
              InsertAt(list, i, r)[j] = IF j < i THEN list[j] ELSE IF j = i THEN r ELSE list[j - 1]
         /\ Held(Int, InsertAt(list, i, r)) = Held(Int, list) + Weight(Int)[r]
<1> DEFINE a == SubSeq(list, 1, i - 1)
           b == SubSeq(list, i, Len(list))
           c == a \o <<r>>
           q == c \o b
           w == Weight(Int)
<1>1. Len(list) \in Nat /\ i \in Int /\ \A j \in 1..Len(list) : list[j] \in PositionRecord
  OBVIOUS
<1>2. /\ a \in Seq(PositionRecord) /\ Len(a) = i - 1
      /\ \A j \in 1..(i - 1) : a[j] = list[j]
  <2>1. i - 1 \in Int /\ 1 \in Int /\ \A j \in 1..(i - 1) : list[j] \in PositionRecord
    OBVIOUS
  <2>2. /\ a \in Seq(PositionRecord) /\ Len(a) = IF 1 <= i - 1 THEN (i - 1) - 1 + 1 ELSE 0
        /\ \A j \in 1..((i - 1) - 1 + 1) : a[j] = list[1 + j - 1]
    BY <2>1, SubSeqProperties
  <2> HIDE DEF a
  <2> QED
    BY <1>1, <2>2
<1>3. /\ b \in Seq(PositionRecord) /\ Len(b) = Len(list) - i + 1
      /\ \A j \in 1..(Len(list) - i + 1) : b[j] = list[i + j - 1]
  <2>1. i \in Int /\ Len(list) \in Int /\ \A j \in i..Len(list) : list[j] \in PositionRecord
    OBVIOUS
  <2>2. /\ b \in Seq(PositionRecord) /\ Len(b) = IF i <= Len(list) THEN Len(list) - i + 1 ELSE 0
        /\ \A j \in 1..(Len(list) - i + 1) : b[j] = list[i + j - 1]
    BY <2>1, SubSeqProperties
  <2> HIDE DEF b
  <2> QED
    BY <1>1, <2>2
<1>4. <<r>> \in Seq(PositionRecord) /\ Len(<<r>>) = 1 /\ <<r>>[1] = r
  OBVIOUS
<1> HIDE DEF a, b
<1>5. /\ c \in Seq(PositionRecord) /\ Len(c) = i
      /\ \A j \in 1..i : c[j] = IF j < i THEN list[j] ELSE r
  <2>1. /\ c \in Seq(PositionRecord) /\ Len(c) = Len(a) + Len(<<r>>)
        /\ \A j \in 1..(Len(a) + Len(<<r>>)) : c[j] = IF j <= Len(a) THEN a[j] ELSE <<r>>[j - Len(a)]
    BY <1>2, <1>4, ConcatProperties
  <2> HIDE DEF c
  <2>2. \A j \in 1..i : j < i => c[j] = list[j]
    BY <1>2, <1>4, <2>1
  <2>3. c[i] = r
    <3>1. i - Len(a) = 1 /\ ~(i <= Len(a)) /\ i \in 1..(Len(a) + Len(<<r>>))
      BY <1>2, <1>4
    <3> QED
      BY <1>4, <2>1, <3>1
  <2> QED
    BY <1>2, <1>4, <2>1, <2>2, <2>3
<1>6. /\ q \in Seq(PositionRecord) /\ Len(q) = Len(list) + 1
      /\ \A j \in 1..(Len(list) + 1) : q[j] = IF j < i THEN list[j] ELSE IF j = i THEN r ELSE list[j - 1]
  <2> HIDE DEF c
  <2>1. /\ q \in Seq(PositionRecord) /\ Len(q) = Len(c) + Len(b)
        /\ \A j \in 1..(Len(c) + Len(b)) : q[j] = IF j <= Len(c) THEN c[j] ELSE b[j - Len(c)]
    BY <1>3, <1>5, ConcatProperties
  <2> HIDE DEF q
  <2>2. ASSUME NEW j \in 1..(Len(list) + 1)
        PROVE  q[j] = IF j < i THEN list[j] ELSE IF j = i THEN r ELSE list[j - 1]
    <3>1. CASE j <= i
      BY <1>1, <1>3, <1>5, <2>1, <3>1
    <3>2. CASE j > i
      <4>1. j - i \in 1..(Len(list) - i + 1) /\ i + (j - i) - 1 = j - 1
        BY <1>1, <3>2
      <4>2. q[j] = b[j - i]
        BY <1>1, <1>3, <1>5, <2>1, <3>2
      <4> QED
        BY <1>1, <1>3, <3>2, <4>1, <4>2
    <3> QED
      BY <1>1, <3>1, <3>2
  <2> QED
    BY <1>1, <1>3, <1>5, <2>1, <2>2
<1>7. list = a \o b
  <2> DEFINE d == a \o b
  <2>1. /\ d \in Seq(PositionRecord) /\ Len(d) = Len(a) + Len(b)
        /\ \A j \in 1..(Len(a) + Len(b)) : d[j] = IF j <= Len(a) THEN a[j] ELSE b[j - Len(a)]
    BY <1>2, <1>3, ConcatProperties
  <2> HIDE DEF d
  <2>2. Len(d) = Len(list)
    BY <1>1, <1>2, <1>3, <2>1
  <2>3. ASSUME NEW j \in 1..Len(list)  PROVE list[j] = d[j]
    <3>1. CASE j <= i - 1
      <4>1. j \in 1..(i - 1) /\ j <= Len(a) /\ j \in 1..(Len(a) + Len(b))
        BY <1>1, <1>2, <1>3, <3>1
      <4>2. d[j] = a[j]
        BY <2>1, <4>1
      <4> QED
        BY <1>2, <4>1, <4>2
    <3>2. CASE j > i - 1
      <4>1. /\ j - (i - 1) \in 1..(Len(list) - i + 1) /\ i + (j - (i - 1)) - 1 = j
            /\ ~(j <= Len(a)) /\ j \in 1..(Len(a) + Len(b)) /\ Len(a) = i - 1
        BY <1>1, <1>2, <1>3, <3>2
      <4>2. d[j] = b[j - (i - 1)]
        BY <2>1, <4>1
      <4>3. b[j - (i - 1)] = list[i + (j - (i - 1)) - 1]
        BY <1>3, <4>1
      <4> QED
        BY <4>1, <4>2, <4>3
    <3> QED
      BY <1>1, <3>1, <3>2
  <2>4. list = d
    BY <2>1, <2>2, <2>3, SeqEqual
  <2> QED
    BY <2>4 DEF d
<1>8. Total(w, q) = Total(w, list) + w[r]
  <2>1. \A x \in PositionRecord : w[x] \in Int
    BY WeightFacts
  <2>2. \A x \in PositionRecord : Total(w, <<x>>) = w[x]
    <3> HIDE DEF w
    <3> QED
      BY <2>1, TotalShort
  <2> HIDE DEF w
  <2>3. Total(w, c) = Total(w, a) + Total(w, <<r>>)
    BY <1>2, <1>4, <2>1, TotalJoins
  <2>4. Total(w, a \o b) = Total(w, a) + Total(w, b)
    BY <1>2, <1>3, <2>1, TotalJoins
  <2> HIDE DEF c
  <2>5. Total(w, q) = Total(w, c) + Total(w, b)
    BY <1>3, <1>5, <2>1, TotalJoins
  <2>6. Total(w, a) \in Int /\ Total(w, b) \in Int
    BY <1>2, <1>3, <2>1, TotalInt
  <2>7. Total(w, list) = Total(w, a) + Total(w, b)
    BY <1>7, <2>4
  <2>8. Total(w, <<r>>) = w[r] /\ w[r] \in Int
    BY <2>1, <2>2
  <2> HIDE DEF q
  <2> QED
    BY <2>3, <2>5, <2>6, <2>7, <2>8
<1>9. InsertAt(list, i, r) = q
  BY DEF InsertAt, a, b
<1> HIDE DEF q
<1> QED
  BY <1>6, <1>8, <1>9 DEF Held, w

LEMMA AppendFacts ==
  ASSUME NEW list \in Seq(PositionRecord), NEW r \in PositionRecord
  PROVE  /\ Append(list, r) \in Seq(PositionRecord)
         /\ Len(Append(list, r)) = Len(list) + 1
         /\ \A j \in 1..Len(list) : Append(list, r)[j] = list[j]
         /\ Append(list, r)[Len(list) + 1] = r
         /\ Held(Int, Append(list, r)) = Held(Int, list) + Weight(Int)[r]
<1> DEFINE w == Weight(Int)
<1>1. Append(list, r) = list \o <<r>>
  BY AppendIsConcat
<1>2. <<r>> \in Seq(PositionRecord)
  OBVIOUS
<1>3. \A x \in PositionRecord : w[x] \in Int
  BY WeightFacts
<1> HIDE DEF w
<1>4. Total(w, <<r>>) = w[r]
  BY <1>3, TotalShort
<1>5. Total(w, list \o <<r>>) = Total(w, list) + Total(w, <<r>>)
  BY <1>2, <1>3, TotalJoins
<1>6. Held(Int, Append(list, r)) = Held(Int, list) + Weight(Int)[r]
  BY <1>1, <1>4, <1>5 DEF Held, w
<1> QED
  BY <1>6, AppendProperties

(* The list after a fill that opens: with its shares, and in its place.    *)
Opened(size, price) ==
  IF LaterThan(price) = {} THEN Append(table, OpenRecord(size, price))
  ELSE InsertAt(table, Min(LaterThan(price)), OpenRecord(size, price))

LEMMA OpenedFacts ==
  ASSUME table \in Seq(PositionRecord), NEW size \in Nat \ {0}, NEW price \in Prices
  PROVE  /\ Opened(size, price) \in Seq(PositionRecord)
         /\ Held(Int, Opened(size, price)) = Held(Int, table) + size
         /\ Sorted(table) => Sorted(Opened(size, price))
<1> DEFINE r == OpenRecord(size, price)
           q == Opened(size, price)
           L == LaterThan(price)
           n == Len(table)
           P(k) == table[k].open_price
<1>1. price \in Int /\ n \in Nat /\ DOMAIN table = 1..n
  BY ConstantFacts
<1>2. r \in PositionRecord /\ r.open_price = price /\ IsOpen(r) /\ r.open_size = size
  BY <1>1, OpenRecordFacts
<1> HIDE DEF r
<1>3. Weight(Int)[r] = size
  BY <1>1, <1>2, WeightFacts
<1>4. \A k \in 1..n : P(k) \in Int /\ (k \in L <=> (P(k) - price) * Sign > 0)
  BY <1>1, RecordFacts DEF LaterThan
<1>5. L \subseteq 1..n
  BY <1>1 DEF LaterThan
<1>6. Sign = 1 \/ Sign = -1
  BY SignFacts
<1>7. ASSUME Sorted(table)
      PROVE  \A i, j \in 1..n : i < j => (P(j) - P(i)) * Sign >= 0
  BY <1>7, SortedMeans
<1> HIDE DEF L, P
<1>8. CASE L = {}
  <2>1. q = Append(table, r)
    BY <1>8 DEF Opened, L, r
  <2>2. /\ q \in Seq(PositionRecord) /\ Len(q) = n + 1
        /\ \A j \in 1..n : q[j] = table[j]
        /\ q[n + 1] = r /\ Held(Int, q) = Held(Int, table) + size
    BY <1>2, <1>3, <2>1, AppendFacts
  <2> HIDE DEF q
  <2>3. ASSUME Sorted(table), NEW i \in 1..Len(q), NEW j \in 1..Len(q), i < j
        PROVE  (q[j].open_price - q[i].open_price) * Sign >= 0
    <3>1. i \in 1..n /\ q[i].open_price = P(i)
      BY <1>1, <2>2, <2>3 DEF P
    <3>2. CASE j = n + 1
      <4>1. q[j].open_price = price /\ ~((P(i) - price) * Sign > 0) /\ P(i) \in Int
        BY <1>2, <1>4, <1>8, <2>2, <3>1, <3>2
      <4> QED
        BY <1>1, <1>6, <3>1, <4>1
    <3>3. CASE j # n + 1
      <4>1. j \in 1..n /\ q[j].open_price = P(j)
        BY <1>1, <2>2, <3>3 DEF P
      <4> QED
        BY <1>7, <2>3, <3>1, <4>1
    <3> QED
      BY <3>2, <3>3
  <2>4. Sorted(table) => Sorted(q)
    BY <2>3, SortedMeans
  <2> QED
    BY <2>2, <2>4 DEF q
<1>9. CASE L # {}
  <2> DEFINE m == Min(L)
  <2>1. m \in L /\ \A k \in L : m <= k
    <3>1. L \subseteq Nat
      BY <1>5
    <3>2. \E x \in L : \A k \in L : x <= k
      BY <1>9, <3>1, SmallestIndex
    <3> QED
      BY <3>2 DEF Min
  <2>2. m \in 1..n
    BY <1>5, <2>1
  <2>3. q = InsertAt(table, m, r)
    BY <1>9 DEF Opened, L, r
  <2> HIDE DEF m
  <2>4. /\ q \in Seq(PositionRecord) /\ Len(q) = n + 1
        /\ \A j \in 1..(n + 1) : q[j] = IF j < m THEN table[j] ELSE IF j = m THEN r ELSE table[j - 1]
        /\ Held(Int, q) = Held(Int, table) + size
    BY <1>2, <1>3, <2>2, <2>3, InsertFacts
  <2> HIDE DEF q
  <2>5. \A j \in 1..(n + 1) : /\ j < m => j \in 1..n /\ q[j].open_price = P(j)
                              /\ j = m => q[j].open_price = price
                              /\ j > m => j - 1 \in 1..n /\ q[j].open_price = P(j - 1)
    BY <1>1, <1>2, <2>2, <2>4 DEF P
  <2>6. ASSUME Sorted(table), NEW k \in 1..n
        PROVE  /\ k < m => (price - P(k)) * Sign >= 0
               /\ k >= m => (P(k) - price) * Sign >= 0
    <3>1. P(k) \in Int /\ P(m) \in Int /\ (P(m) - price) * Sign > 0
      BY <1>4, <2>1, <2>2
    <3>2. CASE k < m
      <4>1. k \notin L
        BY <2>1, <2>2, <3>2
      <4>2. ~((P(k) - price) * Sign > 0)
        BY <1>4, <4>1
      <4> QED
        BY <1>1, <1>6, <2>2, <3>1, <3>2, <4>2
    <3>3. CASE k = m
      BY <2>2, <3>1, <3>3, <1>1, <1>6
    <3>4. CASE k > m
      <4>1. (P(k) - P(m)) * Sign >= 0
        BY <1>7, <2>2, <2>6, <3>4
      <4> QED
        BY <1>1, <1>6, <2>2, <3>1, <3>4, <4>1
    <3> QED
      BY <2>2, <3>2, <3>3, <3>4
  <2>7. ASSUME Sorted(table), NEW i \in 1..Len(q), NEW j \in 1..Len(q), i < j
        PROVE  (q[j].open_price - q[i].open_price) * Sign >= 0
    <3>1. i \in 1..(n + 1) /\ j \in 1..(n + 1)
      BY <2>4
    <3>2. CASE i < m /\ j < m
      BY <1>7, <2>5, <2>7, <3>1, <3>2
    <3>3. CASE i < m /\ j = m
      BY <2>5, <2>6, <2>7, <3>1, <3>3
    <3>4. CASE i < m /\ j > m
      <4>1. i \in 1..n /\ j - 1 \in 1..n /\ i < j - 1
        BY <2>2, <2>5, <3>1, <3>4
      <4>2. (P(j - 1) - P(i)) * Sign >= 0
        BY <1>7, <2>7, <4>1
      <4> QED
        BY <2>5, <3>1, <3>4, <4>2
    <3>5. CASE i = m
      <4>1. j > m /\ j - 1 \in 1..n /\ j - 1 >= m
        BY <2>2, <2>5, <2>7, <3>1, <3>5
      <4>2. (P(j - 1) - price) * Sign >= 0
        BY <2>6, <2>7, <4>1
      <4> QED
        BY <2>5, <3>1, <3>5, <4>1, <4>2
    <3>6. CASE i > m
      <4>1. j > m /\ i - 1 \in 1..n /\ j - 1 \in 1..n /\ i - 1 < j - 1
        BY <2>2, <2>5, <2>7, <3>1, <3>6
      <4>2. (P(j - 1) - P(i - 1)) * Sign >= 0
        BY <1>7, <2>7, <4>1
      <4> QED
        BY <2>5, <3>1, <3>6, <4>1, <4>2
    <3> QED
      BY <2>2, <2>7, <3>1, <3>2, <3>3, <3>4, <3>5, <3>6
  <2>8. Sorted(table) => Sorted(q)
    BY <2>7, SortedMeans
  <2> QED
    BY <2>4, <2>8 DEF q
<1> QED
  BY <1>8, <1>9

-----------------------------------------------------------------------------
(* What repackaging leaves.                                                *)

LEMMA CeilFacts ==
  ASSUME NEW o \in Nat, NEW b \in Nat \ {0}
  PROVE  /\ CeilDiv(o, b) \in Nat
         /\ CeilDiv(o, b) * b >= o
         /\ \A m \in Nat : m < CeilDiv(o, b) => m * b < o
<1> DEFINE c == (o + b - 1) \div b
<1>1. c \in Int /\ b * c <= o + b - 1 /\ o + b - 1 < b * c + b
  OBVIOUS
<1> HIDE DEF c
<1>2. b * c >= o
  BY <1>1
<1>3. c \in Nat
  <2>1. CASE c < 0
    <3>1. b * c <= -b /\ b * c \in Int
      BY <1>1, <2>1
    <3> DEFINE x == b * c
    <3>2. x <= -b /\ x \in Int /\ x >= o
      BY <1>2, <3>1
    <3> HIDE DEF x
    <3> QED
      BY <3>2
  <2> QED
    BY <1>1, <2>1
<1>4. ASSUME NEW m \in Nat, m < c  PROVE m * b < o
  <2>1. m + 1 <= c
    BY <1>1, <1>4
  <2>2. (m + 1) * b <= c * b
    BY <1>1, <2>1
  <2> QED
    BY <1>1, <2>2
<1>5. CeilDiv(o, b) = c
  BY DEF CeilDiv, c
<1>6. c * b >= o
  BY <1>1, <1>2
<1> QED
  BY <1>3, <1>4, <1>5, <1>6

(* Equal orders of b shares, and one of what is left, make o shares.       *)
LEMMA PackedTogether ==
  ASSUME NEW o \in Nat, NEW b \in Nat \ {0}, NEW c \in Nat, c * b >= o,
         \A m \in Nat : m < c => m * b < o,
         NEW f, \A i \in 1..c : f[i] = Min({b, o - (i - 1) * b})
  PROVE  /\ \A i \in 1..c : f[i] \in Nat \ {0}
         /\ SumFunctionOnSet(f, 1..c) = o
<1>1. ASSUME NEW i \in 1..c
      PROVE  /\ (i - 1) * b \in Int /\ (i - 1) * b < o /\ i * b = (i - 1) * b + b
             /\ f[i] = IF i * b <= o THEN b ELSE o - (i - 1) * b
             /\ f[i] \in Nat \ {0} /\ f[i] \in Int
  <2>1. i - 1 \in Nat /\ i - 1 < c
    OBVIOUS
  <2>2. (i - 1) * b < o /\ (i - 1) * b \in Int
    BY <2>1
  <2>3. i * b = (i - 1) * b + b
    OBVIOUS
  <2> DEFINE x == (i - 1) * b
             y == i * b
  <2>4. f[i] = Min({b, o - x})
    OBVIOUS
  <2>5. x \in Int /\ x < o /\ y = x + b
    BY <2>2, <2>3
  <2> HIDE DEF x, y
  <2>6. o - x \in Int /\ b \in Int
    BY <2>5
  <2>7. Min({b, o - x}) = IF b <= o - x THEN b ELSE o - x
    BY <2>6, MinTwo
  <2>8. f[i] = (IF y <= o THEN b ELSE o - x) /\ f[i] \in Nat \ {0}
    BY <2>4, <2>5, <2>7
  <2> QED
    BY <2>5, <2>8 DEF x, y
<1> DEFINE Good(m) == SumFunctionOnSet(f, 1..m) = IF m * b <= o THEN m * b ELSE o
           B == {m \in Nat : m <= c /\ ~Good(m)}
<1>2. ASSUME B # {}  PROVE FALSE
  <2>0. B \subseteq Nat
    OBVIOUS
  <2> HIDE DEF B
  <2>1. PICK m \in B : \A k \in B : m <= k
    BY <1>2, <2>0, SmallestIndex
  <2> USE DEF B
  <2>2. CASE m = 0
    <3>1. 1..0 = {} /\ 0 * b = 0
      OBVIOUS
    <3>2. SumFunctionOnSet(f, {}) = 0
      BY SumEmpty
    <3>3. Good(0)
      BY <3>1, <3>2
    <3> HIDE DEF Good
    <3> QED
      BY <2>1, <2>2, <3>3
  <2>3. CASE m # 0
    <3> DEFINE p == m - 1
    <3>1. p \in Nat /\ m = p + 1 /\ p < m /\ p < c /\ p <= c /\ m \in 1..c /\ m - 1 = p
      BY <2>1, <2>3
    <3>2. Good(p)
      <4> HIDE DEF Good, p
      <4> QED
        BY <2>1, <3>1
    <3>3. /\ p * b \in Int /\ p * b < o /\ m * b = p * b + b
          /\ f[m] = IF m * b <= o THEN b ELSE o - p * b
      BY <1>1, <3>1
    <3>4. /\ SumFunctionOnSet(f, 1..p) \in Int
          /\ SumFunctionOnSet(f, 1..(p + 1)) = SumFunctionOnSet(f, 1..p) + f[p + 1]
      <4>1. \A k \in 1..(p + 1) : f[k] \in Int
        BY <1>1, <3>1
      <4> HIDE DEF p
      <4> QED
        BY <3>1, <4>1, SumExtends
    <3>5. SumFunctionOnSet(f, 1..m) = SumFunctionOnSet(f, 1..p) + f[m]
      <4> HIDE DEF p
      <4> QED
        BY <3>1, <3>4
    <3> DEFINE x == p * b
               y == m * b
               u == SumFunctionOnSet(f, 1..p)
               v == SumFunctionOnSet(f, 1..m)
    <3>6. /\ x \in Int /\ x < o /\ y = x + b /\ f[m] = (IF y <= o THEN b ELSE o - x)
          /\ v = u + f[m] /\ u = IF x <= o THEN x ELSE o
      BY <3>2, <3>3, <3>5
    <3> HIDE DEF x, y, u, v
    <3>7. v = IF y <= o THEN y ELSE o
      BY <3>6
    <3>8. Good(m)
      BY <3>7 DEF v, y
    <3> HIDE DEF Good
    <3> QED
      BY <2>1, <3>8
  <2> QED
    BY <2>2, <2>3
<1>3. Good(c)
  <2> HIDE DEF Good
  <2> QED
    BY <1>2
<1>4. SumFunctionOnSet(f, 1..c) = o
  BY <1>3
<1> QED
  BY <1>1, <1>4

LEMMA RepackagingFacts ==
  ASSUME open_size \in Nat, NEW average \in Prices, Repackaging(average)
  PROVE  table' \in Seq(PositionRecord) /\ Held(Int, table') = open_size
<1> DEFINE noe  == CeilDiv(open_size, BaseQty)
           noeh == CeilDiv(noe, 2)
           SizeOf(i)  == Min({BaseQty, open_size - (i - 1) * BaseQty})
           PriceOf(i) == IF i <= noeh THEN average - (noeh - i) * Sign
                                      ELSE average - (i - noeh) * Sign
           q == [i \in 1..noe |-> OpenRecord(SizeOf(i), PriceOf(i))]
           f == [i \in 1..noe |-> SizeOf(i)]
           w == Weight(Int)
           h == [k \in 1..noe |-> w[q[k]]]
<1>1. BaseQty \in Nat \ {0} /\ Prices \subseteq Int
  BY ConstantFacts
<1>2. /\ noe \in Nat /\ noe * BaseQty >= open_size
      /\ \A m \in Nat : m < noe => m * BaseQty < open_size
  BY <1>1, CeilFacts
<1>3. (\A i \in 1..noe : PriceOf(i) \in Prices) /\ table' = q
  BY DEF Repackaging
<1> HIDE DEF noe, noeh, PriceOf
<1>4. /\ \A i \in 1..noe : f[i] \in Nat \ {0}
      /\ SumFunctionOnSet(f, 1..noe) = open_size
  <2>1. \A i \in 1..noe : f[i] = Min({BaseQty, open_size - (i - 1) * BaseQty})
    OBVIOUS
  <2> HIDE DEF f
  <2> QED
    BY <1>1, <1>2, <2>1, PackedTogether
<1>5. \A i \in 1..noe : f[i] = SizeOf(i)
  OBVIOUS
<1> HIDE DEF SizeOf
<1>6. \A i \in 1..noe : /\ q[i] \in PositionRecord /\ IsOpen(q[i])
                        /\ q[i].open_size = f[i] /\ q[i].open_price \in Int
  <2> SUFFICES ASSUME NEW i \in 1..noe
               PROVE  /\ q[i] \in PositionRecord /\ IsOpen(q[i])
                      /\ q[i].open_size = f[i] /\ q[i].open_price \in Int
    OBVIOUS
  <2>1. SizeOf(i) \in Nat \ {0} /\ PriceOf(i) \in Int
    BY <1>1, <1>3, <1>4, <1>5
  <2>2. q[i] = OpenRecord(SizeOf(i), PriceOf(i))
    OBVIOUS
  <2> QED
    BY <1>5, <2>1, <2>2, OpenRecordFacts
<1>7. q \in Seq(PositionRecord) /\ Len(q) = noe
  BY <1>2, <1>6
<1> HIDE DEF f
<1>8. \A k \in 1..noe : h[k] = f[k]
  <2> SUFFICES ASSUME NEW k \in 1..noe  PROVE h[k] = f[k]
    OBVIOUS
  <2>1. h[k] = w[q[k]]
    OBVIOUS
  <2> HIDE DEF q, h
  <2> QED
    BY <1>6, <2>1, WeightFacts
<1>9. Held(Int, q) = SumFunctionOnSet(h, 1..noe)
  <2>1. Held(Int, q) = SumFunctionOnSet([k \in 1..Len(q) |-> w[q[k]]], 1..Len(q))
    BY DEF Held, Total
  <2> HIDE DEF q, w
  <2> QED
    BY <1>7, <2>1
<1>10. SumFunctionOnSet(h, 1..noe) = SumFunctionOnSet(f, 1..noe)
  <2> DEFINE S == 1..noe
  <2>1. IsFiniteSet(S)
    BY <1>2, FS_Interval
  <2>2. \A k \in S : h[k] = f[k]
    BY <1>8
  <2> HIDE DEF S, h
  <2>3. SumFunctionOnSet(h, S) = SumFunctionOnSet(f, S)
    BY <2>1, <2>2, SumAgrees
  <2> QED
    BY <2>3 DEF S
<1> HIDE DEF q, h
<1> QED
  BY <1>3, <1>4, <1>7, <1>9, <1>10

-----------------------------------------------------------------------------
(* The inductive invariant: open_size counts, modulo its width, what the   *)
(* account has gained since the start, and the list holds no less.         *)

Counted == open_size = Unsigned(total - restored)

IInv == TypeOK /\ Counted /\ OpenIsCovered

LEMMA TypedFacts ==
  ASSUME TypeOK
  PROVE  /\ table \in Seq(PositionRecord)
         /\ total \in Nat /\ total <= MaxTotal /\ restored \in Nat /\ restored <= MaxTotal
         /\ MaxTotal \in Nat /\ OpenShares(table) = Held(Int, table) /\ Held(Int, table) \in Int
<1>1. table \in Seq(PositionRecord) /\ total \in 0..MaxTotal /\ restored \in Restored
  BY DEF TypeOK
<1> QED
  BY <1>1, ConstantFacts, OpenSharesHeld, HeldNat

LEMMA InitInv == Init => IInv
<1> SUFFICES ASSUME Init  PROVE IInv
  OBVIOUS
<1>1. /\ table = <<>> /\ open_size = 0 /\ total \in Restored /\ restored = total
      /\ MaxTotal \in Nat /\ total \in 0..MaxTotal /\ total - restored = 0
  BY ConstantFacts DEF Init
<1>2. <<>> \in Seq(PositionRecord)
  OBVIOUS
<1>3. Unsigned(0) = 0 /\ 0 \in 0..(2^Width - 1)
  <2>1. 0 \in Int /\ -MaxTotal <= 0 /\ 0 <= MaxTotal /\ 0 + 0 = 0
    BY <1>1
  <2>2. Unsigned(0) = (IF 0 >= 0 THEN 0 ELSE 0 + 2^Width) /\ Unsigned(0) \in 0..(2^Width - 1)
    BY <2>1, UnsignedCounts
  <2> QED
    BY <2>2
<1>4. TypeOK /\ Counted
  BY <1>1, <1>2, <1>3 DEF TypeOK, Counted
<1>5. Held(Int, table) = 0
  <2>1. \A r \in PositionRecord : Weight(Int)[r] \in Int
    BY WeightFacts
  <2>2. Total(Weight(Int), <<>>) = 0
    BY <2>1, TotalShort
  <2> QED
    BY <1>1, <2>2 DEF Held
<1>6. OpenIsCovered
  BY <1>1, <1>4, <1>5, TypedFacts DEF OpenIsCovered
<1> QED
  BY <1>4, <1>6 DEF IInv

LEMMA OpenFillStep ==
  ASSUME IInv, NEW size \in Sizes, NEW price \in Prices, OnOpenFill(size, price)
  PROVE  IInv'
<1>1. /\ table \in Seq(PositionRecord) /\ total \in Nat /\ restored \in Nat
      /\ total <= MaxTotal /\ restored <= MaxTotal /\ MaxTotal \in Nat
      /\ Held(Int, table) \in Int /\ Held(Int, table) >= total - restored
  BY TypedFacts DEF IInv, OpenIsCovered
<1>2. size \in Nat \ {0}
  BY ConstantFacts
<1>3. /\ total + size <= MaxTotal /\ total' = total + size /\ restored' = restored
      /\ open_size' = Unsigned(open_size + size) /\ table' = Opened(size, price)
  BY DEF OnOpenFill, Opened
<1>4. table' \in Seq(PositionRecord) /\ Held(Int, table') = Held(Int, table) + size
  BY <1>1, <1>2, <1>3, OpenedFacts
<1>5. /\ Unsigned(Unsigned(total - restored) + size) = Unsigned((total - restored) + size)
      /\ Unsigned(Unsigned(total - restored) + size) \in 0..(2^Width - 1)
  <2> DEFINE a == total - restored
  <2>1. a \in Int /\ size \in Int /\ -MaxTotal <= a /\ a <= MaxTotal
        /\ -MaxTotal <= a + size /\ a + size <= MaxTotal
    BY <1>1, <1>2, <1>3
  <2> HIDE DEF a
  <2>2. /\ Unsigned(Unsigned(a) + size) = Unsigned(a + size)
        /\ Unsigned(Unsigned(a) + size) \in 0..(2^Width - 1)
    BY <2>1, UnsignedCounts
  <2> QED
    BY <2>2 DEF a
<1>6. total' - restored' = (total - restored) + size
  BY <1>1, <1>2, <1>3
<1>7. Counted' /\ open_size' \in 0..(2^Width - 1)
  <2>1. open_size' = Unsigned(Unsigned(total - restored) + size)
    BY <1>3 DEF IInv, Counted
  <2>2. Unsigned((total - restored) + size) = Unsigned(total' - restored')
    BY <1>6
  <2> QED
    BY <1>5, <2>1, <2>2 DEF Counted
<1>8. TypeOK'
  BY <1>1, <1>2, <1>3, <1>4, <1>7 DEF TypeOK, IInv
<1>9. OpenIsCovered'
  <2>1. OpenShares(table') = Held(Int, table')
    BY <1>4, OpenSharesHeld
  <2> QED
    BY <1>1, <1>2, <1>4, <1>6, <2>1 DEF OpenIsCovered
<1> QED
  BY <1>7, <1>8, <1>9 DEF IInv

LEMMA CloseFillStep ==
  ASSUME IInv, NEW size \in Sizes, NEW price \in Prices, OnCloseFill(size, price)
  PROVE  IInv'
<1>1. /\ table \in Seq(PositionRecord) /\ total \in Nat /\ restored \in Nat
      /\ total <= MaxTotal /\ restored <= MaxTotal /\ MaxTotal \in Nat
      /\ Held(Int, table) \in Int /\ Held(Int, table) >= total - restored
  BY TypedFacts DEF IInv, OpenIsCovered
<1>2. size \in Nat \ {0}
  BY ConstantFacts
<1>3. /\ size <= total /\ total' = total - size /\ restored' = restored
      /\ open_size' = Unsigned(open_size - size) /\ table' = AfterClose(size, price)
  BY DEF OnCloseFill
<1>4. table' \in Seq(PositionRecord) /\ Held(Int, table') >= Held(Int, table) - size
  <2>1. size \in Nat
    BY <1>2
  <2> QED
    BY <1>1, <1>3, <2>1, AfterCloseFacts
<1>5. /\ Unsigned(Unsigned(total - restored) + (-size)) = Unsigned((total - restored) + (-size))
      /\ Unsigned(Unsigned(total - restored) + (-size)) \in 0..(2^Width - 1)
      /\ Unsigned(total - restored) \in Int
  <2> DEFINE a == total - restored
             b == -size
  <2>1. a \in Int /\ b \in Int /\ -MaxTotal <= a /\ a <= MaxTotal
        /\ -MaxTotal <= a + b /\ a + b <= MaxTotal
    BY <1>1, <1>2, <1>3
  <2> HIDE DEF a, b
  <2>2. /\ Unsigned(Unsigned(a) + b) = Unsigned(a + b)
        /\ Unsigned(Unsigned(a) + b) \in 0..(2^Width - 1)
        /\ Unsigned(a) \in 0..(2^Width - 1)
    BY <2>1, UnsignedCounts
  <2> QED
    BY <2>2 DEF a, b
<1>6. total' - restored' = (total - restored) + (-size)
  BY <1>1, <1>2, <1>3
<1>7. Counted' /\ open_size' \in 0..(2^Width - 1)
  <2>1. open_size = Unsigned(total - restored)
    BY DEF IInv, Counted
  <2>2. open_size - size = Unsigned(total - restored) + (-size)
    BY <1>2, <1>5, <2>1
  <2>3. open_size' = Unsigned(Unsigned(total - restored) + (-size))
    BY <1>3, <2>2
  <2>4. Unsigned((total - restored) + (-size)) = Unsigned(total' - restored')
    BY <1>6
  <2> QED
    BY <1>5, <2>3, <2>4 DEF Counted
<1>8. TypeOK'
  BY <1>1, <1>2, <1>3, <1>4, <1>7 DEF TypeOK, IInv
<1>9. OpenIsCovered'
  <2>1. OpenShares(table') = Held(Int, table') /\ Held(Int, table') \in Int
    BY <1>4, OpenSharesHeld, HeldNat
  <2> QED
    BY <1>1, <1>2, <1>4, <1>6, <2>1 DEF OpenIsCovered
<1> QED
  BY <1>7, <1>8, <1>9 DEF IInv

LEMMA CleanupStep ==
  ASSUME IInv, DeleteCompletePosition
  PROVE  IInv'
<1>1. table \in Seq(PositionRecord) /\ Held(Int, table) >= total - restored
  BY TypedFacts DEF IInv, OpenIsCovered
<1>2. open_size' = open_size /\ total' = total /\ restored' = restored
  BY DEF DeleteCompletePosition
<1>3. table' \in Seq(PositionRecord) /\ Held(Int, table') = Held(Int, table)
  BY <1>1, CleanupFacts DEF DeleteCompletePosition
<1>4. TypeOK' /\ Counted'
  BY <1>2, <1>3 DEF IInv, TypeOK, Counted
<1>5. OpenShares(table') = Held(Int, table')
  BY <1>3, OpenSharesHeld
<1>6. OpenIsCovered'
  BY <1>1, <1>2, <1>3, <1>5 DEF OpenIsCovered
<1> QED
  BY <1>4, <1>6 DEF IInv

LEMMA RepackagingStep ==
  ASSUME IInv, NEW average \in Prices, Repackaging(average)
  PROVE  IInv'
<1>1. /\ total \in Nat /\ restored \in Nat
      /\ total <= MaxTotal /\ restored <= MaxTotal /\ MaxTotal \in Nat
  BY TypedFacts DEF IInv
<1>2. open_size \in Nat /\ open_size = Unsigned(total - restored)
  BY ConstantFacts DEF IInv, TypeOK, Counted
<1>3. open_size' = open_size /\ total' = total /\ restored' = restored
  BY DEF Repackaging
<1>4. table' \in Seq(PositionRecord) /\ Held(Int, table') = open_size
  BY <1>2, RepackagingFacts
<1>5. TypeOK' /\ Counted'
  BY <1>3, <1>4 DEF IInv, TypeOK, Counted
<1>6. open_size >= total - restored
  <2> DEFINE a == total - restored
  <2>1. a \in Int /\ -MaxTotal <= a /\ a <= MaxTotal /\ a + 0 = a
    BY <1>1
  <2>2. open_size = Unsigned(a)
    BY <1>2
  <2> HIDE DEF a
  <2>3. Unsigned(a) = IF a >= 0 THEN a ELSE a + 2^Width
    BY <2>1, UnsignedCounts
  <2>4. open_size >= a
    BY <1>1, <2>1, <2>2, <2>3, ConstantFacts
  <2> QED
    BY <2>4 DEF a
<1>7. OpenShares(table') = Held(Int, table')
  BY <1>4, OpenSharesHeld
<1>8. OpenIsCovered'
  BY <1>3, <1>4, <1>6, <1>7 DEF OpenIsCovered
<1> QED
  BY <1>5, <1>8 DEF IInv

LEMMA StepInv == IInv /\ [Next]_vars => IInv'
<1> SUFFICES ASSUME IInv, [Next]_vars  PROVE IInv'
  OBVIOUS
<1>1. ASSUME NEW size \in Sizes, NEW price \in Prices, OnOpenFill(size, price)  PROVE IInv'
  BY <1>1, OpenFillStep
<1>2. ASSUME NEW size \in Sizes, NEW price \in Prices, OnCloseFill(size, price)  PROVE IInv'
  BY <1>2, CloseFillStep
<1>3. CASE DeleteCompletePosition
  BY <1>3, CleanupStep
<1>4. ASSUME NEW average \in Prices, Repackaging(average)  PROVE IInv'
  BY <1>4, RepackagingStep
<1>5. CASE UNCHANGED vars
  BY <1>5 DEF vars, IInv, TypeOK, Counted, OpenIsCovered
<1> QED
  BY <1>1, <1>2, <1>3, <1>4, <1>5 DEF Next

LEMMA InvHolds == Spec => []IInv
<1>1. Init => IInv
  BY InitInv
<1>2. IInv /\ [Next]_vars => IInv'
  BY StepInv
<1> QED
  BY <1>1, <1>2, PTL DEF Spec

-----------------------------------------------------------------------------
(* The theorems.                                                           *)

(* Records of no shares are never written, and the counter of open shares  *)
(* stays within its width, whatever is opened, closed, deleted and         *)
(* repackaged (PositionRecordTable).                                       *)
THEOREM TableTyped == Spec => []TypeOK
<1>1. IInv => TypeOK
  BY DEF IInv
<1> QED
  BY <1>1, InvHolds, PTL

(* For both accounts: no sequence of fills, clean-ups and repackagings     *)
(* leaves fewer open shares in the list than the account has gained since  *)
(* the start, also when open_size has wrapped below zero in between        *)
(* (recordOpenPosition, recordClosePosition, deleteCompletePosition,       *)
(* repackaging).                                                           *)
THEOREM SharesCovered == Spec => []OpenIsCovered
<1>1. IInv => OpenIsCovered
  BY DEF IInv
<1> QED
  BY <1>1, InvHolds, PTL

LEMMA StepKeepsOrder ==
  ASSUME IInv, [Next]_vars, Sorted(table)
  PROVE  Sorted(table') \/ \E average \in Prices : Repackaging(average)
<1>1. table \in Seq(PositionRecord)
  BY TypedFacts DEF IInv
<1>2. ASSUME NEW size \in Sizes, NEW price \in Prices, OnOpenFill(size, price)  PROVE Sorted(table')
  <2>1. size \in Nat \ {0}
    BY ConstantFacts
  <2>2. table' = Opened(size, price)
    BY <1>2 DEF OnOpenFill, Opened
  <2> QED
    BY <1>1, <2>1, <2>2, OpenedFacts
<1>3. ASSUME NEW size \in Sizes, NEW price \in Prices, OnCloseFill(size, price)  PROVE Sorted(table')
  <2>1. size \in Nat
    BY ConstantFacts
  <2>2. table' = AfterClose(size, price)
    BY <1>3 DEF OnCloseFill
  <2> QED
    BY <1>1, <2>1, <2>2, AfterCloseFacts
<1>4. CASE DeleteCompletePosition
  BY <1>1, <1>4, CleanupFacts DEF DeleteCompletePosition
<1>5. CASE UNCHANGED vars
  BY <1>5 DEF vars
<1> QED
  BY <1>2, <1>3, <1>4, <1>5 DEF Next

(* For both accounts: the place recordOpenPosition looks up, the pieces a  *)
(* close divides records into and the clean-up keep a list in order, for   *)
(* any prices and any length; only repackaging lays it out anew.           *)
THEOREM FillsStaySorted == Spec => FillsKeepOrder
<1>1. IInv /\ [Next]_vars =>
        [Sorted(table) => \/ Sorted(table')
                          \/ \E average \in Prices : Repackaging(average)]_vars
  BY StepKeepsOrder
<1> QED
  BY <1>1, InvHolds, PTL DEF Spec, FillsKeepOrder

-----------------------------------------------------------------------------
(* Exact closes.  Only the first pass of a long account leaves the closed  *)
(* records alone, so a short account closes exactly while it has none.     *)

(* Either the loop looks whether a record is closed, or there is none.     *)
LooksOrOpen(list) == AccountType = "long" \/ \A k \in DOMAIN list : IsOpen(list[k])

LEMMA ProfitFacts ==
  ASSUME NEW list \in Seq(PositionRecord), NEW price \in Prices, LooksOrOpen(list)
  PROVE  /\ WithProfit(list, price) \subseteq DOMAIN list
         /\ SharesOf(list, WithProfit(list, price)) = Held(Gains(price), list)
         /\ \A k \in DOMAIN list : k \in WithProfit(list, price)
              <=> IsOpen(list[k]) /\ list[k].open_price \in Gains(price)
<1>1. price \in Int
  BY ConstantFacts
<1>2. \A k \in DOMAIN list : list[k].open_price \in Int
  BY RecordFacts
<1>3. \A k \in DOMAIN list : list[k].open_price \in Gains(price)
        <=> (price - list[k].open_price) * Sign > 0
  BY <1>1, <1>2 DEF Gains
<1>4. \A k \in DOMAIN list : k \in WithProfit(list, price)
        <=> IsOpen(list[k]) /\ (price - list[k].open_price) * Sign > 0
  BY DEF WithProfit, IsOpen, LooksOrOpen
<1>5. WithProfit(list, price) \subseteq DOMAIN list
  BY WithProfitIn
<1>6. WithProfit(list, price)
        = {k \in DOMAIN list : IsOpen(list[k]) /\ list[k].open_price \in Gains(price)}
  BY <1>3, <1>4, <1>5
<1>7. SharesOf(list, WithProfit(list, price))
        = SharesOf(list, {k \in DOMAIN list : IsOpen(list[k]) /\ list[k].open_price \in Gains(price)})
  BY <1>6
<1> QED
  BY <1>3, <1>4, <1>5, <1>7, HeldAsSum

LEMMA LongGains ==
  ASSUME AccountType = "long", NEW list \in Seq(PositionRecord), NEW price \in Prices
  PROVE  \A k \in DOMAIN list : list[k].open_price \in Gains(price) <=> price > list[k].open_price
<1>1. price \in Int
  BY ConstantFacts
<1>2. \A k \in DOMAIN list : list[k].open_price \in Int
  BY RecordFacts
<1> QED
  BY <1>1, <1>2, SignFacts DEF Gains

(* The first pass, whether the profit is enough for the fill or not.       *)
LEMMA FirstPassExact ==
  ASSUME NEW list \in Seq(PositionRecord), LooksOrOpen(list),
         NEW size \in Nat, NEW price \in Prices
  PROVE  LET profit == Held(Gains(price), list)
             taken  == IF size <= profit THEN size ELSE profit
             first  == Pass(list, WithProfit(list, price), size, price)
         IN  /\ first \in Seq(PositionRecord)
             /\ Held(Int, first) = Held(Int, list) - taken
             /\ Held(Gains(price), first) = profit - taken
<1> DEFINE E == WithProfit(list, price)
           G == Gains(price)
           profit == Held(G, list)
           taken == IF size <= profit THEN size ELSE profit
           first == Pass(list, E, size, price)
<1>1. E \subseteq DOMAIN list /\ SharesOf(list, E) = profit
  BY ProfitFacts
<1>2. \A k \in DOMAIN list : k \in E => IsOpen(list[k]) /\ list[k].open_price \in G
  BY ProfitFacts
<1>3. \A k \in DOMAIN list : list[k].open_price \in Int
  BY RecordFacts
<1> HIDE DEF E, G
<1>4. \A k \in DOMAIN list : TakenFrom(list, E, size, k) # 0 => k \in E
  BY <1>1, TakenFacts
<1>5. \A k \in DOMAIN list : TakenFrom(list, E, size, k) # 0 => IsOpen(list[k]) /\ list[k].open_price \in Int
  BY <1>2, <1>3, <1>4
<1>6. \A k \in DOMAIN list : TakenFrom(list, E, size, k) # 0 => IsOpen(list[k]) /\ list[k].open_price \in G
  BY <1>2, <1>4
<1>7. first \in Seq(PositionRecord)
  BY <1>1, PassTakes
<1>8. Held(Int, first) = Held(Int, list) - (IF size <= SharesOf(list, E) THEN size ELSE SharesOf(list, E))
  BY <1>1, <1>5, PassTakes
<1>9. Held(G, first) = Held(G, list) - (IF size <= SharesOf(list, E) THEN size ELSE SharesOf(list, E))
  BY <1>1, <1>6, PassTakes
<1> HIDE DEF first
<1> QED
  BY <1>1, <1>7, <1>8, <1>9 DEF E, G, first

(* Shares of disjoint sets of records add up.                              *)
LEMMA SharesSplit ==
  ASSUME NEW list \in Seq(PositionRecord), NEW C, C \subseteq DOMAIN list, NEW A, A \subseteq C
  PROVE  /\ SharesOf(list, C) = SharesOf(list, A) + SharesOf(list, C \ A)
         /\ SharesOf(list, A) \in Nat /\ SharesOf(list, C) \in Nat /\ SharesOf(list, C \ A) \in Nat
         /\ SharesOf(list, A) <= SharesOf(list, C)
<1> DEFINE n == Len(list)
           D == C \ A
           f == [k \in 1..n |-> IF k \in C THEN list[k].open_size ELSE 0]
           g == [k \in 1..n |-> IF k \in A THEN list[k].open_size ELSE 0]
           h == [k \in 1..n |-> IF k \in D THEN list[k].open_size ELSE 0]
<1>1. A \subseteq DOMAIN list /\ D \subseteq DOMAIN list /\ n \in Nat /\ DOMAIN list = 1..n
  OBVIOUS
<1>2. SharesOf(list, C) = SumFunctionOnSet(f, 1..n) /\ SharesOf(list, C) \in Nat
  BY SharesAsSum
<1>3. SharesOf(list, A) = SumFunctionOnSet(g, 1..n) /\ SharesOf(list, A) \in Nat
  BY <1>1, SharesAsSum
<1>4. SharesOf(list, D) = SumFunctionOnSet(h, 1..n) /\ SharesOf(list, D) \in Nat
  <2> HIDE DEF D
  <2> QED
    BY <1>1, SharesAsSum
<1>5. \A k \in 1..n : f[k] \in Int /\ g[k] \in Int /\ h[k] = f[k] - g[k]
  <2>1. \A k \in 1..n : list[k].open_size \in Nat
    BY <1>1, RecordFacts
  <2> QED
    BY <2>1
<1> HIDE DEF f, g, h, D
<1>6. SumFunctionOnSet(h, 1..n) = SumFunctionOnSet(f, 1..n) - SumFunctionOnSet(g, 1..n)
  BY <1>1, <1>5, SumMinus
<1> QED
  BY <1>2, <1>3, <1>4, <1>6 DEF D

LEMMA SharesOfOne ==
  ASSUME NEW list \in Seq(PositionRecord), NEW k \in DOMAIN list
  PROVE  SharesOf(list, {k}) = list[k].open_size
<1> DEFINE f == [j \in DOMAIN list |-> list[j].open_size]
<1>1. f[k] = list[k].open_size /\ list[k].open_size \in Int
  BY RecordFacts
<1>2. SharesOf(list, {k}) = SumFunctionOnSet(f, {k})
  BY DEF SharesOf
<1> HIDE DEF f
<1>3. IsFiniteSet({k}) /\ k \in {k} /\ {k} \ {k} = {}
  BY FS_Singleton
<1>4. \A j \in {k} : f[j] \in Int
  BY <1>1
<1>5. SumFunctionOnSet(f, {k}) = f[k] + SumFunctionOnSet(f, {k} \ {k})
  BY <1>3, <1>4, SumTakes
<1>6. SumFunctionOnSet(f, {k} \ {k}) = SumFunctionOnSet(f, {})
  BY <1>3
<1> QED
  BY <1>1, <1>2, <1>5, <1>6, SumEmpty

(* A pass that is asked for more than the eligible shares closes them all, *)
(* each record whole, and lets the others be.                              *)
LEMMA PassClosesAll ==
  ASSUME NEW list \in Seq(PositionRecord), NEW E, E \subseteq DOMAIN list,
         NEW size \in Nat, NEW price \in Prices, size > SharesOf(list, E)
  PROVE  LET first == Pass(list, E, size, price)
         IN  /\ Len(first) = Len(list)
             /\ \A k \in 1..Len(list) : /\ first[k].open_size = list[k].open_size
                                        /\ first[k].open_price = list[k].open_price
                                        /\ k \in E => ~IsOpen(first[k])
                                        /\ k \notin E => first[k] = list[k]
<1> DEFINE n == Len(list)
           s == [k \in 1..n |-> PassPiece(list, E, size, price, k)]
           x == [k \in 1..n |-> IF k \in E THEN ClosedRecord(list[k], list[k].open_size, price)
                                ELSE list[k]]
           first == Pass(list, E, size, price)
<1>1. n \in Nat /\ DOMAIN list = 1..n
  OBVIOUS
<1>2. \A k \in 1..n : list[k] \in PositionRecord /\ list[k].open_size \in Nat \ {0}
  BY <1>1, RecordFacts
<1>3. ASSUME NEW k \in 1..n
      PROVE  TakenFrom(list, E, size, k) = IF k \in E THEN list[k].open_size ELSE 0
  <2> DEFINE A == {j \in E : VisitedBefore(j, k)}
  <2>1. k \in DOMAIN list /\ size \in Int
    BY <1>1
  <2>2. TakenFrom(list, E, size, k)
          = IF k \notin E \/ Earlier(list, E, k) >= size THEN 0
            ELSE IF size - Earlier(list, E, k) <= list[k].open_size
                 THEN size - Earlier(list, E, k) ELSE list[k].open_size
    BY <2>1, TakenFacts
  <2>3. CASE k \in E
    <3> DEFINE R == A \cup {k}
    <3>1. k \notin A
      BY <1>1 DEF VisitedBefore
    <3>2. R \subseteq E /\ R \subseteq DOMAIN list /\ {k} \subseteq R
      BY <2>3
    <3>3. SharesOf(list, R \ {k}) = SharesOf(list, A)
      <4>1. R \ {k} = A
        BY <3>1
      <4> QED
        BY <4>1
    <3> HIDE DEF R
    <3>4. /\ SharesOf(list, R) = SharesOf(list, {k}) + SharesOf(list, R \ {k})
          /\ SharesOf(list, R) \in Nat /\ SharesOf(list, R \ {k}) \in Nat
      BY <3>2, SharesSplit
    <3>5. SharesOf(list, R) <= SharesOf(list, E) /\ SharesOf(list, E) \in Nat
      BY <3>2, SharesSplit
    <3>6. SharesOf(list, {k}) = list[k].open_size
      BY <2>1, SharesOfOne
    <3>7. Earlier(list, E, k) = SharesOf(list, R \ {k})
      BY <3>3 DEF Earlier
    <3> HIDE DEF A
    <3> QED
      BY <1>2, <2>2, <2>3, <3>4, <3>5, <3>6, <3>7
  <2>4. CASE k \notin E
    BY <2>2, <2>4
  <2> QED
    BY <2>3, <2>4
<1>4. ASSUME NEW k \in 1..n
      PROVE  /\ x[k] \in PositionRecord /\ s[k] = <<x[k]>>
             /\ x[k].open_size = list[k].open_size /\ x[k].open_price = list[k].open_price
             /\ k \in E => ~IsOpen(x[k])
             /\ k \notin E => x[k] = list[k]
  <2>1. s[k] = PassPiece(list, E, size, price, k)
    OBVIOUS
  <2>2. x[k] = IF k \in E THEN ClosedRecord(list[k], list[k].open_size, price) ELSE list[k]
    OBVIOUS
  <2>3. PassPiece(list, E, size, price, k)
          = IF k \in E THEN <<ClosedRecord(list[k], list[k].open_size, price)>> ELSE <<list[k]>>
    BY <1>2, <1>3 DEF PassPiece
  <2> HIDE DEF s, x
  <2>4. CASE k \in E
    BY <1>2, <2>1, <2>2, <2>3, <2>4, ClosedRecordFacts
  <2>5. CASE k \notin E
    BY <1>2, <2>1, <2>2, <2>3, <2>5
  <2> QED
    BY <2>4, <2>5
<1>5. size \in Int
  OBVIOUS
<1>6. s \in Seq(Seq(PositionRecord)) /\ first = FlattenSeq(s)
  BY <1>5, PassHeld
<1>7. Len(s) = n
  BY <1>1
<1>8. x \in Seq(PositionRecord) /\ Len(x) = n
  <2>1. \A k \in 1..n : x[k] \in PositionRecord
    BY <1>4
  <2> QED
    BY <1>1, <2>1
<1> HIDE DEF s, x
<1>9. FlattenSeq(s) = x
  <2>1. Len(s) = Len(x) /\ \A k \in 1..Len(s) : s[k] = <<x[k]>>
    BY <1>4, <1>7, <1>8
  <2> QED
    BY <1>6, <1>8, <2>1, FlattenSingles
<1>10. first = x
  BY <1>6, <1>9
<1> HIDE DEF first
<1> QED
  BY <1>4, <1>8, <1>10 DEF first

(* A long account in order, all of it open: what the profitable shares do  *)
(* not give, the second pass takes from the others, which it meets first.  *)
LEMMA SecondPassExact ==
  ASSUME AccountType = "long", NEW list \in Seq(PositionRecord), Sorted(list),
         \A k \in DOMAIN list : IsOpen(list[k]),
         NEW size \in Nat, NEW price \in Prices,
         size > Held(Gains(price), list), size <= Held(Int, list)
  PROVE  LET profit == Held(Gains(price), list)
             first  == Pass(list, WithProfit(list, price), size, price)
             second == Pass(first, DOMAIN first, size - profit, price)
         IN  /\ second \in Seq(PositionRecord)
             /\ Held(Int, second) = Held(Int, list) - size
             /\ Held(Gains(price), second) = 0
<1> DEFINE n == Len(list)
           E == WithProfit(list, price)
           G == Gains(price)
           profit == Held(G, list)
           left == size - profit
           first == Pass(list, E, size, price)
           second == Pass(first, DOMAIN first, left, price)
           N == (1..n) \ E
           t(k) == TakenFrom(first, DOMAIN first, left, k)
<1>0. LooksOrOpen(list)
  BY DEF LooksOrOpen
<1>1. n \in Nat /\ DOMAIN list = 1..n
  OBVIOUS
<1>2. /\ E \subseteq DOMAIN list /\ SharesOf(list, E) = profit
      /\ \A k \in DOMAIN list : k \in E <=> list[k].open_price \in G
      /\ \A k \in DOMAIN list : list[k].open_price \in G <=> price > list[k].open_price
  BY <1>0, ProfitFacts, LongGains
<1>3. profit \in Nat /\ profit \in Int /\ Held(Int, list) \in Int /\ size > profit
  BY HeldNat
<1>4. /\ first \in Seq(PositionRecord)
      /\ Held(Int, first) = Held(Int, list) - profit
      /\ Held(G, first) = 0
  <2>1. /\ first \in Seq(PositionRecord)
        /\ Held(Int, first) = Held(Int, list) - (IF size <= profit THEN size ELSE profit)
        /\ Held(G, first) = profit - (IF size <= profit THEN size ELSE profit)
    BY <1>0, FirstPassExact
  <2> HIDE DEF first, profit
  <2> QED
    BY <1>3, <2>1
<1>5. /\ Len(first) = n
      /\ \A k \in 1..n : /\ first[k].open_size = list[k].open_size
                         /\ first[k].open_price = list[k].open_price
                         /\ k \in E => ~IsOpen(first[k])
                         /\ k \notin E => first[k] = list[k]
  <2>1. size > SharesOf(list, E)
    BY <1>2, <1>3
  <2> HIDE DEF E
  <2> QED
    BY <1>2, <2>1, PassClosesAll
<1> HIDE DEF E, G, profit, first
<1>6. DOMAIN first = 1..n /\ left \in Nat /\ left \in Int
  BY <1>1, <1>3, <1>4, <1>5
<1>7. N \subseteq 1..n /\ SharesOf(first, N) >= left /\ SharesOf(first, N) \in Nat
  <2>1. SharesOf(list, 1..n) = Held(Int, list)
    <3>1. {k \in DOMAIN list : IsOpen(list[k]) /\ list[k].open_price \in Int} = 1..n
      BY <1>1, RecordFacts
    <3> QED
      BY <3>1, HeldAsSum
  <2>2. 1..n \subseteq DOMAIN list /\ E \subseteq 1..n
    BY <1>1, <1>2
  <2>3. /\ SharesOf(list, 1..n) = SharesOf(list, E) + SharesOf(list, N)
        /\ SharesOf(list, N) \in Nat
    BY <2>2, SharesSplit
  <2>4. SharesOf(first, N) = SharesOf(list, N)
    <3> DEFINE f == [k \in DOMAIN first |-> first[k].open_size]
               h == [k \in DOMAIN list |-> list[k].open_size]
    <3>1. \A k \in N : f[k] = h[k]
      BY <1>1, <1>5, <1>6
    <3>2. IsFiniteSet(N)
      <4>1. IsFiniteSet(1..n)
        BY <1>1, FS_Interval
      <4> QED
        BY <4>1, FS_Subset
    <3>3. SharesOf(first, N) = SumFunctionOnSet(f, N) /\ SharesOf(list, N) = SumFunctionOnSet(h, N)
      BY DEF SharesOf
    <3> HIDE DEF f, h, N
    <3> QED
      BY <3>1, <3>2, <3>3, SumAgrees
  <2> HIDE DEF N
  <2>5. SharesOf(first, N) >= left
    BY <1>2, <1>3, <2>1, <2>3, <2>4
  <2> QED
    BY <2>3, <2>4, <2>5 DEF N
<1>8. ASSUME NEW k \in E, NEW j \in N  PROVE j > k
  <2>1. k \in 1..n /\ j \in 1..n /\ j \notin E
    BY <1>1, <1>2
  <2>2. list[k].open_price \in Int /\ list[j].open_price \in Int /\ price \in Int
    BY <1>1, <2>1, RecordFacts, ConstantFacts
  <2>3. price > list[k].open_price /\ ~(price > list[j].open_price)
    BY <1>1, <1>2, <2>1
  <2>4. j < k => (list[k].open_price - list[j].open_price) * Sign >= 0
    BY <2>1, SortedMeans
  <2>5. Sign = 1
    BY SignFacts
  <2>6. ~(j < k)
    BY <2>2, <2>3, <2>4, <2>5
  <2>7. j # k
    BY <2>1
  <2> QED
    BY <2>1, <2>6, <2>7
<1>9. ASSUME NEW k \in E  PROVE t(k) = 0
  <2> DEFINE A == {j \in DOMAIN first : VisitedBefore(j, k)}
  <2>1. N \subseteq A /\ A \subseteq DOMAIN first
    BY <1>6, <1>8 DEF VisitedBefore
  <2>2. SharesOf(first, N) <= SharesOf(first, A) /\ SharesOf(first, A) \in Nat
    <3> HIDE DEF A, N
    <3> QED
      BY <1>4, <2>1, SharesSplit
  <2>3. Earlier(first, DOMAIN first, k) = SharesOf(first, A)
    BY DEF Earlier
  <2> HIDE DEF A, N
  <2>4. Earlier(first, DOMAIN first, k) >= left
    BY <1>6, <1>7, <2>2, <2>3
  <2>5. k \in DOMAIN first /\ DOMAIN first \subseteq DOMAIN first
    BY <1>1, <1>2, <1>6
  <2> HIDE DEF left
  <2> QED
    BY <1>4, <1>6, <2>4, <2>5, TakenFacts
<1>10. \A k \in DOMAIN first :
         t(k) # 0 => k \notin E /\ IsOpen(first[k]) /\ first[k].open_price \in Int
                     /\ first[k].open_price \notin G
  <2> SUFFICES ASSUME NEW k \in DOMAIN first, t(k) # 0
               PROVE  k \notin E /\ IsOpen(first[k]) /\ first[k].open_price \in Int
                      /\ first[k].open_price \notin G
    OBVIOUS
  <2>1. k \notin E /\ k \in 1..n
    BY <1>6, <1>9
  <2>2. first[k] = list[k] /\ k \in DOMAIN list
    BY <1>1, <1>5, <2>1
  <2> QED
    BY <1>2, <2>1, <2>2, RecordFacts
<1> HIDE DEF left
<1>11. SharesOf(first, DOMAIN first) >= left
  <2>1. N \subseteq DOMAIN first /\ DOMAIN first \subseteq DOMAIN first
    BY <1>6, <1>7
  <2> HIDE DEF N
  <2>2. SharesOf(first, N) <= SharesOf(first, DOMAIN first) /\ SharesOf(first, DOMAIN first) \in Nat
    BY <1>4, <2>1, SharesSplit
  <2> QED
    BY <1>6, <1>7, <2>2
<1> HIDE DEF N
<1>12. second \in Seq(PositionRecord)
  BY <1>4, <1>6, PassTakes
<1>13. Held(Int, second) = Held(Int, first) - left
  <2>1. \A k \in DOMAIN first : TakenFrom(first, DOMAIN first, left, k) # 0
                                  => IsOpen(first[k]) /\ first[k].open_price \in Int
    BY <1>10
  <2>2. DOMAIN first \subseteq DOMAIN first
    OBVIOUS
  <2> QED
    BY <1>4, <1>6, <1>11, <2>1, <2>2, PassTakesFrom
<1>14. Held(G, second) <= Held(G, first)
  <2>1. \A k \in DOMAIN first : TakenFrom(first, DOMAIN first, left, k) # 0
                                  => first[k].open_price \notin G
    BY <1>10
  <2> QED
    BY <1>4, <1>6, <2>1, PassTakes
<1> HIDE DEF second
<1>15. Held(G, second) \in Nat /\ Held(Int, second) \in Int
  BY <1>12, HeldNat
<1>16. Held(G, second) = 0
  BY <1>4, <1>14, <1>15
<1>17. Held(Int, second) = Held(Int, list) - size
  BY <1>3, <1>4, <1>13, <1>15 DEF left
<1> QED
  BY <1>12, <1>16, <1>17 DEF second, left, first, profit, E, G

LEMMA ProfitStep ==
  ASSUME IInv, LooksOrOpen(table), NEW size \in Sizes, NEW price \in Prices,
         OnCloseFill(size, price), size <= SizeofOrderWithPnl(table, price)
  PROVE  /\ SizeofOrderWithPnl(table', price) = SizeofOrderWithPnl(table, price) - size
         /\ OpenShares(table') = OpenShares(table) - size
<1> DEFINE E == WithProfit(table, price)
           profit == Held(Gains(price), table)
           first == Pass(table, E, size, price)
<1>1. table \in Seq(PositionRecord) /\ OpenShares(table) = Held(Int, table)
  BY TypedFacts DEF IInv
<1>2. size \in Nat /\ price \in Int
  BY ConstantFacts
<1>3. SizeofOrderWithPnl(table, price) = profit /\ SharesOf(table, E) = profit /\ profit \in Nat
  BY <1>1, <1>2, ProfitHeld, ProfitFacts, HeldNat
<1>4. table' = first
  <2>1. table' = IF size - SharesOf(table, E) > 0
                 THEN Pass(first, DOMAIN first, size - SharesOf(table, E), price) ELSE first
    BY DEF OnCloseFill, AfterClose
  <2> HIDE DEF first, E, profit
  <2>2. ~(size - SharesOf(table, E) > 0)
    BY <1>2, <1>3
  <2> QED
    BY <2>1, <2>2
<1>5. /\ first \in Seq(PositionRecord)
      /\ Held(Int, first) = Held(Int, table) - (IF size <= profit THEN size ELSE profit)
      /\ Held(Gains(price), first) = profit - (IF size <= profit THEN size ELSE profit)
  BY <1>1, <1>2, FirstPassExact
<1> HIDE DEF first, E
<1>6. OpenShares(table') = Held(Int, first) /\ SizeofOrderWithPnl(table', price) = Held(Gains(price), first)
  BY <1>2, <1>4, <1>5, OpenSharesHeld, ProfitHeld
<1> HIDE DEF profit
<1> QED
  BY <1>1, <1>3, <1>5, <1>6

LEMMA CleanStep ==
  ASSUME AccountType = "long", IInv, NEW size \in Sizes, NEW price \in Prices,
         OnCloseFill(size, price), size <= OpenShares(table), Sorted(table),
         \A k \in DOMAIN table : IsOpen(table[k])
  PROVE  /\ OpenShares(table') = OpenShares(table) - size
         /\ SizeofOrderWithPnl(table', price)
              = Max({0, SizeofOrderWithPnl(table, price) - size})
<1> DEFINE E == WithProfit(table, price)
           profit == Held(Gains(price), table)
           first == Pass(table, E, size, price)
           second == Pass(first, DOMAIN first, size - profit, price)
<1>0. LooksOrOpen(table)
  BY DEF LooksOrOpen
<1>1. table \in Seq(PositionRecord) /\ OpenShares(table) = Held(Int, table)
  BY TypedFacts DEF IInv
<1>2. size \in Nat /\ price \in Int
  BY ConstantFacts
<1>3. SizeofOrderWithPnl(table, price) = profit /\ SharesOf(table, E) = profit /\ profit \in Nat
  BY <1>0, <1>1, <1>2, ProfitHeld, ProfitFacts, HeldNat
<1>4. Max({0, profit - size}) = IF profit - size >= 0 THEN profit - size ELSE 0
  <2> DEFINE a == profit - size
  <2>1. a \in Int
    BY <1>2, <1>3
  <2> HIDE DEF a
  <2>2. Max({0, a}) = IF a >= 0 THEN a ELSE 0
    BY <2>1, MaxZero
  <2> QED
    BY <2>2 DEF a
<1>5. CASE size <= profit
  <2>1. /\ SizeofOrderWithPnl(table', price) = profit - size
        /\ OpenShares(table') = OpenShares(table) - size
    BY <1>0, <1>3, <1>5, ProfitStep
  <2> HIDE DEF profit
  <2> QED
    BY <1>2, <1>3, <1>4, <1>5, <2>1
<1>6. CASE ~(size <= profit)
  <2>1. table' = second
    <3>1. table' = IF size - SharesOf(table, E) > 0
                   THEN Pass(first, DOMAIN first, size - SharesOf(table, E), price) ELSE first
      BY DEF OnCloseFill, AfterClose
    <3> HIDE DEF first, E, profit
    <3>2. size - SharesOf(table, E) > 0
      BY <1>2, <1>3, <1>6
    <3> QED
      BY <1>3, <3>1, <3>2
  <2>2. size > profit /\ size <= Held(Int, table)
    <3> HIDE DEF profit
    <3> QED
      BY <1>1, <1>2, <1>3, <1>6
  <2>3. /\ second \in Seq(PositionRecord)
        /\ Held(Int, second) = Held(Int, table) - size
        /\ Held(Gains(price), second) = 0
    BY <1>1, <1>2, <2>2, SecondPassExact
  <2> HIDE DEF second
  <2>4. OpenShares(table') = Held(Int, second) /\ SizeofOrderWithPnl(table', price) = Held(Gains(price), second)
    BY <1>2, <2>1, <2>3, OpenSharesHeld, ProfitHeld
  <2> HIDE DEF profit
  <2>5. Max({0, profit - size}) = 0
    BY <1>2, <1>3, <1>4, <1>6
  <2> QED
    BY <1>1, <1>3, <2>3, <2>4, <2>5
<1> QED
  BY <1>5, <1>6

(* A long account that closes no more than sizeofOrderWithPnl counted, as  *)
(* every case that takes a profit does, loses exactly these shares and no  *)
(* others: the first pass of recordClosePosition is enough.  The loop of a *)
(* short account does not look whether a record is closed, and there it is *)
(* so only while none is (OpenListClosesExactly).                          *)
THEOREM ProfitClosesExactly ==
  ASSUME AccountType = "long"
  PROVE  Spec => ProfitCloseIsExact
<1> DEFINE Exact == \A size \in Sizes, price \in Prices :
             OnCloseFill(size, price) /\ size <= SizeofOrderWithPnl(table, price) =>
               /\ SizeofOrderWithPnl(table', price) = SizeofOrderWithPnl(table, price) - size
               /\ OpenShares(table') = OpenShares(table) - size
<1>1. IInv => Exact
  <2>1. LooksOrOpen(table)
    BY DEF LooksOrOpen
  <2> QED
    BY <2>1, ProfitStep
<1>2. IInv /\ [Next]_vars => [Exact]_vars
  BY <1>1
<1>3. Spec => [][Exact]_vars
  BY <1>2, InvHolds, PTL DEF Spec
<1> QED
  BY <1>3 DEF ProfitCloseIsExact

(* What ProfitCloseIsExact says of a list without closed records.          *)
OpenProfitIsExact ==
  [][\A size \in Sizes, price \in Prices :
       /\ OnCloseFill(size, price)
       /\ size <= SizeofOrderWithPnl(table, price)
       /\ \A k \in DOMAIN table : IsOpen(table[k])
       => /\ SizeofOrderWithPnl(table', price) = SizeofOrderWithPnl(table, price) - size
          /\ OpenShares(table') = OpenShares(table) - size]_vars

(* For both accounts: the first close at a profit after the clean-up of a  *)
(* case, when the list holds no closed record, takes exactly its size out  *)
(* of the profitable open shares (recordClosePosition,                     *)
(* deleteCompletePosition).                                                *)
THEOREM OpenListClosesExactly == Spec => OpenProfitIsExact
<1> DEFINE Exact == \A size \in Sizes, price \in Prices :
             /\ OnCloseFill(size, price)
             /\ size <= SizeofOrderWithPnl(table, price)
             /\ \A k \in DOMAIN table : IsOpen(table[k])
             => /\ SizeofOrderWithPnl(table', price) = SizeofOrderWithPnl(table, price) - size
                /\ OpenShares(table') = OpenShares(table) - size
<1>1. IInv => Exact
  BY ProfitStep DEF LooksOrOpen
<1>2. IInv /\ [Next]_vars => [Exact]_vars
  BY <1>1
<1>3. Spec => [][Exact]_vars
  BY <1>2, InvHolds, PTL DEF Spec
<1> QED
  BY <1>3 DEF OpenProfitIsExact

(* A long account in order and without closed records loses exactly the    *)
(* size of a close fill, the profitable shares first: the second pass of   *)
(* recordClosePosition meets the records without a profit before those the *)
(* first has closed, and is done before it reaches these.                  *)
THEOREM CleanClosesExactly ==
  ASSUME AccountType = "long"
  PROVE  Spec => CleanCloseIsExact
<1> DEFINE Exact == \A size \in Sizes, price \in Prices :
             /\ OnCloseFill(size, price)
             /\ size <= OpenShares(table)
             /\ Sorted(table)
             /\ \A k \in DOMAIN table : IsOpen(table[k])
             => /\ OpenShares(table') = OpenShares(table) - size
                /\ SizeofOrderWithPnl(table', price)
                     = Max({0, SizeofOrderWithPnl(table, price) - size})
<1>1. IInv => Exact
  BY CleanStep
<1>2. IInv /\ [Next]_vars => [Exact]_vars
  BY <1>1
<1>3. Spec => [][Exact]_vars
  BY <1>2, InvHolds, PTL DEF Spec
<1> QED
  BY <1>3 DEF CleanCloseIsExact

=============================================================================

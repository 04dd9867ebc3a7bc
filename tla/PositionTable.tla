---------------------------- MODULE PositionTable ----------------------------
(***************************************************************************)
(* PositionRecordTable, the list of the open positions of one account,     *)
(* with the calls that change it: the fills of the account, the clean-up   *)
(* at the end of a trade case, and the repackaging after a hedge.  Each    *)
(* runs under the mutex of the table, so each is one action.  Prices are   *)
(* in ticks (mpv = 1); order ids, averages and profits are left out, no    *)
(* branch of the table reads them.                                         *)
(***************************************************************************)
EXTENDS Integers, SequencesExt

CONSTANTS
  AccountType,  \* "long" or "short"
  MaxPrice,     \* bound: prices are 1..MaxPrice
  MaxSize,      \* bound: a fill has 1..MaxSize shares
  MaxTotal,     \* bound: the position a run may build
  MaxRecords,   \* bound: the length of the table
  BaseQty,      \* base_qty of the symbol
  Width,        \* open_size is an unsigned integer of Width bits
  Restored      \* the totals a start may read back from Redis

ASSUME TableAssumption ==
  /\ AccountType \in {"long", "short"}
  /\ {MaxPrice, MaxSize, MaxTotal, MaxRecords, BaseQty, Width} \subseteq Nat \ {0}
  /\ Restored \subseteq 0..MaxTotal
  /\ MaxTotal < 2^Width   \* open_size can count every share of a position

VARIABLES
  table,      \* the list of PositionRecord
  open_size,  \* PositionRecordTable::open_size
  total,      \* AbstractTradeAccount::total of the account
  restored    \* what total was read back as when the program started

vars == <<table, open_size, total, restored>>

Prices == 1..MaxPrice
Sizes  == 1..MaxSize

\* A record of no shares is never written: recordClosePosition would spend a
\* visit on it and RedisWriter would report it.
PositionRecord == [open_price : Int, open_size : Nat \ {0},
                   close_price : Prices \cup {0}, is_complete : BOOLEAN]

OpenRecord(size, price) == [open_price |-> price, open_size |-> size,
                            close_price |-> 0, is_complete |-> FALSE]

\* setCloseInfo and setPartialCloseInfo: size shares of record r closed at price
ClosedRecord(r, size, price) == [open_price |-> r.open_price, open_size |-> size,
                                 close_price |-> price, is_complete |-> TRUE]

Sign == IF AccountType = "long" THEN 1 ELSE -1

Unsigned(n) == n % 2^Width

TypeOK ==
  /\ table \in Seq(PositionRecord)
  /\ open_size \in 0..(2^Width - 1)
  /\ total \in 0..MaxTotal
  /\ restored \in Restored

\* A start restores total from Redis; the table always starts empty.
Init ==
  /\ table = <<>>
  /\ open_size = 0
  /\ total \in Restored
  /\ restored = total

-----------------------------------------------------------------------------
(* Opening *)

\* Wrong: the order of the other kind of account.
LaterThan_Inverted(price) ==
  {k \in DOMAIN table : (table[k].open_price - price) * Sign < 0}

\* The records a new one at this price goes in front of.
LaterThan(price) ==
  {k \in DOMAIN table : (table[k].open_price - price) * Sign > 0}

\* onOpenFill: total and recordOpenPosition
OnOpenFill(size, price) ==
  /\ total + size <= MaxTotal
  /\ Len(table) < MaxRecords
  /\ total' = total + size
  /\ open_size' = Unsigned(open_size + size)
  /\ table' = IF LaterThan(price) = {}
              THEN Append(table, OpenRecord(size, price))
              ELSE InsertAt(table, Min(LaterThan(price)), OpenRecord(size, price))
  /\ UNCHANGED restored

-----------------------------------------------------------------------------
(* Closing: a pass over the list visits it from its best end, the back of  *)
(* a long account and the front of a short one, and closes the eligible    *)
(* records until the size of the fill is used up.                          *)

VisitedBefore(j, k) == IF AccountType = "long" THEN j > k ELSE j < k

SharesOf(list, positions) ==
  SumFunctionOnSet([k \in DOMAIN list |-> list[k].open_size], positions)

TakenFrom(list, eligible, size, k) ==
  LET left == size - SharesOf(list, {j \in eligible : VisitedBefore(j, k)})
  IN  IF k \in eligible /\ left > 0 THEN Min({left, list[k].open_size}) ELSE 0

\* Wrong: the shares of a divided record that are not closed are dropped.
Divided_DropsRest(r, size, price) == <<ClosedRecord(r, size, price)>>

\* A record of which only a part is closed: the rest comes after the closed
\* part in a long account and before it in a short one, and is open.
Divided(r, size, price) ==
  LET closed == ClosedRecord(r, size, price)
      rest   == OpenRecord(r.open_size - size, r.open_price)
  IN  IF AccountType = "long" THEN <<closed, rest>> ELSE <<rest, closed>>

Pass(list, eligible, size, price) ==
  LET Piece(k) ==
        LET taken == TakenFrom(list, eligible, size, k) IN
        IF taken = 0 THEN <<list[k]>>
        ELSE IF taken = list[k].open_size
             THEN <<ClosedRecord(list[k], taken, price)>>
             ELSE Divided(list[k], taken, price)
  IN  FlattenSeq([k \in DOMAIN list |-> Piece(k)])

\* Wrong: a long account also forgets to look whether the record is closed.
WithProfit_ClosedToo(list, price) ==
  {k \in DOMAIN list : (price - list[k].open_price) * Sign > 0}

\* The records the first pass closes.  Only the loop of a long account asks
\* whether a record has been closed already.
WithProfit(list, price) ==
  {k \in DOMAIN list :
     /\ (price - list[k].open_price) * Sign > 0
     /\ AccountType = "long" => ~list[k].is_complete}

\* Wrong: the second pass starts over with the whole size.
AfterClose_Twice(size, price) ==
  LET eligible == WithProfit(table, price)
      left     == size - SharesOf(table, eligible)
      first    == Pass(table, eligible, size, price)
  IN  IF left > 0 THEN Pass(first, DOMAIN first, size, price) ELSE first

\* recordClosePosition: the records with a profit first, then, for what is
\* left of the fill, every record, closed or not.
AfterClose(size, price) ==
  LET eligible == WithProfit(table, price)
      left     == size - SharesOf(table, eligible)
      first    == Pass(table, eligible, size, price)
  IN  IF left > 0 THEN Pass(first, DOMAIN first, left, price) ELSE first

\* onCloseFill.  Close orders carry ORDER_FLAG_CHECK_POSITION: the router
\* does not let an account close more than it holds.
OnCloseFill(size, price) ==
  /\ size <= total
  /\ Len(AfterClose(size, price)) <= MaxRecords
  /\ total' = total - size
  /\ open_size' = Unsigned(open_size - size)
  /\ table' = AfterClose(size, price)
  /\ UNCHANGED restored

-----------------------------------------------------------------------------
(* What the trade cases call *)

IsOpen(r) == ~r.is_complete

\* deleteCompletePosition, for both accounts, at the end of every trade case
DeleteCompletePosition ==
  /\ table' = FlattenSeq([k \in DOMAIN table |->
                            IF IsOpen(table[k]) THEN <<table[k]>> ELSE <<>>])
  /\ UNCHANGED <<open_size, total, restored>>

\* Wrong: one order more when the position is a multiple of base_qty.
CeilDiv_OneMore(a, b) == a \div b + 1

CeilDiv(a, b) == (a + b - 1) \div b

\* repackaging: equal orders of base_qty around the new average, the upper
\* half of them first.  The average is any price that keeps them positive.
Repackaging(average) ==
  LET noe  == CeilDiv(open_size, BaseQty)
      noeh == CeilDiv(noe, 2)
      SizeOf(i)  == Min({BaseQty, open_size - (i - 1) * BaseQty})
      PriceOf(i) == IF i <= noeh THEN average - (noeh - i) * Sign
                                 ELSE average - (i - noeh) * Sign
  IN  /\ noe <= MaxRecords
      /\ \A i \in 1..noe : PriceOf(i) \in Prices
      /\ table' = [i \in 1..noe |-> OpenRecord(SizeOf(i), PriceOf(i))]
      /\ UNCHANGED <<open_size, total, restored>>

Next ==
  \/ \E size \in Sizes, price \in Prices :
       OnOpenFill(size, price) \/ OnCloseFill(size, price)
  \/ DeleteCompletePosition
  \/ \E average \in Prices : Repackaging(average)

Spec == Init /\ [][Next]_vars

-----------------------------------------------------------------------------
(* Properties *)

OpenShares(list) == SharesOf(list, {k \in DOMAIN list : IsOpen(list[k])})

\* sizeofOrderWithPnl: what a case closes at a price because it yields profit
SizeofOrderWithPnl(list, price) ==
  SharesOf(list, {k \in DOMAIN list : /\ IsOpen(list[k])
                                      /\ (price - list[k].open_price) * Sign > 0})

Sorted(list) ==
  IsSorted(list, LAMBDA r, s : (s.open_price - r.open_price) * Sign >= 0)

\* Every share the account holds is in an open record, but for those it held
\* before the start, which the table never knows: no sequence of fills,
\* clean-ups and repackagings loses one, also when open_size wraps below
\* zero (recordOpenPosition, recordClosePosition, deleteCompletePosition,
\* repackaging).
OpenIsCovered == OpenShares(table) >= total - restored

\* Fills and clean-ups keep the list in the order recordOpenPosition gives
\* it; only repackaging may disturb it.
FillsKeepOrder ==
  [][Sorted(table) => \/ Sorted(table')
                      \/ \E average \in Prices : Repackaging(average)]_vars

\* Closing within what sizeofOrderWithPnl counted takes exactly the size of
\* the fill out of the profitable open shares, and nothing else.
ProfitCloseIsExact ==
  [][\A size \in Sizes, price \in Prices :
       OnCloseFill(size, price) /\ size <= SizeofOrderWithPnl(table, price) =>
         /\ SizeofOrderWithPnl(table', price) = SizeofOrderWithPnl(table, price) - size
         /\ OpenShares(table') = OpenShares(table) - size]_vars

\* While the list is in order and holds no closed record, as after the
\* clean-up of a case, one close fill takes exactly its size out of the open
\* shares, those with a profit before the others.  It may not be larger than
\* these are, as it may be after a restart: the second pass would then meet
\* what the first has closed and open a part of it again.
CleanCloseIsExact ==
  [][\A size \in Sizes, price \in Prices :
       /\ OnCloseFill(size, price)
       /\ size <= OpenShares(table)
       /\ Sorted(table)
       /\ \A k \in DOMAIN table : IsOpen(table[k])
       => /\ OpenShares(table') = OpenShares(table) - size
          /\ SizeofOrderWithPnl(table', price)
               = Max({0, SizeofOrderWithPnl(table, price) - size})]_vars
=============================================================================

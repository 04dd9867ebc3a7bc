--------------------------- MODULE SymbolFeedProofs ---------------------------
(***************************************************************************)
(* The stamps of a symbol reach its trading thread: proofs for any quotes, *)
(* estimates and bounds.                                                   *)
(***************************************************************************)
EXTENDS SymbolFeed, TLAPS

(* Whoever is in the middle of an update holds rw_mutex. *)
UpdatesLocked ==
  \A p \in Producers : pc[p] \in {"open", "push", "notify"} => rw_mutex = p

(* What push is about to append is what the fields hold. *)
CopyIsCurrent == \A p \in Producers : pc[p] = "push" => copied[p] = fields

(* stack_mutex is held from finding the stack empty to going to sleep. *)
BlocksOnEmpty == consumer = "blocking" => symbol_stack = <<>>

FeedInv ==
  /\ TypeOK
  /\ UpdatesLocked
  /\ CopyIsCurrent
  /\ BlocksOnEmpty
  /\ LatestIsPublished
  /\ SleeperMissesNothing

-----------------------------------------------------------------------------

\* The newest stamp is the one pushed last (symbol_stack.push_back and back).
LEMMA LastOfAppend ==
  ASSUME NEW S, NEW s \in Seq(S), NEW e \in S
  PROVE  /\ Append(s, e) \in Seq(S)
         /\ Append(s, e) # <<>>
         /\ Append(s, e)[Len(Append(s, e))] = e
  OBVIOUS

\* A stack that is not empty holds a newest stamp.
LEMMA LastInSeq ==
  ASSUME NEW S, NEW s \in Seq(S), s # <<>>
  PROVE  s[Len(s)] \in S
  OBVIOUS

\* The members are initialised to a stamp of no quote and no estimate.
LEMMA FirstStampType == FirstStamp \in SymbolStamp
  BY DEF FirstStamp, SymbolStamp, NoEstimate

\* The initial state has nothing to publish.
LEMMA InitFeed == Init => FeedInv
  <1> SUFFICES ASSUME Init PROVE FeedInv
    OBVIOUS
  <1>1. TypeOK
    BY FirstStampType DEF Init, TypeOK, ProducerSteps, ConsumerSteps, NoEstimate
  <1>2. UpdatesLocked /\ CopyIsCurrent /\ BlocksOnEmpty /\ SleeperMissesNothing
    BY DEF Init, UpdatesLocked, CopyIsCurrent, BlocksOnEmpty, SleeperMissesNothing
  <1>3. LatestIsPublished
    BY DEF Init, LatestIsPublished, Latest
  <1> QED BY <1>1, <1>2, <1>3 DEF FeedInv

-----------------------------------------------------------------------------
(* Type correctness of each step *)

\* Every step of a thread keeps the types of the symbol's members.
LEMMA TypeStep == TypeOK /\ [Next]_vars => TypeOK'
  <1> SUFFICES ASSUME TypeOK, [Next]_vars PROVE TypeOK'
    OBVIOUS
  <1> USE DEF TypeOK, ProducerSteps, Goto, bars, copies, switches
  <1>0. Market \in Producers
    BY DEF Producers
  <1>1. CASE Admit BY <1>1 DEF Admit
  <1>2. CASE SavePreviousBar BY <1>0, <1>2 DEF SavePreviousBar, Acquire
  <1>3. CASE OpenBar
    <2>1. bar' \in Nat
      BY <1>3 DEF OpenBar
    <2> QED BY <1>3, <2>1 DEF OpenBar
  <1>4. CASE PriceWithinInterval BY <1>4 DEF PriceWithinInterval
  <1>5. CASE UpdateQuoteData
    <2>1. PICK q \in Quotes \ {fields.quote} : fields' = [fields EXCEPT !.quote = q]
      BY <1>5 DEF UpdateQuoteData
    <2>2. fields' \in SymbolStamp
      BY <2>1 DEF SymbolStamp
    <2> QED BY <1>0, <1>5, <2>2 DEF UpdateQuoteData, Acquire, CopyFields
  <1>6. CASE SameQuote BY <1>6 DEF SameQuote
  <1>7. ASSUME NEW t \in Timers, ResetIntervalCallback(t) PROVE TypeOK'
    <2>1. PICK e \in Estimates :
            /\ avicenna' = [avicenna EXCEPT ![t] = e]
            /\ fields' = [fields EXCEPT !.estimate =
                            [u \in Timers |-> IF u \in Replaced(t, e) THEN e ELSE @[u]]]
      BY <1>7 DEF ResetIntervalCallback
    <2>2. fields' \in SymbolStamp /\ avicenna' \in [Timers -> Estimates \cup {NoEstimate}]
      BY <2>1 DEF SymbolStamp
    <2>3. t \in Producers
      BY DEF Producers
    <2> QED BY <1>7, <2>2, <2>3 DEF ResetIntervalCallback, Acquire, CopyFields
  <1>8. ASSUME NEW t \in Timers, ResetIntervalOnly(t) PROVE TypeOK'
    BY <1>8 DEF ResetIntervalOnly
  <1>9. ASSUME NEW p \in Producers, Push(p) PROVE TypeOK'
    <2>1. symbol_stack' \in Seq(SymbolStamp)
      BY <1>9, LastOfAppend DEF Push
    <2> QED BY <1>9, <2>1 DEF Push
  <1>10. ASSUME NEW p \in Producers, Notify(p) PROVE TypeOK'
    BY <1>10, FirstStampType DEF Notify, Wakes, ConsumerSteps
  <1>11. CASE Pop
    <2>1. stamp' \in SymbolStamp
      BY <1>11, LastInSeq DEF Pop, Taken
    <2> QED BY <1>11, <2>1 DEF Pop, ProducersUnchanged, ConsumerSteps
  <1>12. CASE StartLoop \/ FindEmpty \/ Block \/ SpuriousWakeup \/ ReadPreviousBar
              \/ ReadCurrentBar \/ Trade
    BY <1>12 DEF StartLoop, FindEmpty, Block, SpuriousWakeup, ReadPreviousBar,
                 ReadCurrentBar, Trade, ProducersUnchanged, ConsumerSteps
  <1>13. CASE SwitchSymbol \/ SwitchInstance
    BY <1>13 DEF SwitchSymbol, SwitchInstance
  <1>14. CASE UNCHANGED vars
    BY <1>14 DEF vars
  <1> QED
    BY <1>1, <1>2, <1>3, <1>4, <1>5, <1>6, <1>7, <1>8, <1>9, <1>10, <1>11, <1>12,
       <1>13, <1>14
    DEF Next, Producer, Loop, Publishing

-----------------------------------------------------------------------------
(* The lock and the copy *)

\* rw_mutex is held from the update of the fields to the notification, so
\* nobody changes the fields between the copy and the push.
LEMMA LockStep == FeedInv /\ [Next]_vars => UpdatesLocked' /\ CopyIsCurrent'
  <1> SUFFICES ASSUME FeedInv, [Next]_vars PROVE UpdatesLocked' /\ CopyIsCurrent'
    OBVIOUS
  <1> USE FeedAssumption DEF FeedInv, UpdatesLocked, CopyIsCurrent, Goto, Producers
  <1>0. /\ pc \in [Producers -> ProducerSteps] /\ copied \in [Producers -> SymbolStamp]
        /\ rw_mutex \in Producers \cup {Nobody}
    BY DEF TypeOK
  <1>1. CASE Admit BY <1>0, <1>1 DEF Admit
  <1>2. CASE SavePreviousBar BY <1>0, <1>2 DEF SavePreviousBar, Acquire
  <1>3. CASE OpenBar BY <1>0, <1>3 DEF OpenBar
  <1>4. CASE PriceWithinInterval BY <1>0, <1>4 DEF PriceWithinInterval
  <1>5. CASE UpdateQuoteData
    <2>1. \A p \in Producers : pc[p] \notin {"open", "push", "notify"}
      BY <1>0, <1>5 DEF UpdateQuoteData, Acquire
    <2> QED BY <1>0, <1>5, <2>1 DEF UpdateQuoteData, Acquire, CopyFields
  <1>6. CASE SameQuote BY <1>0, <1>6 DEF SameQuote
  <1>7. ASSUME NEW t \in Timers, ResetIntervalCallback(t)
        PROVE  UpdatesLocked' /\ CopyIsCurrent'
    <2>1. \A p \in Producers : pc[p] \notin {"open", "push", "notify"}
      BY <1>0, <1>7 DEF ResetIntervalCallback, Acquire
    <2> QED BY <1>0, <1>7, <2>1 DEF ResetIntervalCallback, Acquire, CopyFields
  <1>8. ASSUME NEW t \in Timers, ResetIntervalOnly(t)
        PROVE  UpdatesLocked' /\ CopyIsCurrent'
    BY <1>8 DEF ResetIntervalOnly
  <1>9. ASSUME NEW p \in Producers, Push(p) PROVE UpdatesLocked' /\ CopyIsCurrent'
    BY <1>0, <1>9 DEF Push
  <1>10. ASSUME NEW p \in Producers, Notify(p) PROVE UpdatesLocked' /\ CopyIsCurrent'
    BY <1>0, <1>10 DEF Notify
  <1>11. CASE UNCHANGED <<rw_mutex, pc, copied, fields>>
    BY <1>11
  <1>12. CASE Loop \/ SpuriousWakeup
    BY <1>11, <1>12 DEF Loop, StartLoop, FindEmpty, Block, Pop, SpuriousWakeup,
       ReadPreviousBar, ReadCurrentBar, Trade, ProducersUnchanged
  <1>13. CASE SwitchSymbol \/ SwitchInstance
    BY <1>11, <1>13 DEF SwitchSymbol, SwitchInstance
  <1>14. CASE UNCHANGED vars
    BY <1>11, <1>14 DEF vars
  <1> QED
    BY <1>1, <1>2, <1>3, <1>4, <1>5, <1>6, <1>7, <1>8, <1>9, <1>10, <1>12, <1>13, <1>14
    DEF Next, Producer, Publishing

-----------------------------------------------------------------------------
(* The stack *)

\* What pop and push make of the stack and the newest stamp.
LEMMA StackStep ==
  FeedInv /\ [Next]_vars => BlocksOnEmpty' /\ LatestIsPublished' /\ SleeperMissesNothing'
  <1> DEFINE StackInv == BlocksOnEmpty /\ LatestIsPublished /\ SleeperMissesNothing
  <1> SUFFICES ASSUME FeedInv, [Next]_vars PROVE StackInv'
    OBVIOUS
  <1> USE FeedAssumption
      DEF BlocksOnEmpty, LatestIsPublished, SleeperMissesNothing, Latest, Goto
  <1>0. /\ pc \in [Producers -> ProducerSteps]
        /\ symbol_stack \in Seq(SymbolStamp)
        /\ Market \in Producers
        /\ Timers \subseteq Producers
        /\ BlocksOnEmpty /\ LatestIsPublished /\ SleeperMissesNothing
    BY DEF TypeOK, FeedInv, Producers
  \* steps that touch neither the stack nor the trading thread
  <1>1. ASSUME NEW p \in Producers, NEW step \in ProducerSteps,
               pc[p] \notin {"push", "notify"}, step # "push",
               pc' = [pc EXCEPT ![p] = step],
               UNCHANGED <<fields, symbol_stack, consumer, stamp>>
        PROVE  StackInv'
    BY <1>0, <1>1
  <1>2. CASE Admit \/ SavePreviousBar \/ OpenBar \/ PriceWithinInterval \/ SameQuote
    <2>1. \E step \in ProducerSteps :
            /\ pc[Market] \notin {"push", "notify"} /\ step # "push"
            /\ pc' = [pc EXCEPT ![Market] = step]
            /\ UNCHANGED <<fields, symbol_stack, consumer, stamp>>
      BY <1>2 DEF Admit, SavePreviousBar, OpenBar, PriceWithinInterval, SameQuote, ProducerSteps
    <2> QED BY <1>0, <1>1, <2>1
  \* an update: its push is still to come
  <1>3. ASSUME NEW p \in Producers, pc[p] \notin {"push", "notify"},
               pc' = [pc EXCEPT ![p] = "push"],
               UNCHANGED <<symbol_stack, consumer, stamp>>
        PROVE  StackInv'
    <2>1. pc'[p] = "push"
      BY <1>0, <1>3
    <2> QED BY <1>0, <1>3, <2>1
  <1>4. CASE UpdateQuoteData
    BY <1>0, <1>3, <1>4 DEF UpdateQuoteData, CopyFields
  <1>5. ASSUME NEW t \in Timers, ResetIntervalCallback(t) PROVE StackInv'
    BY <1>0, <1>3, <1>5 DEF ResetIntervalCallback, CopyFields
  <1>6. ASSUME NEW p \in Producers, Push(p) PROVE StackInv'
    <2>1. /\ copied[p] = fields /\ copied[p] \in SymbolStamp
          /\ \A q \in Producers : pc[q] = "push" => q = p
      BY <1>6 DEF Push, FeedInv, TypeOK, CopyIsCurrent, UpdatesLocked
    <2>2. /\ symbol_stack' # <<>>
          /\ symbol_stack'[Len(symbol_stack')] = fields
      BY <1>0, <1>6, <2>1, LastOfAppend DEF Push
    <2>3. /\ pc'[p] = "notify" /\ consumer # "blocking"
          /\ UNCHANGED <<fields, consumer, stamp>>
      BY <1>0, <1>6 DEF Push, CanPush
    <2> QED BY <2>2, <2>3
  <1>7. ASSUME NEW p \in Producers, Notify(p) PROVE StackInv'
    <2>1. /\ consumer' # "asleep" /\ (consumer' = "blocking" => consumer = "blocking")
          /\ UNCHANGED <<fields, symbol_stack, stamp>>
          /\ \A q \in Producers : pc[q] = "push" => pc'[q] = "push"
      BY <1>0, <1>7 DEF Notify, Wakes
    <2> QED BY <1>0, <2>1
  <1>8. CASE Pop
    <2>1. /\ stamp' = Latest /\ Latest' = stamp'
          /\ consumer' = "previous" /\ UNCHANGED <<pc, fields>>
      BY <1>8 DEF Pop, Taken, ProducersUnchanged
    <2> QED BY <1>0, <2>1
  <1>9. CASE FindEmpty \/ Block
    BY <1>0, <1>9 DEF FindEmpty, Block, ProducersUnchanged
  <1>10. ASSUME UNCHANGED <<pc, fields, symbol_stack, stamp>>,
                consumer' = consumer \/ consumer' \notin {"blocking", "asleep"}
         PROVE  StackInv'
    BY <1>0, <1>10
  <1>11. CASE StartLoop \/ SpuriousWakeup \/ ReadPreviousBar \/ ReadCurrentBar \/ Trade
    BY <1>10, <1>11 DEF StartLoop, SpuriousWakeup, ReadPreviousBar, ReadCurrentBar, Trade,
                        ProducersUnchanged
  <1>12. CASE SwitchSymbol \/ SwitchInstance \/ \E t \in Timers : ResetIntervalOnly(t)
    BY <1>10, <1>12 DEF SwitchSymbol, SwitchInstance, ResetIntervalOnly
  <1>13. CASE UNCHANGED vars
    BY <1>10, <1>13 DEF vars
  <1> HIDE DEF StackInv
  <1> QED
    BY <1>2, <1>4, <1>5, <1>6, <1>7, <1>8, <1>9, <1>11, <1>12, <1>13
    DEF Next, Producer, Loop, Publishing

-----------------------------------------------------------------------------

\* The types, the lock and the stack together are inductive.
THEOREM FeedInvariance == Spec => []FeedInv
  <1>1. FeedInv /\ [Next]_vars => FeedInv'
    BY TypeStep, LockStep, StackStep DEF FeedInv
  <1> QED BY InitFeed, <1>1, PTL DEF Spec

\* Every variable keeps its type, whatever the producers and the console do.
THEOREM FeedTypes == Spec => []TypeOK
  <1>1. FeedInv => TypeOK
    BY DEF FeedInv
  <1> QED BY <1>1, FeedInvariance, PTL

\* No interleaving of push and pop loses an update of a quote or an estimate.
THEOREM UpdatesArePublished == Spec => []LatestIsPublished
  <1>1. FeedInv => LatestIsPublished
    BY DEF FeedInv
  <1> QED BY <1>1, FeedInvariance, PTL

\* The trading thread never sleeps on a stamp nobody is about to announce.
THEOREM NoLostWakeup == Spec => []SleeperMissesNothing
  <1>1. FeedInv => SleeperMissesNothing
    BY DEF FeedInv
  <1> QED BY <1>1, FeedInvariance, PTL

\* The stack implements the mailbox: push publishes, pop takes, and no other
\* step of any thread shows.
THEOREM ImplementsMailbox == Spec => KeepsNewest
  <1>1. Init => Box!Init
    BY DEF Init, Box!Init, Latest
  <1>2. FeedInv /\ FeedInv' /\ [Next]_vars => [Box!Next]_Box!vars
    <2> SUFFICES ASSUME FeedInv, [Next]_vars PROVE [Box!Next]_Box!vars
      OBVIOUS
    <2>0. symbol_stack \in Seq(SymbolStamp) /\ copied \in [Producers -> SymbolStamp]
      BY DEF FeedInv, TypeOK
    <2>1. ASSUME NEW p \in Producers, Push(p) PROVE Box!Publish
      <3>1. /\ symbol_stack' # <<>>
            /\ symbol_stack'[Len(symbol_stack')] = copied[p]
            /\ stamp' = stamp
        BY <2>0, <2>1, LastOfAppend DEF Push
      <3> QED BY <2>0, <3>1 DEF Box!Publish, Latest
    <2>2. ASSUME Pop PROVE Box!Take
      <3>1. /\ symbol_stack # <<>> /\ symbol_stack' = <<>>
            /\ stamp' = Latest /\ Latest' = stamp'
        BY <2>2 DEF Pop, Taken, Latest
      <3> QED BY <3>1 DEF Box!Take
    <2>3. ASSUME UNCHANGED <<symbol_stack, stamp>> PROVE UNCHANGED Box!vars
      BY <2>3 DEF Box!vars, Latest
    <2>4. CASE Next
      <3>1. ASSUME ~Pop, ~(\E p \in Producers : Push(p))
            PROVE  UNCHANGED <<symbol_stack, stamp>>
        BY <2>4, <3>1
        DEF Next, Producer, Loop, Publishing, Admit, SavePreviousBar, OpenBar,
            PriceWithinInterval, UpdateQuoteData, SameQuote, ResetIntervalCallback,
            ResetIntervalOnly, Notify, StartLoop, FindEmpty, Block, SpuriousWakeup,
            ReadPreviousBar, ReadCurrentBar, Trade, SwitchSymbol, SwitchInstance
      <3> QED BY <2>1, <2>2, <2>3, <3>1 DEF Box!Next
    <2>5. CASE UNCHANGED vars
      BY <2>3, <2>5 DEF vars
    <2> QED BY <2>4, <2>5
  <1> QED BY <1>1, <1>2, FeedInvariance, PTL DEF Spec, KeepsNewest, Box!Spec

-----------------------------------------------------------------------------
(* The bars *)

(* A bar only becomes the previous one when a newer one is opened, and what *)
(* the trading thread has read of the previous bar stays in the past.       *)
BarInv ==
  /\ prev_bar <= bar
  /\ consumer = "current" => bar1 <= bar
  /\ BarsInOrder

\* The steps of market data and of the trading thread keep the bars in order.
LEMMA BarStep == TypeOK /\ BarInv /\ [Next]_vars => BarInv'
  <1> SUFFICES ASSUME TypeOK, BarInv, [Next]_vars PROVE BarInv'
    OBVIOUS
  <1> USE DEF BarInv, BarsInOrder
  <1>0. bar \in Nat /\ prev_bar \in Nat /\ bar0 \in Nat /\ bar1 \in Nat
    BY DEF TypeOK
  <1>1. CASE SavePreviousBar BY <1>0, <1>1 DEF SavePreviousBar, copies
  <1>2. CASE OpenBar BY <1>0, <1>2 DEF OpenBar, copies
  <1>3. CASE ReadPreviousBar BY <1>0, <1>3 DEF ReadPreviousBar, ProducersUnchanged, bars
  <1>4. CASE ReadCurrentBar BY <1>0, <1>4 DEF ReadCurrentBar, ProducersUnchanged, bars
  <1>5. ASSUME UNCHANGED <<bar, prev_bar, bar0, bar1>>,
               consumer' \in {consumer, "loop", "pop", "blocking", "asleep", "previous"}
        PROVE  BarInv'
    BY <1>5
  <1>6. ASSUME NEW p \in Producers, Publishing(p) PROVE BarInv'
    BY <1>5, <1>6 DEF Publishing, Push, Notify, bars, copies
  <1>7. CASE Producer
    BY <1>1, <1>2, <1>5, <1>6, <1>7
    DEF Producer, Admit, PriceWithinInterval, UpdateQuoteData, SameQuote,
        ResetIntervalCallback, ResetIntervalOnly, bars, copies
  <1>8. CASE Loop \/ SpuriousWakeup
    BY <1>3, <1>4, <1>5, <1>8
    DEF Loop, StartLoop, FindEmpty, Block, Pop, Trade, SpuriousWakeup,
        ProducersUnchanged, bars, copies
  <1>9. CASE SwitchSymbol \/ SwitchInstance
    BY <1>5, <1>9 DEF SwitchSymbol, SwitchInstance, bars, copies
  <1>10. CASE UNCHANGED vars
    BY <1>5, <1>10 DEF vars, bars, copies
  <1> QED BY <1>7, <1>8, <1>9, <1>10 DEF Next

\* Read without rw_mutex, the previous bar is never newer than the current one.
THEOREM BarsStayInOrder == Spec => []BarsInOrder
  <1>1. Init => BarInv
    BY DEF Init, BarInv, BarsInOrder
  <1>2. FeedInv => TypeOK
    BY DEF FeedInv
  <1>3. BarInv => BarsInOrder
    BY DEF BarInv
  <1> QED BY <1>1, <1>2, <1>3, BarStep, FeedInvariance, PTL DEF Spec
=============================================================================

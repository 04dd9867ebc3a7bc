--------------------------- MODULE RedisStoreProofs ---------------------------
(***************************************************************************)
(* What is stored of an account never goes back, and no time recorded of   *)
(* an order is lost: proofs for any number of orders, fills, starts and    *)
(* crashes; and the types, whose bound on the executed total counts orders.*)
(***************************************************************************)
EXTENDS RedisStore, FiniteSetTheorems, TLAPS

(* A thread has these fields, whatever it has read.                        *)
TraderForm == {"do", "id", "half", "got"} \subseteq DOMAIN trader

Counts ==
  /\ fills \in Nat /\ totalExecuted \in Nat
  /\ position.fills \in Nat
  /\ position # NoPosition => /\ {"executed", "fills"} \subseteq DOMAIN position
                              /\ position.executed \in Nat

(* While the program runs, the account knows of all that is stored.        *)
StoredIsOld ==
  trader.do # "down" =>
    /\ position.fills <= fills
    /\ position # NoPosition => position.executed <= totalExecuted

(* Nobody else writes the key between the halves of a read-modify-write.   *)
ReadIsCurrent ==
  trader.do \in InForce /\ trader.half = "set" => trader.got = position

(* The arguments of a round are newer than what is stored, and no newer    *)
(* than the account.                                                       *)
ArgumentsAreNewer ==
  trader.do = "args" =>
    /\ "quantity" \in DOMAIN trader.got <=> "fills" \in DOMAIN trader.got
    /\ "fills" \in DOMAIN trader.got =>
         /\ trader.got.fills \in Nat
         /\ position.fills <= trader.got.fills /\ trader.got.fills <= fills
    /\ "executed" \in DOMAIN trader.got =>
         /\ trader.got.executed \in Nat
         /\ trader.got.executed <= totalExecuted
         /\ position # NoPosition => position.executed <= trader.got.executed

RedisInv ==
  /\ misread \in BOOLEAN
  /\ TraderForm
  /\ ~misread => /\ Counts
                 /\ StoredIsOld
                 /\ ReadIsCurrent
                 /\ ArgumentsAreNewer

(* The names of the trader's work are all different.                       *)
LEMMA WorkIsDistinct ==
  /\ "idle" \notin InForce /\ "args" \notin InForce /\ "info" \notin InForce
  /\ "down" \notin InForce
  /\ \A do \in Times : do \notin InForce \cup {"args", "down"}
  BY DEF InForce, Times

(* A step that leaves the trading thread without a half-done read or write *)
(* and only adds to the account keeps the invariant.                       *)
LEMMA Quiet ==
  ASSUME RedisInv, misread' = misread,
         position' = position, fills' \in Nat, totalExecuted' \in Nat,
         fills' >= fills, totalExecuted' >= totalExecuted,
         TraderForm', trader'.do \notin InForce \cup {"args"},
         trader.do = "down" => trader'.do = "down"
  PROVE  RedisInv'
  BY DEF RedisInv, Counts, StoredIsOld, ReadIsCurrent, ArgumentsAreNewer

-----------------------------------------------------------------------------
(* Every step keeps the invariant.                                         *)

(* The program is not running, nothing is stored and nothing has been read.*)
LEMMA InitRedis == Init => RedisInv
  <1> SUFFICES ASSUME Init PROVE RedisInv
    OBVIOUS
  <1>1. TraderForm /\ trader.do = "down" /\ misread \in BOOLEAN
    BY DEF Init, TraderForm, Doing
  <1>2. Counts
    BY DEF Init, Counts, NoPosition
  <1> QED BY <1>1, <1>2, WorkIsDistinct DEF RedisInv, StoredIsOld, ReadIsCurrent,
                                           ArgumentsAreNewer

(* A start restores what is stored, or has failed to read it.              *)
LEMMA StartStep == RedisInv /\ Start => RedisInv'
  <1> SUFFICES ASSUME RedisInv, Start PROVE RedisInv'
    OBVIOUS
  <1>1. TraderForm' /\ trader'.do \in {"pif", "idle"} /\ trader'.half = "get"
    BY DEF Start, TraderForm, Doing, Idle
  <1>2. ReadIsCurrent' /\ ArgumentsAreNewer'
    BY <1>1 DEF ReadIsCurrent, ArgumentsAreNewer
  <1>3. misread' \in BOOLEAN
    BY DEF Start, GetAnswers, RedisInv
  <1>4. ASSUME ~misread' PROVE Counts' /\ StoredIsOld'
    <2>1. CASE position # NoPosition /\ fills' = position.fills
               /\ totalExecuted' = position.executed /\ misread' = misread
      BY <1>4, <2>1 DEF Start, RedisInv, Counts, StoredIsOld
    <2>2. CASE /\ GetAnswers(position, NoPosition, NoPosition)
               /\ fills' = 0 /\ totalExecuted' = 0
      <3>1. position = NoPosition /\ misread' = misread
        BY <1>4, <2>2 DEF GetAnswers
      <3> QED BY <2>2, <3>1 DEF Start, Counts, StoredIsOld, NoPosition
    <2> QED BY <2>1, <2>2 DEF Start
  <1> QED BY <1>1, <1>2, <1>3, <1>4 DEF RedisInv

(* The read of a read-modify-write gets what is stored.                    *)
LEMMA GetPositionStep == RedisInv /\ GetPosition => RedisInv'
  <1> SUFFICES ASSUME RedisInv, GetPosition PROVE RedisInv'
    OBVIOUS
  <1>1. PICK got \in {position, NoPosition} :
          /\ GetAnswers(position, NoPosition, got)
          /\ trader' = [trader EXCEPT !.half = "set", !.got = got]
    BY DEF GetPosition
  <1>2. /\ TraderForm' /\ trader'.do = trader.do /\ trader'.got = got
    BY <1>1 DEF RedisInv, TraderForm
  <1>3. misread' \in BOOLEAN
    BY <1>1 DEF GetAnswers, RedisInv
  <1>4. ASSUME ~misread' PROVE Counts' /\ StoredIsOld' /\ ReadIsCurrent'
    <2>1. got = position /\ ~misread
      BY <1>1, <1>4 DEF GetAnswers
    <2> QED BY <1>2, <2>1 DEF GetPosition, account, RedisInv, Counts, StoredIsOld,
                              ReadIsCurrent
  <1>5. ArgumentsAreNewer'
    BY <1>2, WorkIsDistinct DEF GetPosition, ArgumentsAreNewer
  <1> QED BY <1>2, <1>3, <1>4, <1>5 DEF RedisInv

(* What the three writes of a restart leave in Redis.                      *)
LEMMA PutKeeps ==
  ASSUME RedisInv, PutPosition, ~misread
  PROVE  /\ position'.fills = position.fills
         /\ position' # NoPosition =>
              /\ {"executed", "fills"} \subseteq DOMAIN position'
              /\ position'.executed \in Nat
              /\ position'.executed <= totalExecuted
         /\ position # NoPosition => /\ position' # NoPosition
                                     /\ position'.executed >= position.executed
  <1>1. trader.got = position /\ trader.do # "down"
    BY WorkIsDistinct DEF PutPosition, RedisInv, ReadIsCurrent
  <1>2. CASE position' = position
    BY <1>1, <1>2 DEF RedisInv, Counts, StoredIsOld
  <1>3. CASE position' = LiveReset(position)
    <2>1. CASE position = NoPosition
      BY <1>3, <2>1 DEF LiveReset, NewPosition, NoPosition, RedisInv, Counts
    <2>2. CASE position # NoPosition
      <3>1. position' = [position EXCEPT !.executed = totalExecuted]
        BY <1>3, <2>2 DEF LiveReset
      <3>2. /\ {"executed", "fills"} \subseteq DOMAIN position
            /\ totalExecuted \in Nat /\ position.executed <= totalExecuted
        BY <1>1, <2>2 DEF RedisInv, Counts, StoredIsOld
      <3>3. position' # NoPosition
        BY <3>1, <3>2 DEF NoPosition
      <3> QED BY <3>1, <3>2, <3>3
    <2> QED BY <2>1, <2>2
  <1> QED BY <1>1, <1>2, <1>3 DEF PutPosition, SetPosition

(* The write of a read-modify-write goes on with the next one.             *)
LEMMA PutPositionStep == RedisInv /\ PutPosition => RedisInv'
  <1> SUFFICES ASSUME RedisInv, PutPosition PROVE RedisInv'
    OBVIOUS
  <1>1. /\ TraderForm' /\ trader'.half = "get" /\ trader'.do # "args"
        /\ trader.do # "down"
    BY DEF PutPosition, After, Doing, Idle, TraderForm, InForce
  <1>2. misread' = misread /\ fills' = fills /\ totalExecuted' = totalExecuted
    BY DEF PutPosition, runs, account
  <1>3. ASSUME ~misread PROVE Counts' /\ StoredIsOld'
    BY <1>1, <1>2, <1>3, PutKeeps DEF RedisInv, Counts, StoredIsOld
  <1> QED BY <1>1, <1>2, <1>3 DEF RedisInv, ReadIsCurrent, ArgumentsAreNewer

(* A round has read nothing yet.                                           *)
LEMMA BeginRoundStep == RedisInv /\ BeginRound => RedisInv'
  <1> SUFFICES ASSUME RedisInv, BeginRound PROVE RedisInv'
    OBVIOUS
  <1>1. trader' = [Doing("args", 0) EXCEPT !.got = NotRead]
    BY DEF BeginRound
  <1>2. TraderForm' /\ trader'.do = "args" /\ DOMAIN trader'.got = {}
    BY <1>1 DEF Doing, NotRead, TraderForm
  <1>3. trader.do = "idle"
    BY DEF BeginRound, RoundDue
  <1> QED BY <1>2, <1>3, WorkIsDistinct
          DEF BeginRound, account, runs, RedisInv, Counts, StoredIsOld, ReadIsCurrent,
              ArgumentsAreNewer

(* An argument is read as it is now; the others stay as they were read.    *)
LEMMA ReadArgumentStep ==
  ASSUME RedisInv, NEW f \in Fields, ReadArgument(f)
  PROVE  RedisInv'
  <1>1. /\ trader.do = "args" /\ f \notin DOMAIN trader.got
        /\ trader' = [trader EXCEPT !.got = Joined(trader.got, Argument(f))]
        /\ UNCHANGED <<position, fills, totalExecuted, misread>>
    BY DEF ReadArgument, account, runs
  <1>2. /\ TraderForm' /\ trader'.do = "args"
        /\ trader'.got = Joined(trader.got, Argument(f))
    BY <1>1 DEF TraderForm, RedisInv
  <1>3. ASSUME ~misread PROVE ArgumentsAreNewer'
    <2>1. CASE f = "quantity"
      <3>1. /\ DOMAIN Argument(f) = {"quantity", "fills"}
            /\ Argument(f).fills = fills
        BY <2>1 DEF Argument
      <3>2. /\ DOMAIN trader'.got = DOMAIN trader.got \cup {"quantity", "fills"}
            /\ trader'.got.fills = fills
            /\ "executed" \in DOMAIN trader.got => trader'.got.executed = trader.got.executed
        BY <1>1, <1>2, <1>3, <2>1, <3>1 DEF Joined, RedisInv, ArgumentsAreNewer
      <3> QED BY <1>1, <1>2, <1>3, <3>2 DEF RedisInv, Counts, StoredIsOld, ArgumentsAreNewer
    <2>2. CASE f = "executed"
      <3>1. /\ DOMAIN Argument(f) = {"executed"}
            /\ Argument(f).executed = totalExecuted
        BY <2>2 DEF Argument
      <3>2. /\ DOMAIN trader'.got = DOMAIN trader.got \cup {"executed"}
            /\ trader'.got.executed = totalExecuted
            /\ "fills" \in DOMAIN trader.got => trader'.got.fills = trader.got.fills
        BY <1>1, <1>2, <2>2, <3>1 DEF Joined
      <3> QED BY <1>1, <1>2, <1>3, <3>2 DEF RedisInv, Counts, StoredIsOld, ArgumentsAreNewer
    <2> QED BY <2>1, <2>2 DEF Fields
  <1> QED BY <1>1, <1>2, <1>3, WorkIsDistinct
          DEF RedisInv, Counts, StoredIsOld, ReadIsCurrent

(* A round writes all its arguments, or nothing.                           *)
LEMMA WriteToRedisStep == RedisInv /\ WriteToRedis => RedisInv'
  <1> SUFFICES ASSUME RedisInv, WriteToRedis PROVE RedisInv'
    OBVIOUS
  <1>1. /\ trader.do = "args" /\ Fields \subseteq DOMAIN trader.got
        /\ trader' = Idle /\ UNCHANGED <<fills, totalExecuted, misread>>
        /\ position' = trader.got \/ position' = position
    BY DEF WriteToRedis, SetPosition, account, runs
  <1>2. TraderForm' /\ trader'.do = "idle"
    BY <1>1 DEF Idle, Doing, TraderForm
  <1>3. ASSUME ~misread PROVE Counts' /\ StoredIsOld'
    BY <1>1, <1>3 DEF RedisInv, Counts, StoredIsOld, ArgumentsAreNewer, Fields
  <1> QED BY <1>1, <1>2, <1>3, WorkIsDistinct DEF RedisInv, ReadIsCurrent, ArgumentsAreNewer

-----------------------------------------------------------------------------
(* The other steps leave the key alone.                                    *)

(* The calls of the trading thread begin and end with nothing half done.   *)
LEMMA TraderCallStep ==
  ASSUME RedisInv,
         \/ SendOrder \/ WriteOrderInfo
         \/ \E i \in Ids : ChangeOrder(i) \/ CancelOrder(i)
  PROVE  RedisInv'
  <1>1. /\ UNCHANGED <<position, fills, totalExecuted, misread>>
        /\ trader.do # "down"
        /\ \E do \in {"info", "change", "cancel", "idle"} : \E id : trader' = Doing(do, id)
    BY DEF SendOrder, WriteOrderInfo, ChangeOrder, CancelOrder, account, runs, Idle
  <1>2. TraderForm' /\ trader'.do \notin InForce \cup {"args"}
    BY <1>1 DEF TraderForm, Doing, InForce
  <1> QED BY <1>1, <1>2 DEF RedisInv, Counts, StoredIsOld, ReadIsCurrent, ArgumentsAreNewer

(* So do the times it records, one half after the other.                   *)
LEMMA TraderUpdatesStep == RedisInv /\ TraderUpdates => RedisInv'
  <1> SUFFICES ASSUME RedisInv, TraderUpdates PROVE RedisInv'
    OBVIOUS
  <1>1. /\ UNCHANGED <<position, fills, totalExecuted>>
        /\ trader.do \in Times
        /\ misread' \in BOOLEAN /\ (misread => misread')
    BY DEF TraderUpdates, Get, Put, GetAnswers, account, RedisInv
  <1>2. TraderForm' /\ (trader'.do = trader.do \/ trader'.do = "idle")
    <2>1. CASE Put(trader, trader')
      BY <2>1 DEF Put, TraderForm, Idle, Doing
    <2>2. CASE Get(trader, trader')
      <3>1. PICK got : trader' = [trader EXCEPT !.half = "set", !.got = got]
        BY <2>2 DEF Get
      <3> QED BY <3>1 DEF RedisInv, TraderForm
    <2> QED BY <2>1, <2>2 DEF TraderUpdates
  <1>3. trader.do \notin InForce \cup {"args", "down"}
        /\ trader'.do \notin InForce \cup {"args", "down"}
    BY <1>1, <1>2, WorkIsDistinct
  <1> QED BY <1>1, <1>2, <1>3 DEF RedisInv, Counts, StoredIsOld, ReadIsCurrent,
                                  ArgumentsAreNewer

(* The callback thread only adds to the account.                           *)
LEMMA GatewayStep ==
  ASSUME RedisInv,
         \/ \E i \in Ids : OnOrderDone(i) \/ \E n \in {-1, 1} : Fill(i, n)
         \/ GatewayUpdates
  PROVE  RedisInv'
  <1>1. /\ UNCHANGED <<position, trader>>
        /\ misread' \in BOOLEAN /\ (misread => misread')
        /\ fills' \in {fills, fills + 1}
        /\ totalExecuted' \in {totalExecuted, totalExecuted + 1}
    BY DEF OnOrderDone, Fill, GatewayUpdates, Get, Put, GetAnswers, account, runs, RedisInv
  <1> QED BY <1>1 DEF RedisInv, TraderForm, Counts, StoredIsOld, ReadIsCurrent,
                      ArgumentsAreNewer

(* A crash leaves nothing but what is stored.                              *)
LEMMA CrashStep == RedisInv /\ Crash => RedisInv'
  <1> SUFFICES ASSUME RedisInv, Crash PROVE RedisInv'
    OBVIOUS
  <1>1. /\ UNCHANGED <<position, misread>> /\ fills' = 0 /\ totalExecuted' = 0
        /\ trader' = Doing("down", 0)
    BY DEF Crash, runs
  <1>2. TraderForm' /\ trader'.do = "down"
    BY <1>1 DEF Doing, TraderForm
  <1> QED BY <1>1, <1>2, WorkIsDistinct
          DEF RedisInv, Counts, StoredIsOld, ReadIsCurrent, ArgumentsAreNewer

(* Every step keeps the invariant.                                         *)
LEMMA StepRedis == RedisInv /\ [Next]_vars => RedisInv'
  <1> SUFFICES ASSUME RedisInv, [Next]_vars PROVE RedisInv'
    OBVIOUS
  <1>1. CASE Restore
    BY <1>1, StartStep, GetPositionStep, PutPositionStep DEF Restore
  <1>2. CASE Rounds
    BY <1>2, BeginRoundStep, ReadArgumentStep, WriteToRedisStep DEF Rounds
  <1>3. CASE SendOrder \/ WriteOrderInfo \/ \E i \in Ids : ChangeOrder(i) \/ CancelOrder(i)
    BY <1>3, TraderCallStep
  <1>4. CASE TraderUpdates
    BY <1>4, TraderUpdatesStep
  <1>5. CASE \/ \E i \in Ids : OnOrderDone(i) \/ \E n \in {-1, 1} : Fill(i, n)
             \/ GatewayUpdates
    BY <1>5, GatewayStep
  <1>6. CASE Crash
    BY <1>6, CrashStep
  <1>7. CASE UNCHANGED vars
    BY <1>7 DEF vars, account, runs, RedisInv, TraderForm, Counts, StoredIsOld,
                ReadIsCurrent, ArgumentsAreNewer
  <1> QED BY <1>1, <1>2, <1>3, <1>4, <1>5, <1>6, <1>7 DEF Next

(* The invariant of what is stored, read and about to be written.          *)
THEOREM RedisInvariance == Spec => []RedisInv
  <1> QED BY InitRedis, StepRedis, PTL DEF Spec

-----------------------------------------------------------------------------
(* No step stores something older, unless a get has failed.                *)
LEMMA StepKeepsNewest ==
  ASSUME RedisInv, [Next]_vars, ~misread'
  PROVE  /\ position'.fills >= position.fills
         /\ position # NoPosition => position'.executed >= position.executed
  <1>1. ~misread
    BY DEF Next, vars, Restore, Rounds, Start, GetPosition, PutPosition, BeginRound,
           ReadArgument, WriteToRedis, SendOrder, WriteOrderInfo, TraderUpdates,
           ChangeOrder, CancelOrder, OnOrderDone, Fill, GatewayUpdates, Crash,
           Get, Put, GetAnswers, runs
  <1>2. Counts /\ StoredIsOld /\ ArgumentsAreNewer
    BY <1>1 DEF RedisInv
  <1>3. CASE PutPosition
    BY <1>1, <1>2, <1>3, PutKeeps DEF Counts
  <1>4. CASE WriteToRedis
    BY <1>2, <1>4 DEF WriteToRedis, SetPosition, Counts, ArgumentsAreNewer, Fields
  <1>5. CASE position' = position
    BY <1>2, <1>5 DEF Counts
  <1>6. \/ PutPosition \/ WriteToRedis \/ position' = position
    BY DEF Next, vars, Restore, Rounds, Start, GetPosition, BeginRound,
           ReadArgument, SendOrder, WriteOrderInfo, TraderUpdates,
           ChangeOrder, CancelOrder, OnOrderDone, Fill, GatewayUpdates, Crash
  <1> QED BY <1>3, <1>4, <1>5, <1>6

(* Neither rounds, restarts and their read-modify-writes, failed sets nor  *)
(* crashes take the stored position or executed total back, whatever the   *)
(* interleaving with the fills, as long as no get fails.                   *)
THEOREM NewestStays == Spec => NewestIsKept
  <1>1. RedisInv /\ [Next]_vars =>
          [~misread' => /\ StoredFills' >= StoredFills
                        /\ position # NoPosition =>
                             position'.executed >= position.executed]_vars
    BY StepKeepsNewest DEF StoredFills
  <1> QED BY <1>1, RedisInvariance, PTL DEF Spec, NewestIsKept

-----------------------------------------------------------------------------
(* The times of an order.                                                  *)

JobForm(job) == {"do", "id", "half", "got"} \subseteq DOMAIN job

(* What a job has read of an entry of this run is still there when it      *)
(* writes it back.                                                         *)
Current(job, there) ==
  job.do \in Times /\ job.half = "set" /\ job.id > used /\ job.got # NoEntry =>
    job.got = there[job.id]

TimesInv ==
  /\ next \in Nat /\ used \in Nat
  /\ DOMAIN entries = Ids /\ DOMAIN orders = Ids
  /\ JobForm(trader) /\ JobForm(gateway)
  /\ \A i \in Ids : /\ orders[i] # "none" => i < next
                    /\ i >= next /\ i > used => entries[i] = NoEntry
  /\ trader.do = "info" =>
       /\ trader.id \in Ids /\ trader.id < next
       /\ trader.id > used => entries[trader.id] = NoEntry
  \* the two threads never record a time of the same order
  /\ trader.do \in Times =>
       trader.id \in Ids /\ orders[trader.id] \in {"changed", "cancelled"}
  /\ gateway.do \in Times => gateway.id \in Ids /\ orders[gateway.id] = "done"
  /\ Current(trader, entries) /\ Current(gateway, entries)

(* What a step may do to the entries.                                      *)
KeepsTimes ==
  \A i \in Ids : i > used /\ entries[i] # NoEntry => entries[i] \subseteq entries'[i]

LEMMA DoingFacts ==
  ASSUME NEW do, NEW id
  PROVE  /\ JobForm(Doing(do, id))
         /\ Doing(do, id).do = do /\ Doing(do, id).id = id
         /\ Doing(do, id).half = "get"
  BY DEF Doing, JobForm

LEMMA InitTimes == Init => TimesInv
  <1> SUFFICES ASSUME Init PROVE TimesInv
    OBVIOUS
  <1>1. /\ JobForm(trader) /\ trader.do = "down" /\ JobForm(gateway) /\ gateway.do = "idle"
    BY DoingFacts DEF Init, Idle
  <1> QED BY <1>1 DEF Init, TimesInv, Current, Times

(* A step of the trading thread that has nothing to do with entries.       *)
LEMMA NoEntryTouched ==
  ASSUME TimesInv, UNCHANGED <<entries, orders, next, used, gateway>>,
         JobForm(trader'), trader'.do \notin Times \cup {"info"}
  PROVE  TimesInv' /\ KeepsTimes
  BY DEF TimesInv, Current, KeepsTimes

(* One half of the update of an entry, by either thread.                   *)
LEMMA OneHalf ==
  ASSUME NEW job, NEW job2, Get(job, job2) \/ Put(job, job2),
         JobForm(job), job.id \in Ids, DOMAIN entries = Ids,
         Current(job, entries)
  PROVE  /\ JobForm(job2) /\ Current(job2, entries')
         /\ job2.do = "idle" \/ (job2.do = job.do /\ job2.id = job.id)
         /\ DOMAIN entries' = Ids
         /\ \A i \in Ids : i # job.id => entries'[i] = entries[i]
         /\ job.id > used => IF entries[job.id] = NoEntry
                             THEN entries'[job.id] = NoEntry
                             ELSE entries[job.id] \subseteq entries'[job.id]
  <1>1. CASE Get(job, job2)
    <2>1. PICK got \in {entries[job.id], NoEntry} :
            job2 = [job EXCEPT !.half = "set", !.got = got]
      BY <1>1 DEF Get
    <2>2. /\ JobForm(job2) /\ job2.do = job.do /\ job2.id = job.id /\ job2.got = got
          /\ entries' = entries
      BY <1>1, <2>1 DEF JobForm, Get
    <2> QED BY <2>1, <2>2 DEF Current
  <1>2. CASE Put(job, job2)
    <2>1. /\ job2 = Idle /\ job.do \in Times /\ job.half = "set"
          /\ \/ entries' = entries
             \/ /\ job.got # NoEntry
                /\ entries' = [entries EXCEPT ![job.id] = job.got \cup {job.do}]
      BY <1>2 DEF Put, SetEntry
    <2>2. JobForm(job2) /\ job2.do = "idle" /\ "idle" \notin Times
      BY <2>1, DoingFacts DEF Idle, Times
    <2> QED BY <2>1, <2>2 DEF Current
  <1> QED BY <1>1, <1>2

(* The trading thread sends an order, which has no entry of this run yet.  *)
LEMMA SendOrderTimes == TimesInv /\ SendOrder => TimesInv' /\ KeepsTimes
  <1> SUFFICES ASSUME TimesInv, SendOrder PROVE TimesInv' /\ KeepsTimes
    OBVIOUS
  <1>1. /\ next \in Ids /\ next' = next + 1 /\ trader' = Doing("info", next)
        /\ orders' = [orders EXCEPT ![next] = "live"]
        /\ UNCHANGED <<entries, used, gateway>>
    BY DEF SendOrder
  <1>2. JobForm(trader') /\ trader'.do = "info" /\ trader'.id = next /\ "info" \notin Times
    BY <1>1, DoingFacts DEF Times
  <1>3. \A i \in Ids : i \in Nat
    BY RedisAssumption DEF Ids
  <1> QED BY <1>1, <1>2, <1>3 DEF TimesInv, Current, KeepsTimes

(* It makes the entry; a time of the order can only have been dropped.     *)
LEMMA WriteOrderInfoTimes == TimesInv /\ WriteOrderInfo => TimesInv' /\ KeepsTimes
  <1> SUFFICES ASSUME TimesInv, WriteOrderInfo PROVE TimesInv' /\ KeepsTimes
    OBVIOUS
  <1>1. /\ trader.do = "info" /\ trader' = Idle
        /\ entries' = entries \/ entries' = [entries EXCEPT ![trader.id] = {}]
        /\ UNCHANGED <<orders, next, used, gateway>>
    BY DEF WriteOrderInfo, SetEntry
  <1>2. JobForm(trader') /\ trader'.do = "idle" /\ "idle" \notin Times
    BY <1>1, DoingFacts DEF Idle, Times
  <1>3. /\ trader.id \in Ids /\ trader.id < next
        /\ trader.id > used => entries[trader.id] = NoEntry
        /\ \A i \in Ids : i \in Nat
    BY <1>1, RedisAssumption DEF TimesInv, Ids
  <1>4. /\ DOMAIN entries' = Ids
        /\ \A i \in Ids : i # trader.id => entries'[i] = entries[i]
    BY <1>1 DEF TimesInv
  <1>5. Current(gateway, entries)'
    BY <1>1, <1>3, <1>4 DEF TimesInv, Current
  <1>6. \A i \in Ids : i >= next /\ i > used => entries'[i] = NoEntry
    BY <1>3, <1>4 DEF TimesInv
  <1>7. KeepsTimes
    BY <1>3, <1>4 DEF KeepsTimes
  <1> QED BY <1>1, <1>2, <1>4, <1>5, <1>6, <1>7 DEF TimesInv, Current

(* It has changed or cancelled an order, which is not filled any more.     *)
LEMMA AnsweredTimes ==
  ASSUME TimesInv, NEW i \in Ids, ChangeOrder(i) \/ CancelOrder(i)
  PROVE  TimesInv' /\ KeepsTimes
  <1>1. /\ trader' = Doing("change", i) \/ trader' = Doing("cancel", i)
        /\ orders[i] = "live" /\ UNCHANGED <<entries, used, gateway>>
        /\ \/ /\ orders' = [orders EXCEPT ![i] = "cancelled"] /\ next' = next
           \/ /\ next \in Ids /\ next' = next + 1
              /\ orders' = [orders EXCEPT ![i] = "changed", ![next] = "live"]
    BY DEF ChangeOrder, CancelOrder, CancelAnswered, Answer
  <1>2. /\ JobForm(trader') /\ trader'.do \in {"change", "cancel"} /\ trader'.id = i
        /\ trader'.half = "get"
    BY <1>1, DoingFacts
  <1>3. \A j \in Ids : j \in Nat
    BY RedisAssumption DEF Ids
  <1> QED BY <1>1, <1>2, <1>3 DEF TimesInv, Current, KeepsTimes

(* A time is recorded of an order the other thread leaves alone.           *)
LEMMA TraderTimes == TimesInv /\ TraderUpdates => TimesInv' /\ KeepsTimes
  <1> SUFFICES ASSUME TimesInv, TraderUpdates PROVE TimesInv' /\ KeepsTimes
    OBVIOUS
  <1>1. /\ Get(trader, trader') \/ Put(trader, trader')
        /\ UNCHANGED <<orders, next, used, gateway>>
        /\ trader.do \in Times
    BY DEF TraderUpdates, Get, Put
  <1>2. /\ JobForm(trader) /\ trader.id \in Ids /\ DOMAIN entries = Ids
        /\ Current(trader, entries)
        /\ orders[trader.id] \in {"changed", "cancelled"}
    BY <1>1 DEF TimesInv
  <1>3. /\ JobForm(trader') /\ Current(trader', entries')
        /\ trader'.do = "idle" \/ (trader'.do = trader.do /\ trader'.id = trader.id)
        /\ DOMAIN entries' = Ids
        /\ \A i \in Ids : i # trader.id => entries'[i] = entries[i]
        /\ trader.id > used => IF entries[trader.id] = NoEntry
                               THEN entries'[trader.id] = NoEntry
                               ELSE entries[trader.id] \subseteq entries'[trader.id]
    BY <1>1, <1>2, OneHalf
  <1>4. {"idle", "info"} \cap Times = {}
    BY DEF Times
  <1>5. Current(gateway, entries)' /\ Current(trader, entries)'
    BY <1>1, <1>2, <1>3 DEF TimesInv, Current
  <1>6. \A i \in Ids : i >= next /\ i > used => entries'[i] = NoEntry
    BY <1>3 DEF TimesInv
  <1>7. KeepsTimes
    BY <1>3 DEF KeepsTimes
  <1> QED BY <1>1, <1>2, <1>3, <1>4, <1>5, <1>6, <1>7 DEF TimesInv

LEMMA GatewayTimes == TimesInv /\ GatewayUpdates => TimesInv' /\ KeepsTimes
  <1> SUFFICES ASSUME TimesInv, GatewayUpdates PROVE TimesInv' /\ KeepsTimes
    OBVIOUS
  <1>1. /\ Get(gateway, gateway') \/ Put(gateway, gateway')
        /\ UNCHANGED <<orders, next, used, trader>>
        /\ gateway.do \in Times
    BY DEF GatewayUpdates, Get, Put
  <1>2. /\ JobForm(gateway) /\ gateway.id \in Ids /\ DOMAIN entries = Ids
        /\ Current(gateway, entries)
        /\ orders[gateway.id] = "done"
    BY <1>1 DEF TimesInv
  <1>3. /\ JobForm(gateway') /\ Current(gateway', entries')
        /\ gateway'.do = "idle" \/ (gateway'.do = gateway.do /\ gateway'.id = gateway.id)
        /\ DOMAIN entries' = Ids
        /\ \A i \in Ids : i # gateway.id => entries'[i] = entries[i]
        /\ gateway.id > used => IF entries[gateway.id] = NoEntry
                                THEN entries'[gateway.id] = NoEntry
                                ELSE entries[gateway.id] \subseteq entries'[gateway.id]
    BY <1>1, <1>2, OneHalf
  <1>4. "idle" \notin Times
    BY DEF Times
  <1>5. Current(gateway, entries)' /\ Current(trader, entries)'
    BY <1>1, <1>2, <1>3 DEF TimesInv, Current
  <1>6. \A i \in Ids : i > used /\ entries[i] = NoEntry => entries'[i] = NoEntry
    BY <1>2, <1>3
  <1>7. KeepsTimes
    BY <1>3 DEF KeepsTimes
  <1> QED BY <1>1, <1>2, <1>3, <1>4, <1>5, <1>6, <1>7 DEF TimesInv

(* A fill and the end of an order, whose time the callback thread records. *)
LEMMA FillTimes ==
  ASSUME TimesInv, NEW i \in Ids, OnOrderDone(i) \/ \E n \in {-1, 1} : Fill(i, n)
  PROVE  TimesInv' /\ KeepsTimes
  <1>1. /\ UNCHANGED <<entries, next, used, trader>>
        /\ \/ /\ orders[i] = "live" /\ orders' = [orders EXCEPT ![i] = "filled"]
              /\ gateway' = gateway /\ gateway = Idle
           \/ /\ orders[i] = "filled" /\ orders' = [orders EXCEPT ![i] = "done"]
              /\ gateway' = Doing("exec", i)
    BY DEF OnOrderDone, Fill, Answer
  <1>2. /\ Idle.do = "idle" /\ "idle" \notin Times
        /\ JobForm(Doing("exec", i)) /\ Doing("exec", i).do = "exec"
        /\ Doing("exec", i).id = i /\ Doing("exec", i).half = "get"
    BY DoingFacts DEF Idle, Times
  <1> QED BY <1>1, <1>2 DEF TimesInv, Current, KeepsTimes

(* The ids of a run that has crashed are used up.                          *)
LEMMA CrashTimes == TimesInv /\ Crash => TimesInv' /\ KeepsTimes
  <1> SUFFICES ASSUME TimesInv, Crash PROVE TimesInv' /\ KeepsTimes
    OBVIOUS
  <1>1. /\ entries' = entries /\ trader' = Doing("down", 0) /\ gateway' = Idle
        /\ orders' = [i \in Ids |-> "none"] /\ next' = 1
        /\ used' = IF next - 1 > used THEN next - 1 ELSE used
    BY DEF Crash
  <1>2. /\ JobForm(trader') /\ trader'.do = "down" /\ trader'.do \notin Times
        /\ JobForm(gateway') /\ gateway'.do = "idle" /\ gateway'.do \notin Times
    BY <1>1, DoingFacts DEF Idle, Times
  <1>3. \A i \in Ids : i \in Nat
    BY RedisAssumption DEF Ids
  <1>4. \A i \in Ids : i > used' => i >= next /\ i > used
    BY <1>1, <1>3 DEF TimesInv
  <1>5. used' \in Nat
    BY <1>1 DEF TimesInv
  <1> QED BY <1>1, <1>2, <1>4, <1>5 DEF TimesInv, Current, KeepsTimes

(* A start, its read-modify-writes and a round.                            *)
LEMMA OtherTimes ==
  ASSUME TimesInv, Restore \/ Rounds  PROVE TimesInv' /\ KeepsTimes
  <1>1. UNCHANGED <<entries, orders, next, used, gateway>>
    BY DEF Restore, Rounds, Start, GetPosition, PutPosition, BeginRound, ReadArgument,
           WriteToRedis
  <1>2. JobForm(trader') /\ trader'.do \notin Times \cup {"info"}
    <2>1. CASE \E do \in InForce \cup {"idle"} : trader' = Doing(do, 0)
      BY <2>1, DoingFacts DEF InForce, Times
    <2>2. ASSUME NEW got, trader' = [trader EXCEPT !.half = "set", !.got = got],
                 trader.do \in InForce
          PROVE  JobForm(trader') /\ trader'.do = trader.do
      BY <2>2 DEF TimesInv, JobForm
    <2>3. ASSUME NEW got, trader' = [trader EXCEPT !.got = got], trader.do = "args"
          PROVE  JobForm(trader') /\ trader'.do = "args"
      BY <2>3 DEF TimesInv, JobForm
    <2>4. ASSUME trader' = [Doing("args", 0) EXCEPT !.got = NotRead]
          PROVE  JobForm(trader') /\ trader'.do = "args"
      BY <2>4 DEF Doing, JobForm
    <2>5. Start \/ PutPosition \/ WriteToRedis => \E do \in InForce \cup {"idle"} : trader' = Doing(do, 0)
      BY DEF Start, PutPosition, WriteToRedis, After, InForce, Idle
    <2>6. CASE GetPosition
      BY <2>2, <2>6 DEF GetPosition, InForce, Times
    <2>7. CASE BeginRound \/ \E f \in Fields : ReadArgument(f)
      BY <2>3, <2>4, <2>7 DEF BeginRound, ReadArgument, Times
    <2> QED BY <2>1, <2>5, <2>6, <2>7 DEF Restore, Rounds
  <1> QED BY <1>1, <1>2, NoEntryTouched

LEMMA StepTimes == TimesInv /\ [Next]_vars => TimesInv' /\ KeepsTimes
  <1> SUFFICES ASSUME TimesInv, [Next]_vars PROVE TimesInv' /\ KeepsTimes
    OBVIOUS
  <1>1. CASE UNCHANGED vars
    BY <1>1 DEF vars, TimesInv, Current, KeepsTimes
  <1>2. CASE Restore \/ Rounds
    BY <1>2, OtherTimes
  <1> QED BY <1>1, <1>2, SendOrderTimes, WriteOrderInfoTimes, AnsweredTimes, TraderTimes,
             GatewayTimes, FillTimes, CrashTimes DEF Next

(* The invariant of the entries: an order of this run has none before      *)
(* writeOrderInfo, and what either thread has read of one is still there.  *)
THEOREM TimesInvariance == Spec => []TimesInv
  <1> QED BY InitTimes, StepTimes, PTL DEF Spec

(* No updateOrderExecTime, -ChangeTime or -CancleTime undoes what the      *)
(* other thread has written between its get and its set, whatever fails.   *)
THEOREM TimesStay == Spec => TimesAreKept
  <1>1. TimesInv /\ [Next]_vars =>
          [\A i \in Ids : i > used /\ entries[i] # NoEntry => entries[i] \subseteq entries'[i]]_vars
    BY StepTimes DEF KeepsTimes
  <1> QED BY <1>1, TimesInvariance, PTL DEF Spec, TimesAreKept

-----------------------------------------------------------------------------
(* The types.  The executed total of a run counts orders that are done,    *)
(* each once, on top of what the run was restored to.                      *)

NotDone == {i \in Ids : orders[i] # "done"}
Most    == MaxId * run

(* A value some round of this or an earlier run may have stored.           *)
Fits(p) ==
  /\ p \in Position
  /\ Sign * p.quantity \in 0..MaxTotal
  /\ p.executed <= Most

ArgumentsFit(got) ==
  /\ got = [x \in DOMAIN got |-> got[x]]
  /\ DOMAIN got \subseteq {"quantity", "executed", "fills"}
  /\ "quantity" \in DOMAIN got <=> "fills" \in DOMAIN got
  /\ "quantity" \in DOMAIN got =>
       /\ got.quantity \in -MaxTotal..MaxTotal /\ Sign * got.quantity \in 0..MaxTotal
       /\ got.fills \in 0..MaxFills
  /\ "executed" \in DOMAIN got => got.executed \in Nat /\ got.executed <= Most

HasRead(job) ==
  /\ job.do \in Times /\ job.half = "set" => job.got \in Entries
  /\ job.do \in InForce /\ job.half = "set" => job.got = NoPosition \/ Fits(job.got)
  /\ job.do = "args" => ArgumentsFit(job.got)

TypesInv ==
  /\ TypeOK
  /\ HasRead(trader) /\ HasRead(gateway)
  /\ position = NoPosition \/ Fits(position)
  /\ trader.do = "down" => gateway = Idle /\ \A i \in Ids : orders[i] = "none"
  /\ trader.do # "down" => totalExecuted + Cardinality(NotDone) <= Most

LEMMA SignFacts ==
  /\ Sign = 1 \/ Sign = -1
  /\ \A x \in 0..MaxTotal : Sign * x \in -MaxTotal..MaxTotal /\ Sign * (Sign * x) = x
<1>1. CASE AccountType = "long"
  <2>1. Sign = 1
    BY <1>1 DEF Sign
  <2> QED
    BY <2>1, RedisAssumption
<1>2. CASE AccountType # "long"
  <2>1. Sign = -1
    BY <1>2 DEF Sign
  <2> QED
    BY <2>1, RedisAssumption
<1> QED
  BY <1>1, <1>2

(* The bounds a run adds up to.                                            *)
LEMMA MostFacts ==
  ASSUME run \in 0..MaxRuns
  PROVE  /\ Most \in Nat /\ Most <= MaxId * MaxRuns /\ MaxId * MaxRuns \in Nat
         /\ MaxId * (run + 1) = Most + MaxId
<1>1. MaxId \in Nat /\ MaxRuns \in Nat /\ run \in Nat /\ run <= MaxRuns
  BY RedisAssumption
<1>2. \A a, b, c \in Nat : b <= c => a * b \in Nat /\ a * c \in Nat /\ a * b <= a * c
  OBVIOUS
<1>3. \A a, b \in Nat : a * (b + 1) = a * b + a
  OBVIOUS
<1> QED
  BY <1>1, <1>2, <1>3 DEF Most

LEMMA NotDoneFacts ==
  /\ IsFiniteSet(Ids) /\ Cardinality(Ids) = MaxId
  /\ IsFiniteSet(NotDone) /\ Cardinality(NotDone) \in Nat /\ Cardinality(NotDone) <= MaxId
<1>1. MaxId \in Nat /\ 1 \in Int
  BY RedisAssumption
<1>2. IsFiniteSet(1..MaxId) /\ Cardinality(1..MaxId) = MaxId
  BY <1>1, FS_Interval
<1>3. NotDone \subseteq 1..MaxId
  BY DEF NotDone, Ids
<1> QED
  BY <1>2, <1>3, FS_Subset, FS_CardinalityType DEF Ids

(* The total that a round stores.                                          *)
LEMMA TotalFits ==
  ASSUME TypesInv
  PROVE  /\ totalExecuted \in Nat /\ Most \in Nat /\ Most <= MaxId * MaxRuns
         /\ trader.do # "down" => totalExecuted <= Most
<1>1. run \in 0..MaxRuns /\ MaxId * MaxRuns \in Nat
  BY MostFacts DEF TypesInv, TypeOK
<1>2. totalExecuted \in Nat
  BY <1>1 DEF TypesInv, TypeOK
<1>3. trader.do # "down" => totalExecuted <= Most
  <2>1. Cardinality(NotDone) \in Nat /\ Most \in Nat
    BY <1>1, NotDoneFacts, MostFacts
  <2>2. trader.do # "down" => totalExecuted + Cardinality(NotDone) <= Most
    BY DEF TypesInv
  <2> QED
    BY <1>2, <2>1, <2>2
<1> QED
  BY <1>1, <1>2, <1>3, MostFacts

LEMMA ResetFits ==
  ASSUME TypesInv, trader.do # "down"
  PROVE  /\ Fits(NewPosition)
         /\ \A p : Fits(p) => Fits([p EXCEPT !.executed = totalExecuted])
<1>1. /\ totalExecuted \in 0..(MaxId * MaxRuns) /\ totalExecuted <= Most
      /\ 0 \in -MaxTotal..MaxTotal /\ Sign * 0 \in 0..MaxTotal /\ 0 \in 0..MaxFills
  <2>1. Sign * 0 = 0
    BY SignFacts
  <2> QED
    BY <2>1, TotalFits, RedisAssumption DEF TypesInv, TypeOK
<1>2. Fits(NewPosition)
  BY <1>1 DEF Fits, NewPosition, Position
<1>3. ASSUME NEW p, Fits(p)  PROVE Fits([p EXCEPT !.executed = totalExecuted])
  <2> DEFINE r == [p EXCEPT !.executed = totalExecuted]
  <2>1. p \in Position /\ Sign * p.quantity \in 0..MaxTotal
    BY <1>3 DEF Fits
  <2>2. r \in Position /\ r.quantity = p.quantity /\ r.executed = totalExecuted
    BY <1>1, <2>1 DEF Position
  <2> QED
    BY <1>1, <2>1, <2>2 DEF Fits
<1> QED
  BY <1>2, <1>3

LEMMA TypesInit == Init => TypesInv
<1> SUFFICES ASSUME Init  PROVE TypesInv
  OBVIOUS
<1>1. /\ trader.do = "down" /\ trader.half = "get" /\ gateway = Idle
      /\ gateway.do = "idle" /\ gateway.half = "get"
  BY DEF Init, Idle, Doing
<1>2. MaxId * MaxRuns \in Nat /\ MaxId \in Nat \ {0} /\ MaxTotal \in Nat /\ MaxFills \in Nat
      /\ MaxRuns \in Nat
  BY RedisAssumption
<1>3. TypeOK
  <2>1. /\ position = NoPosition /\ entries \in [Ids -> Entries] /\ total = 0
        /\ totalExecuted = 0 /\ fills = 0 /\ orders \in [Ids -> OrderStates]
        /\ next = 1 /\ used = 0 /\ run = 0 /\ misread \in BOOLEAN
    BY DEF Init, Entries, OrderStates
  <2>2. /\ totalExecuted \in 0..(MaxId * MaxRuns) /\ next \in 1..(MaxId + 1)
        /\ total \in 0..MaxTotal /\ fills \in 0..MaxFills /\ used \in 0..MaxId
        /\ run \in 0..MaxRuns
    BY ONLY <1>2, <2>1
  <2> QED
    BY <1>1, <2>1, <2>2 DEF TypeOK, Jobs
<1>4. HasRead(trader) /\ HasRead(gateway)
  BY <1>1 DEF HasRead
<1> QED
  BY <1>1, <1>3, <1>4 DEF Init, TypesInv

(* The constructor: a run may add MaxId to what it starts from.            *)
LEMMA StartTypes == TypesInv /\ Start => TypesInv'
<1> SUFFICES ASSUME TypesInv, Start  PROVE TypesInv'
  OBVIOUS
<1>1. /\ trader.do = "down" /\ run' = run + 1 /\ run < MaxRuns /\ run \in 0..MaxRuns
      /\ UNCHANGED <<position, entries, orders, next, used, gateway>>
      /\ misread' \in BOOLEAN
  BY DEF Start, TypesInv, TypeOK, GetAnswers
<1>2. Most' = Most + MaxId /\ Most \in Nat /\ MaxId \in Nat /\ Most' <= MaxId * MaxRuns
  <2>1. run' \in 0..MaxRuns
    BY <1>1, RedisAssumption
  <2> QED
    BY <1>1, <2>1, MostFacts, RedisAssumption DEF Most
<1>3. /\ total' \in 0..MaxTotal /\ totalExecuted' \in Nat /\ totalExecuted' <= Most
      /\ fills' \in 0..MaxFills /\ \E do \in {"pif", "idle"} : trader' = Doing(do, 0)
  <2>1. CASE /\ total' = Restored(position.quantity) /\ totalExecuted' = position.executed
             /\ fills' = position.fills /\ trader' = Doing("pif", 0) /\ position # NoPosition
    <3>1. Fits(position)
      BY <2>1 DEF TypesInv
    <3> QED
      BY <2>1, <3>1 DEF Fits, Position, Restored
  <2>2. CASE total' = 0 /\ totalExecuted' = 0 /\ fills' = 0 /\ trader' = Idle
    BY <1>2, <2>2, RedisAssumption DEF Idle
  <2> QED
    BY <2>1, <2>2 DEF Start
<1>4. trader'.do \in {"pif", "idle"} /\ trader'.half = "get"
  BY <1>3 DEF Doing
<1>5. TypeOK'
  BY <1>1, <1>2, <1>3, <1>4, RedisAssumption DEF TypesInv, TypeOK, Jobs
<1>6. HasRead(trader)' /\ HasRead(gateway)'
  BY <1>1, <1>4 DEF TypesInv, HasRead, Fits, ArgumentsFit, Idle, Doing, InForce
<1>7. position' = NoPosition \/ Fits(position)'
  BY <1>1, <1>2 DEF TypesInv, Fits, Position
<1>8. totalExecuted' + Cardinality(NotDone') <= Most'
  <2>1. NotDone' = NotDone
    BY <1>1 DEF NotDone
  <2> QED
    BY <1>2, <1>3, <2>1, NotDoneFacts
<1>9. (position = NoPosition \/ Fits(position))'
  BY <1>7 DEF NoPosition
<1> QED
  BY <1>1, <1>4, <1>5, <1>6, <1>8, <1>9 DEF TypesInv

(* A step of the trading thread between the key and what it has read.      *)
LEMMA KeyTypes ==
  ASSUME TypesInv, UNCHANGED <<entries, account, orders, next, used, gateway, run>>,
         trader.do # "down", trader'.do \in Jobs \ {"down"}, misread' \in BOOLEAN,
         position' = NoPosition \/ Fits(position'), HasRead(trader')
  PROVE  TypesInv'
<1>1. Most' = Most /\ NotDone' = NotDone
  BY DEF Most, NotDone
<1>2. \A p : Fits(p)' <=> Fits(p)
  BY <1>1 DEF Fits, Position
<1>3. HasRead(trader)' /\ HasRead(gateway)'
  BY <1>1 DEF TypesInv, HasRead, Fits, ArgumentsFit, Position, Entries, NoPosition
<1>4. position' \in Position \cup {NoPosition}
  BY DEF Fits
<1>5. TypeOK'
  BY <1>4 DEF TypesInv, TypeOK, account
<1>6. (position = NoPosition \/ Fits(position))'
  BY <1>1 DEF Fits, NoPosition
<1> QED
  BY <1>1, <1>3, <1>5, <1>6 DEF TypesInv, account

LEMMA GetPositionTypes == TypesInv /\ TimesInv /\ GetPosition => TypesInv'
<1> SUFFICES ASSUME TypesInv, TimesInv, GetPosition  PROVE TypesInv'
  OBVIOUS
<1>1. PICK got \in {position, NoPosition} :
        /\ GetAnswers(position, NoPosition, got)
        /\ trader' = [trader EXCEPT !.half = "set", !.got = got]
  BY DEF GetPosition
<1>2. /\ trader.do \in InForce /\ trader'.do = trader.do /\ trader'.got = got
  BY <1>1 DEF GetPosition, TimesInv, JobForm
<1>3. HasRead(trader')
  BY <1>1, <1>2, WorkIsDistinct DEF HasRead, TypesInv
<1>4. misread' \in BOOLEAN
  BY <1>1 DEF GetAnswers, TypesInv, TypeOK
<1>5. trader'.do \in Jobs \ {"down"} /\ trader.do # "down"
  BY <1>2 DEF InForce, Jobs
<1> QED
  BY <1>3, <1>4, <1>5, KeyTypes DEF GetPosition, TypesInv

LEMMA PutPositionTypes == TypesInv /\ PutPosition => TypesInv'
<1> SUFFICES ASSUME TypesInv, PutPosition  PROVE TypesInv'
  OBVIOUS
<1>1. /\ trader.do \in InForce /\ trader.half = "set" /\ trader' = After(trader.do)
      /\ UNCHANGED <<entries, account, orders, next, used, gateway, runs>>
      /\ \/ position' = position
         \/ position' = LiveReset(trader.got)
         \/ trader.got # NoPosition /\ position' = trader.got
  BY DEF PutPosition, SetPosition
<1>2. /\ trader.do # "down" /\ trader'.half = "get"
      /\ trader'.do \in {"rif", "live", "idle"}
  BY <1>1 DEF InForce, After, Doing, Idle
<1>3. trader.got = NoPosition \/ Fits(trader.got)
  BY <1>1 DEF TypesInv, HasRead
<1>4. position' = NoPosition \/ Fits(position')
  BY <1>1, <1>2, <1>3, ResetFits DEF TypesInv, LiveReset
<1>5. HasRead(trader') /\ trader'.do \in Jobs \ {"down"}
  BY <1>2 DEF HasRead, Jobs
<1> QED
  BY <1>1, <1>2, <1>4, <1>5, KeyTypes DEF runs, TypesInv, TypeOK

LEMMA BeginRoundTypes == TypesInv /\ BeginRound => TypesInv'
<1> SUFFICES ASSUME TypesInv, BeginRound  PROVE TypesInv'
  OBVIOUS
<1>1. /\ trader.do = "idle" /\ trader' = [Doing("args", 0) EXCEPT !.got = NotRead]
      /\ UNCHANGED <<position, entries, account, orders, next, used, gateway, runs>>
  BY DEF BeginRound, RoundDue
<1>2. trader'.do = "args" /\ trader'.got = NotRead
  BY <1>1 DEF Doing
<1>3. ArgumentsFit(NotRead)
  BY DEF ArgumentsFit, NotRead
<1>4. HasRead(trader') /\ trader'.do \in Jobs \ {"down"}
  BY <1>2, <1>3, WorkIsDistinct DEF HasRead, Jobs
<1> QED
  BY <1>1, <1>4, KeyTypes DEF runs, TypesInv, TypeOK

LEMMA ReadArgumentTypes ==
  ASSUME TypesInv, TimesInv, NEW f \in Fields, ReadArgument(f)
  PROVE  TypesInv'
<1> DEFINE old == trader.got
           new == Joined(old, Argument(f))
<1>1. /\ trader.do = "args" /\ f \notin DOMAIN old
      /\ trader' = [trader EXCEPT !.got = new]
      /\ UNCHANGED <<position, entries, account, orders, next, used, gateway, runs>>
  BY DEF ReadArgument
<1>2. trader'.do = "args" /\ trader'.got = new
  BY <1>1 DEF TimesInv, JobForm
<1>3. ArgumentsFit(old)
  BY <1>1 DEF TypesInv, HasRead
<1>4. /\ new = [x \in DOMAIN new |-> new[x]]
      /\ DOMAIN new = DOMAIN old \cup DOMAIN Argument(f)
      /\ \A x \in DOMAIN old : new[x] = old[x]
      /\ \A x \in DOMAIN Argument(f) \ DOMAIN old : new[x] = Argument(f)[x]
  BY DEF Joined
<1> HIDE DEF new, old
<1>5. ASSUME f = "quantity"  PROVE ArgumentsFit(new)
  <2>1. /\ DOMAIN Argument(f) = {"quantity", "fills"}
        /\ Argument(f).quantity = Sign * total /\ Argument(f).fills = fills
    BY <1>5 DEF Argument
  <2>2. /\ Sign * total \in -MaxTotal..MaxTotal /\ Sign * (Sign * total) \in 0..MaxTotal
        /\ fills \in 0..MaxFills
    BY SignFacts DEF TypesInv, TypeOK
  <2>3. /\ new.quantity = Sign * total /\ new.fills = fills
        /\ DOMAIN new = DOMAIN old \cup {"quantity", "fills"}
        /\ "executed" \in DOMAIN old => new.executed = old.executed
    BY <1>1, <1>3, <1>4, <1>5, <2>1 DEF ArgumentsFit
  <2> QED
    BY <1>3, <1>4, <2>2, <2>3 DEF ArgumentsFit
<1>6. ASSUME f = "executed"  PROVE ArgumentsFit(new)
  <2>1. DOMAIN Argument(f) = {"executed"} /\ Argument(f).executed = totalExecuted
    BY <1>6 DEF Argument
  <2>2. totalExecuted \in Nat /\ totalExecuted <= Most
    BY <1>1, TotalFits
  <2>3. /\ new.executed = totalExecuted
        /\ DOMAIN new = DOMAIN old \cup {"executed"}
        /\ "quantity" \in DOMAIN old => new.quantity = old.quantity
        /\ "fills" \in DOMAIN old => new.fills = old.fills
    BY <1>1, <1>4, <1>6, <2>1
  <2> QED
    BY <1>3, <1>4, <2>2, <2>3 DEF ArgumentsFit
<1>7. ArgumentsFit(new)
  BY <1>5, <1>6 DEF Fields
<1>8. HasRead(trader') /\ trader'.do \in Jobs \ {"down"}
  BY <1>2, <1>7, WorkIsDistinct DEF HasRead, Jobs
<1> QED
  BY <1>1, <1>8, KeyTypes DEF runs, TypesInv, TypeOK

LEMMA WriteToRedisTypes == TypesInv /\ WriteToRedis => TypesInv'
<1> SUFFICES ASSUME TypesInv, WriteToRedis  PROVE TypesInv'
  OBVIOUS
<1>1. /\ trader.do = "args" /\ Fields \subseteq DOMAIN trader.got /\ trader' = Idle
      /\ UNCHANGED <<entries, account, orders, next, used, gateway, runs>>
      /\ position' = trader.got \/ position' = position
  BY DEF WriteToRedis, SetPosition
<1>2. ArgumentsFit(trader.got)
  BY <1>1 DEF TypesInv, HasRead
<1>3. Fits(trader.got)
  <2> DEFINE got == trader.got
  <2>1. /\ DOMAIN got = {"quantity", "executed", "fills"}
        /\ got = [x \in DOMAIN got |-> got[x]]
    BY <1>1, <1>2 DEF ArgumentsFit, Fields
  <2>2. /\ got.quantity \in -MaxTotal..MaxTotal /\ Sign * got.quantity \in 0..MaxTotal
        /\ got.fills \in 0..MaxFills /\ got.executed \in Nat /\ got.executed <= Most
    BY <1>2, <2>1 DEF ArgumentsFit
  <2>3. got.executed \in 0..(MaxId * MaxRuns)
    <3>1. Most \in Nat /\ Most <= MaxId * MaxRuns /\ MaxId * MaxRuns \in Nat
      BY MostFacts DEF TypesInv, TypeOK
    <3> QED
      BY ONLY <2>2, <3>1
  <2> HIDE DEF got
  <2>4. got \in Position
    BY <2>1, <2>2, <2>3 DEF Position
  <2> QED
    BY <2>2, <2>4 DEF Fits, got
<1>4. trader'.do = "idle" /\ trader'.half = "get"
  BY <1>1 DEF Idle, Doing
<1>5. HasRead(trader') /\ trader'.do \in Jobs \ {"down"}
  BY <1>4 DEF HasRead, Jobs
<1> QED
  BY <1>1, <1>3, <1>5, KeyTypes DEF runs, TypesInv, TypeOK

(* A step that leaves the key and the total of the account alone.          *)
LEMMA OrdersTypes ==
  ASSUME TypesInv, UNCHANGED <<position, totalExecuted, used, run>>, trader.do # "down",
         entries' \in [Ids -> Entries], orders' \in [Ids -> OrderStates],
         NotDone' = NotDone, next' \in 1..(MaxId + 1),
         total' \in 0..MaxTotal, fills' \in 0..MaxFills, misread' \in BOOLEAN,
         trader'.do \in Jobs \ {"down"}, gateway'.do \in {"idle", "exec"},
         HasRead(trader'), HasRead(gateway')
  PROVE  TypesInv'
<1>1. Most' = Most
  BY DEF Most
<1>2. HasRead(trader)' /\ HasRead(gateway)'
  BY <1>1 DEF HasRead, Fits, ArgumentsFit, Position, Entries, NoPosition
<1>3. TypeOK'
  BY DEF TypesInv, TypeOK
<1>4. (position = NoPosition \/ Fits(position))'
  BY <1>1 DEF TypesInv, Fits, NoPosition, Position
<1> QED
  BY <1>1, <1>2, <1>3, <1>4 DEF TypesInv

LEMMA TraderCallTypes ==
  ASSUME TypesInv, TimesInv,
         \/ SendOrder \/ WriteOrderInfo
         \/ \E i \in Ids : ChangeOrder(i) \/ CancelOrder(i)
  PROVE  TypesInv'
<1>1. /\ UNCHANGED <<position, totalExecuted, used, run, total, fills, misread, gateway>>
      /\ trader.do # "down"
      /\ \E do \in {"info", "change", "cancel", "idle"} : \E id : trader' = Doing(do, id)
  BY DEF SendOrder, WriteOrderInfo, ChangeOrder, CancelOrder, account, runs, Idle
<1>2. trader'.do \in {"info", "change", "cancel", "idle"} /\ trader'.half = "get"
  BY <1>1 DEF Doing
<1>3. HasRead(trader') /\ trader'.do \in Jobs \ {"down"}
  BY <1>2 DEF HasRead, Jobs, InForce, Times
<1>4. entries' \in [Ids -> Entries]
  BY DEF SendOrder, WriteOrderInfo, ChangeOrder, CancelOrder, SetEntry, TypesInv,
         TypeOK, Entries
<1>5. next' \in 1..(MaxId + 1)
  <2>1. next' = next \/ (next \in Ids /\ next' = next + 1)
    BY DEF SendOrder, WriteOrderInfo, ChangeOrder, CancelOrder
  <2>2. MaxId \in Nat
    BY RedisAssumption
  <2> QED
    BY <2>1, <2>2 DEF TypesInv, TypeOK, Ids
<1>6. orders' \in [Ids -> OrderStates] /\ NotDone' = NotDone
  <2>1. orders \in [Ids -> OrderStates]
    BY DEF TypesInv, TypeOK
  <2>2. next \in Ids => orders[next] = "none"
    BY DEF TimesInv
  <2>3. CASE WriteOrderInfo
    BY <2>1, <2>3 DEF WriteOrderInfo, NotDone
  <2>4. CASE SendOrder
    BY <2>1, <2>2, <2>4 DEF SendOrder, NotDone, OrderStates
  <2>5. ASSUME NEW i \in Ids, ChangeOrder(i)
        PROVE  orders' \in [Ids -> OrderStates] /\ NotDone' = NotDone
    BY <2>1, <2>2, <2>5 DEF ChangeOrder, NotDone, OrderStates
  <2>6. ASSUME NEW i \in Ids, CancelOrder(i)
        PROVE  orders' \in [Ids -> OrderStates] /\ NotDone' = NotDone
    BY <2>1, <2>6 DEF CancelOrder, CancelAnswered, Answer, NotDone, OrderStates
  <2> QED
    BY <2>3, <2>4, <2>5, <2>6
<1> QED
  BY <1>1, <1>3, <1>4, <1>5, <1>6, OrdersTypes DEF TypesInv, TypeOK

LEMMA FillTypes ==
  ASSUME TypesInv, NEW i \in Ids, NEW n \in {-1, 1}, Fill(i, n)
  PROVE  TypesInv'
<1>1. /\ UNCHANGED <<position, totalExecuted, used, run, entries, next, misread, trader, gateway>>
      /\ total' \in 0..MaxTotal /\ fills' = fills + 1 /\ fills < MaxFills
      /\ orders[i] = "live" /\ orders' = [orders EXCEPT ![i] = "filled"]
  BY DEF Fill, Answer, runs
<1>2. orders \in [Ids -> OrderStates] /\ fills \in 0..MaxFills /\ MaxFills \in Nat
  BY RedisAssumption DEF TypesInv, TypeOK
<1>3. /\ orders' \in [Ids -> OrderStates] /\ NotDone' = NotDone
      /\ fills' \in 0..MaxFills
  BY <1>1, <1>2 DEF NotDone, OrderStates
<1>4. trader.do # "down"
  BY <1>1 DEF TypesInv
<1> QED
  BY <1>1, <1>3, <1>4, OrdersTypes DEF TypesInv, TypeOK

(* One order less to be done, one share more executed.                     *)
LEMMA OrderDoneTypes ==
  ASSUME TypesInv, NEW i \in Ids, OnOrderDone(i)
  PROVE  TypesInv'
<1>1. /\ UNCHANGED <<position, used, run, entries, next, misread, trader, total, fills>>
      /\ totalExecuted' = totalExecuted + 1 /\ gateway' = Doing("exec", i)
      /\ orders[i] = "filled" /\ orders' = [orders EXCEPT ![i] = "done"]
  BY DEF OnOrderDone, runs
<1>2. orders \in [Ids -> OrderStates] /\ trader.do # "down"
  BY <1>1 DEF TypesInv, TypeOK
<1>3. orders' \in [Ids -> OrderStates] /\ NotDone' = NotDone \ {i} /\ i \in NotDone
  BY <1>1, <1>2 DEF NotDone, OrderStates
<1>4. /\ Cardinality(NotDone') = Cardinality(NotDone) - 1
      /\ Cardinality(NotDone) \in Nat /\ Cardinality(NotDone') \in Nat
  BY <1>3, NotDoneFacts, FS_RemoveElement, FS_CardinalityType
<1>5. totalExecuted + Cardinality(NotDone) <= Most /\ Most' = Most
  BY <1>1, <1>2 DEF TypesInv, Most
<1>6. /\ totalExecuted' + Cardinality(NotDone') <= Most'
      /\ totalExecuted' \in 0..(MaxId * MaxRuns)
  <2>1. /\ totalExecuted \in Nat /\ Most \in Nat /\ Most <= MaxId * MaxRuns
        /\ MaxId * MaxRuns \in Nat
    BY TotalFits, MostFacts DEF TypesInv, TypeOK
  <2> QED
    BY <1>1, <1>4, <1>5, <2>1
<1>7. gateway'.do = "exec" /\ gateway'.half = "get"
  BY <1>1 DEF Doing
<1>8. HasRead(trader)' /\ HasRead(gateway)'
  BY <1>1, <1>5, <1>7 DEF TypesInv, HasRead, Fits, ArgumentsFit, Position, Entries,
                          NoPosition, InForce
<1>9. TypeOK'
  BY <1>1, <1>3, <1>6, <1>7 DEF TypesInv, TypeOK
<1>10. (position = NoPosition \/ Fits(position))'
  BY <1>1, <1>5 DEF TypesInv, Fits, NoPosition, Position
<1> QED
  BY <1>1, <1>2, <1>6, <1>8, <1>9, <1>10 DEF TypesInv

LEMMA UpdateTypes ==
  ASSUME entries \in [Ids -> Entries], misread \in BOOLEAN,
         NEW job, JobForm(job), HasRead(job), job.do \in Times => job.id \in Ids,
         NEW job2, Get(job, job2) \/ Put(job, job2)
  PROVE  /\ entries' \in [Ids -> Entries] /\ misread' \in BOOLEAN
         /\ HasRead(job2) /\ job2.do \in {job.do, "idle"} /\ job.do \in Times
<1>1. CASE Get(job, job2)
  <2>1. PICK got \in {entries[job.id], NoEntry} :
          /\ GetAnswers(entries[job.id], NoEntry, got)
          /\ job2 = [job EXCEPT !.half = "set", !.got = got]
    BY <1>1 DEF Get
  <2>2. job2.do = job.do /\ job2.got = got /\ job.do \in Times /\ job.id \in Ids
    BY <1>1, <2>1 DEF Get, JobForm
  <2>3. got \in Entries
    BY <2>1, <2>2 DEF Entries
  <2>4. HasRead(job2)
    BY <2>2, <2>3, WorkIsDistinct DEF HasRead
  <2>5. misread' \in BOOLEAN
    BY <2>1 DEF GetAnswers
  <2> QED
    BY <1>1, <2>2, <2>4, <2>5 DEF Get
<1>2. CASE Put(job, job2)
  <2>1. /\ job.do \in Times /\ job.half = "set" /\ job2 = Idle /\ misread' = misread
        /\ \/ entries' = entries
           \/ /\ job.got # NoEntry
              /\ entries' = [entries EXCEPT ![job.id] = job.got \cup {job.do}]
    BY <1>2 DEF Put, SetEntry
  <2>2. job.got \in Entries
    BY <2>1 DEF HasRead
  <2>3. job.got # NoEntry => job.got \cup {job.do} \in Entries
    BY <2>1, <2>2 DEF Entries
  <2>4. entries' \in [Ids -> Entries]
    BY <2>1, <2>3
  <2>5. job2.do = "idle" /\ job2.half = "get"
    BY <2>1 DEF Idle, Doing
  <2> QED
    BY <2>1, <2>4, <2>5 DEF HasRead
<1> QED
  BY <1>1, <1>2

LEMMA UpdatesTypes ==
  ASSUME TypesInv, TimesInv, TraderUpdates \/ GatewayUpdates
  PROVE  TypesInv'
<1>1. UNCHANGED <<position, totalExecuted, total, fills, used, run, orders, next>>
  BY DEF TraderUpdates, GatewayUpdates, account
<1>2. NotDone' = NotDone
  BY <1>1 DEF NotDone
<1>3. entries \in [Ids -> Entries] /\ misread \in BOOLEAN
  BY DEF TypesInv, TypeOK
<1>4. CASE TraderUpdates
  <2>1. /\ JobForm(trader) /\ HasRead(trader) /\ (trader.do \in Times => trader.id \in Ids)
        /\ Get(trader, trader') \/ Put(trader, trader')
        /\ gateway' = gateway
    BY <1>4 DEF TimesInv, TypesInv, TraderUpdates
  <2>2. /\ entries' \in [Ids -> Entries] /\ misread' \in BOOLEAN
        /\ HasRead(trader') /\ trader'.do \in {trader.do, "idle"} /\ trader.do \in Times
    BY <1>3, <2>1, UpdateTypes
  <2>3. trader.do # "down" /\ trader'.do \in Jobs \ {"down"}
    BY <2>2 DEF Times, Jobs
  <2> QED
    BY <1>1, <1>2, <2>1, <2>2, <2>3, OrdersTypes DEF TypesInv, TypeOK
<1>5. CASE GatewayUpdates
  <2>1. /\ JobForm(gateway) /\ HasRead(gateway) /\ (gateway.do \in Times => gateway.id \in Ids)
        /\ Get(gateway, gateway') \/ Put(gateway, gateway')
        /\ trader' = trader
    BY <1>5 DEF TimesInv, TypesInv, GatewayUpdates
  <2>2. /\ entries' \in [Ids -> Entries] /\ misread' \in BOOLEAN
        /\ HasRead(gateway') /\ gateway'.do \in {gateway.do, "idle"} /\ gateway.do \in Times
    BY <1>3, <2>1, UpdateTypes
  <2>3. trader.do # "down"
    <3>1. Idle.do = "idle" /\ "idle" \notin Times
      BY DEF Idle, Doing, Times
    <3> QED
      BY <2>2, <3>1 DEF TypesInv
  <2> QED
    BY <1>1, <1>2, <2>1, <2>2, <2>3, OrdersTypes DEF TypesInv, TypeOK
<1> QED
  BY <1>4, <1>5

LEMMA CrashTypes == TypesInv /\ Crash => TypesInv'
<1> SUFFICES ASSUME TypesInv, Crash  PROVE TypesInv'
  OBVIOUS
<1>1. /\ trader' = Doing("down", 0) /\ gateway' = Idle
      /\ orders' = [i \in Ids |-> "none"] /\ next' = 1
      /\ used' = IF next - 1 > used THEN next - 1 ELSE used
      /\ total' = 0 /\ totalExecuted' = 0 /\ fills' = 0
      /\ UNCHANGED <<position, entries, run, misread>>
  BY DEF Crash, runs
<1>2. /\ trader'.do = "down" /\ trader'.half = "get"
      /\ gateway'.do = "idle" /\ gateway'.half = "get"
  BY <1>1 DEF Doing, Idle
<1>3. /\ next' \in 1..(MaxId + 1) /\ used' \in 0..MaxId
      /\ total' \in 0..MaxTotal /\ fills' \in 0..MaxFills
  BY <1>1, RedisAssumption DEF TypesInv, TypeOK
<1>4. totalExecuted' \in 0..(MaxId * MaxRuns)
  <2>1. MaxId * MaxRuns \in Nat
    BY MostFacts DEF TypesInv, TypeOK
  <2> QED
    BY <1>1, <2>1
<1>5. orders' \in [Ids -> OrderStates]
  BY <1>1 DEF OrderStates
<1>6. TypeOK'
  BY <1>1, <1>2, <1>3, <1>4, <1>5 DEF TypesInv, TypeOK, Jobs
<1>7. HasRead(trader)' /\ HasRead(gateway)'
  BY <1>2 DEF HasRead
<1>8. (position = NoPosition \/ Fits(position))'
  BY <1>1 DEF TypesInv, Fits, NoPosition, Position, Most
<1>9. (gateway = Idle /\ \A i \in Ids : orders[i] = "none")'
  BY <1>1 DEF Idle, Doing
<1> QED
  BY <1>2, <1>6, <1>7, <1>8, <1>9 DEF TypesInv

LEMMA StepTypes == TypesInv /\ TimesInv /\ [Next]_vars => TypesInv'
<1> SUFFICES ASSUME TypesInv, TimesInv, [Next]_vars  PROVE TypesInv'
  OBVIOUS
<1>1. CASE Restore
  BY <1>1, StartTypes, GetPositionTypes, PutPositionTypes DEF Restore
<1>2. CASE Rounds
  BY <1>2, BeginRoundTypes, ReadArgumentTypes, WriteToRedisTypes DEF Rounds
<1>3. CASE SendOrder \/ WriteOrderInfo \/ \E i \in Ids : ChangeOrder(i) \/ CancelOrder(i)
  BY <1>3, TraderCallTypes
<1>4. CASE TraderUpdates \/ GatewayUpdates
  BY <1>4, UpdatesTypes
<1>5. CASE \E i \in Ids : OnOrderDone(i) \/ \E n \in {-1, 1} : Fill(i, n)
  BY <1>5, OrderDoneTypes, FillTypes
<1>6. CASE Crash
  BY <1>6, CrashTypes
<1>7. CASE UNCHANGED vars
  BY <1>7 DEF vars, account, runs, TypesInv, TypeOK, HasRead, Fits, ArgumentsFit, Most,
              NotDone
<1> QED
  BY <1>1, <1>2, <1>3, <1>4, <1>5, <1>6, <1>7 DEF Next

(* Every variable keeps its type.  In particular what is stored can always *)
(* be restored: a position of the account's own sign, and an executed      *)
(* total no larger than the orders of all runs so far could make it.       *)
THEOREM RedisTyped == Spec => []TypeOK
<1>1. Init => TypesInv /\ TimesInv
  BY TypesInit, InitTimes
<1>2. (TypesInv /\ TimesInv) /\ [Next]_vars => (TypesInv /\ TimesInv)'
  BY StepTypes, StepTimes
<1>3. TypesInv => TypeOK
  BY DEF TypesInv
<1> QED
  BY <1>1, <1>2, <1>3, PTL DEF Spec
=============================================================================

------------------------------ MODULE RedisStore ------------------------------
(***************************************************************************)
(* What one account keeps in Redis: the position under user:symbol, which  *)
(* the trading thread writes in every round and a restart reads back, and  *)
(* an entry per order under user,requestid, which the trading thread makes *)
(* and both it and the callback thread read, change and write back.  Every *)
(* get and every set holds redis_mutex; what is between them does not.     *)
(***************************************************************************)
EXTENDS Integers, FiniteSets

CONSTANTS
  AccountType,  \* "long" or "short"
  MaxId,        \* bound on the request ids of a run
  MaxTotal,     \* bound on the position
  MaxFills,     \* bound on the fills of all runs
  MaxRuns,      \* bound on the starts of the program
  Failing       \* the calls of the client that may throw: "get", "set"

ASSUME RedisAssumption ==
  /\ AccountType \in {"long", "short"}
  /\ MaxId \in Nat \ {0} /\ MaxTotal \in Nat /\ MaxFills \in Nat
  /\ MaxRuns \in Nat \ {0}
  /\ Failing \subseteq {"get", "set"}

Ids    == 1..MaxId
Times  == {"exec", "change", "cancel"}
Fields == {"quantity", "executed"}

(* An entry is the set of times it holds; ack_time is never filled in.     *)
NoEntry == {"nonexistent"}
Entries == (SUBSET Times) \cup {NoEntry}

(* fills is no field of the value: it counts the fills quantity includes.  *)
(* The live shares, the average and the prices in force are left out.      *)
Position   == [quantity : -MaxTotal..MaxTotal, executed : 0..(MaxId * MaxRuns),
               fills : 0..MaxFills]
NoPosition == [fills |-> 0]

VARIABLES
  position,  \* the key user:symbol
  entries,   \* the keys user,requestid
  total, totalExecuted,   \* of the account
  fills,     \* history: the fills total includes
  orders,    \* what the exchange has made of each order of this run
  next,      \* request_id_generator
  used,      \* history: the ids up to here were given out by earlier runs
  trader,    \* the trading thread
  gateway,   \* the callback thread
  run,       \* starts of the program so far
  misread    \* history: has a get failed?  (bound: one does)

account == <<total, totalExecuted, fills>>
runs    == <<run, misread>>
vars == <<position, entries, account, orders, next, used, trader, gateway, runs>>

(* A thread that reads a key, changes a field and writes it back: which    *)
(* field, which order, and what it has read.  "args" collects the fields   *)
(* of a round, "info" is to make the entry of an order.                    *)
Jobs == Times \cup {"down", "start", "pif", "rif", "live", "idle", "args", "info"}
Job  == [do : Jobs, id : 0..MaxId, half : {"get", "set"},
         got : Entries \cup Position \cup {NoPosition}]
Doing(do, id) == [do |-> do, id |-> id, half |-> "get", got |-> NoPosition]
Idle == Doing("idle", 0)

OrderStates == {"none", "live", "filled", "done", "changed", "cancelled"}

TypeOK ==
  /\ position \in Position \cup {NoPosition}
  /\ entries \in [Ids -> Entries]
  /\ total \in 0..MaxTotal
  /\ totalExecuted \in 0..(MaxId * MaxRuns)
  /\ fills \in 0..MaxFills
  /\ orders \in [Ids -> OrderStates]
  /\ next \in 1..(MaxId + 1)
  /\ used \in 0..MaxId
  /\ trader.do \in Jobs /\ gateway.do \in {"idle", "exec"}
  /\ run \in 0..MaxRuns
  /\ misread \in BOOLEAN

Init ==
  /\ position = NoPosition
  /\ entries = [i \in Ids |-> NoEntry]
  /\ total = 0 /\ totalExecuted = 0 /\ fills = 0
  /\ orders = [i \in Ids |-> "none"]
  /\ next = 1
  /\ used = 0
  /\ trader = Doing("down", 0)
  /\ gateway = Idle
  /\ run = 0
  /\ misread = FALSE

Fails(call) == call \in Failing

(* client.get answers with the value of the key, or throws, which readers  *)
(* take for a key that does not exist.                                     *)
GetAnswers(value, none, got) ==
  \/ got = value /\ UNCHANGED misread
  \/ /\ Fails("get") /\ ~misread
     /\ got = none /\ value # none
     /\ misread' = TRUE

(* client.set either replaces the value or throws, which the callers take  *)
(* for an answer nobody looks at.                                          *)
SetPosition(value) ==
  \/ position' = value
  \/ Fails("set") /\ UNCHANGED position

SetEntry(i, times) ==
  \/ entries' = [entries EXCEPT ![i] = times]
  \/ Fails("set") /\ UNCHANGED entries

-----------------------------------------------------------------------------
(* The constructor of TradeInstance.                                       *)

(* A short position is stored with its sign.                               *)
Sign == IF AccountType = "long" THEN 1 ELSE -1
Restored_Unsigned(quantity) == quantity
Restored(quantity) == Sign * quantity

(* A key that cannot be read is a key that does not exist.                 *)
Start ==
  /\ trader.do = "down"
  /\ run < MaxRuns
  /\ run' = run + 1
  /\ \/ /\ position # NoPosition
        /\ total' = Restored(position.quantity)
        /\ totalExecuted' = position.executed
        /\ fills' = position.fills
        /\ trader' = Doing("pif", 0)
        /\ UNCHANGED misread
     \/ /\ GetAnswers(position, NoPosition, NoPosition)
        /\ total' = 0 /\ totalExecuted' = 0 /\ fills' = 0
        /\ trader' = Idle
  /\ UNCHANGED <<position, entries, orders, next, used, gateway>>

InForce == {"pif", "rif", "live"}
After(do) == CASE do = "pif" -> Doing("rif", 0)
               [] do = "rif" -> Doing("live", 0)
               [] OTHER      -> Idle

GetPosition ==
  /\ trader.do \in InForce /\ trader.half = "get"
  /\ \E got \in {position, NoPosition} :
       /\ GetAnswers(position, NoPosition, got)
       /\ trader' = [trader EXCEPT !.half = "set", !.got = got]
  /\ UNCHANGED <<position, entries, account, orders, next, used, gateway, run>>

(* writePIFToRedis and writeRIFToRedis write back the value they have read *)
(* with the field restored from it; writeLiveSharesInfo writes the         *)
(* executed total as well, and makes a new key if it has read none.        *)
NewPosition == [quantity |-> 0, executed |-> totalExecuted, fills |-> 0]
LiveReset_Anew(got) == NewPosition
LiveReset(got) == IF got = NoPosition THEN NewPosition
                  ELSE [got EXCEPT !.executed = totalExecuted]

PutPosition ==
  /\ trader.do \in InForce /\ trader.half = "set"
  /\ CASE trader.do = "live"      -> SetPosition(LiveReset(trader.got))
       [] trader.got = NoPosition -> UNCHANGED position
       [] OTHER                   -> SetPosition(trader.got)
  /\ trader' = After(trader.do)
  /\ UNCHANGED <<entries, account, orders, next, used, gateway, runs>>

-----------------------------------------------------------------------------
(* A round of triggerProcessing writes the account: the arguments are read *)
(* one by one, in an order of the compiler's, before writeToRedis locks.   *)

NotRead == [f \in {} |-> 0]

RoundDue_WhileLive == trader.do = "idle" /\ \E i \in Ids : orders[i] = "live"
RoundDue == trader.do = "idle"

BeginRound ==
  /\ RoundDue
  /\ trader' = [Doing("args", 0) EXCEPT !.got = NotRead]
  /\ UNCHANGED <<position, entries, account, orders, next, used, gateway, runs>>

Argument(f) == CASE f = "quantity" -> [quantity |-> Sign * total, fills |-> fills]
                 [] f = "executed" -> [executed |-> totalExecuted]

Joined(f, g) == [x \in DOMAIN f \cup DOMAIN g |->
                   IF x \in DOMAIN f THEN f[x] ELSE g[x]]

ReadArgument(f) ==
  /\ trader.do = "args"
  /\ f \notin DOMAIN trader.got
  /\ trader' = [trader EXCEPT !.got = Joined(@, Argument(f))]
  /\ UNCHANGED <<position, entries, account, orders, next, used, gateway, runs>>

WriteToRedis ==
  /\ trader.do = "args"
  /\ Fields \subseteq DOMAIN trader.got
  /\ SetPosition(trader.got)
  /\ trader' = Idle
  /\ UNCHANGED <<entries, account, orders, next, used, gateway, runs>>

-----------------------------------------------------------------------------
(* The orders of the trading thread.  An order is of one share; it may be  *)
(* filled before open and close have made its entry.                       *)

SendOrder ==
  /\ trader.do = "idle"
  /\ next \in Ids
  /\ orders' = [orders EXCEPT ![next] = "live"]
  /\ next' = next + 1
  /\ trader' = Doing("info", next)
  /\ UNCHANGED <<position, entries, account, used, gateway, runs>>

WriteOrderInfo ==
  /\ trader.do = "info"
  /\ SetEntry(trader.id, {})
  /\ trader' = Idle
  /\ UNCHANGED <<position, account, orders, next, used, gateway, runs>>

(* change and cancel record the time once the answer is there.  The order  *)
(* that replaces another gets no entry.                                    *)
Answer(i, state) == orders[i] = "live" /\ orders' = [orders EXCEPT ![i] = state]

ChangeOrder(i) ==
  /\ trader.do = "idle"
  /\ next \in Ids
  /\ orders[i] = "live"
  /\ orders' = [orders EXCEPT ![i] = "changed", ![next] = "live"]
  /\ next' = next + 1
  /\ trader' = Doing("change", i)
  /\ UNCHANGED <<position, entries, account, used, gateway, runs>>

CancelAnswered_Early(i) == orders[i] = "live" /\ UNCHANGED orders
CancelAnswered(i) == Answer(i, "cancelled")

CancelOrder(i) ==
  /\ trader.do = "idle"
  /\ CancelAnswered(i)
  /\ trader' = Doing("cancel", i)
  /\ UNCHANGED <<position, entries, account, next, used, gateway, runs>>

-----------------------------------------------------------------------------
(* The callback thread.                                                    *)

Fill(i, n) ==
  /\ gateway = Idle
  /\ fills < MaxFills
  /\ total + n \in 0..MaxTotal
  /\ Answer(i, "filled")
  /\ total' = total + n
  /\ fills' = fills + 1
  /\ UNCHANGED <<position, entries, totalExecuted, next, used, trader, gateway, runs>>

OnOrderDone(i) ==
  /\ gateway = Idle
  /\ orders[i] = "filled"
  /\ orders' = [orders EXCEPT ![i] = "done"]
  /\ totalExecuted' = totalExecuted + 1
  /\ gateway' = Doing("exec", i)
  /\ UNCHANGED <<position, entries, total, fills, next, used, trader, runs>>

-----------------------------------------------------------------------------
(* updateOrderExecTime, -CancleTime and -ChangeTime, of either thread.     *)

Get(job, job2) ==
  /\ job.do \in Times /\ job.half = "get"
  /\ \E got \in {entries[job.id], NoEntry} :
       /\ GetAnswers(entries[job.id], NoEntry, got)
       /\ job2 = [job EXCEPT !.half = "set", !.got = got]
  /\ UNCHANGED entries

Put(job, job2) ==
  /\ job.do \in Times /\ job.half = "set"
  /\ IF job.got = NoEntry THEN UNCHANGED entries
     ELSE SetEntry(job.id, job.got \cup {job.do})
  /\ job2 = Idle
  /\ UNCHANGED misread

TraderUpdates ==
  /\ Get(trader, trader') \/ Put(trader, trader')
  /\ UNCHANGED <<position, account, orders, next, used, gateway, run>>

GatewayUpdates ==
  /\ Get(gateway, gateway') \/ Put(gateway, gateway')
  /\ UNCHANGED <<position, account, orders, next, used, trader, run>>

-----------------------------------------------------------------------------
(* The program ends at any point; Redis stays.  The ids start again.       *)
Crash ==
  /\ trader.do # "down"
  /\ run < MaxRuns
  /\ trader' = Doing("down", 0)
  /\ gateway' = Idle
  /\ orders' = [i \in Ids |-> "none"]
  /\ next' = 1
  /\ used' = IF next - 1 > used THEN next - 1 ELSE used
  /\ total' = 0 /\ totalExecuted' = 0 /\ fills' = 0
  /\ UNCHANGED <<position, entries, runs>>

Rounds == BeginRound \/ (\E f \in Fields : ReadArgument(f)) \/ WriteToRedis
Restore == Start \/ GetPosition \/ PutPosition

Next ==
  \/ Restore \/ Rounds
  \/ SendOrder \/ WriteOrderInfo \/ TraderUpdates
  \/ \E i \in Ids : ChangeOrder(i) \/ CancelOrder(i)
  \/ \E i \in Ids : OnOrderDone(i) \/ \E n \in {-1, 1} : Fill(i, n)
  \/ GatewayUpdates
  \/ Crash

Spec == Init /\ [][Next]_vars

(* The threads run, stamps keep coming, so that rounds do, and a call of   *)
(* the client that is tried again and again succeeds in the end.           *)
Fairness ==
  /\ WF_vars(Restore)
  /\ SF_vars(BeginRound)
  /\ WF_vars(WriteOrderInfo \/ TraderUpdates)
  /\ WF_vars(\E f \in Fields : ReadArgument(f))
  /\ SF_vars(WriteToRedis /\ position' = trader.got)

FairSpec == Spec /\ Fairness

-----------------------------------------------------------------------------
StoredFills == position.fills

(* Neither a round that reads its arguments while fills arrive, nor the    *)
(* three read-modify-writes of a restart, nor a failed set, nor a crash    *)
(* between any two steps takes the stored position or the stored executed  *)
(* total back to an older one (triggerProcessing, the constructor of       *)
(* TradeInstance), as long as no get fails: a failed get is taken for a    *)
(* key that does not exist, and the account starts at 0.                   *)
NewestIsKept ==
  [][~misread' => /\ StoredFills' >= StoredFills
                  /\ position # NoPosition =>
                       position'.executed >= position.executed]_vars

(* Redis catches up with the fills again and again: a round that could not *)
(* write is made good by a later one, and a restart resumes from what is   *)
(* stored.  Fills are finitely many here, or there might always be one     *)
(* that a round has not seen.                                              *)
FillsAreStored == []<>(StoredFills = fills)

(* The trading thread and the callback thread read and write back the same *)
(* entry, and neither undoes a time the other has written, because at most *)
(* one of DONE, CHANGED and CANCELED is answered for an order.  The ids of *)
(* an earlier run are used again, and their entries are not kept apart.    *)
TimesAreKept ==
  [][\A i \in Ids : i > used /\ entries[i] # NoEntry => entries[i] \subseteq entries'[i]]_vars
=============================================================================

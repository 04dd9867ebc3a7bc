------------------------------ MODULE Exchange ------------------------------
(***************************************************************************)
(* The order router and the exchange behind Execution::Connection: not in  *)
(* the repository, modelled from the calls OrderAccount makes and the      *)
(* callbacks it implements.  The callbacks about one request id arrive in  *)
(* the order the router sent them; nothing orders those of different ids.  *)
(***************************************************************************)
EXTENDS OrderTypes

CONSTANT Faults   \* which of the refusals below the router may answer with

FaultKinds ==
  {"post",            \* PostOrder, CancelOrder or ChangeOrder returns an error
   "repost",          \* PostOrder fails when a throttled order is sent again
   "reject",          \* a new order is DENIED or REJECTED
   "throttle",        \* ORDER_COND_GATEWAY_THROTTLE
   "cancel_reject",   \* CANCEL_REJECTED for an order that is still working
   "unsolicited",     \* a working order is cancelled by the exchange
   "change_reject",   \* CHANGE_REJECTED, on the original request id
   "change_unknown"}  \* OnOrderChange with ORDER_UNKNOWN, on the new one

ASSUME FaultAssumption == Faults \subseteq FaultKinds

VARIABLES
  book,    \* what the exchange knows of each request id
  inbox    \* the callbacks not yet delivered, per request id, oldest first

exchangeVars == <<book, inbox>>

BookStates ==
  {"none",       \* never reached the router
   "posted",     \* a new order the router has not answered
   "throttled",  \* refused for the message rate, to be posted again
   "replacing",  \* a change request the router has not answered
   "live",       \* working
   "leaving",    \* being cancelled by the exchange, which has said so
   "filled",     \* executed in full, DONE not yet sent
   "done", "cancelled", "rejected", "replaced"}

Working == {"posted", "throttled", "replacing", "live", "leaving", "filled"}

(* original is the id a change request replaces (0 for a new order);       *)
(* cancels counts the cancel requests not yet answered.                    *)
BookEntry == [state : BookStates, leaves : Nat, original : {0} \cup Ids,
              cancels : Nat]

NoEntry == [state |-> "none", leaves |-> 0, original |-> 0, cancels |-> 0]

(* Conditions OnOrder is called with, OnFill, OnOrderCancel and            *)
(* OnOrderChange.  PENDING_NEW, PARTIAL and PENDING_CHANGE only refresh    *)
(* the order's copy of the message and are left out.                       *)
Closing   == {"DONE", "CANCELED", "REJECTED", "CHANGED"}
CancelRefusals == {"CANCEL_REJECTED", "TOO_LATE_TO_CANCEL"}
Refusals  == CancelRefusals \cup {"CHANGE_REJECTED"}
EventKinds ==
  Closing \cup Refusals \cup {"NEW", "THROTTLE", "FILL", "CANCEL_NOTICE", "UNKNOWN"}

(* openSize is what is left of the order after the event, as the router    *)
(* reports it; size is the quantity of a fill.                             *)
Event == [kind : EventKinds, size : Nat, openSize : Nat]

ExchangeTypeOK ==
  /\ book \in [Ids -> BookEntry]
  /\ inbox \in [Ids -> Seq(Event)]

ExchangeInit ==
  /\ book = [i \in Ids |-> NoEntry]
  /\ inbox = [i \in Ids |-> <<>>]

-----------------------------------------------------------------------------
(* The requests, called from the actions of the account.                   *)

Post(i, size) ==
  book' = [book EXCEPT ![i].state = "posted", ![i].leaves = size]

Replace(j, i, size) ==
  book' = [book EXCEPT ![j].state = "replacing", ![j].leaves = size,
                       ![j].original = i]

RequestCancel(i) == book' = [book EXCEPT ![i].cancels = @ + 1]

-----------------------------------------------------------------------------
(* What the exchange does with them.                                       *)

Tell(i, kind, size, openSize) ==
  inbox' = [inbox EXCEPT ![i] =
              Append(@, [kind |-> kind, size |-> size, openSize |-> openSize])]

Become(i, state) == book' = [book EXCEPT ![i].state = state]

Accept(i) ==
  /\ book[i].state = "posted"
  /\ Become(i, "live")
  /\ Tell(i, "NEW", 0, book[i].leaves)

Reject(i) ==
  /\ "reject" \in Faults
  /\ book[i].state = "posted"
  /\ Become(i, "rejected")
  /\ Tell(i, "REJECTED", 0, book[i].leaves)

Throttle(i) ==
  /\ "throttle" \in Faults
  /\ book[i].state = "posted"
  /\ Become(i, "throttled")
  /\ Tell(i, "THROTTLE", 0, book[i].leaves)

Execute(i, n) ==
  /\ book[i].state = "live"
  /\ n \in 1..book[i].leaves
  /\ book' = [book EXCEPT ![i].leaves = @ - n,
                          ![i].state  = IF n = book[i].leaves THEN "filled" ELSE @]
  /\ Tell(i, "FILL", n, book[i].leaves - n)

Complete(i) ==
  /\ book[i].state = "filled"
  /\ Become(i, "done")
  /\ Tell(i, "DONE", 0, 0)

AnswerCancel(i, state, kind) ==
  /\ book[i].cancels > 0
  /\ book' = [book EXCEPT ![i].cancels = @ - 1, ![i].state = state]
  /\ Tell(i, kind, 0, book[i].leaves)

CancelOrderDone(i) ==
  /\ book[i].state = "live"
  /\ AnswerCancel(i, "cancelled", "CANCELED")

CancelOrderRefused(i) ==
  \/ /\ book[i].state # "live"
     /\ AnswerCancel(i, book[i].state, "TOO_LATE_TO_CANCEL")
  \/ /\ "cancel_reject" \in Faults
     /\ book[i].state = "live"
     /\ AnswerCancel(i, "live", "CANCEL_REJECTED")

(* The exchange cancels on its own: OnOrderCancel, then OnOrder(CANCELED). *)
AnnounceCancel(i) ==
  /\ "unsolicited" \in Faults
  /\ book[i].state = "live"
  /\ Become(i, "leaving")
  /\ Tell(i, "CANCEL_NOTICE", 0, book[i].leaves)

CompleteCancel(i) ==
  /\ book[i].state = "leaving"
  /\ Become(i, "cancelled")
  /\ Tell(i, "CANCELED", 0, book[i].leaves)

(* Replacing an order gives the new id an order of its own, of the size    *)
(* the request carries.                                                    *)
AcceptChange(j) ==
  LET i == book[j].original IN
  /\ book[j].state = "replacing"
  /\ book[i].state = "live"
  /\ book' = [book EXCEPT ![i].state = "replaced", ![j].state = "live"]
  /\ inbox' = [inbox EXCEPT
       ![i] = Append(@, [kind |-> "CHANGED", size |-> 0, openSize |-> book[i].leaves]),
       ![j] = Append(@, [kind |-> "NEW", size |-> 0, openSize |-> book[j].leaves])]

RefuseChange(j) ==
  LET i == book[j].original IN
  /\ book[j].state = "replacing"
  /\ "reject" \in Faults \/ book[i].state # "live"
  /\ Become(j, "rejected")
  /\ \/ Tell(j, "REJECTED", 0, book[j].leaves)
     \/ /\ "change_reject" \in Faults
        /\ Tell(i, "CHANGE_REJECTED", 0, book[i].leaves)
     \/ /\ "change_unknown" \in Faults
        /\ Tell(j, "UNKNOWN", 0, book[j].leaves)

Decide(i) ==
  \/ Accept(i)
  \/ Reject(i)

Answer(i) ==
  \/ Complete(i)
  \/ CancelOrderDone(i)
  \/ CancelOrderRefused(i)
  \/ CompleteCancel(i)
  \/ AcceptChange(i)
  \/ RefuseChange(i)

ExchangeStep(i) ==
  \/ Decide(i)
  \/ Throttle(i)
  \/ Answer(i)
  \/ AnnounceCancel(i)
  \/ \E n \in Sizes : Execute(i, n)
=============================================================================

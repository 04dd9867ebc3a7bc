----------------------------- MODULE FillLedger -----------------------------
(***************************************************************************)
(* What an account promises about its fills, whatever its threads do: an   *)
(* order is entered once with its size and direction, each fill moves the  *)
(* position by its quantity and never takes an order past its size, and an *)
(* order is booked as executed once, when it is full.                      *)
(***************************************************************************)
EXTENDS Integers

CONSTANTS Orders, OrderSizes

VARIABLES
  size,       \* of each order, 0 before it is entered
  opens,      \* does a fill of it add to the position?
  filled,
  finished,   \* the orders booked as executed
  position,
  executed

vars == <<size, opens, filled, finished, position, executed>>

Init ==
  /\ size = [o \in Orders |-> 0]
  /\ opens \in [Orders -> BOOLEAN]
  /\ filled = [o \in Orders |-> 0]
  /\ finished = {}
  /\ position = 0
  /\ executed = 0

Enter(o) ==
  /\ size[o] = 0
  /\ \E n \in OrderSizes : size' = [size EXCEPT ![o] = n]
  /\ \E b \in BOOLEAN : opens' = [opens EXCEPT ![o] = b]
  /\ UNCHANGED <<filled, finished, position, executed>>

Fill(o) ==
  /\ o \notin finished
  /\ \E n \in 1..(size[o] - filled[o]) :
       /\ filled' = [filled EXCEPT ![o] = @ + n]
       /\ position' = IF opens[o] THEN position + n ELSE position - n
  /\ UNCHANGED <<size, opens, finished, executed>>

Finish(o) ==
  /\ o \notin finished
  /\ size[o] > 0
  /\ filled[o] = size[o]
  /\ finished' = finished \cup {o}
  /\ executed' = executed + size[o]
  /\ UNCHANGED <<size, opens, filled, position>>

Next == \E o \in Orders : Enter(o) \/ Fill(o) \/ Finish(o)

Spec == Init /\ [][Next]_vars
=============================================================================

------------------------------- MODULE Mailbox -------------------------------
(***************************************************************************)
(* What the stack of stamps promises the trading thread: whenever it takes *)
(* a value it gets the one published last, it never gets a value twice, and *)
(* values it was too slow for are forgotten.                               *)
(***************************************************************************)
CONSTANTS Values, FirstValue

VARIABLES
  latest,   \* the value published last
  fresh,    \* has it not been taken yet?
  seen      \* the value taken last

vars == <<latest, fresh, seen>>

Init == latest = FirstValue /\ fresh = FALSE /\ seen = FirstValue

Publish ==
  /\ latest' \in Values
  /\ fresh' = TRUE
  /\ UNCHANGED seen

Take ==
  /\ fresh
  /\ seen' = latest
  /\ fresh' = FALSE
  /\ UNCHANGED latest

Next == Publish \/ Take

Spec == Init /\ [][Next]_vars
=============================================================================

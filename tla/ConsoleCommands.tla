--------------------------- MODULE ConsoleCommands ---------------------------
(***************************************************************************)
(* The commands of the console, as the steps they come to for one trade    *)
(* instance: CLI finds the handler, TradeAccountManager picks the accounts *)
(* and TradeAccount the instances, and TradeInstance writes its flags one  *)
(* after the other while the trading thread reads them.                    *)
(***************************************************************************)
EXTENDS TradeCases

CONSTANTS
  Commands,     \* the command lines that are entered
  MaxCommands,  \* bound on their number
  Consoles      \* the threads that read them

(* Whom the rest of the line names, seen from this instance; off is -d.    *)
Names      == {"st", "rt", "pc", "dpc", "sc", "dsc"}
Addressees == {"-a", "account", "symbol", "other account", "other symbol"}
Line       == [name : Names, off : BOOLEAN, whom : Addressees]

ASSUME ConsoleAssumption ==
  /\ Commands \subseteq Line
  /\ MaxCommands \in Nat
  /\ Consoles \subseteq {"cli", "cli_client"}

Flags == {"enable", "panic", "panic_init", "soft", "soft_init"}

(* An assignment to a flag: which, and what it is set to.                  *)
Writes ==
  [label \in {"enable", "disable", "panic", "no panic", "arm panic", "disarm panic",
              "soft", "no soft", "arm soft", "disarm soft"} |->
     CASE label = "enable"       -> <<"enable", TRUE>>
       [] label = "disable"      -> <<"enable", FALSE>>
       [] label = "panic"        -> <<"panic", TRUE>>
       [] label = "no panic"     -> <<"panic", FALSE>>
       [] label = "arm panic"    -> <<"panic_init", TRUE>>
       [] label = "disarm panic" -> <<"panic_init", FALSE>>
       [] label = "soft"         -> <<"soft", TRUE>>
       [] label = "no soft"      -> <<"soft", FALSE>>
       [] label = "arm soft"     -> <<"soft_init", TRUE>>
       [] label = "disarm soft"  -> <<"soft_init", FALSE>>]

-----------------------------------------------------------------------------
(* TradeInstance.h *)

stopAction        == CancelAll("short") \o CancelAll("long") \o <<Do("disable")>>
startAction       == <<Do("enable")>>
enablePanicClose_Once == <<Do("panic")>>
enablePanicClose  == <<Do("panic"), Do("arm panic")>>
disablePanicClose == <<Do("no panic"), Do("disarm panic")>>
enableSoftClose   == <<Do("soft"), Do("arm soft")>>
disableSoftClose  == <<Do("no soft"), Do("disarm soft")>>

(* TradeAccount: stop() of a whole account cancels at the exchange as      *)
(* well, stop(symbol) does not.  CancelAllOrders is a message, taken here  *)
(* when the exchange carries it out, and for what cancelAll knows; Startup *)
(* has what is asked for and what becomes of it apart.                     *)
AccountStop(whom) ==
  stopAction \o IF whom = "symbol" THEN <<>>
                ELSE <<On("short", "cancel"), On("long", "cancel")>>

(* TradeAccountManager::stop, start, panicClose and softClose: the loops   *)
(* over accounts and instances reach this one or pass it by.               *)
Reached(whom) == whom \in {"-a", "account", "symbol"}

(* TradeAccountManager::operator().  "dpc" and "dsc" are registered and    *)
(* have no branch; -d is looked for in the lines of pc and sc alone.       *)
Script(line) ==
  IF ~Reached(line.whom) THEN <<>>
  ELSE CASE line.name = "st" -> AccountStop(line.whom)
         [] line.name = "rt" -> startAction
         [] line.name = "pc" -> IF line.off THEN disablePanicClose ELSE enablePanicClose
         [] line.name = "sc" -> IF line.off THEN disableSoftClose ELSE enableSoftClose
         [] OTHER            -> <<>>
=============================================================================

------------------------------ MODULE MCStartup ------------------------------
EXTENDS Startup

(* Two users trade one name, a third trades none; "no symbols" is not in   *)
(* the symbol configuration.                                               *)
Accounts == {<<"u1", "idle">>, <<"u2", "no symbols">>}
OneName  == ("u1" :> {"n"}) @@ ("u2" :> {"n"}) @@ ("idle" :> {})
=============================================================================

--------------------------- MODULE MCBehaviorEngine ---------------------------
(* The engine with two behaviors, one of them in two modules.               *)
EXTENDS BehaviorEngine

MCModules == {<<"wave", "blink">>, <<"blink">>}
=============================================================================

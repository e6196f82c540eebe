--------------------------- MODULE MCEngineControl ---------------------------
(***************************************************************************)
(* One strategy and its user; commands for others only delay its own.      *)
(***************************************************************************)
EXTENDS EngineControl

CONSTANT a

One == {a}
=============================================================================

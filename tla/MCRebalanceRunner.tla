------------------------- MODULE MCRebalanceRunner -------------------------
(***************************************************************************)
(* A few short periods, prices that halve and double.                      *)
(***************************************************************************)
EXTENDS RebalanceRunner

TwoPrices == {2, 4}
OnePrice == {2}
=============================================================================

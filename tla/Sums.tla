-------------------------------- MODULE Sums --------------------------------
(***************************************************************************)
(* The sum of a function's values over a set of its arguments: quantities, *)
(* costs and fills are added up this way.                                  *)
(***************************************************************************)
EXTENDS Integers, FiniteSetsExt

SumOver(f, S) == MapThenSumSet(LAMBDA x : f[x], S)
=============================================================================

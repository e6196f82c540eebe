-------------------------- MODULE MCStrategyRunner --------------------------
(***************************************************************************)
(* Two strategies on one symbol that is cheap or dear.  One has two shares *)
(* that cost more than the symbol ever does: it stops its loss.  The other *)
(* has one share: dear it takes the profit, cheap it trails.  The limit of *)
(* the account is reached once the second has sold.                        *)
(***************************************************************************)
EXTENDS StrategyRunner, TLC

CONSTANTS a, b

TwoStrategies == {a, b}
TwoStrategiesSym == Permutations(TwoStrategies)
CheapAndDear == {1, 4}
TwoAndOne ==
  {[qty |-> (s :> 2 @@ t :> 1), avg |-> (s :> 5 @@ t :> 2)] : <<s, t>> \in {<<a, b>>, <<b, a>>}}
=============================================================================

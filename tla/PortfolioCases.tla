--------------------------- MODULE PortfolioCases ---------------------------
(***************************************************************************)
(* What the live runner and the backtest of a rebalancing strategy have to *)
(* agree on, and what the weights have to add up to: the rules of          *)
(* PortfolioRules, asked for every case of a bounded set.                  *)
(***************************************************************************)
EXTENDS PortfolioRules

CONSTANT Cases          \* records with the field kind

\* Holdings of whole shares, with a price each, and weights for some of them.
IsPortfolio(c) ==
  /\ IsFiniteSet(DOMAIN c.qty)
  /\ c.qty \in [DOMAIN c.qty -> Nat] /\ c.price \in [DOMAIN c.qty -> Nat \ {0}]
  /\ DOMAIN c.targets \subseteq DOMAIN c.qty
  /\ \A s \in DOMAIN c.targets : c.targets[s] \in Nat
  /\ {c.cash, c.band, c.capital} \subseteq Nat

\* The days of a period follow one another.
IsCalendar(c) ==
  /\ c.days \in Seq([period : Nat, of : Nat, length : Nat])
  /\ c.trading \subseteq DOMAIN c.days
  /\ c.chosen \in Int
  /\ \A i, j, k \in DOMAIN c.days :
       i < j /\ j < k /\ c.days[i].period = c.days[k].period
         => c.days[j].period = c.days[i].period

\* Weights and limits; a limit of everything limits nothing, as the code has it too.
IsWeighting(c) ==
  /\ IsFiniteSet(DOMAIN c.weights) /\ c.weights \in [DOMAIN c.weights -> Nat]
  /\ c.position \in Nat /\ c.cap \in Nat
  /\ c.cap < Unit \/ SumFunction(c.weights) <= Unit

ASSUME CasesAssumption ==
  \A c \in Cases : /\ c.kind = "orders" => IsPortfolio(c)
                   /\ c.kind = "dates" => IsCalendar(c)
                   /\ c.kind = "caps" => IsWeighting(c)

VARIABLE case

CaseInit == case \in Cases
CaseNext == UNCHANGED case
CaseSpec == CaseInit /\ [][CaseNext]_case

Sum(w) == IF w = <<>> THEN 0 ELSE SumFunction(w)

\* kind "orders": [qty, price, targets, cash, band, capital].
ValueOf(c) == [s \in DOMAIN c.qty |-> c.qty[s] * c.price[s]]
EquityOf(c) == c.cash + SumFunction(ValueOf(c))

Frictionless(band) ==
  [fees |-> 0, tax |-> 0, slip |-> 0, band |-> band, shares |-> TRUE, limits |-> FALSE]

SimulatedChange(c, s) ==
  LET book == [cash |-> c.cash * Unit, val |-> ValueOf(c)]
      m == [price |-> c.price, prev |-> c.price, adv |-> [t \in DOMAIN c.qty |-> NoValue]]
      want == Wanted(book, c.targets, EquityOf(c), Frictionless(c.band), FALSE, s)
  IN  (BoughtAmount(want, m, Frictionless(c.band), s)
         - SoldAmount(book, want, m, Frictionless(c.band), FALSE, s)) \div c.price[s]

\* The live runner sizes by the capital it was configured with (rebalance_runner.py:763), the
\* simulation by the equity of the day (portfolio.py:600, 1027).  While they are one amount,
\* without costs and limits, the backtest buys what the live runner buys, and sells what it
\* sells or, rounding the amount sold where the live runner rounds the quantity kept, one
\* share less (portfolio.py:39, rebalance.py:324-376).  Once gains or losses have set them
\* apart the plans part too, as portfolio.py:60 says.
OrdersAgree ==
  case.kind = "orders" /\ case.capital = EquityOf(case) =>
    LET live == LiveOrders(case.targets, case.qty, case.price, case.capital, case.band) IN
    \A s \in DOMAIN case.qty :
      \/ SimulatedChange(case, s) = live[s]
      \/ live[s] < 0 /\ SimulatedChange(case, s) = live[s] + 1

\* kind "dates": [days, trading, cadence, chosen].  The days on which the backtest
\* rebalances are those on which the live runner, asked every trading day, is due
\* (portfolio.py:135-171, rebalance.py:397-439).
DatesAgree ==
  case.kind = "dates" =>
    RebalanceDates(case.days, case.trading, case.cadence, case.chosen)
      = LiveDates(case.days, case.trading, case.cadence, case.chosen)

\* The live runner and the simulation plan the same orders, while capital and equity are one
\* amount, on the same days.
PlansAgree == OrdersAgree /\ DatesAgree

NoLimit(risk) == risk.maxPosition = NoValue /\ risk.maxSector = NoValue /\ risk.targetVol = NoValue

Keeps(w, pool, asked, risk) ==
  /\ DOMAIN w \subseteq ToSet(pool)
  /\ Sum(w) <= asked
  /\ w # <<>> /\ NoLimit(risk) => Sum(w) >= asked - 2 * Len(pool)

\* kind "targets": [pool, in, config, exposure].  Whatever is selected and however it
\* is weighted, what is invested is the exposure, less what a limit cuts off; and only
\* symbols of the pool get a weight (_targets_at, compute_target_weights).  Weights by
\* volatility keep to it up to 26 symbols: FillsUp says why.
ExposureIsKept ==
  case.kind = "targets" =>
    Keeps(TargetsAt(case.pool, case.in, case.config, case.exposure), case.pool,
          AtMost(case.exposure, Unit), case.config.risk)

\* kind "fills": [raw].  "합은 항상 1.0", the sum is always 1.0 (rebalance.py:103), but for
\* the rounding.
FillsUp ==
  case.kind = "fills" =>
    LET sum == Sum(CapNormalized(case.raw, MinWeight, MaxWeight)) IN
    sum <= Unit /\ sum >= Unit - Cardinality(DOMAIN case.raw)

CappedOf(c) == CapSector(CapPosition(c.weights, c.position), c.sector, c.cap)

\* kind "caps": [weights, position, sector, cap].  The redistribution among the sectors ends, in as
\* many rounds as there are symbols plus one, with every sector within its limit
\* (risk_caps.py:39-88).
SectorsWithinCap ==
  case.kind = "caps" =>
    \A s \in DOMAIN case.weights : SectorSum(CappedOf(case), case.sector, s) <= case.cap
=============================================================================

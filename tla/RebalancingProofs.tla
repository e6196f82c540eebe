-------------------------- MODULE RebalancingProofs --------------------------
(***************************************************************************)
(* Rebalancing strategies, for any calendar, prices, settings and          *)
(* portfolios: the live kill switch's priority (RebalanceRunner), the      *)
(* simulation's cash and the order of its decisions (PortfolioBacktest),   *)
(* and the plans both make (PortfolioCases).                               *)
(***************************************************************************)
EXTENDS RebalanceRunner, PortfolioBacktest, PortfolioCases, SumLemmas, TLAPS

(***************************************************************************)
(* The live runner                                                         *)
(***************************************************************************)
\* A tick that found the switch on, or turned it on, never gets to the regime filter or
\* the cadence, and trades for cash only.
KillRules ==
  Killed => /\ pc \notin {"regime", "decide"}
            /\ pc = "trade" => goal = "cash"

\* Whatever trades has a reason to.
Tagged == pc = "trade" => tag # "none"

IInv == TypeOK /\ KillRules /\ Tagged

\* The whole shares a target buys.
LEMMA TargetType == ASSUME TypeOK PROVE Target \in Nat
<1>1. price \in Nat \ {0} /\ Capital \in Nat
  BY RebalanceAssumption DEF TypeOK
<1>2. Capital \div price \in Nat
  BY <1>1
<1>. QED BY <1>2 DEF Target

\* The switch's next state is one.
LEMMA EvaluatedType == ASSUME TypeOK PROVE Evaluated \in MddStates
<1>1. Equity \in Int
  <2>1. price \in Int /\ qty \in Int /\ cash \in Int
    BY RebalanceAssumption DEF TypeOK
  <2>2. qty * price \in Int
    BY <2>1
  <2>. QED BY <2>1, <2>2 DEF Equity
<1>2. Raised \in Int
  BY <1>1 DEF Raised, TypeOK, MddStates
<1>3. Rearmed \in MddStates
  <2>1. [hwm |-> Equity, killed |-> FALSE, since |-> 0, rearm |-> TRUE] \in MddStates
    BY <1>1 DEF MddStates
  <2>2. [mdd EXCEPT !.hwm = Raised] \in MddStates
    BY <1>2 DEF MddStates, TypeOK
  <2>. QED BY <2>1, <2>2 DEF Rearmed
<1>4. [Rearmed EXCEPT !.killed = TRUE, !.since = day, !.rearm = FALSE] \in MddStates
  BY <1>3 DEF MddStates, TypeOK
<1>. QED BY <1>3, <1>4 DEF Evaluated

\* The initial states satisfy the invariant.
LEMMA InitIInv == Init => IInv
<1>1. PeriodLength * Periods \in Nat /\ PeriodLength * Periods >= 1
  <2>1. PeriodLength \in Nat \ {0} /\ Periods \in Nat \ {0}
    BY RebalanceAssumption
  <2>. QED BY <2>1
<1>2. 1 \in Days
  BY <1>1 DEF Days
<1>3. Unknown \in MddStates
  BY DEF Unknown, MddStates
<1>4. Capital \in Int
  BY RebalanceAssumption
<1>. SUFFICES ASSUME Init PROVE IInv
  OBVIOUS
<1>5. ~Killed
  BY DEF Init, Killed, Unknown
<1>6. TypeOK
  BY <1>2, <1>3, <1>4 DEF Init, TypeOK
<1>. QED
  BY <1>5, <1>6 DEF Init, IInv, KillRules, Tagged

\* Every step preserves the invariant.
LEMMA StepIInv == IInv /\ [Next]_vars => IInv'
<1>. SUFFICES ASSUME IInv, [Next]_vars PROVE IInv'
  OBVIOUS
<1>. USE DEF IInv, TypeOK, KillRules, Killed, Tagged, quoted, stateVars, localVars
<1>1. ASSUME StartTick PROVE IInv'
  BY <1>1 DEF StartTick
<1>2. ASSUME EvaluateMdd PROVE IInv'
  <2>1. Evaluated \in MddStates
    BY EvaluatedType
  <2>. QED BY <1>2, <2>1 DEF EvaluateMdd
<1>3. ASSUME CheckRegime PROVE IInv'
  BY <1>3 DEF CheckRegime
<1>4. ASSUME Decide PROVE IInv'
  <2>1. mdd' \in MddStates /\ (Killed' <=> Killed)
    BY <1>4 DEF Decide, ClearPending, MddStates
  <2>2. due' \in BOOLEAN /\ rearm' \in BOOLEAN
    BY <1>4 DEF Decide
  <2>. QED BY <1>4, <2>1, <2>2 DEF Decide
<1>5. ASSUME Trade PROVE IInv'
  <2>1. PICK keys \in SUBSET ({"buy", "sell", "skip"} \X {"rebal", "regime", "mdd", "rearm"}) :
          pc = "trade" /\ Traded(keys)
    <3>1. <<Side, tag>> \in {"buy", "sell", "skip"} \X {"rebal", "regime", "mdd", "rearm"}
      BY <1>5 DEF Trade, Orders, Rebalance, OrderRefused, NothingToOrder, Skip, Side
    <3>. QED BY <1>5, <3>1 DEF Trade, Orders, Rebalance, OrderRefused, NothingToOrder, Skip
  <2>2. cash' \in Int /\ qty' \in Nat
    <3>1. Target \in Nat /\ qty \in Nat /\ cash \in Int /\ price \in Nat
      BY TargetType, RebalanceAssumption
    <3>2. ASSUME NEW q \in Nat PROVE cash + (qty - q) * price \in Int
      BY <3>1
    <3>3. Reachable \subseteq Nat
      BY <3>1 DEF Reachable
    <3>. QED BY <1>5, <3>1, <3>2, <3>3 DEF Trade, Orders, Rebalance, OrderRefused, NothingToOrder, Skip
  <2>. QED BY <2>1, <2>2 DEF Traded
<1>6. ASSUME Finish PROVE IInv'
  <2>1. mdd' \in MddStates
    BY <1>6 DEF Finish, ClearPending, MddStates
  <2>. QED BY <1>6, <2>1 DEF Finish
<1>6a. ASSUME SetLast PROVE IInv'
  BY <1>6a DEF SetLast
<1>7. ASSUME TickFails PROVE IInv'
  <2>1. failures' \in Nat
    BY <1>7 DEF TickFails
  <2>. QED BY <1>7, <2>1 DEF TickFails
<1>8. ASSUME LoseRedis PROVE IInv'
  <2>1. mdd' \in MddStates /\ ~Killed'
    BY <1>8 DEF LoseRedis, Unknown, MddStates
  <2>. QED BY <1>8, <2>1 DEF LoseRedis
<1>9. ASSUME PriceMoves PROVE IInv'
  BY <1>9 DEF PriceMoves
<1>10. ASSUME NextDay PROVE IInv'
  <2>1. LastDay \in Int
    BY RebalanceAssumption DEF LastDay
  <2>2. day' \in Days
    <3>1. PeriodLength * Periods \in Int
      BY RebalanceAssumption
    <3>. QED BY <1>10, <3>1 DEF NextDay, Days, LastDay
  <2>3. riskOff' \in BOOLEAN /\ member' \in BOOLEAN
    BY <1>10, RebalanceAssumption DEF NextDay
  <2>. QED BY <1>10, <2>2, <2>3 DEF NextDay
<1>11. CASE UNCHANGED vars
  BY <1>11 DEF vars
<1>. QED
  BY <1>1, <1>2, <1>3, <1>4, <1>5, <1>6, <1>6a, <1>7, <1>8, <1>9, <1>10, <1>11
     DEF Next, Tick

\* No step of a killed strategy buys.
LEMMA StepNoPurchase == IInv /\ [Next]_vars => [Killed => qty' <= qty]_vars
<1>. SUFFICES ASSUME IInv, Next, Killed PROVE qty' <= qty
  BY DEF vars
<1>1. qty \in Nat
  BY DEF IInv, TypeOK
<1>2. CASE Trade
  <2>1. goal = "cash"
    BY <1>2 DEF IInv, KillRules, Trade, Orders, Rebalance, OrderRefused, NothingToOrder, Skip
  <2>2. Target = 0 /\ Reachable = {0}
    BY <1>1, <2>1 DEF Target, Reachable
  <2>. QED BY <1>1, <1>2, <2>2 DEF Trade, Orders, Rebalance, OrderRefused, NothingToOrder, Skip
<1>3. CASE ~Trade
  <2>1. qty' = qty
    BY <1>3 DEF Next, Tick, StartTick, EvaluateMdd, CheckRegime, Decide, SetLast, Finish, TickFails,
       LoseRedis, PriceMoves, NextDay
  <2>. QED BY <1>1, <2>1
<1>. QED BY <1>2, <1>3

\* The types of RebalanceRunner's variables, for every value of its constants.
THEOREM TypeCorrect == Spec => []TypeOK
<1>1. IInv => TypeOK
  BY DEF IInv
<1>. QED BY InitIInv, StepIInv, <1>1, PTL DEF Spec

\* The kill switch outranks the regime, the cadence and the re-entries
\* (rebalance_runner.py, _tick_once): a killed strategy buys nothing.
THEOREM KillOutranks == Spec => NoPurchaseWhileKilled
<1>. QED BY InitIInv, StepIInv, StepNoPurchase, PTL DEF Spec, NoPurchaseWhileKilled

(***************************************************************************)
(* Sums and divisions of the simulation                                    *)
(***************************************************************************)
LEMMA SumFunctionIs == \A f : SumFunction(f) = SumOver(f, DOMAIN f)
BY Zenon DEF SumOver, SumFunction, SumFunctionOnSet, FoldFunctionOnSet, MapThenSumSet

LEMMA TotalNat ==
  ASSUME NEW S, IsFiniteSet(S), NEW f \in [S -> Nat]
  PROVE  SumFunction(f) \in Nat
<1>1. DOMAIN f = S /\ \A x \in S : f[x] \in Nat
  OBVIOUS
<1>2. SumOver(f, S) \in Nat
  BY <1>1, SumNat
<1>. QED BY <1>1, <1>2, SumFunctionIs

LEMMA Division ==
  ASSUME NEW i \in Int, NEW j \in Nat \ {0}
  PROVE  /\ i \div j \in Int
         /\ (i \div j) * j <= i
         /\ i < (i \div j) * j + j
         /\ i >= 0 => i \div j \in Nat
OBVIOUS

(***************************************************************************)
(* The fills (_apply_rebalance)                                            *)
(***************************************************************************)
\* Costs are a part of what is traded.
IsOpt(opt) ==
  /\ opt.fees \in Nat /\ opt.tax \in Nat /\ opt.slip \in Nat
  /\ opt.fees + opt.tax + opt.slip <= Unit

IsMarket(m, S) ==
  /\ m.price \in [S -> Nat] /\ m.prev \in [S -> Nat]
  /\ m.adv \in [S -> Int]

\* Holdings worth nothing or something, and no debt.
Solvent(b, S) == b.cash \in Nat /\ b.val \in [S -> Nat]

\* Weights of symbols, whatever they are.
Weighs(targets) == \A s \in DOMAIN targets : targets[s] \in Int

\* No price blocks an order.
Unlimited(opt) == ~opt.limits

LEMMA FillPriceNat ==
  ASSUME NEW S, NEW m, IsMarket(m, S), NEW opt, NEW s \in S
  PROVE  FillPrice(m, opt, s) \in Nat
<1>1. ASSUME NEW p \in Nat PROVE RoundToTick(p) \in Nat
  <2>1. TickSize(p) \in Nat \ {0}
    BY DEF TickSize
  <2>2. p \div TickSize(p) \in Nat
    BY <2>1, Division
  <2>3. /\ (p \div TickSize(p)) * TickSize(p) \in Nat
        /\ (p \div TickSize(p) + 1) * TickSize(p) \in Nat
    BY <2>1, <2>2
  <2>. QED BY <2>3 DEF RoundToTick
<1>2. m.price[s] \in Nat
  BY DEF IsMarket
<1>. QED BY <1>1, <1>2 DEF FillPrice

LEMMA SharesNat ==
  ASSUME NEW amount \in Nat, NEW p \in Nat
  PROVE  FloorToShares(amount, p) \in Nat /\ FloorToShares(amount, p) <= amount
<1>1. CASE p = 0
  BY <1>1 DEF FloorToShares
<1>2. CASE p # 0
  <2>1. amount \div p \in Nat /\ (amount \div p) * p <= amount
    BY <1>2, Division
  <2>2. (amount \div p) * p \in Nat
    BY <2>1
  <2>. QED BY <1>2, <2>1, <2>2 DEF FloorToShares
<1>. QED BY <1>1, <1>2

LEMMA WantedInt ==
  ASSUME NEW S, NEW b, Solvent(b, S), NEW targets, Weighs(targets), NEW equity \in Nat, NEW opt,
         NEW liquidate \in BOOLEAN, NEW s \in S
  PROVE  /\ Wanted(b, targets, equity, opt, liquidate, s) \in Int
         /\ liquidate => Wanted(b, targets, equity, opt, liquidate, s) = -b.val[s]
<1>1. b.val[s] \in Nat /\ Weight(targets, s) \in Int
  BY DEF Solvent, Weight, Weighs
<1>2. Weight(targets, s) * equity \in Int
  BY <1>1
<1>3. (Weight(targets, s) * equity) \div Unit \in Int
  BY <1>2, Division DEF Unit
<1>. QED BY <1>1, <1>3 DEF Wanted

\* No more is sold than is held, and a liquidation that no limit blocks sells it all.
LEMMA SoldIsHeld ==
  ASSUME NEW S, NEW b, Solvent(b, S), NEW want \in Int, NEW m, IsMarket(m, S), NEW opt,
         NEW liquidate \in BOOLEAN, NEW s \in S, NEW v \in Nat, v = b.val[s]
  PROVE  /\ SoldAmount(b, want, m, opt, liquidate, s) \in Nat
         /\ SoldAmount(b, want, m, opt, liquidate, s) <= v
         /\ liquidate /\ want = -v /\ Unlimited(opt)
              => SoldAmount(b, want, m, opt, liquidate, s) = v
<1>1. v = b.val[s] /\ m.adv[s] \in Int
  BY DEF IsMarket
<1>2. CASE want >= 0 \/ LimitBlocked(m, opt, "sell", s)
  <2>1. SoldAmount(b, want, m, opt, liquidate, s) = 0
    BY <1>2 DEF SoldAmount
  <2>2. Unlimited(opt) => want >= 0
    BY <1>2 DEF LimitBlocked, Unlimited
  <2>. QED BY <1>1, <2>1, <2>2
<1>3. CASE ~(want >= 0 \/ LimitBlocked(m, opt, "sell", s))
  <2>. DEFINE amount == IF liquidate THEN -want ELSE AdvCapped(-want, m.adv[s])
              whole == IF opt.shares /\ amount < b.val[s]
                       THEN FloorToShares(amount, FillPrice(m, opt, s)) ELSE amount
  <2>1. amount \in Nat
    BY <1>1, <1>3 DEF AdvCapped, AtMost
  <2>2. whole \in Nat
    <3>. HIDE DEF amount
    <3>. QED BY <2>1, FillPriceNat, SharesNat
  <2>3. liquidate /\ want = -v => whole = v
    BY <1>1
  <2>4. SoldAmount(b, want, m, opt, liquidate, s) = AtMost(whole, b.val[s])
    BY <1>3 DEF SoldAmount
  <2>. HIDE DEF whole
  <2>. QED BY <1>1, <2>2, <2>3, <2>4 DEF AtMost
<1>. QED BY <1>2, <1>3

LEMMA BoughtNat ==
  ASSUME NEW S, NEW want \in Int, NEW m, IsMarket(m, S), NEW opt, NEW s \in S
  PROVE  /\ BoughtAmount(want, m, opt, s) \in Nat
         /\ want <= 0 => BoughtAmount(want, m, opt, s) = 0
<1>1. m.adv[s] \in Int
  BY DEF IsMarket
<1>2. want > 0 => AdvCapped(want, m.adv[s]) \in Nat
  BY <1>1 DEF AdvCapped, AtMost
<1>3. want > 0 => FloorToShares(AdvCapped(want, m.adv[s]), FillPrice(m, opt, s)) \in Nat
  BY <1>2, FillPriceNat, SharesNat
<1>. QED BY <1>2, <1>3 DEF BoughtAmount

\* What the cash cannot pay shrinks until it can.
LEMMA AffordableIsPaid ==
  ASSUME NEW S, IsFiniteSet(S), NEW opt, IsOpt(opt), NEW asked \in [S -> Nat], NEW money \in Nat
  PROVE  LET bought == Affordable(asked, money, Bill(asked, opt)) IN
         /\ bought \in [S -> Nat]
         /\ Bill(bought, opt) \in Nat
         /\ Bill(bought, opt) <= money
         /\ (\A s \in S : asked[s] = 0) => \A s \in S : bought[s] = 0
<1>. DEFINE rate == Unit + opt.fees + opt.slip
            costs(f) == [s \in S |-> f[s] * rate]
            bill == Bill(asked, opt)
            bought == Affordable(asked, money, bill)
<1>1. rate \in Nat \ {0}
  BY DEF IsOpt, Unit
<1>2. \A f \in [S -> Nat] : Bill(f, opt) = SumOver(costs(f), S) /\ Bill(f, opt) \in Nat
  <2>. SUFFICES ASSUME NEW f \in [S -> Nat]
                PROVE  Bill(f, opt) = SumOver(costs(f), S) /\ Bill(f, opt) \in Nat
    OBVIOUS
  <2>1. DOMAIN f = S
    OBVIOUS
  <2>2. Bill(f, opt) = SumFunction(costs(f))
    BY <2>1 DEF Bill, BuyCost
  <2>3. costs(f) \in [S -> Nat] /\ DOMAIN costs(f) = S
    BY <1>1
  <2>. HIDE DEF costs
  <2>4. SumFunction(costs(f)) \in Nat
    BY <2>3, TotalNat
  <2>. QED BY <2>2, <2>3, <2>4, SumFunctionIs
<1>3. bill \in Nat
  BY <1>2
<1>4. CASE bill <= money
  <2>1. \A s \in S : ~(bill > money) /\ asked[s] \in Nat
    BY <1>3, <1>4
  <2>2. bought = asked
    BY <2>1 DEF Affordable
  <2>. HIDE DEF bought, bill
  <2>. QED BY <1>3, <1>4, <2>2 DEF bill, bought
<1>5. CASE bill > money
  <2>1. bill \in Nat \ {0}
    BY <1>3, <1>5
  <2>2. bought = [s \in S |-> (asked[s] * money) \div bill]
    BY <1>5 DEF Affordable
  <2>3. \A s \in S : /\ bought[s] \in Nat
                     /\ bought[s] * bill <= asked[s] * money
                     /\ asked[s] = 0 => bought[s] = 0
    <3>. SUFFICES ASSUME NEW s \in S
                  PROVE  /\ bought[s] \in Nat
                         /\ bought[s] * bill <= asked[s] * money
                         /\ asked[s] = 0 => bought[s] = 0
      OBVIOUS
    <3>1. asked[s] * money \in Nat
      OBVIOUS
    <3>2. bought[s] = (asked[s] * money) \div bill
      BY <2>2
    <3>. HIDE DEF bought, bill
    <3>3. bought[s] \in Nat /\ bought[s] * bill <= asked[s] * money
      BY <2>1, <3>1, <3>2, Division
    <3>4. ASSUME asked[s] = 0 PROVE bought[s] = 0
      <4>1. asked[s] * money = 0
        BY <3>4
      <4>2. bought[s] * bill <= 0
        BY <3>3, <4>1
      <4>3. \A i \in Nat : i * bill <= 0 => i = 0
        BY <2>1
      <4>. QED BY <3>3, <4>2, <4>3
    <3>. QED BY <3>3, <3>4
  <2>4. bought \in [S -> Nat]
    BY <2>2, <2>3
  <2>5. \A s \in S : /\ costs(bought)[s] \in Nat /\ costs(asked)[s] \in Nat
                     /\ costs(bought)[s] * bill <= costs(asked)[s] * money
    <3>. SUFFICES ASSUME NEW s \in S
                  PROVE  /\ costs(bought)[s] \in Nat /\ costs(asked)[s] \in Nat
                         /\ costs(bought)[s] * bill <= costs(asked)[s] * money
      OBVIOUS
    <3>1. costs(bought)[s] = bought[s] * rate /\ costs(asked)[s] = asked[s] * rate
      OBVIOUS
    <3>2. \A i, j, k, l, r \in Nat : i * k <= j * l => (i * r) * k <= (j * r) * l
      <4>. SUFFICES ASSUME NEW i \in Nat, NEW j \in Nat, NEW k \in Nat, NEW l \in Nat, NEW r \in Nat,
                           i * k <= j * l
                    PROVE  (i * r) * k <= (j * r) * l
        OBVIOUS
      <4>1. (i * r) * k = (i * k) * r /\ (j * r) * l = (j * l) * r
        OBVIOUS
      <4>2. i * k \in Nat /\ j * l \in Nat
        OBVIOUS
      <4>3. \A x, y \in Nat : x <= y => x * r <= y * r
        OBVIOUS
      <4>. QED BY <4>1, <4>2, <4>3
    <3>. HIDE DEF bought, bill, rate, costs
    <3>3. bought[s] * rate \in Nat /\ asked[s] * rate \in Nat
      BY <1>1, <2>3
    <3>. QED BY <1>1, <1>3, <2>3, <3>1, <3>2, <3>3
  <2>. HIDE DEF bought, costs, rate
  <2>6. SumOver(costs(bought), S) * bill <= SumOver(costs(asked), S) * money
    <3>. HIDE DEF bill
    <3>. QED BY <1>3, <2>5, SumProportion
  <2>7. SumOver(costs(asked), S) = bill /\ SumOver(costs(bought), S) = Bill(bought, opt)
        /\ Bill(bought, opt) \in Nat
    BY <1>2, <2>4
  <2>8. Bill(bought, opt) * bill <= bill * money
    BY <2>6, <2>7
  <2>9. \A i \in Nat : i * bill <= bill * money => i <= money
    BY <2>1
  <2>10. Bill(bought, opt) <= money
    BY <2>7, <2>8, <2>9
  <2>. QED BY <2>3, <2>4, <2>7, <2>10 DEF bought
<1>. QED BY <1>3, <1>4, <1>5

\* After a rebalancing there is no debt, and after a liquidation no position.
LEMMA FillsSolvent ==
  ASSUME NEW S, IsFiniteSet(S), NEW b, Solvent(b, S), NEW targets, Weighs(targets),
         NEW equity \in Nat, NEW m, IsMarket(m, S), NEW opt, IsOpt(opt), NEW liquidate \in BOOLEAN
  PROVE  LET after == ApplyRebalance(b, targets, equity, m, opt, liquidate) IN
         /\ Solvent(after, S)
         /\ liquidate /\ equity > 0 /\ Unlimited(opt) => \A s \in S : after.val[s] = 0
<1>. DEFINE after == ApplyRebalance(b, targets, equity, m, opt, liquidate)
<1>1. CASE equity <= 0
  <2>1. after = [cash |-> 0, val |-> b.val]
    BY <1>1 DEF ApplyRebalance
  <2>. QED BY <1>1, <2>1 DEF Solvent
<1>2. CASE equity > 0
  <2>. DEFINE wants == [s \in S |-> Wanted(b, targets, equity, opt, liquidate, s)]
              sold == [s \in S |-> SoldAmount(b, wants[s], m, opt, liquidate, s)]
              asked == [s \in S |-> BoughtAmount(wants[s], m, opt, s)]
              proceeds == [s \in S |-> Proceeds(sold[s], opt)]
              money == b.cash + SumFunction(proceeds)
              bought == Affordable(asked, money, Bill(asked, opt))
  <2>1. after = [cash |-> money - Bill(bought, opt), val |-> [s \in S |-> b.val[s] - sold[s] + bought[s]]]
    <3>1. DOMAIN b.val = S /\ DOMAIN wants = S /\ DOMAIN sold = S
      BY DEF Solvent
    <3>2. after = WithWants(b, wants, m, opt, liquidate)
      BY <1>2, <3>1 DEF ApplyRebalance
    <3>3. WithWants(b, wants, m, opt, liquidate) = WithSales(b, sold, asked, opt)
      BY <3>1 DEF WithWants
    <3>. HIDE DEF wants, sold, asked
    <3>4. WithSales(b, sold, asked, opt) = Settled(b, money, sold, bought, opt)
      BY <3>1 DEF WithSales
    <3>5. Settled(b, money, sold, bought, opt)
            = [cash |-> money - Bill(bought, opt), val |-> [s \in S |-> b.val[s] - sold[s] + bought[s]]]
      BY <3>1 DEF Settled
    <3>. QED BY <3>2, <3>3, <3>4, <3>5
  <2>2. \A s \in S : wants[s] \in Int /\ (liquidate => wants[s] = -b.val[s])
    BY WantedInt
  <2>3. \A s \in S : /\ sold[s] \in Nat /\ sold[s] <= b.val[s]
                     /\ liquidate /\ Unlimited(opt) => sold[s] = b.val[s]
    <3>. HIDE DEF wants
    <3>1. \A s \in S : b.val[s] \in Nat
      BY DEF Solvent
    <3>. QED BY <2>2, <3>1, SoldIsHeld
  <2>4. \A s \in S : asked[s] \in Nat /\ (liquidate => asked[s] = 0)
    <3>. HIDE DEF wants
    <3>1. \A s \in S : b.val[s] \in Nat
      BY DEF Solvent
    <3>2. \A s \in S : liquidate => wants[s] <= 0
      BY <2>2, <3>1
    <3>. QED BY <2>2, <3>2, BoughtNat
  <2>. HIDE DEF wants
  <2>5. money \in Nat
    <3>1. \A s \in S : proceeds[s] \in Nat
      <4>1. Unit - opt.fees - opt.tax - opt.slip \in Nat
        BY DEF IsOpt, Unit
      <4>. QED BY <2>3, <4>1 DEF Proceeds
    <3>2. proceeds \in [S -> Nat]
      BY <3>1
    <3>. HIDE DEF proceeds
    <3>3. SumFunction(proceeds) \in Nat
      BY <3>2, TotalNat
    <3>. QED BY <3>3 DEF Solvent
  <2>6. asked \in [S -> Nat]
    BY <2>4
  <2>. HIDE DEF asked, sold, money
  <2>7. /\ bought \in [S -> Nat] /\ Bill(bought, opt) \in Nat /\ Bill(bought, opt) <= money
        /\ (\A s \in S : asked[s] = 0) => \A s \in S : bought[s] = 0
    BY <2>5, <2>6, AffordableIsPaid
  <2>. HIDE DEF bought, after
  <2>8. \A s \in S : b.val[s] - sold[s] + bought[s] \in Nat
    BY <2>3, <2>7 DEF Solvent
  <2>9. Solvent(after, S)
    BY <2>1, <2>5, <2>7, <2>8 DEF Solvent
  <2>10. ASSUME liquidate, Unlimited(opt) PROVE \A s \in S : after.val[s] = 0
    <3>1. \A s \in S : sold[s] = b.val[s] /\ bought[s] = 0 /\ b.val[s] \in Nat
      BY <2>3, <2>4, <2>7, <2>10 DEF Solvent
    <3>. QED BY <2>1, <3>1
  <2>. QED BY <2>9, <2>10 DEF after
<1>. QED BY <1>1, <1>2

(***************************************************************************)
(* A day of the simulation                                                 *)
(***************************************************************************)
\* At every step a decision of the kill switch is the only one there is.
SwitchRules ==
  /\ step # "open" => pending = {}
  /\ step = "panic" => decision = {}
  /\ step = "decide" /\ (Trigger \/ kill.on) => decision = {}
  /\ kill.on /\ step = "open" => pending \in {{}, Liquidation("mdd_kill")}

\* What a kill leaves is sold at the next chance.
KillSells ==
  kill.on /\ ~config.opt.limits =>
    Held(book) = {} \/ (step = "open" /\ pending = Liquidation("mdd_kill"))

\* How long the overlay has been on, one day more before it is looked at than after.
Within(extra) ==
  /\ panic.st = "armed" => simDay <= panic.deadline + extra
  /\ Confirmed => simDay - panic.confirm < config.hold + extra

OverlayRules ==
  /\ kill.on \/ ~Panicking => panic.st = "idle"
  /\ step = "panic" => Within(1)
  /\ step = "open" \/ (step = "decide" /\ ~Trigger) => Within(0)

SimIInv == SimTypes /\ book.cash >= 0 /\ SwitchRules /\ KillSells /\ OverlayRules

LEMMA ConfigIs == ASSUME config \in Configs PROVE IsConfig(config) /\ IsOpt(config.opt)
<1>1. IsConfig(config)
  BY BacktestAssumption
<1>. QED BY <1>1 DEF IsConfig, IsOpt

LEMMA OnlyIs == \A x : Only({x}) = x
BY DEF Only

LEMMA EquityNat ==
  ASSUME IsFiniteSet(Universe), NEW b, Solvent(b, Universe)
  PROVE  SimEquity(b) \in Nat /\ (Held(b) # {} => SimEquity(b) > 0)
<1>1. b.cash \div Unit \in Nat
  BY Division DEF Solvent, Unit
<1>2. b.val \in [Universe -> Nat] /\ DOMAIN b.val = Universe
  BY DEF Solvent
<1>3. SumFunction(b.val) \in Nat
  BY <1>2, TotalNat
<1>4. ASSUME NEW s \in Held(b) PROVE SumFunction(b.val) > 0
  <2>1. s \in Universe /\ b.val[s] > 0 /\ \A t \in Universe : b.val[t] \in Nat
    BY <1>2 DEF Held
  <2>2. SumOver(b.val, Universe) = b.val[s] + SumOver(b.val, Universe \ {s})
    BY <2>1, SumRemove
  <2>3. SumOver(b.val, Universe \ {s}) \in Nat
    BY <2>1, SumNat, FS_Subset
  <2>4. SumFunction(b.val) = SumOver(b.val, Universe)
    BY <1>2, SumFunctionIs
  <2>. QED BY <2>1, <2>2, <2>3, <2>4
<1>. QED BY <1>1, <1>3, <1>4 DEF SimEquity

\* A fill makes no debt, and that of a liquidation leaves no position.
LEMMA FilledSolvent ==
  ASSUME config \in Configs, NEW b, Solvent(b, Universe), NEW d, IsDecision(d),
         NEW m, IsMarket(m, Universe)
  PROVE  /\ Solvent(Filled(b, d, m), Universe)
         /\ d.kind = "liquidate" /\ Unlimited(config.opt) => Held(Filled(b, d, m)) = {}
<1>. DEFINE targets == IF d.kind = "liquidate" THEN <<>>
                       ELSE [s \in {t \in DOMAIN d.targets : m.price[t] > 0} |-> d.targets[s]]
            liquidate == d.kind = "liquidate"
            rest == ApplyRebalance(b, targets, SimEquity(b), m, config.opt, liquidate)
<1>1. IsFiniteSet(Universe) /\ IsOpt(config.opt)
  BY ConfigIs DEF IsConfig, Universe
<1>2. SimEquity(b) \in Nat /\ (Held(b) # {} => SimEquity(b) > 0)
  BY <1>1, EquityNat
<1>3. Weighs(targets)
  <2>1. CASE d.kind = "liquidate"
    BY <2>1 DEF Weighs
  <2>2. CASE d.kind # "liquidate"
    BY <2>2 DEF Weighs, IsDecision
  <2>. QED BY <2>1, <2>2
<1>4. Filled(b, d, m) = b \/ Filled(b, d, m) = rest
  BY DEF Filled
<1>5. d.kind = "liquidate" => (IF Held(b) = {} THEN Filled(b, d, m) = b ELSE Filled(b, d, m) = rest)
  BY DEF Filled
<1>. HIDE DEF targets
<1>6. liquidate \in BOOLEAN
  OBVIOUS
<1>. HIDE DEF liquidate, rest
<1>7. /\ Solvent(rest, Universe)
      /\ liquidate /\ SimEquity(b) > 0 /\ Unlimited(config.opt) => \A s \in Universe : rest.val[s] = 0
  BY <1>1, <1>2, <1>3, <1>6, FillsSolvent DEF rest
<1>8. (\A s \in Universe : rest.val[s] = 0) => Held(rest) = {}
  BY DEF Held
<1>. QED BY <1>2, <1>4, <1>5, <1>7, <1>8 DEF liquidate

LEMMA MarketIs ==
  ASSUME config \in Configs, NEW now \in [Universe -> Nat], NEW before \in [Universe -> Nat]
  PROVE  IsMarket(MarketOf(now, before), Universe)
<1>1. config.adv \in Int
  BY ConfigIs DEF IsConfig
<1>. QED BY <1>1 DEF IsMarket, MarketOf

\* A day's prices make no debt and no position.
LEMMA MarkedSolvent ==
  ASSUME SimTypes, book.cash >= 0, simPrice' \in [Universe -> Nat]
  PROVE  Solvent(Marked(book), Universe) /\ (Held(book) = {} => Held(Marked(book)) = {})
<1>1. IsFiniteSet(Universe) /\ config.recovery \in Nat
  BY ConfigIs DEF IsConfig, Universe, SimTypes
<1>2. \A s \in Universe : /\ Value(book, s) \in Nat
                          /\ book.val[s] = 0 => Value(book, s) = 0
  <2>. SUFFICES ASSUME NEW s \in Universe
                PROVE  Value(book, s) \in Nat /\ (book.val[s] = 0 => Value(book, s) = 0)
    OBVIOUS
  <2>1. book.val[s] \in Nat /\ simPrice[s] \in Nat /\ simPrice'[s] \in Nat
    BY DEF SimTypes
  <2>2. book.val[s] * simPrice'[s] \in Nat /\ (book.val[s] = 0 => book.val[s] * simPrice'[s] = 0)
    BY <2>1
  <2>3. simPrice[s] > 0 => /\ (book.val[s] * simPrice'[s]) \div simPrice[s] \in Nat
                           /\ book.val[s] * simPrice'[s] = 0
                                => (book.val[s] * simPrice'[s]) \div simPrice[s] = 0
    <3>1. \A i, j \in Nat : j > 0 => i \div j \in Nat /\ (i = 0 => i \div j = 0)
      OBVIOUS
    <3>. QED BY <2>1, <2>2, <3>1
  <2>. QED BY <2>1, <2>2, <2>3 DEF Value
<1>3. Recovered(book) \in Nat
  <2>. DEFINE Gone == {t \in delisted : simPrice'[t] = 0}
              paid == [s \in Gone |-> book.val[s] * config.recovery]
  <2>1. Gone \subseteq Universe /\ IsFiniteSet(Gone)
    BY <1>1, FS_Subset DEF SimTypes
  <2>2. \A s \in Gone : book.val[s] \in Nat
    BY <2>1 DEF SimTypes
  <2>3. paid \in [Gone -> Nat]
    BY <1>1, <2>2
  <2>4. Recovered(book) = SumFunction(paid)
    BY DEF Recovered
  <2>. HIDE DEF paid, Gone
  <2>. QED BY <2>1, <2>3, <2>4, TotalNat
<1>4. book.cash \in Nat
  BY DEF SimTypes
<1>5. Solvent(Marked(book), Universe)
  BY <1>2, <1>3, <1>4 DEF Solvent, Marked
<1>6. ASSUME Held(book) = {} PROVE Held(Marked(book)) = {}
  <2>1. \A s \in Universe : book.val[s] = 0
    BY <1>6 DEF Held, SimTypes
  <2>2. \A s \in Universe : Marked(book).val[s] = 0
    BY <1>2, <2>1 DEF Marked
  <2>. QED BY <2>2 DEF Held
<1>. QED BY <1>5, <1>6

\* The peak of a day does not turn the switch on.
LEMMA PeakIs ==
  ASSUME kill \in Kills, NEW equity \in Nat
  PROVE  Peak(equity) \in Kills /\ (Peak(equity).on => kill.on)
<1>1. CASE CooldownOver
  <2>1. Peak(equity) = [hwm |-> equity, on |-> FALSE, since |-> 0]
    BY <1>1 DEF Peak
  <2>2. Peak(equity) \in Kills
    BY <2>1 DEF Kills
  <2>. QED BY <2>1, <2>2
<1>2. CASE ~CooldownOver
  <2>1. PICK p \in Int : Peak(equity) = [kill EXCEPT !.hwm = p]
    <3>1. kill.hwm \in Int
      BY DEF Kills
    <3>2. AtLeast(equity, kill.hwm) \in Int
      BY <3>1 DEF AtLeast
    <3>. QED BY <1>2, <3>1, <3>2 DEF Peak
  <2>2. Peak(equity) \in Kills
    BY <2>1 DEF Kills
  <2>3. Peak(equity).on = kill.on
    BY <2>1 DEF Kills
  <2>. QED BY <2>2, <2>3
<1>. QED BY <1>1, <1>2

\* What may be decided.
LEMMA LiquidationIs == \A reason : IsChoice(Liquidation(reason)) /\ Only(Liquidation(reason)).kind = "liquidate"
<1>. SUFFICES ASSUME NEW reason PROVE IsChoice(Liquidation(reason)) /\ Only(Liquidation(reason)).kind = "liquidate"
  OBVIOUS
<1>. DEFINE x == [kind |-> "liquidate", targets |-> <<>>, reason |-> reason]
<1>1. IsDecision(x)
  BY DEF IsDecision
<1>2. Liquidation(reason) = {x}
  BY DEF Liquidation
<1>. HIDE DEF x
<1>3. Only({x}) = x
  BY OnlyIs
<1>4. x.kind = "liquidate"
  BY DEF x
<1>. QED BY <1>1, <1>2, <1>3, <1>4 DEF IsChoice

LEMMA RebalancingIs ==
  ASSUME config \in Configs, NEW exposure \in Int, NEW reason, NEW d \in Rebalancing(exposure, reason)
  PROVE  IsChoice(d)
<1>1. PICK T \in SUBSET Universe :
        d = {[kind |-> "rebalance", targets |-> ScaleTargets(Equal(T), exposure), reason |-> reason]}
  BY DEF Rebalancing, Selections
<1>2. IsFiniteSet(T)
  BY FS_Subset, ConfigIs DEF IsConfig, Universe
<1>3. \A s \in T : Unit \div Cardinality(T) \in Nat
  <2>. SUFFICES ASSUME NEW s \in T PROVE Unit \div Cardinality(T) \in Nat
    OBVIOUS
  <2>1. Cardinality(T) \in Nat /\ Cardinality(T) # 0
    BY <1>2, FS_CardinalityType, FS_EmptySet
  <2>. QED BY <2>1, Division DEF Unit
<1>. DEFINE targets == ScaleTargets(Equal(T), exposure)
            x == [kind |-> "rebalance", targets |-> targets, reason |-> reason]
<1>4. DOMAIN targets = T /\ \A s \in T : targets[s] \in Nat
  <2>1. DOMAIN Equal(T) = T /\ \A s \in T : Equal(T)[s] \in Nat
    BY <1>3 DEF Equal
  <2>2. CASE Equal(T) = <<>> \/ exposure >= Unit
    BY <2>1, <2>2 DEF ScaleTargets
  <2>3. CASE ~(Equal(T) = <<>> \/ exposure >= Unit)
    <3>1. targets = [s \in T |-> (Equal(T)[s] * AtLeast(0, exposure)) \div Unit]
      BY <2>1, <2>3 DEF ScaleTargets
    <3>2. AtLeast(0, exposure) \in Nat
      BY DEF AtLeast
    <3>3. \A i, j \in Nat : (i * j) \div Unit \in Nat
      BY DEF Unit
    <3>. HIDE DEF targets
    <3>. QED BY <2>1, <3>1, <3>2, <3>3
  <2>. QED BY <2>2, <2>3
<1>. HIDE DEF targets
<1>5. IsDecision(x)
  BY <1>4 DEF IsDecision
<1>6. d = {x}
  BY <1>1 DEF targets
<1>. HIDE DEF x
<1>. QED BY <1>5, <1>6, OnlyIs DEF IsChoice

\* The initial states of the simulation satisfy the invariant.
LEMMA InitSimIInv == SimInit => SimIInv
<1>. SUFFICES ASSUME SimInit PROVE SimIInv
  OBVIOUS
<1>. USE DEF SimInit
<1>1. IsConfig(config)
  BY ConfigIs
<1>2. 0 \in 0 .. config.days
  BY <1>1 DEF IsConfig
<1>3. book.val \in [Universe -> Nat] /\ book.cash \in Nat
  BY BacktestAssumption DEF Unit
<1>4. kill \in Kills /\ ~kill.on
  BY BacktestAssumption DEF Kills
<1>5. panic \in Overlays /\ panic.st = "idle"
  BY DEF Idle, Overlays
<1>6. SimTypes
  <2>1. simPrice \in [Universe -> Nat] /\ prev \in [Universe -> Nat] /\ delisted \subseteq Universe
    OBVIOUS
  <2>2. {simRiskOff, wasRiskOff, rearmed} \subseteq BOOLEAN
    OBVIOUS
  <2>3. simDay \in 0 .. config.days /\ step \in {"open", "panic", "decide"} /\ config \in Configs
    BY <1>2
  <2>4. IsChoice(pending) /\ IsChoice(decision)
    BY DEF IsChoice
  <2>5. index \in Nat /\ prevIndex \in Nat /\ onState \in {"unset", "on", "off"}
    OBVIOUS
  <2>. QED BY <1>3, <1>4, <1>5, <2>1, <2>2, <2>3, <2>4, <2>5 DEF SimTypes
<1>7. OverlayRules
  BY <1>5 DEF OverlayRules, Within, Confirmed
<1>. QED BY <1>3, <1>4, <1>6, <1>7 DEF SimIInv, SwitchRules, KillSells

\* The switch, and the reason to turn it on, while the overlay is looked at.
LEMMA ToDecideKeeps ==
  ASSUME SimIInv, step = "panic", NEW d, NEW p \in Overlays, ToDecide(d, p), IsChoice(d),
         Trigger \/ kill.on => d = {},
         kill.on \/ ~Panicking => p.st = "idle",
         ~Trigger => /\ p.st = "armed" => simDay <= p.deadline
                     /\ p.st \in {"half", "full", "event"} => simDay - p.confirm < config.hold
  PROVE  SimIInv'
<1>. USE DEF SimIInv
<1>1. /\ UNCHANGED <<config, simDay, market, onState, simRiskOff, wasRiskOff, book, pending, kill, rearmed>>
      /\ step' = "decide" /\ decision' = d /\ panic' = p
  BY DEF ToDecide
<1>2. UNCHANGED <<simPrice, prev, delisted, index, prevIndex, level>>
  BY <1>1 DEF market
<1>3. Universe' = Universe /\ (Panicking <=> Panicking')
  BY <1>1 DEF Universe, Panicking
<1>4. Trigger <=> Trigger'
  BY <1>1 DEF Trigger, SimEquity
<1>5. IsChoice(pending)' /\ IsChoice(decision)'
  BY <1>1, <1>3 DEF SimTypes, IsChoice, IsDecision
<1>6. SimTypes'
  BY <1>1, <1>2, <1>3, <1>5 DEF SimTypes
<1>7. SwitchRules'
  BY <1>1, <1>4 DEF SwitchRules
<1>8. KillSells'
  <2>1. Held(book)' = Held(book)
    BY <1>1, <1>3 DEF Held
  <2>. QED BY <1>1, <2>1 DEF KillSells
<1>9. OverlayRules'
  <2>1. (kill.on \/ ~Panicking)' => panic'.st = "idle"
    BY <1>1, <1>3
  <2>2. ~Trigger' => Within(0)'
    <3>1. p.deadline \in Nat /\ simDay \in Int /\ config.hold \in Nat
      BY ConfigIs DEF IsConfig, SimTypes, Overlays
    <3>. QED BY <1>1, <1>4, <3>1 DEF Within, Confirmed
  <2>. QED BY <1>1, <2>1, <2>2 DEF OverlayRules
<1>. QED BY <1>1, <1>6, <1>7, <1>8, <1>9

\* Looking at the overlay keeps the invariant.
LEMMA PanicKeeps == SimIInv /\ Panic => SimIInv'
<1>. SUFFICES ASSUME SimIInv, Panic PROVE SimIInv'
  OBVIOUS
<1>1. step = "panic"
  BY DEF Panic, NoOverlay, Arm, ArmTimeout, Confirm, StillArmed, ExitOverlay, ScaleIn, Hold, Watching
<1>2. config \in Configs /\ IsConfig(config) /\ panic \in Overlays /\ simDay \in Nat
  BY ConfigIs DEF SimIInv, SimTypes, IsConfig
<1>3. kill.on \/ ~Panicking => panic.st = "idle"
  BY DEF SimIInv, OverlayRules
<1>4. IsChoice({})
  BY DEF IsChoice
<1>5. Idle \in Overlays /\ Idle.st = "idle"
  BY DEF Idle, Overlays
<1>6. Watching => ~Trigger /\ ~kill.on /\ Panicking
  BY DEF Watching
<1>7. CASE NoOverlay
  <2>1. ToDecide({}, panic) /\ ~Watching
    BY <1>7 DEF NoOverlay
  <2>2. ~Trigger => panic.st = "idle"
    BY <1>1, <1>3, <2>1 DEF Watching
  <2>. QED BY <1>1, <1>2, <1>3, <1>4, <2>1, <2>2, ToDecideKeeps
<1>8. CASE Arm
  <2>1. PICK p : ToDecide({}, p) /\ (p = panic \/ p = [Idle EXCEPT
                   !.st = "armed", !.deadline = simDay + config.armWindow, !.close = index,
                   !.low = IndexLow(index), !.drop = IF prevIndex > 0 THEN prevIndex - index ELSE 0])
    BY <1>8 DEF Arm
  <2>2. Watching /\ panic.st = "idle"
    BY <1>8 DEF Arm
  <2>3. p \in Overlays /\ (p.st = "armed" => simDay <= p.deadline) /\ p.st \in {"idle", "armed"}
    <3>1. index \in Nat /\ prevIndex \in Nat /\ config.armWindow \in Nat
      BY <1>2 DEF IsConfig, SimIInv, SimTypes
    <3>2. IndexLow(index) \in Int /\ (IF prevIndex > 0 THEN prevIndex - index ELSE 0) \in Int
          /\ simDay + config.armWindow \in Nat /\ simDay <= simDay + config.armWindow
      BY <1>2, <3>1 DEF IndexLow
    <3>3. CASE p = panic
      BY <1>2, <2>2, <3>3
    <3>4. CASE p # panic
      <4>1. PICK low \in Int, drop \in Int, deadline \in Nat :
              /\ p = [Idle EXCEPT !.st = "armed", !.deadline = deadline, !.close = index,
                                  !.low = low, !.drop = drop]
              /\ simDay <= deadline
        BY <2>1, <3>2, <3>4
      <4>2. p = [st |-> "armed", deadline |-> deadline, close |-> index, low |-> low,
                 drop |-> drop, confirm |-> 0]
        BY <4>1 DEF Idle
      <4>. QED BY <3>1, <4>1, <4>2 DEF Overlays
    <3>. QED BY <3>3, <3>4
  <2>. QED BY <1>1, <1>4, <1>6, <2>1, <2>2, <2>3, ToDecideKeeps
<1>9. CASE ArmTimeout
  <2>1. ToDecide({}, Idle)
    BY <1>9 DEF ArmTimeout
  <2>. QED BY <1>1, <1>4, <1>5, <2>1, ToDecideKeeps
<1>10. CASE Confirm
  <2>1. ConfirmExposure \in Int
    <3>1. config.base \in Int /\ config.panicExposure \in Int /\ config.scaleIn \in Int
      BY <1>2 DEF IsConfig
    <3>2. config.scaleIn * (config.panicExposure - config.base) \in Int
      BY <3>1
    <3>3. (config.scaleIn * (config.panicExposure - config.base)) \div Unit \in Int
      BY <3>2, Division DEF Unit
    <3>. QED BY <3>1, <3>3 DEF ConfirmExposure
  <2>2. PICK d \in Rebalancing(ConfirmExposure, "panic_confirm") :
          \E st \in {"half", "event"} : ToDecide(d, [panic EXCEPT !.st = st, !.confirm = simDay])
    BY <1>10 DEF Confirm
  <2>3. PICK st \in {"half", "event"} : ToDecide(d, [panic EXCEPT !.st = st, !.confirm = simDay])
    BY <2>2
  <2>4. Watching
    BY <1>10 DEF Confirm
  <2>5. IsChoice(d)
    BY <1>2, <2>1, <2>2, RebalancingIs
  <2>. DEFINE p == [panic EXCEPT !.st = st, !.confirm = simDay]
  <2>6. p \in Overlays /\ p.st = st /\ p.confirm = simDay
    BY <1>2 DEF Overlays
  <2>7. simDay - simDay < config.hold
    BY <1>2 DEF IsConfig
  <2>. HIDE DEF p
  <2>8. ToDecide(d, p)
    BY <2>3 DEF p
  <2>. QED BY <1>1, <1>6, <2>4, <2>5, <2>6, <2>7, <2>8, ToDecideKeeps
<1>11. CASE StillArmed
  <2>1. ToDecide({}, panic) /\ Watching /\ panic.st = "armed" /\ simDay <= panic.deadline
    BY <1>11 DEF StillArmed
  <2>. QED BY <1>1, <1>2, <1>4, <1>6, <2>1, ToDecideKeeps
<1>12. CASE ExitOverlay
  <2>1. config.base \in Int
    BY <1>2 DEF IsConfig
  <2>2. PICK d \in {Liquidation("panic_exit")} \cup Rebalancing(config.base, "panic_exit") :
          ToDecide(d, Idle)
    BY <1>12 DEF ExitOverlay
  <2>3. IsChoice(d)
    BY <1>2, <2>1, <2>2, RebalancingIs, LiquidationIs
  <2>4. Watching
    BY <1>12 DEF ExitOverlay
  <2>. QED BY <1>1, <1>5, <1>6, <2>2, <2>3, <2>4, ToDecideKeeps
<1>13. CASE ScaleIn
  <2>1. config.panicExposure \in Int
    BY <1>2 DEF IsConfig
  <2>2. PICK d \in Rebalancing(config.panicExposure, "panic_scale_full") :
          ToDecide(d, [panic EXCEPT !.st = "full"])
    BY <1>13 DEF ScaleIn
  <2>3. IsChoice(d)
    BY <1>2, <2>1, <2>2, RebalancingIs
  <2>. DEFINE p == [panic EXCEPT !.st = "full"]
  <2>4. p \in Overlays /\ p.st = "full" /\ p.confirm = panic.confirm
    BY <1>2 DEF Overlays
  <2>5. simDay - panic.confirm < config.hold /\ Watching
    <3>1. simDay \in Int /\ panic.confirm \in Int /\ config.hold \in Int
      BY <1>2 DEF IsConfig, Overlays
    <3>. QED BY <1>13, <3>1 DEF ScaleIn, Leaves, Overstayed
  <2>. HIDE DEF p
  <2>6. ToDecide(d, p)
    BY <2>2 DEF p
  <2>. QED BY <1>1, <1>6, <2>3, <2>4, <2>5, <2>6, ToDecideKeeps
<1>14. CASE Hold
  <2>1. ToDecide({}, panic) /\ Watching /\ Confirmed
    BY <1>14 DEF Hold
  <2>2. simDay - panic.confirm < config.hold
    <3>1. simDay \in Int /\ panic.confirm \in Int /\ config.hold \in Int
      BY <1>2 DEF IsConfig, Overlays
    <3>. QED BY <1>14, <3>1 DEF Hold, Leaves, Overstayed
  <2>3. panic.st # "armed"
    BY <2>1 DEF Confirmed
  <2>. QED BY <1>1, <1>2, <1>4, <1>6, <2>1, <2>2, <2>3, ToDecideKeeps
<1>. QED BY <1>7, <1>8, <1>9, <1>10, <1>11, <1>12, <1>13, <1>14 DEF Panic

\* What becomes of the day's decision: it waits, or it is filled.
LEMMA ConcludedIs ==
  ASSUME SimIInv, step = "decide", NEW d, IsChoice(d), Concluded(d)
  PROVE  /\ Solvent(book, Universe)'
         /\ pending' \in {{}, d}
         /\ (d = {} \/ config.defer) => book' = book /\ pending' = d
         /\ ~(d = {} \/ config.defer) => pending' = {}
         /\ d # {} /\ ~config.defer /\ Only(d).kind = "liquidate" /\ ~config.opt.limits => Held(book)' = {}
<1>. USE DEF SimIInv
<1>1. config' = config /\ Universe' = Universe
  BY DEF Concluded, Universe
<1>2. Solvent(book, Universe) /\ config \in Configs
  BY DEF SimTypes, Solvent
<1>3. CASE d = {} \/ config.defer
  <2>1. pending' = d /\ book' = book
    BY <1>3 DEF Concluded
  <2>2. Solvent(book, Universe)'
    BY <1>1, <1>2, <2>1
  <2>. QED BY <1>3, <2>1, <2>2
<1>4. CASE ~(d = {} \/ config.defer)
  <2>. DEFINE after == Filled(book, Only(d), MarketOf(simPrice, prev))
  <2>1. pending' = {} /\ book' = after
    BY <1>4 DEF Concluded
  <2>2. IsMarket(MarketOf(simPrice, prev), Universe)
    BY <1>2, MarketIs DEF SimTypes
  <2>3. IsDecision(Only(d))
    BY <1>4 DEF IsChoice
  <2>4. /\ Solvent(after, Universe)
        /\ Only(d).kind = "liquidate" /\ Unlimited(config.opt) => Held(after) = {}
    BY <1>2, <2>2, <2>3, FilledSolvent
  <2>. HIDE DEF after
  <2>5. Solvent(book, Universe)'
    BY <1>1, <2>1, <2>4
  <2>6. Held(book)' = Held(after)
    BY <1>1, <2>1 DEF Held
  <2>. QED BY <1>4, <2>1, <2>4, <2>5, <2>6 DEF Unlimited
<1>. QED BY <1>3, <1>4

\* A decision keeps the invariant if the kill switch, once on, leaves it no choice.
LEMMA ConcludedKeeps ==
  ASSUME SimIInv, step = "decide", NEW d, IsChoice(d), Concluded(d),
         kill' \in Kills, panic' \in Overlays,
         kill'.on \/ ~Panicking => panic'.st = "idle",
         panic'.st = "armed" => simDay <= panic'.deadline,
         panic'.st \in {"half", "full", "event"} => simDay - panic'.confirm < config.hold,
         kill'.on => d \in {{}, Liquidation("mdd_kill")},
         kill'.on /\ ~config.opt.limits /\ d = {} => Held(book) = {}
  PROVE  SimIInv'
<1>. USE DEF SimIInv
<1>1. /\ UNCHANGED <<config, simDay, market, onState, simRiskOff, rearmed, decision>>
      /\ step' = "open" /\ wasRiskOff' = simRiskOff
  BY DEF Concluded
<1>2. UNCHANGED <<simPrice, prev, delisted, index, prevIndex, level>>
  BY <1>1 DEF market
<1>3. Universe' = Universe /\ (Panicking <=> Panicking')
  BY <1>1 DEF Universe, Panicking
<1>4. /\ Solvent(book, Universe)'
      /\ pending' \in {{}, d}
      /\ (d = {} \/ config.defer) => book' = book /\ pending' = d
      /\ ~(d = {} \/ config.defer) => pending' = {}
      /\ d # {} /\ ~config.defer /\ Only(d).kind = "liquidate" /\ ~config.opt.limits => Held(book)' = {}
  BY ConcludedIs
<1>5. IsChoice(pending)' /\ IsChoice(decision)'
  BY <1>1, <1>3, <1>4 DEF SimTypes, IsChoice, IsDecision
<1>6. SimTypes'
  <2>1. book'.val \in [Universe' -> Nat] /\ book'.cash \in Int
    BY <1>4 DEF Solvent
  <2>2. {simRiskOff, wasRiskOff, rearmed}' \subseteq BOOLEAN
    BY <1>1 DEF SimTypes
  <2>. QED BY <1>1, <1>2, <1>3, <1>5, <2>1, <2>2 DEF SimTypes
<1>7. (book.cash >= 0)'
  BY <1>4 DEF Solvent
<1>8. SwitchRules'
  BY <1>1, <1>4 DEF SwitchRules
<1>9. KillSells'
  <2>. SUFFICES ASSUME kill'.on, ~config'.opt.limits
                PROVE  Held(book)' = {} \/ pending' = Liquidation("mdd_kill")
    BY <1>1 DEF KillSells, Liquidation
  <2>1. ~config.opt.limits
    BY <1>1
  <2>2. CASE d = {}
    <3>1. book' = book /\ Held(book) = {}
      BY <1>4, <2>1, <2>2
    <3>. QED BY <1>3, <3>1 DEF Held
  <2>3. CASE d # {}
    <3>1. d = Liquidation("mdd_kill") /\ Only(d).kind = "liquidate"
      BY <2>3, LiquidationIs
    <3>. QED BY <1>4, <2>1, <2>3, <3>1
  <2>. QED BY <2>2, <2>3
<1>10. OverlayRules'
  <2>1. panic'.deadline \in Nat /\ simDay \in Int /\ config.hold \in Nat
    BY ConfigIs DEF IsConfig, SimTypes, Overlays
  <2>2. Within(0)'
    BY <1>1, <2>1 DEF Within, Confirmed
  <2>3. (kill.on \/ ~Panicking)' => panic'.st = "idle"
    BY <1>3
  <2>. QED BY <1>1, <2>2, <2>3 DEF OverlayRules
<1>. QED BY <1>6, <1>7, <1>8, <1>9, <1>10

\* The decisions of a day keep the invariant.
LEMMA DecideKeeps == SimIInv /\ SimDecide => SimIInv'
<1>. SUFFICES ASSUME SimIInv, SimDecide PROVE SimIInv'
  OBVIOUS
<1>1. step = "decide"
  BY DEF SimDecide, Kill, OverlayDecides, Suppressed, RegimeExit, Scheduled, Quiet
<1>2. config \in Configs /\ IsConfig(config) /\ panic \in Overlays /\ kill \in Kills /\ simDay \in Nat
  BY ConfigIs DEF SimIInv, SimTypes, IsConfig
<1>3. kill.on \/ ~Panicking => panic.st = "idle"
  BY DEF SimIInv, OverlayRules
<1>4. IsChoice({}) /\ IsChoice(decision)
  BY DEF IsChoice, SimIInv, SimTypes
<1>5. Idle \in Overlays /\ Idle.st = "idle"
  BY DEF Idle, Overlays
<1>6. ASSUME ~Trigger
      PROVE  /\ panic.st = "armed" => simDay <= panic.deadline
             /\ panic.st \in {"half", "full", "event"} => simDay - panic.confirm < config.hold
  <2>1. Within(0)
    BY <1>1, <1>6 DEF SimIInv, OverlayRules
  <2>2. panic.deadline \in Nat /\ config.hold \in Nat
    BY <1>2 DEF IsConfig, Overlays
  <2>. QED BY <2>1, <2>2 DEF Within, Confirmed
<1>7. kill.on /\ ~config.opt.limits => Held(book) = {}
  BY <1>1 DEF SimIInv, KillSells
<1>8. CASE Kill
  <2>1. decision = {}
    BY <1>1, <1>8 DEF Kill, SimIInv, SwitchRules
  <2>2. PICK d : /\ Concluded(d)
                 /\ d = IF Held(book) # {} THEN Liquidation("mdd_kill") ELSE {}
    BY <1>8, <2>1 DEF Kill
  <2>3. IsChoice(d) /\ d \in {{}, Liquidation("mdd_kill")}
    BY <1>4, <2>2, LiquidationIs
  <2>4. d = {} => Held(book) = {}
    BY <2>2 DEF Liquidation
  <2>5. kill' = [kill EXCEPT !.on = TRUE, !.since = simDay]
    BY <1>8 DEF Kill
  <2>6. kill' \in Kills
    BY <1>2, <2>5 DEF Kills
  <2>7. panic' \in Overlays /\ panic'.st = "idle"
    BY <1>2, <1>3, <1>5, <1>8 DEF Kill
  <2>. QED BY <1>1, <2>2, <2>3, <2>4, <2>6, <2>7, ConcludedKeeps
<1>9. CASE OverlayDecides
  <2>1. ~Trigger /\ decision # {} /\ Concluded(decision) /\ kill' = kill /\ panic' = panic
    BY <1>9 DEF OverlayDecides
  <2>2. ~kill.on
    BY <1>1, <2>1 DEF SimIInv, SwitchRules
  <2>. QED BY <1>1, <1>2, <1>3, <1>4, <1>6, <2>1, <2>2, ConcludedKeeps
<1>10. CASE Suppressed
  <2>1. ~Trigger /\ Concluded({}) /\ kill' = kill /\ panic' = panic
    BY <1>10 DEF Suppressed, Quiet
  <2>. QED BY <1>1, <1>2, <1>3, <1>4, <1>6, <1>7, <2>1, ConcludedKeeps
<1>11. CASE RegimeExit
  <2>1. ~Trigger /\ ~kill.on /\ kill' = kill /\ panic' = panic
    BY <1>11 DEF RegimeExit, Quiet
  <2>2. PICK d \in {{}, Liquidation("regime_exit")} : Concluded(d)
    BY <1>11 DEF RegimeExit
  <2>3. IsChoice(d)
    BY <1>4, LiquidationIs
  <2>. QED BY <1>1, <1>2, <1>3, <1>6, <2>1, <2>2, <2>3, ConcludedKeeps
<1>12. CASE Scheduled
  <2>1. ~Trigger /\ ~kill.on /\ kill' = kill /\ panic' = panic
    BY <1>12 DEF Scheduled, Quiet
  <2>. DEFINE exposure == IF Panicking THEN config.base ELSE Unit
  <2>2. exposure \in Int
    BY <1>2 DEF IsConfig, Unit
  <2>. HIDE DEF exposure
  <2>3. PICK d \in {{}} \cup Rebalancing(exposure, "rebalance") : Concluded(d)
    BY <1>12 DEF Scheduled, exposure
  <2>4. IsChoice(d)
    BY <1>2, <1>4, <2>2, RebalancingIs
  <2>. QED BY <1>1, <1>2, <1>3, <1>6, <2>1, <2>3, <2>4, ConcludedKeeps
<1>. QED BY <1>8, <1>9, <1>10, <1>11, <1>12 DEF SimDecide

\* The market's move and the fill keep the invariant.
LEMMA OpenKeeps == SimIInv /\ SimOpen => SimIInv'
<1>. SUFFICES ASSUME SimIInv, SimOpen PROVE SimIInv'
  OBVIOUS
<1>. USE DEF SimIInv
<1>1. /\ step = "open" /\ simDay < config.days /\ simDay' = simDay + 1 /\ step' = "panic"
      /\ prev' = simPrice /\ prevIndex' = index /\ pending' = {} /\ decision' = {}
      /\ UNCHANGED <<config, delisted, wasRiskOff, panic>>
  BY DEF SimOpen
<1>2. Universe' = Universe /\ (Panicking <=> Panicking')
  BY <1>1 DEF Universe, Panicking
<1>3. config \in Configs /\ IsConfig(config)
  BY ConfigIs DEF SimTypes
<1>4. simPrice' \in [Universe -> Nat]
  <2>1. simPrice' \in [Universe -> SimPrices \cup {0}]
    BY DEF SimOpen
  <2>2. SimPrices \cup {0} \subseteq Nat
    BY BacktestAssumption
  <2>. HIDE DEF Universe
  <2>. QED BY <2>1, <2>2
<1>5. Solvent(Marked(book), Universe) /\ (Held(book) = {} => Held(Marked(book)) = {})
  BY <1>4, MarkedSolvent
<1>6. /\ Solvent(book', Universe)
      /\ pending = {} /\ Held(book) = {} => Held(book') = {}
      /\ pending = Liquidation("mdd_kill") /\ ~config.opt.limits => Held(book') = {}
  <2>1. CASE pending = {}
    <3>1. book' = Marked(book)
      BY <2>1 DEF SimOpen
    <3>2. pending # Liquidation("mdd_kill")
      BY <2>1 DEF Liquidation
    <3>. QED BY <1>5, <3>1, <3>2
  <2>2. CASE pending # {}
    <3>. DEFINE m == MarketOf(simPrice', simPrice)
                after == Filled(Marked(book), Only(pending), m)
    <3>1. book' = after
      BY <2>2 DEF SimOpen
    <3>2. IsMarket(m, Universe)
      BY <1>3, <1>4, MarketIs DEF SimTypes
    <3>3. IsDecision(Only(pending))
      BY <2>2 DEF SimTypes, IsChoice
    <3>. HIDE DEF m
    <3>4. /\ Solvent(after, Universe)
          /\ Only(pending).kind = "liquidate" /\ Unlimited(config.opt) => Held(after) = {}
      BY <1>3, <1>5, <3>2, <3>3, FilledSolvent
    <3>5. pending = Liquidation("mdd_kill") => Only(pending).kind = "liquidate"
      BY LiquidationIs
    <3>. HIDE DEF after
    <3>. QED BY <2>2, <3>1, <3>4, <3>5 DEF Unlimited
  <2>. QED BY <2>1, <2>2
<1>7. kill' \in Kills /\ (kill'.on => kill.on)
  <2>1. IsFiniteSet(Universe)
    BY <1>3 DEF IsConfig, Universe
  <2>2. SimEquity(book') \in Nat
    BY <1>6, <2>1, EquityNat
  <2>3. kill' = Peak(SimEquity(book'))
    BY DEF SimOpen
  <2>. QED BY <2>2, <2>3, PeakIs DEF SimTypes
<1>8. SimTypes'
  <2>1. simDay' \in 0 .. config'.days
    <3>1. config.days \in Nat
      BY <1>3 DEF IsConfig
    <3>. QED BY <1>1, <3>1 DEF SimTypes
  <2>2. index' \in Nat
    BY BacktestAssumption DEF SimOpen, SimTypes
  <2>3. onState' \in {"unset", "on", "off"}
    BY DEF SimOpen, RegimeUpdated, SimTypes
  <2>4. {simRiskOff, wasRiskOff, rearmed}' \subseteq BOOLEAN
    <3>1. simRiskOff' \in BOOLEAN
      BY DEF SimOpen
    <3>2. rearmed' \in BOOLEAN
      BY DEF SimOpen, CooldownOver
    <3>3. wasRiskOff' \in BOOLEAN
      BY <1>1 DEF SimTypes
    <3>. QED BY <3>1, <3>2, <3>3
  <2>5. IsChoice(pending)' /\ IsChoice(decision)'
    BY <1>1 DEF IsChoice
  <2>6. book'.val \in [Universe' -> Nat] /\ book'.cash \in Int
    BY <1>2, <1>6 DEF Solvent
  <2>. QED BY <1>1, <1>2, <1>4, <1>7, <2>1, <2>2, <2>3, <2>4, <2>5, <2>6 DEF SimTypes
<1>9. (book.cash >= 0)'
  BY <1>6 DEF Solvent
<1>10. SwitchRules'
  BY <1>1 DEF SwitchRules
<1>11. KillSells'
  <2>. SUFFICES ASSUME kill'.on, ~config.opt.limits PROVE Held(book') = {}
    BY <1>1, <1>2 DEF KillSells, Held
  <2>1. kill.on
    BY <1>7
  <2>2. pending \in {{}, Liquidation("mdd_kill")}
    BY <1>1, <2>1 DEF SwitchRules
  <2>3. Held(book) = {} \/ pending = Liquidation("mdd_kill")
    BY <2>1 DEF KillSells
  <2>. QED BY <1>6, <2>2, <2>3
<1>12. OverlayRules'
  <2>1. (kill.on \/ ~Panicking)' => panic'.st = "idle"
    BY <1>1, <1>2, <1>7 DEF OverlayRules
  <2>2. Within(1)'
    <3>1. Within(0)
      BY <1>1 DEF OverlayRules
    <3>2. panic.deadline \in Nat /\ panic.confirm \in Nat /\ simDay \in Int /\ config.hold \in Nat
      BY <1>3 DEF IsConfig, SimTypes, Overlays
    <3>. QED BY <1>1, <3>1, <3>2 DEF Within, Confirmed
  <2>. QED BY <1>1, <2>1, <2>2 DEF OverlayRules
<1>. QED BY <1>8, <1>9, <1>10, <1>11, <1>12

\* Every step of the simulation preserves the invariant.
LEMMA StepSimIInv == SimIInv /\ [SimNext]_simVars => SimIInv'
<1>. SUFFICES ASSUME SimIInv, [SimNext]_simVars PROVE SimIInv'
  OBVIOUS
<1>1. CASE UNCHANGED simVars
  BY <1>1 DEF simVars, market, SimIInv, SimTypes, SwitchRules, KillSells, OverlayRules, Within,
     Confirmed, Universe, Panicking, Trigger, SimEquity, Held, IsChoice, IsDecision, Liquidation
<1>. QED BY <1>1, OpenKeeps, PanicKeeps, DecideKeeps DEF SimNext, Finished

\* No simulated purchase is paid with money there is not, for any prices, costs and
\* strategies (_apply_rebalance).
THEOREM CashSuffices == SimSpec => []NeverOverspends
<1>1. SimIInv => NeverOverspends
  BY DEF SimIInv, NeverOverspends
<1>. QED BY InitSimIInv, StepSimIInv, <1>1, PTL DEF SimSpec

\* In the simulation too the kill switch outranks the overlay, the overlay the rest, and
\* neither outstays its time.
THEOREM PrecedenceKept == SimSpec => []PrecedenceIsKept
<1>1. SimIInv => PrecedenceIsKept
  <2>. SUFFICES ASSUME SimIInv PROVE PrecedenceIsKept
    OBVIOUS
  <2>1. CashIsRefuge
    BY DEF SimIInv, KillSells, CashIsRefuge
  <2>2. config.hold \in Int /\ simDay \in Int /\ panic.deadline \in Int /\ panic.confirm \in Int
    BY ConfigIs DEF IsConfig, SimIInv, SimTypes, Overlays
  <2>3. OverlayIsTemporary
    BY <2>2 DEF SimIInv, OverlayRules, Within, OverlayIsTemporary
  <2>. QED BY <2>1, <2>3 DEF PrecedenceIsKept
<1>. QED BY InitSimIInv, StepSimIInv, <1>1, PTL DEF SimSpec

(***************************************************************************)
(* The orders of both (PortfolioCases)                                     *)
(***************************************************************************)
LEMMA Cancel ==
  ASSUME NEW i \in Int, NEW j \in Int, NEW p \in Nat \ {0}
  PROVE  (i * p <= j * p => i <= j) /\ (i * p < j * p => i < j)
<1>1. ASSUME i > j PROVE i * p > j * p
  <2>1. PICK k \in Nat \ {0} : i = j + k
    <3>1. i - j \in Nat \ {0} /\ i = j + (i - j)
      BY <1>1
    <3>. QED BY <3>1
  <2>2. (j + k) * p = j * p + k * p
    OBVIOUS
  <2>3. k * p > 0
    OBVIOUS
  <2>. QED BY <2>1, <2>2, <2>3
<1>2. i = j => i * p = j * p
  OBVIOUS
<1>. QED BY <1>1, <1>2

\* The quotient is the only number that fits.
LEMMA QuotientIs ==
  ASSUME NEW i \in Int, NEW p \in Nat \ {0}, NEW k \in Int, k * p <= i, i < k * p + p
  PROVE  i \div p = k
<1>. DEFINE q == i \div p
<1>1. q \in Int /\ q * p <= i /\ i < q * p + p
  BY Division
<1>. HIDE DEF q
<1>2. q * p < (k + 1) * p /\ k * p < (q + 1) * p
  <2>1. (k + 1) * p = k * p + p /\ (q + 1) * p = q * p + p
    BY <1>1
  <2>2. k * p \in Int /\ q * p \in Int
    BY <1>1
  <2>. QED BY <1>1, <2>1, <2>2
<1>3. q < k + 1 /\ k < q + 1
  <2>1. k + 1 \in Int /\ q + 1 \in Int
    BY <1>1
  <2>. QED BY <1>1, <1>2, <2>1, Cancel
<1>4. q = k
  BY <1>1, <1>3
<1>. QED BY <1>4 DEF q

\* Rounding down twice is rounding down once.
LEMMA DivisionTwice ==
  ASSUME NEW n \in Nat, NEW u \in Nat \ {0}, NEW p \in Nat \ {0}
  PROVE  (n \div u) \div p = n \div (u * p)
<1>. DEFINE i == n \div u
            j == i \div p
<1>1. i \in Nat /\ i * u <= n /\ n < i * u + u
  BY Division
<1>. HIDE DEF i
<1>2. j \in Nat /\ j * p <= i /\ i < j * p + p
  BY <1>1, Division
<1>. HIDE DEF j
<1>3. u * p \in Nat \ {0}
  OBVIOUS
<1>4. j * (u * p) <= n
  <2>1. j * (u * p) = (j * p) * u
    BY <1>2
  <2>2. \A x, y \in Nat : x <= y => x * u <= y * u
    OBVIOUS
  <2>3. (j * p) * u <= i * u
    BY <1>1, <1>2, <2>2
  <2>4. (j * p) * u \in Int /\ i * u \in Int
    BY <1>1, <1>2
  <2>. QED BY <1>1, <2>1, <2>3, <2>4
<1>5. n < j * (u * p) + u * p
  <2>1. i + 1 <= j * p + p /\ i + 1 \in Nat /\ j * p + p \in Nat
    BY <1>1, <1>2
  <2>2. \A x, y \in Nat : x <= y => x * u <= y * u
    OBVIOUS
  <2>3. (i + 1) * u <= (j * p + p) * u
    BY <2>1, <2>2
  <2>4. (i + 1) * u = i * u + u
    BY <1>1
  <2>5. (j * p + p) * u = j * (u * p) + u * p
    BY <1>2
  <2>6. i * u \in Int /\ j * (u * p) + u * p \in Int
    BY <1>1, <1>2
  <2>. QED BY <1>1, <2>3, <2>4, <2>5, <2>6
<1>6. n \div (u * p) = j
  BY <1>2, <1>3, <1>4, <1>5, QuotientIs
<1>. QED BY <1>6 DEF i, j

\* Taking whole shares away before or after rounding, and rounding what is kept or what
\* is sold.
LEMMA SharesAgree ==
  ASSUME NEW f \in Nat, NEW q \in Nat, NEW p \in Nat \ {0}
  PROVE  /\ (f - q * p) \div p = f \div p - q
         /\ (q * p - f) \div p \in {q - f \div p, q - f \div p - 1}
         /\ f < q * p => f \div p < q
<1>. DEFINE i == f \div p
            k == (q * p - f) \div p
<1>1. i \in Nat /\ i * p <= f /\ f < i * p + p
  BY Division
<1>2. q * p \in Nat
  OBVIOUS
<1>3. k \in Int /\ k * p <= q * p - f /\ q * p - f < k * p + p
  BY <1>2, Division
<1>. HIDE DEF i, k
<1>4. (f - q * p) \div p = i - q
  <2>1. (i - q) * p = i * p - q * p
    BY <1>1
  <2>2. i * p \in Int
    BY <1>1
  <2>3. (i - q) * p <= f - q * p /\ f - q * p < (i - q) * p + p
    BY <1>1, <1>2, <2>1, <2>2
  <2>4. i - q \in Int /\ f - q * p \in Int
    BY <1>1, <1>2
  <2>. QED BY <2>3, <2>4, QuotientIs
<1>5. (k + i) * p <= q * p /\ q * p < (k + i + 2) * p
  <2>1. (k + i) * p = k * p + i * p /\ (k + i + 2) * p = k * p + i * p + p + p
    BY <1>1, <1>3
  <2>2. k * p \in Int /\ i * p \in Int
    BY <1>1, <1>3
  <2>. QED BY <1>1, <1>2, <1>3, <2>1, <2>2
<1>6. k + i <= q /\ q < k + i + 2
  <2>1. k + i \in Int /\ k + i + 2 \in Int
    BY <1>1, <1>3
  <2>. QED BY <1>5, <2>1, Cancel
<1>7. ASSUME f < q * p PROVE i < q
  <2>1. i * p < q * p
    <3>1. i * p \in Int
      BY <1>1
    <3>. QED BY <1>1, <1>2, <1>7, <3>1
  <2>. QED BY <1>1, <2>1, Cancel
<1>8. k \in {q - i, q - i - 1}
  BY <1>1, <1>3, <1>6
<1>. QED BY <1>4, <1>7, <1>8 DEF i, k

LEMMA PortfolioEquity ==
  ASSUME NEW c, IsPortfolio(c), NEW s \in DOMAIN c.qty
  PROVE  EquityOf(c) \in Nat /\ c.qty[s] * c.price[s] <= EquityOf(c)
<1>. DEFINE S == DOMAIN c.qty
<1>1. IsFiniteSet(S) /\ c.cash \in Nat /\ c.qty \in [S -> Nat] /\ c.price \in [S -> Nat \ {0}]
  BY DEF IsPortfolio
<1>2. \A t \in S : c.qty[t] * c.price[t] \in Nat
  <2>. SUFFICES ASSUME NEW t \in S PROVE c.qty[t] * c.price[t] \in Nat
    OBVIOUS
  <2>1. c.qty[t] \in Nat /\ c.price[t] \in Nat
    BY <1>1
  <2>. QED BY <2>1
<1>3. ValueOf(c) \in [S -> Nat] /\ DOMAIN ValueOf(c) = S /\ ValueOf(c)[s] = c.qty[s] * c.price[s]
  BY <1>2 DEF ValueOf
<1>. HIDE DEF S
<1>4. SumOver(ValueOf(c), S) = ValueOf(c)[s] + SumOver(ValueOf(c), S \ {s})
      /\ SumOver(ValueOf(c), S \ {s}) \in Nat
  <2>1. \A t \in S : ValueOf(c)[t] \in Nat
    BY <1>3
  <2>2. s \in S
    BY DEF S
  <2>3. SumOver(ValueOf(c), S \ {s}) \in Nat
    BY <1>1, <2>1, FS_Subset, SumNat
  <2>4. \A t \in S : ValueOf(c)[t] \in Int
    BY <2>1
  <2>5. SumOver(ValueOf(c), S) = ValueOf(c)[s] + SumOver(ValueOf(c), S \ {s})
    BY <1>1, <2>2, <2>4, SumRemove
  <2>. QED BY <2>3, <2>5
<1>5. ValueOf(c)[s] \in Nat
  BY <1>3 DEF S
<1>. QED BY <1>1, <1>3, <1>4, <1>5, SumFunctionIs DEF EquityOf

\* Without costs and limits, the simulation orders what the live runner orders, or sells
\* one share less.
LEMMA SameOrder ==
  ASSUME NEW c, IsPortfolio(c), NEW s \in DOMAIN c.qty
  PROVE  LET live == LiveOrders(c.targets, c.qty, c.price, EquityOf(c), c.band) IN
         \/ SimulatedChange(c, s) = live[s]
         \/ live[s] < 0 /\ SimulatedChange(c, s) = live[s] + 1
<1>. DEFINE live == LiveOrders(c.targets, c.qty, c.price, EquityOf(c), c.band)
            p == c.price[s]
            q == c.qty[s]
            v == q * p
            equity == EquityOf(c)
            w == Weight(c.targets, s)
            f == (w * equity) \div Unit
            moves == Moves(v, w, equity, c.band)
            opt == Frictionless(c.band)
            bag == [cash |-> c.cash * Unit, val |-> ValueOf(c)]
            m == [price |-> c.price, prev |-> c.price, adv |-> [t \in DOMAIN c.qty |-> NoValue]]
            want == IF moves THEN f - v ELSE 0
            bought == BoughtAmount(want, m, opt, s)
            sold == SoldAmount(bag, want, m, opt, FALSE, s)
<1>1. p \in Nat \ {0} /\ q \in Nat /\ v \in Nat /\ w \in Nat /\ equity \in Nat /\ v <= equity
  <2>1. p \in Nat \ {0} /\ q \in Nat
    BY DEF IsPortfolio
  <2>2. v \in Nat
    BY <2>1
  <2>3. w \in Nat
    BY DEF IsPortfolio, Weight
  <2>. QED BY <2>1, <2>2, <2>3, PortfolioEquity
<1>2. live[s] = IF equity > 0 /\ moves THEN (w * equity) \div (Unit * p) - q ELSE 0
  BY <1>1 DEF LiveOrders
<1>3. SimulatedChange(c, s) = (bought - sold) \div p
  <2>1. ValueOf(c)[s] = v
    BY DEF ValueOf
  <2>2. Wanted(bag, c.targets, equity, opt, FALSE, s) = want
    BY <2>1 DEF Wanted, Frictionless
  <2>. HIDE DEF want
  <2>. QED BY <2>2 DEF SimulatedChange
<1>4. m.price[s] = p /\ m.adv[s] = NoValue /\ bag.val[s] = v
  BY DEF ValueOf
<1>5. f \in Nat /\ (equity = 0 => f = 0)
  <2>1. w * equity \in Nat /\ (equity = 0 => w * equity = 0)
    BY <1>1
  <2>. QED BY <2>1, Division DEF Unit
<1>6. f = (w * equity) \div Unit
  OBVIOUS
<1>. HIDE DEF live, p, q, equity, w, f, moves, opt, bag, m
<1>twice. f \div p = (w * equity) \div (Unit * p)
  <2>1. w * equity \in Nat /\ Unit \in Nat \ {0}
    BY <1>1 DEF Unit
  <2>. QED BY <1>1, <1>6, <2>1, DivisionTwice
<1>7. want \in Int
  BY <1>1, <1>5
<1>8. /\ want <= 0 => bought = 0
      /\ want > 0 => bought = (want \div p) * p
      /\ want >= 0 => sold = 0
      /\ want < 0 /\ ~(-want < v) => sold = v
      /\ want < 0 /\ -want < v => sold = ((-want) \div p) * p
  <2>. HIDE DEF want, v
  <2>1. opt.shares = TRUE /\ opt.limits = FALSE
    BY DEF opt, Frictionless
  <2>2. FillPrice(m, opt, s) = p /\ ~LimitBlocked(m, opt, "buy", s) /\ ~LimitBlocked(m, opt, "sell", s)
    BY <1>4, <2>1 DEF FillPrice, LimitBlocked
  <2>3. \A a \in Int : AdvCapped(a, m.adv[s]) = a /\ FloorToShares(a, p) = (a \div p) * p
    BY <1>1, <1>4 DEF AdvCapped, FloorToShares
  <2>4. want <= 0 => bought = 0
    BY DEF BoughtAmount
  <2>5. want > 0 => bought = (want \div p) * p
    BY <1>7, <2>1, <2>2, <2>3 DEF BoughtAmount
  <2>6. want >= 0 => sold = 0
    BY DEF SoldAmount
  <2>7. -want \in Int
    BY <1>7
  <2>8. ASSUME want < 0
        PROVE  sold = AtMost(IF -want < v THEN ((-want) \div p) * p ELSE -want, v)
    BY <1>4, <1>7, <2>1, <2>2, <2>3, <2>7, <2>8 DEF SoldAmount
  <2>9. ASSUME want < 0, -want < v PROVE sold = ((-want) \div p) * p
    <3>1. (-want) \div p \in Int /\ ((-want) \div p) * p <= -want
      BY <1>1, <2>7, Division
    <3>2. ((-want) \div p) * p \in Int
      BY <1>1, <3>1
    <3>3. ((-want) \div p) * p < v
      BY <1>1, <2>7, <2>9, <3>1, <3>2
    <3>. QED BY <2>8, <2>9, <3>3 DEF AtMost
  <2>10. ASSUME want < 0, ~(-want < v) PROVE sold = v
    <3>1. sold = AtMost(-want, v)
      BY <2>8, <2>10
    <3>. QED BY <2>10, <3>1 DEF AtMost
  <2>. QED BY <2>4, <2>5, <2>6, <2>9, <2>10
<1>. HIDE DEF bought, sold
<1>whole. \A k \in Int : (k * p) \div p = k
  <2>. SUFFICES ASSUME NEW k \in Int PROVE (k * p) \div p = k
    OBVIOUS
  <2>1. k * p \in Int
    BY <1>1
  <2>. QED BY <1>1, <2>1, QuotientIs
<1>9. CASE ~moves
  <2>1. bought = 0 /\ sold = 0
    BY <1>8, <1>9
  <2>2. (0 - 0) \div p = 0
    BY <1>1
  <2>. QED BY <1>2, <1>3, <1>9, <2>1, <2>2 DEF live
<1>10. CASE moves /\ equity = 0
  <2>1. want = 0
    BY <1>1, <1>5, <1>10
  <2>2. (0 - 0) \div p = 0
    BY <1>1
  <2>. QED BY <1>2, <1>3, <1>8, <1>10, <2>1, <2>2 DEF live
<1>11. CASE moves /\ equity > 0
  <2>1. live[s] = f \div p - q /\ want = f - v
    BY <1>2, <1>twice, <1>11
  <2>2. /\ (f - v) \div p = f \div p - q
        /\ (v - f) \div p \in {q - f \div p, q - f \div p - 1}
        /\ f < v => f \div p < q
    BY <1>1, <1>5, SharesAgree
  <2>3. f \div p \in Int /\ (f - v) \div p \in Int /\ (v - f) \div p \in Int
    BY <1>1, <1>5, Division
  <2>4. CASE want >= 0
    <3>1. bought - sold = ((f - v) \div p) * p
      <4>1. CASE want > 0
        <5>1. ((f - v) \div p) * p \in Int
          BY <1>1, <2>3
        <5>. QED BY <1>8, <2>1, <2>4, <4>1, <5>1
      <4>2. CASE want = 0
        <5>1. bought = 0 /\ sold = 0 /\ f - v = 0
          BY <1>8, <2>1, <4>2
        <5>2. 0 \div p = 0
          BY <1>1
        <5>3. ((f - v) \div p) * p = 0
          BY <1>1, <5>1, <5>2
        <5>. QED BY <5>1, <5>3
      <4>. QED BY <1>7, <2>4, <4>1, <4>2
    <3>2. SimulatedChange(c, s) = f \div p - q
      BY <1>3, <1>whole, <2>2, <2>3, <3>1
    <3>. QED BY <2>1, <3>2 DEF live
  <2>5. CASE want < 0
    <3>. DEFINE k == IF -want < v THEN (v - f) \div p ELSE q
    <3>1. sold = k * p /\ bought = 0
      <4>1. -want = v - f
        BY <1>1, <1>5, <2>1
      <4>2. CASE -want < v
        <5>1. sold = ((-want) \div p) * p /\ bought = 0
          BY <1>7, <1>8, <2>5, <4>2
        <5>. QED BY <4>1, <4>2, <5>1
      <4>3. CASE ~(-want < v)
        <5>1. sold = v /\ bought = 0
          BY <1>7, <1>8, <2>5, <4>3
        <5>. QED BY <4>3, <5>1 DEF v
      <4>. QED BY <4>2, <4>3
    <3>2. k \in Int /\ k \in {q - f \div p, q - f \div p - 1}
      <4>1. CASE -want < v
        BY <2>2, <2>3, <4>1
      <4>2. CASE ~(-want < v)
        <5>1. f = 0
          BY <1>1, <1>5, <2>1, <4>2
        <5>2. f \div p = 0
          BY <1>1, <5>1
        <5>. QED BY <1>1, <4>2, <5>2
      <4>. QED BY <4>1, <4>2
    <3>. HIDE DEF k
    <3>3. SimulatedChange(c, s) = -k
      <4>1. 0 - k * p = (-k) * p /\ -k \in Int
        BY <1>1, <3>2
      <4>. QED BY <1>3, <1>whole, <3>1, <4>1
    <3>4. live[s] < 0
      BY <1>1, <1>5, <2>1, <2>2, <2>3, <2>5
    <3>5. -k = live[s] \/ -k = live[s] + 1
      BY <1>1, <2>1, <2>3, <3>2
    <3>. QED BY <3>3, <3>4, <3>5 DEF live
  <2>. QED BY <1>7, <2>4, <2>5
<1>. QED BY <1>1, <1>9, <1>10, <1>11

(***************************************************************************)
(* The days of a rebalancing.  What the runner remembers after each day is *)
(* a recursive function of the day; it exists, and always names the last   *)
(* of the days that the backtest chooses.                                  *)
(***************************************************************************)
LastBody(days, trading, cadence, chosen, memo, i) ==
  IF i = 0 THEN 0
  ELSE IF /\ i \in trading
          /\ memo[i - 1] > 0 => days[memo[i - 1]].period # days[i].period
          /\ Reached(days[i], cadence, chosen)
       THEN i ELSE memo[i - 1]
LastDate(days, trading, cadence, chosen) ==
  CHOOSE memo : memo = [i \in 0 .. Len(days) |-> LastBody(days, trading, cadence, chosen, memo, i)]

LEMMA LiveDatesAre ==
  ASSUME NEW days, NEW trading, NEW cadence, NEW chosen
  PROVE  LiveDates(days, trading, cadence, chosen)
           = {i \in trading : LastDate(days, trading, cadence, chosen)[i] = i}
BY Zenon DEF LiveDates, LastDate, LastBody

LEMMA LastDateExists ==
  ASSUME NEW days, NEW trading, NEW cadence, NEW chosen, Len(days) \in Nat
  PROVE  LastDate(days, trading, cadence, chosen)
           = [i \in 0 .. Len(days) |->
                LastBody(days, trading, cadence, chosen, LastDate(days, trading, cadence, chosen), i)]
<1>. DEFINE Body(g, i) == LastBody(days, trading, cadence, chosen, g, i)
            Defined == {n \in Nat : \E g : g = [i \in 0 .. n |-> Body(g, i)]}
<1>1. 0 \in Defined
  <2>. DEFINE g == [i \in 0 .. 0 |-> 0]
  <2>1. g = [i \in 0 .. 0 |-> Body(g, i)]
    BY DEF LastBody
  <2>. QED BY <2>1
<1>2. ASSUME NEW n \in Nat, n \in Defined PROVE n + 1 \in Defined
  <2>1. PICK g : g = [i \in 0 .. n |-> Body(g, i)]
    BY <1>2
  <2>. DEFINE h == [i \in 0 .. n + 1 |-> Body(g, i)]
  <2>2. \A i \in 0 .. n : h[i] = g[i]
    <3>. HIDE DEF Body
    <3>. QED BY <2>1
  <2>3. \A i \in 0 .. n + 1 : Body(g, i) = Body(h, i)
    <3>. HIDE DEF h
    <3>1. \A i \in 0 .. n + 1 : i # 0 => i - 1 \in 0 .. n
      OBVIOUS
    <3>. QED BY <2>2, <3>1 DEF LastBody
  <2>4. h = [i \in 0 .. n + 1 |-> Body(h, i)]
    <3>. HIDE DEF Body
    <3>. QED BY <2>3
  <2>. HIDE DEF h
  <2>. QED BY <2>4
<1>. HIDE DEF Defined
<1>3. Len(days) \in Defined
  BY <1>1, <1>2, NatSetInduction
<1>4. \E g : g = [i \in 0 .. Len(days) |-> Body(g, i)]
  BY <1>3 DEF Defined
<1>. QED BY <1>4 DEF LastDate

LEMMA SameDates ==
  ASSUME NEW c, IsCalendar(c)
  PROVE  RebalanceDates(c.days, c.trading, c.cadence, c.chosen)
           = LiveDates(c.days, c.trading, c.cadence, c.chosen)
<1>. DEFINE n == Len(c.days)
            PeriodOf(i) == c.days[i].period
            Due(i) == Reached(c.days[i], c.cadence, c.chosen)
            dates == RebalanceDates(c.days, c.trading, c.cadence, c.chosen)
            memo == LastDate(c.days, c.trading, c.cadence, c.chosen)
            T == c.trading
<1>dom. n \in Nat /\ DOMAIN c.days = 1 .. n
  <2>1. c.days \in Seq([period : Nat, of : Nat, length : Nat])
    BY DEF IsCalendar
  <2>. QED BY <2>1
<1>1. n \in Nat /\ T \subseteq 1 .. n
  BY <1>dom DEF IsCalendar
<1>2. \A i, j, k \in 1 .. n : i < j /\ j < k /\ PeriodOf(i) = PeriodOf(k) => PeriodOf(j) = PeriodOf(i)
  BY <1>dom DEF IsCalendar
<1>3. \A i : i \in dates <=> /\ i \in T /\ Due(i)
                             /\ \A j \in T : j < i /\ PeriodOf(j) = PeriodOf(i) => ~Due(j)
  BY DEF RebalanceDates
<1>4. memo[0] = 0
  <2>1. 0 \in 0 .. n
    BY <1>1
  <2>. QED BY <1>1, <2>1, LastDateExists DEF LastBody
<1>5. \A i \in 1 .. n : memo[i] = IF i \in T /\ (memo[i - 1] > 0 => PeriodOf(memo[i - 1]) # PeriodOf(i)) /\ Due(i)
                                  THEN i ELSE memo[i - 1]
  <2>. SUFFICES ASSUME NEW i \in 1 .. n
                PROVE  memo[i] = IF i \in T /\ (memo[i - 1] > 0 => PeriodOf(memo[i - 1]) # PeriodOf(i)) /\ Due(i)
                                 THEN i ELSE memo[i - 1]
    OBVIOUS
  <2>1. i \in 0 .. n /\ i # 0
    BY <1>1
  <2>2. memo[i] = LastBody(c.days, c.trading, c.cadence, c.chosen, memo, i)
    <3>. HIDE DEF memo
    <3>1. memo = [k \in 0 .. n |-> LastBody(c.days, c.trading, c.cadence, c.chosen, memo, k)]
      BY <1>1, LastDateExists DEF memo
    <3>. QED BY <2>1, <3>1
  <2>. HIDE DEF memo
  <2>. QED BY <2>1, <2>2 DEF LastBody
<1>. DEFINE Good(k) == /\ memo[k] \in 0 .. k
                       /\ memo[k] > 0 => memo[k] \in dates
                       /\ \A r \in dates : r <= k => r <= memo[k]
                       /\ \A j \in T : j <= k /\ Due(j) => \E r \in dates : r <= j /\ PeriodOf(r) = PeriodOf(j)
            Goods == {k \in Nat : k <= n => Good(k)}
<1>. HIDE DEF n, PeriodOf, Due, dates, memo, T
<1>6. 0 \in Goods
  <2>1. \A r \in T : r \in Int /\ r > 0
    BY <1>1
  <2>2. \A r \in dates : r \in T
    BY <1>3
  <2>3. Good(0)
    BY <1>4, <2>1, <2>2
  <2>. QED BY <2>3
<1>7. ASSUME NEW k \in Nat, k \in Goods PROVE k + 1 \in Goods
  <2>. SUFFICES ASSUME k + 1 <= n PROVE Good(k + 1)
    OBVIOUS
  <2>. DEFINE i == k + 1
  <2>1. Good(k)
    BY <1>1, <1>7
  <2>2. i \in 1 .. n /\ i - 1 = k
    BY <1>1
  <2>3. \A r \in dates : r \in T /\ r \in 1 .. n /\ Due(r)
    BY <1>1, <1>3
  <2>4. CASE i \in T /\ (memo[k] > 0 => PeriodOf(memo[k]) # PeriodOf(i)) /\ Due(i)
    <3>1. memo[i] = i
      BY <1>5, <2>2, <2>4
    <3>2. ASSUME NEW j \in T, j < i, PeriodOf(j) = PeriodOf(i), Due(j) PROVE FALSE
      <4>1. j \in 1 .. n /\ j <= k
        BY <1>1, <3>2
      <4>2. PICK r \in dates : r <= j /\ PeriodOf(r) = PeriodOf(j)
        BY <2>1, <3>2, <4>1
      <4>3. r \in 1 .. n /\ r <= k
        BY <2>3, <4>1, <4>2
      <4>4. r <= memo[k] /\ memo[k] \in 0 .. k
        BY <2>1, <4>3
      <4>5. memo[k] \in 1 .. n /\ memo[k] > 0 /\ memo[k] < i
        BY <1>1, <2>2, <4>3, <4>4
      <4>6. PeriodOf(memo[k]) = PeriodOf(r)
        <5>1. CASE r = memo[k]
          BY <5>1
        <5>2. CASE r < memo[k]
          BY <1>2, <2>2, <3>2, <4>2, <4>3, <4>5, <5>2
        <5>. QED BY <4>3, <4>4, <4>5, <5>1, <5>2
      <4>. QED BY <2>4, <3>2, <4>2, <4>5, <4>6
    <3>3. i \in dates
      BY <1>3, <2>4, <3>2
    <3>4. \A r \in dates : r <= i => r <= memo[i]
      BY <3>1
    <3>5. \A j \in T : j <= i /\ Due(j) => \E r \in dates : r <= j /\ PeriodOf(r) = PeriodOf(j)
      <4>. SUFFICES ASSUME NEW j \in T, j <= i, Due(j) PROVE \E r \in dates : r <= j /\ PeriodOf(r) = PeriodOf(j)
        OBVIOUS
      <4>1. j \in 1 .. n
        BY <1>1
      <4>2. CASE j = i
        BY <3>3, <4>1, <4>2
      <4>3. CASE j <= k
        BY <2>1, <4>3
      <4>. QED BY <4>1, <4>2, <4>3
    <3>. QED BY <2>2, <3>1, <3>3, <3>4, <3>5
  <2>5. CASE ~(i \in T /\ (memo[k] > 0 => PeriodOf(memo[k]) # PeriodOf(i)) /\ Due(i))
    <3>1. memo[i] = memo[k]
      BY <1>5, <2>2, <2>5
    <3>2. i \in T /\ Due(i) => memo[k] > 0 /\ memo[k] \in dates /\ memo[k] <= k /\ PeriodOf(memo[k]) = PeriodOf(i)
      BY <2>1, <2>5
    <3>3. i \notin dates
      <4>. SUFFICES ASSUME i \in dates PROVE FALSE
        OBVIOUS
      <4>1. memo[k] \in T /\ memo[k] < i /\ PeriodOf(memo[k]) = PeriodOf(i) /\ Due(memo[k])
        BY <2>1, <2>3, <3>2
      <4>. QED BY <1>3, <4>1
    <3>4. \A r \in dates : r <= i => r <= memo[i]
      <4>. SUFFICES ASSUME NEW r \in dates, r <= i PROVE r <= memo[i]
        OBVIOUS
      <4>1. r # i /\ r \in 1 .. n
        BY <2>3, <3>3
      <4>2. r <= k
        BY <4>1
      <4>. QED BY <2>1, <3>1, <4>2
    <3>5. \A j \in T : j <= i /\ Due(j) => \E r \in dates : r <= j /\ PeriodOf(r) = PeriodOf(j)
      <4>. SUFFICES ASSUME NEW j \in T, j <= i, Due(j) PROVE \E r \in dates : r <= j /\ PeriodOf(r) = PeriodOf(j)
        OBVIOUS
      <4>1. j \in 1 .. n
        BY <1>1
      <4>2. CASE j = i
        <5>1. memo[k] \in dates /\ memo[k] <= j /\ PeriodOf(memo[k]) = PeriodOf(j)
          BY <2>1, <3>2, <4>2
        <5>. QED BY <5>1
      <4>3. CASE j <= k
        BY <2>1, <4>3
      <4>. QED BY <4>1, <4>2, <4>3
    <3>6. memo[i] \in 0 .. i /\ (memo[i] > 0 => memo[i] \in dates)
      BY <2>1, <3>1
    <3>. QED BY <3>4, <3>5, <3>6
  <2>. QED BY <2>4, <2>5
<1>. HIDE DEF Goods
<1>8. \A k \in Nat : k \in Goods
  BY <1>6, <1>7, NatSetInduction
<1>9. \A k \in 1 .. n : Good(k)
  BY <1>1, <1>8 DEF Goods
<1>10. \A i \in T : memo[i] = i <=> i \in dates
  <2>. SUFFICES ASSUME NEW i \in T PROVE memo[i] = i <=> i \in dates
    OBVIOUS
  <2>1. i \in 1 .. n /\ Good(i)
    BY <1>1, <1>9
  <2>. QED BY <2>1
<1>11. LiveDates(c.days, c.trading, c.cadence, c.chosen) = {i \in T : memo[i] = i}
  BY LiveDatesAre DEF memo, T
<1>12. dates = {i \in T : memo[i] = i}
  BY <1>3, <1>10
<1>. QED BY <1>11, <1>12 DEF dates

\* The live runner and the simulation plan the same orders, as long as the account is worth
\* the capital the runner sizes by, on the same days, for every portfolio of whole shares and
\* every calendar whose periods are unbroken (rebalance.py, portfolio.py).
THEOREM PlansAgreed == CaseSpec => []PlansAgree
<1>1. CaseInit => PlansAgree
  <2>. SUFFICES ASSUME case \in Cases PROVE OrdersAgree /\ DatesAgree
    BY DEF CaseInit, PlansAgree
  <2>1. (case.kind = "orders" => IsPortfolio(case)) /\ (case.kind = "dates" => IsCalendar(case))
    BY CasesAssumption
  <2>2. OrdersAgree
    BY <2>1, SameOrder DEF OrdersAgree
  <2>3. DatesAgree
    BY <2>1, SameDates DEF DatesAgree
  <2>. QED BY <2>2, <2>3
<1>2. PlansAgree /\ [CaseNext]_case => PlansAgree'
  BY DEF CaseNext, PlansAgree, OrdersAgree, DatesAgree
<1>. QED BY <1>1, <1>2, PTL DEF CaseSpec

(***************************************************************************)
(* The limits of symbols and sectors.  A round of the redistribution keeps *)
(* the sectors that are at the limit there, and brings one more to it      *)
(* while one is above it; there are no more sectors than symbols.          *)
(***************************************************************************)
LEMMA SumOnSetIs == \A f, S : SumFunctionOnSet(f, S) = SumOver(f, S)
BY Zenon DEF SumOver, SumFunctionOnSet, FoldFunctionOnSet, MapThenSumSet

\* Parts of p in proportion, rounded down, add up to p but for one each.
LEMMA PartsAddUp ==
  ASSUME NEW T, IsFiniteSet(T), NEW f, NEW g, NEW p \in Nat, NEW q \in Nat \ {0},
         q = SumOver(f, T),
         \A x \in T : f[x] \in Nat /\ g[x] = (f[x] * p) \div q
  PROVE  /\ \A x \in T : g[x] \in Nat
         /\ SumOver(g, T) \in Nat
         /\ SumOver(g, T) <= p
         /\ p <= SumOver(g, T) + Cardinality(T)
<1>. DEFINE ones == [x \in T |-> 1]
            up == [x \in T |-> g[x] + 1]
<1>1. \A x \in T : g[x] \in Nat /\ g[x] * q <= f[x] * p /\ f[x] * p < g[x] * q + q
  <2>. SUFFICES ASSUME NEW x \in T PROVE g[x] \in Nat /\ g[x] * q <= f[x] * p /\ f[x] * p < g[x] * q + q
    OBVIOUS
  <2>1. f[x] * p \in Nat
    OBVIOUS
  <2>. QED BY <2>1, Division
<1>2. SumOver(g, T) \in Nat /\ Cardinality(T) \in Nat
  BY <1>1, SumNat, FS_CardinalityType
<1>3. SumOver(g, T) <= p
  <2>1. SumOver(g, T) * q <= SumOver(f, T) * p
    BY <1>1, SumProportion
  <2>2. q * p = p * q
    OBVIOUS
  <2>3. SumOver(g, T) * q <= p * q
    BY <2>1, <2>2
  <2>. QED BY <1>2, <2>3, Cancel
<1>4. p <= SumOver(g, T) + Cardinality(T)
  <2>1. \A x \in T : f[x] * p <= up[x] * q /\ up[x] \in Nat
    <3>. SUFFICES ASSUME NEW x \in T PROVE f[x] * p <= up[x] * q /\ up[x] \in Nat
      OBVIOUS
    <3>1. up[x] = g[x] + 1 /\ (g[x] + 1) * q = g[x] * q + q
      BY <1>1
    <3>2. f[x] * p \in Nat /\ g[x] * q \in Nat
      BY <1>1
    <3>. QED BY <1>1, <3>1, <3>2
  <2>2. SumOver(f, T) * p <= SumOver(up, T) * q
    <3>. HIDE DEF up
    <3>. QED BY <2>1, SumProportion
  <2>3. SumOver(up, T) = SumOver(g, T) + SumOver(ones, T)
    <3>1. \A x \in T : g[x] \in Int /\ ones[x] \in Int /\ up[x] = g[x] + ones[x]
      BY <1>1
    <3>. HIDE DEF up, ones
    <3>. QED BY <3>1, SumPlus
  <2>4. SumOver(ones, T) = Cardinality(T)
    <3>1. \A x \in T : ones[x] = 1
      OBVIOUS
    <3>. HIDE DEF ones
    <3>. QED BY <3>1, SumOnes
  <2>. HIDE DEF up
  <2>5. p * q <= SumOver(up, T) * q
    <3>1. q * p = p * q
      OBVIOUS
    <3>. QED BY <2>2, <3>1
  <2>6. SumOver(up, T) \in Nat
    BY <1>2, <2>3, <2>4
  <2>7. p <= SumOver(up, T)
    BY <2>5, <2>6, Cancel
  <2>. QED BY <2>3, <2>4, <2>7
<1>. QED BY <1>1, <1>2, <1>3, <1>4

\* What is shared out is no more than the excess.
LEMMA SharedIs ==
  ASSUME NEW D, IsFiniteSet(D), NEW cut \in [D -> Nat], NEW under \in SUBSET D, NEW excess \in Nat
  PROVE  /\ Shared(cut, under, excess) \in [D -> Nat]
         /\ \A s \in D \ under : Shared(cut, under, excess)[s] = cut[s]
         /\ SumOver(Shared(cut, under, excess), D) <= SumOver(cut, D) + excess
<1>. DEFINE pool == SumOver(cut, under)
            part == [s \in D |-> IF s \in under THEN (excess * cut[s]) \div pool ELSE 0]
            new == Shared(cut, under, excess)
<1>1. SumFunctionOnSet(cut, under) = pool
  BY SumOnSetIs
<1>2. IsFiniteSet(under) /\ \A s \in D : cut[s] \in Nat
  BY FS_Subset
<1>3. pool \in Nat /\ SumOver(cut, D) \in Nat
  BY <1>2, SumNat
<1>. HIDE DEF pool
<1>4. CASE pool = 0
  <2>1. new = cut
    BY <1>1, <1>4 DEF Shared
  <2>. QED BY <1>3, <2>1
<1>5. CASE pool # 0
  <2>1. \A s \in under : part[s] = (cut[s] * excess) \div pool
    <3>. SUFFICES ASSUME NEW s \in under PROVE part[s] = (cut[s] * excess) \div pool
      OBVIOUS
    <3>1. cut[s] * excess = excess * cut[s]
      BY <1>2
    <3>. QED BY <3>1
  <2>2. /\ \A s \in under : part[s] \in Nat
        /\ SumOver(part, under) <= excess
    <3>. HIDE DEF part
    <3>1. pool \in Nat \ {0} /\ pool = SumOver(cut, under)
      BY <1>3, <1>5 DEF pool
    <3>. QED BY <1>2, <2>1, <3>1, PartsAddUp
  <2>3. \A s \in D \ under : part[s] = 0
    OBVIOUS
  <2>4. DOMAIN cut = D
    OBVIOUS
  <2>5. new = [s \in D |-> IF s \in under THEN cut[s] + (excess * cut[s]) \div pool ELSE cut[s]]
    BY <1>1, <1>5, <2>4 DEF Shared
  <2>6. \A s \in D : new[s] = cut[s] + part[s]
    BY <1>2, <2>5
  <2>7. new \in [D -> Nat]
    <3>. HIDE DEF part
    <3>1. \A s \in D : new[s] \in Nat
      <4>. HIDE DEF new
      <4>. QED BY <1>2, <2>2, <2>3, <2>6
    <3>2. DOMAIN new = D /\ new = [s \in D |-> new[s]]
      BY <2>5
    <3>. HIDE DEF new
    <3>. QED BY <3>1, <3>2
  <2>. HIDE DEF part, new
  <2>8. SumOver(new, D) = SumOver(cut, D) + SumOver(part, D)
    <3>1. \A s \in D : cut[s] \in Int /\ part[s] \in Int
      BY <1>2, <2>2, <2>3
    <3>. QED BY <2>6, <3>1, SumPlus
  <2>9. SumOver(part, D) = SumOver(part, under) /\ SumOver(part, under) \in Nat
    <3>1. \A s \in D : part[s] \in Int
      BY <2>2, <2>3
    <3>. QED BY <1>2, <2>2, <2>3, <3>1, SumSupport, SumNat
  <2>10. SumOver(new, D) <= SumOver(cut, D) + excess
    BY <1>3, <2>2, <2>8, <2>9
  <2>11. \A s \in D \ under : new[s] = cut[s]
    BY <1>2, <2>3, <2>6
  <2>. QED BY <2>7, <2>10, <2>11 DEF new
<1>. QED BY <1>4, <1>5

\* The rounds of a loop, each with one outcome; a function that has them exists.
AreRounds(f, m, w, turn) == f = [k \in 0 .. m |-> IF k = 0 THEN {w} ELSE {turn[v] : v \in f[k - 1]}]
StayIn(f, m, G) == \A k \in 0 .. m : \E v \in G : f[k] = {v}

LEMMA RoundsExist ==
  ASSUME NEW m \in Nat, NEW w, NEW G, NEW turn,
         w \in G, \A v \in G : turn[v] \in G
  PROVE  \E f : AreRounds(f, m, w, turn) /\ StayIn(f, m, G)
<1>. DEFINE Body(f, k) == IF k = 0 THEN {w} ELSE {turn[v] : v \in f[k - 1]}
            Defined == {n \in Nat : \E f : /\ f = [k \in 0 .. n |-> Body(f, k)]
                                           /\ \A k \in 0 .. n : \E v \in G : f[k] = {v}}
<1>1. 0 \in Defined
  <2>. DEFINE f == [k \in 0 .. 0 |-> {w}]
  <2>1. f = [k \in 0 .. 0 |-> Body(f, k)]
    OBVIOUS
  <2>2. \A k \in 0 .. 0 : f[k] = {w}
    OBVIOUS
  <2>. QED BY <2>1, <2>2
<1>2. ASSUME NEW n \in Nat, n \in Defined PROVE n + 1 \in Defined
  <2>1. PICK f : f = [k \in 0 .. n |-> Body(f, k)] /\ \A k \in 0 .. n : \E v \in G : f[k] = {v}
    BY <1>2
  <2>. DEFINE g == [k \in 0 .. n + 1 |-> Body(f, k)]
  <2>2. \A k \in 0 .. n : g[k] = f[k]
    <3>. HIDE DEF Body
    <3>. QED BY <2>1
  <2>3. \A k \in 0 .. n + 1 : Body(f, k) = Body(g, k)
    <3>. HIDE DEF g
    <3>1. \A k \in 0 .. n + 1 : k # 0 => k - 1 \in 0 .. n
      OBVIOUS
    <3>. QED BY <2>2, <3>1
  <2>4. g = [k \in 0 .. n + 1 |-> Body(g, k)]
    <3>. HIDE DEF Body
    <3>. QED BY <2>3
  <2>5. ASSUME NEW k \in 0 .. n + 1 PROVE \E v \in G : g[k] = {v}
    <3>1. CASE k \in 0 .. n
      BY <2>1, <2>2, <3>1
    <3>2. CASE k = n + 1
      <4>1. n \in 0 .. n /\ k - 1 = n /\ k # 0
        BY <3>2
      <4>2. PICK v \in G : f[n] = {v}
        BY <2>1, <4>1
      <4>3. g[k] = {turn[v]}
        BY <4>1, <4>2
      <4>. QED BY <4>3
    <3>3. k \in 0 .. n \/ k = n + 1
      OBVIOUS
    <3>. HIDE DEF g
    <3>. QED BY <3>1, <3>2, <3>3
  <2>. HIDE DEF g
  <2>6. \A k \in 0 .. n + 1 : \E v \in G : g[k] = {v}
    BY <2>5
  <2>. HIDE DEF Body
  <2>. QED BY <2>4, <2>6
<1>. HIDE DEF Defined
<1>3. m \in Defined
  BY <1>1, <1>2, NatSetInduction
<1>4. PICK f : f = [k \in 0 .. m |-> Body(f, k)] /\ \A k \in 0 .. m : \E v \in G : f[k] = {v}
  BY <1>3 DEF Defined
<1>5. AreRounds(f, m, w, turn)
  BY Zenon, <1>4 DEF AreRounds
<1>6. StayIn(f, m, G)
  BY <1>4 DEF StayIn
<1>. QED BY <1>5, <1>6

\* A round of _cap_position_weights adds nothing to the whole.
LEMMA PositionRound ==
  ASSUME NEW D, IsFiniteSet(D), NEW v \in [D -> Nat], NEW cap \in Nat
  PROVE  CapPositionRound(v, cap) \in [D -> Nat] /\ SumOver(CapPositionRound(v, cap), D) <= SumOver(v, D)
<1>. DEFINE over == [s \in D |-> AtLeast(v[s] - cap, 0)]
            cut == [s \in D |-> AtMost(v[s], cap)]
            excess == SumOver(over, D)
            under == {s \in D : v[s] < cap}
<1>1. DOMAIN v = D /\ \A s \in D : v[s] \in Nat
  OBVIOUS
<1>2. \A s \in D : over[s] \in Nat /\ cut[s] \in Nat /\ v[s] = cut[s] + over[s]
  BY <1>1 DEF AtLeast, AtMost
<1>3. cut \in [D -> Nat] /\ DOMAIN over = D
  BY <1>2
<1>4. SumFunction([s \in DOMAIN v |-> AtLeast(v[s] - cap, 0)]) = excess
  <2>1. SumFunction([s \in DOMAIN v |-> AtLeast(v[s] - cap, 0)]) = SumFunction(over)
    BY <1>1
  <2>. HIDE DEF over
  <2>. QED BY <1>3, <2>1, SumFunctionIs
<1>5. CapPositionRound(v, cap) = IF excess = 0 THEN v ELSE Shared(cut, under, excess)
  <2>1. DOMAIN v = D
    OBVIOUS
  <2>. QED BY <1>4, <2>1 DEF CapPositionRound
<1>. HIDE DEF cut, over
<1>6. excess \in Nat /\ SumOver(cut, D) \in Nat /\ SumOver(v, D) \in Nat
  BY <1>1, <1>2, SumNat
<1>7. SumOver(v, D) = SumOver(cut, D) + excess
  <2>1. \A s \in D : cut[s] \in Int /\ over[s] \in Int
    BY <1>2
  <2>. QED BY <1>2, <2>1, SumPlus
<1>. HIDE DEF excess
<1>8. Shared(cut, under, excess) \in [D -> Nat]
      /\ SumOver(Shared(cut, under, excess), D) <= SumOver(cut, D) + excess
  BY <1>3, <1>6, SharedIs
<1>. QED BY <1>5, <1>6, <1>7, <1>8

\* Nor do all rounds.
LEMMA PositionCapped ==
  ASSUME NEW D, IsFiniteSet(D), NEW w \in [D -> Nat], NEW cap \in Nat
  PROVE  CapPosition(w, cap) \in [D -> Nat] /\ SumOver(CapPosition(w, cap), D) <= SumOver(w, D)
<1>. DEFINE m == Cardinality(D) + 1
            G == {v \in [D -> Nat] : SumOver(v, D) <= SumOver(w, D)}
            turn == [v \in [D -> Nat] |-> CapPositionRound(v, cap)]
            Rounds(f) == f = [k \in 0 .. m |-> IF k = 0 THEN {w} ELSE {CapPositionRound(v, cap) : v \in f[k - 1]}]
            rounds == CHOOSE f : Rounds(f)
<1>1. m \in Nat /\ DOMAIN w = D
  BY FS_CardinalityType
<1>2. \A v \in [D -> Nat] : SumOver(v, D) \in Nat
  BY SumNat
<1>3. w \in G
  BY <1>2
<1>4. \A v \in G : turn[v] = CapPositionRound(v, cap) /\ turn[v] \in G
  <2>. SUFFICES ASSUME NEW v \in G PROVE turn[v] = CapPositionRound(v, cap) /\ turn[v] \in G
    OBVIOUS
  <2>1. turn[v] = CapPositionRound(v, cap)
    OBVIOUS
  <2>2. /\ CapPositionRound(v, cap) \in [D -> Nat]
        /\ SumOver(CapPositionRound(v, cap), D) <= SumOver(v, D)
    BY PositionRound
  <2>. HIDE DEF turn
  <2>. QED BY <1>2, <2>1, <2>2
<1>. HIDE DEF turn, m
<1>5. PICK f : AreRounds(f, m, w, turn) /\ StayIn(f, m, G)
  <2>. HIDE DEF G
  <2>1. \A v \in G : turn[v] \in G
    BY <1>4
  <2>. HIDE DEF Rounds, rounds
  <2>. QED BY <1>1, <1>3, <2>1, RoundsExist
<1>. HIDE DEF G
<1>6. Rounds(f)
  <2>1. ASSUME NEW k \in 0 .. m, k # 0
        PROVE  {turn[v] : v \in f[k - 1]} = {CapPositionRound(v, cap) : v \in f[k - 1]}
    <3>1. k - 1 \in 0 .. m
      BY <1>1, <2>1
    <3>2. PICK v \in G : f[k - 1] = {v}
      BY <1>5, <3>1 DEF StayIn
    <3>. QED BY <1>4, <3>2
  <2>. QED BY <1>5, <2>1 DEF AreRounds
<1>7. Rounds(rounds)
  BY <1>6
<1>8. \A k \in Nat : k <= m => \E v \in G : rounds[k] = {v}
  <2>. DEFINE Goods == {k \in Nat : k <= m => \E v \in G : rounds[k] = {v}}
  <2>. HIDE DEF rounds
  <2>1. 0 \in Goods
    <3>1. rounds[0] = {w}
      BY <1>1, <1>7
    <3>. QED BY <1>3, <3>1
  <2>2. ASSUME NEW k \in Nat, k \in Goods PROVE k + 1 \in Goods
    <3>. SUFFICES ASSUME k + 1 <= m PROVE \E v \in G : rounds[k + 1] = {v}
      OBVIOUS
    <3>1. PICK v \in G : rounds[k] = {v}
      BY <1>1, <2>2
    <3>2. k + 1 \in 0 .. m /\ k + 1 # 0 /\ (k + 1) - 1 = k
      BY <1>1
    <3>3. rounds[k + 1] = {CapPositionRound(u, cap) : u \in rounds[k]}
      BY <1>7, <3>2
    <3>4. rounds[k + 1] = {CapPositionRound(v, cap)}
      BY <3>1, <3>3
    <3>. QED BY <1>4, <3>4
  <2>. HIDE DEF Goods
  <2>3. Nat \subseteq Goods
    BY <2>1, <2>2, NatSetInduction
  <2>. QED BY <2>3 DEF Goods
<1>9. CapPosition(w, cap) = IF cap >= Unit THEN w ELSE Only(rounds[m])
  BY <1>1 DEF CapPosition, m
<1>. HIDE DEF rounds
<1>10. CapPosition(w, cap) \in G
  <2>1. PICK v \in G : rounds[m] = {v}
    BY <1>1, <1>8
  <2>2. Only(rounds[m]) = v
    BY <2>1 DEF Only
  <2>. QED BY <1>3, <1>9, <2>2
<1>. QED BY <1>10 DEF G

\* Who shares a sector, and which symbols are in one at its limit, as far as rounding lets it.
Mates(D, sector, s) == {t \in D : t = s \/ (sector[t] # NoValue /\ sector[t] = sector[s])}
Limited(D, v, sector, cap) == \A s \in D : SectorSum(v, sector, s) <= cap
AtLimit(D, v, sector, cap) ==
  {s \in D : cap - Cardinality(D) <= SectorSum(v, sector, s) /\ SectorSum(v, sector, s) <= cap}

\* Mates have the same mates, hence the same sum.
LEMMA MatesAre ==
  ASSUME NEW D, IsFiniteSet(D), NEW v \in [D -> Nat], NEW sector, NEW s \in D
  PROVE  /\ Mates(D, sector, s) \in SUBSET D /\ s \in Mates(D, sector, s)
         /\ IsFiniteSet(Mates(D, sector, s))
         /\ Cardinality(Mates(D, sector, s)) \in Nat
         /\ Cardinality(Mates(D, sector, s)) <= Cardinality(D)
         /\ SectorSum(v, sector, s) = SumOver(v, Mates(D, sector, s))
         /\ SectorSum(v, sector, s) \in Nat
         /\ \A t \in Mates(D, sector, s) : SectorSum(v, sector, t) = SectorSum(v, sector, s)
<1>. DEFINE M == Mates(D, sector, s)
<1>1. M \in SUBSET D /\ s \in M
  BY DEF Mates
<1>2. IsFiniteSet(M) /\ Cardinality(M) \in Nat /\ Cardinality(M) <= Cardinality(D)
  BY <1>1, FS_Subset, FS_CardinalityType
<1>3. \A t \in D : SectorSum(v, sector, t) = SumOver(v, Mates(D, sector, t))
  <2>1. DOMAIN v = D
    OBVIOUS
  <2>. QED BY <2>1, SumOnSetIs DEF SectorSum, Mates
<1>4. SumOver(v, M) \in Nat
  <2>1. \A x \in M : v[x] \in Nat
    BY <1>1
  <2>. HIDE DEF M
  <2>. QED BY <1>2, <2>1, SumNat
<1>5. \A t \in M : Mates(D, sector, t) = M
  BY DEF Mates
<1>. QED BY <1>1, <1>2, <1>3, <1>4, <1>5

\* A round of _cap_sector_weights.
LEMMA SectorRound ==
  ASSUME NEW D, IsFiniteSet(D), NEW v \in [D -> Nat], NEW sector, NEW cap \in Nat
  PROVE  LET u == CapSectorRound(v, [s \in D |-> SectorSum(v, sector, s)], cap) IN
         /\ u \in [D -> Nat]
         /\ Limited(D, v, sector, cap) => u = v
         /\ ~Limited(D, v, sector, cap) =>
              /\ AtLimit(D, v, sector, cap) \subseteq AtLimit(D, u, sector, cap)
              /\ \E s \in AtLimit(D, u, sector, cap) : s \notin AtLimit(D, v, sector, cap)
<1>. DEFINE sum == [s \in D |-> SectorSum(v, sector, s)]
            cut == [s \in D |-> IF sum[s] > cap THEN (v[s] * cap) \div sum[s] ELSE v[s]]
            under == {s \in D : sum[s] < cap - Cardinality(D) /\ cut[s] > 0}
            excess == SumFunction(v) - SumFunction(cut)
            u == CapSectorRound(v, sum, cap)
<1>1. DOMAIN v = D /\ Cardinality(D) \in Nat /\ \A s \in D : v[s] \in Nat
  BY FS_CardinalityType
<1>2. \A s \in D : sum[s] = SectorSum(v, sector, s) /\ sum[s] \in Nat
  BY MatesAre
<1>3. u = IF Limited(D, v, sector, cap) THEN v ELSE Shared(cut, under, excess)
  <2>1. u = CutSectors(v, sum, cut, cap)
    BY <1>1 DEF CapSectorRound
  <2>2. (\A s \in D : sum[s] <= cap) <=> Limited(D, v, sector, cap)
    BY DEF Limited
  <2>. HIDE DEF u, sum, cut
  <2>. QED BY <1>1, <2>1, <2>2 DEF CutSectors
<1>. HIDE DEF u, sum
<1>4. \A s \in D : cut[s] \in Nat /\ cut[s] <= v[s]
  <2>. SUFFICES ASSUME NEW s \in D, sum[s] > cap
                PROVE  (v[s] * cap) \div sum[s] \in Nat /\ (v[s] * cap) \div sum[s] <= v[s]
    BY <1>1
  <2>. DEFINE p == (v[s] * cap) \div sum[s]
  <2>1. v[s] \in Nat /\ sum[s] \in Nat \ {0} /\ v[s] * cap \in Nat
    BY <1>1, <1>2
  <2>2. p \in Nat /\ p * sum[s] <= v[s] * cap
    <3>1. \A i \in Nat, j \in Nat \ {0} : i \div j \in Nat /\ (i \div j) * j <= i
      BY Division
    <3>. QED BY Zenon, <2>1, <3>1
  <2>3. v[s] * cap <= v[s] * sum[s]
    <3>1. \A i, j, k \in Nat : j <= k => i * j <= i * k
      OBVIOUS
    <3>2. cap <= sum[s] /\ sum[s] \in Nat
      BY <2>1
    <3>. QED BY <2>1, <3>1, <3>2
  <2>. HIDE DEF p
  <2>4. p * sum[s] <= v[s] * sum[s]
    <3>1. p * sum[s] \in Nat /\ v[s] * sum[s] \in Nat
      BY <2>1, <2>2
    <3>. QED BY <2>1, <2>2, <2>3, <3>1
  <2>5. p <= v[s]
    BY <2>1, <2>2, <2>4, Cancel
  <2>. QED BY <2>2, <2>5 DEF p
<1>5. cut \in [D -> Nat] /\ DOMAIN cut = D
  BY <1>4
<1>6. /\ \A s \in D : sum[s] > cap => cut[s] = (v[s] * cap) \div sum[s]
      /\ \A s \in D : ~(sum[s] > cap) => cut[s] = v[s]
  OBVIOUS
<1>. HIDE DEF cut
<1>7. excess \in Nat
  <2>1. SumOver(cut, D) <= SumOver(v, D)
    BY <1>1, <1>4, SumLeq
  <2>2. SumOver(cut, D) \in Nat /\ SumOver(v, D) \in Nat
    BY <1>1, <1>4, SumNat
  <2>3. excess = SumOver(v, D) - SumOver(cut, D)
    BY <1>1, <1>5, SumFunctionIs
  <2>. QED BY <2>1, <2>2, <2>3
<1>. HIDE DEF excess
<1>8. under \in SUBSET D
  OBVIOUS
<1>9. /\ Shared(cut, under, excess) \in [D -> Nat]
      /\ \A s \in D \ under : Shared(cut, under, excess)[s] = cut[s]
  <2>. HIDE DEF under
  <2>. QED BY <1>5, <1>7, <1>8, SharedIs
<1>10. u \in [D -> Nat]
  BY <1>3, <1>9
<1>11. ASSUME ~Limited(D, v, sector, cap)
       PROVE  /\ AtLimit(D, v, sector, cap) \subseteq AtLimit(D, u, sector, cap)
              /\ \E s \in AtLimit(D, u, sector, cap) : s \notin AtLimit(D, v, sector, cap)
  <2>1. \A s \in D : sum[s] >= cap - Cardinality(D) => u[s] = cut[s]
    BY <1>1, <1>2, <1>3, <1>9, <1>11
  <2>2. ASSUME NEW s \in D, sum[s] >= cap - Cardinality(D) PROVE s \in AtLimit(D, u, sector, cap)
    <3>. DEFINE M == Mates(D, sector, s)
    <3>1. /\ M \in SUBSET D /\ IsFiniteSet(M)
          /\ Cardinality(M) \in Nat /\ Cardinality(M) <= Cardinality(D)
          /\ sum[s] = SumOver(v, M)
          /\ \A t \in M : sum[t] = sum[s]
      BY <1>2, MatesAre
    <3>2. SectorSum(u, sector, s) = SumOver(u, M) /\ SectorSum(u, sector, s) \in Nat
      BY <1>10, MatesAre
    <3>. HIDE DEF M
    <3>3. SumOver(u, M) = SumOver(cut, M)
      <4>1. \A t \in M : u[t] = cut[t]
        BY <2>1, <2>2, <3>1
      <4>. QED BY <3>1, <4>1, SumSame
    <3>4. SumOver(cut, M) <= cap /\ cap - Cardinality(D) <= SumOver(cut, M)
      <4>1. CASE sum[s] > cap
        <5>1. \A t \in M : v[t] \in Nat /\ cut[t] = (v[t] * cap) \div sum[s]
          BY <1>1, <1>6, <3>1, <4>1
        <5>2. sum[s] \in Nat \ {0}
          BY <1>2, <4>1
        <5>3. /\ SumOver(cut, M) \in Nat
              /\ SumOver(cut, M) <= cap
              /\ cap <= SumOver(cut, M) + Cardinality(M)
          BY <3>1, <5>1, <5>2, PartsAddUp
        <5>. QED BY <1>1, <3>1, <5>3
      <4>2. CASE ~(sum[s] > cap)
        <5>1. \A t \in M : cut[t] = v[t]
          BY <1>6, <3>1, <4>2
        <5>2. SumOver(cut, M) = sum[s]
          BY <3>1, <5>1, SumSame
        <5>. QED BY <1>1, <1>2, <2>2, <4>2, <5>2
      <4>. QED BY <4>1, <4>2
    <3>. QED BY <3>2, <3>3, <3>4 DEF AtLimit
  <2>3. AtLimit(D, v, sector, cap) \subseteq AtLimit(D, u, sector, cap)
    BY <1>1, <1>2, <2>2 DEF AtLimit
  <2>4. PICK s \in D : sum[s] > cap
    BY <1>2, <1>11 DEF Limited
  <2>5. s \in AtLimit(D, u, sector, cap)
    BY <1>1, <1>2, <2>2, <2>4
  <2>6. s \notin AtLimit(D, v, sector, cap)
    BY <1>2, <2>4 DEF AtLimit
  <2>. QED BY <2>3, <2>5, <2>6
<1>. QED BY <1>3, <1>10, <1>11 DEF u, sum

\* After as many rounds as there are symbols every sector is within its limit, or all are at it.
LEMMA SectorCapped ==
  ASSUME NEW D, IsFiniteSet(D), NEW w \in [D -> Nat], NEW sector, NEW cap \in Nat, cap < Unit
  PROVE  Limited(D, CapSector(w, sector, cap), sector, cap)
<1>. DEFINE m == Cardinality(D) + 1
            V == [D -> Nat]
            Round(v) == CapSectorRound(v, [s \in D |-> SectorSum(v, sector, s)], cap)
            turn == [v \in V |-> Round(v)]
            At(v) == AtLimit(D, v, sector, cap)
            Good(k, v) == v \in V /\ (Limited(D, v, sector, cap) \/ k <= Cardinality(At(v)))
            Rounds(f) == f = [k \in 0 .. m |-> IF k = 0 THEN {w} ELSE {Round(v) : v \in f[k - 1]}]
            rounds == CHOOSE f : Rounds(f)
<1>1. m \in Nat /\ DOMAIN w = D /\ Cardinality(D) \in Nat
  BY FS_CardinalityType
<1>2. \A v : At(v) \in SUBSET D /\ IsFiniteSet(At(v)) /\ Cardinality(At(v)) \in Nat /\ Cardinality(At(v)) < m
  <2>. SUFFICES ASSUME NEW v
                PROVE  At(v) \in SUBSET D /\ IsFiniteSet(At(v)) /\ Cardinality(At(v)) \in Nat
                       /\ Cardinality(At(v)) < m
    OBVIOUS
  <2>1. At(v) \in SUBSET D
    BY DEF AtLimit
  <2>2. IsFiniteSet(At(v)) /\ Cardinality(At(v)) <= Cardinality(D) /\ Cardinality(At(v)) \in Nat
    <3>. HIDE DEF At
    <3>. QED BY <2>1, FS_Subset, FS_CardinalityType
  <2>. HIDE DEF At
  <2>. QED BY <1>1, <2>1, <2>2
<1>3. ASSUME NEW k \in Nat, NEW v, Good(k, v) PROVE Good(k + 1, Round(v))
  <2>. DEFINE u == Round(v)
  <2>1. /\ u \in V
        /\ Limited(D, v, sector, cap) => u = v
        /\ ~Limited(D, v, sector, cap) => At(v) \subseteq At(u) /\ \E s \in At(u) : s \notin At(v)
    BY <1>3, SectorRound
  <2>. HIDE DEF u
  <2>2. CASE Limited(D, v, sector, cap)
    BY <2>1, <2>2 DEF u
  <2>3. CASE ~Limited(D, v, sector, cap)
    <3>1. PICK s \in At(u) : s \notin At(v)
      BY <2>1, <2>3
    <3>. HIDE DEF At
    <3>2. At(v) \subseteq At(u) \ {s}
      BY <2>1, <2>3, <3>1
    <3>3. Cardinality(At(v)) <= Cardinality(At(u) \ {s}) /\ Cardinality(At(u) \ {s}) = Cardinality(At(u)) - 1
      <4>1. IsFiniteSet(At(u) \ {s}) /\ Cardinality(At(u) \ {s}) = Cardinality(At(u)) - 1
        BY <1>2, <3>1, FS_RemoveElement
      <4>. QED BY <3>2, <4>1, FS_Subset
    <3>4. k + 1 <= Cardinality(At(u))
      BY <1>2, <1>3, <2>3, <3>3
    <3>. QED BY <2>1, <3>4 DEF u
  <2>. QED BY <2>2, <2>3
<1>4. Good(0, w)
  BY <1>2
<1>5. \A v \in V : turn[v] = Round(v) /\ turn[v] \in V
  <2>. SUFFICES ASSUME NEW v \in V PROVE turn[v] = Round(v) /\ turn[v] \in V
    OBVIOUS
  <2>1. turn[v] = Round(v)
    OBVIOUS
  <2>2. Round(v) \in V
    BY SectorRound
  <2>. HIDE DEF turn, Round
  <2>. QED BY <2>1, <2>2
<1>. HIDE DEF turn, m
<1>6. PICK f : AreRounds(f, m, w, turn) /\ StayIn(f, m, V)
  <2>1. \A v \in V : turn[v] \in V
    BY <1>5
  <2>2. w \in V
    OBVIOUS
  <2>. HIDE DEF Rounds, rounds, V
  <2>. QED BY <1>1, <2>1, <2>2, RoundsExist
<1>. HIDE DEF V, Round
<1>7. Rounds(f)
  <2>1. ASSUME NEW k \in 0 .. m, k # 0
        PROVE  {turn[v] : v \in f[k - 1]} = {Round(v) : v \in f[k - 1]}
    <3>1. k - 1 \in 0 .. m
      BY <1>1, <2>1
    <3>2. PICK v \in V : f[k - 1] = {v}
      BY <1>6, <3>1 DEF StayIn
    <3>. QED BY <1>5, <3>2
  <2>. QED BY <1>6, <2>1 DEF AreRounds
<1>8. Rounds(rounds)
  BY <1>7
<1>9. \A k \in Nat : k <= m => \E v : Good(k, v) /\ rounds[k] = {v}
  <2>. DEFINE Goods == {k \in Nat : k <= m => \E v : Good(k, v) /\ rounds[k] = {v}}
  <2>. HIDE DEF rounds, Good
  <2>1. 0 \in Goods
    <3>1. rounds[0] = {w}
      BY <1>1, <1>8
    <3>. QED BY <1>4, <3>1
  <2>2. ASSUME NEW k \in Nat, k \in Goods PROVE k + 1 \in Goods
    <3>. SUFFICES ASSUME k + 1 <= m PROVE \E v : Good(k + 1, v) /\ rounds[k + 1] = {v}
      OBVIOUS
    <3>1. PICK v : Good(k, v) /\ rounds[k] = {v}
      BY <1>1, <2>2
    <3>2. k + 1 \in 0 .. m /\ k + 1 # 0 /\ (k + 1) - 1 = k
      BY <1>1
    <3>3. rounds[k + 1] = {Round(u) : u \in rounds[k]}
      BY <1>8, <3>2
    <3>4. rounds[k + 1] = {Round(v)}
      BY <3>1, <3>3
    <3>. QED BY <1>3, <3>1, <3>4
  <2>. HIDE DEF Goods
  <2>3. Nat \subseteq Goods
    BY <2>1, <2>2, NatSetInduction
  <2>. QED BY <2>3 DEF Goods
<1>10. CapSector(w, sector, cap) = Only(rounds[m])
  <2>1. ~(cap >= Unit)
    BY DEF Unit
  <2>2. \A v \in V : DOMAIN v = D
    BY DEF V
  <2>. QED BY <1>1, <2>1 DEF CapSector, m, Round
<1>. HIDE DEF rounds
<1>11. PICK v : Good(m, v) /\ rounds[m] = {v}
  <2>. HIDE DEF Good
  <2>. QED BY <1>1, <1>9
<1>12. CapSector(w, sector, cap) = v
  BY <1>10, <1>11 DEF Only
<1>13. Limited(D, v, sector, cap)
  BY <1>1, <1>2, <1>11
<1>. QED BY <1>12, <1>13

\* However the excess of a symbol or a sector is handed on: after the rounds of risk_caps.py
\* no sector has more than its limit, for any weights, sectors and limits.
THEOREM SectorsCapped == CaseSpec => []SectorsWithinCap
<1>1. ASSUME NEW c \in Cases, c.kind = "caps", NEW s \in DOMAIN c.weights
      PROVE  SectorSum(CappedOf(c), c.sector, s) <= c.cap
  <2>. DEFINE D == DOMAIN c.weights
              w == CapPosition(c.weights, c.position)
  <2>1. IsWeighting(c)
    BY <1>1, CasesAssumption
  <2>2. w \in [D -> Nat] /\ SumOver(w, D) <= SumOver(c.weights, D)
    BY <2>1, PositionCapped DEF IsWeighting
  <2>3. SumOver(c.weights, D) = SumFunction(c.weights)
    BY SumFunctionIs
  <2>. HIDE DEF w
  <2>4. CASE c.cap < Unit
    <3>1. Limited(D, CapSector(w, c.sector, c.cap), c.sector, c.cap)
      BY <2>1, <2>2, <2>4, SectorCapped DEF IsWeighting
    <3>. QED BY <3>1 DEF Limited, CappedOf, w
  <2>5. CASE c.cap >= Unit /\ SumFunction(c.weights) <= Unit
    <3>1. CappedOf(c) = w
      BY <2>5 DEF CappedOf, CapSector, w
    <3>2. SectorSum(w, c.sector, s) = SumOver(w, Mates(D, c.sector, s)) /\ Mates(D, c.sector, s) \in SUBSET D
          /\ SectorSum(w, c.sector, s) \in Nat
      BY <1>1, <2>1, <2>2, MatesAre DEF IsWeighting
    <3>3. SumOver(w, Mates(D, c.sector, s)) <= SumOver(w, D) /\ SumOver(w, D) \in Nat
      <4>1. IsFiniteSet(D) /\ \A x \in D : w[x] \in Nat
        BY <2>1, <2>2 DEF IsWeighting
      <4>. QED BY <3>2, <4>1, SumSubset, SumNat
    <3>4. SumFunction(c.weights) \in Nat /\ c.cap \in Nat
      BY <2>1, <2>3, SumNat DEF IsWeighting
    <3>. QED BY <2>2, <2>3, <2>5, <3>1, <3>2, <3>3, <3>4 DEF Unit
  <2>. QED BY <2>1, <2>4, <2>5 DEF IsWeighting, Unit
<1>2. case \in Cases => SectorsWithinCap
  BY <1>1 DEF SectorsWithinCap
<1>3. CaseInit => case \in Cases
  BY DEF CaseInit
<1>4. case \in Cases /\ [CaseNext]_case => (case \in Cases)'
  BY DEF CaseNext
<1>. QED BY <1>2, <1>3, <1>4, PTL DEF CaseSpec
=============================================================================

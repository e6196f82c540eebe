--------------------------- MODULE PortfolioRules ---------------------------
(***************************************************************************)
(* The rules that the live runner and the backtest of a rebalancing        *)
(* strategy share: what is selected and with which weight                  *)
(* (engine/rebalance.py), the limits put on the weights                    *)
(* (backtest/risk_caps.py), the orders that lead there, live and simulated *)
(* (backtest/portfolio.py).                                                *)
(*                                                                         *)
(* A weight is a whole number of parts of Unit, an amount a whole number   *)
(* of won; every division rounds down, where the code has floats.  Cash    *)
(* alone is counted in parts of Unit, so that costs are not rounded away.  *)
(***************************************************************************)
EXTENDS Integers, Sequences, SequencesExt, FiniteSetsExt, Functions

Unit == 1000                 \* the weight 1.0
NoValue == -1000000          \* None, or NaN
AtMost(a, b) == IF a < b THEN a ELSE b
AtLeast(a, b) == IF a > b THEN a ELSE b
MinWeight == 5
MaxWeight == 150
\* The element of a singleton: a loop is the function from its rounds to {state}.
Only(S) == CHOOSE x \in S : TRUE
Equal(S) == [s \in S |-> Unit \div Cardinality(S)]

(***************************************************************************)
(* Selection                                                               *)
(***************************************************************************)
\* The symbols of S (a subset of the sequence universe) that have the n highest keys;
\* ties keep the order of the universe, list.sort being stable.
Position(universe, s) == CHOOSE i \in DOMAIN universe : universe[i] = s
Ranked(universe, S, key) ==
  SetToSortSeq(S, LAMBDA a, b : \/ key[a] > key[b]
                                \/ key[a] = key[b] /\ Position(universe, a) < Position(universe, b))
TopN(universe, S, key, n) ==
  LET ranked == Ranked(universe, S, key) IN SubSeq(ranked, 1, AtMost(n, Len(ranked)))

\* The return over the lookback, for a history that is long enough.
HasData(h, need) == Len(h) >= need
Return(h, lookback) == (h[Len(h)] * Unit) \div h[Len(h) - lookback] - Unit
Comparable(h, lookback) == HasData(h, lookback + 1) /\ h[Len(h) - lookback] > 0

\* The volatility gate: v is [bars, short, long, aboveMean] of a symbol.
PassesVolGate(v, gate) ==
  /\ v.bars >= gate.base + 1
  /\ v.long > 0
  /\ v.short * Unit >= gate.spikeMin * v.long
  /\ gate.spikeMax # NoValue => v.short * Unit <= gate.spikeMax * v.long
  /\ v.short <= gate.cap
  /\ gate.uptrend => v.aboveMean

\* compute_target_weights, up to the weighting: a sequence, best first.
Scored(universe, in, sel) ==
  {s \in ToSet(universe) : /\ in.score[s] # NoValue
                           /\ \A gate \in sel.gate : PassesVolGate(in.vol[s], gate)
                           /\ sel.minScore # NoValue => in.score[s] >= sel.minScore}
Momentum(universe, in, sel) ==
  LET able == {s \in ToSet(universe) : Comparable(in.history[s], sel.lookback)}
  IN  TopN(universe, able, [s \in able |-> Return(in.history[s], sel.lookback)], sel.topN)
InPosition(universe, in) ==
  SelectSeq(universe, LAMBDA s : HasData(in.history[s], in.need) /\ in.state[s])
WithData(universe, in) == SelectSeq(universe, LAMBDA s : HasData(in.history[s], 1))

Selected(universe, in, sel) ==
  CASE sel.method = "score" -> TopN(universe, Scored(universe, in, sel), in.score, sel.topN)
    [] sel.method = "custom" -> InPosition(universe, in)
    [] sel.method = "all" -> WithData(universe, in)
    [] OTHER -> Momentum(universe, in, sel)

(***************************************************************************)
(* Weights                                                                 *)
(***************************************************************************)
\* The n-th of N gets N - n + 1 shares out of N * (N + 1) / 2.
RankWeighted(ranked) ==
  LET n == Len(ranked) IN
  [s \in ToSet(ranked) |->
     ((n - Position(ranked, s) + 1) * 2 * Unit) \div (n * (n + 1))]

\* One round of the water filling: those above the ceiling are fixed first, those
\* below the floor only in a round that has none of them.
Left(st) == Unit - SumFunction(st.fixed)
Rescaled(raw, st) ==
  [s \in st.free |-> (raw[s] * Left(st)) \div SumFunctionOnSet(raw, st.free)]

Fix(st, w) == [fixed |-> st.fixed @@ w, free |-> st.free \ DOMAIN w]

\* Both kinds fixed in the same round.
BoundedBoth(st, scaled, lo, hi) ==
  LET over == {s \in st.free : scaled[s] > hi}
      under == {s \in st.free : scaled[s] < lo}
  IN  IF over \cup under = {} THEN Fix(st, scaled)
      ELSE Fix(st, [s \in over \cup under |-> IF s \in over THEN hi ELSE lo])

Bounded(st, scaled, lo, hi) ==
  LET over == {s \in st.free : scaled[s] > hi}
      under == {s \in st.free : scaled[s] < lo}
  IN  CASE over # {} -> Fix(st, [s \in over |-> hi])
        [] over = {} /\ under # {} -> Fix(st, [s \in under |-> lo])
        [] OTHER -> Fix(st, scaled)

FillRound(raw, st, lo, hi) ==
  CASE st.free = {} -> st
    [] st.free # {} /\ SumFunctionOnSet(raw, st.free) <= 0 ->
         Fix(st, [s \in st.free |-> Left(st) \div Cardinality(st.free)])
    [] OTHER -> Bounded(st, Rescaled(raw, st), lo, hi)

CapNormalized(raw, lo, hi) ==
  LET S == DOMAIN raw
      n == Cardinality(S)
      rounds[k \in 0 .. n + 2] ==
        IF k = 0 THEN {[fixed |-> <<>>, free |-> S]}
        ELSE {FillRound(raw, st, lo, hi) : st \in rounds[k - 1]}
      Rest(st) == Fix(st, [s \in st.free |-> Left(st) \div Cardinality(st.free)])
  IN  CASE n = 0 -> <<>>
        [] n = 1 -> [s \in S |-> Unit]
        [] n > 1 /\ (lo * n > Unit \/ hi * n < Unit \/ SumFunction(raw) <= 0) -> Equal(S)
        [] OTHER -> Only({Rest(st).fixed : st \in rounds[n + 2]})

\* One over the volatility, for the symbols that have one; nobody has: equal weights.
InverseVolWeights(vol, S, lo, hi) ==
  LET valid == {s \in S : vol[s] # NoValue /\ vol[s] > 0}
      capped == CapNormalized([s \in valid |-> Unit \div vol[s]], lo, hi)
  IN  IF valid = {} THEN Equal(S)
      ELSE [s \in S |-> IF s \in valid THEN capped[s] ELSE 0]

Weighted(ranked, in, sel) ==
  CASE ranked = <<>> -> <<>>
    [] ranked # <<>> /\ sel.weighting = "score" /\ sel.method = "score" -> RankWeighted(ranked)
    [] ranked # <<>> /\ sel.weighting = "inverse_vol" ->
         InverseVolWeights(in.annual, ToSet(ranked), MinWeight, MaxWeight)
    [] OTHER -> Equal(ToSet(ranked))

TargetWeights(universe, in, sel) == Weighted(Selected(universe, in, sel), in, sel)

\* _dynamic_universe: the strongest of the pool over the rule's lookback.
DynamicUniverse(pool, history, rule) ==
  LET able == {s \in ToSet(pool) : Comparable(history[s], rule.lookback)}
  IN  TopN(pool, able, [s \in able |-> Return(history[s], rule.lookback)], rule.pick)

(***************************************************************************)
(* Limits on the weights                                                   *)
(***************************************************************************)
\* One symbol holds at most cap; what is cut off goes to those below, in proportion.
Shared(cut, under, excess) ==
  LET pool == SumFunctionOnSet(cut, under) IN
  IF pool = 0 THEN cut
  ELSE [s \in DOMAIN cut |-> IF s \in under THEN cut[s] + (excess * cut[s]) \div pool ELSE cut[s]]

CapPositionRound(w, cap) ==
  LET excess == SumFunction([s \in DOMAIN w |-> AtLeast(w[s] - cap, 0)]) IN
  IF excess = 0 THEN w
  ELSE Shared([s \in DOMAIN w |-> AtMost(w[s], cap)], {s \in DOMAIN w : w[s] < cap}, excess)

CapPosition(w, cap) ==
  LET rounds[k \in 0 .. Cardinality(DOMAIN w) + 1] ==
        IF k = 0 THEN {w} ELSE {CapPositionRound(v, cap) : v \in rounds[k - 1]}
  IN  IF cap >= Unit THEN w ELSE Only(rounds[Cardinality(DOMAIN w) + 1])

\* The same for the sum of a sector; a symbol without one is a sector of its own.  A sum
\* within the rounding of the cap is at the cap.
SectorSum(w, sector, s) ==
  SumFunctionOnSet(w, {t \in DOMAIN w : t = s \/ (sector[t] # NoValue /\ sector[t] = sector[s])})

CutSectorsForAll(w, sum, cut, cap) ==
  IF \A s \in DOMAIN w : sum[s] <= cap THEN w
  ELSE Shared(cut, {s \in DOMAIN w : cut[s] > 0}, SumFunction(w) - SumFunction(cut))

CutSectors(w, sum, cut, cap) ==
  IF \A s \in DOMAIN w : sum[s] <= cap THEN w
  ELSE Shared(cut, {s \in DOMAIN w : sum[s] < cap - Cardinality(DOMAIN w) /\ cut[s] > 0},
              SumFunction(w) - SumFunction(cut))

CapSectorRound(w, sum, cap) ==
  CutSectors(w, sum, [s \in DOMAIN w |-> IF sum[s] > cap THEN (w[s] * cap) \div sum[s] ELSE w[s]], cap)

CapSector(w, sector, cap) ==
  LET rounds[k \in 0 .. Cardinality(DOMAIN w) + 1] ==
        IF k = 0 THEN {w}
        ELSE {CapSectorRound(v, [s \in DOMAIN w |-> SectorSum(v, sector, s)], cap) : v \in rounds[k - 1]}
  IN  IF cap >= Unit THEN w ELSE Only(rounds[Cardinality(DOMAIN w) + 1])

\* vol is the annual volatility of the portfolio, NoValue when it cannot be estimated.
VolTarget(w, risk, vol) ==
  LET scale == AtMost(risk.maxLeverage, (risk.targetVol * Unit) \div vol) IN
  IF vol # NoValue /\ vol > 0 /\ scale < Unit
  THEN [s \in DOMAIN w |-> (w[s] * scale) \div Unit]
  ELSE w

Concentrated(w, risk) == IF risk.maxPosition # NoValue THEN CapPosition(w, risk.maxPosition) ELSE w
BySector(w, risk, sector) ==
  IF risk.maxSector # NoValue /\ sector # <<>> THEN CapSector(w, sector, risk.maxSector) ELSE w

ApplyRiskCaps(w, risk, sector, vol) ==
  IF w = <<>> THEN w
  ELSE IF risk.targetVol # NoValue THEN VolTarget(BySector(Concentrated(w, risk), risk, sector), risk, vol)
  ELSE BySector(Concentrated(w, risk), risk, sector)

ScaleTargets(w, exposure) ==
  IF w = <<>> \/ exposure >= Unit THEN w
  ELSE [s \in DOMAIN w |-> (w[s] * AtLeast(0, exposure)) \div Unit]

\* _targets_at.
TargetsAt(pool, in, config, exposure) ==
  LET universe == IF config.rule = {} THEN pool ELSE DynamicUniverse(pool, in.history, CHOOSE r \in config.rule : TRUE)
      weights == TargetWeights(universe, in, config.selection)
  IN  ScaleTargets(ApplyRiskCaps(weights, config.risk, in.sector, in.portfolioVol), exposure)

(***************************************************************************)
(* The orders of the live runner (compute_rebalance_orders): the change of *)
(* each symbol's quantity                                                  *)
(***************************************************************************)
Weight(targets, s) == IF s \in DOMAIN targets THEN targets[s] ELSE 0
Distance(a, b) == IF a > b THEN a - b ELSE b - a

\* A purchase of something new and a full exit ignore the drift band.
Moves(value, weight, equity, band) ==
  \/ value = 0 /\ weight > 0
  \/ value > 0 /\ weight <= 0
  \/ Distance(value * Unit, weight * equity) > band * equity

\* The drift band also holds back new entries and full exits.
LiveOrdersBanded(targets, qty, price, capital, band) ==
  [s \in DOMAIN qty |->
     IF /\ capital > 0 /\ price[s] > 0
        /\ Distance(qty[s] * price[s] * Unit, Weight(targets, s) * capital) > band * capital
     THEN (Weight(targets, s) * capital) \div (Unit * price[s]) - qty[s]
     ELSE 0]

LiveOrders(targets, qty, price, capital, band) ==
  [s \in DOMAIN qty |->
     IF /\ capital > 0 /\ price[s] > 0
        /\ Moves(qty[s] * price[s], Weight(targets, s), capital, band)
     THEN (Weight(targets, s) * capital) \div (Unit * price[s]) - qty[s]
     ELSE 0]

(***************************************************************************)
(* Prices of the exchange                                                  *)
(***************************************************************************)
TickSize(price) ==
  CASE price < 2000 -> 1 [] price >= 2000 /\ price < 5000 -> 5
    [] price >= 5000 /\ price < 20000 -> 10 [] price >= 20000 /\ price < 50000 -> 50
    [] price >= 50000 /\ price < 200000 -> 100 [] price >= 200000 /\ price < 500000 -> 500
    [] OTHER -> 1000

\* Python's round: to the nearest multiple, a tie to the even one.
RoundToTick(price) ==
  LET tick == TickSize(price)
      low == price \div tick
      twice == 2 * (price % tick)
  IN  IF price <= 0 THEN price
      ELSE IF twice < tick \/ (twice = tick /\ low % 2 = 0) THEN low * tick ELSE (low + 1) * tick

LowerLimit(close) == RoundToTick((close * 7) \div 10)
UpperLimit(close) == RoundToTick((close * 13) \div 10)

\* Blocked in the direction of the limit that the price has reached.
Blocked(side, price, prev) ==
  /\ price > 0 /\ prev > 0
  /\ IF side = "buy" THEN price >= UpperLimit(prev) ELSE price <= LowerLimit(prev)
(***************************************************************************)
(* The fills of the backtest (_apply_rebalance).  book is [cash, val], the *)
(* cash in parts of Unit and the value of each symbol.  m is the market of *)
(* the day: [price, prev, adv] by symbol, 0 for a missing price.  opt is   *)
(* [fees, tax, slip, band, shares, limits], costs in parts of Unit.        *)
(***************************************************************************)
FloorToShares(amount, price) == IF price <= 0 THEN amount ELSE (amount \div price) * price
AdvCapped(amount, adv) == IF adv = NoValue \/ adv <= 0 THEN amount ELSE AtMost(amount, adv)

FillPrice(m, opt, s) == IF opt.limits THEN RoundToTick(m.price[s]) ELSE m.price[s]
LimitBlocked(m, opt, side, s) == opt.limits /\ Blocked(side, m.price[s], m.prev[s])

\* What the targets ask for, before anything holds it back: negative for a sale.
Wanted(book, targets, equity, opt, liquidate, s) ==
  IF liquidate THEN -book.val[s]
  ELSE IF Moves(book.val[s], Weight(targets, s), equity, opt.band)
       THEN (Weight(targets, s) * equity) \div Unit - book.val[s]
       ELSE 0

\* A forced liquidation is exempt from the participation cap, and a sale of
\* everything from whole shares.
SoldAmount(book, want, m, opt, liquidate, s) ==
  LET amount == IF liquidate THEN -want ELSE AdvCapped(-want, m.adv[s])
      whole == IF opt.shares /\ amount < book.val[s] THEN FloorToShares(amount, FillPrice(m, opt, s)) ELSE amount
  IN  IF want >= 0 \/ LimitBlocked(m, opt, "sell", s) THEN 0 ELSE AtMost(whole, book.val[s])

BoughtAmount(want, m, opt, s) ==
  LET amount == AdvCapped(want, m.adv[s]) IN
  IF want <= 0 \/ LimitBlocked(m, opt, "buy", s) THEN 0
  ELSE IF opt.shares THEN FloorToShares(amount, FillPrice(m, opt, s)) ELSE amount

Proceeds(amount, opt) == amount * (Unit - opt.fees - opt.tax - opt.slip)
BuyCost(amount, opt) == amount * (Unit + opt.fees + opt.slip)

AffordableAlways(asked, cash, bill) == asked

\* Sales first.  Purchases that the cash cannot pay shrink in proportion.
Affordable(asked, cash, bill) ==
  [s \in DOMAIN asked |-> IF bill > cash THEN (asked[s] * cash) \div bill ELSE asked[s]]

Bill(bought, opt) == SumFunction([s \in DOMAIN bought |-> BuyCost(bought[s], opt)])

Settled(book, cash, sold, bought, opt) ==
  [cash |-> cash - Bill(bought, opt),
   val |-> [s \in DOMAIN sold |-> book.val[s] - sold[s] + bought[s]]]

WithSales(book, sold, asked, opt) ==
  LET cash == book.cash + SumFunction([s \in DOMAIN sold |-> Proceeds(sold[s], opt)]) IN
  Settled(book, cash, sold, Affordable(asked, cash, Bill(asked, opt)), opt)

WithWants(book, want, m, opt, liquidate) ==
  WithSales(book, [s \in DOMAIN want |-> SoldAmount(book, want[s], m, opt, liquidate, s)],
            [s \in DOMAIN want |-> BoughtAmount(want[s], m, opt, s)], opt)

ApplyRebalance(book, targets, equity, m, opt, liquidate) ==
  IF equity <= 0 THEN [cash |-> 0, val |-> book.val]
  ELSE WithWants(book, [s \in DOMAIN book.val |-> Wanted(book, targets, equity, opt, liquidate, s)],
                 m, opt, liquidate)

(***************************************************************************)
(* The days of a cadence.  A day is [period, of, length]: its period, its  *)
(* place there and how many days the period has.                           *)
(***************************************************************************)
\* rebalance_dom and rebalance_weekday, clamped to what the period has.
Clamped(chosen, first, length) == AtMost(AtLeast(chosen, first), length)
Reached(d, cadence, chosen) ==
  CASE cadence = "daily" -> TRUE
    [] cadence = "weekly" -> d.of >= Clamped(chosen, 0, 4)
    [] OTHER -> d.of >= Clamped(chosen, 1, d.length)

\* _rebalance_dates: the first trading day of each period that reached the chosen one.
RebalanceDates(days, trading, cadence, chosen) ==
  {i \in trading : /\ Reached(days[i], cadence, chosen)
                   /\ \A j \in trading : /\ j < i /\ days[j].period = days[i].period
                                         => ~Reached(days[j], cadence, chosen)}

\* is_rebalance_due, asked on every trading day after its rebalance_time.
LiveDates(days, trading, cadence, chosen) ==
  LET last[i \in 0 .. Len(days)] ==
        IF i = 0 THEN 0
        ELSE IF /\ i \in trading
                /\ last[i - 1] > 0 => days[last[i - 1]].period # days[i].period
                /\ Reached(days[i], cadence, chosen)
             THEN i ELSE last[i - 1]
  IN  {i \in trading : last[i] = i}
=============================================================================

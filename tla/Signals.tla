------------------------------- MODULE Signals -------------------------------
(***************************************************************************)
(* The entry and exit signals of the sixteen kinds of strategy and of the  *)
(* rules users build (app/services/backtest/signals.py).  The backtest     *)
(* (engine.py) and the live runner (runner.py) share them.                 *)
(*                                                                         *)
(* A series is a function on the bars at which it has a value: a bar at    *)
(* which pandas has NaN is not in its domain.  Signals are sets of bars.   *)
(* Prices and what is derived from them are whole multiples of 1 / Unit,   *)
(* exact for averages over 1 to 4 bars and for decays by one half; square  *)
(* roots are compared by their squares.                                    *)
(***************************************************************************)
EXTENDS Integers, Sequences, FiniteSetsExt

Unit == 1536

Sign(x) == IF x > 0 THEN 1 ELSE IF x < 0 THEN -1 ELSE 0
Magnitude(x) == IF x < 0 THEN -x ELSE x
SumOf(x, bars) == MapThenSumSet(LAMBDA t : x[t], bars)
Highest(x, bars) == Max({x[t] : t \in bars})
Lowest(x, bars) == Min({x[t] : t \in bars})

(***************************************************************************)
(* Series                                                                  *)
(***************************************************************************)
\* bars: the sequence of [open, high, low, close, volume].
Column(bars, name) == [t \in DOMAIN bars |-> bars[t][name]]
Priced(x) == [t \in DOMAIN x |-> x[t] * Unit]
Level(v, x) == [t \in DOMAIN x |-> v]

Window(t, n) == t - n + 1 .. t
Full(x, n) == {t \in DOMAIN x : Window(t, n) \subseteq DOMAIN x}
Rolling(x, n, Op(_, _)) == [t \in Full(x, n) |-> Op(x, Window(t, n))]
\* A series one bar later: shift(1).
Shifted(x) == [t \in {u + 1 : u \in DOMAIN x} |-> x[t - 1]]
Combine(x, y, Op(_, _)) == [t \in DOMAIN x \cap DOMAIN y |-> Op(x[t], y[t])]
Less(x, y) == Combine(x, y, LAMBDA v, w : v - w)
Diff(x) == [t \in DOMAIN x \cap DOMAIN Shifted(x) |-> x[t] - x[t - 1]]

Sma(x, n) == Rolling(x, n, LAMBDA s, w : SumOf(s, w) \div n)

\* adjust=False: the first value is the first observation, and every later one moves
\* towards its observation by num / den; the first n - 1 are not shown.
Ewm(x, num, den, n) ==
  LET first == Min(DOMAIN x)
      e[t \in DOMAIN x] == IF t = first THEN x[t] ELSE ((den - num) * e[t - 1] + num * x[t]) \div den
  IN  IF x = <<>> THEN x ELSE [t \in {u \in DOMAIN x : u >= first + n - 1} |-> e[t]]
Ema(x, n) == Ewm(x, 2, n + 1, n)
Wilder(x, n) == Ewm(x, 1, n, n)

Rsi(x, n) ==
  LET gain == Wilder([t \in DOMAIN Diff(x) |-> Max({Diff(x)[t], 0})], n)
      loss == Wilder([t \in DOMAIN Diff(x) |-> Max({-Diff(x)[t], 0})], n)
  IN  Combine(gain, loss, LAMBDA g, l :
        IF g + l = 0 THEN 50 * Unit ELSE IF l = 0 THEN 100 * Unit ELSE (100 * Unit * g) \div (g + l))

MacdLine(x, fast, slow) == Less(Ema(x, fast), Ema(x, slow))
MacdSignal(x, fast, slow, n) == Ema(MacdLine(x, fast, slow), n)

\* The first bar has no close before it: its range is high less low.
TrueRange(high, low, close) ==
  [t \in DOMAIN close |->
     Max({high[t] - low[t]} \cup
         {Magnitude(v - close[u]) : v \in {high[t], low[t]}, u \in {t - 1} \cap DOMAIN close})]
Atr(high, low, close, n) == Wilder(TrueRange(high, low, close), n)

(***************************************************************************)
(* Crossings                                                               *)
(***************************************************************************)
Both(x, y) == {t \in DOMAIN x \cap DOMAIN y : t - 1 \in DOMAIN x \cap DOMAIN y}
CrossUp(x, y) == {t \in Both(x, y) : x[t] > y[t] /\ x[t - 1] <= y[t - 1]}
CrossDown(x, y) == {t \in Both(x, y) : x[t] < y[t] /\ x[t - 1] >= y[t - 1]}
UpThroughZero(x) == CrossUp(x, Level(0, x))
DownThroughZero(x) == CrossDown(x, Level(0, x))

\* n times the distance from the mean of n bars, and n times n times their variance.
Deviation(x, n) == [t \in Full(x, n) |-> n * x[t] - SumOf(x, Window(t, n))]
Spread(x, n) ==
  [t \in Full(x, n) |->
     n * SumOf([u \in DOMAIN x |-> x[u] * x[u]], Window(t, n))
       - SumOf(x, Window(t, n)) * SumOf(x, Window(t, n))]
\* The sign of d + sqrt(square).
SignWithRoot(d, square) == Sign(IF d >= 0 THEN d + square ELSE square - d * d)

(***************************************************************************)
(* The builders: [entries, exits]                                          *)
(***************************************************************************)
Result(entries, exits) == [entries |-> entries, exits |-> exits]

MaCrossover(fast, slow) == Result(CrossUp(fast, slow), CrossDown(fast, slow))

RsiSignals(rsi, cfg) ==
  Result(CrossUp(rsi, Level(cfg.lower * Unit, rsi)), CrossDown(rsi, Level(cfg.upper * Unit, rsi)))

BollingerSignals(x, cfg) ==
  LET dev == Deviation(x, cfg.period)
      square == [t \in DOMAIN dev |-> cfg.numStd * cfg.numStd * Spread(x, cfg.period)[t]]
      toLower == [t \in DOMAIN dev |-> SignWithRoot(dev[t], square[t])]
      toUpper == [t \in DOMAIN dev |-> -SignWithRoot(-dev[t], square[t])]
  IN  Result(UpThroughZero(toLower), DownThroughZero(toUpper))

\* The channel of the bars before: what it excludes is the bar itself.
Channel(x, n, Op(_, _)) == Shifted(Rolling(x, n, Op))
BreaksOut(close, upper) ==
  {t \in DOMAIN close \cap DOMAIN upper : close[t] > upper[t] /\ close[t - 1] <= upper[t]}
BreaksDown(close, lower) ==
  {t \in DOMAIN close \cap DOMAIN lower : close[t] < lower[t] /\ close[t - 1] >= lower[t]}
BreakoutSignals(x, cfg) ==
  Result(BreaksOut(x, Channel(x, cfg.period, Highest)), BreaksDown(x, Channel(x, cfg.period, Lowest)))

MomentumAhead(x, cfg) ==
  LET mom == [t \in {u \in DOMAIN x : u + cfg.lookback \in DOMAIN x} |-> x[t + cfg.lookback] - x[t]]
  IN  Result(UpThroughZero(mom), DownThroughZero(mom))
MomentumSignals(x, cfg) ==
  LET mom == [t \in {u \in DOMAIN x : u - cfg.lookback \in DOMAIN x} |-> x[t] - x[t - cfg.lookback]]
  IN  Result(UpThroughZero(mom), DownThroughZero(mom))

\* Where all the closes are the same the score is 0 / 0, no value.
ZscoreSignals(x, cfg) ==
  LET n == cfg.period
      spread == Spread(x, n)
      z == [t \in {u \in DOMAIN spread : n > 1 /\ spread[u] > 0} |-> Deviation(x, n)[t]]
      toEntry == [t \in DOMAIN z |->
                    SignWithRoot((n - 1) * z[t], (n - 1) * cfg.entry * cfg.entry * n * spread[t])]
  IN  Result(UpThroughZero(toEntry), UpThroughZero(z))

DisparitySignals(x, cfg) ==
  LET against(level) ==
        [t \in Full(x, cfg.period) |->
           100 * cfg.period * x[t] - level * SumOf(x, Window(t, cfg.period))]
  IN  Result(UpThroughZero(against(cfg.lower)), DownThroughZero(against(cfg.upper)))

SqueezeSignals(x, cfg) ==
  LET n == cfg.period
      r == Diff(x)
      size == [t \in DOMAIN r |-> Magnitude(r[t])]
      spread == Spread(r, n)
      on == {t \in DOMAIN spread :
               cfg.bb * cfg.bb * spread[t] < cfg.kc * cfg.kc * SumOf(size, Window(t, n)) * SumOf(size, Window(t, n))}
      fromMid == Deviation(x, n)
      entries == {t \in DOMAIN fromMid \ on : t - 1 \in on /\ fromMid[t] > 0}
  IN  Result(entries, DownThroughZero(fromMid) \ entries)

TrixSignals(x, cfg) ==
  LET e3 == Ema(Ema(Ema(x, cfg.period), cfg.period), cfg.period)
      trix == [t \in DOMAIN Diff(e3) |-> (100 * Unit * Diff(e3)[t]) \div e3[t - 1]]
  IN  MaCrossover(trix, Ema(trix, cfg.signal))

AtrTrailingSignals(high, low, close, cfg) ==
  LET chandelier == Combine(Rolling(high, cfg.period, Highest), Atr(high, low, close, cfg.atrPeriod),
                            LAMBDA h, r : h - cfg.k * r)
  IN  Result(BreaksOut(close, Channel(high, cfg.period, Highest)), CrossDown(close, chandelier))

\* k in halves.
VolatilityBreakoutSignals(open, high, low, cfg) ==
  LET range == Shifted(Less(high, low))
      entries == {t \in DOMAIN open \cap DOMAIN range : 2 * high[t] >= 2 * open[t] + cfg.k * range[t]}
  IN  Result(entries, {t \in DOMAIN open : t - 1 \in entries} \ entries)

KeltnerSignals(high, low, close, cfg) ==
  LET mid == Ema(close, cfg.emaPeriod)
      upper == Combine(mid, Atr(high, low, close, cfg.atrPeriod), LAMBDA m, r : m + cfg.mult * r)
  IN  Result(CrossUp(close, upper), CrossDown(close, mid))

StochasticSignals(high, low, close, cfg) ==
  LET lowest == Rolling(low, cfg.kPeriod, Lowest)
      range == Less(Rolling(high, cfg.kPeriod, Highest), lowest)
      pctK == [t \in DOMAIN range |->
                 IF range[t] = 0 THEN 50 * Unit ELSE (100 * Unit * (close[t] - lowest[t])) \div range[t]]
      pctD == Sma(pctK, cfg.dPeriod)
  IN  Result({t \in CrossUp(pctK, pctD) : pctK[t] < cfg.lower * Unit},
             {t \in CrossDown(pctK, pctD) : pctK[t] > cfg.upper * Unit})

ObvSignals(close, volume, cfg) ==
  LET obv[t \in DOMAIN close] == IF t = 1 THEN 0 ELSE obv[t - 1] + Sign(close[t] - close[t - 1]) * volume[t]
  IN  MaCrossover(Priced(obv), Sma(Priced(obv), cfg.period))

(***************************************************************************)
(* Rules of the user: trees of comparisons joined by and, or               *)
(***************************************************************************)
Operand(bars, op) ==
  LET close == Priced(Column(bars, "close")) IN
  CASE op.kind = "const" -> Level(op.value * Unit, close)
    [] op.kind = "price" -> Priced(Column(bars, op.source))
    [] op.kind = "sma" -> Sma(close, op.period)
    [] op.kind = "ema" -> Ema(close, op.period)
    [] op.kind = "rsi" -> Rsi(close, op.period)
    [] op.kind = "macd_line" -> MacdLine(close, op.fast, op.slow)
    [] op.kind = "macd_signal" -> MacdSignal(close, op.fast, op.slow, op.signal)

\* [state, valid]: the bars at which the comparison holds and those at which both
\* sides have a value.
Compare(l, op, r) ==
  LET valid == DOMAIN l \cap DOMAIN r IN
  [state |-> {t \in valid : CASE op = ">" -> l[t] > r[t] [] op = "<" -> l[t] < r[t]
                              [] op = ">=" -> l[t] >= r[t] [] op = "<=" -> l[t] <= r[t]},
   valid |-> valid]
Condition(cond, bars) == Compare(Operand(bars, cond.left), cond.op, Operand(bars, cond.right))

\* A list of conditions, the older form, joins them by and.
RECURSIVE Evaluated(_, _)
Evaluated(node, bars) ==
  IF "children" \notin DOMAIN node THEN Condition(node, bars)
  ELSE LET parts == {Evaluated(node.children[i], bars) : i \in DOMAIN node.children}
           all == DOMAIN bars
       IN  [state |-> IF node.combinator = "or" THEN UNION {p.state : p \in parts}
                      ELSE {t \in all : \A p \in parts : t \in p.state},
            valid |-> {t \in all : \A p \in parts : t \in p.valid}]
AsGroup(node) ==
  IF "list" \in DOMAIN node THEN [combinator |-> "and", children |-> node.list] ELSE node

RECURSIVE Conditions(_)
Conditions(node) ==
  IF "children" \in DOMAIN node
  THEN UNION {Conditions(node.children[i]) : i \in DOMAIN node.children} ELSE {node}
Operands(cfg) ==
  UNION {{c.left, c.right} : c \in Conditions(AsGroup(cfg.entry)) \cup Conditions(AsGroup(cfg.exit))}

RisingEdge(r) == {t \in r.state : t - 1 \notin r.state /\ t - 1 \in r.valid}
CustomSignals(bars, cfg) ==
  LET entries == RisingEdge(Evaluated(AsGroup(cfg.entry), bars))
  IN  Result(entries, RisingEdge(Evaluated(AsGroup(cfg.exit), bars)) \ entries)

CustomMinPeriods(cfg) ==
  LET period(op) == CASE op.kind \in {"sma", "ema", "rsi"} -> op.period
                      [] op.kind \in {"macd_line", "macd_signal"} -> op.slow + op.signal
                      [] OTHER -> 1
  IN  Max({1} \cup {period(op) : op \in Operands(cfg)}) + 1

(***************************************************************************)
(* The dispatcher                                                          *)
(***************************************************************************)
GenerateSignals(bars, cfg) ==
  LET close == Column(bars, "close")
      high == Column(bars, "high")
      low == Column(bars, "low")
  IN
  CASE cfg.type = "sma_crossover" -> MaCrossover(Sma(Priced(close), cfg.fast), Sma(Priced(close), cfg.slow))
    [] cfg.type = "ema_crossover" -> MaCrossover(Ema(Priced(close), cfg.fast), Ema(Priced(close), cfg.slow))
    [] cfg.type = "rsi" -> RsiSignals(Rsi(Priced(close), cfg.period), cfg)
    [] cfg.type = "macd" -> MaCrossover(MacdLine(Priced(close), cfg.fast, cfg.slow),
                                        MacdSignal(Priced(close), cfg.fast, cfg.slow, cfg.signal))
    [] cfg.type = "bollinger" -> BollingerSignals(close, cfg)
    [] cfg.type = "breakout" -> BreakoutSignals(close, cfg)
    [] cfg.type = "momentum" -> MomentumSignals(close, cfg)
    [] cfg.type = "zscore" -> ZscoreSignals(close, cfg)
    [] cfg.type = "disparity" -> DisparitySignals(close, cfg)
    [] cfg.type = "donchian_squeeze" -> SqueezeSignals(close, cfg)
    [] cfg.type = "trix" -> TrixSignals(Priced(close), cfg)
    [] cfg.type = "atr_trailing" -> AtrTrailingSignals(Priced(high), Priced(low), Priced(close), cfg)
    [] cfg.type = "volatility_breakout" -> VolatilityBreakoutSignals(Column(bars, "open"), high, low, cfg)
    [] cfg.type = "keltner" -> KeltnerSignals(Priced(high), Priced(low), Priced(close), cfg)
    [] cfg.type = "stochastic" -> StochasticSignals(high, low, close, cfg)
    [] cfg.type = "obv_trend" -> ObvSignals(close, Column(bars, "volume"), cfg)
    [] cfg.type = "custom" -> CustomSignals(bars, cfg)

MinPeriods(cfg) ==
  CASE cfg.type \in {"sma_crossover", "ema_crossover"} -> cfg.slow
    [] cfg.type \in {"bollinger", "zscore", "disparity"} -> cfg.period
    [] cfg.type \in {"rsi", "breakout", "obv_trend"} -> cfg.period + 1
    [] cfg.type = "macd" -> cfg.slow + cfg.signal
    [] cfg.type = "momentum" -> cfg.lookback + 1
    [] cfg.type = "donchian_squeeze" -> cfg.period + 2
    [] cfg.type = "trix" -> 3 * cfg.period + cfg.signal
    [] cfg.type = "atr_trailing" -> Max({cfg.period, cfg.atrPeriod}) + 1
    [] cfg.type = "volatility_breakout" -> 2
    [] cfg.type = "keltner" -> Max({cfg.emaPeriod, cfg.atrPeriod})
    [] cfg.type = "stochastic" -> cfg.kPeriod + cfg.dPeriod
    [] cfg.type = "custom" -> CustomMinPeriods(cfg)

\* What a bar says; an entry outranks an exit.
SignalAt(signals, t) ==
  IF t \in signals.entries THEN "buy" ELSE IF t \in signals.exits THEN "sell" ELSE "none"
LatestSignal(bars, cfg) == SignalAt(GenerateSignals(bars, cfg), Len(bars))

\* The kinds whose signal depends on a fixed number of bars; an exponential average
\* depends on all.
Averages == {"ema_crossover", "rsi", "macd", "trix", "atr_trailing", "keltner"}
FiniteMemory(cfg) ==
  IF cfg.type = "custom" THEN \A op \in Operands(cfg) : op.kind \in {"const", "price", "sma"}
  ELSE cfg.type \notin Averages
=============================================================================

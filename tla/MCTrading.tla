----------------------------- MODULE MCTrading -----------------------------
(***************************************************************************)
(* The strategies on one symbol, the bars signals are made of, and the     *)
(* local copy of market data, in one run: case says which of them a        *)
(* behaviour is about, and the others do not move.                         *)
(***************************************************************************)
EXTENDS MCStrategyRunner, StoreState, PriceTable, Sequences

CONSTANTS Histories, SeedSpan

VARIABLES case, market
P == INSTANCE PriceHistory WITH Markets <- Histories
L == INSTANCE LocalStore
barVars == <<market, tableVars>>
storeVars == <<today, phase, cooling, rows, ledger, index, covered, call>>
all == <<case, vars, barVars, storeVars>>

(***************************************************************************)
(* Strategies and histories                                                *)
(***************************************************************************)
Sma(n) == [kind |-> "sma", period |-> n]
ClosePrice == [kind |-> "price", source |-> "close"]
Three == [kind |-> "const", value |-> 3]
Is(left, op, right) == [left |-> left, op |-> op, right |-> right]
Rule ==
  [type |-> "custom", entry |-> [list |-> <<Is(Sma(1), ">", Sma(2))>>],
   exit |-> [combinator |-> "or",
             children |-> <<Is(Sma(1), "<", Sma(2)),
                            [combinator |-> "and", children |-> <<Is(ClosePrice, ">=", Three)>>]>>]]
\* Each kind of strategy, with the shortest parameters that give it signals.
Kits ==
  {[type |-> "sma_crossover", fast |-> 1, slow |-> 2],
   [type |-> "ema_crossover", fast |-> 1, slow |-> 3],
   [type |-> "rsi", period |-> 2, lower |-> 30, upper |-> 70],
   [type |-> "macd", fast |-> 1, slow |-> 2, signal |-> 2],
   [type |-> "bollinger", period |-> 3, numStd |-> 1],
   [type |-> "breakout", period |-> 2], [type |-> "momentum", lookback |-> 2],
   [type |-> "zscore", period |-> 3, entry |-> 1],
   [type |-> "disparity", period |-> 2, lower |-> 95, upper |-> 105],
   [type |-> "donchian_squeeze", period |-> 3, bb |-> 10, kc |-> 13],
   [type |-> "trix", period |-> 1, signal |-> 2],
   [type |-> "atr_trailing", period |-> 2, atrPeriod |-> 2, k |-> 1],
   [type |-> "volatility_breakout", k |-> 1],
   [type |-> "keltner", emaPeriod |-> 3, atrPeriod |-> 2, mult |-> 1],
   [type |-> "stochastic", kPeriod |-> 2, dPeriod |-> 2, lower |-> 40, upper |-> 60],
   [type |-> "obv_trend", period |-> 2], Rule}

\* A bar opens at the close before it.
Bar(before, c) ==
  [open |-> before, high |-> Max({c, before}), low |-> Min({c, before}), close |-> c, volume |-> 1]
Bars(closes) == [t \in DOMAIN closes |-> Bar(closes[IF t = 1 THEN 1 ELSE t - 1], closes[t])]
SomeHistories ==
  [config : Kits, bars : {Bars(<<2, 2, 2, 2, 1, 4>>), Bars(<<4, 2, 1, 2, 4, 1>>), Bars(<<1, 2, 4, 1, 1, 2>>)}]

\* The same two values name the strategies, the callers of the copy and the markets they
\* ask for together: to swap them everywhere is the symmetry.
Together == {{a, b}}
SomeRanges == {<<1, 1>>, <<3, 3>>, <<1, 4>>}

(***************************************************************************)
(* The runs                                                                *)
(***************************************************************************)
ASSUME StoreAssumption == StoreConstants

AnyOf(set) == CHOOSE x \in set : TRUE
RunnerRests == price = AnyOf(Prices) /\ seed = [s \in Strategies |-> "empty"]
MCInit ==
  /\ Init /\ P!Init /\ L!Init
  /\ \/ case = "runner" /\ market = AnyOf(Histories)
     \/ case = "history" /\ RunnerRests
     \/ case \in {"frames", "ranges"} /\ RunnerRests /\ market = AnyOf(Histories)
\* The frame of the first day is asked for on that day and on the next.
StoreNext(Step(_), days) ==
  \/ \E p \in Callers : Step(p) \/ L!Crash(p)
  \/ L!Close \/ L!Evening \/ (today < days /\ L!NextDay) \/ L!CooldownEnds

MCNext ==
  \/ case = "runner" /\ Next /\ UNCHANGED <<case, barVars, storeVars>>
  \/ case = "history" /\ P!Next /\ UNCHANGED <<case, vars, storeVars>>
  \/ case = "frames" /\ StoreNext(L!FrameStep, 2) /\ UNCHANGED <<case, vars, barVars>>
  \/ case = "ranges" /\ StoreNext(L!RangeStep, LastDay) /\ UNCHANGED <<case, vars, barVars>>

MCSpec == MCInit /\ [][MCNext]_all

\* The property of PriceHistory of this name, where a behaviour is about it.
SignalLooksBack == case = "history" => P!SignalLooksBack
=============================================================================

---------------------------- MODULE PriceHistory ----------------------------
(***************************************************************************)
(* The daily bars of one symbol in price_ticks (PriceTable), the runner    *)
(* that is loaded from them (engine/runner.py), and the signals that the   *)
(* bars of the days until now give (Signals).                              *)
(***************************************************************************)
EXTENDS Signals, PriceTable

CONSTANTS
  Markets,     \* [config, bars]: a strategy and the bar of every day
  SeedSpan     \* days in the seed for every bar the signal needs

VARIABLE market
vars == <<market, tableVars>>

Horizon == DOMAIN market.bars
Config == market.config
Need == MinPeriods(Config)

Init == market \in Markets /\ TableInit

\* The runner starts, or starts again.
Load == Seed(FirstDay(SeedSpan * Need), Need) /\ UNCHANGED market

Close == DayEnds /\ UNCHANGED market
NextDay == date + 1 \in Horizon /\ DayBegins /\ UNCHANGED market

Next ==
  \/ Ingest /\ UNCHANGED market
  \/ (\E n \in Spans : Backtest(n)) /\ UNCHANGED market
  \/ Load \/ Close \/ NextDay
Spec == Init /\ [][Next]_vars

(***************************************************************************)
(* What signals depend on                                                  *)
(***************************************************************************)
LastBars(n) == SubSeq(market.bars, date - n + 1, date)
BacktestSignal == SignalAt(GenerateSignals(market.bars, Config), date)

\* The signal of a day is that of the bars until that day, none of which lies ahead, and
\* unless an exponential average remembers them all, of any last bars that are as many as
\* a backtest (engine.py:66) and the seed of a runner (runner.py:91) must have, one more
\* than min_periods; one bar alone gives none (signals.py:712-767).
OneBarIsSilent == LatestSignal(LastBars(1), Config) = "none"
SignalLooksBack ==
  /\ date \in Horizon /\ OneBarIsSilent
  /\ \A n \in (IF FiniteMemory(Config) THEN Need + 1 .. date ELSE {date}) :
       LatestSignal(LastBars(n), Config) = BacktestSignal
=============================================================================

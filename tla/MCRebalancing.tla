---------------------------- MODULE MCRebalancing ----------------------------
(***************************************************************************)
(* Rebalancing strategies, live and in the backtest, and the rules both    *)
(* share, in one run: case says which of them a behaviour is about, and    *)
(* the others do not move.                                                 *)
(***************************************************************************)
EXTENDS MCRebalanceRunner, PortfolioBacktest, PortfolioCases

CONSTANTS a, b, c, d

(***************************************************************************)
(* Strategies                                                              *)
(***************************************************************************)
Free == [fees |-> 0, tax |-> 0, slip |-> 0, band |-> 50, shares |-> TRUE, limits |-> FALSE]
Costly == [Free EXCEPT !.fees = 125]
Plain == [universe |-> {a}, days |-> 5, killPct |-> 0, rearmDays |-> 2, regime |-> FALSE,
          panic |-> FALSE, eventOnly |-> FALSE, armWindow |-> 1, hold |-> 2, base |-> 500,
          panicExposure |-> 1000, scaleIn |-> 500, knife |-> 50, reclaim |-> 500,
          recovery |-> 900, defer |-> TRUE, adv |-> NoValue, opt |-> Free]
SomeConfigs ==
  {[Plain EXCEPT !.killPct = 30, !.adv = 8, !.regime = TRUE],
   [Plain EXCEPT !.killPct = 30, !.panic = TRUE, !.days = 4],
   [Plain EXCEPT !.panic = TRUE, !.regime = TRUE, !.days = 3],
   [Plain EXCEPT !.panic = TRUE, !.eventOnly = TRUE],
   [Plain EXCEPT !.universe = {a, b}, !.opt = [Costly EXCEPT !.limits = TRUE], !.defer = FALSE,
                 !.killPct = 50, !.days = 3]}

(***************************************************************************)
(* Cases                                                                   *)
(***************************************************************************)
Runner == [kind |-> "runner"]
Simulation == [kind |-> "simulation"]

Accounts ==
  [kind : {"orders"}, qty : [{a, b} -> 0 .. 3], price : [{a, b} -> {2, 3, 7}],
   targets : {<<>>} \cup [{a} -> {500, 1000}] \cup [{a, b} -> {200, 500}], cash : {0, 5, 11},
   band : {0, 100}]
\* At its start an account is worth the capital of its strategy, and later on less or more.
OrderCases == UNION {{account @@ [capital |-> EquityOf(account)], account @@ [capital |-> 12]} : account \in Accounts}

Month(p, n) == [i \in 1 .. n |-> [period |-> p, of |-> i, length |-> n]]
Week(p) == [i \in 1 .. 5 |-> [period |-> p, of |-> i - 1, length |-> 5]]
DateCases ==
  [kind : {"dates"}, days : {Month(1, 4) \o Month(2, 3)}, trading : SUBSET (1 .. 7),
   cadence : {"monthly", "daily"}, chosen : 0 .. 5]
  \cup [kind : {"dates"}, days : {Week(1) \o Week(2)}, trading : SUBSET (1 .. 10),
        cadence : {"weekly"}, chosen : {-1, 0, 2, 4, 6}]

Gate == [base |-> 4, spikeMin |-> 1500, spikeMax |-> NoValue, cap |-> 900, uptrend |-> TRUE]
Calm == [bars |-> 9, short |-> 100, long |-> 100, aboveMean |-> TRUE]
Spike == [Calm EXCEPT !.short = 300]
Input ==
  [history |-> [s \in {a, b, c} |-> <<2, 4>>], score |-> [s \in {a, b, c} |-> 100],
   vol |-> [s \in {a, b, c} |-> IF s = a THEN Calm ELSE Spike], need |-> 2,
   state |-> [s \in {a, b, c} |-> s # b], annual |-> [s \in {a, b, c} |-> 100],
   sector |-> <<>>, portfolioVol |-> 400]
Inputs ==
  {[Input EXCEPT !.history = h] : h \in [{a, b, c} -> {<<2>>, <<2, 4>>, <<4, 2>>}]}
  \cup {[Input EXCEPT !.score = x] : x \in [{a, b, c} -> {NoValue, 100, 300}]}
Unlimited == [maxPosition |-> NoValue, maxSector |-> NoValue, targetVol |-> NoValue, maxLeverage |-> Unit]
Selection == [method |-> "score", weighting |-> "score", gate |-> {}, minScore |-> NoValue,
              lookback |-> 1, topN |-> 2]
Strategies ==
  [selection : {Selection, [Selection EXCEPT !.gate = {Gate}, !.minScore = 200],
                [Selection EXCEPT !.method = "custom", !.weighting = "equal"],
                [Selection EXCEPT !.method = "momentum"], [Selection EXCEPT !.method = "all"]},
   rule : {{}, {[lookback |-> 1, pick |-> 2]}},
   risk : {Unlimited, [Unlimited EXCEPT !.maxPosition = 300, !.targetVol = 200]}]
Wide == [i \in 1 .. 8 |-> i]
WideInputs ==
  [history : {[i \in 1 .. 8 |-> <<2, 2>>]}, annual : [1 .. 8 -> {1, 1000}], sector : {<<>>},
   portfolioVol : {NoValue}]
TargetCases ==
  [kind : {"targets"}, pool : {<<a, b, c>>}, in : Inputs, config : Strategies, exposure : {500, 1000}]
  \cup [kind : {"targets"}, pool : {Wide}, in : WideInputs,
        config : [selection : {[Selection EXCEPT !.method = "all", !.weighting = "inverse_vol"]},
                  rule : {{}}, risk : {Unlimited}], exposure : {500, 1000}]

CapCases ==
  {r \in [kind : {"caps"}, weights : [{a, b, c, d} -> {100, 200, 400, 600}],
          sector : {[s \in {a, b, c, d} |-> IF s \in {a, b} THEN 1 ELSE 2],
                    [s \in {a, b, c, d} |-> IF s = d THEN NoValue ELSE 1]},
          cap : {300, 500, 1000}, position : {250, 400, 1000}] : SumFunction(r.weights) <= Unit}

\* A few symbols that hardly move, and many that do.
ManyWeights ==
  {[kind |-> "fills", raw |-> [i \in 1 .. n |-> IF i <= calm THEN 100 ELSE 2]] : calm \in 0 .. 8, n \in 10 .. 30}

SomeCases == OrderCases \cup DateCases \cup TargetCases \cup CapCases

(***************************************************************************)
(* The runs                                                                *)
(***************************************************************************)
AnyOf(set) == CHOOSE x \in set : TRUE
RunnerRests == business = Days /\ price = AnyOf(Prices)
SimRests == config = AnyOf(Configs) /\ delisted = {}

MCInit ==
  /\ Init /\ SimInit
  /\ \/ case = Runner /\ SimRests
     \/ case = Simulation /\ RunnerRests
     \/ CaseInit /\ RunnerRests /\ SimRests

RunnerStep(act) == case = Runner /\ act /\ UNCHANGED <<case, simVars>>

MCNext ==
  \/ RunnerStep(Next)
  \/ case = Simulation /\ SimNext /\ UNCHANGED <<case, vars>>
  \/ case \notin {Runner, Simulation} /\ CaseNext /\ UNCHANGED <<vars, simVars>>
all == <<vars, simVars, case>>

\* The cases alone.
CasesInit == Init /\ SimInit /\ CaseInit /\ RunnerRests /\ SimRests
CasesSpec == CasesInit /\ [][MCNext]_all

MCSpec ==
  MCInit /\ [][MCNext]_all /\ WF_all(RunnerStep(Tick)) /\ WF_all(RunnerStep(NextDay))
=============================================================================

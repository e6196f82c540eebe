------------------------- MODULE PortfolioBacktest -------------------------
(***************************************************************************)
(* The daily simulation of a rebalancing strategy                          *)
(* (run_rebalance_backtest in backtest/portfolio.py): yesterday's decision *)
(* is filled at today's close, the MDD kill switch looks at what is left,  *)
(* the panic overlay moves from armed to confirmed and out again, and the  *)
(* first of them that has something to say decides for tomorrow.           *)
(*                                                                         *)
(* A day has three steps, Open, Panic and Decide.  What is selected, the   *)
(* labels of the panic gauge, the place of the index between the bands of  *)
(* its moving average and the calendar are inputs of the day.              *)
(***************************************************************************)
EXTENDS PortfolioRules

CONSTANTS
  SimPrices,             \* prices of the symbols, 0 on a day without one
  IndexCloses,           \* closes of the index that the panic gauge looks at
  Configs,               \* the strategies under test, with their universe and horizon
  SimCapital

\* What the schemas let a user save: costs and recovery are fractions, the windows of the
\* overlay at least a day (schemas/strategy.py, portfolio.py:877).
IsConfig(c) ==
  /\ IsFiniteSet(c.universe)
  /\ {c.days, c.killPct, c.rearmDays, c.armWindow, c.recovery, c.base, c.panicExposure,
      c.scaleIn, c.knife, c.reclaim} \subseteq Nat
  /\ c.hold \in Nat \ {0} /\ c.adv \in Int
  /\ {c.regime, c.panic, c.eventOnly, c.defer, c.opt.shares, c.opt.limits} \subseteq BOOLEAN
  /\ {c.opt.fees, c.opt.tax, c.opt.slip, c.opt.band} \subseteq Nat
  /\ c.opt.fees + c.opt.tax + c.opt.slip <= Unit

ASSUME BacktestAssumption ==
  /\ SimPrices \subseteq Nat /\ IndexCloses \subseteq Nat /\ SimCapital \in Nat
  /\ \A c \in Configs : IsConfig(c)

VARIABLES
  config,                \* one of Configs, chosen once
  simDay, step,
  simPrice, prev,           \* today's and yesterday's prices
  delisted,              \* symbols that never trade again
  index, prevIndex, level,  \* the index and its panic label today
  onState,               \* the regime of the filter, "unset" before its first average
  simRiskOff, wasRiskOff,
  book,                  \* [cash, val], cash in parts of Unit
  pending,               \* the decision to fill tomorrow, {} or a singleton
  kill,                  \* [hwm, on, since]
  rearmed,               \* the cooldown ended today
  panic,                 \* the overlay's state
  decision               \* today's decision so far, {} or a singleton

market == <<simPrice, prev, delisted, index, prevIndex, level>>
simVars == <<config, simDay, step, market, onState, simRiskOff, wasRiskOff, book, pending, kill, rearmed,
          panic, decision>>

Universe == config.universe
Held(b) == {s \in Universe : b.val[s] > 0}
SimEquity(b) == b.cash \div Unit + SumFunction(b.val)
Idle == [st |-> "idle", deadline |-> 0, close |-> 0, low |-> 0, drop |-> 0, confirm |-> 0]
Confirmed == panic.st \in {"half", "full", "event"}
Panicking == config.panic

\* The daily low of the index, in the model one point below its close.
IndexLow(close) == close - 1

(***************************************************************************)
(* Open: the market moves, and yesterday's decision is filled              *)
(***************************************************************************)
\* A symbol that is gone for good pays delisting_recovery; one that is only halted
\* keeps its value.
Value(b, s) ==
  CASE simPrice'[s] > 0 /\ simPrice[s] > 0 -> (b.val[s] * simPrice'[s]) \div simPrice[s]
    [] simPrice'[s] = 0 /\ s \in delisted -> 0
    [] OTHER -> b.val[s]

Recovered(b) ==
  SumFunction([s \in {t \in delisted : simPrice'[t] = 0} |-> b.val[s] * config.recovery])

Marked(b) == [cash |-> b.cash + Recovered(b), val |-> [s \in Universe |-> Value(b, s)]]

\* _run_decision.  Symbols without a price today leave the targets.
MarketOf(now, before) == [price |-> now, prev |-> before, adv |-> [s \in Universe |-> config.adv]]

Filled(b, d, m) ==
  LET targets == IF d.kind = "liquidate" THEN <<>>
                 ELSE [s \in {t \in DOMAIN d.targets : m.price[t] > 0} |-> d.targets[s]]
  IN  IF IF d.kind = "liquidate" THEN Held(b) = {} ELSE DOMAIN targets = {}
      THEN b
      ELSE ApplyRebalance(b, targets, SimEquity(b), m, config.opt, d.kind = "liquidate")

\* The switch: a new peak, or the cooldown ends and the peak starts over.
CooldownOver == config.killPct > 0 /\ kill.on /\ simDay' - kill.since >= config.rearmDays
Peak(equity) ==
  IF CooldownOver THEN [hwm |-> equity, on |-> FALSE, since |-> 0]
  ELSE [kill EXCEPT !.hwm = IF config.killPct > 0 THEN AtLeast(equity, @) ELSE @]

\* Below the lower band off, above the upper one on, in between as before; the first
\* average alone sets it.
RegimeUpdated(zone) ==
  CASE zone = "unknown" -> onState
    [] zone # "unknown" /\ onState = "unset" -> IF zone \in {"above", "upper"} THEN "on" ELSE "off"
    [] onState = "on" -> IF zone = "below" THEN "off" ELSE "on"
    [] OTHER -> IF zone = "above" THEN "on" ELSE "off"

SimOpen ==
  /\ step = "open" /\ simDay < config.days
  /\ simDay' = simDay + 1 /\ step' = "panic"
  /\ prev' = simPrice
  /\ simPrice' \in [Universe -> SimPrices \cup {0}]
  /\ simDay > 0 => \A s \in delisted : simPrice[s] = 0 => simPrice'[s] = 0
  /\ prevIndex' = index
  /\ IF Panicking THEN index' \in IndexCloses /\ level' \in {"normal", "warning"}
     ELSE UNCHANGED <<index, level>>
  /\ \E zone \in IF config.regime THEN {"unknown", "below", "lower", "upper", "above"} ELSE {"unknown"} :
       /\ zone = "unknown" => onState = "unset"
       /\ onState' = RegimeUpdated(zone)
  /\ simRiskOff' = (onState' = "off")
  /\ IF pending = {} THEN book' = Marked(book)
     ELSE book' = Filled(Marked(book), Only(pending), MarketOf(simPrice', simPrice))
  /\ kill' = Peak(SimEquity(book')) /\ rearmed' = CooldownOver
  /\ pending' = {} /\ decision' = {}
  /\ UNCHANGED <<config, delisted, wasRiskOff, panic>>

(***************************************************************************)
(* Panic: the overlay's state machine                                      *)
(***************************************************************************)
Trigger ==
  /\ config.killPct > 0 /\ ~kill.on /\ kill.hwm > 0
  /\ (kill.hwm - SimEquity(book)) * 100 >= config.killPct * kill.hwm

Watching == step = "panic" /\ Panicking /\ ~kill.on /\ ~Trigger

\* Whatever the strategy selects among the symbols that have a price.
Selections(exposure) ==
  {ScaleTargets(Equal(T), exposure) : T \in SUBSET {s \in Universe : simPrice[s] > 0}}
Rebalancing(exposure, reason) ==
  {{[kind |-> "rebalance", targets |-> t, reason |-> reason]} : t \in Selections(exposure)}
Liquidation(reason) == {[kind |-> "liquidate", targets |-> <<>>, reason |-> reason]}

ToDecide(d, p) ==
  /\ step' = "decide" /\ decision' = d /\ panic' = p
  /\ UNCHANGED <<config, simDay, market, onState, simRiskOff, wasRiskOff, book, pending, kill, rearmed>>

NoOverlay ==
  /\ step = "panic" /\ ~Watching
  /\ ToDecide({}, panic)

Arm ==
  /\ Watching /\ panic.st = "idle"
  /\ ToDecide({}, IF level = "warning"
                  THEN [Idle EXCEPT !.st = "armed", !.deadline = simDay + config.armWindow,
                                    !.close = index, !.low = IndexLow(index),
                                    !.drop = IF prevIndex > 0 THEN prevIndex - index ELSE 0]
                  ELSE panic)

\* Above the close of the day it was armed, on a day that rises.
Rebound == prevIndex > 0 /\ index > panic.close /\ index > prevIndex

ArmTimeout ==
  /\ Watching /\ panic.st = "armed" /\ simDay > panic.deadline
  /\ ToDecide({}, Idle)

ConfirmExposure ==
  IF config.eventOnly THEN config.panicExposure
  ELSE config.base + (config.scaleIn * (config.panicExposure - config.base)) \div Unit

Confirm ==
  /\ Watching /\ panic.st = "armed" /\ simDay <= panic.deadline /\ Rebound
  /\ \E d \in Rebalancing(ConfirmExposure, "panic_confirm") :
       ToDecide(d, [panic EXCEPT !.st = IF config.eventOnly THEN "event" ELSE "half", !.confirm = simDay])

StillArmed ==
  /\ Watching /\ panic.st = "armed" /\ simDay <= panic.deadline /\ ~Rebound
  /\ ToDecide({}, panic)

Knife == index * Unit <= panic.low * (Unit - config.knife)
Profit == panic.drop > 0 /\ index * Unit >= panic.close * Unit + config.reclaim * panic.drop
Overstayed == simDay - panic.confirm >= config.hold
Leaves == Knife \/ Profit \/ Overstayed

\* Back to cash, or to the core exposure when the regime allows it.
ExitOverlay ==
  /\ Watching /\ Confirmed /\ Leaves
  /\ \E d \in IF config.eventOnly \/ simRiskOff THEN {Liquidation("panic_exit")}
              ELSE Rebalancing(config.base, "panic_exit") :
       ToDecide(d, Idle)

\* The rest of the reserve, once the index is above its average again.
ScaleIn ==
  /\ Watching /\ panic.st = "half" /\ ~Leaves
  /\ \E d \in Rebalancing(config.panicExposure, "panic_scale_full") :
       ToDecide(d, [panic EXCEPT !.st = "full"])

Hold ==
  /\ Watching /\ Confirmed /\ ~Leaves
  /\ ToDecide({}, panic)

(***************************************************************************)
(* Decide                                                                  *)
(***************************************************************************)
\* next_close: the decision waits for tomorrow.  same_close: it is filled now.
Concluded(d) ==
  /\ step' = "open"
  /\ wasRiskOff' = simRiskOff
  /\ IF d = {} \/ config.defer
     THEN pending' = d /\ UNCHANGED book
     ELSE pending' = {} /\ book' = Filled(book, Only(d), MarketOf(simPrice, prev))
  /\ UNCHANGED <<config, simDay, market, onState, simRiskOff, rearmed, decision>>

\* The overlay is left as it is.
KillKeepsOverlay ==
  /\ step = "decide" /\ Trigger
  /\ kill' = [kill EXCEPT !.on = TRUE, !.since = simDay]
  /\ Concluded(IF Held(book) # {} THEN Liquidation("mdd_kill") ELSE decision)
  /\ UNCHANGED panic

\* A fall from the peak outranks everything and resets the overlay.
Kill ==
  /\ step = "decide" /\ Trigger
  /\ kill' = [kill EXCEPT !.on = TRUE, !.since = simDay]
  /\ panic' = IF Panicking THEN Idle ELSE panic
  /\ Concluded(IF Held(book) # {} THEN Liquidation("mdd_kill") ELSE decision)

OverlayDecides ==
  /\ step = "decide" /\ ~Trigger /\ decision # {}
  /\ Concluded(decision)
  /\ UNCHANGED <<kill, panic>>

Quiet == step = "decide" /\ ~Trigger /\ decision = {}

\* The cooldown, and the overlay while it is on, keep everything below silent.
Suppressed ==
  /\ Quiet /\ (kill.on \/ Confirmed)
  /\ Concluded({})
  /\ UNCHANGED <<kill, panic>>

RegimeExit ==
  /\ Quiet /\ ~kill.on /\ ~Confirmed /\ simRiskOff
  /\ Concluded(IF Held(book) # {} THEN Liquidation("regime_exit") ELSE {})
  /\ UNCHANGED <<kill, panic>>

\* The cadence is an input; the two re-entries are not.
RegimeReentry == config.regime /\ wasRiskOff /\ Held(book) = {}
Owed == RegimeReentry \/ (rearmed /\ Held(book) = {})

Scheduled ==
  /\ Quiet /\ ~kill.on /\ ~Confirmed /\ ~simRiskOff
  /\ \E due \in BOOLEAN, t \in Rebalancing(IF Panicking THEN config.base ELSE Unit, "rebalance") :
       Concluded(IF (due \/ Owed) /\ ~(Panicking /\ config.eventOnly) THEN t ELSE {})
  /\ UNCHANGED <<kill, panic>>

(***************************************************************************)
(* The specification                                                       *)
(***************************************************************************)
SimInit ==
  /\ config \in Configs
  /\ simDay = 0 /\ step = "open"
  /\ simPrice = [s \in Universe |-> 0] /\ prev = simPrice
  /\ delisted \in SUBSET Universe
  /\ index = 0 /\ prevIndex = 0 /\ level = "normal"
  /\ onState = "unset" /\ simRiskOff = FALSE /\ wasRiskOff = FALSE
  /\ book = [cash |-> SimCapital * Unit, val |-> [s \in Universe |-> 0]]
  /\ pending = {} /\ kill = [hwm |-> SimCapital, on |-> FALSE, since |-> 0] /\ rearmed = FALSE
  /\ panic = Idle /\ decision = {}

Panic == \/ NoOverlay \/ Arm \/ ArmTimeout \/ Confirm \/ StillArmed \/ ExitOverlay \/ ScaleIn \/ Hold
SimDecide == Kill \/ OverlayDecides \/ Suppressed \/ RegimeExit \/ Scheduled
Finished == simDay = config.days /\ step = "open" /\ UNCHANGED simVars

SimNext == SimOpen \/ Panic \/ SimDecide \/ Finished

SimSpec == SimInit /\ [][SimNext]_simVars

(***************************************************************************)
(* Properties                                                              *)
(***************************************************************************)
IsDecision(d) ==
  /\ d.kind \in {"liquidate", "rebalance"}
  /\ DOMAIN d.targets \subseteq Universe
  /\ \A s \in DOMAIN d.targets : d.targets[s] \in Nat

IsChoice(d) == d = {} \/ (d = {Only(d)} /\ IsDecision(Only(d)))

Kills == [hwm : Int, on : BOOLEAN, since : Nat]
Overlays ==
  [st : {"idle", "armed", "half", "full", "event"}, deadline : Nat, close : Int, low : Int,
   drop : Int, confirm : Nat]

\* Types of the variables.
SimTypes ==
  /\ config \in Configs
  /\ simDay \in 0 .. config.days /\ step \in {"open", "panic", "decide"}
  /\ simPrice \in [Universe -> Nat] /\ prev \in [Universe -> Nat] /\ delisted \subseteq Universe
  /\ index \in Nat /\ prevIndex \in Nat
  /\ onState \in {"unset", "on", "off"} /\ {simRiskOff, wasRiskOff, rearmed} \subseteq BOOLEAN
  /\ book.val \in [Universe -> Nat] /\ book.cash \in Int
  /\ kill \in Kills /\ panic \in Overlays
  /\ IsChoice(pending) /\ IsChoice(decision)

\* No chain of fees, whole shares, participation caps and deferred fills lets a
\* purchase spend more than the cash there is (the scaling of _apply_rebalance).
NeverOverspends == SimTypes /\ book.cash >= 0

\* From the fill of its liquidation to the end of the cooldown the kill switch means
\* cash: no older decision, overlay, regime change or participation cap leaves or
\* brings back a position (portfolio.py:620-629).  A price at its lower limit does, as
\* portfolio.py:51 says.
CashIsRefuge ==
  kill.on /\ simDay > kill.since /\ step # "open" /\ ~config.opt.limits => Held(book) = {}

\* The overlay, which outranks the regime filter, does not stay: an unconfirmed alarm
\* ends after arm_window days, a confirmed one after hold_days, also across a kill.
OverlayIsTemporary ==
  step = "open" => /\ panic.st = "armed" => simDay <= panic.deadline
                   /\ Confirmed => simDay - panic.confirm < config.hold

\* The kill switch outranks the overlay, the overlay the rest, and neither stays
\* (portfolio.py, the order of the decisions of a day).
PrecedenceIsKept == CashIsRefuge /\ OverlayIsTemporary
=============================================================================

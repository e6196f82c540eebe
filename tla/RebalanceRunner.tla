-------------------------- MODULE RebalanceRunner --------------------------
(***************************************************************************)
(* A rebalancing strategy over days (engine/rebalance_runner.py): the MDD  *)
(* kill switch with its cooldown and the re-entry it owes, the regime      *)
(* filter with its own re-entry, the cadence of is_rebalance_due, and what *)
(* of this survives a tick that fails, since all of it is kept in Redis    *)
(* between ticks.                                                          *)
(*                                                                         *)
(* The basket is one symbol with one price; its orders fill when placed.   *)
(* The pool of candidates, the members of an index at the time, may lose   *)
(* the symbol while it is held, and another pool takes over when the index *)
(* does not answer.                                                        *)
(* A period of the cadence is PeriodLength days, some of them holidays.    *)
(***************************************************************************)
EXTENDS Integers, FiniteSets

CONSTANTS
  PeriodLength, Periods,  \* the calendar
  Prices, Capital,        \* config.capital sizes every purchase
  KillPct, RearmDays,     \* risk_layer.mdd_kill_pct, set, and mdd_rearm_days
  RebalanceDom,           \* the day of the period, as the user set it
  RegimeEnabled, ImmediateFill,
  PointInTime,            \* universe_rule.source names an index
  MaxFailures             \* bound on failed ticks and losses of Redis

ASSUME RebalanceAssumption ==
  /\ {PeriodLength, Periods, Capital, KillPct, RearmDays} \subseteq Nat \ {0}
  /\ Prices \subseteq Nat \ {0}
  /\ {RebalanceDom, MaxFailures} \subseteq Nat
  /\ {RegimeEnabled, ImmediateFill, PointInTime} \subseteq BOOLEAN

Days == 1 .. PeriodLength * Periods
LastDay == PeriodLength * Periods
Period(d) == (d - 1) \div PeriodLength
DayOfPeriod(d) == ((d - 1) % PeriodLength) + 1

VARIABLES
  day, business,    \* today and the days the exchange opens
  price, riskOff, member, \* the market, and whether the pool has the symbol
  cash, qty,        \* replay of the executions, and the position
  used,             \* idempotency keys of today, side and tag (and what was skipped)
  last,             \* rebalance:last, 0 without it
  regime,           \* rebalance:regime, "none" without it
  mdd,              \* rebalance:mdd, Unknown without it
  pc, goal, tag, due, rearm,  \* a tick's locals
  done,             \* a tick ran to its end today
  failures

quoted == <<price, riskOff, member>>
stateVars == <<last, regime, mdd>>
localVars == <<goal, tag, due, rearm>>
vars == <<day, business, quoted, cash, qty, used, stateVars, pc, localVars, done, failures>>

Unknown == [hwm |-> 0, killed |-> FALSE, since |-> 0, rearm |-> FALSE]
Killed == mdd.killed
Pending == mdd.rearm
Open == day \in business

\* _live_equity: cash replayed from the executions, and the holdings at market.
Equity == cash + qty * price

(***************************************************************************)
(* is_rebalance_due                                                        *)
(***************************************************************************)
\* The chosen day is clamped to the last one of the period.
Dom == IF RebalanceDom > PeriodLength THEN PeriodLength
       ELSE IF RebalanceDom < 1 THEN 1 ELSE RebalanceDom

IsDue(d, l) ==
  /\ d \in business
  /\ l > 0 => Period(l) # Period(d)
  /\ DayOfPeriod(d) >= Dom

(***************************************************************************)
(* _evaluate_mdd_kill                                                      *)
(***************************************************************************)
\* _business_days_since.
BusinessDaysSince(d) == Cardinality({x \in business : d < x /\ x <= day})

Raised == IF mdd = Unknown \/ Equity > mdd.hwm THEN Equity ELSE mdd.hwm

RearmedWithOldPeak ==
  IF Killed /\ BusinessDaysSince(mdd.since) >= RearmDays
  THEN [hwm |-> Raised, killed |-> FALSE, since |-> 0, rearm |-> TRUE]
  ELSE [mdd EXCEPT !.hwm = Raised]

\* After the cooldown the peak starts over and a re-entry is owed.
Rearmed ==
  IF Killed /\ BusinessDaysSince(mdd.since) >= RearmDays
  THEN [hwm |-> Equity, killed |-> FALSE, since |-> 0, rearm |-> TRUE]
  ELSE [mdd EXCEPT !.hwm = Raised]

KilledFromTomorrow ==
  LET m == Rearmed IN
  IF ~m.killed /\ m.hwm > 0 /\ (m.hwm - Equity) * 100 >= KillPct * m.hwm
  THEN [m EXCEPT !.killed = TRUE, !.since = day + 1, !.rearm = FALSE]
  ELSE m

\* A drawdown of KillPct from the peak kills, and cancels what is owed.
Evaluated ==
  LET m == Rearmed IN
  IF ~m.killed /\ m.hwm > 0 /\ (m.hwm - Equity) * 100 >= KillPct * m.hwm
  THEN [m EXCEPT !.killed = TRUE, !.since = day, !.rearm = FALSE]
  ELSE m

StartTick ==
  /\ pc = "idle" /\ Open
  /\ pc' = "mdd"
  /\ UNCHANGED <<day, business, quoted, cash, qty, used, stateVars, localVars, done, failures>>

KilledGoesOn ==
  /\ pc = "mdd"
  /\ mdd' = Evaluated
  /\ pc' = "regime"
  /\ UNCHANGED <<day, business, quoted, cash, qty, used, last, regime, localVars, done, failures>>

\* While killed the tick liquidates and does nothing else.
EvaluateMdd ==
  /\ pc = "mdd"
  /\ mdd' = Evaluated
  /\ IF Evaluated.killed
     THEN pc' = "trade" /\ goal' = "cash" /\ tag' = "mdd"
     ELSE pc' = "regime" /\ UNCHANGED <<goal, tag>>
  /\ UNCHANGED <<day, business, quoted, cash, qty, used, last, regime, due, rearm, done, failures>>

(***************************************************************************)
(* The regime filter: out at once, back at the transition                  *)
(***************************************************************************)
Reentry == RegimeEnabled /\ ~riskOff /\ regime = "off" /\ qty = 0

CheckRegime ==
  /\ pc = "regime"
  /\ regime' = IF ~RegimeEnabled THEN regime ELSE IF riskOff THEN "off" ELSE "on"
  /\ IF RegimeEnabled /\ riskOff
     THEN pc' = "trade" /\ goal' = "cash" /\ tag' = "regime"
     ELSE pc' = "decide" /\ goal' = "invest" /\ tag' = IF Reentry THEN "regime" ELSE "none"
  /\ UNCHANGED <<day, business, quoted, cash, qty, used, last, mdd, due, rearm, done, failures>>

(***************************************************************************)
(* Whether to rebalance now                                                *)
(***************************************************************************)
Bootstrap == ~IsDue(day, last) /\ ImmediateFill /\ last = 0 /\ qty = 0

ClearPending == mdd' = [mdd EXCEPT !.rearm = FALSE]

ClearFirst ==
  /\ pc = "decide"
  /\ due' = (IsDue(day, last) \/ Bootstrap)
  /\ rearm' = (Pending /\ qty = 0)
  /\ ClearPending
  /\ tag' = IF due' THEN "rebal" ELSE IF tag # "none" THEN tag ELSE IF rearm' THEN "rearm" ELSE "none"
  /\ pc' = IF tag' = "none" THEN "finish" ELSE "trade"
  /\ UNCHANGED <<day, business, quoted, cash, qty, used, last, regime, goal, done, failures>>

\* A re-entry owed to somebody who still holds shares is dropped.
Decide ==
  /\ pc = "decide"
  /\ due' = (IsDue(day, last) \/ Bootstrap)
  /\ rearm' = (Pending /\ qty = 0)
  /\ IF Pending /\ qty > 0 THEN ClearPending ELSE UNCHANGED mdd
  /\ tag' = IF due' THEN "rebal" ELSE IF tag # "none" THEN tag ELSE IF rearm' THEN "rearm" ELSE "none"
  /\ pc' = IF tag' = "none" THEN "finish" ELSE "trade"
  /\ UNCHANGED <<day, business, quoted, cash, qty, used, last, regime, goal, done, failures>>

(***************************************************************************)
(* _rebalance_once.  A key is used once a day, by an order that the broker *)
(* refuses too.                                                            *)
(***************************************************************************)
Target == IF goal = "cash" THEN 0 ELSE Capital \div price
Side == IF Target > qty THEN "buy" ELSE "sell"
Traded(keys) ==
  /\ used' = used \cup keys
  /\ pc' = "finish"
  /\ UNCHANGED <<day, business, quoted, stateVars, localVars, done, failures>>

\* The position limit may cut a purchase short (evaluate_buy).
Reachable == IF Target > qty THEN qty + 1 .. Target ELSE {Target}

\* Targets and holdings are looked up in the pool only.
Orders == pc = "trade" /\ member /\ Target # qty /\ <<Side, tag>> \notin used

Rebalance ==
  /\ Orders /\ Traded({<<Side, tag>>})
  /\ qty' \in Reachable
  /\ cash' = cash + (qty - qty') * price

OrderRefused ==
  /\ Orders /\ Traded({<<Side, tag>>})
  /\ UNCHANGED <<cash, qty>>

\* At its target, within the drift band, or the key is used; or the holding is not in the
\* pool, so that a liquidation finds nothing to sell and says nothing.
NothingToOrder ==
  /\ pc = "trade"
  /\ IF member THEN Target = qty \/ <<Side, tag>> \in used \/ (goal = "invest" /\ qty > 0)
               ELSE goal = "cash"
  /\ Traded({})
  /\ UNCHANGED <<cash, qty>>

\* No quote comes back or another runner has the position's lock; for a purchase, no
\* symbol is selected, with an alert, or the daily loss limit forbids it.
Skip ==
  /\ pc = "trade" /\ (member \/ goal = "invest")
  /\ Traded({<<"skip", tag>>})
  /\ UNCHANGED <<cash, qty>>

\* Only a scheduled rebalancing uses up the period.
SetLast ==
  /\ pc = "finish" /\ pc' = "clear"
  /\ last' = IF due THEN day ELSE last
  /\ UNCHANGED <<day, business, quoted, cash, qty, used, regime, mdd, localVars, done, failures>>

\* A re-entry that was owed is paid.
Finish ==
  /\ pc = "clear"
  /\ IF rearm THEN ClearPending ELSE UNCHANGED mdd
  /\ pc' = "idle" /\ goal' = "invest" /\ tag' = "none" /\ due' = FALSE /\ rearm' = FALSE
  /\ done' = TRUE
  /\ UNCHANGED <<day, business, quoted, cash, qty, used, last, regime, failures>>

\* A timeout, an exception or a crash ends a tick anywhere.
TickFails ==
  /\ pc # "idle" /\ failures < MaxFailures
  /\ failures' = failures + 1
  /\ pc' = "idle" /\ goal' = "invest" /\ tag' = "none" /\ due' = FALSE /\ rearm' = FALSE
  /\ UNCHANGED <<day, business, quoted, cash, qty, used, stateVars, done>>

(***************************************************************************)
(* The environment                                                         *)
(***************************************************************************)
LoseRedis ==
  /\ pc = "idle" /\ failures < MaxFailures
  /\ failures' = failures + 1
  /\ last' = 0 /\ regime' = "none" /\ mdd' = Unknown
  /\ UNCHANGED <<day, business, quoted, cash, qty, used, pc, localVars, done>>

\* The price moves between ticks, the regime and the pool from day to day (they look at daily
\* closes and at the members of that day); on every day the exchange opens some tick succeeds.
PriceMoves ==
  /\ pc = "idle"
  /\ \E p \in Prices \ {price} : price' = p
  /\ UNCHANGED <<day, business, riskOff, member, cash, qty, used, stateVars, pc, localVars, done, failures>>

NextDay ==
  /\ pc = "idle" /\ day < LastDay
  /\ Open => done
  /\ day' = day + 1
  /\ used' = {} /\ done' = FALSE
  /\ \E r \in {FALSE, RegimeEnabled} : riskOff' = r
  /\ \E m \in {TRUE, ~PointInTime} : member' = m
  /\ UNCHANGED <<business, price, cash, qty, stateVars, pc, localVars, failures>>

(***************************************************************************)
(* The specification                                                       *)
(***************************************************************************)
Init ==
  /\ day = 1 /\ price \in Prices /\ riskOff = FALSE /\ member = TRUE
  /\ business \in SUBSET Days /\ LastDay \in business
  /\ cash = Capital /\ qty = 0 /\ used = {}
  /\ last = 0 /\ regime = "none" /\ mdd = Unknown
  /\ pc = "idle" /\ goal = "invest" /\ tag = "none" /\ due = FALSE /\ rearm = FALSE
  /\ done = FALSE /\ failures = 0

Trade == Rebalance \/ OrderRefused \/ NothingToOrder \/ Skip
Tick == StartTick \/ EvaluateMdd \/ CheckRegime \/ Decide \/ Trade \/ SetLast \/ Finish

Next == Tick \/ TickFails \/ LoseRedis \/ PriceMoves \/ NextDay

Spec == Init /\ [][Next]_vars

\* The runner polls every minute, and days pass.
FairSpec == Spec /\ WF_vars(Tick) /\ WF_vars(NextDay)

(***************************************************************************)
(* Properties                                                              *)
(***************************************************************************)
MddStates == [hwm : Int, killed : BOOLEAN, since : Days \cup {0}, rearm : BOOLEAN]

\* Types of the variables.
TypeOK ==
  /\ day \in Days /\ business \subseteq Days
  /\ price \in Prices /\ {riskOff, member} \subseteq BOOLEAN
  /\ cash \in Int /\ qty \in Nat
  /\ used \subseteq {"buy", "sell", "skip"} \X {"rebal", "regime", "mdd", "rearm"}
  /\ last \in Days \cup {0}
  /\ regime \in {"none", "off", "on"}
  /\ mdd \in MddStates
  /\ pc \in {"idle", "mdd", "regime", "decide", "trade", "finish", "clear"}
  /\ goal \in {"cash", "invest"}
  /\ tag \in {"none", "rebal", "regime", "mdd", "rearm"}
  /\ {due, rearm, done} \subseteq BOOLEAN
  /\ failures \in Nat

\* The kill switch has priority over every reason to buy: while it is on, no tick
\* adds a share, whatever its predecessors left behind.
NoPurchaseWhileKilled == [][Killed => qty' <= qty]_vars

\* A killed strategy gets out of the market while the pool has what it holds, or the sale
\* was tried today, or put off to the next tick for want of a quote or of the lock.  What
\* has left the pool is not sold (_holdings), whatever _compute_plan says.
KillLiquidates ==
  (Killed /\ qty > 0) ~>
    (qty = 0 \/ ~Killed \/ {<<"sell", "mdd">>, <<"skip", "mdd">>} \cap used # {} \/ ~member)

\* The cooldown ends: the peak the switch fell from does not kill again the strategy
\* that has been in cash since.
CooldownEnds ==
  (Killed /\ BusinessDaysSince(mdd.since) >= RearmDays) ~> ~Killed

\* The re-entry owed after the cooldown survives failed ticks: it is tried, unless the
\* switch kills again, the regime is off, or Redis loses it (rearm_pending).
Tried == \E t \in {"rebal", "regime", "rearm"} : {<<"buy", t>>, <<"skip", t>>} \cap used # {}
RearmIsServed ==
  (Pending /\ qty = 0) ~> (qty > 0 \/ Tried \/ Killed \/ riskOff \/ mdd = Unknown)

\* A period of the cadence in which the exchange opened is not skipped.
FirstOfPeriod == DayOfPeriod(day) = 1 /\ day > 1
NoPeriodSkipped ==
  FirstOfPeriod /\ (\E d \in business : Period(d) = Period(day) - 1)
    => last > 0 /\ Period(last) >= Period(day) - 1
=============================================================================

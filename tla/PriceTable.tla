----------------------------- MODULE PriceTable -----------------------------
(***************************************************************************)
(* The daily bars of one symbol in price_ticks, and how the nightly batch, *)
(* the backtests and a runner that is loaded fill them up                  *)
(* (app/services/data/loader.py, worker/tasks.py, engine/runner.py).       *)
(* Every day is a trading day.                                             *)
(***************************************************************************)
EXTENDS Integers, FiniteSetsExt

CONSTANTS
  Grace,       \* _COVERAGE_GRACE_DAYS
  Lookback,    \* _LOOKBACK_DAYS
  Spans        \* days a backtest looks back

ASSUME TableAssumption == Grace \in Nat /\ Lookback \in Nat /\ Spans \subseteq Nat

VARIABLES
  date, open,  \* today, and whether the market is open
  stored,      \* day -> whether its bar is the final one
  ingested     \* the day of the last batch that the source answered
tableVars == <<date, open, stored, ingested>>

NoDay == 0
Nothing == <<>>

\* Types of the variables.
TableTypes ==
  /\ date \in Nat \ {0} /\ open \in BOOLEAN
  /\ DOMAIN stored \subseteq 1 .. date
  /\ \A d \in DOMAIN stored : stored[d] \in {"final", "intraday"}
  /\ ingested \in 0 .. date

(***************************************************************************)
(* The source and the table                                                *)
(***************************************************************************)
FirstDay(span) == Max({date - span, 1})
Between(a, b) == Max({a, 1}) .. Min({b, date})
Loaded(a, b) == [d \in Between(a, b) |-> IF d = date /\ open THEN "intraday" ELSE "final"]
Upserted(old, new) == [d \in DOMAIN old \cup DOMAIN new |-> IF d \in DOMAIN new THEN new[d] ELSE old[d]]
Selected(old, a, b) == [d \in DOMAIN old \cap (a .. b) |-> old[d]]

HeadOf(present, a, b) ==
  IF present = {} THEN {<<a, b>>} ELSE {g \in {<<a, Min(present)>>} : Min(present) > a + Grace}
\* What is missing at the head and at the tail; a hole in the middle does not show.
GapsOf(present, a, b) ==
  IF present = {} THEN {<<a, b>>}
  ELSE {g \in {<<a, Min(present)>>} : Min(present) > a + Grace}
       \cup {g \in {<<Max(present), b>>} : Max(present) < b - Grace}
Gaps(a, b) == GapsOf(DOMAIN Selected(stored, a, b), a, b)

Filled(gaps) ==
  Upserted(stored, [d \in UNION {Between(g[1], g[2]) : g \in gaps} |-> Loaded(1, date)[d]])

\* The source fails for any of the gaps, which is logged and forgotten.
EnsureCoverage(a, b, answered) ==
  /\ answered \subseteq Gaps(a, b)
  /\ stored' = Filled(answered)

(***************************************************************************)
(* Steps                                                                   *)
(***************************************************************************)
TableInit == date = 1 /\ open = TRUE /\ stored = Nothing /\ ingested = NoDay

\* At 18:30; its report counts a symbol as failed only for an error of another kind.
Ingest ==
  /\ ~open
  /\ \E answered \in SUBSET Gaps(FirstDay(Lookback), date) :
       /\ EnsureCoverage(FirstDay(Lookback), date, answered)
       /\ ingested' = IF answered = Gaps(FirstDay(Lookback), date) THEN date ELSE ingested
  /\ UNCHANGED <<date, open>>

\* A user asks for a backtest of some days up to today.
Backtest(span) ==
  /\ \E answered \in SUBSET Gaps(FirstDay(span), date) :
       EnsureCoverage(FirstDay(span), date, answered)
  /\ UNCHANGED <<date, open, ingested>>

\* A runner that has too few bars asks the source for all of them, once; it may fail.
TooFew(old, need) == Cardinality(DOMAIN old) < need + 1
Seed(from, need) ==
  /\ \/ UNCHANGED stored
     \/ TooFew(Selected(stored, from, date), need) /\ stored' = Upserted(stored, Loaded(from, date))
  /\ UNCHANGED <<date, open, ingested>>

DayEnds == open /\ open' = FALSE /\ UNCHANGED <<date, stored, ingested>>
DayBegins == ~open /\ date' = date + 1 /\ open' = TRUE /\ UNCHANGED <<stored, ingested>>

TableNext ==
  \/ Ingest
  \/ \E span \in Spans : Backtest(span)
  \/ \E span, need \in Nat : Seed(FirstDay(span), need)
  \/ DayEnds \/ DayBegins
TableSpec == TableInit /\ [][TableNext]_tableVars

\* After a batch whose source answered the table ends at most Grace days before it and
\* begins at most Grace days after the lookback (loader.py:253-267).
TailIsRecent ==
  /\ TableTypes
  /\ ingested = date =>
       /\ DOMAIN stored # {} /\ Max(DOMAIN stored) >= date - Grace
       /\ \E d \in DOMAIN stored : d <= FirstDay(Lookback) + Grace
=============================================================================

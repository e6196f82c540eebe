----------------------------- MODULE LocalStore -----------------------------
(***************************************************************************)
(* The local copy of market data that never changes again once a day is    *)
(* over (app/services/data/store, app/services/metrics/fetch.py).          *)
(*                                                                         *)
(* A frame is what the markets say of one day: a ledger remembers, for     *)
(* every set of markets and day asked, whether the answer was confirmed.   *)
(* A range is the bars of an index between two days: covered intervals     *)
(* remember what was received.  What is confirmed or covered is read from  *)
(* the copy for ever.  Callers are threads of the web and the worker       *)
(* processes; each of them reads, asks the source, writes and confirms in  *)
(* steps of its own.                                                       *)
(***************************************************************************)
EXTENDS StoreState, FiniteSetsExt

vars == <<today, phase, cooling, rows, ledger, index, covered, call>>

\* What one market answers: an error of its own, or one that starts a cooldown.
Answers == {"values", "null", "empty", "schema", "unavailable"}

Unconfirmed == [final |-> FALSE, silent |-> {}]
Idle == [step |-> "idle"]

Quality(d) == IF d = today /\ phase = "open" THEN "intraday" ELSE "final"
Yesterday == today - 1

Init ==
  /\ today = 1 /\ phase = "open" /\ cooling = FALSE
  /\ rows = [k \in FrameDays \X Markets |-> "none"]
  /\ ledger = [k \in FrameKeys |-> Unconfirmed]
  /\ index = [d \in AllDays |-> "none"]
  /\ covered = {}
  /\ call = [p \in Callers |-> Idle]

Becomes(p, c) == call' = [call EXCEPT ![p] = c]
InStep(p, step) == call[p].step = step

(***************************************************************************)
(* Frames                                                                  *)
(***************************************************************************)
\* cached_frame: a confirmed entry is read from the copy, which changes nothing.
AskFrame(p, d, markets) ==
  /\ InStep(p, "idle") /\ d <= today /\ ~ledger[<<d, markets>>].final
  /\ Becomes(p, [step |-> "fetch", day |-> d, markets |-> markets, got |-> <<>>])
  /\ UNCHANGED <<today, phase, cooling, rows, ledger, index, covered>>

Asked(c) == DOMAIN c.got
Answered(c, kinds) == {m \in Asked(c) : c.got[m] \in kinds}
Failed(c) == Answered(c, {"failed"})
Succeeded(c) == Asked(c) \ Failed(c)
WithValues(c) == Answered(c, {"intraday", "final"})
RowsOf(c) == WithValues(c) \cup Answered(c, {"null"})
\* stop_aggregate: with two markets its other rule, three format errors, is out of reach.
StopAggregate(c) == Failed(c) # {} /\ cooling

\* The market answers with what it knows at this moment.
Outcome(c, answer) ==
  CASE answer = "values" -> Quality(c.day)
    [] answer \in {"schema", "unavailable"} -> "failed"
    [] OTHER -> answer
With(got, m, value) == [n \in DOMAIN got \cup {m} |-> IF n = m THEN value ELSE got[n]]
FetchMarket(p, m, answer) ==
  LET c == call[p] IN
  /\ InStep(p, "fetch") /\ ~StopAggregate(c) /\ m \in c.markets \ Asked(c)
  /\ Becomes(p, [c EXCEPT !.got = With(@, m, Outcome(c, answer))])
  /\ cooling' = (cooling \/ answer = "unavailable")
  /\ UNCHANGED <<today, phase, rows, ledger, index, covered>>

\* With no market answering the representative error reaches the caller.
FetchEnds(p) ==
  LET c == call[p] IN
  /\ InStep(p, "fetch") /\ (StopAggregate(c) \/ Asked(c) = c.markets)
  /\ IF Succeeded(c) = {} THEN Becomes(p, Idle) ELSE Becomes(p, [c EXCEPT !.step = "write"])
  /\ UNCHANGED <<today, phase, cooling, rows, ledger, index, covered>>

\* A value that could not be read does not replace one that was.
Coalesced(old, new) == IF new = "null" /\ old # "none" THEN old ELSE new
WriteFrame(p) ==
  LET c == call[p] IN
  /\ InStep(p, "write")
  /\ rows' = [k \in DOMAIN rows |->
                IF k[1] = c.day /\ k[2] \in RowsOf(c) THEN Coalesced(rows[k], c.got[k[2]]) ELSE rows[k]]
  /\ Becomes(p, [c EXCEPT !.step = "put"])
  /\ UNCHANGED <<today, phase, cooling, ledger, index, covered>>

IsPast(d) == d <= today
IsFinalDate(d) == d <= Yesterday
Complete(c) == Failed(c) = {} /\ Asked(c) = c.markets
AllNull(c) == Held(c.day, c.markets) = {"null"}
Confirmed(c) == IsFinalDate(c.day) /\ Complete(c) /\ RowsOf(c) # {} /\ ~AllNull(c)
\* silent is no column of the ledger: it remembers who answered without a value.
Silent(c) == Answered(c, {"null", "empty"})

PutLedger(p) ==
  LET c == call[p] IN
  /\ InStep(p, "put")
  /\ ledger' = [ledger EXCEPT ![<<c.day, c.markets>>] =
                  IF Confirmed(c) THEN [final |-> TRUE, silent |-> Silent(c)] ELSE Unconfirmed]
  /\ Becomes(p, Idle)
  /\ UNCHANGED <<today, phase, cooling, rows, index, covered>>

(***************************************************************************)
(* Ranges                                                                  *)
(***************************************************************************)
Covers(a, b) == \E iv \in covered : iv[1] <= a /\ iv[2] >= b
Least(x, y) == IF x < y THEN x ELSE y

\* cached_range: what is final is settled before the source is asked.
AskRange(p, a, b) ==
  /\ InStep(p, "idle") /\ b <= today /\ ~(b <= Yesterday /\ Covers(a, b))
  /\ Becomes(p, [step |-> "range", from |-> a, to |-> b, through |-> Yesterday])
  /\ UNCHANGED <<today, phase, cooling, rows, ledger, index, covered>>

Expected(a, b) == b - a + 1
\* Less than half of what is expected, of a range long enough to tell.
Partial(a, b, count) == Expected(a, b) >= MinExpected /\ 2 * count < Expected(a, b)

\* A source that answers in part without saying so is assumed to do it for long ranges
\* and to leave out more than half, which is what the check for it can see.
Received(c, days) ==
  LET n == Least(c.to, c.through) - c.from + 1 IN
  days = c.from .. c.to \/ (n >= MinExpected /\ 2 * Cardinality(days) < n)
FetchRange(p, days) ==
  LET c == call[p] IN
  /\ InStep(p, "range") /\ days \subseteq c.from .. c.to /\ (days = {} \/ Received(c, days))
  /\ Becomes(p, [step |-> "save", from |-> c.from, to |-> c.to, through |-> c.through,
                 got |-> [d \in days |-> Quality(d)]])
  /\ UNCHANGED <<today, phase, cooling, rows, ledger, index, covered>>
RangeFails(p) ==
  /\ InStep(p, "range") /\ Becomes(p, Idle) /\ cooling' = TRUE
  /\ UNCHANGED <<today, phase, rows, ledger, index, covered>>

WriteRange(p) ==
  LET c == call[p] IN
  /\ InStep(p, "save")
  /\ index' = [d \in AllDays |-> IF d \in DOMAIN c.got THEN c.got[d] ELSE index[d]]
  /\ Becomes(p, IF DOMAIN c.got = {} THEN Idle ELSE [c EXCEPT !.step = "merge"])
  /\ UNCHANGED <<today, phase, cooling, rows, ledger, covered>>

\* merge_coverage, in one transaction under its lock: intervals that overlap or touch
\* become one.
Touching(a, b) == {iv \in covered : iv[2] >= a - 1 /\ iv[1] <= b + 1}
Merged(a, b) ==
  (covered \ Touching(a, b))
    \cup {<<Min({a} \cup {iv[1] : iv \in Touching(a, b)}), Max({b} \cup {iv[2] : iv \in Touching(a, b)})>>}
MergeCoverage(p) ==
  LET c == call[p]
      end == Least(c.to, c.through)
  IN
  /\ InStep(p, "merge")
  /\ covered' = IF end < c.from \/ Partial(c.from, end, Cardinality(DOMAIN c.got)) THEN covered
                ELSE Merged(c.from, end)
  /\ Becomes(p, Idle)
  /\ UNCHANGED <<today, phase, cooling, rows, ledger, index>>

(***************************************************************************)
(* Time and failures                                                       *)
(***************************************************************************)
Close == phase = "open" /\ phase' = "closed" /\ UNCHANGED <<today, cooling, rows, ledger, index, covered, call>>

\* Calls time out within seconds and midnight comes nine hours after the close: what was
\* under way at the close has ended long before, what goes on at midnight began late.
Evening ==
  /\ phase = "closed" /\ phase' = "night" /\ \A p \in Callers : InStep(p, "idle")
  /\ UNCHANGED <<today, cooling, rows, ledger, index, covered, call>>
NextDay ==
  /\ phase = "night" /\ today < LastDay
  /\ today' = today + 1 /\ phase' = "open"
  /\ UNCHANGED <<cooling, rows, ledger, index, covered, call>>

CooldownEnds == cooling /\ cooling' = FALSE /\ UNCHANGED <<today, phase, rows, ledger, index, covered, call>>

\* The process dies, or the write fails.
Crash(p) ==
  /\ ~InStep(p, "idle") /\ Becomes(p, Idle)
  /\ UNCHANGED <<today, phase, cooling, rows, ledger, index, covered>>

FrameStep(p) ==
  \/ \E k \in FrameKeys : AskFrame(p, k[1], k[2])
  \/ \E m \in Markets, answer \in Answers : FetchMarket(p, m, answer)
  \/ FetchEnds(p) \/ WriteFrame(p) \/ PutLedger(p)
RangeStep(p) ==
  \/ \E iv \in Ranges : AskRange(p, iv[1], iv[2])
  \/ \E days \in SUBSET AllDays : FetchRange(p, days)
  \/ RangeFails(p) \/ WriteRange(p) \/ MergeCoverage(p)

Next ==
  \/ \E p \in Callers : FrameStep(p) \/ RangeStep(p) \/ Crash(p)
  \/ Close \/ Evening \/ NextDay \/ CooldownEnds
Spec == Init /\ [][Next]_vars
=============================================================================

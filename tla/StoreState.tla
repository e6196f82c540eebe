----------------------------- MODULE StoreState -----------------------------
(***************************************************************************)
(* The local copy of market data and the callers that read and fill it as  *)
(* they are at a moment, and what is to hold of them                       *)
(* (app/services/data/store); LocalStore says how they move.               *)
(***************************************************************************)
EXTENDS Integers

CONSTANTS
  Callers, Markets,
  Requests,           \* the sets of markets asked for together
  Ranges,             \* the ranges of days asked for
  FrameDays,          \* the days whose frames are asked for
  LastDay,
  MinExpected         \* _COVERAGE_MIN_EXPECTED_DAYS
StoreConstants ==
  /\ LastDay \in Nat \ {0} /\ FrameDays \subseteq 1 .. LastDay /\ MinExpected \in Nat
  /\ Requests \subseteq SUBSET Markets
  /\ Ranges \subseteq {iv \in (1 .. LastDay) \X (1 .. LastDay) : iv[1] <= iv[2]}

VARIABLES
  today, phase,       \* today; before the close, after it, and late in the evening
  cooling,            \* the source is in its cooldown
  rows,               \* day and market -> what the copy has of it
  ledger,             \* day and markets -> the entry of the ledger
  index,              \* day -> the bar of the index in the copy
  covered,            \* intervals <<from, to>> of it
  call                \* caller -> what it is doing

AllDays == 1 .. LastDay
FrameKeys == FrameDays \X Requests

\* What a row holds: a column that could not be read is null.
Values == {"none", "null", "intraday", "final"}

\* Types of the variables.
StoreTypes ==
  /\ today \in AllDays /\ phase \in {"open", "closed", "night"} /\ cooling \in BOOLEAN
  /\ rows \in [FrameDays \X Markets -> Values]
  /\ ledger \in [FrameKeys -> [final : BOOLEAN, silent : SUBSET Markets]]
  /\ index \in [AllDays -> Values \ {"null"}]
  /\ covered \subseteq {iv \in AllDays \X AllDays : iv[1] <= iv[2]}
  /\ \A p \in Callers : call[p].step \in {"idle", "fetch", "write", "put", "range", "save", "merge"}

\* What the copy has of a day from some markets.
Held(d, markets) == {rows[<<d, m>>] : m \in markets} \ {"none"}

(***************************************************************************)
(* Properties                                                              *)
(***************************************************************************)
\* A confirmed frame is never looked at again (frame.py:24-35), so something of it is
\* there and readable, and of every market that had values those of the day's end.
LedgerIsRight ==
  \A k \in FrameKeys :
    ledger[k].final =>
      /\ Held(k[1], k[2]) \notin {{}, {"null"}}
      /\ \A m \in k[2] \ ledger[k].silent : rows[<<k[1], m>>] = "final"

\* Every day of a covered interval is there with its final bar.
CoverageIsRight == \A iv \in covered : \A d \in iv[1] .. iv[2] : index[d] = "final"

\* What is confirmed is final: whatever two callers, a crash between any two of their
\* steps, a source that fails, is silent or changes its format, and midnight do.
ConfirmedIsFinal == StoreTypes /\ LedgerIsRight /\ CoverageIsRight
=============================================================================

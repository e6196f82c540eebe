----------------------------- MODULE FillLedger -----------------------------
(***************************************************************************)
(* What the order pipeline promises, whoever records and whatever fails:   *)
(* a signal becomes at most one broker order, and the ledger books the     *)
(* shares the broker has filled, each of them at most once.                *)
(***************************************************************************)
EXTENDS Integers

CONSTANTS Orders, Target   \* Target \in [Orders -> Nat \ {0}]

VARIABLES
  accepted,   \* broker orders placed for the signal
  filled,     \* shares the broker has filled
  booked      \* shares the ledger counts

ledgerVars == <<accepted, filled, booked>>

Init ==
  /\ accepted = [o \in Orders |-> 0]
  /\ filled = [o \in Orders |-> 0]
  /\ booked = [o \in Orders |-> 0]

Place(o) ==
  /\ accepted[o] = 0
  /\ accepted' = [accepted EXCEPT ![o] = 1]
  /\ UNCHANGED <<filled, booked>>

Fill(o) ==
  /\ accepted[o] = 1
  /\ \E qty \in (filled[o] + 1)..Target[o] : filled' = [filled EXCEPT ![o] = qty]
  /\ UNCHANGED <<accepted, booked>>

Book(o) ==
  /\ \E qty \in (booked[o] + 1)..filled[o] : booked' = [booked EXCEPT ![o] = qty]
  /\ UNCHANGED <<accepted, filled>>

Next == \E o \in Orders : Place(o) \/ Fill(o) \/ Book(o)

Spec == Init /\ [][Next]_ledgerVars
=============================================================================

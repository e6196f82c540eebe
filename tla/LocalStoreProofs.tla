-------------------------- MODULE LocalStoreProofs --------------------------
(***************************************************************************)
(* What the local copy of market data confirms is final, for any callers,  *)
(* markets, requests and days.                                             *)
(***************************************************************************)
EXTENDS LocalStore, PriceTable, WellFoundedInduction, TLAPS

(***************************************************************************)
(* The invariant                                                           *)
(***************************************************************************)
Outcomes == {"null", "empty", "failed", "intraday", "final"}
FrameCalls ==
  [step : {"fetch", "write", "put"}, day : FrameDays, markets : Requests,
   got : UNION {[set -> Outcomes] : set \in SUBSET Markets}]
AskedRanges == [step : {"range"}, from : AllDays, to : AllDays, through : Int]
ReadRanges ==
  [step : {"save", "merge"}, from : AllDays, to : AllDays, through : Int,
   got : UNION {[set -> {"intraday", "final"}] : set \in SUBSET AllDays}]
Calls == {Idle} \cup FrameCalls \cup AskedRanges \cup ReadRanges

\* Nobody is under way in the late evening with what a source said during the day.
FrameIsOfToday(c) ==
  c \in FrameCalls =>
    /\ c.day <= today /\ Asked(c) \subseteq c.markets
    /\ \A m \in Asked(c) : c.got[m] = "intraday" => c.day = today /\ phase # "night"

\* What a caller has written is there, and final unless another one of the same day
\* comes with an older answer, which none does after midnight.
FrameIsWritten(c) ==
  c \in FrameCalls /\ c.step = "put" =>
    /\ \A m \in RowsOf(c) : rows[<<c.day, m>>] # "none"
    /\ \A m \in Asked(c) :
         c.got[m] = "final" => rows[<<c.day, m>>] = "final" \/ (c.day = today /\ phase # "night")

\* What a caller takes for final is over, and what it has of the current day is of now.
RangeIsOfToday(c) ==
  /\ c \in AskedRanges \cup ReadRanges => c.through < today
  /\ c \in ReadRanges =>
       \A d \in DOMAIN c.got : c.got[d] = "intraday" => d = today /\ phase # "night"

\* What is to be merged is complete, or too little to be.
RangeIsComplete(c) ==
  LET end == Least(c.to, c.through) IN
  c \in ReadRanges =>
    \/ DOMAIN c.got = {}
    \/ c.from .. c.to \subseteq DOMAIN c.got
    \/ Partial(c.from, end, Cardinality(DOMAIN c.got))
RangeIsWritten(c) ==
  c \in ReadRanges /\ c.step = "merge" =>
    /\ DOMAIN c.got # {}
    /\ \A d \in DOMAIN c.got : d <= c.through => index[d] = "final"

CallInv(c) ==
  FrameIsOfToday(c) /\ FrameIsWritten(c) /\ RangeIsOfToday(c) /\ RangeIsComplete(c) /\ RangeIsWritten(c)

\* A confirmed frame, told by its rows.
Readable(d, markets) == \E m \in markets : rows[<<d, m>>] \notin {"none", "null"}
FramesAreFinal ==
  \A k \in FrameKeys :
    ledger[k].final =>
      /\ Readable(k[1], k[2])
      /\ \A m \in k[2] \ ledger[k].silent : rows[<<k[1], m>>] = "final"

\* What is confirmed is over.
LedgerIsPast == \A k \in FrameKeys : ledger[k].final => k[1] < today
CoverageIsPast == \A iv \in covered : iv[2] < today

IInv ==
  /\ StoreTypes /\ call \in [Callers -> Calls] /\ \A p \in Callers : CallInv(call[p])
  /\ LedgerIsPast /\ FramesAreFinal /\ CoverageIsPast /\ CoverageIsRight

(***************************************************************************)
(* Lemmas                                                                  *)
(***************************************************************************)
\* Each set of numbers has a least element, and a bounded one a greatest.
LEMMA LeastElement ==
  ASSUME NEW set \in SUBSET Nat, set # {}
  PROVE  Min(set) \in set /\ \A x \in set : Min(set) <= x
<1>. DEFINE Before == OpToRel(<, Nat)
<1>1. PICK x \in set : \A y \in set : <<y, x>> \notin Before
  <2>. HIDE DEF Before
  <2>1. IsWellFoundedOn(Before, Nat)
    BY NatLessThanWellFounded DEF Before
  <2>. QED BY <2>1, WFMin
<1>2. ASSUME NEW y \in set, y < x PROVE FALSE
  <2>1. <<y, x>> \in Nat \X Nat /\ <<y, x>>[1] < <<y, x>>[2]
    BY <1>2
  <2>2. <<y, x>> \in Before
    BY <2>1, Zenon DEF OpToRel
  <2>. QED BY <1>1, <2>2
<1>3. \A y \in set : x <= y
  BY <1>2
<1>. QED BY <1>3 DEF Min

\* A set of days has a last one.
LEMMA GreatestElement ==
  ASSUME NEW n \in Nat, NEW set \in SUBSET (0 .. n), set # {}
  PROVE  Max(set) \in set /\ \A x \in set : x <= Max(set)
<1>. DEFINE mirror == {n - x : x \in set}
<1>1. mirror \in SUBSET Nat /\ mirror # {}
  <2>1. \A x \in set : n - x \in Nat
    OBVIOUS
  <2>2. \A z \in mirror : z \in Nat
    BY <2>1
  <2>3. PICK x \in set : TRUE
    OBVIOUS
  <2>4. n - x \in mirror
    OBVIOUS
  <2>. HIDE DEF mirror
  <2>. QED BY <2>2, <2>4
<1>2. PICK x \in set : Min(mirror) = n - x
  <2>. HIDE DEF mirror
  <2>1. Min(mirror) \in mirror
    BY <1>1, LeastElement
  <2>. QED BY <2>1 DEF mirror
<1>3. \A y \in set : n - x <= n - y
  <2>1. \A z \in mirror : n - x <= z
    <3>. HIDE DEF mirror
    <3>. QED BY <1>1, <1>2, LeastElement
  <2>. QED BY <2>1
<1>4. \A y \in set : y <= x
  BY <1>3
<1>. QED BY <1>4 DEF Max

\* The kinds of calls tell themselves apart by their step.
LEMMA Kinds ==
  ASSUME NEW c \in Calls
  PROVE  /\ c.step \in {"fetch", "write", "put"} => c \in FrameCalls
         /\ c.step = "range" => c \in AskedRanges
         /\ c.step \in {"save", "merge"} => c \in ReadRanges
         /\ c.step = "idle" => c = Idle
         /\ c \in FrameCalls => c.step \in {"fetch", "write", "put"}
         /\ c \in AskedRanges => c.step = "range"
         /\ c \in ReadRanges => c.step \in {"save", "merge"}
         /\ c.step \in {"idle", "fetch", "write", "put", "range", "save", "merge"}
BY DEF Calls, FrameCalls, AskedRanges, ReadRanges, Idle

\* A step that keeps day and rows keeps what the invariant says of calls, if the new
\* call has it.
LEMMA CallsOnly ==
  ASSUME IInv, NEW p \in Callers, NEW c \in Calls, CallInv(c), Becomes(p, c),
         UNCHANGED <<today, phase, rows, index>>
  PROVE  /\ call' \in [Callers -> Calls]
         /\ \A q \in Callers : CallInv(call[q])'
         /\ \A q \in Callers : call'[q].step \in {"idle", "fetch", "write", "put", "range", "save", "merge"}
<1>1. call' \in [Callers -> Calls]
  BY DEF IInv, Becomes
<1>2. ASSUME NEW q \in Callers PROVE CallInv(call[q])'
  <2>1. CallInv(call'[q])
    BY DEF IInv, Becomes
  <2>. QED BY <2>1 DEF CallInv, FrameIsOfToday, FrameIsWritten, RangeIsOfToday, RangeIsComplete, RangeIsWritten
<1>. QED BY <1>1, <1>2, Kinds

\* A step that changes nothing but a call keeps the invariant, if the new call does.
LEMMA CallOnly ==
  ASSUME IInv, NEW p \in Callers, NEW c \in Calls, CallInv(c), Becomes(p, c),
         cooling' \in BOOLEAN, UNCHANGED <<today, phase, rows, ledger, index, covered>>
  PROVE  IInv'
<1>1. StoreTypes'
  BY CallsOnly DEF IInv, StoreTypes
<1>2. (LedgerIsPast /\ FramesAreFinal /\ CoverageIsPast /\ CoverageIsRight)'
  BY DEF IInv, LedgerIsPast, FramesAreFinal, Readable, CoverageIsPast, CoverageIsRight
<1>. QED BY CallsOnly, <1>1, <1>2 DEF IInv

\* The call that is none.
LEMMA NoCall == Idle \in Calls /\ CallInv(Idle)
BY DEF Calls, CallInv, FrameIsOfToday, FrameIsWritten, RangeIsOfToday, RangeIsComplete, RangeIsWritten,
       FrameCalls, AskedRanges, ReadRanges, Idle

\* What the invariant says of the ledger is what the property says.
LEMMA HeldIsReadable ==
  ASSUME NEW d, NEW markets
  PROVE  Held(d, markets) \notin {{}, {"null"}} <=> Readable(d, markets)
<1>1. ASSUME NEW m \in markets, rows[<<d, m>>] \notin {"none", "null"}
      PROVE  Held(d, markets) \notin {{}, {"null"}}
  <2>1. rows[<<d, m>>] \in Held(d, markets)
    BY <1>1 DEF Held
  <2>. QED BY <2>1, <1>1
<1>2. ASSUME Held(d, markets) \notin {{}, {"null"}} PROVE Readable(d, markets)
  <2>1. PICK x \in Held(d, markets) : x # "null"
    BY <1>2
  <2>. QED BY <2>1 DEF Held, Readable
<1>. QED BY <1>1, <1>2 DEF Readable

\* The initial states satisfy the invariant.
LEMMA InitIInv == StoreConstants /\ Init => IInv
<1>. SUFFICES ASSUME StoreConstants, Init PROVE IInv
  OBVIOUS
<1>1. StoreTypes
  <2>1. today \in AllDays /\ phase = "open" /\ cooling = FALSE /\ covered = {}
    BY DEF StoreConstants, Init, AllDays
  <2>2. rows \in [FrameDays \X Markets -> Values] /\ index \in [AllDays -> Values \ {"null"}]
    BY DEF Init, Values
  <2>3. ledger \in [FrameKeys -> [final : BOOLEAN, silent : SUBSET Markets]]
    <3>1. Unconfirmed \in [final : BOOLEAN, silent : SUBSET Markets]
      BY DEF Unconfirmed
    <3>. QED BY <3>1 DEF Init
  <2>4. \A p \in Callers : call[p].step = "idle"
    BY DEF Init, Idle
  <2>. QED BY <2>1, <2>2, <2>3, <2>4 DEF StoreTypes
<1>2. call \in [Callers -> Calls] /\ \A p \in Callers : call[p] = Idle
  BY DEF Init, Calls
<1>3. CallInv(Idle)
  BY NoCall
<1>4. LedgerIsPast /\ FramesAreFinal /\ CoverageIsPast /\ CoverageIsRight
  BY DEF Init, LedgerIsPast, FramesAreFinal, CoverageIsPast, CoverageIsRight, FrameKeys, Unconfirmed
<1>. QED BY <1>1, <1>2, <1>3, <1>4 DEF IInv

(***************************************************************************)
(* Calls that change nothing but themselves                                *)
(***************************************************************************)
\* A call that ends keeps the invariant.
LEMMA EndsIInv ==
  ASSUME IInv, NEW p \in Callers, Becomes(p, Idle), cooling' \in BOOLEAN,
         UNCHANGED <<today, phase, rows, ledger, index, covered>>
  PROVE  IInv'
BY NoCall, CallOnly

\* A frame that is asked for.
LEMMA AskFrameIInv ==
  ASSUME StoreConstants, IInv, NEW p \in Callers, NEW d \in FrameDays, NEW markets \in Requests,
         AskFrame(p, d, markets)
  PROVE  IInv'
<1>. DEFINE c == [step |-> "fetch", day |-> d, markets |-> markets, got |-> <<>>]
<1>1. c \in FrameCalls /\ Asked(c) = {}
  <2>1. <<>> \in [{} -> Outcomes]
    OBVIOUS
  <2>. QED BY <2>1 DEF FrameCalls, Asked
<1>2. c \in Calls /\ c \notin AskedRanges /\ c \notin ReadRanges
  BY <1>1 DEF Calls, AskedRanges, ReadRanges
<1>3. CallInv(c)
  BY <1>1, <1>2 DEF AskFrame, CallInv, FrameIsOfToday, FrameIsWritten, RangeIsOfToday, RangeIsComplete, RangeIsWritten
<1>4. cooling' \in BOOLEAN
  BY DEF AskFrame, IInv, StoreTypes
<1>. QED BY <1>2, <1>3, <1>4, CallOnly DEF AskFrame

\* A market that answers: only while the day of the frame trades with what is not final.
LEMMA FetchMarketIInv ==
  ASSUME StoreConstants, IInv, NEW p \in Callers, NEW m \in Markets, NEW answer \in Answers,
         FetchMarket(p, m, answer)
  PROVE  IInv'
<1>. DEFINE c == call[p]
            x == Outcome(c, answer)
            d == [c EXCEPT !.got = With(@, m, x)]
<1>1. c \in FrameCalls /\ c.step = "fetch" /\ m \in c.markets /\ c.markets \subseteq Markets
  BY Kinds DEF FetchMarket, InStep, IInv, StoreConstants, FrameCalls
<1>2. x \in Outcomes /\ (x = "intraday" => c.day = today /\ phase = "open")
  BY DEF Outcome, Outcomes, Answers, Quality
<1>3. PICK set \in SUBSET Markets : c.got \in [set -> Outcomes]
  BY <1>1 DEF FrameCalls
<1>4. With(c.got, m, x) \in [set \cup {m} -> Outcomes]
  BY <1>2, <1>3 DEF With
<1>5. /\ d.got = With(c.got, m, x) /\ d.step = "fetch" /\ d.day = c.day /\ d.markets = c.markets
      /\ d \in FrameCalls
  <2>1. d = [step |-> "fetch", day |-> c.day, markets |-> c.markets, got |-> With(c.got, m, x)]
    BY <1>1 DEF FrameCalls
  <2>2. set \cup {m} \in SUBSET Markets
    OBVIOUS
  <2>. HIDE DEF d, x, c
  <2>. QED BY <2>1, <2>2, <1>4, <1>1 DEF FrameCalls
<1>6. /\ Asked(d) = Asked(c) \cup {m}
      /\ \A n \in Asked(d) : d.got[n] = c.got[n] \/ d.got[n] = x
  BY <1>3, <1>5 DEF Asked, With
<1>7. d \in Calls /\ d \notin AskedRanges /\ d \notin ReadRanges
  BY <1>5, Kinds DEF Calls
<1>8. FrameIsOfToday(c)
  BY DEF IInv, CallInv
<1>9. FrameIsOfToday(d)
  <2>1. \A n \in Asked(d) : d.got[n] = "intraday" => c.day = today /\ phase # "night"
    BY <1>1, <1>2, <1>3, <1>5, <1>6, <1>8 DEF FrameIsOfToday, Asked, With
  <2>. QED BY <2>1, <1>1, <1>5, <1>6, <1>8 DEF FrameIsOfToday
<1>10. CallInv(d)
  <2>. HIDE DEF d
  <2>. QED BY <1>5, <1>7, <1>9 DEF CallInv, FrameIsWritten, RangeIsOfToday, RangeIsComplete, RangeIsWritten
<1>11. cooling' \in BOOLEAN /\ Becomes(p, d) /\ UNCHANGED <<today, phase, rows, ledger, index, covered>>
  BY DEF FetchMarket, IInv, StoreTypes
<1>. HIDE DEF d
<1>. QED BY <1>7, <1>10, <1>11, CallOnly

\* All markets were asked: the call goes on or ends.
LEMMA FetchEndsIInv == ASSUME StoreConstants, IInv, NEW p \in Callers, FetchEnds(p) PROVE IInv'
<1>. DEFINE c == call[p]
            d == [c EXCEPT !.step = "write"]
<1>1. CASE Becomes(p, Idle)
  BY <1>1, EndsIInv DEF FetchEnds, IInv, StoreTypes
<1>2. CASE Becomes(p, d)
  <2>1. c \in FrameCalls
    BY Kinds DEF FetchEnds, InStep, IInv
  <2>2. /\ d \in FrameCalls /\ d.step = "write"
        /\ d.day = c.day /\ d.got = c.got /\ d.markets = c.markets
    BY <2>1 DEF FrameCalls
  <2>3. d \in Calls /\ d \notin AskedRanges /\ d \notin ReadRanges
    BY <2>2, Kinds DEF Calls
  <2>4. FrameIsOfToday(c)
    BY DEF IInv, CallInv
  <2>5. CallInv(d)
    <3>. HIDE DEF d, c
    <3>. QED BY <2>1, <2>2, <2>3, <2>4 DEF CallInv, FrameIsOfToday, FrameIsWritten, RangeIsOfToday,
              RangeIsComplete, RangeIsWritten, Asked
  <2>6. cooling' \in BOOLEAN /\ UNCHANGED <<today, phase, rows, ledger, index, covered>>
    BY DEF FetchEnds, IInv, StoreTypes
  <2>. HIDE DEF d
  <2>. QED BY <1>2, <2>3, <2>5, <2>6, CallOnly
<1>. QED BY <1>1, <1>2 DEF FetchEnds

\* The rows of a caller: a final one is replaced by an older one only before midnight.
LEMMA WriteFrameIInv == ASSUME StoreConstants, IInv, NEW p \in Callers, WriteFrame(p) PROVE IInv'
<1>. DEFINE c == call[p]
            d == [c EXCEPT !.step = "put"]
<1>1. c \in FrameCalls /\ c.step = "write" /\ c.markets \subseteq Markets
  BY Kinds DEF WriteFrame, InStep, IInv, StoreConstants, FrameCalls
<1>2. /\ d \in FrameCalls /\ d.step = "put"
      /\ d.day = c.day /\ d.got = c.got /\ d.markets = c.markets
  BY <1>1 DEF FrameCalls
<1>3. d \in Calls /\ d \notin AskedRanges /\ d \notin ReadRanges
  BY <1>2, Kinds DEF Calls
<1>4. /\ FrameIsOfToday(c) /\ c.day \in FrameDays
      /\ Asked(c) \subseteq Markets /\ RowsOf(c) \subseteq Asked(c)
      /\ \A m \in RowsOf(c) : c.got[m] \in {"null", "intraday", "final"}
      /\ \A m \in Asked(c) : c.got[m] = "final" => m \in RowsOf(c)
  BY <1>1 DEF IInv, CallInv, FrameIsOfToday, RowsOf, WithValues, Answered, Asked, FrameCalls
<1>5. /\ rows \in [FrameDays \X Markets -> Values]
      /\ \A k \in FrameDays \X Markets :
           rows'[k] = IF k[1] = c.day /\ k[2] \in RowsOf(c) THEN Coalesced(rows[k], c.got[k[2]]) ELSE rows[k]
      /\ rows' \in [FrameDays \X Markets -> Values]
  <2>. DEFINE New(k) == IF k[1] = c.day /\ k[2] \in RowsOf(c) THEN Coalesced(rows[k], c.got[k[2]]) ELSE rows[k]
  <2>1. rows \in [FrameDays \X Markets -> Values]
    BY DEF IInv, StoreTypes
  <2>2. rows' = [k \in FrameDays \X Markets |-> New(k)]
    BY <2>1 DEF WriteFrame
  <2>3. ASSUME NEW k \in FrameDays \X Markets PROVE New(k) \in Values
    BY <1>4, <2>1 DEF Coalesced, Values
  <2>. HIDE DEF c
  <2>4. rows' \in [FrameDays \X Markets -> Values] /\ \A k \in FrameDays \X Markets : rows'[k] = New(k)
    <3>. HIDE DEF New
    <3>. QED BY <2>2, <2>3
  <2>. QED BY <2>1, <2>4
<1>6. ASSUME NEW k \in FrameDays \X Markets
      PROVE  /\ rows[k] # "none" => rows'[k] # "none"
             /\ rows[k] \notin {"none", "null"} => rows'[k] \notin {"none", "null"}
             /\ rows[k] = "final" => rows'[k] = "final" \/ (k[1] = today /\ phase # "night")
  <2>. DEFINE v == c.got[k[2]]
  <2>1. CASE k[1] = c.day /\ k[2] \in RowsOf(c)
    <3>1. v \in {"null", "intraday", "final"} /\ (v = "intraday" => c.day = today /\ phase # "night")
      <4>. HIDE DEF c
      <4>. QED BY <1>1, <1>4, <2>1 DEF FrameIsOfToday
    <3>2. rows'[k] = Coalesced(rows[k], v)
      BY <1>5, <2>1
    <3>. HIDE DEF c, v
    <3>. QED BY <3>1, <3>2, <2>1 DEF Coalesced
  <2>2. CASE ~(k[1] = c.day /\ k[2] \in RowsOf(c))
    <3>. HIDE DEF c
    <3>. QED BY <1>5, <2>2
  <2>. QED BY <2>1, <2>2
<1>7. call' = [call EXCEPT ![p] = d] /\ call \in [Callers -> Calls]
      /\ UNCHANGED <<today, phase, cooling, ledger, index, covered>>
  BY DEF WriteFrame, Becomes, IInv
<1>8. ASSUME NEW q \in Callers PROVE CallInv(call[q])'
  <2>1. CASE q # p
    <3>1. call'[q] = call[q] /\ CallInv(call[q]) /\ call[q] \in Calls
      BY <1>7, <2>1 DEF IInv
    <3>2. call[q] \in FrameCalls =>
            /\ call[q].day \in FrameDays /\ Asked(call[q]) \subseteq Markets
            /\ RowsOf(call[q]) \subseteq Asked(call[q])
      BY DEF FrameCalls, Asked, RowsOf, WithValues, Answered
    <3>3. ASSUME call[q] \in FrameCalls, call[q].step = "put",
                 NEW m \in RowsOf(call[q])
          PROVE  rows'[<<call[q].day, m>>] # "none"
      BY <1>6, <3>1, <3>2, <3>3 DEF CallInv, FrameIsWritten
    <3>4. ASSUME call[q] \in FrameCalls, call[q].step = "put",
                 NEW m \in Asked(call[q]), call[q].got[m] = "final"
          PROVE  rows'[<<call[q].day, m>>] = "final" \/ (call[q].day = today /\ phase # "night")
      <4>1. <<call[q].day, m>> \in FrameDays \X Markets
        BY <3>2, <3>4
      <4>. QED BY <1>6, <3>1, <3>4, <4>1 DEF CallInv, FrameIsWritten
    <3>5. FrameIsWritten(call[q])'
      <4>1. UNCHANGED <<RowsOf(call[q]), Asked(call[q])>>
        BY <3>1 DEF RowsOf, WithValues, Answered, Asked
      <4>. QED BY <3>1, <3>3, <3>4, <4>1, <1>7 DEF FrameIsWritten
    <3>. QED BY <3>1, <3>5, <1>7 DEF CallInv, FrameIsOfToday, RangeIsOfToday, RangeIsComplete, RangeIsWritten
  <2>2. CASE q = p
    <3>1. call'[q] = d
      BY <1>7, <2>2
    <3>2. /\ \A m \in RowsOf(c) : rows'[<<c.day, m>>] # "none"
          /\ \A m \in Asked(c) : c.got[m] = "final" => rows'[<<c.day, m>>] = "final"
      <4>1. \A m \in RowsOf(c) : <<c.day, m>> \in FrameDays \X Markets
        BY <1>4
      <4>2. \A m \in RowsOf(c) : rows'[<<c.day, m>>] = Coalesced(rows[<<c.day, m>>], c.got[m])
        BY <4>1, <1>5
      <4>. QED BY <4>2, <1>4 DEF Coalesced
    <3>3. /\ call'[q] \in FrameCalls /\ call'[q].step = "put"
          /\ call'[q].day = c.day /\ call'[q].got = c.got /\ call'[q].markets = c.markets
      BY <1>2, <3>1
    <3>4. Asked(call[q])' = Asked(c) /\ RowsOf(call[q])' = RowsOf(c)
      <4>. HIDE DEF d, c
      <4>. QED BY <3>3 DEF Asked, RowsOf, WithValues, Answered
    <3>5. FrameIsOfToday(call[q])'
      <4>. HIDE DEF d, c
      <4>. QED BY <1>1, <1>4, <1>7, <3>3, <3>4 DEF FrameIsOfToday
    <3>6. FrameIsWritten(call[q])'
      <4>. HIDE DEF d, c
      <4>. QED BY <1>7, <3>2, <3>3, <3>4 DEF FrameIsWritten
    <3>7. call'[q] \notin AskedRanges /\ call'[q] \notin ReadRanges
      BY <1>3, <3>1
    <3>. QED BY <3>5, <3>6, <3>7 DEF CallInv, RangeIsOfToday, RangeIsComplete, RangeIsWritten
  <2>. QED BY <2>1, <2>2
<1>9. call' \in [Callers -> Calls] /\ StoreTypes'
  <2>1. call' \in [Callers -> Calls]
    BY <1>3, <1>7
  <2>. QED BY <2>1, <1>5, <1>7, Kinds DEF IInv, StoreTypes
<1>10. FramesAreFinal'
  <2>1. ASSUME NEW k \in FrameKeys, ledger[k].final
        PROVE  /\ Readable(k[1], k[2])'
               /\ \A m \in k[2] \ ledger[k].silent : rows'[<<k[1], m>>] = "final"
    <3>1. k[1] \in FrameDays /\ k[2] \subseteq Markets /\ k[1] < today /\ today \in Int
      BY <2>1 DEF FrameKeys, StoreConstants, IInv, LedgerIsPast, StoreTypes, AllDays
    <3>2. \A m \in k[2] : <<k[1], m>> \in FrameDays \X Markets
      BY <3>1
    <3>. QED BY <1>6, <2>1, <3>1, <3>2 DEF IInv, FramesAreFinal, Readable
  <2>. QED BY <2>1, <1>7 DEF FramesAreFinal
<1>11. (LedgerIsPast /\ CoverageIsPast /\ CoverageIsRight)'
  BY <1>7 DEF IInv, LedgerIsPast, CoverageIsPast, CoverageIsRight
<1>. QED BY <1>8, <1>9, <1>10, <1>11 DEF IInv

\* What the ledger confirms is over and was answered in full, so what was written of it
\* is what the markets said at the end of the day.
LEMMA PutLedgerIInv == ASSUME StoreConstants, IInv, NEW p \in Callers, PutLedger(p) PROVE IInv'
<1>. DEFINE c == call[p]
            key == <<c.day, c.markets>>
            entry == IF Confirmed(c) THEN [final |-> TRUE, silent |-> Silent(c)] ELSE Unconfirmed
<1>1. c \in FrameCalls /\ c.step = "put" /\ key \in FrameKeys /\ c.markets \subseteq Markets
  BY Kinds DEF PutLedger, InStep, IInv, StoreConstants, FrameCalls, FrameKeys
<1>2. /\ Becomes(p, Idle) /\ ledger' = [ledger EXCEPT ![key] = entry]
      /\ UNCHANGED <<today, phase, cooling, rows, index, covered>>
  BY DEF PutLedger
<1>3. FrameIsOfToday(c) /\ FrameIsWritten(c) /\ today \in Int
  BY DEF IInv, CallInv, StoreTypes, AllDays
<1>4. \A m \in Asked(c) : c.got[m] \in Outcomes
  <2>. HIDE DEF c
  <2>. QED BY <1>1 DEF FrameCalls, Asked
<1>5. Silent(c) \in SUBSET Markets
  <2>. HIDE DEF c
  <2>. QED BY <1>1, <1>3 DEF Silent, Answered, FrameIsOfToday
<1>6. entry \in [final : BOOLEAN, silent : SUBSET Markets]
  <2>1. Unconfirmed \in [final : BOOLEAN, silent : SUBSET Markets]
    BY DEF Unconfirmed
  <2>. QED BY <1>5, <2>1
<1>7. ASSUME Confirmed(c)
      PROVE  /\ c.day < today /\ Readable(c.day, c.markets)
             /\ \A m \in c.markets \ Silent(c) : rows[<<c.day, m>>] = "final"
  <2>. HIDE DEF c
  <2>1. c.day \in Int /\ c.day < today
    <3>1. c.day \in FrameDays /\ FrameDays \subseteq Int
      BY <1>1 DEF FrameCalls, StoreConstants
    <3>2. c.day <= today - 1
      BY <1>7 DEF Confirmed, IsFinalDate, Yesterday
    <3>3. c.day \in Int /\ today \in Int
      BY <1>3, <3>1
    <3>. QED BY <3>2, <3>3
  <2>2. Asked(c) = c.markets /\ \A m \in Asked(c) : c.got[m] # "failed"
    BY <1>7 DEF Confirmed, Complete, Failed, Answered
  <2>3. Readable(c.day, c.markets)
    <3>1. PICK m \in RowsOf(c) : TRUE
      BY <1>7 DEF Confirmed
    <3>2. m \in c.markets /\ rows[<<c.day, m>>] # "none"
      BY <1>1, <1>3, <2>2, <3>1 DEF FrameIsWritten, RowsOf, WithValues, Answered
    <3>3. Held(c.day, c.markets) # {} /\ Held(c.day, c.markets) # {"null"}
      BY <3>2, <1>7 DEF Held, Confirmed, AllNull
    <3>. QED BY <3>3, HeldIsReadable
  <2>4. ASSUME NEW m \in c.markets \ Silent(c) PROVE rows[<<c.day, m>>] = "final"
    <3>1. m \in Asked(c) /\ c.got[m] \in {"intraday", "final"}
      BY <1>4, <2>2 DEF Silent, Answered, Outcomes
    <3>2. c.got[m] = "final"
      BY <1>1, <1>3, <2>1, <3>1 DEF FrameIsOfToday
    <3>. QED BY <1>1, <1>3, <2>1, <3>1, <3>2 DEF FrameIsWritten
  <2>. QED BY <2>1, <2>3, <2>4
<1>8. ledger \in [FrameKeys -> [final : BOOLEAN, silent : SUBSET Markets]]
  BY DEF IInv, StoreTypes
<1>9. /\ ledger' \in [FrameKeys -> [final : BOOLEAN, silent : SUBSET Markets]]
      /\ ledger'[key] = entry /\ \A k \in FrameKeys : k # key => ledger'[k] = ledger[k]
  <2>. HIDE DEF entry, key
  <2>. QED BY <1>1, <1>2, <1>6, <1>8
<1>10. /\ call' \in [Callers -> Calls] /\ \A q \in Callers : CallInv(call[q])'
       /\ \A q \in Callers : call'[q].step \in {"idle", "fetch", "write", "put", "range", "save", "merge"}
  BY <1>2, NoCall, CallsOnly
<1>11. StoreTypes'
  BY <1>2, <1>9, <1>10 DEF IInv, StoreTypes
<1>12. ASSUME NEW k \in FrameKeys, ledger'[k].final
       PROVE  /\ k[1] < today /\ Readable(k[1], k[2])
              /\ \A m \in k[2] \ ledger'[k].silent : rows[<<k[1], m>>] = "final"
  <2>1. CASE k = key
    <3>1. ledger'[k] = entry /\ entry.final
      BY <1>9, <1>12, <2>1
    <3>2. Confirmed(c) /\ entry.silent = Silent(c)
      BY <3>1 DEF Unconfirmed
    <3>. QED BY <1>7, <2>1, <3>1, <3>2
  <2>2. CASE k # key
    BY <1>9, <1>12, <2>2 DEF IInv, LedgerIsPast, FramesAreFinal
  <2>. QED BY <2>1, <2>2
<1>13. (LedgerIsPast /\ FramesAreFinal)'
  <2>. HIDE DEF key, entry
  <2>. QED BY <1>2, <1>12 DEF LedgerIsPast, FramesAreFinal, Readable
<1>14. (CoverageIsPast /\ CoverageIsRight)'
  BY <1>2 DEF IInv, CoverageIsPast, CoverageIsRight
<1>. QED BY <1>10, <1>11, <1>13, <1>14 DEF IInv

(***************************************************************************)
(* Ranges                                                                  *)
(***************************************************************************)
\* A range that is asked for: final is what was over when it was.
LEMMA AskRangeIInv ==
  ASSUME StoreConstants, IInv, NEW p \in Callers, NEW iv \in Ranges, AskRange(p, iv[1], iv[2])
  PROVE  IInv'
<1>. DEFINE c == [step |-> "range", from |-> iv[1], to |-> iv[2], through |-> Yesterday]
<1>1. today \in Int /\ cooling \in BOOLEAN
  BY DEF IInv, StoreTypes, AllDays
<1>2. iv[1] \in AllDays /\ iv[2] \in AllDays
  BY DEF StoreConstants, AllDays
<1>3. c \in AskedRanges /\ c.through < today
  BY <1>1, <1>2 DEF AskedRanges, Yesterday
<1>. HIDE DEF c
<1>4. c \in Calls /\ c \notin FrameCalls /\ c \notin ReadRanges
  BY <1>3, Kinds DEF Calls
<1>5. CallInv(c)
  BY <1>3, <1>4 DEF CallInv, FrameIsOfToday, FrameIsWritten, RangeIsOfToday, RangeIsComplete, RangeIsWritten
<1>. QED BY <1>1, <1>4, <1>5, CallOnly DEF AskRange, c

\* A source that answers: nothing, all, or too little to be covered.
LEMMA FetchRangeIInv ==
  ASSUME StoreConstants, IInv, NEW p \in Callers, NEW days \in SUBSET AllDays, FetchRange(p, days)
  PROVE  IInv'
<1>. DEFINE c == call[p]
            got == [x \in days |-> Quality(x)]
            d == [step |-> "save", from |-> c.from, to |-> c.to, through |-> c.through, got |-> got]
<1>1. c \in AskedRanges /\ c.through < today
  BY Kinds DEF FetchRange, InStep, IInv, CallInv, RangeIsOfToday
<1>2. got \in [days -> {"intraday", "final"}]
  BY DEF Quality
<1>3. d \in ReadRanges
  <2>. HIDE DEF c, got
  <2>. QED BY <1>1, <1>2 DEF ReadRanges, AskedRanges
<1>4. DOMAIN d.got = days /\ \A x \in days : d.got[x] = Quality(x)
  OBVIOUS
<1>5. d.from = c.from /\ d.to = c.to /\ d.through = c.through /\ d.step = "save"
  OBVIOUS
<1>6. days = {} \/ days = c.from .. c.to \/ Partial(c.from, Least(c.to, c.through), Cardinality(days))
  BY DEF FetchRange, Received, Partial, Expected
<1>7. Becomes(p, d) /\ UNCHANGED <<today, phase, cooling, rows, ledger, index, covered>>
  BY DEF FetchRange
<1>. HIDE DEF d
<1>8. d \in Calls /\ d \notin FrameCalls /\ d \notin AskedRanges
  BY <1>3, Kinds DEF Calls
<1>9. RangeIsOfToday(d)
  BY <1>1, <1>4, <1>5 DEF RangeIsOfToday, Quality
<1>10. RangeIsComplete(d)
  BY <1>4, <1>5, <1>6 DEF RangeIsComplete
<1>11. CallInv(d)
  BY <1>5, <1>8, <1>9, <1>10 DEF CallInv, FrameIsOfToday, FrameIsWritten, RangeIsWritten
<1>. QED BY <1>7, <1>8, <1>11, CallOnly DEF IInv, StoreTypes

\* Bars that are written: those of a day that is over are final.
LEMMA WriteRangeIInv == ASSUME StoreConstants, IInv, NEW p \in Callers, WriteRange(p) PROVE IInv'
<1>. DEFINE c == call[p]
            d == IF DOMAIN c.got = {} THEN Idle ELSE [c EXCEPT !.step = "merge"]
<1>1. c \in ReadRanges /\ c.step = "save"
  BY Kinds DEF WriteRange, InStep, IInv
<1>2. /\ call' = [call EXCEPT ![p] = d] /\ call \in [Callers -> Calls]
      /\ UNCHANGED <<today, phase, cooling, rows, ledger, covered>>
  BY DEF WriteRange, Becomes, IInv
<1>3. RangeIsOfToday(c) /\ RangeIsComplete(c) /\ today \in Int
  BY DEF IInv, CallInv, StoreTypes, AllDays
<1>4. /\ DOMAIN c.got \subseteq AllDays /\ c.through \in Int /\ c.through < today
      /\ \A x \in DOMAIN c.got :
           /\ c.got[x] \in {"intraday", "final"}
           /\ c.got[x] = "final" \/ x = today
  <2>. HIDE DEF c
  <2>. QED BY <1>1, <1>3 DEF ReadRanges, RangeIsOfToday
<1>5. /\ index' \in [AllDays -> Values \ {"null"}]
      /\ \A x \in AllDays : index'[x] = IF x \in DOMAIN c.got THEN c.got[x] ELSE index[x]
  <2>1. index \in [AllDays -> Values \ {"null"}]
    BY DEF IInv, StoreTypes
  <2>2. index' = [x \in AllDays |-> IF x \in DOMAIN c.got THEN c.got[x] ELSE index[x]]
    BY DEF WriteRange
  <2>. HIDE DEF c
  <2>. QED BY <1>4, <2>1, <2>2 DEF Values
<1>6. ASSUME NEW x \in AllDays, index[x] = "final", x < today PROVE index'[x] = "final"
  <2>. HIDE DEF c
  <2>. QED BY <1>3, <1>4, <1>5, <1>6 DEF AllDays
<1>7. ASSUME NEW q \in Callers, q # p PROVE CallInv(call[q])'
  <2>1. call'[q] = call[q] /\ CallInv(call[q]) /\ call[q] \in Calls
    BY <1>2, <1>7 DEF IInv
  <2>2. ASSUME call[q] \in ReadRanges, call[q].step = "merge", NEW x \in DOMAIN call[q].got, x <= call[q].through
        PROVE  index'[x] = "final"
    <3>1. x \in AllDays /\ x \in Int /\ call[q].through \in Int
      BY <2>2 DEF ReadRanges, AllDays
    <3>2. index[x] = "final" /\ call[q].through < today
      BY <2>1, <2>2 DEF CallInv, RangeIsWritten, RangeIsOfToday
    <3>. QED BY <1>3, <1>6, <2>2, <3>1, <3>2
  <2>3. (FrameIsOfToday(call[q]) /\ FrameIsWritten(call[q]))'
    BY <1>2, <2>1 DEF CallInv, FrameIsOfToday, FrameIsWritten, Asked, RowsOf, WithValues, Answered
  <2>4. (RangeIsOfToday(call[q]) /\ RangeIsComplete(call[q]))'
    BY <1>2, <2>1 DEF CallInv, RangeIsOfToday, RangeIsComplete
  <2>5. RangeIsWritten(call[q])'
    BY <2>1, <2>2 DEF CallInv, RangeIsWritten
  <2>. QED BY <2>3, <2>4, <2>5 DEF CallInv
<1>8. call'[p] \in Calls /\ CallInv(call[p])'
  <2>0. call'[p] = d
    BY <1>2
  <2>1. CASE DOMAIN c.got = {}
    <3>1. call'[p] = Idle
      BY <2>0, <2>1
    <3>. QED BY <3>1 DEF Calls, CallInv, FrameIsOfToday, FrameIsWritten, RangeIsOfToday, RangeIsComplete,
                         RangeIsWritten, FrameCalls, AskedRanges, ReadRanges, Idle
  <2>2. CASE DOMAIN c.got # {}
    <3>1. call'[p] = [c EXCEPT !.step = "merge"]
      BY <2>0, <2>2
    <3>2. /\ call'[p] \in ReadRanges /\ call'[p].step = "merge" /\ call'[p].got = c.got
          /\ call'[p].from = c.from /\ call'[p].to = c.to /\ call'[p].through = c.through
      <4>. HIDE DEF c
      <4>. QED BY <1>1, <3>1 DEF ReadRanges
    <3>3. call'[p] \in Calls /\ call'[p] \notin FrameCalls /\ call'[p] \notin AskedRanges
      BY <3>2, Kinds DEF Calls
    <3>4. RangeIsOfToday(call[p])'
      <4>. HIDE DEF c
      <4>. QED BY <1>1, <1>2, <1>3, <3>2 DEF RangeIsOfToday
    <3>5. RangeIsComplete(call[p])'
      <4>. HIDE DEF c
      <4>. QED BY <1>1, <1>3, <3>2 DEF RangeIsComplete
    <3>6. \A x \in DOMAIN c.got : x <= c.through => index'[x] = "final"
      <4>. HIDE DEF c
      <4>. QED BY <1>3, <1>4, <1>5 DEF AllDays
    <3>7. RangeIsWritten(call[p])'
      <4>. HIDE DEF c
      <4>. QED BY <2>2, <3>2, <3>6 DEF RangeIsWritten
    <3>. QED BY <3>3, <3>4, <3>5, <3>7 DEF CallInv, FrameIsOfToday, FrameIsWritten
  <2>. QED BY <2>1, <2>2
<1>9. call' \in [Callers -> Calls] /\ StoreTypes'
  <2>1. call' \in [Callers -> Calls]
    BY <1>2, <1>8
  <2>. QED BY <2>1, <1>2, <1>5, Kinds DEF IInv, StoreTypes
<1>10. CoverageIsRight'
  <2>1. ASSUME NEW iv \in covered, NEW x \in iv[1] .. iv[2] PROVE index'[x] = "final"
    <3>1. iv[1] \in AllDays /\ iv[2] \in AllDays /\ iv[2] < today
      BY DEF IInv, StoreTypes, CoverageIsPast
    <3>2. x \in AllDays /\ x < today
      BY <1>3, <3>1 DEF StoreConstants, AllDays
    <3>. QED BY <1>6, <3>2 DEF IInv, CoverageIsRight
  <2>. QED BY <1>2, <2>1 DEF CoverageIsRight
<1>11. (LedgerIsPast /\ FramesAreFinal /\ CoverageIsPast)'
  BY <1>2 DEF IInv, LedgerIsPast, FramesAreFinal, Readable, CoverageIsPast
<1>. QED BY <1>7, <1>8, <1>9, <1>10, <1>11 DEF IInv

\* Intervals that are merged cover no day that none of them covered.
LEMMA MergedCovers ==
  ASSUME StoreConstants, covered \subseteq {iv \in AllDays \X AllDays : iv[1] <= iv[2]},
         NEW a \in AllDays, NEW b \in AllDays, a <= b,
         NEW iv \in Merged(a, b)
  PROVE  /\ iv \in AllDays \X AllDays /\ iv[1] <= iv[2]
         /\ iv[2] = b \/ \E old \in covered : iv[2] = old[2]
         /\ \A x \in iv[1] .. iv[2] : x \in a .. b \/ \E old \in covered : x \in old[1] .. old[2]
<1>. DEFINE starts == {a} \cup {old[1] : old \in Touching(a, b)}
            ends == {b} \cup {old[2] : old \in Touching(a, b)}
            lo == Min(starts)
            hi == Max(ends)
<1>1. LastDay \in Nat
  BY DEF StoreConstants
<1>2. \A old \in covered : old[1] \in AllDays /\ old[2] \in AllDays /\ old[1] <= old[2]
  OBVIOUS
<1>3. \A old \in Touching(a, b) : old \in covered /\ old[2] >= a - 1 /\ old[1] <= b + 1
  BY DEF Touching
<1>4. starts \in SUBSET AllDays /\ ends \in SUBSET AllDays /\ a \in starts /\ b \in ends
  BY <1>2, <1>3
<1>5. lo \in starts /\ lo <= a
  <2>. HIDE DEF starts
  <2>1. starts \in SUBSET Nat
    BY <1>1, <1>4 DEF AllDays
  <2>. QED BY <1>4, <2>1, LeastElement
<1>6. hi \in ends /\ b <= hi
  <2>. HIDE DEF ends
  <2>1. ends \in SUBSET (0 .. LastDay)
    BY <1>1, <1>4 DEF AllDays
  <2>. QED BY <1>1, <1>4, <2>1, GreatestElement
<1>7. lo \in AllDays /\ hi \in AllDays /\ lo <= hi
  <2>1. lo \in AllDays /\ hi \in AllDays
    BY <1>4, <1>5, <1>6
  <2>. HIDE DEF lo, hi
  <2>. QED BY <1>1, <1>5, <1>6, <2>1 DEF AllDays
<1>8. hi = b \/ \E old \in covered : hi = old[2]
  <2>. HIDE DEF hi
  <2>. QED BY <1>3, <1>6
<1>9. ASSUME NEW x \in lo .. hi, x \notin a .. b PROVE \E old \in covered : x \in old[1] .. old[2]
  <2>1. x \in Int /\ lo <= x /\ x <= hi /\ a \in Int /\ b \in Int
    <3>. HIDE DEF lo, hi
    <3>. QED BY <1>1, <1>7 DEF AllDays
  <2>2. CASE x < a
    <3>1. PICK old \in Touching(a, b) : lo = old[1]
      <4>1. lo # a
        <5>. HIDE DEF lo
        <5>. QED BY <2>1, <2>2
      <4>. HIDE DEF lo
      <4>. QED BY <1>5, <4>1
    <3>2. old \in covered /\ old[2] \in Int /\ old[2] >= a - 1 /\ old[1] <= x
      <4>. HIDE DEF lo
      <4>. QED BY <1>1, <1>2, <1>3, <2>1, <3>1 DEF AllDays
    <3>3. x <= old[2] /\ old[1] \in Int
      BY <1>1, <1>2, <2>1, <2>2, <3>2 DEF AllDays
    <3>. QED BY <2>1, <3>2, <3>3
  <2>3. CASE x > b
    <3>1. PICK old \in Touching(a, b) : hi = old[2]
      <4>1. hi # b
        <5>. HIDE DEF hi
        <5>. QED BY <2>1, <2>3
      <4>. HIDE DEF hi
      <4>. QED BY <1>6, <4>1
    <3>2. old \in covered /\ old[1] \in Int /\ old[1] <= b + 1 /\ x <= old[2]
      <4>. HIDE DEF hi
      <4>. QED BY <1>1, <1>2, <1>3, <2>1, <3>1 DEF AllDays
    <3>3. old[1] <= x /\ old[2] \in Int
      BY <1>1, <1>2, <2>1, <2>3, <3>2 DEF AllDays
    <3>. QED BY <2>1, <3>2, <3>3
  <2>. QED BY <1>9, <2>1, <2>2, <2>3
<1>10. iv \in covered \/ iv = <<lo, hi>>
  BY DEF Merged
<1>11. CASE iv \in covered
  BY <1>2, <1>11
<1>12. CASE iv = <<lo, hi>>
  <2>. HIDE DEF lo, hi
  <2>. QED BY <1>7, <1>8, <1>9, <1>12
<1>. QED BY <1>10, <1>11, <1>12

\* What is covered is over and was received in full.
LEMMA MergeCoverageIInv == ASSUME StoreConstants, IInv, NEW p \in Callers, MergeCoverage(p) PROVE IInv'
<1>. DEFINE c == call[p]
            end == Least(c.to, c.through)
<1>1. c \in ReadRanges /\ c.step = "merge"
  BY Kinds DEF MergeCoverage, InStep, IInv
<1>2. Becomes(p, Idle) /\ UNCHANGED <<today, phase, cooling, rows, ledger, index>>
  BY DEF MergeCoverage
<1>3. RangeIsOfToday(c) /\ RangeIsComplete(c) /\ RangeIsWritten(c) /\ today \in Int /\ LastDay \in Nat
  BY DEF IInv, CallInv, StoreTypes, AllDays, StoreConstants
<1>4. CASE covered' = covered
  BY <1>2, <1>4, NoCall, CallOnly DEF IInv, StoreTypes
<1>5. CASE covered' # covered
  <2>1. covered' = Merged(c.from, end) /\ ~(end < c.from) /\ ~Partial(c.from, end, Cardinality(DOMAIN c.got))
    BY <1>5 DEF MergeCoverage
  <2>2. c.from \in AllDays /\ c.to \in AllDays /\ c.through \in Int /\ c.through < today
    <3>. HIDE DEF c
    <3>. QED BY <1>1, <1>3 DEF ReadRanges, RangeIsOfToday
  <2>3. end \in AllDays /\ c.from <= end /\ end <= c.to /\ end <= c.through /\ end < today
    <3>. HIDE DEF c
    <3>. QED BY <1>3, <2>1, <2>2 DEF Least, AllDays
  <2>4. c.from .. c.to \subseteq DOMAIN c.got /\ \A x \in DOMAIN c.got : x <= c.through => index[x] = "final"
    <3>. HIDE DEF c
    <3>. QED BY <1>1, <1>3, <2>1 DEF RangeIsComplete, RangeIsWritten
  <2>5. ASSUME NEW x \in c.from .. end PROVE index[x] = "final"
    <3>1. x \in c.from .. c.to /\ x <= c.through
      <4>. HIDE DEF c, end
      <4>. QED BY <1>3, <2>2, <2>3 DEF AllDays
    <3>. HIDE DEF c, end
    <3>. QED BY <2>4, <3>1
  <2>6. covered \subseteq {iv \in AllDays \X AllDays : iv[1] <= iv[2]}
    BY DEF IInv, StoreTypes
  <2>7. ASSUME NEW iv \in covered'
        PROVE  /\ iv \in AllDays \X AllDays /\ iv[1] <= iv[2] /\ iv[2] < today
               /\ \A x \in iv[1] .. iv[2] : index[x] = "final"
    <3>. HIDE DEF c, end
    <3>1. iv \in Merged(c.from, end)
      BY <2>1
    <3>2. /\ iv \in AllDays \X AllDays /\ iv[1] <= iv[2]
          /\ iv[2] = end \/ \E old \in covered : iv[2] = old[2]
          /\ \A x \in iv[1] .. iv[2] : x \in c.from .. end \/ \E old \in covered : x \in old[1] .. old[2]
      BY <2>2, <2>3, <2>6, <3>1, MergedCovers
    <3>3. iv[2] < today
      BY <2>3, <3>2 DEF IInv, CoverageIsPast
    <3>4. \A x \in iv[1] .. iv[2] : index[x] = "final"
      BY <2>5, <3>2 DEF IInv, CoverageIsRight
    <3>. QED BY <3>2, <3>3, <3>4
  <2>8. (CoverageIsPast /\ CoverageIsRight)'
    BY <1>2, <2>7 DEF CoverageIsPast, CoverageIsRight
  <2>9. /\ call' \in [Callers -> Calls] /\ \A q \in Callers : CallInv(call[q])'
        /\ \A q \in Callers : call'[q].step \in {"idle", "fetch", "write", "put", "range", "save", "merge"}
    BY <1>2, NoCall, CallsOnly
  <2>10. covered' \subseteq {iv \in AllDays \X AllDays : iv[1] <= iv[2]}
    BY <2>7
  <2>11. StoreTypes'
    BY <1>2, <2>9, <2>10 DEF IInv, StoreTypes
  <2>12. (LedgerIsPast /\ FramesAreFinal)'
    BY <1>2 DEF IInv, LedgerIsPast, FramesAreFinal, Readable
  <2>. QED BY <2>8, <2>9, <2>11, <2>12 DEF IInv
<1>. QED BY <1>4, <1>5

(***************************************************************************)
(* Time                                                                    *)
(***************************************************************************)
\* The close and the evening: nobody goes into the late evening with a call.
LEMMA PhaseIInv ==
  ASSUME StoreConstants, IInv, Close \/ Evening \/ CooldownEnds
  PROVE  IInv'
<1>1. /\ UNCHANGED <<today, rows, ledger, index, covered, call>>
      /\ phase' \in {"open", "closed", "night"} /\ cooling' \in BOOLEAN
  BY DEF Close, Evening, CooldownEnds, IInv, StoreTypes
<1>2. ASSUME NEW q \in Callers PROVE CallInv(call[q])'
  <2>1. CallInv(call[q]) /\ call[q] \in Calls
    BY DEF IInv
  <2>2. CASE Close \/ CooldownEnds
    <3>1. phase' # "night" \/ phase' = phase
      BY <2>2 DEF Close, CooldownEnds
    <3>2. (FrameIsOfToday(call[q]) /\ FrameIsWritten(call[q]))'
      BY <1>1, <2>1, <2>2, <3>1 DEF CallInv, FrameIsOfToday, FrameIsWritten, Asked, RowsOf, WithValues, Answered
    <3>3. (RangeIsOfToday(call[q]) /\ RangeIsComplete(call[q]) /\ RangeIsWritten(call[q]))'
      BY <1>1, <2>1, <2>2, <3>1 DEF CallInv, RangeIsOfToday, RangeIsComplete, RangeIsWritten
    <3>. QED BY <3>2, <3>3 DEF CallInv
  <2>3. CASE Evening
    <3>1. call'[q] = Idle
      BY <1>1, <2>1, <2>3, Kinds DEF Evening, InStep
    <3>. QED BY <3>1 DEF CallInv, FrameIsOfToday, FrameIsWritten, RangeIsOfToday, RangeIsComplete,
                         RangeIsWritten, FrameCalls, AskedRanges, ReadRanges, Idle
  <2>. QED BY <2>2, <2>3
<1>3. StoreTypes'
  BY <1>1 DEF IInv, StoreTypes
<1>4. (LedgerIsPast /\ FramesAreFinal /\ CoverageIsPast /\ CoverageIsRight)'
  BY <1>1 DEF IInv, LedgerIsPast, FramesAreFinal, Readable, CoverageIsPast, CoverageIsRight
<1>. QED BY <1>1, <1>2, <1>3, <1>4 DEF IInv

\* Midnight: what callers take along has nothing of the middle of a day.
LEMMA NextDayIInv == ASSUME StoreConstants, IInv, NextDay PROVE IInv'
<1>0. \A d \in FrameDays : d \in Int
  <2>1. FrameDays \subseteq 1 .. LastDay /\ LastDay \in Int
    BY DEF StoreConstants
  <2>. QED BY <2>1
<1>1. /\ phase = "night" /\ phase' = "open" /\ today' = today + 1 /\ today' \in AllDays /\ today \in Int
      /\ UNCHANGED <<cooling, rows, ledger, index, covered, call>>
  BY DEF NextDay, IInv, StoreTypes, AllDays, StoreConstants
<1>2. ASSUME NEW q \in Callers PROVE CallInv(call[q])'
  <2>1. CallInv(call[q]) /\ call[q] \in Calls
    BY DEF IInv
  <2>2. (FrameIsOfToday(call[q]) /\ FrameIsWritten(call[q]))'
    <3>1. call[q] \in FrameCalls => call[q].day \in Int
      BY <1>0 DEF FrameCalls
    <3>2. UNCHANGED <<Asked(call[q]), RowsOf(call[q])>>
      BY <1>1 DEF Asked, RowsOf, WithValues, Answered
    <3>3. FrameIsOfToday(call[q])'
      BY <1>1, <2>1, <3>1, <3>2 DEF CallInv, FrameIsOfToday
    <3>4. FrameIsWritten(call[q])'
      BY <1>1, <2>1, <3>1, <3>2 DEF CallInv, FrameIsWritten
    <3>. QED BY <3>3, <3>4
  <2>3. RangeIsOfToday(call[q])'
    <3>1. call[q] \in AskedRanges \cup ReadRanges => call[q].through \in Int
      BY DEF AskedRanges, ReadRanges
    <3>. QED BY <1>1, <2>1, <3>1 DEF CallInv, RangeIsOfToday
  <2>4. (RangeIsComplete(call[q]) /\ RangeIsWritten(call[q]))'
    BY <1>1, <2>1 DEF CallInv, RangeIsComplete, RangeIsWritten
  <2>. QED BY <2>2, <2>3, <2>4 DEF CallInv
<1>3. StoreTypes'
  BY <1>1 DEF IInv, StoreTypes
<1>4. LedgerIsPast'
  <2>1. \A k \in FrameKeys : k[1] \in Int
    BY <1>0 DEF FrameKeys
  <2>. QED BY <1>1, <2>1 DEF IInv, LedgerIsPast
<1>5. CoverageIsPast'
  <2>1. \A iv \in covered : iv[2] \in Int
    BY DEF IInv, StoreTypes, AllDays, StoreConstants
  <2>. QED BY <1>1, <2>1 DEF IInv, CoverageIsPast
<1>6. (FramesAreFinal /\ CoverageIsRight)'
  BY <1>1 DEF IInv, FramesAreFinal, Readable, CoverageIsRight
<1>. QED BY <1>1, <1>2, <1>3, <1>4, <1>5, <1>6 DEF IInv

(***************************************************************************)
(* Theorems                                                                *)
(***************************************************************************)
\* Every step keeps the invariant.
LEMMA NextIInv == StoreConstants /\ IInv /\ [Next]_vars => IInv'
<1>. SUFFICES ASSUME StoreConstants, IInv, [Next]_vars PROVE IInv'
  OBVIOUS
<1>1. ASSUME NEW p \in Callers, FrameStep(p) PROVE IInv'
  <2>1. ASSUME NEW k \in FrameKeys, AskFrame(p, k[1], k[2]) PROVE IInv'
    <3>1. k[1] \in FrameDays /\ k[2] \in Requests
      BY DEF FrameKeys
    <3>. QED BY <2>1, <3>1, AskFrameIInv
  <2>. QED BY <1>1, <2>1, FetchMarketIInv, FetchEndsIInv, WriteFrameIInv, PutLedgerIInv DEF FrameStep
<1>2. ASSUME NEW p \in Callers, RangeStep(p) PROVE IInv'
  <2>1. RangeFails(p) => IInv'
    BY EndsIInv DEF RangeFails
  <2>. QED BY <1>2, <2>1, AskRangeIInv, FetchRangeIInv, WriteRangeIInv, MergeCoverageIInv DEF RangeStep
<1>3. ASSUME NEW p \in Callers, Crash(p) PROVE IInv'
  BY <1>3, EndsIInv DEF Crash, IInv, StoreTypes
<1>4. ASSUME UNCHANGED vars PROVE IInv'
  <2>1. UNCHANGED <<today, phase, cooling, rows, ledger, index, covered, call>>
    BY <1>4 DEF vars
  <2>2. StoreTypes'
    BY <2>1 DEF IInv, StoreTypes
  <2>3. \A q \in Callers : CallInv(call[q])'
    BY <2>1 DEF IInv, CallInv, FrameIsOfToday, FrameIsWritten, RangeIsOfToday, RangeIsComplete, RangeIsWritten,
                Asked, RowsOf, WithValues, Answered
  <2>4. (LedgerIsPast /\ FramesAreFinal /\ CoverageIsPast /\ CoverageIsRight)'
    BY <2>1 DEF IInv, LedgerIsPast, FramesAreFinal, Readable, CoverageIsPast, CoverageIsRight
  <2>. QED BY <2>1, <2>2, <2>3, <2>4 DEF IInv
<1>. QED BY <1>1, <1>2, <1>3, <1>4, PhaseIInv, NextDayIInv DEF Next

\* The inductive invariant holds of the store.
LEMMA Invariant == ASSUME StoreConstants PROVE Spec => []IInv
BY InitIInv, NextIInv, PTL DEF Spec

\* The copy, its ledger, the covered intervals and the calls keep their types.
THEOREM TypeCorrect == ASSUME StoreConstants PROVE Spec => []StoreTypes
<1>1. IInv => StoreTypes
  BY DEF IInv
<1>. QED BY <1>1, Invariant, PTL

\* What the copy says is confirmed is there, whole and final (cached_frame, cached_range):
\* for any number of callers that interleave and crash, and any failures of the source.
THEOREM ConfirmedStaysFinal == ASSUME StoreConstants PROVE Spec => []ConfirmedIsFinal
<1>1. IInv => ConfirmedIsFinal
  BY HeldIsReadable DEF IInv, FramesAreFinal, ConfirmedIsFinal, LedgerIsRight
<1>. QED BY <1>1, Invariant, PTL

(***************************************************************************)
(* The table of daily bars                                                 *)
(***************************************************************************)
\* The greater and the smaller of two.
LEMMA OfTwo ==
  ASSUME NEW x \in Int, NEW y \in Int
  PROVE  /\ Max({x, y}) \in {x, y} /\ Max({x, y}) >= x /\ Max({x, y}) >= y
         /\ Min({x, y}) \in {x, y} /\ Min({x, y}) <= x /\ Min({x, y}) <= y
<1>1. \E m \in {x, y} : \A z \in {x, y} : m >= z
  OBVIOUS
<1>2. \E m \in {x, y} : \A z \in {x, y} : m <= z
  OBVIOUS
<1>. QED BY <1>1, <1>2 DEF Max, Min

LEMMA FirstDayIs == ASSUME TableTypes, NEW span \in Nat PROVE FirstDay(span) \in 1 .. date
<1>. DEFINE x == date - span
<1>1. date \in Nat \ {0} /\ x \in Int /\ x <= date
  BY DEF TableTypes
<1>2. FirstDay(span) = Max({x, 1})
  BY DEF FirstDay
<1>. HIDE DEF x
<1>3. Max({x, 1}) \in {x, 1} /\ Max({x, 1}) >= x /\ Max({x, 1}) >= 1
  BY <1>1, OfTwo
<1>. QED BY <1>1, <1>2, <1>3

LEMMA BetweenIs ==
  ASSUME TableTypes, NEW x \in 1 .. date, NEW y \in 1 .. date
  PROVE  Between(x, y) = x .. y
<1>1. date \in Nat \ {0} /\ x \in Int /\ y \in Int
  BY DEF TableTypes
<1>2. Max({x, 1}) = x
  <2>1. Max({x, 1}) \in {x, 1} /\ Max({x, 1}) >= x
    BY <1>1, OfTwo
  <2>. QED BY <1>1, <2>1
<1>3. Min({y, date}) = y
  <2>1. Min({y, date}) \in {y, date} /\ Min({y, date}) <= y
    BY <1>1, OfTwo
  <2>. QED BY <1>1, <2>1
<1>. QED BY <1>2, <1>3 DEF Between

\* What a look-up tells of the bars there are.
LEMMA GapIs ==
  ASSUME TableTypes, TableAssumption, NEW x \in 1 .. date, NEW g \in Gaps(x, date)
  PROVE  \E u, v \in 1 .. date : g = <<u, v>>
<1>. DEFINE present == DOMAIN stored \cap (x .. date)
<1>1. date \in Nat \ {0} /\ present \in SUBSET (0 .. date) /\ present \subseteq 1 .. date
  BY DEF TableTypes
<1>2. g \in GapsOf(present, x, date)
  BY DEF Gaps, Selected
<1>3. date \in 1 .. date
  BY <1>1
<1>. HIDE DEF present
<1>4. CASE present = {}
  BY <1>2, <1>3, <1>4 DEF GapsOf
<1>5. CASE present # {}
  <2>1. Min(present) \in 1 .. date /\ Max(present) \in 1 .. date
    <3>1. present \in SUBSET Nat
      BY <1>1
    <3>2. Min(present) \in present
      BY <1>5, <3>1, LeastElement
    <3>3. Max(present) \in present
      BY <1>1, <1>5, GreatestElement
    <3>. QED BY <1>1, <3>2, <3>3
  <2>2. g = <<x, Min(present)>> \/ g = <<Max(present), date>>
    BY <1>2, <1>5 DEF GapsOf
  <2>. QED BY <1>3, <2>1, <2>2
<1>. QED BY <1>4, <1>5

\* What a source answers is added, and nothing goes away.
LEMMA FilledGrows ==
  ASSUME TableTypes, TableAssumption, NEW x \in 1 .. date, NEW answered \in SUBSET Gaps(x, date)
  PROVE  /\ DOMAIN stored \subseteq DOMAIN Filled(answered)
         /\ DOMAIN Filled(answered) \subseteq 1 .. date
         /\ \A d \in DOMAIN Filled(answered) : Filled(answered)[d] \in {"final", "intraday"}
         /\ \A u, v \in 1 .. date : <<u, v>> \in answered => u .. v \subseteq DOMAIN Filled(answered)
<1>. DEFINE new == UNION {Between(g[1], g[2]) : g \in answered}
<1>1. ASSUME NEW d \in new PROVE d \in 1 .. date
  <2>1. PICK g \in answered : d \in Between(g[1], g[2])
    OBVIOUS
  <2>2. PICK u, v \in 1 .. date : g = <<u, v>>
    BY GapIs
  <2>3. d \in u .. v
    BY <2>1, <2>2, BetweenIs
  <2>4. date \in Nat
    BY DEF TableTypes
  <2>. QED BY <2>2, <2>3, <2>4
<1>2. Between(1, date) = 1 .. date
  <2>1. 1 \in 1 .. date /\ date \in 1 .. date
    BY DEF TableTypes
  <2>. QED BY <2>1, BetweenIs
<1>3. \A d \in 1 .. date : Loaded(1, date)[d] \in {"final", "intraday"}
  BY <1>2 DEF Loaded
<1>4. ASSUME NEW u \in 1 .. date, NEW v \in 1 .. date, <<u, v>> \in answered PROVE u .. v \subseteq new
  BY <1>4, BetweenIs
<1>. DEFINE added == [d \in new |-> Loaded(1, date)[d]]
<1>5. Filled(answered) = Upserted(stored, added)
  BY DEF Filled
<1>. HIDE DEF new
<1>6. DOMAIN added = new /\ \A d \in new : added[d] \in {"final", "intraday"}
  BY <1>1, <1>3
<1>. HIDE DEF added
<1>7. DOMAIN Filled(answered) = DOMAIN stored \cup new
  BY <1>5, <1>6 DEF Upserted
<1>8. \A d \in DOMAIN stored \cup new : Filled(answered)[d] = IF d \in new THEN added[d] ELSE stored[d]
  BY <1>5, <1>6 DEF Upserted
<1>. QED BY <1>1, <1>4, <1>6, <1>7, <1>8 DEF TableTypes

\* With every gap answered the table reaches from the head to the tail.
LEMMA FilledReaches ==
  ASSUME TableTypes, TableAssumption, NEW x \in 1 .. date
  PROVE  LET rows0 == Filled(Gaps(x, date)) IN
         /\ \E d \in DOMAIN rows0 : d >= date - Grace
         /\ \E d \in DOMAIN rows0 : d <= x + Grace
<1>. DEFINE present == DOMAIN stored \cap (x .. date)
            gaps == Gaps(x, date)
            filled == Filled(gaps)
<1>1. date \in Nat \ {0} /\ present \in SUBSET (0 .. date) /\ present \subseteq 1 .. date /\ date \in 1 .. date
  BY DEF TableTypes
<1>2. gaps = GapsOf(present, x, date)
  BY DEF Gaps, Selected
<1>3. \A u, v \in 1 .. date : <<u, v>> \in gaps => u .. v \subseteq DOMAIN filled
  BY FilledGrows
<1>4. present \subseteq DOMAIN filled
  BY FilledGrows
<1>. HIDE DEF present, gaps, filled
<1>5. CASE present = {}
  <2>1. <<x, date>> \in gaps
    BY <1>2, <1>5 DEF GapsOf
  <2>2. x .. date \subseteq DOMAIN filled
    BY <1>1, <1>3, <2>1
  <2>3. x \in DOMAIN filled /\ date \in DOMAIN filled
    BY <1>1, <2>2
  <2>. QED BY <1>1, <2>3, TableAssumption DEF filled, gaps
<1>6. CASE present # {}
  <2>1. Min(present) \in present
    <3>1. present \in SUBSET Nat
      BY <1>1
    <3>. QED BY <1>6, <3>1, LeastElement
  <2>2. Max(present) \in present
    BY <1>1, <1>6, GreatestElement
  <2>3. Min(present) \in x .. date /\ Max(present) \in x .. date
    BY <2>1, <2>2 DEF present
  <2>4. Min(present) > x + Grace => x \in DOMAIN filled
    <3>. SUFFICES ASSUME Min(present) > x + Grace PROVE x \in DOMAIN filled
      OBVIOUS
    <3>1. <<x, Min(present)>> \in gaps
      BY <1>2, <1>6 DEF GapsOf
    <3>2. x .. Min(present) \subseteq DOMAIN filled
      BY <1>1, <1>3, <2>1, <3>1
    <3>. QED BY <1>1, <2>3, <3>2
  <2>5. Max(present) < date - Grace => date \in DOMAIN filled
    <3>. SUFFICES ASSUME Max(present) < date - Grace PROVE date \in DOMAIN filled
      OBVIOUS
    <3>1. <<Max(present), date>> \in gaps
      BY <1>2, <1>6 DEF GapsOf
    <3>2. Max(present) .. date \subseteq DOMAIN filled
      BY <1>1, <1>3, <2>2, <3>1
    <3>. QED BY <1>1, <2>3, <3>2
  <2>6. \E d \in DOMAIN filled : d >= date - Grace
    <3>1. CASE Max(present) < date - Grace
      BY <1>1, <2>5, <3>1, TableAssumption
    <3>2. CASE ~(Max(present) < date - Grace)
      BY <1>1, <1>4, <2>2, <2>3, <3>2, TableAssumption
    <3>. QED BY <3>1, <3>2
  <2>7. \E d \in DOMAIN filled : d <= x + Grace
    <3>1. CASE Min(present) > x + Grace
      BY <1>1, <2>4, <3>1, TableAssumption
    <3>2. CASE ~(Min(present) > x + Grace)
      BY <1>1, <1>4, <2>1, <2>3, <3>2, TableAssumption
    <3>. QED BY <3>1, <3>2
  <2>. QED BY <2>6, <2>7 DEF filled, gaps
<1>. QED BY <1>5, <1>6

\* What the last answered batch has left, told without the last element.
Reaches(table) ==
  /\ \E d \in DOMAIN table : d >= date - Grace
  /\ \E d \in DOMAIN table : d <= FirstDay(Lookback) + Grace
Recent == TableTypes /\ (ingested = date => Reaches(stored))

\* A table that grows within its days, on the same day, stays as it has to be.
LEMMA GrowsStays ==
  ASSUME Recent, TableAssumption, date' = date, open' \in BOOLEAN,
         DOMAIN stored \subseteq DOMAIN stored', DOMAIN stored' \subseteq 1 .. date,
         \A d \in DOMAIN stored' : stored'[d] \in {"final", "intraday"},
         ingested' = ingested \/ (ingested' = date /\ Reaches(stored'))
  PROVE  Recent'
<1>1. TableTypes'
  BY DEF Recent, TableTypes
<1>2. FirstDay(Lookback)' = FirstDay(Lookback)
  BY DEF FirstDay
<1>3. ingested' = date' => Reaches(stored)'
  BY <1>2 DEF Recent, Reaches
<1>. QED BY <1>1, <1>3 DEF Recent

LEMMA NextRecent == Recent /\ [TableNext]_tableVars => Recent'
<1>. SUFFICES ASSUME Recent, [TableNext]_tableVars PROVE Recent'
  OBVIOUS
<1>. USE TableAssumption
<1>1. TableTypes
  BY DEF Recent
<1>2. CASE Ingest
  <2>1. FirstDay(Lookback) \in 1 .. date
    BY <1>1, FirstDayIs DEF TableAssumption
  <2>2. PICK answered \in SUBSET Gaps(FirstDay(Lookback), date) :
          /\ stored' = Filled(answered)
          /\ ingested' = IF answered = Gaps(FirstDay(Lookback), date) THEN date ELSE ingested
    BY <1>2 DEF Ingest, EnsureCoverage
  <2>3. /\ DOMAIN stored \subseteq DOMAIN stored' /\ DOMAIN stored' \subseteq 1 .. date
        /\ \A d \in DOMAIN stored' : stored'[d] \in {"final", "intraday"}
    BY <1>1, <2>1, <2>2, FilledGrows
  <2>4. answered = Gaps(FirstDay(Lookback), date) => Reaches(stored')
    BY <1>1, <2>1, <2>2, FilledReaches DEF Reaches
  <2>5. date' = date /\ open' \in BOOLEAN
    BY <1>1, <1>2 DEF Ingest, TableTypes
  <2>. QED BY <2>2, <2>3, <2>4, <2>5, GrowsStays
<1>3. ASSUME NEW span \in Spans, Backtest(span) PROVE Recent'
  <2>1. span \in Nat
    BY DEF TableAssumption
  <2>2. FirstDay(span) \in 1 .. date
    BY <1>1, <2>1, FirstDayIs
  <2>3. PICK answered \in SUBSET Gaps(FirstDay(span), date) : stored' = Filled(answered)
    BY <1>3 DEF Backtest, EnsureCoverage
  <2>4. /\ DOMAIN stored \subseteq DOMAIN stored' /\ DOMAIN stored' \subseteq 1 .. date
        /\ \A d \in DOMAIN stored' : stored'[d] \in {"final", "intraday"}
    BY <1>1, <2>2, <2>3, FilledGrows
  <2>5. date' = date /\ open' \in BOOLEAN /\ ingested' = ingested
    BY <1>1, <1>3 DEF Backtest, TableTypes
  <2>. QED BY <2>4, <2>5, GrowsStays
<1>4. ASSUME NEW span \in Nat, NEW need \in Nat, Seed(FirstDay(span), need) PROVE Recent'
  <2>. DEFINE from == FirstDay(span)
  <2>1. from \in 1 .. date /\ date \in 1 .. date
    BY <1>1, FirstDayIs DEF TableTypes
  <2>2. date' = date /\ open' \in BOOLEAN /\ ingested' = ingested
    BY <1>1, <1>4 DEF Seed, TableTypes
  <2>3. CASE stored' = stored
    BY <1>1, <2>2, <2>3, GrowsStays DEF TableTypes
  <2>4. CASE stored' = Upserted(stored, Loaded(from, date))
    <3>. HIDE DEF from
    <3>1. DOMAIN Loaded(from, date) = from .. date
      BY <1>1, <2>1, BetweenIs DEF Loaded
    <3>2. DOMAIN Loaded(from, date) \subseteq 1 .. date
      BY <1>1, <2>1, <3>1 DEF TableTypes
    <3>3. \A d \in DOMAIN Loaded(from, date) : Loaded(from, date)[d] \in {"final", "intraday"}
      BY DEF Loaded
    <3>. DEFINE new == Loaded(from, date)
    <3>. HIDE DEF new
    <3>4. DOMAIN stored' = DOMAIN stored \cup DOMAIN new
      BY <2>4 DEF Upserted, new
    <3>5. \A d \in DOMAIN stored' : stored'[d] = IF d \in DOMAIN new THEN new[d] ELSE stored[d]
      BY <2>4 DEF Upserted, new
    <3>6. DOMAIN new \subseteq 1 .. date /\ \A d \in DOMAIN new : new[d] \in {"final", "intraday"}
      BY <3>2, <3>3 DEF new
    <3>7. /\ DOMAIN stored \subseteq DOMAIN stored' /\ DOMAIN stored' \subseteq 1 .. date
          /\ \A d \in DOMAIN stored' : stored'[d] \in {"final", "intraday"}
      BY <1>1, <3>4, <3>5, <3>6 DEF TableTypes
    <3>. QED BY <2>2, <3>7, GrowsStays
  <2>. QED BY <1>4, <2>3, <2>4 DEF Seed
<1>5. CASE DayEnds
  <2>1. stored' = stored /\ date' = date /\ ingested' = ingested /\ open' \in BOOLEAN
    BY <1>5 DEF DayEnds
  <2>. QED BY <1>1, <2>1, GrowsStays DEF TableTypes
<1>6. CASE DayBegins
  <2>1. stored' = stored /\ date' = date + 1 /\ ingested' = ingested /\ open' = TRUE
    BY <1>6 DEF DayBegins
  <2>2. TableTypes' /\ ingested' # date'
    BY <1>1, <2>1 DEF TableTypes
  <2>. QED BY <2>2 DEF Recent
<1>7. CASE UNCHANGED tableVars
  <2>1. stored' = stored /\ date' = date /\ ingested' = ingested /\ open' = open
    BY <1>7 DEF tableVars
  <2>. QED BY <1>1, <2>1, GrowsStays DEF TableTypes
<1>. QED BY <1>2, <1>3, <1>4, <1>5, <1>6, <1>7 DEF TableNext

LEMMA RecentIsRecent == Recent => TailIsRecent
<1>. SUFFICES ASSUME Recent PROVE TailIsRecent
  OBVIOUS
<1>1. TableTypes
  BY DEF Recent
<1>2. ASSUME ingested = date
      PROVE  /\ DOMAIN stored # {} /\ Max(DOMAIN stored) >= date - Grace
             /\ \E d \in DOMAIN stored : d <= FirstDay(Lookback) + Grace
  <2>1. /\ \E d \in DOMAIN stored : d >= date - Grace
        /\ \E d \in DOMAIN stored : d <= FirstDay(Lookback) + Grace
    BY <1>2 DEF Recent, Reaches
  <2>2. date \in Nat /\ DOMAIN stored \in SUBSET (0 .. date)
    BY <1>1 DEF TableTypes
  <2>3. DOMAIN stored # {}
    BY <2>1
  <2>4. Max(DOMAIN stored) \in 0 .. date /\ \A d \in DOMAIN stored : d <= Max(DOMAIN stored)
    BY <2>2, <2>3, GreatestElement
  <2>5. PICK d \in DOMAIN stored : d >= date - Grace
    BY <2>1
  <2>6. Max(DOMAIN stored) >= date - Grace
    BY <2>2, <2>4, <2>5, TableAssumption DEF TableAssumption
  <2>. QED BY <2>1, <2>3, <2>6
<1>. QED BY <1>1, <1>2 DEF TailIsRecent

\* After a batch whose source answered, the table reaches from at most the grace after
\* the lookback to at most the grace before the day, whatever answers failed before, and
\* whatever backtests and starting runners added (ensure_ohlcv_coverage).
THEOREM TailRecent == TableSpec => []TailIsRecent
<1>1. TableInit => Recent
  <2>. SUFFICES ASSUME TableInit PROVE Recent
    OBVIOUS
  <2>1. DOMAIN stored = {}
    BY DEF TableInit, Nothing
  <2>. QED BY <2>1 DEF TableInit, NoDay, Recent, TableTypes
<1>. QED BY <1>1, NextRecent, RecentIsRecent, PTL DEF TableSpec
=============================================================================

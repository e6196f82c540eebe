------------------------ MODULE StrategyRunnerProofs ------------------------
(***************************************************************************)
(* Proofs about StrategyRunner, for every number of strategies, all prices *)
(* and settings, any number of failures and days, and fills in any parts.  *)
(***************************************************************************)
EXTENDS StrategyRunner, SumLemmas

(***************************************************************************)
(* The inductive invariant                                                 *)
(***************************************************************************)
\* Nothing is booked of an order without a number, and the broker has none that was
\* not sent.
Unbooked(k) ==
  /\ state[k] \in {"none", "refused", "sent"} => booked[k] = 0
  /\ state[k] \in {"none", "refused"} => size[k] = 0

\* What the sweep is about to book is not booked yet.
Swept == sweep # NoKey => state[sweep] = "open" /\ due > 0 /\ booked[sweep] + due <= filled[sweep]

\* What a tick is about to book is filled, and the sweep does not see its order.
Ordered(s) ==
  /\ pc[s] \in {"resolve", "book", "commit"} => state[Key(s)] = "sent"
  /\ pc[s] \in {"book", "commit"} => got[s] <= filled[Key(s)]
  /\ pc[s] = "book" => got[s] > 0

\* One recorder at a time has the row of a strategy, as it is.
Alone(s) == \A r, q \in Recorders : AtRow(r, s) /\ AtRow(q, s) => r = q
Loaded(s) == \A r \in Recorders : AtRow(r, s) => row[r] = qty[s]
Remaining(s) == qty[s] = IF sold[s] > had[s] THEN 0 ELSE had[s] - sold[s]

\* A sale on its way to the broker is of all shares, while none is for sale.
Informed(s) == pc[s] \in {"gate", "place"} => Settled(s) /\ want[s] = qty[s]

Sound(s) == Alone(s) /\ Loaded(s) /\ Remaining(s)
Sighted(s) == Informed(s) /\ Covered(s)
RunnerInv ==
  /\ TypeOK /\ Swept
  /\ \A k \in Keys : Unbooked(k)
  /\ \A s \in Strategies : Ordered(s)
  /\ \A s \in Strategies \ raced : Sound(s)
  /\ \A s \in Strategies \ (blind \cup raced) : Sighted(s)

(***************************************************************************)
(* Lemmas about keys and sums                                              *)
(***************************************************************************)
\* A key is a strategy and an exit.
LEMMA KeyParts ==
  /\ \A s, x : <<s, x>>[1] = s /\ <<s, x>>[2] = x
  /\ \A s \in Strategies, x \in Exits : <<s, x>> \in Keys /\ <<s, x>> \in KeysOf(s)
  /\ \A k \in Keys : k[1] \in Strategies /\ k \in KeysOf(k[1])
  /\ \A s \in Strategies : \A k \in KeysOf(s) : k \in Keys /\ k[1] = s
  /\ NoKey \notin Keys
  /\ \A s \in Strategies : s \in Recorders /\ s # "sweep"
  /\ "sweep" \in Recorders
  /\ Prices \subseteq Nat
<1>1. \A s, x : <<s, x>>[1] = s /\ <<s, x>>[2] = x
  OBVIOUS
<1>2. /\ \A s \in Strategies, x \in Exits : <<s, x>> \in Keys /\ <<s, x>> \in KeysOf(s)
      /\ \A k \in Keys : k[1] \in Strategies /\ k \in KeysOf(k[1])
      /\ \A s \in Strategies : \A k \in KeysOf(s) : k \in Keys /\ k[1] = s
  BY DEF Keys, KeysOf
<1>3. NoKey \notin Keys
  BY DEF Keys, NoKey
<1>4. /\ \A s \in Strategies : s \in Recorders /\ s # "sweep"
      /\ "sweep" \in Recorders
      /\ Prices \subseteq Nat
  BY RunnerAssumption DEF Recorders
<1>. QED BY <1>1, <1>2, <1>3, <1>4

\* The key of a tick is its own.
LEMMA TickKey ==
  ASSUME TypeOK, NEW s \in Strategies
  PROVE  Key(s) \in Keys /\ Key(s) \in KeysOf(s) /\ Key(s)[1] = s
BY KeyParts DEF TypeOK, Key

\* A strategy has four keys.
LEMMA KeysFinite == \A s \in Strategies : IsFiniteSet(KeysOf(s))
<1>1. IsFiniteSet(Exits)
  <2>1. IsFiniteSet({"stop"}) BY FS_Singleton
  <2>2. IsFiniteSet({"stop"} \cup {"sl"}) BY <2>1, FS_AddElement
  <2>3. IsFiniteSet({"stop"} \cup {"sl"} \cup {"tp"}) BY <2>2, FS_AddElement
  <2>4. IsFiniteSet({"stop"} \cup {"sl"} \cup {"tp"} \cup {"trail"}) BY <2>3, FS_AddElement
  <2>5. Exits = {"stop"} \cup {"sl"} \cup {"tp"} \cup {"trail"} BY DEF Exits
  <2>. QED BY <2>4, <2>5
<1>. QED BY <1>1, FS_Singleton, FS_Product DEF KeysOf

\* What is waiting of an order is a natural number.
LEMMA WaitingIs ==
  ASSUME TypeOK
  PROVE  \A k \in Keys : Waiting[k] = size[k] - booked[k] /\ Waiting[k] \in Nat
BY DEF TypeOK, Waiting

\* The same after a step.
LEMMA WaitingIsNext ==
  ASSUME TypeOK'
  PROVE  \A k \in Keys : (Waiting')[k] = size'[k] - booked'[k] /\ (Waiting')[k] \in Nat
BY DEF TypeOK, Waiting, Keys, Exits

\* So is the sum of it, which is zero of a strategy that is settled.
LEMMA WaitingSum ==
  ASSUME TypeOK, NEW s \in Strategies
  PROVE  /\ SumOver(Waiting, KeysOf(s)) \in Nat
         /\ Settled(s) => SumOver(Waiting, KeysOf(s)) = 0
<1>. DEFINE w == Waiting
<1>1. \A k \in KeysOf(s) : w[k] \in Nat
  BY WaitingIs, KeyParts
<1>2. Settled(s) => \A k \in KeysOf(s) : w[k] = 0
  BY DEF Settled
<1>3. IsFiniteSet(KeysOf(s))
  BY KeysFinite
<1>. HIDE DEF w
<1>4. SumOver(w, KeysOf(s)) \in Nat
  BY <1>1, <1>3, SumNat
<1>5. Settled(s) => SumOver(w, KeysOf(s)) = 0
  BY <1>2, <1>3, SumZero
<1>. QED BY <1>4, <1>5 DEF w

\* A step that leaves the orders of a strategy alone leaves the sum as it was.
LEMMA SameWaiting ==
  ASSUME TypeOK, TypeOK', NEW s \in Strategies,
         \A k \in KeysOf(s) : size'[k] = size[k] /\ booked'[k] = booked[k]
  PROVE  /\ SumOver(Waiting, KeysOf(s))' = SumOver(Waiting, KeysOf(s))
         /\ Settled(s) => Settled(s)'
<1>. DEFINE f == Waiting
            g == Waiting'
<1>1. \A k \in KeysOf(s) : f[k] = g[k]
  BY WaitingIs, WaitingIsNext, KeyParts
<1>2. IsFiniteSet(KeysOf(s))
  BY KeysFinite
<1>3. Settled(s) => Settled(s)'
  BY <1>1 DEF Settled, KeysOf, Exits
<1>. HIDE DEF f, g
<1>4. SumOver(f, KeysOf(s)) = SumOver(g, KeysOf(s))
  BY <1>1, <1>2, SumSame
<1>. QED BY <1>3, <1>4 DEF f, g, KeysOf, Exits

\* What one change of an order does to the sum.
LEMMA ChangedWaiting ==
  ASSUME TypeOK, TypeOK', NEW s \in Strategies, NEW j \in KeysOf(s),
         \A k \in KeysOf(s) \ {j} : size'[k] = size[k] /\ booked'[k] = booked[k]
  PROVE  SumOver(Waiting, KeysOf(s))' =
           SumOver(Waiting, KeysOf(s)) - (size[j] - booked[j]) + (size'[j] - booked'[j])
<1>. DEFINE f == Waiting
            g == Waiting'
<1>1. \A k \in KeysOf(s) : f[k] \in Int /\ g[k] \in Int
  BY WaitingIs, WaitingIsNext, KeyParts
<1>2. \A k \in KeysOf(s) \ {j} : f[k] = g[k]
  BY WaitingIs, WaitingIsNext, KeyParts
<1>3. IsFiniteSet(KeysOf(s))
  BY KeysFinite
<1>4. f[j] = size[j] - booked[j] /\ g[j] = size'[j] - booked'[j]
  BY WaitingIs, WaitingIsNext, KeyParts
<1>. HIDE DEF f, g
<1>5. SumOver(g, KeysOf(s)) = SumOver(f, KeysOf(s)) - f[j] + g[j]
  BY <1>1, <1>2, <1>3, SumUpdate
<1>. QED BY <1>4, <1>5 DEF f, g, KeysOf, Exits

(***************************************************************************)
(* Types                                                                   *)
(***************************************************************************)
\* What a booked fill changes.
LEMMA FillCommitted ==
  ASSUME TypeOK, NEW r \in Recorders, NEW k \in Keys, NEW n \in Nat,
         n > 0, booked[k] + n <= filled[k], CommitFill(r, k, n)
  PROVE  /\ qty' \in [Strategies -> Nat] /\ avg' \in [Strategies -> Nat]
         /\ sold' \in [Strategies -> Nat] /\ row' \in [Recorders -> Nat]
         /\ sold'[k[1]] = sold[k[1]] + n
         /\ \A s \in Strategies \ {k[1]} : qty'[s] = qty[s] /\ sold'[s] = sold[s]
         /\ \A q \in Recorders \ {r} : row'[q] = row[q]
         /\ row[r] = qty[k[1]] =>
              qty'[k[1]] = IF n > qty[k[1]] THEN 0 ELSE qty[k[1]] - n
         /\ state' \in [Keys -> States] /\ state'[k] \in {"open", "done"}
         /\ size' \in [Keys -> Nat] /\ filled' \in [Keys -> Nat] /\ booked' \in [Keys -> Nat]
         /\ \A j \in Keys : booked'[j] <= filled'[j] /\ filled'[j] <= size'[j]
         /\ \A j \in Keys \ {k} : /\ state'[j] = state[j] /\ size'[j] = size[j]
                                  /\ filled'[j] = filled[j] /\ booked'[j] = booked[j]
         /\ size'[k] - booked'[k] = size[k] - booked[k] - n
<1>1. k[1] \in Strategies /\ row[r] \in Nat /\ qty[k[1]] \in Nat /\ sold[k[1]] \in Nat
  BY KeyParts DEF TypeOK
<1>2. /\ qty' \in [Strategies -> Nat] /\ avg' \in [Strategies -> Nat]
      /\ \A s \in Strategies \ {k[1]} : qty'[s] = qty[s]
      /\ row[r] = qty[k[1]] => qty'[k[1]] = IF n > qty[k[1]] THEN 0 ELSE qty[k[1]] - n
  <2>1. CASE row[r] = 0
    BY <2>1, <1>1 DEF CommitFill, Book, TypeOK
  <2>2. CASE row[r] # 0
    <3>. DEFINE left == IF n > row[r] THEN 0 ELSE row[r] - n
    <3>1. left \in Nat
      BY <1>1
    <3>2. /\ qty' = [qty EXCEPT ![k[1]] = left]
          /\ avg' = [avg EXCEPT ![k[1]] = IF left = 0 THEN 0 ELSE @]
      BY <2>2 DEF CommitFill, Book
    <3>3. row[r] = qty[k[1]] => left = IF n > qty[k[1]] THEN 0 ELSE qty[k[1]] - n
      OBVIOUS
    <3>. HIDE DEF left
    <3>. QED BY <3>1, <3>2, <3>3, <1>1 DEF TypeOK
  <2>. QED BY <2>1, <2>2
<1>3. /\ sold' \in [Strategies -> Nat] /\ row' \in [Recorders -> Nat]
      /\ sold'[k[1]] = sold[k[1]] + n
      /\ \A s \in Strategies \ {k[1]} : sold'[s] = sold[s]
      /\ \A q \in Recorders \ {r} : row'[q] = row[q]
  BY <1>1 DEF CommitFill, TypeOK
<1>4. /\ size[k] \in Nat /\ booked[k] \in Nat /\ filled[k] \in Nat
      /\ booked[k] + n \in Nat /\ booked[k] + n <= size[k] /\ {"open", "done"} \subseteq States
  BY DEF TypeOK, States
<1>5. CASE booked[k] + n < size[k]
  <2>1. /\ state' = [state EXCEPT ![k] = "open"] /\ booked' = [booked EXCEPT ![k] = @ + n]
        /\ size' = size /\ filled' = filled
    BY <1>4, <1>5 DEF CommitFill
  <2>. QED BY <2>1, <1>2, <1>3, <1>4 DEF TypeOK
<1>6. CASE booked[k] + n = size[k]
  <2>1. /\ state' = [state EXCEPT ![k] = "done"] /\ booked' = [booked EXCEPT ![k] = 0]
        /\ size' = [size EXCEPT ![k] = 0] /\ filled' = [filled EXCEPT ![k] = 0]
    BY <1>4, <1>6 DEF CommitFill
  <2>. QED BY <2>1, <1>2, <1>3, <1>4, <1>6 DEF TypeOK
<1>. QED BY <1>4, <1>5, <1>6

\* Leaving a tick keeps the types of what it forgets.
LEMMA LeftTypes == ASSUME TypeOK, NEW s \in Strategies, Leave(s)
  PROVE /\ pc' \in [Strategies -> TickStates]
        /\ px' \in [Strategies -> Prices \cup {0}]
        /\ want' \in [Strategies -> Nat] /\ got' \in [Strategies -> Nat]
        /\ kind' \in [Strategies -> Exits]
<1>1. pc' \in [Strategies -> TickStates]
  BY DEF TypeOK, Leave, TickStates
<1>2. px' \in [Strategies -> Prices \cup {0}] /\ kind' \in [Strategies -> Exits]
  BY DEF TypeOK, Leave, Forget, Exits
<1>3. want' \in [Strategies -> Nat] /\ got' \in [Strategies -> Nat]
  BY DEF TypeOK, Leave, Forget
<1>. QED BY <1>1, <1>2, <1>3

\* A step keeps the types.
LEMMA TypeStep == ASSUME RunnerInv, [Next]_vars PROVE TypeOK'
<1>1. TypeOK /\ Swept /\ (\A s \in Strategies : Ordered(s)) /\ \A k \in Keys : Unbooked(k)
  BY DEF RunnerInv
<1>parts. Prices \subseteq Nat /\ \A s \in Strategies : s \in Recorders
  BY KeyParts
<1>nat. \A n \in Prices \cup {0} : n \in Nat
  BY <1>parts
<1>2. ASSUME NEW s \in Strategies, Tick(s) PROVE TypeOK'
  <2>key. Key(s) \in Keys /\ {"refused", "sent", "open"} \subseteq States
    BY <1>1, TickKey DEF States
  <2>1. CASE StartTick(s)
    BY <2>1, <1>1 DEF TypeOK, StartTick, marketVars, bookVars, brokerVars, rowVars, historyVars, TickStates
  <2>9. CASE SeriesFails(s)
    BY <2>9, <1>1 DEF TypeOK, SeriesFails, Forget, marketVars, bookVars, brokerVars,
         rowVars, historyVars, TickStates, Exits
  <2>13. CASE LockPosition(s)
    <3>1. CASE lock
      BY <2>13, <3>1, <1>1 DEF TypeOK, LockPosition, Forget, marketVars, bookVars, brokerVars,
           rowVars, historyVars, TickStates, Exits
    <3>2. CASE ~lock
      BY <2>13, <3>2, <1>1 DEF TypeOK, LockPosition, marketVars, bookVars, brokerVars,
           localVars, rowVars, historyVars, TickStates
    <3>. QED BY <3>1, <3>2
  <2>10. CASE ReadHolding(s)
    BY <2>10, <1>1 DEF TypeOK, ReadHolding, Leave, Forget, marketVars, bookVars, brokerVars,
         localVars, rowVars, historyVars, TickStates, Exits
  <2>11. CASE CheckStop(s)
    BY <2>11, <1>1 DEF TypeOK, CheckStop, Exit, marketVars, bookVars, brokerVars,
         localVars, rowVars, historyVars, TickStates, Exits
  <2>2. CASE ConfigExit(s)
    <3>1. px[s] \in Nat /\ peak[s] \in Nat /\ avg[s] \in Nat
      BY <1>1, <1>nat DEF TypeOK
    <3>2. Peak(s) \in Nat
      BY <3>1 DEF Peak
    <3>3. peak' \in [Strategies -> Nat]
      BY <2>2, <3>2, <1>1, <1>parts DEF TypeOK, ConfigExit, Exit
    <3>4. UNCHANGED <<marketVars, lock, bookVars, state, brokerVars, rowVars, historyVars>>
      BY <2>2 DEF ConfigExit
    <3>5. CASE Leave(s)
      BY <3>3, <3>4, <3>5, LeftTypes, <1>1 DEF TypeOK, marketVars, bookVars, brokerVars, rowVars, historyVars
    <3>6. CASE ~Leave(s)
      <4>1. PICK k \in Exits : Exit(s, k)
        BY <2>2, <3>6 DEF ConfigExit, Exits
      <4>. QED BY <3>3, <3>4, <4>1, <1>1 DEF TypeOK, Exit, marketVars, bookVars, brokerVars, rowVars,
                 historyVars, TickStates
    <3>. QED BY <3>5, <3>6
  <2>3. CASE EvaluateSell(s) \/ GateBlocks(s) \/ PassGate(s)
    <3>1. CASE EvaluateSell(s)
      BY <3>1, <1>1 DEF TypeOK, EvaluateSell, SellQty, Leave, Forget, marketVars, bookVars,
           brokerVars, rowVars, TickStates, Exits
    <3>2. CASE GateBlocks(s)
      BY <3>2, <1>1 DEF TypeOK, GateBlocks, Leave, Forget, marketVars, bookVars, brokerVars,
           rowVars, historyVars, TickStates, Exits
    <3>3. CASE PassGate(s)
      BY <3>3, <1>1 DEF TypeOK, PassGate, marketVars, bookVars, brokerVars, localVars, rowVars,
           historyVars, TickStates
    <3>. QED BY <2>3, <3>1, <3>2, <3>3
  <2>4. CASE KeyUsed(s) \/ Refused(s)
    <3>1. /\ state' \in [Keys -> States] /\ Leave(s)
          /\ UNCHANGED <<marketVars, lock, bookVars, peak, brokerVars, rowVars, historyVars>>
      BY <2>4, <2>key, <1>1 DEF TypeOK, KeyUsed, Refused
    <3>. QED BY <3>1, LeftTypes, <1>1 DEF TypeOK, marketVars, bookVars, brokerVars, rowVars, historyVars
  <2>5. CASE Accepted(s) \/ Unanswered(s)
    <3>1. booked[Key(s)] = 0 /\ size[Key(s)] = 0
      BY <2>5, <2>key, <1>1 DEF Accepted, Unanswered, Sent, Unbooked
    <3>2. want[s] \in Nat /\ filled[Key(s)] = 0
      BY <3>1, <2>key, <1>1, <1>parts DEF TypeOK
    <3>3. /\ size' \in [Keys -> Nat] /\ filled' = filled /\ booked' = booked
          /\ \A k \in Keys : size'[k] = size[k] \/ k = Key(s)
      BY <2>5, <2>key, <3>2, <1>1, <1>parts DEF TypeOK, Accepted, Unanswered, Sent, Taken, bookVars
    <3>4. \A k \in Keys : booked'[k] <= filled'[k] /\ filled'[k] <= size'[k]
      BY <3>1, <3>2, <3>3, <1>1, <1>parts DEF TypeOK
    <3>5. upsets' \in Nat
      BY <2>5, <1>1, <1>parts DEF TypeOK, Accepted, Unanswered, Upset
    <3>6. /\ state' \in [Keys -> States]
          /\ UNCHANGED <<marketVars, lock, bookVars, peak, filled, shares, rowVars, blind, raced>>
      BY <2>5, <2>key, <1>1 DEF TypeOK, Accepted, Unanswered, Sent
    <3>7. CASE Accepted(s)
      BY <3>3, <3>4, <3>5, <3>6, <3>7, <1>1 DEF TypeOK, Accepted, marketVars, bookVars, rowVars, TickStates
    <3>8. CASE Unanswered(s)
      BY <3>3, <3>4, <3>5, <3>6, <3>8, LeftTypes, <1>1 DEF TypeOK, Unanswered, marketVars, bookVars, rowVars
    <3>. QED BY <2>5, <3>7, <3>8
  <2>6. CASE Resolve(s) \/ LoadPosition(s)
    <3>1. CASE Resolve(s)
      <4>1. filled[Key(s)] \in Nat
        BY <2>key, <1>1 DEF TypeOK
      <4>. QED BY <3>1, <4>1, <1>1 DEF TypeOK, Resolve, Upset, marketVars, bookVars, brokerVars, rowVars, TickStates
    <3>2. CASE LoadPosition(s)
      BY <3>2, <1>1, <1>parts DEF TypeOK, LoadPosition, LoadRow, marketVars, bookVars, brokerVars,
           localVars, TickStates
    <3>. QED BY <2>6, <3>1, <3>2
  <2>7. CASE CommitOrder(s)
    <3>1. CASE got[s] = 0
      <4>1. /\ state' \in [Keys -> States] /\ Leave(s)
            /\ UNCHANGED <<marketVars, lock, bookVars, peak, size, filled, shares, row, sweep, due, historyVars>>
        BY <2>7, <3>1, <2>key, <1>1 DEF TypeOK, CommitOrder
      <4>. QED BY <4>1, LeftTypes, <1>1 DEF TypeOK, marketVars, bookVars, historyVars
    <3>2. CASE got[s] # 0
      <4>1. /\ booked[Key(s)] = 0 /\ got[s] \in Nat /\ got[s] > 0 /\ got[s] <= filled[Key(s)]
            /\ CommitFill(s, Key(s), got[s])
        BY <2>7, <3>2, <2>key, <1>1, <1>parts DEF CommitOrder, Ordered, Unbooked, TypeOK
      <4>2. booked[Key(s)] + got[s] <= filled[Key(s)]
        BY <4>1, <2>key, <1>1, <1>parts DEF TypeOK
      <4>3. Leave(s) /\ UNCHANGED <<marketVars, lock, peak, shares, sweep, due, historyVars>>
        BY <2>7 DEF CommitOrder
      <4>. QED BY <4>1, <4>2, <4>3, <2>key, FillCommitted, LeftTypes, <1>1, <1>parts DEF TypeOK,
                 marketVars, historyVars
    <3>. QED BY <3>1, <3>2
  <2>8. CASE TickFails(s)
    <3>1. upsets' \in Nat
      BY <2>8, <1>1 DEF TypeOK, TickFails, Upset
    <3>2. /\ Leave(s) /\ row' = [row EXCEPT ![s] = 0]
          /\ UNCHANGED <<marketVars, lock, bookVars, peak, state, brokerVars, sweep, due, blind, raced>>
      BY <2>8 DEF TickFails
    <3>3. row' \in [Recorders -> Nat]
      BY <3>2, <1>1 DEF TypeOK
    <3>. QED BY <3>1, <3>2, <3>3, LeftTypes, <1>1 DEF TypeOK, marketVars, bookVars, brokerVars
  <2>12. CASE Unlock(s)
    BY <2>12, <1>1 DEF TypeOK, Unlock, marketVars, bookVars, brokerVars, localVars, rowVars, historyVars, TickStates
  <2>. QED BY <1>2, <2>1, <2>2, <2>3, <2>4, <2>5, <2>6, <2>7, <2>8, <2>9, <2>10, <2>11, <2>12, <2>13 DEF Tick, Decide, Order
<1>3. ASSUME NEW k \in Keys, SweepLoads(k) PROVE TypeOK'
  <2>1. k[1] \in Strategies /\ filled[k] - booked[k] \in Nat
    BY <1>3, <1>1, KeyParts DEF TypeOK, SweepLoads
  <2>2. /\ due' \in Nat /\ sweep' \in Keys /\ row' \in [Recorders -> Nat] /\ raced' \subseteq Strategies
        /\ UNCHANGED <<marketVars, lock, bookVars, peak, state, brokerVars, pc, localVars, blind, upsets>>
    BY <1>3, <2>1, <1>1 DEF TypeOK, SweepLoads, LoadRow
  <2>. QED BY <2>2, <1>1 DEF TypeOK, marketVars, bookVars, brokerVars, localVars
<1>4. ASSUME NEW k \in Keys, BrokerFills(k) PROVE TypeOK'
  <2>1. PICK n \in filled[k] + 1 .. size[k] : filled' = [filled EXCEPT ![k] = n] /\ shares' = shares - (n - filled[k])
    BY <1>4, <1>1, <1>parts DEF BrokerFills
  <2>2. n \in Nat /\ booked[k] <= n /\ n <= size[k] /\ shares' \in Int
    BY <2>1, <1>1, <1>parts DEF TypeOK
  <2>. QED BY <1>4, <2>1, <2>2, <1>1, <1>parts DEF TypeOK, BrokerFills, marketVars, bookVars, localVars, rowVars, historyVars
<1>5. CASE SweepBooks
  <2>1. /\ sweep \in Keys /\ due \in Nat /\ due > 0 /\ booked[sweep] + due <= filled[sweep]
        /\ CommitFill("sweep", sweep, due)
    BY <1>5, <1>1, <1>parts DEF SweepBooks, Swept, TypeOK
  <2>2. "sweep" \in Recorders
    BY KeyParts
  <2>. QED BY <1>5, <2>1, <2>2, FillCommitted, <1>1 DEF TypeOK, SweepBooks, marketVars, localVars, historyVars
<1>6. CASE SweepFails
  <2>1. upsets' \in Nat
    BY <1>6, <1>1 DEF TypeOK, SweepFails, Upset
  <2>2. row' = [row EXCEPT !["sweep"] = 0]
    BY <1>6 DEF SweepFails
  <2>3. row' \in [Recorders -> Nat]
    BY <2>2, <1>1 DEF TypeOK
  <2>. QED BY <1>6, <2>1, <2>3, <1>1 DEF TypeOK, SweepFails, marketVars, bookVars, brokerVars, localVars
<1>9. CASE PriceMoves
  BY <1>9, <1>1 DEF TypeOK, PriceMoves, bookVars, brokerVars, localVars, rowVars, historyVars
<1>10. CASE LockExpires
  <2>1. upsets' \in Nat /\ lock' = FALSE
    BY <1>10, <1>1 DEF TypeOK, LockExpires, Upset
  <2>. QED BY <1>10, <2>1, <1>1 DEF TypeOK, LockExpires, marketVars, bookVars, brokerVars, localVars, rowVars
<1>7. CASE NextDay
  BY <1>7, <1>1, <1>parts DEF TypeOK, NextDay, Upset, localVars, rowVars, States
<1>8. CASE UNCHANGED vars
  BY <1>8, <1>1, <1>parts DEF TypeOK, vars, marketVars, bookVars, brokerVars, localVars, rowVars, historyVars
<1>. QED BY <1>2, <1>3, <1>4, <1>5, <1>6, <1>7, <1>8, <1>9, <1>10 DEF Next

(***************************************************************************)
(* Orders                                                                  *)
(***************************************************************************)
\* What a tick leaves as it was: the ticks of the others, and the orders but its own.
LEMMA OtherTicks ==
  ASSUME TypeOK, NEW s \in Strategies, Tick(s)
  PROVE  /\ sweep' = sweep /\ due' = due /\ had' = had
         /\ blind \subseteq blind' /\ raced \subseteq raced'
         /\ \A t \in Strategies \ {s} : /\ pc'[t] = pc[t] /\ kind'[t] = kind[t]
                                        /\ got'[t] = got[t] /\ want'[t] = want[t]
         /\ \A r \in Recorders \ {s} : row'[r] = row[r]
<1>1. Key(s) \in Keys
  BY TickKey
<1>2. CASE EvaluateSell(s) \/ LoadPosition(s)
  BY <1>2 DEF EvaluateSell, Leave, Forget, LoadPosition, LoadRow, marketVars, bookVars, brokerVars,
       localVars, rowVars, TypeOK
<1>3. CASE CommitOrder(s)
  BY <1>3 DEF CommitOrder, CommitFill, Leave, Forget, marketVars, historyVars, TypeOK
<1>4. CASE TickFails(s)
  BY <1>4 DEF TickFails, Leave, Forget, marketVars, TypeOK
<1>5. CASE Accepted(s) \/ Unanswered(s) \/ Resolve(s)
  BY <1>5 DEF Accepted, Unanswered, Resolve, Sent, Leave, Forget, marketVars, rowVars, TypeOK
<1>6. CASE \/ StartTick(s) \/ SeriesFails(s) \/ LockPosition(s) \/ ReadHolding(s) \/ CheckStop(s)
           \/ ConfigExit(s) \/ GateBlocks(s) \/ PassGate(s) \/ KeyUsed(s) \/ Refused(s) \/ Unlock(s)
  BY <1>6 DEF StartTick, SeriesFails, LockPosition, ReadHolding, CheckStop, ConfigExit, Exit, GateBlocks,
       PassGate, KeyUsed, Refused, Unlock, Leave, Forget, marketVars, localVars, rowVars, historyVars, TypeOK
<1>. QED BY <1>2, <1>3, <1>4, <1>5, <1>6 DEF Tick, Decide, Order

Numbered == Swept /\ (\A k \in Keys : Unbooked(k)) /\ \A s \in Strategies : Ordered(s)

\* A step keeps the orders apart that ticks and the sweep are about to book.
LEMMA OrderStep == ASSUME RunnerInv, TypeOK', [Next]_vars PROVE Numbered'
<1>1. TypeOK /\ Numbered
  BY DEF RunnerInv, Numbered
<1>keep. ASSUME UNCHANGED <<state, size, filled, booked, sweep, due>> PROVE Swept' /\ \A k \in Keys : Unbooked(k)'
  BY <1>keep, <1>1 DEF Numbered, Swept, Unbooked
<1>2. ASSUME NEW s \in Strategies, Tick(s) PROVE Numbered'
  <2>key. Key(s) \in Keys /\ \A t \in Strategies \ {s} : Key(t) \in Keys \ {Key(s)}
    BY <1>1, TickKey DEF Key
  <2>others. ASSUME \A k \in Keys \ {Key(s)} : state'[k] = state[k] /\ filled'[k] = filled[k]
             PROVE  \A t \in Strategies \ {s} : Ordered(t)'
    BY <1>1, <1>2, <2>key, <2>others, OtherTicks DEF Numbered, Ordered, Key
  <2>1. CASE \/ StartTick(s) \/ SeriesFails(s) \/ LockPosition(s) \/ ReadHolding(s) \/ CheckStop(s)
             \/ ConfigExit(s) \/ EvaluateSell(s) \/ GateBlocks(s) \/ PassGate(s) \/ KeyUsed(s)
             \/ TickFails(s) \/ Unlock(s)
    <3>1. UNCHANGED <<state, size, filled, booked, sweep, due>> /\ pc'[s] \notin {"resolve", "book", "commit"}
      BY <2>1, <1>1 DEF StartTick, SeriesFails, LockPosition, ReadHolding, CheckStop, ConfigExit, Exit,
           EvaluateSell, GateBlocks, PassGate, KeyUsed, TickFails, Unlock, Leave, Forget,
           bookVars, brokerVars, rowVars, TypeOK
    <3>. QED BY <3>1, <1>keep, <2>others DEF Numbered, Ordered
  <2>2. CASE Refused(s)
    <3>1. /\ state[Key(s)] = "none" /\ state' = [state EXCEPT ![Key(s)] = "refused"]
          /\ UNCHANGED <<size, filled, booked, sweep, due>> /\ pc'[s] = "unlock"
      BY <2>2, <1>1 DEF Refused, Leave, bookVars, brokerVars, rowVars, TypeOK
    <3>. QED BY <3>1, <1>1, <2>key, <2>others DEF Numbered, Ordered, Swept, Unbooked, TypeOK
  <2>3. CASE Accepted(s) \/ Unanswered(s)
    <3>1. /\ state[Key(s)] = "none" /\ state' = [state EXCEPT ![Key(s)] = "sent"]
          /\ UNCHANGED <<filled, booked, sweep, due>>
          /\ \A k \in Keys \ {Key(s)} : size'[k] = size[k]
      BY <2>3, <1>1 DEF Accepted, Unanswered, Sent, Taken, bookVars, brokerVars, rowVars, TypeOK
    <3>2. pc'[s] \in {"resolve", "unlock"} /\ (pc'[s] = "resolve" => kind'[s] = kind[s])
      BY <2>3, <1>1 DEF Accepted, Unanswered, Leave, TypeOK
    <3>3. Ordered(s)'
      BY <3>1, <3>2, <1>1, <2>key DEF Ordered, Key, TypeOK
    <3>. QED BY <3>1, <3>3, <1>1, <2>key, <2>others DEF Numbered, Swept, Unbooked, TypeOK
  <2>4. CASE Resolve(s)
    <3>1. /\ pc[s] = "resolve" /\ UNCHANGED <<state, size, filled, booked, sweep, due, kind>>
          /\ got'[s] \in {0, filled[Key(s)]}
          /\ pc'[s] = IF got'[s] > 0 THEN "book" ELSE "commit"
      BY <2>4, <1>1, <2>key DEF Resolve, bookVars, brokerVars, rowVars, TypeOK
    <3>2. filled[Key(s)] \in Nat
      BY <1>1, <2>key DEF TypeOK
    <3>3. Ordered(s)'
      BY <3>1, <3>2, <1>1 DEF Numbered, Ordered, Key
    <3>. QED BY <3>1, <3>3, <1>keep, <2>others DEF Numbered
  <2>5. CASE LoadPosition(s)
    <3>1. /\ pc[s] = "book" /\ pc'[s] = "commit"
          /\ UNCHANGED <<state, size, filled, booked, sweep, due, kind, got>>
      BY <2>5, <1>1 DEF LoadPosition, bookVars, brokerVars, localVars, TypeOK
    <3>2. Ordered(s)'
      BY <3>1, <1>1 DEF Numbered, Ordered, Key
    <3>. QED BY <3>1, <3>2, <1>keep, <2>others DEF Numbered
  <2>6. CASE CommitOrder(s)
    <3>1. pc[s] = "commit" /\ pc'[s] = "unlock" /\ sweep' = sweep /\ due' = due
      BY <2>6, <1>1 DEF CommitOrder, Leave, TypeOK
    <3>2. /\ state[Key(s)] = "sent" /\ got[s] \in Nat /\ got[s] <= filled[Key(s)] /\ booked[Key(s)] = 0
          /\ filled[Key(s)] \in Nat
      BY <3>1, <1>1, <2>key DEF Numbered, Ordered, Unbooked, TypeOK
    <3>3. /\ state'[Key(s)] \in {"open", "done"}
          /\ \A j \in Keys \ {Key(s)} : /\ state'[j] = state[j] /\ size'[j] = size[j]
                                        /\ filled'[j] = filled[j] /\ booked'[j] = booked[j]
      <4>1. CASE got[s] = 0
        BY <2>6, <4>1, <1>1, <2>key DEF CommitOrder, bookVars, TypeOK
      <4>2. CASE got[s] # 0
        <5>1. s \in Recorders /\ got[s] > 0 /\ booked[Key(s)] + got[s] <= filled[Key(s)]
          BY <4>2, <3>2, KeyParts
        <5>2. CommitFill(s, Key(s), got[s])
          BY <2>6, <4>2 DEF CommitOrder
        <5>. QED BY <5>1, <5>2, <3>2, <1>1, <2>key, FillCommitted
      <4>. QED BY <4>1, <4>2
    <3>4. \A k \in Keys : Unbooked(k)'
      BY <3>3, <1>1 DEF Numbered, Unbooked
    <3>5. Swept'
      BY <3>1, <3>2, <3>3, <1>1 DEF Numbered, Swept, TypeOK
    <3>. QED BY <3>1, <3>3, <3>4, <3>5, <2>others DEF Numbered, Ordered
  <2>. QED BY <1>2, <2>1, <2>2, <2>3, <2>4, <2>5, <2>6 DEF Tick, Decide, Order
<1>keys. \A s \in Strategies : Key(s) \in Keys
  BY <1>1, TickKey
<1>3. ASSUME NEW k \in Keys, SweepLoads(k) PROVE Numbered'
  <2>1. /\ UNCHANGED <<state, size, filled, booked, pc, kind, got>> /\ sweep' = k
        /\ state[k] = "open" /\ due' = filled[k] - booked[k] /\ filled[k] > booked[k]
    BY <1>3 DEF SweepLoads, bookVars, brokerVars, localVars
  <2>2. filled[k] \in Nat /\ booked[k] \in Nat
    BY <1>1 DEF TypeOK
  <2>3. Swept'
    BY <2>1, <2>2 DEF Swept
  <2>. QED BY <2>1, <2>3, <1>1 DEF Numbered, Unbooked, Ordered, Key
<1>4. ASSUME NEW k \in Keys, BrokerFills(k) PROVE Numbered'
  <2>1. PICK n \in filled[k] + 1 .. size[k] : filled' = [filled EXCEPT ![k] = n]
    BY <1>4 DEF BrokerFills
  <2>2. /\ UNCHANGED <<state, size, booked, sweep, due, pc, kind, got>>
        /\ \A j \in Keys : filled[j] \in Nat /\ filled'[j] \in Nat /\ filled[j] <= filled'[j]
    BY <1>4, <2>1, <1>1 DEF BrokerFills, bookVars, localVars, rowVars, TypeOK
  <2>3. \A s \in Strategies : Ordered(s)'
    BY <2>2, <1>1, <1>keys DEF Numbered, Ordered, Key, TypeOK
  <2>4. Swept'
    BY <2>2, <1>1 DEF Numbered, Swept, TypeOK
  <2>. QED BY <2>2, <2>3, <2>4, <1>1 DEF Numbered, Unbooked
<1>5. CASE SweepBooks
  <2>1. /\ sweep \in Keys /\ due \in Nat /\ due > 0 /\ booked[sweep] + due <= filled[sweep]
        /\ CommitFill("sweep", sweep, due) /\ state[sweep] = "open" /\ sweep' = NoKey
        /\ UNCHANGED <<pc, kind, got>>
    BY <1>5, <1>1 DEF SweepBooks, Numbered, Swept, TypeOK, localVars
  <2>2. /\ state'[sweep] \in {"open", "done"}
        /\ \A j \in Keys \ {sweep} : /\ state'[j] = state[j] /\ size'[j] = size[j]
                                     /\ filled'[j] = filled[j] /\ booked'[j] = booked[j]
    BY <2>1, <1>1, KeyParts, FillCommitted
  <2>3. \A s \in Strategies : Ordered(s)'
    BY <2>1, <2>2, <1>1, <1>keys DEF Numbered, Ordered, Key
  <2>4. \A k \in Keys : Unbooked(k)'
    BY <2>2, <1>1 DEF Numbered, Unbooked
  <2>. QED BY <2>1, <2>3, <2>4 DEF Numbered, Swept
<1>6. CASE SweepFails
  BY <1>6, <1>1 DEF SweepFails, bookVars, brokerVars, localVars, Numbered, Swept, Unbooked, Ordered, Key
<1>7. CASE PriceMoves \/ LockExpires \/ UNCHANGED vars
  BY <1>7, <1>1 DEF PriceMoves, LockExpires, vars, bookVars, brokerVars, localVars, rowVars,
       Numbered, Swept, Unbooked, Ordered, Key
<1>8. CASE NextDay
  <2>1. /\ \A k \in Keys : size'[k] = 0 /\ booked'[k] = 0
        /\ sweep' = NoKey /\ \A s \in Strategies : pc'[s] = "idle"
    BY <1>8 DEF NextDay, rowVars
  <2>. QED BY <2>1 DEF Numbered, Swept, Unbooked, Ordered
<1>. QED BY <1>2, <1>3, <1>4, <1>5, <1>6, <1>7, <1>8 DEF Next

(***************************************************************************)
(* Positions                                                               *)
(***************************************************************************)
\* Whatever a recorder loads is marked when another has the row already.
LEMMA RowLoaded ==
  ASSUME RunnerInv, TypeOK', NEW r \in Recorders, NEW s \in Strategies, LoadRow(r, s),
         UNCHANGED <<qty, sold, had>>,
         \A t \in Strategies : \A q \in Recorders : AtRow(q, t)' => (AtRow(q, t) /\ q # r) \/ (q = r /\ t = s)
  PROVE  \A t \in Strategies \ raced' : Sound(t)'
<1>1. /\ \A q \in Recorders \ {r} : row'[q] = row[q]
      /\ row'[r] = qty[s] /\ raced \subseteq raced'
      /\ s \notin raced' => \A q \in Recorders \ {r} : ~AtRow(q, s)
  BY DEF LoadRow, RunnerInv, TypeOK
<1>2. \A t \in Strategies \ raced' : Alone(t) /\ Loaded(t) /\ Remaining(t)
  BY <1>1 DEF RunnerInv, Sound
<1>3. ASSUME NEW t \in Strategies \ raced' PROVE Sound(t)'
  <2>1. Remaining(t)'
    BY <1>2 DEF Remaining
  <2>2. Alone(t)'
    BY <1>1, <1>2 DEF Alone
  <2>3. Loaded(t)'
    BY <1>1, <1>2 DEF Loaded
  <2>. QED BY <2>1, <2>2, <2>3 DEF Sound
<1>. QED BY <1>3

\* What a recorder books keeps the position of the strategy, as nobody else has its row.
LEMMA RowBooked ==
  ASSUME RunnerInv, TypeOK', NEW r \in Recorders, NEW k \in Keys, NEW n \in Nat,
         n > 0, booked[k] + n <= filled[k], CommitFill(r, k, n), AtRow(r, k[1]),
         UNCHANGED <<had, raced>>,
         \A t \in Strategies : \A q \in Recorders : AtRow(q, t)' => AtRow(q, t) /\ q # r
  PROVE  \A t \in Strategies \ raced' : Sound(t)'
<1>1. /\ k[1] \in Strategies /\ sold'[k[1]] = sold[k[1]] + n
      /\ \A s \in Strategies \ {k[1]} : qty'[s] = qty[s] /\ sold'[s] = sold[s]
      /\ \A q \in Recorders \ {r} : row'[q] = row[q]
      /\ row[r] = qty[k[1]] => qty'[k[1]] = IF n > qty[k[1]] THEN 0 ELSE qty[k[1]] - n
  BY KeyParts, FillCommitted DEF RunnerInv
<1>2. ASSUME NEW t \in Strategies \ raced PROVE Sound(t)'
  <2>1. Alone(t) /\ Loaded(t) /\ Remaining(t) /\ qty[t] \in Nat /\ sold[t] \in Nat /\ had[t] \in Nat
    BY DEF RunnerInv, Sound, TypeOK
  <2>2. Alone(t)'
    BY <2>1 DEF Alone
  <2>3. CASE t = k[1]
    <3>1. row[r] = qty[t] /\ \A q \in Recorders : ~AtRow(q, t)'
      BY <2>1, <2>3 DEF Alone, Loaded
    <3>2. /\ qty'[t] = IF n > qty[t] THEN 0 ELSE qty[t] - n
          /\ sold'[t] = sold[t] + n /\ had'[t] = had[t]
      BY <1>1, <2>3, <3>1
    <3>3. Remaining(t)'
      BY <2>1, <3>2 DEF Remaining
    <3>. QED BY <2>2, <3>1, <3>3 DEF Sound, Loaded
  <2>4. CASE t # k[1]
    BY <1>1, <2>1, <2>2, <2>4 DEF Sound, Loaded, Remaining
  <2>. QED BY <2>3, <2>4
<1>. QED BY <1>2

\* A step keeps the positions right.
LEMMA RowStep == ASSUME RunnerInv, TypeOK', [Next]_vars PROVE \A t \in Strategies \ raced' : Sound(t)'
<1>1. TypeOK /\ Numbered
  BY DEF RunnerInv, Numbered
<1>keep. ASSUME UNCHANGED <<qty, sold, had>>, raced \subseteq raced',
                \A t \in Strategies : \A q \in Recorders : AtRow(q, t)' => AtRow(q, t) /\ row'[q] = row[q]
         PROVE  \A t \in Strategies \ raced' : Sound(t)'
  BY <1>keep DEF RunnerInv, Sound, Alone, Loaded, Remaining
<1>2. ASSUME NEW s \in Strategies, Tick(s) PROVE \A t \in Strategies \ raced' : Sound(t)'
  <2>others. /\ sweep' = sweep /\ had' = had /\ raced \subseteq raced' /\ s \in Recorders
             /\ \A t \in Strategies \ {s} : pc'[t] = pc[t] /\ got'[t] = got[t]
             /\ \A r \in Recorders \ {s} : row'[r] = row[r]
    BY <1>1, <1>2, OtherTicks, KeyParts
  <2>rows. \A t \in Strategies : \A q \in Recorders \ {s} : AtRow(q, t)' <=> AtRow(q, t)
    BY <2>others DEF AtRow
  <2>own. \A t \in Strategies : AtRow(s, t)' => t = s /\ pc'[s] = "commit" /\ got'[s] > 0
    BY KeyParts DEF AtRow
  <2>1. CASE pc'[s] # "commit" /\ UNCHANGED <<qty, sold>>
    BY <2>1, <2>others, <2>rows, <2>own, <1>keep
  <2>2. CASE Resolve(s)
    <3>1. UNCHANGED <<qty, sold>> /\ (pc'[s] = "commit" => ~(got'[s] > 0))
      BY <2>2, <1>1 DEF Resolve, bookVars, TypeOK
    <3>. QED BY <3>1, <2>others, <2>rows, <2>own, <1>keep
  <2>3. CASE LoadPosition(s)
    <3>1. LoadRow(s, s) /\ UNCHANGED <<qty, sold, had>>
      BY <2>3 DEF LoadPosition, bookVars, marketVars
    <3>2. \A t \in Strategies : \A q \in Recorders : AtRow(q, t)' => (AtRow(q, t) /\ q # s) \/ (q = s /\ t = s)
      BY <2>rows, <2>own
    <3>3. s \in Recorders
      BY <2>others
    <3>. QED BY <3>1, <3>2, <3>3, RowLoaded
  <2>4. CASE CommitOrder(s)
    <3>1. pc[s] = "commit" /\ pc'[s] = "unlock" /\ raced' = raced /\ Key(s) \in Keys /\ Key(s)[1] = s
      BY <2>4, <1>1, TickKey DEF CommitOrder, Leave, historyVars, TypeOK
    <3>2. CASE got[s] = 0
      BY <2>4, <3>1, <3>2, <2>1 DEF CommitOrder, bookVars
    <3>3. CASE got[s] # 0
      <4>1. /\ got[s] \in Nat /\ got[s] > 0 /\ booked[Key(s)] + got[s] <= filled[Key(s)]
            /\ CommitFill(s, Key(s), got[s])
        BY <2>4, <3>1, <3>3, <1>1 DEF CommitOrder, Numbered, Ordered, Unbooked, TypeOK
      <4>2. AtRow(s, s)
        BY <3>1, <4>1 DEF AtRow
      <4>. QED BY <3>1, <4>1, <4>2, <2>others, <2>rows, <2>own, RowBooked
    <3>. QED BY <3>2, <3>3
  <2>5. CASE \/ StartTick(s) \/ SeriesFails(s) \/ LockPosition(s) \/ ReadHolding(s) \/ CheckStop(s)
             \/ ConfigExit(s) \/ EvaluateSell(s) \/ GateBlocks(s) \/ PassGate(s) \/ KeyUsed(s)
             \/ Refused(s) \/ Accepted(s) \/ Unanswered(s) \/ TickFails(s) \/ Unlock(s)
    <3>1. pc'[s] # "commit" /\ UNCHANGED <<qty, sold>>
      BY <2>5, <1>1 DEF StartTick, SeriesFails, LockPosition, ReadHolding, CheckStop, ConfigExit, Exit,
           EvaluateSell, GateBlocks, PassGate, KeyUsed, Refused, Accepted, Unanswered, Sent, TickFails,
           Unlock, Leave, Forget, bookVars, TypeOK
    <3>. QED BY <3>1, <2>1
  <2>. QED BY <1>2, <2>2, <2>3, <2>4, <2>5 DEF Tick, Decide, Order
<1>3. ASSUME NEW k \in Keys, SweepLoads(k) PROVE \A t \in Strategies \ raced' : Sound(t)'
  <2>1. /\ UNCHANGED <<qty, sold, had, pc, got>> /\ LoadRow("sweep", k[1]) /\ sweep' = k
    BY <1>3 DEF SweepLoads, marketVars, bookVars, localVars
  <2>2. \A t \in Strategies : \A q \in Recorders :
          AtRow(q, t)' => (AtRow(q, t) /\ q # "sweep") \/ (q = "sweep" /\ t = k[1])
    <3>. SUFFICES ASSUME NEW t \in Strategies, NEW q \in Recorders, AtRow(q, t)'
                  PROVE  (AtRow(q, t) /\ q # "sweep") \/ (q = "sweep" /\ t = k[1])
      OBVIOUS
    <3>1. CASE q = "sweep"
      <4>1. sweep' \in KeysOf(t)
        BY <3>1, KeyParts DEF AtRow, KeysOf, Exits
      <4>. QED BY <2>1, <3>1, <4>1, KeyParts
    <3>2. CASE q # "sweep"
      BY <2>1, <3>2 DEF AtRow
    <3>. QED BY <3>1, <3>2
  <2>3. k[1] \in Strategies /\ "sweep" \in Recorders
    BY KeyParts
  <2>. QED BY <2>1, <2>2, <2>3, RowLoaded
<1>4. ASSUME NEW k \in Keys, BrokerFills(k) PROVE \A t \in Strategies \ raced' : Sound(t)'
  BY <1>4, <1>keep DEF BrokerFills, AtRow, marketVars, bookVars, localVars, rowVars, historyVars
<1>5. CASE SweepBooks
  <2>1. /\ sweep \in Keys /\ due \in Nat /\ due > 0 /\ booked[sweep] + due <= filled[sweep]
        /\ CommitFill("sweep", sweep, due) /\ sweep' = NoKey /\ UNCHANGED <<pc, got, had, raced>>
    BY <1>5, <1>1 DEF SweepBooks, Numbered, Swept, TypeOK, localVars, marketVars, historyVars
  <2>2. AtRow("sweep", sweep[1]) /\ "sweep" \in Recorders
    BY <2>1, KeyParts DEF AtRow
  <2>3. \A t \in Strategies : \A q \in Recorders : AtRow(q, t)' => AtRow(q, t) /\ q # "sweep"
    BY <2>1, KeyParts DEF AtRow
  <2>. QED BY <2>1, <2>2, <2>3, RowBooked
<1>6. CASE SweepFails
  <2>1. /\ sweep' = NoKey /\ UNCHANGED <<pc, got, qty, sold, had, raced>>
        /\ \A q \in Recorders \ {"sweep"} : row'[q] = row[q]
    BY <1>6, <1>1 DEF SweepFails, localVars, marketVars, bookVars, TypeOK
  <2>2. \A t \in Strategies : \A q \in Recorders : AtRow(q, t)' => AtRow(q, t) /\ q # "sweep"
    BY <2>1, KeyParts DEF AtRow
  <2>. QED BY <2>1, <2>2, <1>keep
<1>7. CASE PriceMoves \/ LockExpires \/ UNCHANGED vars
  BY <1>7, <1>keep DEF PriceMoves, LockExpires, AtRow, vars, marketVars, bookVars, localVars, rowVars, historyVars
<1>8. CASE NextDay
  <2>1. /\ sweep' = NoKey /\ UNCHANGED <<qty, sold, had, raced, row>>
        /\ \A s \in Strategies : pc'[s] = "idle"
    BY <1>8 DEF NextDay, rowVars
  <2>2. \A t \in Strategies : \A q \in Recorders : ~AtRow(q, t)'
    BY <2>1, KeyParts DEF AtRow
  <2>. QED BY <2>1, <2>2, <1>keep
<1>. QED BY <1>2, <1>3, <1>4, <1>5, <1>6, <1>7, <1>8 DEF Next

(***************************************************************************)
(* Sales                                                                   *)
(***************************************************************************)
\* A booked part was for sale and is sold: together they stay what they were.
LEMMA SoldOrWaiting ==
  ASSUME RunnerInv, TypeOK', NEW r \in Recorders, NEW k \in Keys, NEW n \in Nat,
         n > 0, booked[k] + n <= filled[k], CommitFill(r, k, n), had' = had,
         NEW t \in Strategies, Covered(t)
  PROVE  Covered(t)'
<1>1. /\ k[1] \in Strategies /\ sold'[k[1]] = sold[k[1]] + n /\ k \in KeysOf(k[1])
      /\ \A s \in Strategies \ {k[1]} : sold'[s] = sold[s]
      /\ \A j \in Keys \ {k} : size'[j] = size[j] /\ booked'[j] = booked[j]
      /\ size'[k] - booked'[k] = size[k] - booked[k] - n
  BY KeyParts, FillCommitted DEF RunnerInv
<1>2. /\ sold[t] \in Nat /\ had[t] \in Nat /\ TypeOK /\ SumOver(Waiting, KeysOf(t)) \in Nat
      /\ size[k] \in Nat /\ booked[k] \in Nat
  BY WaitingSum DEF RunnerInv, TypeOK
<1>3. CASE t = k[1]
  <2>1. \A j \in KeysOf(t) \ {k} : size'[j] = size[j] /\ booked'[j] = booked[j]
    BY <1>1, <1>3, KeyParts
  <2>2. SumOver(Waiting, KeysOf(t))' =
          SumOver(Waiting, KeysOf(t)) - (size[k] - booked[k]) + (size'[k] - booked'[k])
    BY <1>1, <1>2, <1>3, <2>1, ChangedWaiting
  <2>3. SumOver(Waiting, KeysOf(t))' = SumOver(Waiting, KeysOf(t)) - n
    BY <1>1, <1>2, <2>2
  <2>. QED BY <1>1, <1>2, <1>3, <2>3 DEF Covered
<1>4. CASE t # k[1]
  <2>1. \A j \in KeysOf(t) : size'[j] = size[j] /\ booked'[j] = booked[j]
    BY <1>1, <1>4, KeyParts
  <2>2. SumOver(Waiting, KeysOf(t))' = SumOver(Waiting, KeysOf(t))
    BY <1>2, <2>1, SameWaiting
  <2>. QED BY <1>1, <1>4, <2>2 DEF Covered
<1>. QED BY <1>3, <1>4

\* A settled strategy is in nobody's sweep, and no tick of its own books.
LEMMA NobodyBooks ==
  ASSUME RunnerInv, NEW t \in Strategies, Settled(t), sweep # NoKey
  PROVE  sweep[1] # t
<1>1. /\ sweep \in Keys /\ booked[sweep] + due <= filled[sweep] /\ due \in Nat /\ due > 0
      /\ filled[sweep] <= size[sweep] /\ size[sweep] \in Nat /\ filled[sweep] \in Nat /\ booked[sweep] \in Nat
  BY DEF RunnerInv, Swept, TypeOK
<1>2. Waiting[sweep] # 0
  BY <1>1 DEF Waiting
<1>. QED BY <1>1, <1>2, KeyParts DEF Settled

\* A step keeps what a strategy sees right, and the shares of the others.
LEMMA SightStep ==
  ASSUME RunnerInv, TypeOK', [Next]_vars
  PROVE  \A t \in Strategies \ (blind' \cup raced') : Sighted(t)'
<1>1. TypeOK /\ Numbered
  BY DEF RunnerInv, Numbered
<1>2. \A t \in Strategies \ (blind \cup raced) : Informed(t) /\ Covered(t) /\ Remaining(t)
  BY DEF RunnerInv, Sighted, Sound
<1>same. ASSUME NEW t \in Strategies, UNCHANGED <<had, sold, qty>>,
                \A k \in KeysOf(t) : size'[k] = size[k] /\ booked'[k] = booked[k],
                pc'[t] \in {"gate", "place"} =>
                  \/ pc[t] \in {"gate", "place"} /\ want'[t] = want[t]
                  \/ t \in blind'
                  \/ Settled(t) /\ want'[t] = qty[t],
                t \notin blind' \cup raced', t \notin blind \cup raced
         PROVE  Sighted(t)'
  BY <1>same, <1>1, <1>2, SameWaiting DEF Sighted, Informed, Covered
<1>keep. ASSUME UNCHANGED <<had, sold, qty, size, booked>>, blind \subseteq blind', raced \subseteq raced',
                \A t \in Strategies :
                  pc'[t] \in {"gate", "place"} =>
                    \/ pc[t] \in {"gate", "place"} /\ want'[t] = want[t]
                    \/ t \in blind'
                    \/ Settled(t) /\ want'[t] = qty[t]
         PROVE  \A t \in Strategies \ (blind' \cup raced') : Sighted(t)'
  BY <1>keep, <1>same
<1>3. ASSUME NEW s \in Strategies, Tick(s) PROVE \A t \in Strategies \ (blind' \cup raced') : Sighted(t)'
  <2>others. /\ had' = had /\ blind \subseteq blind' /\ raced \subseteq raced'
             /\ \A t \in Strategies \ {s} : pc'[t] = pc[t] /\ want'[t] = want[t]
    BY <1>1, <1>3, OtherTicks
  <2>key. Key(s) \in Keys /\ Key(s) \in KeysOf(s) /\ Key(s)[1] = s
    BY <1>1, TickKey
  <2>1. CASE \/ StartTick(s) \/ SeriesFails(s) \/ LockPosition(s) \/ ReadHolding(s) \/ CheckStop(s)
             \/ ConfigExit(s) \/ GateBlocks(s) \/ KeyUsed(s) \/ Refused(s) \/ Resolve(s)
             \/ LoadPosition(s) \/ TickFails(s) \/ Unlock(s)
    <3>1. pc'[s] \notin {"gate", "place"} /\ UNCHANGED <<sold, qty, size, booked>>
      BY <2>1, <1>1 DEF StartTick, SeriesFails, LockPosition, ReadHolding, CheckStop, ConfigExit, Exit,
           GateBlocks, KeyUsed, Refused, Resolve, LoadPosition, TickFails, Unlock, Leave, Forget,
           bookVars, brokerVars, TypeOK
    <3>. QED BY <3>1, <2>others, <1>keep
  <2>2. CASE EvaluateSell(s)
    <3>1. UNCHANGED <<sold, qty, size, booked>>
      BY <2>2 DEF EvaluateSell, bookVars, brokerVars
    <3>2. pc'[s] \in {"gate", "place"} => want'[s] = qty[s] /\ (Settled(s) \/ s \in blind')
      BY <2>2, <1>1 DEF EvaluateSell, SellQty, Leave, TypeOK
    <3>. QED BY <3>1, <3>2, <2>others, <1>keep
  <2>3. CASE PassGate(s)
    <3>1. UNCHANGED <<sold, qty, size, booked, want>> /\ pc[s] = "gate"
      BY <2>3 DEF PassGate, bookVars, brokerVars, localVars
    <3>. QED BY <3>1, <2>others, <1>keep
  <2>4. CASE Accepted(s) \/ Unanswered(s)
    <3>1. /\ pc[s] = "place" /\ pc'[s] \notin {"gate", "place"} /\ UNCHANGED <<sold, qty, booked>>
          /\ size' = size \/ size' = [size EXCEPT ![Key(s)] = want[s]]
      BY <2>4, <1>1 DEF Accepted, Unanswered, Sent, Taken, Leave, bookVars, TypeOK
    <3>2. ASSUME NEW t \in Strategies \ (blind' \cup raced'), t # s PROVE Sighted(t)'
      <4>1. \A k \in KeysOf(t) : size'[k] = size[k]
        BY <3>1, <3>2, <1>1, <2>key, KeyParts DEF TypeOK
      <4>. QED BY <4>1, <3>1, <3>2, <2>others, <1>same
    <3>3. ASSUME s \notin blind' \cup raced' PROVE Sighted(s)'
      <4>1. /\ Settled(s) /\ want[s] = qty[s] /\ Covered(s) /\ Remaining(s)
            /\ sold[s] \in Nat /\ had[s] \in Nat /\ want[s] \in Nat
        BY <3>1, <3>3, <1>1, <1>2, <2>others DEF Informed, TypeOK
      <4>2. SumOver(Waiting, KeysOf(s)) = 0 /\ size[Key(s)] - booked[Key(s)] = 0
        BY <4>1, <1>1, <2>key, WaitingSum, WaitingIs DEF Settled
      <4>3. size[Key(s)] \in Nat /\ booked[Key(s)] \in Nat
        BY <1>1, <2>key DEF TypeOK
      <4>4. CASE size' = [size EXCEPT ![Key(s)] = want[s]]
        <5>1. /\ size'[Key(s)] = want[s] /\ booked'[Key(s)] = booked[Key(s)]
              /\ \A k \in KeysOf(s) \ {Key(s)} : size'[k] = size[k] /\ booked'[k] = booked[k]
          BY <4>4, <3>1, <1>1, <2>key, KeyParts DEF TypeOK
        <5>2. SumOver(Waiting, KeysOf(s))' = 0 - 0 + (want[s] - booked[Key(s)])
          BY <4>2, <5>1, <1>1, <2>key, ChangedWaiting
        <5>3. Covered(s)'
          BY <4>1, <4>2, <4>3, <5>2, <3>1, <2>others DEF Covered, Remaining
        <5>. QED BY <5>3, <3>1 DEF Sighted, Informed
      <4>5. CASE size' = size
        BY <4>5, <3>1, <3>3, <2>others, <1>same
      <4>. QED BY <4>4, <4>5, <3>1
    <3>. QED BY <3>2, <3>3
  <2>5. CASE CommitOrder(s)
    <3>1. pc[s] = "commit" /\ pc'[s] = "unlock" /\ UNCHANGED <<blind, raced>>
      BY <2>5, <1>1 DEF CommitOrder, Leave, historyVars, TypeOK
    <3>2. CASE got[s] = 0
      BY <2>5, <3>1, <3>2, <2>others, <1>keep DEF CommitOrder, bookVars
    <3>3. CASE got[s] # 0
      <4>1. /\ got[s] \in Nat /\ got[s] > 0 /\ booked[Key(s)] + got[s] <= filled[Key(s)]
            /\ CommitFill(s, Key(s), got[s]) /\ s \in Recorders
        BY <2>5, <3>1, <3>3, <1>1, <2>key, KeyParts DEF CommitOrder, Numbered, Ordered, Unbooked, TypeOK
      <4>2. \A t \in Strategies : Covered(t) => Covered(t)'
        BY <4>1, <2>key, <2>others, SoldOrWaiting
      <4>3. /\ \A j \in Keys \ {Key(s)} : size'[j] = size[j] /\ booked'[j] = booked[j]
            /\ \A t \in Strategies \ {s} : qty'[t] = qty[t]
        BY <4>1, <1>1, <2>key, FillCommitted
      <4>4. ASSUME NEW t \in Strategies \ (blind' \cup raced') PROVE Informed(t)'
        <5>1. CASE t = s
          BY <5>1, <3>1 DEF Informed
        <5>2. CASE t # s
          <6>1. \A k \in KeysOf(t) : size'[k] = size[k] /\ booked'[k] = booked[k]
            BY <5>2, <4>3, <2>key, KeyParts
          <6>2. Settled(t) => Settled(t)'
            BY <6>1, <1>1, SameWaiting
          <6>. QED BY <5>2, <6>2, <4>3, <3>1, <4>4, <1>2, <2>others DEF Informed
        <5>. QED BY <5>1, <5>2
      <4>. QED BY <4>2, <4>4, <3>1, <1>2 DEF Sighted
    <3>. QED BY <3>2, <3>3
  <2>. QED BY <1>3, <2>1, <2>2, <2>3, <2>4, <2>5 DEF Tick, Decide, Order
<1>4. ASSUME NEW k \in Keys, SweepLoads(k) PROVE \A t \in Strategies \ (blind' \cup raced') : Sighted(t)'
  BY <1>4, <1>keep DEF SweepLoads, LoadRow, marketVars, bookVars, brokerVars, localVars
<1>5. ASSUME NEW k \in Keys, BrokerFills(k) PROVE \A t \in Strategies \ (blind' \cup raced') : Sighted(t)'
  BY <1>5, <1>keep DEF BrokerFills, marketVars, bookVars, localVars, historyVars
<1>6. CASE SweepBooks
  <2>1. /\ sweep \in Keys /\ due \in Nat /\ due > 0 /\ booked[sweep] + due <= filled[sweep] /\ sweep # NoKey
        /\ CommitFill("sweep", sweep, due) /\ UNCHANGED <<pc, want, had, blind, raced>>
        /\ "sweep" \in Recorders
    BY <1>6, <1>1, KeyParts DEF SweepBooks, Numbered, Swept, TypeOK, localVars, marketVars, historyVars
  <2>2. \A t \in Strategies : Covered(t) => Covered(t)'
    BY <2>1, SoldOrWaiting
  <2>3. /\ \A j \in Keys \ {sweep} : size'[j] = size[j] /\ booked'[j] = booked[j]
        /\ \A t \in Strategies \ {sweep[1]} : qty'[t] = qty[t]
    BY <2>1, <1>1, FillCommitted
  <2>4. ASSUME NEW t \in Strategies \ (blind' \cup raced'), pc'[t] \in {"gate", "place"} PROVE Informed(t)'
    <3>1. Settled(t) /\ want[t] = qty[t]
      BY <2>1, <2>4, <1>2 DEF Informed
    <3>2. t # sweep[1]
      BY <3>1, <2>1, NobodyBooks
    <3>3. \A k \in KeysOf(t) : size'[k] = size[k] /\ booked'[k] = booked[k]
      BY <3>2, <2>3, KeyParts
    <3>4. Settled(t)'
      BY <3>1, <3>3, <1>1, SameWaiting
    <3>. QED BY <3>1, <3>2, <3>4, <2>1, <2>3 DEF Informed
  <2>. QED BY <2>1, <2>2, <2>4, <1>2 DEF Sighted, Informed
<1>7. CASE SweepFails \/ PriceMoves \/ LockExpires \/ UNCHANGED vars
  BY <1>7, <1>keep DEF SweepFails, PriceMoves, LockExpires, vars, marketVars, bookVars, brokerVars,
       localVars, historyVars
<1>8. CASE NextDay
  <2>1. /\ \A k \in Keys : size'[k] = 0 /\ booked'[k] = 0
        /\ blind \subseteq blind' /\ UNCHANGED <<sold, had, raced>>
        /\ \A s \in Strategies : pc'[s] = "idle"
    BY <1>8 DEF NextDay
  <2>2. ASSUME NEW t \in Strategies \ (blind' \cup raced') PROVE Sighted(t)'
    <3>. DEFINE f == Waiting
                g == Waiting'
    <3>1. \A k \in KeysOf(t) : g[k] = 0
      BY <2>1, WaitingIsNext, KeyParts
    <3>2. IsFiniteSet(KeysOf(t))
      BY KeysFinite
    <3>. HIDE DEF g
    <3>3. SumOver(g, KeysOf(t)) = 0
      BY <3>1, <3>2, SumZero
    <3>4. SumOver(Waiting, KeysOf(t))' = 0
      BY <3>3 DEF g, KeysOf, Exits
    <3>5. /\ sold[t] \in Nat /\ had[t] \in Nat /\ Covered(t) /\ SumOver(Waiting, KeysOf(t)) \in Nat
      BY <2>1, <2>2, <1>1, <1>2, WaitingSum DEF TypeOK
    <3>6. Covered(t)'
      BY <2>1, <3>4, <3>5 DEF Covered
    <3>. QED BY <2>1, <3>6 DEF Sighted, Informed
  <2>. QED BY <2>2
<1>. QED BY <1>3, <1>4, <1>5, <1>6, <1>7, <1>8 DEF Next

(***************************************************************************)
(* The theorems                                                            *)
(***************************************************************************)
\* The invariant holds at the start.
LEMMA RunnerStart == ASSUME Init PROVE RunnerInv
<1>1. TypeOK
  <2>1. PICK h \in Holdings :
          /\ had = h.qty /\ qty = h.qty
          /\ avg = [s \in Strategies |-> IF h.qty[s] = 0 THEN 0 ELSE h.avg[s]]
          /\ shares = SumOver(h.qty, Strategies)
    BY DEF Init
  <2>2. h.qty \in [Strategies -> Nat] /\ h.avg \in [Strategies -> Nat]
    BY RunnerAssumption
  <2>3. shares \in Int
    BY <2>1, <2>2, RunnerAssumption, SumInt
  <2>4. avg \in [Strategies -> Nat] /\ qty \in [Strategies -> Nat] /\ had \in [Strategies -> Nat]
    BY <2>1, <2>2
  <2>5. /\ state \in [Keys -> States] /\ size \in [Keys -> Nat] /\ filled \in [Keys -> Nat]
        /\ booked \in [Keys -> Nat] /\ \A k \in Keys : booked[k] <= filled[k] /\ filled[k] <= size[k]
    BY DEF Init, States
  <2>6. /\ pc \in [Strategies -> TickStates] /\ px \in [Strategies -> Prices \cup {0}]
        /\ want \in [Strategies -> Nat] /\ got \in [Strategies -> Nat] /\ kind \in [Strategies -> Exits]
    BY DEF Init, TickStates, Exits
  <2>. QED BY <2>3, <2>4, <2>5, <2>6 DEF Init, TypeOK
<1>2. /\ \A k \in Keys : state[k] = "none" /\ size[k] = 0 /\ booked[k] = 0
      /\ sweep = NoKey /\ had = qty
      /\ \A s \in Strategies : pc[s] = "idle" /\ sold[s] = 0
  BY DEF Init
<1>3. Numbered
  BY <1>2 DEF Numbered, Swept, Unbooked, Ordered
<1>4. ASSUME NEW s \in Strategies PROVE Sound(s) /\ Sighted(s)
  <2>1. had[s] \in Nat /\ qty[s] = had[s]
    BY <1>1, <1>2 DEF TypeOK
  <2>2. \A r \in Recorders : ~AtRow(r, s)
    BY <1>2, KeyParts DEF AtRow
  <2>3. Settled(s)
    BY <1>1, <1>2, WaitingIs, KeyParts DEF Settled
  <2>4. SumOver(Waiting, KeysOf(s)) = 0
    BY <1>1, <2>3, WaitingSum
  <2>. QED BY <1>2, <2>1, <2>2, <2>4 DEF Sound, Alone, Loaded, Remaining, Sighted, Informed, Covered
<1>. QED BY <1>1, <1>3, <1>4 DEF RunnerInv, Numbered

\* Every step keeps it.
LEMMA RunnerStep == ASSUME RunnerInv, [Next]_vars PROVE RunnerInv'
<1>1. TypeOK'
  BY TypeStep
<1>2. /\ Numbered'
      /\ \A t \in Strategies \ raced' : Sound(t)'
      /\ \A t \in Strategies \ (blind' \cup raced') : Sighted(t)'
  BY <1>1, OrderStep, RowStep, SightStep
<1>. QED BY <1>1, <1>2 DEF RunnerInv, Numbered

\* The invariant holds in every state.
LEMMA RunnerAlways == Spec => []RunnerInv
<1>1. Init => RunnerInv
  BY RunnerStart
<1>2. RunnerInv /\ [Next]_vars => RunnerInv'
  BY RunnerStep
<1>. QED BY <1>1, <1>2, PTL DEF Spec

\* The types hold in every state; no more of an order is booked than the broker filled,
\* and no more is filled than it accepted.
THEOREM TypeCorrect == Spec => []TypeOK
<1>1. RunnerInv => TypeOK
  BY DEF RunnerInv
<1>. QED BY <1>1, RunnerAlways, PTL

\* What a strategy has sold or has for sale exceeds what it had only after it evaluated a sale
\* before an earlier one was booked in full, or after two recorders had its row at once
\* (risk.py:92-111, runner.py:185-197, fills.py:44-85): partial and late fills, lost answers,
\* cancelled ticks and expired locks alone do not let it sell the shares of the others.
THEOREM OwnShares == Spec => []SellsOthersOnlyBlindly
<1>1. RunnerInv => SellsOthersOnlyBlindly
  BY DEF RunnerInv, Sighted, SellsOthersOnlyBlindly
<1>. QED BY <1>1, RunnerAlways, PTL

\* The position of a strategy is what it had less what the executions say it sold, in whatever
\* parts its ticks and the sweep booked that, unless two of them had the row at once
\* (fills.py:44-85).
THEOREM BooksRight == Spec => []PositionsAgree
<1>1. RunnerInv => PositionsAgree
  BY DEF RunnerInv, Sound, Remaining, PositionsAgree
<1>. QED BY <1>1, RunnerAlways, PTL
=============================================================================

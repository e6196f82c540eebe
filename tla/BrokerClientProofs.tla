------------------------- MODULE BrokerClientProofs -------------------------
(***************************************************************************)
(* A call places one order and requests keep their pace, for any           *)
(* number of calls and processes, whatever the broker, the network and the *)
(* processes do.                                                           *)
(***************************************************************************)
EXTENDS BrokerClient, FiniteSetTheorems, TLAPS

\* What the broker has of a call goes with the step of the call: nothing before it is
\* sent, one order once it is taken, and what was sent is never sent again.
OnceInv ==
  \A c \in Callers :
    /\ placed[c] <= 1
    /\ pc[c] \in {"taken", "done"} => placed[c] = 1
    /\ placed[c] # 0 => pc[c] \in {"taken", "done", "failed"}

\* The slots of a calm process: who waits for one is Interval away from the slot that is
\* given out next, and has not overslept it.
SlotInv ==
  calm /\ client = "kis" =>
    \A c \in Callers : pc[c] \in Slots => wait[c] + Interval <= Limiter(c)

\* The calls that wait for a slot of a process, and those whose slot comes within n ticks
\* or is past: time has been left for all of them.
Queue(p) == {c \in Callers : ProcessOf[c] = p /\ pc[c] \in Slots}
Within(p, n) == {c \in Queue(p) : wait[c] <= n}
PaceInv ==
  client = "kis" =>
    /\ \A p \in Processes : spare[p] <= Burst
    /\ \A p \in Processes : Interval * Cardinality(Queue(p)) <= spare[p] + next[p]
    /\ \A p \in Processes, n \in Nat :
         Interval * Cardinality(Within(p, n)) <= spare[p] + Interval + n

IInv == ClientTypes /\ OnceInv /\ SlotInv /\ PaceInv

\* Sets of calls and their sizes.
LEMMA Sizes ==
  ASSUME ClientConstants, NEW S \in SUBSET Callers, NEW T \in SUBSET S
  PROVE  /\ IsFiniteSet(S) /\ Cardinality(S) \in Nat /\ Cardinality(T) \in Nat
         /\ Cardinality(T) <= Cardinality(S)
BY FS_Subset, FS_CardinalityType DEF ClientConstants

\* One more call takes one more slot, one less one less.
LEMMA OneMore ==
  ASSUME ClientConstants, NEW S \in SUBSET Callers, NEW c \in Callers \ S
  PROVE  Cardinality(S \cup {c}) = Cardinality(S) + 1
BY Sizes, FS_AddElement
LEMMA OneLess ==
  ASSUME ClientConstants, NEW S \in SUBSET Callers, NEW c \in S
  PROVE  Cardinality(S \ {c}) = Cardinality(S) - 1
BY Sizes, FS_RemoveElement

\* Products with the interval.
LEMMA Slotted ==
  /\ \A i, m, n \in Nat : m <= n => i * m <= i * n
  /\ \A i, n \in Nat : i * (1 + (n + 1)) = i * (1 + n) + i /\ i * n \in Nat
  /\ \A n \in Nat : 0 * n = 0
OBVIOUS
LEMMA Products ==
  \A i, n \in Nat : i * (n + 1) = i * n + i /\ i * n \in Nat /\ (n > 0 => i * (n - 1) = i * n - i)
OBVIOUS

\* The calls of a smaller set take no more time.
LEMMA Fewer ==
  ASSUME ClientConstants, NEW S \in SUBSET Callers, NEW T \in SUBSET S
  PROVE  /\ Interval * Cardinality(T) <= Interval * Cardinality(S)
         /\ Interval * Cardinality(T) \in Nat /\ Interval * Cardinality(S) \in Nat
BY Sizes, Slotted DEF ClientConstants

\* Whoever waits, the time left for them is not less than a smaller queue needs.
LEMMA PaceStays ==
  ASSUME ClientConstants, ClientTypes, PaceInv, UNCHANGED <<client, next, spare>>,
         \A d \in Callers : pc'[d] \in Slots => pc[d] \in Slots /\ wait'[d] = wait[d]
  PROVE  PaceInv'
<1>1. \A p \in Processes : Queue(p)' \in SUBSET Queue(p) /\ Queue(p) \in SUBSET Callers
  BY DEF Queue
<1>2. \A p \in Processes, n \in Nat :
        Within(p, n)' \in SUBSET Within(p, n) /\ Within(p, n) \in SUBSET Callers
  BY <1>1 DEF Within, Queue
<1>3. /\ \A p \in Processes : /\ Interval * Cardinality(Queue(p)') <= Interval * Cardinality(Queue(p))
                              /\ {Interval * Cardinality(Queue(p)'), Interval * Cardinality(Queue(p))} \subseteq Nat
      /\ \A p \in Processes, n \in Nat :
           /\ Interval * Cardinality(Within(p, n)') <= Interval * Cardinality(Within(p, n))
           /\ {Interval * Cardinality(Within(p, n)'), Interval * Cardinality(Within(p, n))} \subseteq Nat
  BY <1>1, <1>2, Fewer
<1>. SUFFICES ASSUME client = "kis" PROVE PaceInv'
  BY DEF PaceInv
<1>4. \A p \in Processes : /\ spare'[p] = spare[p] /\ spare[p] \in Int
                           /\ next'[p] = next[p] /\ next[p] \in Nat
                           /\ spare[p] <= Burst
                           /\ Interval * Cardinality(Queue(p)) <= spare[p] + next[p]
  BY DEF PaceInv, ClientTypes
<1>5. \A p \in Processes, n \in Nat :
        Interval * Cardinality(Within(p, n)') <= spare'[p] + Interval + n
  BY <1>3, <1>4 DEF PaceInv, ClientConstants
<1>6. \A p \in Processes : Interval * Cardinality(Queue(p)') <= spare'[p] + next'[p]
  BY <1>3, <1>4
<1>7. Burst' = Burst
  BY DEF Burst
<1>. QED BY <1>4, <1>5, <1>6, <1>7 DEF PaceInv

\* A step of the call c that neither takes nor asks for a slot leaves the slots alone.
LEMMA NoSlot ==
  ASSUME ClientConstants, IInv, NEW c \in Callers, NEW step \in Steps \ Slots, NEW ticks \in Nat,
         Goto(c, step, ticks), UNCHANGED <<client, calm, next, spare>>
  PROVE  SlotInv' /\ PaceInv'
<1>1. \A d \in Callers : pc'[d] \in Slots => pc[d] \in Slots /\ wait'[d] = wait[d]
  BY DEF IInv, ClientTypes, Goto
<1>. QED BY <1>1, PaceStays DEF IInv, SlotInv, Limiter


\* Taking the next slot of the limiter.
LEMMA JoinsPace ==
  ASSUME ClientConstants, IInv, client = "kis", NEW c \in Callers, pc[c] \notin Slots,
         NEW step \in Slots, Reserve(c, step), UNCHANGED <<client, spare>>
  PROVE  PaceInv'
<1>. DEFINE p == ProcessOf[c]
<1>types. /\ pc \in [Callers -> Steps] /\ wait \in [Callers -> Nat] /\ next \in [Processes -> Nat]
          /\ spare \in [Processes -> Int] /\ Interval \in Nat /\ p \in Processes
          /\ \A q \in Processes : spare[q] <= Burst
  BY DEF ClientConstants, IInv, ClientTypes, PaceInv
<1>1. /\ pc' = [pc EXCEPT ![c] = step] /\ wait' = [wait EXCEPT ![c] = next[p]]
      /\ next' = [next EXCEPT ![p] = @ + Interval]
  BY DEF Reserve, Goto, Limiter
<1>2. \A q \in Processes : /\ Queue(q)' = IF q = p THEN Queue(q) \cup {c} ELSE Queue(q)
                          /\ Queue(q) \in SUBSET Callers /\ c \notin Queue(q)
  BY <1>1, <1>types DEF Queue
<1>3. ASSUME NEW q \in Processes PROVE Interval * Cardinality(Queue(q)') <= spare'[q] + next'[q]
  <2>1. /\ Interval * Cardinality(Queue(q)) <= spare[q] + next[q]
        /\ Cardinality(Queue(q)) \in Nat /\ Interval * Cardinality(Queue(q)) \in Nat
    BY <1>2, <1>types, Sizes, Products DEF IInv, PaceInv
  <2>2. CASE q # p
    BY <2>1, <2>2, <1>1, <1>2, <1>types
  <2>3. CASE q = p
    <3>1. Cardinality(Queue(q)') = Cardinality(Queue(q)) + 1
      BY <2>3, <1>2, OneMore
    <3>2. Interval * (Cardinality(Queue(q)) + 1) = Interval * Cardinality(Queue(q)) + Interval
      BY <2>1, <1>types, Products
    <3>. QED BY <2>1, <2>3, <3>1, <3>2, <1>1, <1>types
  <2>. QED BY <2>2, <2>3
<1>4. ASSUME NEW q \in Processes, NEW n \in Nat
      PROVE  Interval * Cardinality(Within(q, n)') <= spare'[q] + Interval + n
  <2>0. Within(q, n) \in SUBSET Queue(q) /\ Within(q, n) \in SUBSET Callers
    BY <1>2 DEF Within
  <2>1. /\ Interval * Cardinality(Within(q, n)) <= spare[q] + Interval + n
        /\ Interval * Cardinality(Queue(q)) <= spare[q] + next[q]
        /\ Interval * Cardinality(Within(q, n)) <= Interval * Cardinality(Queue(q))
        /\ Cardinality(Within(q, n)) \in Nat /\ Interval * Cardinality(Within(q, n)) \in Nat
        /\ Interval * Cardinality(Queue(q)) \in Nat
    BY <2>0, <1>2, <1>types, Sizes, Fewer DEF IInv, PaceInv
  <2>2. CASE q = p /\ next[p] <= n
    <3>1. Within(q, n)' = Within(q, n) \cup {c} /\ c \notin Within(q, n)
      BY <2>2, <1>1, <1>2, <1>types DEF Within, Queue
    <3>2. Cardinality(Within(q, n)') = Cardinality(Within(q, n)) + 1
      BY <3>1, <2>0, OneMore
    <3>3. Interval * (Cardinality(Within(q, n)) + 1) = Interval * Cardinality(Within(q, n)) + Interval
      BY <2>1, <1>types, Products
    <3>. QED BY <2>1, <2>2, <3>2, <3>3, <1>types
  <2>3. CASE ~(q = p /\ next[p] <= n)
    <3>1. Within(q, n)' = Within(q, n)
      BY <2>3, <1>1, <1>2, <1>types DEF Within, Queue
    <3>. QED BY <2>1, <3>1
  <2>. QED BY <2>2, <2>3
<1>5. Burst' = Burst
  BY DEF Burst
<1>. QED BY <1>3, <1>4, <1>5, <1>types DEF PaceInv

LEMMA TakesSlot ==
  ASSUME ClientConstants, IInv, NEW c \in Callers, pc[c] \notin Slots, NEW step \in Slots,
         Reserve(c, step), UNCHANGED <<client, calm, spare>>
  PROVE  /\ SlotInv' /\ PaceInv'
         /\ pc' = [pc EXCEPT ![c] = step]
         /\ wait' \in [Callers -> Nat] /\ next' \in [Processes -> Nat]
<1>. USE DEF ClientConstants, IInv, ClientTypes, Goto, Reserve, Limiter
<1>1. CASE client = "kis"
  <2>. DEFINE p == ProcessOf[c]
  <2>1. /\ p \in Processes /\ next[p] \in Nat /\ Interval \in Nat
        /\ pc' = [pc EXCEPT ![c] = step] /\ wait' = [wait EXCEPT ![c] = next[p]]
        /\ next' = [next EXCEPT ![p] = @ + Interval]
    BY <1>1
  <2>2. SlotInv'
    BY <2>1, <1>1 DEF SlotInv
  <2>3. PaceInv'
    BY <1>1, JoinsPace
  <2>. QED BY <2>1, <2>2, <2>3
<1>2. CASE client # "kis"
  BY <1>2 DEF SlotInv, PaceInv
<1>. QED BY <1>1, <1>2

\* A request leaves the queue, and takes its time.
LEMMA LeavesPace ==
  ASSUME ClientConstants, IInv, client = "kis", NEW c \in Callers, Send(c)
  PROVE  PaceInv' /\ spare'[ProcessOf[c]] + Interval >= 0
<1>. DEFINE p == ProcessOf[c]
<1>types. /\ pc \in [Callers -> Steps] /\ wait \in [Callers -> Nat] /\ next \in [Processes -> Nat]
          /\ spare \in [Processes -> Int] /\ Interval \in Nat /\ p \in Processes
          /\ \A q \in Processes : spare[q] <= Burst /\ Burst \in Int
  <2>1. Burst \in Int
    BY Fewer DEF Burst
  <2>. QED BY <2>1 DEF ClientConstants, IInv, ClientTypes, PaceInv
<1>1. /\ pc[c] \in Slots /\ wait[c] = 0 /\ pc'[c] \notin Slots
      /\ \A d \in Callers \ {c} : pc'[d] = pc[d] /\ wait'[d] = wait[d]
      /\ UNCHANGED <<next, client>> /\ spare' = [spare EXCEPT ![p] = @ - Interval]
  BY <1>types DEF Send, Goto, Out, Slots, Sent, fixedVars
<1>2. /\ Queue(p)' = Queue(p) \ {c} /\ c \in Queue(p)
      /\ \A q \in Processes : q # p => Queue(q)' = Queue(q) /\ c \notin Queue(q)
      /\ \A q \in Processes : Queue(q) \in SUBSET Callers
  <2>1. \A d \in Callers : pc'[d] \in Slots <=> pc[d] \in Slots /\ d # c
    BY <1>1
  <2>. QED BY <2>1, <1>1, <1>types DEF Queue
<1>3. ASSUME NEW q \in Processes PROVE Interval * Cardinality(Queue(q)') <= spare'[q] + next'[q]
  <2>0. Cardinality(Queue(q)) \in Nat
    BY <1>2, Sizes
  <2>1. /\ Interval * Cardinality(Queue(q)) <= spare[q] + next[q]
        /\ Cardinality(Queue(q)) \in Nat /\ Interval * Cardinality(Queue(q)) \in Nat
    BY <2>0, <1>types, Products DEF IInv, PaceInv
  <2>2. CASE q # p
    BY <2>1, <2>2, <1>1, <1>2, <1>types
  <2>3. CASE q = p
    <3>1. Cardinality(Queue(q)') = Cardinality(Queue(q)) - 1
      BY <2>3, <1>2, OneLess
    <3>2. Cardinality(Queue(q)') \in Nat
      BY <1>2, <2>3, Sizes
    <3>3. Interval * (Cardinality(Queue(q)) - 1) = Interval * Cardinality(Queue(q)) - Interval
      BY <2>1, <3>1, <3>2, <1>types, Products
    <3>. QED BY <2>1, <2>3, <3>1, <3>3, <1>1, <1>types
  <2>. QED BY <2>2, <2>3
<1>4. ASSUME NEW q \in Processes, NEW n \in Nat
      PROVE  /\ Interval * Cardinality(Within(q, n)') <= spare'[q] + Interval + n
             /\ Interval * Cardinality(Within(q, n)') \in Nat
  <2>0. Within(q, n) \in SUBSET Callers
    BY <1>2 DEF Within, Queue
  <2>1. /\ Interval * Cardinality(Within(q, n)) <= spare[q] + Interval + n
        /\ Cardinality(Within(q, n)) \in Nat /\ Interval * Cardinality(Within(q, n)) \in Nat
    BY <2>0, <1>types, Sizes, Fewer DEF IInv, PaceInv
  <2>2. CASE q # p
    <3>1. Within(q, n)' = Within(q, n)
      BY <2>2, <1>1, <1>2 DEF Within, Queue
    <3>. QED BY <2>1, <2>2, <3>1, <1>1, <1>types
  <2>3. CASE q = p
    <3>1. Within(q, n)' = Within(q, n) \ {c} /\ c \in Within(q, n)
      BY <2>3, <1>1, <1>2 DEF Within, Queue
    <3>2. Cardinality(Within(q, n)') = Cardinality(Within(q, n)) - 1
      BY <3>1, <2>0, OneLess
    <3>3. Cardinality(Within(q, n)') \in Nat
      BY <3>1, <2>0, Sizes
    <3>4. Interval * (Cardinality(Within(q, n)) - 1) = Interval * Cardinality(Within(q, n)) - Interval
      BY <2>1, <3>2, <3>3, <1>types, Products
    <3>5. Interval * Cardinality(Within(q, n)') \in Nat
      BY <3>3, <1>types, Products
    <3>. QED BY <2>1, <2>3, <3>2, <3>4, <3>5, <1>1, <1>types
  <2>. QED BY <2>2, <2>3
<1>5. Burst' = Burst
  BY DEF Burst
<1>6. \A q \in Processes : spare'[q] <= Burst
  BY <1>1, <1>types
<1>7. spare'[p] + Interval >= 0
  BY <1>4, <1>1, <1>types
<1>. QED BY <1>3, <1>4, <1>5, <1>6, <1>7 DEF PaceInv

\* A step to a place where the order is neither taken nor done keeps what it was sent.
LEMMA NotSent ==
  ASSUME ClientConstants, IInv, NEW c \in Callers, NEW step \in Steps,
         pc' = [pc EXCEPT ![c] = step], UNCHANGED placed,
         \/ step = "failed"
         \/ step \notin {"taken", "done"} /\ pc[c] \notin {"taken", "done", "failed"}
         \/ step = "done" /\ pc[c] = "taken"
  PROVE  OnceInv'
BY DEF ClientConstants, IInv, ClientTypes, OnceInv, Steps

\* The initial states satisfy the invariant.
LEMMA InitIInv == ClientConstants /\ Init => IInv
<1>. SUFFICES ASSUME ClientConstants, Init PROVE IInv
  OBVIOUS
<1>1. ClientTypes /\ OnceInv /\ SlotInv
  BY DEF ClientConstants, Init, ClientTypes, OnceInv, SlotInv, Limiter, Steps, Slots, Sent, Ended
<1>2. /\ \A p \in Processes : Queue(p) = {}
      /\ \A p \in Processes, n \in Nat : Within(p, n) = {}
  BY DEF Init, Queue, Within, Slots
<1>3. Cardinality({}) = 0 /\ Interval \in Nat /\ Burst \in Nat
  BY FS_EmptySet, Fewer DEF Burst, ClientConstants
<1>4. Interval * 0 = 0
  BY <1>3, Products
<1>5. PaceInv
  BY <1>2, <1>3, <1>4 DEF PaceInv, Init
<1>. QED BY <1>1, <1>5 DEF IInv

\* A step of a call preserves the invariant.
LEMMA StepIInv ==
  ASSUME ClientConstants, IInv, NEW c \in Callers, Step(c) PROVE IInv'
<1>. USE DEF At, fixedVars, tokenVars
<1>types. /\ pc \in [Callers -> Steps] /\ wait \in [Callers -> Nat]
          /\ next \in [Processes -> Nat] /\ got \subseteq Callers
          /\ {cache, lock, faults, Interval, Rounds, LockTtl, TokenTtl} \subseteq Nat
          /\ Slots \subseteq Steps /\ Sent \subseteq Steps \ Slots
          /\ placed \in [Callers -> Nat] /\ tries \in [Callers -> 0 .. 2]
  BY DEF ClientConstants, IInv, ClientTypes, Steps, Slots, Sent
\* A step that goes on, and one that goes on to a slot.
<1>go. ASSUME NEW step \in Steps \ Slots, NEW ticks \in Nat, Goto(c, step, ticks),
              UNCHANGED <<client, calm, kind, next, spare, placed>>,
              \/ step = "failed"
              \/ step \notin {"taken", "done"} /\ pc[c] \notin {"taken", "done", "failed"}
              \/ step = "done" /\ pc[c] = "taken",
              got' \subseteq Callers, {cache', lock', faults'} \subseteq Nat,
              tries' \in [Callers -> 0 .. 2]
       PROVE  IInv'
  <2>1. SlotInv' /\ PaceInv'
    BY <1>go, NoSlot
  <2>2. OnceInv'
    BY <1>go, NotSent DEF Goto
  <2>3. ClientTypes'
    BY <1>go DEF IInv, ClientTypes, Goto
  <2>. QED BY <2>1, <2>2, <2>3 DEF IInv
<1>slot. ASSUME NEW step \in Slots, pc[c] \notin Slots \cup {"taken", "done", "failed"},
                Reserve(c, step), UNCHANGED <<client, calm, kind, spare, placed, tries, faults, cache>>,
                got' \subseteq Callers, lock' \in Nat
         PROVE  IInv'
  <2>1. /\ SlotInv' /\ PaceInv' /\ pc' = [pc EXCEPT ![c] = step]
        /\ wait' \in [Callers -> Nat] /\ next' \in [Processes -> Nat]
    BY <1>slot, TakesSlot
  <2>2. OnceInv'
    BY <2>1, <1>slot, <1>types, NotSent DEF Slots
  <2>3. ClientTypes'
    BY <2>1, <1>slot, <1>types DEF IInv, ClientTypes
  <2>. QED BY <2>1, <2>2, <2>3 DEF IInv
<1>1. CASE Call(c)
  <2>1. CASE kind[c] = "order" /\ client = "kis"
    BY <2>1, <1>1, <1>slot, <1>types DEF Call, Slots
  <2>2. CASE ~(kind[c] = "order" /\ client = "kis")
    BY <2>2, <1>1, <1>go, <1>types DEF Call, Steps, Slots
  <2>. QED BY <2>1, <2>2
<1>2. CASE Send(c)
  <2>1. /\ pc[c] \in Slots /\ Out[pc[c]] \in Sent
        /\ pc' = [pc EXCEPT ![c] = Out[pc[c]]] /\ wait' = [wait EXCEPT ![c] = 0]
        /\ spare' \in [Processes -> Int] /\ (client # "kis" => spare' = spare)
        /\ wait[c] = 0 /\ UNCHANGED <<client, calm, kind, next, tries, got, cache, lock, placed, faults>>
    BY <1>2, <1>types DEF Send, Goto, Out, Slots, Sent, ClientConstants, IInv, ClientTypes
  <2>2. SlotInv'
    BY <2>1, <1>types DEF ClientConstants, IInv, ClientTypes, SlotInv, Limiter, Slots, Sent
  <2>5. PaceInv'
    <3>1. CASE client = "kis"
      BY <1>2, <3>1, LeavesPace
    <3>2. CASE client # "kis"
      BY <2>1, <3>2 DEF PaceInv
    <3>. QED BY <3>1, <3>2
  <2>3. OnceInv'
    BY <2>1, <1>types, NotSent DEF Slots, Sent
  <2>4. ClientTypes'
    BY <2>1, <1>types DEF ClientConstants, IInv, ClientTypes
  <2>. QED BY <2>2, <2>3, <2>4, <2>5 DEF IInv
<1>3. CASE Signed(c)
  BY <1>3, <1>go, <1>types DEF Signed, Steps, Slots
<1>4. CASE ReadCache(c)
  <2>1. CASE cache > 0
    BY <2>1, <1>4, <1>slot, <1>types DEF ReadCache, Slots
  <2>2. CASE ~(cache > 0)
    BY <2>2, <1>4, <1>go, <1>types DEF ReadCache, Steps, Slots
  <2>. QED BY <2>1, <2>2
<1>5. CASE TakeLock(c)
  <2>1. CASE lock = 0
    BY <2>1, <1>5, <1>go, <1>types DEF TakeLock, Steps, Slots
  <2>2. CASE lock # 0
    BY <2>2, <1>5, <1>go, <1>types DEF TakeLock, Steps, Slots
  <2>. QED BY <2>1, <2>2
<1>6. CASE Poll(c)
  <2>1. CASE Reserve(c, "send")
    BY <2>1, <1>6, <1>slot, <1>types DEF Poll, Slots
  <2>2. CASE Goto(c, "recheck", 0) /\ UNCHANGED next
    BY <2>2, <1>6, <1>go, <1>types DEF Poll, Steps, Slots
  <2>. QED BY <2>1, <2>2, <1>6 DEF Poll
<1>7. CASE Recheck(c)
  <2>1. CASE cache > 0
    BY <2>1, <1>7, <1>go, <1>types DEF Recheck, Steps, Slots
  <2>2. CASE ~(cache > 0)
    BY <2>2, <1>7, <1>slot, <1>types DEF Recheck, Slots
  <2>. QED BY <2>1, <2>2
<1>8. CASE Issued(c)
  BY <1>8, <1>go, <1>types DEF Issued, Steps, Slots
<1>9. CASE Save(c)
  BY <1>9, <1>go, <1>types DEF Save, Steps, Slots
<1>10. CASE Unlock(c)
  BY <1>10, <1>slot, <1>types DEF Unlock, Unlocked, Slots
<1>11. CASE Accept(c)
  <2>1. SlotInv' /\ PaceInv'
    <3>1. \A d \in Callers : pc'[d] \in Slots => pc[d] \in Slots /\ wait'[d] = wait[d]
      BY <1>11, <1>types DEF Accept, Slots
    <3>2. UNCHANGED <<client, calm, next, spare>>
      BY <1>11 DEF Accept
    <3>3. PaceInv'
      BY <3>1, <3>2, PaceStays DEF IInv
    <3>4. SlotInv'
      BY <3>1, <3>2 DEF IInv, SlotInv, Limiter
    <3>. QED BY <3>3, <3>4
  <2>2. OnceInv'
    BY <1>11, <1>types DEF Accept, IInv, OnceInv
  <2>3. ClientTypes'
    BY <1>11, <1>types DEF Accept, IInv, ClientTypes, Steps
  <2>. QED BY <2>1, <2>2, <2>3 DEF IInv
<1>12. CASE Answered(c)
  BY <1>12, <1>go, <1>types DEF Answered, Steps, Slots, Ended
<1>13. CASE Limited(c)
  <2>1. CASE tries[c] + 1 < MaxTries
    <3>1. tries[c] \in 0 .. 2 /\ MaxTries \in {2, 3}
      BY <1>types DEF MaxTries
    <3>2. tries' \in [Callers -> 0 .. 2] /\ tries[c] + 1 \in Nat /\ Goto(c, "backoff", tries[c] + 1)
      BY <1>13, <2>1, <3>1, <1>types DEF Limited, Retry
    <3>. QED BY <1>13, <3>2, <1>go, <1>types DEF Limited, Steps, Slots
  <2>2. CASE ~(tries[c] + 1 < MaxTries)
    BY <2>2, <1>13, <1>go, <1>types DEF Limited, Retry, Steps, Slots, Ended
  <2>. QED BY <2>1, <2>2
<1>14. CASE BackedOff(c)
  <2>1. CASE client = "kis"
    BY <2>1, <1>14, <1>slot, <1>types DEF BackedOff, Slots
  <2>2. CASE client # "kis"
    BY <2>2, <1>14, <1>go, <1>types DEF BackedOff, Steps, Slots
  <2>. QED BY <2>1, <2>2
<1>15. CASE Fails(c)
  BY <1>15, <1>go, <1>types DEF Fails, Unlocked, Steps, Slots, Ended
<1>16. CASE Cancelled(c)
  BY <1>16, <1>go, <1>types DEF Cancelled, Fault, Unlocked, Steps, Slots, Ended
<1>. QED
  BY <1>1, <1>2, <1>3, <1>4, <1>5, <1>6, <1>7, <1>8, <1>9, <1>10, <1>11, <1>12, <1>13, <1>14,
     <1>15, <1>16 DEF Step

\* A crash fails the calls of its process, which starts over with nobody waiting.
LEMMA CrashIInv == ASSUME ClientConstants, IInv, NEW p \in Processes, Crash(p) PROVE IInv'
<1>types. /\ pc \in [Callers -> Steps] /\ wait \in [Callers -> Nat] /\ next \in [Processes -> Nat]
          /\ spare \in [Processes -> Int] /\ Interval \in Nat
  BY DEF ClientConstants, IInv, ClientTypes
<1>0. /\ ~calm /\ UNCHANGED <<client, calm, kind>>
      /\ \A c \in Callers : pc'[c] \in Slots => pc[c] \in Slots /\ wait'[c] = wait[c] /\ ProcessOf[c] # p
      /\ next' = [next EXCEPT ![p] = 0] /\ spare' = [spare EXCEPT ![p] = 0]
  BY DEF Crash, Fault, fixedVars, Slots, Ended
<1>1. SlotInv'
  BY <1>0 DEF SlotInv
<1>2. OnceInv'
  BY DEF ClientConstants, IInv, ClientTypes, OnceInv, Crash, Fault, fixedVars
<1>3. ClientTypes'
  BY DEF ClientConstants, IInv, ClientTypes, Crash, Fault, fixedVars, Steps, Ended
<1>4. ASSUME client = "kis" PROVE PaceInv'
  <2>0. /\ Burst' = Burst /\ Burst \in Nat /\ \A q \in Processes : spare[q] <= Burst
    BY <1>4, Fewer DEF Burst, IInv, PaceInv
  <2>1. \A q \in Processes : /\ Queue(q)' \in SUBSET Queue(q) /\ Queue(q) \in SUBSET Callers
                            /\ Queue(p)' = {}
    BY <1>0 DEF Queue
  <2>2. \A q \in Processes, n \in Nat :
          /\ Within(q, n)' \in SUBSET Within(q, n) /\ Within(q, n) \in SUBSET Callers
          /\ Within(p, n)' = {}
    BY <2>1, <1>0 DEF Within, Queue
  <2>3. Cardinality({}) = 0 /\ Interval * 0 = 0
    BY FS_EmptySet, <1>types, Products
  <2>4. ASSUME NEW q \in Processes PROVE Interval * Cardinality(Queue(q)') <= spare'[q] + next'[q]
    <3>1. CASE q = p
      <4>1. Cardinality(Queue(q)') = 0
        BY <3>1, <2>1, <2>3
      <4>. QED BY <4>1, <3>1, <2>3, <1>0, <1>types
    <3>2. CASE q # p
      <4>1. /\ Interval * Cardinality(Queue(q)') <= Interval * Cardinality(Queue(q))
            /\ Interval * Cardinality(Queue(q)') \in Nat /\ Interval * Cardinality(Queue(q)) \in Nat
        BY <2>1, Fewer
      <4>2. Interval * Cardinality(Queue(q)) <= spare[q] + next[q]
        BY <1>4 DEF IInv, PaceInv
      <4>. QED BY <4>1, <4>2, <3>2, <1>0, <1>types
    <3>. QED BY <3>1, <3>2
  <2>5. ASSUME NEW q \in Processes, NEW n \in Nat
        PROVE  Interval * Cardinality(Within(q, n)') <= spare'[q] + Interval + n
    <3>1. CASE q = p
      <4>1. Cardinality(Within(q, n)') = 0
        BY <3>1, <2>2, <2>3
      <4>. QED BY <4>1, <3>1, <2>3, <1>0, <1>types
    <3>2. CASE q # p
      <4>1. /\ Interval * Cardinality(Within(q, n)') <= Interval * Cardinality(Within(q, n))
            /\ Interval * Cardinality(Within(q, n)') \in Nat /\ Interval * Cardinality(Within(q, n)) \in Nat
        BY <2>2, Fewer
      <4>2. Interval * Cardinality(Within(q, n)) <= spare[q] + Interval + n
        BY <1>4 DEF IInv, PaceInv
      <4>. QED BY <4>1, <4>2, <3>2, <1>0, <1>types
    <3>. QED BY <3>1, <3>2
  <2>6. \A q \in Processes : spare'[q] <= Burst'
    BY <2>0, <1>0, <1>types
  <2>. QED BY <2>4, <2>5, <2>6 DEF PaceInv
<1>5. PaceInv'
  BY <1>0, <1>4 DEF PaceInv
<1>. QED BY <1>1, <1>2, <1>3, <1>5 DEF IInv

\* A tick brings all who wait nearer to their slot alike, except for who overslept it.
LEMMA TickPace == ASSUME ClientConstants, IInv, Tick, client = "kis" PROVE PaceInv'
<1>types. /\ wait \in [Callers -> Nat] /\ next \in [Processes -> Nat]
          /\ spare \in [Processes -> Int] /\ Interval \in Nat
          /\ Burst' = Burst /\ Burst \in Nat /\ \A q \in Processes : spare[q] <= Burst
  <2>1. Burst' = Burst /\ Burst \in Nat
    BY Fewer DEF Burst
  <2>. QED BY <2>1 DEF ClientConstants, IInv, ClientTypes, PaceInv
<1>1. pc' = pc /\ \A c \in Callers : pc[c] \in Slots =>
                    wait'[c] = IF wait[c] > 0 THEN wait[c] - 1 ELSE 0
  BY <1>types DEF Tick, Asleep, Flying, Slots, Sent
<1>2. \A p \in Processes :
        /\ next'[p] = IF next[p] > 0 THEN next[p] - 1 ELSE 0
        /\ spare'[p] = IF spare[p] < Burst THEN spare[p] + 1 ELSE spare[p]
  BY DEF Tick, Less
<1>3. \A p \in Processes : Queue(p)' = Queue(p) /\ Queue(p) \in SUBSET Callers
  BY <1>1 DEF Queue
<1>4. \A p \in Processes, n \in Nat :
        /\ Within(p, n)' = Within(p, n + 1) /\ Within(p, n + 1) \in SUBSET Callers
  <2>. SUFFICES ASSUME NEW p \in Processes, NEW n \in Nat
                PROVE  Within(p, n)' = Within(p, n + 1) /\ Within(p, n + 1) \in SUBSET Callers
    OBVIOUS
  <2>1. \A c \in Queue(p) : wait'[c] <= n <=> wait[c] <= n + 1
    BY <1>1, <1>types DEF Queue
  <2>. QED BY <2>1, <1>3 DEF Within
<1>5. \A S \in SUBSET Callers : Interval * Cardinality(S) <= Burst /\ Interval * Cardinality(S) \in Nat
  BY Fewer DEF Burst
<1>6. ASSUME NEW p \in Processes PROVE Interval * Cardinality(Queue(p)') <= spare'[p] + next'[p]
  <2>1. Interval * Cardinality(Queue(p)) <= spare[p] + next[p]
    BY DEF IInv, PaceInv
  <2>2. Interval * Cardinality(Queue(p)) <= Burst /\ Interval * Cardinality(Queue(p)) \in Nat
    BY <1>3, <1>5
  <2>. QED BY <2>1, <2>2, <1>2, <1>3, <1>types
<1>7. ASSUME NEW p \in Processes, NEW n \in Nat
      PROVE  Interval * Cardinality(Within(p, n)') <= spare'[p] + Interval + n
  <2>1. Interval * Cardinality(Within(p, n + 1)) <= spare[p] + Interval + (n + 1)
    BY DEF IInv, PaceInv
  <2>2. /\ Interval * Cardinality(Within(p, n + 1)) <= Burst
        /\ Interval * Cardinality(Within(p, n + 1)) \in Nat
    BY <1>4, <1>5
  <2>. QED BY <2>1, <2>2, <1>2, <1>4, <1>types
<1>8. \A p \in Processes : spare'[p] <= Burst'
  BY <1>2, <1>types
<1>. QED BY <1>6, <1>7, <1>8 DEF PaceInv

LEMMA TickIInv == ASSUME ClientConstants, IInv, Tick PROVE IInv'
<1>1. calm => \A c \in Callers : pc[c] \in Slots => wait[c] > 0 /\ wait'[c] = wait[c] - 1
  BY DEF ClientConstants, IInv, ClientTypes, Tick, OnTime, Asleep, Flying, Slots, Sent, Ended
<1>2. \A p \in Processes : next'[p] = IF next[p] > 0 THEN next[p] - 1 ELSE 0
  BY DEF Tick, Less
<1>3. SlotInv'
  BY <1>1, <1>2 DEF ClientConstants, IInv, ClientTypes, SlotInv, Limiter, Tick, fixedVars
<1>4. OnceInv'
  BY DEF IInv, OnceInv, Tick
<1>5. ClientTypes'
  <2>1. spare' \in [Processes -> Int]
    BY DEF IInv, ClientTypes, Tick
  <2>. QED BY <2>1 DEF ClientConstants, IInv, ClientTypes, Tick, Less, Asleep, fixedVars
<1>6. PaceInv'
  BY TickPace DEF PaceInv, Tick, fixedVars
<1>. QED BY <1>3, <1>4, <1>5, <1>6 DEF IInv

\* Every step preserves the invariant.
LEMMA NextIInv == ClientConstants /\ IInv /\ [Next]_vars => IInv'
<1>1. ASSUME ClientConstants, IInv, UNCHANGED vars PROVE IInv'
  <2>1. PaceInv'
    BY <1>1, PaceStays DEF vars, fixedVars, IInv
  <2>. QED BY <2>1, <1>1 DEF vars, fixedVars, tokenVars, IInv, ClientTypes, OnceInv, SlotInv, Limiter
<1>. QED BY <1>1, StepIInv, CrashIInv, TickIInv DEF Next

\* The invariant holds throughout.
LEMMA Invariant == ASSUME ClientConstants PROVE Spec => []IInv
BY InitIInv, NextIInv, PTL DEF Spec

\* Every variable keeps its type.
THEOREM TypeCorrect == ASSUME ClientConstants PROVE Spec => []ClientTypes
<1>1. IInv => ClientTypes
  BY DEF IInv
<1>. QED BY <1>1, Invariant, PTL

\* The broker takes the order of a call at most once, and has taken it when the call
\* returns, after any refusals, retries, lost answers, cancelled calls and crashes.
THEOREM PlacedOnce == ASSUME ClientConstants PROVE Spec => []OncePerCall
<1>1. IInv => OncePerCall
  BY DEF IInv, ClientTypes, OnceInv, OncePerCall
<1>. QED BY <1>1, Invariant, PTL

\* However late the sleepers wake, a process never gets ahead of its limiter by more than
\* one request, nor after a rest by more than it has calls, for any interval and any number
\* of calls and processes (client.py:46).
THEOREM KeepsPace == ASSUME ClientConstants PROVE Spec => []Paced
<1>1. Init => Paced
  BY DEF Init, Paced, ClientConstants
<1>2. ASSUME ClientConstants, IInv, Paced, [Next]_vars PROVE Paced'
  <2>. SUFFICES ASSUME client = "kis", NEW p \in Processes PROVE spare'[p] + Interval >= 0
    BY <1>2 DEF Paced, Next, Step, Call, Send, Signed, ReadCache, TakeLock, Poll, Recheck, Issued,
         Save, Unlock, Accept, Answered, Limited, BackedOff, Fails, Cancelled, Fault, Crash, Tick,
         vars, fixedVars
  <2>types. spare \in [Processes -> Int] /\ Interval \in Nat /\ spare[p] + Interval >= 0
            /\ ProcessOf \in [Callers -> Processes]
    BY <1>2 DEF IInv, ClientTypes, ClientConstants, Paced
  <2>1. ASSUME NEW c \in Callers, Send(c) PROVE spare'[p] + Interval >= 0
    <3>1. spare'[ProcessOf[c]] + Interval >= 0
      BY <2>1, <1>2, LeavesPace
    <3>2. p # ProcessOf[c] => spare'[p] = spare[p]
      BY <2>1, <2>types DEF Send
    <3>. QED BY <3>1, <3>2, <2>types
  <2>2. ASSUME NEW c \in Callers, Step(c), ~Send(c) PROVE spare' = spare
    BY <2>2 DEF Step, Call, Signed, ReadCache, TakeLock, Poll, Recheck, Issued, Save, Unlock,
         Accept, Answered, Limited, BackedOff, Fails, Cancelled
  <2>3. ASSUME NEW q \in Processes, Crash(q) PROVE spare'[p] + Interval >= 0
    BY <2>3, <2>types DEF Crash
  <2>4. ASSUME Tick PROVE spare'[p] + Interval >= 0
    BY <2>4, <2>types DEF Tick
  <2>5. ASSUME UNCHANGED vars PROVE spare' = spare
    BY <2>5 DEF vars
  <2>. QED BY <2>1, <2>2, <2>3, <2>4, <2>5, <2>types, <1>2 DEF Next
<1>. QED BY <1>1, <1>2, Invariant, PTL DEF Spec

(***************************************************************************)
(* One token at a time                                                     *)
(***************************************************************************)
\* The calls of a process are few enough, and its slots and the answer of a calm broker
\* come soon enough, for those who wait for the token and for the lock to outlast them.
Calling(p) == {c \in Callers : ProcessOf[c] = p}
Longest(p) == Interval * Cardinality(Calling(p)) + Latency
Prompt ==
  /\ \A p \in Processes : Longest(p) < Rounds /\ Longest(p) < LockTtl
  /\ Rounds < TokenTtl

\* The slots of a calm process leave no spares: the next one is as far away as there are
\* calls in front of it.
Behind(c) == {d \in Queue(ProcessOf[c]) : wait[d] > wait[c]}
LineInv ==
  calm /\ client = "kis" =>
    /\ \A c \in Callers :
         pc[c] \in Slots => Limiter(c) <= wait[c] + Interval * (1 + Cardinality(Behind(c)))
    /\ \A p \in Processes : next[p] <= Interval * (1 + Cardinality(Queue(p)))

\* Who has the lock has the token before the lock expires, and before those who wait give
\* up on it; and they see it, for it lives longer than they wait.
Issues(c) == pc[c] \in {"issue", "issuing", "save"}
Holds(c) == Issues(c) \/ pc[c] \in {"recheck", "unlock"}
Due(c) == IF pc[c] = "issue" THEN wait[c] + Latency
          ELSE IF pc[c] = "issuing" THEN Latency - wait[c] ELSE 0
Awaited(c) ==
  \/ cache > wait[c]
  \/ \E h \in Callers : \/ Issues(h) /\ Due(h) < wait[c]
                        \/ pc[h] = "recheck" /\ wait[c] = Rounds
Holding ==
  /\ \A c \in Callers : c \in got <=> Holds(c)
  /\ lock > 0 <=> got # {}
  /\ \A c, d \in got : c = d
Timely(c) ==
  /\ pc[c] \in {"token", "lock", "recheck", "save", "unlock"} => wait[c] = 0
  /\ pc[c] \in {"lock", "recheck"} => cache \in {0, TokenTtl}
  /\ pc[c] = "unlock" => cache = TokenTtl
  /\ pc[c] = "recheck" => lock = LockTtl
  /\ pc[c] = "issuing" => wait[c] <= Latency
  /\ Issues(c) => Due(c) < lock /\ Due(c) < Rounds
  /\ pc[c] = "poll" => wait[c] <= Rounds /\ Awaited(c)
FlightInv == Holding /\ \A c \in Callers : Timely(c)
CalmInv == LineInv /\ (calm => FlightInv)

\* A step that neither takes nor gives back a slot.
LEMMA LineStays ==
  ASSUME LineInv, UNCHANGED <<client, calm, next>>,
         \A d \in Callers : /\ pc'[d] \in Slots <=> pc[d] \in Slots
                            /\ pc[d] \in Slots => wait'[d] = wait[d]
  PROVE  LineInv'
<1>1. \A p \in Processes : Queue(p)' = Queue(p)
  BY DEF Queue
<1>2. \A c \in Callers : pc[c] \in Slots => Behind(c)' = Behind(c)
  BY DEF Queue, Behind
<1>. QED BY <1>1, <1>2 DEF LineInv, Limiter

\* A call takes the next slot.
LEMMA JoinsLine ==
  ASSUME ClientConstants, Prompt, IInv, LineInv, NEW c \in Callers, pc[c] \notin Slots,
         NEW step \in Slots, Reserve(c, step), UNCHANGED <<client, calm>>
  PROVE  LineInv'
<1>. SUFFICES ASSUME calm, client = "kis" PROVE LineInv'
  BY DEF LineInv
<1>. DEFINE p == ProcessOf[c]
<1>types. /\ pc \in [Callers -> Steps] /\ wait \in [Callers -> Nat] /\ next \in [Processes -> Nat]
          /\ Interval \in Nat /\ \A d \in Callers : ProcessOf[d] \in Processes
          /\ Slots \subseteq Steps
  BY DEF ClientConstants, IInv, ClientTypes, Steps
<1>1. /\ pc' = [pc EXCEPT ![c] = step] /\ wait' = [wait EXCEPT ![c] = next[p]]
      /\ next' = [next EXCEPT ![p] = @ + Interval]
  BY DEF Reserve, Goto, Limiter
<1>2. \A q \in Processes : Queue(q)' = IF q = p THEN Queue(q) \cup {c} ELSE Queue(q)
  BY <1>1, <1>types DEF Queue
<1>3. \A q \in Processes : Queue(q) \in SUBSET Callers /\ c \notin Queue(q)
  BY DEF Queue
<1>4. ASSUME NEW q \in Processes PROVE next'[q] <= Interval * (1 + Cardinality(Queue(q)'))
  <2>1. next[q] <= Interval * (1 + Cardinality(Queue(q))) /\ Cardinality(Queue(q)) \in Nat
    BY <1>3, Sizes DEF LineInv
  <2>2. CASE q # p
    BY <2>1, <2>2, <1>1, <1>2, <1>types
  <2>3. CASE q = p
    <3>1. Cardinality(Queue(q)') = Cardinality(Queue(q)) + 1
      BY <2>3, <1>2, <1>3, OneMore
    <3>2. next'[q] = next[q] + Interval
      BY <2>3, <1>1, <1>types
    <3>3. /\ Interval * (1 + (Cardinality(Queue(q)) + 1)) = Interval * (1 + Cardinality(Queue(q))) + Interval
          /\ Interval * (1 + Cardinality(Queue(q))) \in Nat
      BY <2>1, <1>types, Slotted
    <3>. QED BY <2>1, <3>1, <3>2, <3>3, <1>types
  <2>. QED BY <2>2, <2>3
<1>5. ASSUME NEW d \in Callers, pc'[d] \in Slots
      PROVE  next'[ProcessOf[d]] <= wait'[d] + Interval * (1 + Cardinality(Behind(d)'))
  <2>0. Behind(d)' \in SUBSET Callers /\ Behind(d) \in SUBSET Callers /\ c \notin Behind(d)
    BY DEF Behind, Queue
  <2>1. Cardinality(Behind(d)') \in Nat /\ Cardinality(Behind(d)) \in Nat
    BY <2>0, Sizes
  <2>2. CASE d = c
    <3>1. next'[p] = next[p] + Interval /\ wait'[d] = next[p]
      BY <2>2, <1>1, <1>types
    <3>2. Interval * 1 <= Interval * (1 + Cardinality(Behind(d)'))
      BY <2>1, <1>types, Slotted
    <3>3. Interval * (1 + Cardinality(Behind(d)')) \in Nat
      BY <2>1, <1>types, Slotted
    <3>. QED BY <3>1, <3>2, <3>3, <2>2, <1>types
  <2>3. CASE d # c
    <3>1. /\ pc[d] \in Slots /\ wait'[d] = wait[d] /\ wait[d] \in Nat
          /\ next[ProcessOf[d]] <= wait[d] + Interval * (1 + Cardinality(Behind(d)))
      BY <2>3, <1>5, <1>1, <1>types DEF LineInv, Limiter
    <3>2. CASE ProcessOf[d] # p
      <4>1. Behind(d)' = Behind(d)
        BY <3>1, <3>2, <1>1, <1>types DEF Behind, Queue
      <4>. QED BY <3>1, <3>2, <4>1, <1>1, <1>types
    <3>3. CASE ProcessOf[d] = p /\ Interval = 0
      <4>1. 0 * (1 + Cardinality(Behind(d))) = 0 /\ 0 * (1 + Cardinality(Behind(d)')) = 0
        BY <2>1, Slotted
      <4>. QED BY <3>1, <3>3, <4>1, <1>1, <1>types
    <3>4. CASE ProcessOf[d] = p /\ Interval > 0
      <4>1. wait[d] + Interval <= next[p]
        BY <3>1, <3>4 DEF IInv, SlotInv, Limiter
      <4>2. wait'[c] > wait[d] /\ wait'[c] = next[p]
        BY <4>1, <3>1, <3>4, <1>1, <1>types
      <4>3. Behind(d)' = Behind(d) \cup {c}
        <5>1. Queue(p)' = Queue(p) \cup {c}
          BY <1>2, <1>types
        <5>2. \A e \in Queue(p) : e # c /\ wait'[e] = wait[e]
          BY <1>1, <1>types DEF Queue
        <5>. QED BY <5>1, <5>2, <4>2, <3>1, <3>4 DEF Behind
      <4>4. Cardinality(Behind(d)') = Cardinality(Behind(d)) + 1
        BY <4>3, <2>0, OneMore
      <4>5. /\ Interval * (1 + (Cardinality(Behind(d)) + 1)) = Interval * (1 + Cardinality(Behind(d))) + Interval
            /\ Interval * (1 + Cardinality(Behind(d))) \in Nat
        BY <2>1, <1>types, Slotted
      <4>6. next'[p] = next[p] + Interval
        BY <1>1, <1>types
      <4>. QED BY <3>1, <3>4, <4>4, <4>5, <4>6, <1>types
    <3>. QED BY <3>2, <3>3, <3>4, <1>types
  <2>. QED BY <2>2, <2>3
<1>. QED BY <1>4, <1>5 DEF LineInv, Limiter

\* The first call of the queue sends its request.
LEMMA LeavesLine ==
  ASSUME ClientConstants, Prompt, IInv, LineInv, NEW c \in Callers, Send(c) PROVE LineInv'
<1>. SUFFICES ASSUME calm, client = "kis" PROVE LineInv'
  BY DEF LineInv, Send, fixedVars
<1>. DEFINE p == ProcessOf[c]
<1>types. /\ pc \in [Callers -> Steps] /\ wait \in [Callers -> Nat] /\ next \in [Processes -> Nat]
          /\ Interval \in Nat /\ \A d \in Callers : ProcessOf[d] \in Processes
  BY DEF ClientConstants, IInv, ClientTypes
<1>1. /\ pc[c] \in Slots /\ wait[c] = 0 /\ pc'[c] \notin Slots
      /\ \A d \in Callers \ {c} : pc'[d] = pc[d] /\ wait'[d] = wait[d]
      /\ UNCHANGED <<next, client, calm>>
  BY <1>types DEF Send, Goto, Out, Slots, Sent, fixedVars
<1>2. \A q \in Processes : Queue(q)' = Queue(q) \ {c}
  BY <1>1 DEF Queue
<1>3. \A d \in Callers \ {c} : pc[d] \in Slots => Behind(d)' = Behind(d)
  <2>. SUFFICES ASSUME NEW d \in Callers \ {c}, pc[d] \in Slots PROVE Behind(d)' = Behind(d)
    OBVIOUS
  <2>1. Queue(ProcessOf[d])' = Queue(ProcessOf[d]) \ {c}
    BY <1>2, <1>types
  <2>2. ~(wait[c] > wait[d]) /\ wait'[d] = wait[d]
    BY <1>1, <1>types
  <2>3. \A e \in Queue(ProcessOf[d]) \ {c} : wait'[e] = wait[e]
    BY <1>1 DEF Queue
  <2>. QED BY <2>1, <2>2, <2>3 DEF Behind
<1>4. \A d \in Callers : pc'[d] \in Slots =>
        next'[ProcessOf[d]] <= wait'[d] + Interval * (1 + Cardinality(Behind(d)'))
  BY <1>1, <1>3 DEF LineInv, Limiter
<1>5. ASSUME NEW q \in Processes PROVE next'[q] <= Interval * (1 + Cardinality(Queue(q)'))
  <2>1. CASE q # p
    <3>1. Queue(q)' = Queue(q)
      BY <2>1, <1>2 DEF Queue
    <3>. QED BY <3>1, <1>1 DEF LineInv
  <2>2. CASE q = p
    <3>1. next[p] <= 0 + Interval * (1 + Cardinality(Behind(c)))
      BY <1>1 DEF LineInv, Limiter
    <3>2. Behind(c) \subseteq Queue(q)' /\ Queue(q)' \subseteq Callers
      BY <2>2, <1>2, <1>types DEF Behind, Queue
    <3>3. /\ Cardinality(Behind(c)) \in Nat /\ Cardinality(Queue(q)') \in Nat
          /\ Cardinality(Behind(c)) <= Cardinality(Queue(q)')
      BY <3>2, Sizes
    <3>4. /\ Interval * (1 + Cardinality(Behind(c))) <= Interval * (1 + Cardinality(Queue(q)'))
          /\ Interval * (1 + Cardinality(Behind(c))) \in Nat
          /\ Interval * (1 + Cardinality(Queue(q)')) \in Nat
      BY <3>3, <1>types, Slotted
    <3>. QED BY <3>1, <3>4, <2>2, <1>1, <1>types
  <2>. QED BY <2>1, <2>2
<1>. QED BY <1>4, <1>5 DEF LineInv, Limiter

\* The queue moves on.
LEMMA LineMoves ==
  ASSUME ClientConstants, Prompt, IInv, LineInv, Tick PROVE LineInv'
<1>. SUFFICES ASSUME calm, client = "kis" PROVE LineInv'
  BY DEF LineInv, Tick, fixedVars
<1>types. /\ wait \in [Callers -> Nat] /\ next \in [Processes -> Nat]
          /\ Interval \in Nat /\ \A d \in Callers : ProcessOf[d] \in Processes
  BY DEF ClientConstants, IInv, ClientTypes
<1>1. \A c \in Callers : pc[c] \in Slots => wait[c] > 0 /\ wait'[c] = wait[c] - 1
  BY DEF ClientConstants, IInv, ClientTypes, Tick, OnTime, Asleep, Flying, Slots, Sent, Ended
<1>2. pc' = pc /\ \A p \in Processes : next'[p] = IF next[p] > 0 THEN next[p] - 1 ELSE 0
  BY DEF Tick, Less
<1>3. \A p \in Processes : Queue(p)' = Queue(p)
  BY <1>2 DEF Queue
<1>4. \A c \in Callers : pc[c] \in Slots => Behind(c)' = Behind(c)
  <2>. SUFFICES ASSUME NEW c \in Callers, pc[c] \in Slots PROVE Behind(c)' = Behind(c)
    OBVIOUS
  <2>1. \A d \in Queue(ProcessOf[c]) : wait'[d] = wait[d] - 1 /\ wait[d] \in Nat
    BY <1>1, <1>types DEF Queue
  <2>2. wait'[c] = wait[c] - 1 /\ wait[c] \in Nat
    BY <1>1, <1>types
  <2>. QED BY <2>1, <2>2, <1>3, <1>types DEF Behind
<1>5. ASSUME NEW c \in Callers, pc[c] \in Slots
      PROVE  next'[ProcessOf[c]] <= wait'[c] + Interval * (1 + Cardinality(Behind(c)'))
  <2>1. /\ next[ProcessOf[c]] <= wait[c] + Interval * (1 + Cardinality(Behind(c)))
        /\ wait[c] + Interval <= next[ProcessOf[c]]
    BY <1>5 DEF LineInv, IInv, SlotInv, Limiter
  <2>2. Interval * (1 + Cardinality(Behind(c))) \in Nat
    <3>1. Behind(c) \in SUBSET Callers
      BY DEF Behind, Queue
    <3>2. Cardinality(Behind(c)) \in Nat
      BY <3>1, Sizes
    <3>. QED BY <3>2, <1>types, Slotted
  <2>. QED BY <2>1, <2>2, <1>1, <1>2, <1>4, <1>5, <1>types
<1>6. \A p \in Processes : next'[p] <= next[p] /\ next'[p] \in Nat
  BY <1>2, <1>types
<1>7. ASSUME NEW p \in Processes PROVE next'[p] <= Interval * (1 + Cardinality(Queue(p)'))
  <2>1. Interval * (1 + Cardinality(Queue(p))) \in Nat
    <3>1. Queue(p) \in SUBSET Callers
      BY DEF Queue
    <3>2. Cardinality(Queue(p)) \in Nat
      BY <3>1, Sizes
    <3>. QED BY <3>2, <1>types, Slotted
  <2>. QED BY <2>1, <1>3, <1>6, <1>types DEF LineInv
<1>. QED BY <1>2, <1>5, <1>7 DEF LineInv, Limiter

\* Who waits for a slot waits no longer than the calls of its process take.
LEMMA SlotInTime ==
  ASSUME ClientConstants, Prompt, IInv, LineInv, calm, client = "kis",
         NEW c \in Callers, pc[c] \notin Slots
  PROVE  /\ Limiter(c) \in Nat
         /\ Limiter(c) + Latency < Rounds /\ Limiter(c) + Latency < LockTtl
<1>. DEFINE p == ProcessOf[c]
<1>1. p \in Processes /\ next[p] \in Nat /\ {Interval, Latency, Rounds, LockTtl} \subseteq Nat
  BY DEF ClientConstants, IInv, ClientTypes
<1>2. next[p] <= Interval * (1 + Cardinality(Queue(p)))
  BY <1>1 DEF LineInv
<1>3. Queue(p) \cup {c} \in SUBSET Calling(p) /\ Calling(p) \in SUBSET Callers
      /\ Queue(p) \in SUBSET Callers /\ c \in Callers \ Queue(p)
  BY DEF Queue, Calling
<1>4. /\ Cardinality(Queue(p) \cup {c}) = Cardinality(Queue(p)) + 1
      /\ Cardinality(Queue(p) \cup {c}) <= Cardinality(Calling(p))
      /\ Cardinality(Queue(p)) \in Nat /\ Cardinality(Calling(p)) \in Nat
  BY <1>3, OneMore, Sizes
<1>5. /\ Interval * (1 + Cardinality(Queue(p))) <= Interval * Cardinality(Calling(p))
      /\ Interval * (1 + Cardinality(Queue(p))) \in Nat /\ Interval * Cardinality(Calling(p)) \in Nat
  BY <1>1, <1>4, Slotted
<1>. QED BY <1>1, <1>2, <1>5 DEF Limiter, Prompt, Longest

\* Waiting for a token is worth it in any case.
LEMMA Positive ==
  ASSUME ClientConstants, Prompt, NEW c \in Callers
  PROVE  Latency < Rounds /\ Latency < LockTtl /\ Rounds > 0 /\ LockTtl > 0 /\ TokenTtl > Rounds
<1>1. ProcessOf[c] \in Processes /\ {Interval, Latency, Rounds, LockTtl, TokenTtl} \subseteq Nat
  BY DEF ClientConstants
<1>2. Calling(ProcessOf[c]) \in SUBSET Callers
  BY DEF Calling
<1>3. Cardinality(Calling(ProcessOf[c])) \in Nat
  BY <1>2, Sizes
<1>4. Interval * Cardinality(Calling(ProcessOf[c])) \in Nat
  BY <1>1, <1>3, Slotted
<1>. QED BY <1>1, <1>4 DEF Prompt, Longest

\* A step of a call that has nothing to do with the lock: the others wait as before.
LEMMA Bystander ==
  ASSUME IInv, FlightInv, NEW c \in Callers, ~Holds(c), NEW step \in Steps, NEW ticks \in Nat,
         Goto(c, step, ticks), UNCHANGED <<cache, lock, got>>,
         step \notin {"recheck", "unlock", "issue", "issuing", "save"},
         step \in {"token", "lock"} => ticks = 0,
         step = "lock" => cache \in {0, TokenTtl},
         step = "poll" =>
           /\ ticks = Rounds
           /\ \/ cache > Rounds
              \/ \E h \in Callers : (Issues(h) /\ Due(h) < Rounds) \/ pc[h] = "recheck"
  PROVE  FlightInv'
<1>types. pc \in [Callers -> Steps] /\ wait \in [Callers -> Nat]
  BY DEF IInv, ClientTypes
<1>1. /\ pc'[c] = step /\ wait'[c] = ticks
      /\ \A d \in Callers \ {c} : pc'[d] = pc[d] /\ wait'[d] = wait[d]
  BY <1>types DEF Goto
<1>2. \A h \in Callers : Holds(h)' <=> Holds(h)
  BY <1>1 DEF Holds, Issues
<1>3. \A h \in Callers : Issues(h) => h # c /\ Issues(h)' /\ Due(h)' = Due(h)
  BY <1>1 DEF Holds, Issues, Due
<1>4. \A h \in Callers : pc[h] = "recheck" => h # c /\ pc'[h] = "recheck"
  BY <1>1 DEF Holds
<1>5. Holding'
  BY <1>2 DEF FlightInv, Holding
<1>6. ASSUME NEW d \in Callers \ {c} PROVE Timely(d)'
  <2>1. Timely(d) /\ pc'[d] = pc[d] /\ wait'[d] = wait[d]
    BY <1>1 DEF FlightInv
  <2>2. Issues(d)' => Issues(d) /\ Due(d)' = Due(d)
    BY <2>1 DEF Issues, Due
  <2>3. Awaited(d) => Awaited(d)'
    BY <2>1, <1>3, <1>4 DEF Awaited
  <2>. QED BY <2>1, <2>2, <2>3 DEF Timely
<1>7. Timely(c)'
  <2>1. step = "poll" => Awaited(c)'
    BY <1>1, <1>3, <1>4 DEF Awaited
  <2>. QED BY <2>1, <1>1 DEF Timely, Issues
<1>. QED BY <1>5, <1>6, <1>7 DEF FlightInv

\* A step of the call that has the lock: nobody else has it, and those who wait see the
\* token or still wait for this call.
LEMMA HolderGoes ==
  ASSUME ClientConstants, IInv, FlightInv, NEW c \in Callers, Holds(c), NEW step \in Steps, NEW ticks \in Nat,
         Goto(c, step, ticks), UNCHANGED <<lock, got>>,
         step \in {"unlock", "issue", "issuing", "save"},
         cache' = cache \/ cache' = TokenTtl,
         step \in {"save", "unlock"} => ticks = 0,
         step = "unlock" => cache' = TokenTtl,
         step = "issuing" => ticks <= Latency,
         step \in {"issue", "issuing", "save"} => Due(c)' < lock /\ Due(c)' < Rounds,
         TokenTtl > Rounds, Rounds \in Nat,
         pc[c] = "recheck" \/ (Issues(c) /\ (step = "unlock" \/ Due(c)' <= Due(c))),
         Due(c) \in Int, Due(c)' \in Int
  PROVE  FlightInv'
<1>types. /\ pc \in [Callers -> Steps] /\ wait \in [Callers -> Nat] /\ got \subseteq Callers
          /\ {cache, TokenTtl} \subseteq Int
  BY DEF ClientConstants, IInv, ClientTypes
<1>1. /\ pc'[c] = step /\ wait'[c] = ticks
      /\ \A d \in Callers \ {c} : pc'[d] = pc[d] /\ wait'[d] = wait[d]
  BY <1>types DEF Goto
<1>2. \A h \in Callers : Holds(h)' <=> Holds(h)
  BY <1>1 DEF Holds, Issues
<1>3. \A d \in Callers \ {c} : ~Holds(d)
  BY DEF FlightInv, Holding
<1>4. Holding'
  BY <1>2 DEF FlightInv, Holding
<1>5. ASSUME NEW d \in Callers \ {c} PROVE Timely(d)'
  <2>1. Timely(d) /\ pc'[d] = pc[d] /\ wait'[d] = wait[d] /\ ~Holds(d)
    BY <1>1, <1>3 DEF FlightInv
  <2>2. ASSUME pc[d] = "poll" PROVE Awaited(d)'
    <3>1. Awaited(d) /\ wait[d] <= Rounds /\ wait[d] \in Nat
      BY <2>1, <2>2, <1>types DEF Timely
    <3>2. CASE cache' = TokenTtl
      BY <3>1, <3>2, <2>1, <1>types DEF Awaited
    <3>3. CASE cache' = cache /\ cache > wait[d]
      BY <3>3, <2>1 DEF Awaited
    <3>4. CASE cache' = cache /\ cache' # TokenTtl /\ ~(cache > wait[d])
      <4>1. (Issues(c) /\ Due(c) < wait[d]) \/ (pc[c] = "recheck" /\ wait[d] = Rounds)
        BY <3>1, <3>4, <1>3 DEF Awaited, Holds
      <4>2. step # "unlock" /\ Issues(c)'
        BY <3>4, <1>1 DEF Issues
      <4>3. pc[c] = "recheck" => ~Issues(c)
        BY DEF Issues
      <4>4. Due(c)' < wait[d]
        BY <4>1, <4>2, <4>3, <3>1, <1>1
      <4>. QED BY <4>2, <4>4, <2>1 DEF Awaited
    <3>. QED BY <3>2, <3>3, <3>4
  <2>3. pc[d] \in {"lock", "recheck"} => cache' \in {0, TokenTtl}
    BY <2>1 DEF Timely
  <2>. QED BY <2>1, <2>2, <2>3 DEF Timely, Holds, Issues
<1>6. Timely(c)'
  <2>1. /\ pc'[c] \in {"unlock", "issue", "issuing", "save"}
        /\ pc'[c] \in {"save", "unlock"} => wait'[c] = 0
        /\ pc'[c] = "unlock" => cache' = TokenTtl
        /\ pc'[c] = "issuing" => wait'[c] <= Latency
    BY <1>1
  <2>2. Issues(c)' => Due(c)' < lock' /\ Due(c)' < Rounds
    BY <1>1 DEF Issues
  <2>. QED BY <2>1, <2>2 DEF Timely
<1>. QED BY <1>4, <1>5, <1>6 DEF FlightInv

\* The lock is free, so nobody is at it, and those who wait have a token that lasts.
LEMMA TakesLock ==
  ASSUME ClientConstants, Prompt, IInv, FlightInv, NEW c \in Callers, TakeLock(c), lock = 0
  PROVE  FlightInv'
<1>types. pc \in [Callers -> Steps] /\ wait \in [Callers -> Nat] /\ got \subseteq Callers
  BY DEF IInv, ClientTypes
<1>1. /\ pc[c] = "lock" /\ pc'[c] = "recheck" /\ wait'[c] = 0
      /\ \A d \in Callers \ {c} : pc'[d] = pc[d] /\ wait'[d] = wait[d]
      /\ lock' = LockTtl /\ got' = got \cup {c} /\ cache' = cache
  BY <1>types DEF TakeLock, Goto, At
<1>2. got = {} /\ \A d \in Callers : ~Holds(d)
  BY DEF FlightInv, Holding
<1>3. LockTtl > 0
  BY Positive
<1>4. Holding'
  <2>1. \A d \in Callers : Holds(d)' <=> d = c
    BY <1>1, <1>2 DEF Holds, Issues
  <2>. QED BY <2>1, <1>1, <1>2, <1>3 DEF Holding
<1>5. ASSUME NEW d \in Callers \ {c} PROVE Timely(d)'
  <2>1. Timely(d) /\ pc'[d] = pc[d] /\ wait'[d] = wait[d] /\ ~Holds(d)
    BY <1>1, <1>2 DEF FlightInv
  <2>2. Awaited(d) => Awaited(d)'
    BY <2>1, <1>1, <1>2 DEF Awaited, Holds
  <2>. QED BY <2>1, <2>2, <1>1 DEF Timely, Holds, Issues
<1>6. Timely(c)'
  BY <1>1 DEF Timely, Issues, FlightInv
<1>. QED BY <1>4, <1>5, <1>6 DEF FlightInv

\* The lock is given back with the token in the cache.
LEMMA GivesLockBack ==
  ASSUME ClientConstants, IInv, FlightInv, NEW c \in Callers, pc[c] = "unlock",
         NEW ticks \in Nat, Goto(c, "send", ticks), Unlocked(c), cache' = cache
  PROVE  FlightInv'
<1>types. pc \in [Callers -> Steps] /\ wait \in [Callers -> Nat] /\ got \subseteq Callers
  BY DEF IInv, ClientTypes
<1>1. /\ pc'[c] = "send" /\ wait'[c] = ticks
      /\ \A d \in Callers \ {c} : pc'[d] = pc[d] /\ wait'[d] = wait[d]
  BY <1>types DEF Goto, Steps, Slots
<1>2. c \in got /\ \A d \in Callers \ {c} : ~Holds(d)
  BY DEF FlightInv, Holding, Holds
<1>3. got' = {} /\ lock' = 0
  BY <1>2, <1>types DEF Unlocked, FlightInv, Holding
<1>4. Holding'
  <2>1. \A d \in Callers : ~Holds(d)'
    BY <1>1, <1>2 DEF Holds, Issues
  <2>. QED BY <2>1, <1>3 DEF Holding
<1>5. ASSUME NEW d \in Callers \ {c} PROVE Timely(d)'
  <2>1. Timely(d) /\ pc'[d] = pc[d] /\ wait'[d] = wait[d] /\ ~Holds(d)
    BY <1>1, <1>2 DEF FlightInv
  <2>2. Awaited(d) => Awaited(d)'
    BY <2>1, <1>2 DEF Awaited, Holds, Issues
  <2>. QED BY <2>1, <2>2 DEF Timely, Holds, Issues
<1>6. Timely(c)'
  BY <1>1 DEF Timely, Issues
<1>. QED BY <1>4, <1>5, <1>6 DEF FlightInv

\* Whoever waits for the token does not give up on it.
LEMMA NobodyGivesUp ==
  ASSUME ClientConstants, Prompt, IInv, FlightInv, NEW c \in Callers, pc[c] = "poll", wait[c] = 0
  PROVE  cache # 0
<1>1. Awaited(c) /\ Rounds > 0
  BY Positive DEF FlightInv, Timely
<1>2. ASSUME NEW h \in Callers, Issues(h) PROVE Due(h) \in Int /\ Due(h) >= 0
  BY <1>2 DEF ClientConstants, IInv, ClientTypes, FlightInv, Timely, Issues, Due
<1>. QED BY <1>1, <1>2 DEF Awaited

\* Every step of a call keeps the token single.
LEMMA StepFlies ==
  ASSUME ClientConstants, Prompt, IInv, CalmInv, NEW c \in Callers, Step(c) PROVE CalmInv'
<1>types. /\ pc \in [Callers -> Steps] /\ wait \in [Callers -> Nat] /\ next \in [Processes -> Nat]
          /\ {cache, lock, Interval, Latency, Rounds, LockTtl, TokenTtl} \subseteq Nat
          /\ ProcessOf[c] \in Processes /\ client \in {"kis", "toss"} /\ calm \in BOOLEAN
          /\ got \subseteq Callers
  BY DEF ClientConstants, IInv, ClientTypes
<1>steps. /\ Slots \subseteq Steps /\ Sent \subseteq Steps /\ Ended \subseteq Steps
          /\ {"token", "lock", "poll", "recheck", "save", "unlock", "backoff", "taken"} \subseteq Steps
          /\ Slots = {"hash", "issue", "send"} /\ Sent = {"hashing", "issuing", "sending"}
          /\ Ended = {"idle", "done", "failed"}
  BY DEF Steps, Slots, Sent, Ended
<1>fixed. UNCHANGED <<client, calm>>
  BY DEF Step, Call, Send, Signed, ReadCache, TakeLock, Poll, Recheck, Issued, Save, Unlock, Accept,
         Answered, Limited, BackedOff, Fails, Cancelled, fixedVars
<1>. SUFFICES ASSUME calm PROVE CalmInv'
  BY <1>fixed DEF CalmInv, LineInv
<1>flight. LineInv /\ FlightInv /\ Timely(c)
  BY DEF CalmInv, FlightInv
<1>positive. Latency < Rounds /\ Latency < LockTtl /\ Rounds > 0 /\ LockTtl > 0 /\ TokenTtl > Rounds
  BY Positive
\* What asking for a slot does, and how long it takes.
<1>slot. ASSUME NEW step \in Slots, Reserve(c, step), pc[c] \notin Slots
         PROVE  LineInv' /\ \E ticks \in Nat :
                   /\ Goto(c, step, ticks)
                   /\ ticks + Latency < Rounds /\ ticks + Latency < LockTtl
  <2>1. CASE client = "kis"
    <3>1. LineInv'
      BY <1>slot, <1>fixed, <1>flight, JoinsLine
    <3>2. Goto(c, step, Limiter(c))
      BY <1>slot, <2>1 DEF Reserve
    <3>3. /\ Limiter(c) \in Nat
          /\ Limiter(c) + Latency < Rounds /\ Limiter(c) + Latency < LockTtl
      BY <1>slot, <2>1, <1>flight, SlotInTime
    <3>. QED BY <3>1, <3>2, <3>3
  <2>2. CASE client # "kis"
    <3>1. LineInv'
      BY <2>2, <1>fixed DEF LineInv
    <3>2. Goto(c, step, 0)
      BY <1>slot, <2>2 DEF Reserve
    <3>. QED BY <3>1, <3>2, <1>positive, <1>types
  <2>. QED BY <2>1, <2>2
\* A step to another place than a slot, from another one.
<1>line. ASSUME NEW step \in Steps \ Slots, NEW ticks \in Nat, Goto(c, step, ticks),
                UNCHANGED next, pc[c] \notin Slots
         PROVE  LineInv'
  <2>1. \A d \in Callers : /\ pc'[d] \in Slots <=> pc[d] \in Slots
                           /\ pc[d] \in Slots => wait'[d] = wait[d]
    BY <1>line, <1>types DEF Goto
  <2>. QED BY <2>1, <1>line, <1>fixed, <1>flight, LineStays
<1>done. ASSUME LineInv', FlightInv' PROVE CalmInv'
  BY <1>done DEF CalmInv
\* A bystander that asks for a slot to sign or to send.
<1>asks. ASSUME NEW step \in {"hash", "send"}, Reserve(c, step), pc[c] \notin Slots, ~Holds(c),
                UNCHANGED <<cache, lock, got>>
         PROVE  CalmInv'
  <2>1. PICK ticks \in Nat : Goto(c, step, ticks)
    BY <1>asks, <1>slot, <1>steps
  <2>2. FlightInv'
    BY <2>1, <1>asks, <1>flight, <1>steps, Bystander
  <2>. QED BY <2>2, <1>asks, <1>slot, <1>steps, <1>done
\* A bystander that goes on.
<1>goes. ASSUME NEW step \in Steps \ Slots, NEW ticks \in Nat, Goto(c, step, ticks), UNCHANGED next,
                pc[c] \notin Slots, ~Holds(c), UNCHANGED <<cache, lock, got>>,
                step \notin {"recheck", "unlock", "issuing", "save", "poll"},
                step \in {"token", "lock"} => ticks = 0,
                step = "lock" => cache \in {0, TokenTtl}
         PROVE  CalmInv'
  <2>1. FlightInv'
    BY <1>goes, <1>flight, <1>steps, Bystander
  <2>. QED BY <2>1, <1>goes, <1>line, <1>done
<1>1. CASE Call(c)
  <2>0. pc[c] = "idle" /\ ~Holds(c) /\ pc[c] \notin Slots /\ UNCHANGED <<cache, lock, got>>
    BY <1>1, <1>steps DEF Call, Holds, Issues, tokenVars
  <2>1. CASE kind[c] = "order" /\ client = "kis"
    BY <2>0, <2>1, <1>1, <1>asks DEF Call
  <2>2. CASE ~(kind[c] = "order" /\ client = "kis")
    <3>1. Goto(c, "token", 0) /\ UNCHANGED next
      BY <2>2, <1>1 DEF Call
    <3>. QED BY <3>1, <2>0, <1>steps, <1>goes
  <2>. QED BY <2>1, <2>2
<1>2. CASE Send(c)
  <2>1. LineInv'
    BY <1>2, <1>flight, LeavesLine
  <2>2. /\ pc[c] \in Slots /\ wait[c] = 0 /\ Goto(c, Out[pc[c]], 0) /\ UNCHANGED <<cache, lock, got>>
    BY <1>2 DEF Send, tokenVars
  <2>3. CASE pc[c] = "issue"
    <3>1. Goto(c, "issuing", 0) /\ Issues(c) /\ Holds(c)
      BY <2>2, <2>3 DEF Out, Issues, Holds
    <3>2. Due(c) = Latency /\ Due(c)' = Latency
      BY <2>2, <2>3, <3>1, <1>types DEF Due, Goto
    <3>3. Due(c) < lock /\ Due(c) < Rounds
      BY <3>1, <1>flight DEF Timely
    <3>4. FlightInv'
      BY <3>1, <3>2, <3>3, <2>2, <1>flight, <1>steps, <1>types, <1>positive, HolderGoes
    <3>. QED BY <3>4, <2>1, <1>done
  <2>4. CASE pc[c] \in {"hash", "send"}
    <3>1. PICK step \in {"hashing", "sending"} : Goto(c, step, 0)
      BY <2>2, <2>4 DEF Out
    <3>2. ~Holds(c)
      BY <2>4 DEF Holds, Issues
    <3>3. FlightInv'
      BY <3>1, <3>2, <2>2, <1>flight, <1>steps, Bystander
    <3>. QED BY <3>3, <2>1, <1>done
  <2>. QED BY <2>2, <2>3, <2>4, <1>steps
<1>3. CASE Signed(c)
  <2>1. /\ pc[c] = "hashing" /\ Goto(c, "token", 0) /\ UNCHANGED <<cache, lock, got, next>>
        /\ ~Holds(c) /\ pc[c] \notin Slots
    BY <1>3, <1>steps DEF Signed, tokenVars, Holds, Issues
  <2>. QED BY <2>1, <1>steps, <1>goes
<1>4. CASE ReadCache(c)
  <2>0. pc[c] = "token" /\ ~Holds(c) /\ pc[c] \notin Slots /\ UNCHANGED <<cache, lock, got>>
    BY <1>4, <1>steps DEF ReadCache, At, Holds, Issues, tokenVars
  <2>1. CASE cache > 0
    BY <2>0, <2>1, <1>4, <1>asks DEF ReadCache
  <2>2. CASE ~(cache > 0)
    <3>1. Goto(c, "lock", 0) /\ UNCHANGED next /\ cache = 0
      BY <2>2, <1>4, <1>types DEF ReadCache
    <3>. QED BY <3>1, <2>0, <1>steps, <1>goes
  <2>. QED BY <2>1, <2>2
<1>5. CASE TakeLock(c)
  <2>0. pc[c] = "lock" /\ ~Holds(c) /\ pc[c] \notin Slots /\ UNCHANGED <<cache, next>>
    BY <1>5, <1>steps DEF TakeLock, At, Holds, Issues
  <2>1. CASE lock = 0
    <3>1. FlightInv'
      BY <1>5, <2>1, <1>flight, TakesLock
    <3>2. Goto(c, "recheck", 0)
      BY <1>5, <2>1 DEF TakeLock
    <3>. QED BY <3>1, <3>2, <2>0, <1>steps, <1>line, <1>done
  <2>2. CASE lock # 0
    <3>1. Goto(c, "poll", Rounds) /\ UNCHANGED <<lock, got>>
      BY <1>5, <2>2 DEF TakeLock
    <3>2. PICK h \in Callers : Holds(h) /\ Timely(h)
      <4>1. lock > 0
        BY <2>2, <1>types
      <4>. QED BY <4>1, <1>flight, <1>types DEF FlightInv, Holding
    <3>3. \/ cache > Rounds
          \/ (Issues(h) /\ Due(h) < Rounds) \/ pc[h] = "recheck"
      BY <3>2, <1>positive DEF Holds, Timely
    <3>4. FlightInv'
      BY <3>1, <3>3, <2>0, <1>flight, <1>steps, <1>types, Bystander
    <3>. QED BY <3>1, <3>4, <2>0, <1>types, <1>steps, <1>line, <1>done
  <2>. QED BY <2>1, <2>2
<1>6. CASE Poll(c)
  <2>0. pc[c] = "poll" /\ ~Holds(c) /\ pc[c] \notin Slots /\ UNCHANGED <<cache, lock, got>>
    BY <1>6, <1>steps DEF Poll, Holds, Issues, tokenVars
  <2>1. ~(cache = 0 /\ wait[c] = 0)
    BY <2>0, <1>flight, NobodyGivesUp
  <2>2. Reserve(c, "send")
    BY <2>1, <1>6 DEF Poll
  <2>. QED BY <2>0, <2>2, <1>asks
<1>7. CASE Recheck(c)
  <2>0. /\ pc[c] = "recheck" /\ Holds(c) /\ pc[c] \notin Slots /\ UNCHANGED <<cache, lock, got>>
        /\ cache \in {0, TokenTtl} /\ lock = LockTtl /\ wait[c] = 0
    BY <1>7, <1>flight, <1>steps DEF Recheck, At, Holds, tokenVars, Timely
  <2>due. Due(c) = 0
    BY <2>0 DEF Due
  <2>1. CASE cache > 0
    <3>1. Goto(c, "unlock", 0) /\ UNCHANGED next /\ cache' = TokenTtl
      BY <2>0, <2>1, <1>7 DEF Recheck
    <3>2. Due(c)' = 0
      BY <3>1, <1>types, <1>steps DEF Due, Goto
    <3>3. FlightInv'
      BY <3>1, <3>2, <2>0, <2>due, <1>flight, <1>steps, <1>types, <1>positive, HolderGoes
    <3>. QED BY <3>1, <3>3, <2>0, <1>steps, <1>line, <1>done
  <2>2. CASE ~(cache > 0)
    <3>1. Reserve(c, "issue")
      BY <2>2, <1>7 DEF Recheck
    <3>2. PICK ticks \in Nat : /\ Goto(c, "issue", ticks)
                               /\ ticks + Latency < Rounds /\ ticks + Latency < LockTtl
      BY <3>1, <2>0, <1>slot, <1>steps
    <3>3. Due(c)' = ticks + Latency
      BY <3>2, <1>types, <1>steps DEF Due, Goto
    <3>4. FlightInv'
      BY <3>2, <3>3, <2>0, <2>due, <1>flight, <1>steps, <1>types, <1>positive, HolderGoes
    <3>. QED BY <3>1, <3>4, <2>0, <1>slot, <1>steps, <1>done
  <2>. QED BY <2>1, <2>2
<1>8. CASE Issued(c)
  <2>0. /\ pc[c] = "issuing" /\ Issues(c) /\ Holds(c) /\ pc[c] \notin Slots
        /\ Goto(c, "save", 0) /\ UNCHANGED <<cache, lock, got, next>>
    BY <1>8, <1>steps DEF Issued, Holds, Issues, tokenVars
  <2>1. /\ Due(c) = Latency - wait[c] /\ wait[c] <= Latency /\ Due(c)' = 0
        /\ Due(c) < lock /\ Due(c) < Rounds /\ wait[c] \in Nat
    BY <2>0, <1>flight, <1>types, <1>steps DEF Due, Goto, Timely
  <2>2. FlightInv'
    BY <2>0, <2>1, <1>flight, <1>steps, <1>types, <1>positive, HolderGoes
  <2>. QED BY <2>0, <2>2, <1>steps, <1>line, <1>done
<1>9. CASE Save(c)
  <2>0. /\ pc[c] = "save" /\ Issues(c) /\ Holds(c) /\ pc[c] \notin Slots
        /\ Goto(c, "unlock", 0) /\ cache' = TokenTtl /\ UNCHANGED <<lock, got, next>>
    BY <1>9, <1>steps DEF Save, At, Holds, Issues
  <2>1. Due(c) = 0 /\ Due(c)' = 0
    BY <2>0, <1>types, <1>steps DEF Due, Goto
  <2>2. FlightInv'
    BY <2>0, <2>1, <1>flight, <1>steps, <1>types, <1>positive, HolderGoes
  <2>. QED BY <2>0, <2>2, <1>steps, <1>line, <1>done
<1>10. CASE Unlock(c)
  <2>0. pc[c] = "unlock" /\ pc[c] \notin Slots /\ Unlocked(c) /\ Reserve(c, "send") /\ cache' = cache
    BY <1>10, <1>steps DEF Unlock, At
  <2>1. LineInv' /\ \E ticks \in Nat : Goto(c, "send", ticks)
    BY <2>0, <1>slot, <1>steps
  <2>2. FlightInv'
    BY <2>0, <2>1, <1>flight, GivesLockBack
  <2>. QED BY <2>1, <2>2, <1>done
<1>11. CASE Accept(c)
  <2>1. /\ pc[c] = "sending" /\ ~Holds(c) /\ pc[c] \notin Slots /\ UNCHANGED <<cache, lock, got, next>>
        /\ Goto(c, "taken", wait[c])
    BY <1>11, <1>steps, <1>types DEF Accept, Holds, Issues, tokenVars, Goto
  <2>. QED BY <2>1, <1>steps, <1>types, <1>goes
<1>12. CASE Answered(c)
  <2>1. /\ pc[c] = "taken" /\ Goto(c, "done", 0) /\ UNCHANGED <<cache, lock, got, next>>
        /\ ~Holds(c) /\ pc[c] \notin Slots
    BY <1>12, <1>steps DEF Answered, tokenVars, Holds, Issues
  <2>. QED BY <2>1, <1>steps, <1>goes
<1>13. CASE Limited(c) \/ Fails(c) \/ Cancelled(c)
  BY <1>13 DEF Limited, Fails, Cancelled, Fault
<1>14. CASE BackedOff(c)
  <2>0. pc[c] = "backoff" /\ ~Holds(c) /\ pc[c] \notin Slots /\ UNCHANGED <<cache, lock, got>>
    BY <1>14, <1>steps DEF BackedOff, At, Holds, Issues, tokenVars
  <2>1. CASE client = "kis"
    BY <2>0, <2>1, <1>14, <1>asks DEF BackedOff
  <2>2. CASE client # "kis"
    <3>1. Goto(c, "token", 0) /\ UNCHANGED next
      BY <2>2, <1>14 DEF BackedOff
    <3>. QED BY <3>1, <2>0, <1>steps, <1>goes
  <2>. QED BY <2>1, <2>2
<1>. QED
  BY <1>1, <1>2, <1>3, <1>4, <1>5, <1>6, <1>7, <1>8, <1>9, <1>10, <1>11, <1>12, <1>13, <1>14 DEF Step

\* Time brings the token nearer to all who wait for it, and the end of the lock.
LEMMA TickFlies ==
  ASSUME ClientConstants, Prompt, IInv, CalmInv, Tick PROVE CalmInv'
<1>1. LineInv' /\ calm' = calm
  BY LineMoves DEF CalmInv, Tick, fixedVars
<1>. SUFFICES ASSUME calm PROVE FlightInv'
  BY <1>1 DEF CalmInv
<1>types. /\ wait \in [Callers -> Nat] /\ {cache, lock, Latency, Rounds} \subseteq Nat
          /\ got \subseteq Callers
  BY DEF ClientConstants, IInv, ClientTypes
<1>2. /\ pc' = pc /\ got' = got
      /\ cache' = (IF cache > 0 THEN cache - 1 ELSE 0) /\ lock' = (IF lock > 0 THEN lock - 1 ELSE 0)
  BY DEF Tick, Less
<1>3. \A c \in Callers : pc[c] \notin {"token", "lock", "recheck", "save", "unlock"}
  BY DEF CalmInv, FlightInv, Timely, Tick, OnTime, Asleep, Flying, Sent, Ended
<1>4. \A c \in Callers : pc[c] \in {"issue", "poll"} => wait[c] > 0 /\ wait'[c] = wait[c] - 1
  BY DEF Tick, OnTime, Asleep, Flying, Sent, Ended
<1>5. \A c \in Callers : pc[c] = "issuing" => wait[c] < Latency /\ wait'[c] = wait[c] + 1
  BY DEF Tick, OnTime, Asleep, Flying, Sent, Ended
<1>6. \A c \in Callers : Issues(c) => Issues(c)' /\ Due(c) > 0 /\ Due(c)' = Due(c) - 1 /\ Due(c) \in Int
  BY <1>2, <1>3, <1>4, <1>5, <1>types DEF Issues, Due
<1>7. \A c \in Callers : Timely(c)
  BY DEF CalmInv, FlightInv
<1>8. Holding'
  <2>1. \A c \in Callers : Holds(c)' <=> Holds(c)
    BY <1>2 DEF Holds, Issues
  <2>2. Holding
    BY DEF CalmInv, FlightInv
  <2>3. got # {} => lock > 1
    <3>. SUFFICES ASSUME got # {} PROVE lock > 1
      OBVIOUS
    <3>1. PICK h \in Callers : Holds(h)
      BY <2>2, <1>types DEF Holding
    <3>2. Issues(h)
      BY <3>1, <1>3 DEF Holds
    <3>. QED BY <3>2, <1>6, <1>7, <1>types DEF Timely
  <2>. QED BY <2>1, <2>2, <2>3, <1>2, <1>types DEF Holding
<1>9. ASSUME NEW c \in Callers PROVE Timely(c)'
  <2>1. Issues(c)' => Due(c)' < lock' /\ Due(c)' < Rounds
    <3>1. Issues(c)' => Issues(c)
      BY <1>2 DEF Issues
    <3>. QED BY <3>1, <1>2, <1>6, <1>7, <1>types DEF Timely
  <2>2. ASSUME pc[c] = "poll" PROVE wait'[c] <= Rounds /\ Awaited(c)'
    <3>1. wait[c] <= Rounds /\ Awaited(c) /\ wait'[c] = wait[c] - 1 /\ wait[c] > 0 /\ wait[c] \in Nat
      BY <2>2, <1>4, <1>7, <1>types DEF Timely
    <3>2. CASE cache > wait[c]
      BY <3>1, <3>2, <1>2, <1>types DEF Awaited
    <3>3. ASSUME NEW h \in Callers, Issues(h), Due(h) < wait[c] PROVE Awaited(c)'
      <4>1. Issues(h)' /\ Due(h)' < wait'[c]
        BY <3>3, <3>1, <1>6
      <4>. QED BY <4>1 DEF Awaited
    <3>. QED BY <3>1, <3>2, <3>3, <1>3, <1>types DEF Awaited
  <2>3. pc'[c] = pc[c] /\ pc[c] \notin {"token", "lock", "recheck", "save", "unlock"}
    BY <1>2, <1>3
  <2>4. pc[c] = "issuing" => wait'[c] <= Latency
    BY <1>5, <1>types
  <2>. QED BY <2>1, <2>2, <2>3, <2>4 DEF Timely
<1>. QED BY <1>8, <1>9 DEF FlightInv

\* Nobody calls at the start.
LEMMA CalmStart == ASSUME ClientConstants, Prompt, Init PROVE CalmInv
<1>1. \A p \in Processes : Interval * (1 + Cardinality(Queue(p))) \in Nat
  <2>. SUFFICES ASSUME NEW p \in Processes PROVE Interval * (1 + Cardinality(Queue(p))) \in Nat
    OBVIOUS
  <2>1. Queue(p) \in SUBSET Callers
    BY DEF Queue
  <2>2. Cardinality(Queue(p)) \in Nat
    BY <2>1, Sizes
  <2>. QED BY <2>2, Slotted DEF ClientConstants
<1>2. LineInv
  BY <1>1 DEF Init, LineInv, Slots
<1>3. FlightInv
  BY DEF Init, FlightInv, Holding, Timely, Holds, Issues
<1>. QED BY <1>2, <1>3 DEF CalmInv

\* While the broker answers fast and no process stops, one call at a time issues a token,
\* for any number of calls and processes, as long as the calls of each process are few
\* enough for those who wait to outlast them (client.py:144).
THEOREM OneToken == ASSUME ClientConstants, Prompt PROVE Spec => []SingleFlight
<1>1. ASSUME IInv, CalmInv, [Next]_vars PROVE CalmInv'
  <2>1. ASSUME NEW p \in Processes, Crash(p) PROVE CalmInv'
    BY <2>1 DEF Crash, Fault, fixedVars, CalmInv, LineInv
  <2>2. CASE UNCHANGED vars
    <3>1. UNCHANGED <<client, calm, pc, wait, cache, lock, got, next>>
      BY <2>2 DEF vars, fixedVars, tokenVars
    <3>2. LineInv'
      BY <3>1, <1>1, LineStays DEF CalmInv
    <3>3. FlightInv => FlightInv'
      BY <3>1 DEF FlightInv, Holding, Timely, Holds, Issues, Due, Awaited
    <3>. QED BY <3>1, <3>2, <3>3, <1>1 DEF CalmInv
  <2>. QED BY <1>1, <2>1, <2>2, StepFlies, TickFlies DEF Next
<1>2. CalmInv => SingleFlight
  <2>. DEFINE I == {c \in Callers : Issues(c)}
  <2>. SUFFICES ASSUME CalmInv, calm PROVE Cardinality(I) <= 1
    BY DEF SingleFlight, Issues
  <2>1. \A c, d \in I : c = d
    BY DEF CalmInv, FlightInv, Holding, Holds
  <2>2. CASE I = {}
    <3>1. Cardinality({}) = 0
      BY FS_EmptySet
    <3>. QED BY <2>2, <3>1
  <2>3. CASE I # {}
    <3>1. PICK c \in I : I = {c}
      BY <2>1, <2>3
    <3>2. Cardinality({c}) = 1
      BY FS_Singleton
    <3>3. Cardinality(I) = Cardinality({c})
      BY <3>1
    <3>. QED BY <3>2, <3>3
  <2>. QED BY <2>2, <2>3
<1>. QED BY CalmStart, <1>1, <1>2, Invariant, PTL DEF Spec
=============================================================================

---------------------------- MODULE BrokerClient ----------------------------
(***************************************************************************)
(* A call to the broker (services/kis/client.py, broker/toss.py): the      *)
(* access token that every process of an account shares through Redis, the *)
(* limiter of the KIS requests of one process, and the retry of a request  *)
(* that the broker turned away for being one too many.                     *)
(*                                                                         *)
(* The two clients differ in this: KIS signs an order first, spaces its    *)
(* requests, and asks for the token once per call; Toss asks for it once   *)
(* per attempt.  Time is kept in timers that a tick moves on.  While all   *)
(* is calm, what the code does at once is done before the next tick; if    *)
(* not, any step and any wake-up may be late.                              *)
(***************************************************************************)
EXTENDS ClientState

tokenVars == <<cache, lock, got>>
fixedVars == <<client, calm, kind>>
vars == <<fixedVars, pc, wait, tries, tokenVars, next, spare, placed, faults>>

Limiter(c) == next[ProcessOf[c]]
MaxTries == IF client = "kis" THEN 3 ELSE 2

Goto(c, step, ticks) == pc' = [pc EXCEPT ![c] = step] /\ wait' = [wait EXCEPT ![c] = ticks]
At(c, step) == pc[c] = step /\ wait[c] = 0

(***************************************************************************)
(* A request: the slot of the limiter, the answer, the end of the call     *)
(***************************************************************************)
Out == [hash |-> "hashing", issue |-> "issuing", send |-> "sending"]

\* The slot is reserved at once and slept for outside the limiter's lock.
ReserveLate(c, step) ==
  IF client = "kis"
  THEN /\ Goto(c, step, Limiter(c))
       /\ next' = [next EXCEPT ![ProcessOf[c]] = Interval]
  ELSE Goto(c, step, 0) /\ UNCHANGED next

Reserve(c, step) ==
  IF client = "kis"
  THEN /\ Goto(c, step, Limiter(c))
       /\ next' = [next EXCEPT ![ProcessOf[c]] = @ + Interval]
  ELSE Goto(c, step, 0) /\ UNCHANGED next

Call(c) ==
  /\ pc[c] = "idle"
  /\ IF kind[c] = "order" /\ client = "kis" THEN Reserve(c, "hash")
     ELSE Goto(c, "token", 0) /\ UNCHANGED next
  /\ UNCHANGED <<fixedVars, tries, tokenVars, spare, placed, faults>>

Send(c) ==
  /\ pc[c] \in Slots /\ wait[c] = 0
  /\ Goto(c, Out[pc[c]], 0)
  /\ spare' = IF client = "kis" THEN [spare EXCEPT ![ProcessOf[c]] = @ - Interval] ELSE spare
  /\ UNCHANGED <<fixedVars, tries, tokenVars, next, placed, faults>>

Signed(c) ==
  /\ pc[c] = "hashing" /\ Goto(c, "token", 0)
  /\ UNCHANGED <<fixedVars, tries, tokenVars, next, spare, placed, faults>>

(***************************************************************************)
(* get_access_token                                                        *)
(***************************************************************************)
ReadCache(c) ==
  /\ At(c, "token")
  /\ IF cache > 0 THEN Reserve(c, "send") ELSE Goto(c, "lock", 0) /\ UNCHANGED next
  /\ UNCHANGED <<fixedVars, tries, tokenVars, spare, placed, faults>>

TakeLockAnyway(c) ==
  /\ At(c, "lock")
  /\ lock' = LockTtl /\ got' = got \cup {c} /\ Goto(c, "recheck", 0)
  /\ UNCHANGED <<fixedVars, tries, cache, next, spare, placed, faults>>

TakeLock(c) ==
  /\ At(c, "lock")
  /\ IF lock = 0
     THEN lock' = LockTtl /\ got' = got \cup {c} /\ Goto(c, "recheck", 0)
     ELSE Goto(c, "poll", Rounds) /\ UNCHANGED <<lock, got>>
  /\ UNCHANGED <<fixedVars, tries, cache, next, spare, placed, faults>>

\* A waiter looks at the cache once per round, and after the last one gives up on the
\* lock and goes on without it.
Poll(c) ==
  /\ pc[c] = "poll" /\ wait[c] < Rounds
  /\ \/ cache > 0 /\ Reserve(c, "send")
     \/ cache = 0 /\ wait[c] = 0 /\ Goto(c, "recheck", 0) /\ UNCHANGED next
  /\ UNCHANGED <<fixedVars, tries, tokenVars, spare, placed, faults>>

Recheck(c) ==
  /\ At(c, "recheck")
  /\ IF cache > 0 THEN Goto(c, "unlock", 0) /\ UNCHANGED next ELSE Reserve(c, "issue")
  /\ UNCHANGED <<fixedVars, tries, tokenVars, spare, placed, faults>>

\* A new token, its entry in the cache, and the lock, which goes whoever holds it now.
Issued(c) ==
  /\ pc[c] = "issuing" /\ Goto(c, "save", 0)
  /\ UNCHANGED <<fixedVars, tries, tokenVars, next, spare, placed, faults>>

Save(c) ==
  /\ At(c, "save")
  /\ cache' = TokenTtl /\ Goto(c, "unlock", 0)
  /\ UNCHANGED <<fixedVars, tries, lock, got, next, spare, placed, faults>>

Unlocked(c) == got' = got \ {c} /\ lock' = IF c \in got THEN 0 ELSE lock

Unlock(c) ==
  /\ At(c, "unlock")
  /\ Unlocked(c) /\ Reserve(c, "send")
  /\ UNCHANGED <<fixedVars, tries, cache, spare, placed, faults>>

(***************************************************************************)
(* _request_json and TossClient._request                                   *)
(***************************************************************************)
Accept(c) ==
  /\ pc[c] = "sending" /\ placed' = [placed EXCEPT ![c] = @ + 1]
  /\ pc' = [pc EXCEPT ![c] = "taken"]
  /\ UNCHANGED <<fixedVars, wait, tries, tokenVars, next, spare, faults>>

Answered(c) ==
  /\ pc[c] = "taken" /\ Goto(c, "done", 0)
  /\ UNCHANGED <<fixedVars, tries, tokenVars, next, spare, placed, faults>>

\* One request too many: EGW00201 or 429.  KIS backs off longer every time.
Retry(c) ==
  IF tries[c] + 1 < MaxTries
  THEN /\ tries' = [tries EXCEPT ![c] = @ + 1]
       /\ Goto(c, "backoff", tries[c] + 1)
  ELSE Goto(c, "failed", 0) /\ UNCHANGED tries

Limited(c) ==
  /\ pc[c] = "sending" /\ ~calm /\ Retry(c)
  /\ UNCHANGED <<fixedVars, tokenVars, next, spare, placed, faults>>

BackedOff(c) ==
  /\ At(c, "backoff")
  /\ IF client = "kis" THEN Reserve(c, "send") ELSE Goto(c, "token", 0) /\ UNCHANGED next
  /\ UNCHANGED <<fixedVars, tries, tokenVars, spare, placed, faults>>

(***************************************************************************)
(* What goes wrong: any other error, a timeout, a cancelled call, a crash  *)
(***************************************************************************)
FailsAndRetries(c) ==
  /\ ~calm /\ pc[c] \in Sent \cup {"taken"}
  /\ IF pc[c] \in {"sending", "taken"} THEN Retry(c) /\ UNCHANGED <<got, lock>>
     ELSE Unlocked(c) /\ Goto(c, "failed", 0) /\ UNCHANGED tries
  /\ UNCHANGED <<fixedVars, cache, next, spare, placed, faults>>

Fails(c) ==
  /\ ~calm /\ pc[c] \in Sent \cup {"taken"}
  /\ Unlocked(c) /\ Goto(c, "failed", 0)
  /\ UNCHANGED <<fixedVars, tries, cache, next, spare, placed, faults>>

Fault == ~calm /\ faults < MaxFaults /\ faults' = faults + 1

Cancelled(c) ==
  /\ Fault /\ pc[c] \notin Ended
  /\ Unlocked(c) /\ Goto(c, "failed", 0)
  /\ UNCHANGED <<fixedVars, tries, cache, next, spare, placed>>

\* The lock stays behind, the limiter starts over.
Crash(p) ==
  /\ Fault
  /\ LET lost == {c \in Callers : ProcessOf[c] = p /\ pc[c] # "idle"}
     IN  /\ pc' = [c \in Callers |-> IF c \in lost THEN "failed" ELSE pc[c]]
         /\ wait' = [c \in Callers |-> IF c \in lost THEN 0 ELSE wait[c]]
         /\ got' = got \ lost
  /\ next' = [next EXCEPT ![p] = 0] /\ spare' = [spare EXCEPT ![p] = 0]
  /\ UNCHANGED <<fixedVars, tries, cache, lock, placed>>

(***************************************************************************)
(* Time                                                                    *)
(***************************************************************************)
Flying(c) == pc[c] \in Sent \cup {"taken"}
Asleep(c) == wait[c] > 0 /\ ~Flying(c)
Less(n) == IF n > 0 THEN n - 1 ELSE 0

\* Only while all is calm does every step come at its time: asyncio.sleep wakes no
\* earlier than asked for, and as late as the event loop lets it.
OnTime(c) == pc[c] \in Ended \/ Asleep(c) \/ (Flying(c) /\ wait[c] < Latency)

Tick ==
  /\ calm => \A c \in Callers : OnTime(c)
  /\ wait' = [c \in Callers |-> IF Asleep(c) THEN wait[c] - 1
                                ELSE IF calm /\ Flying(c) THEN wait[c] + 1 ELSE 0]
  /\ cache' = Less(cache) /\ lock' = Less(lock)
  /\ next' = [p \in Processes |-> Less(next[p])]
  /\ spare' = [p \in Processes |->
                IF client = "kis" /\ spare[p] < Burst THEN spare[p] + 1 ELSE spare[p]]
  /\ UNCHANGED <<fixedVars, pc, tries, got, placed, faults>>

(***************************************************************************)
(* The specification                                                       *)
(***************************************************************************)
Init ==
  /\ client \in {"kis", "toss"} /\ calm \in BOOLEAN
  /\ kind \in [Callers -> {"order", "query"}]
  /\ pc = [c \in Callers |-> "idle"] /\ wait = [c \in Callers |-> 0]
  /\ tries = [c \in Callers |-> 0] /\ got = {}
  /\ cache \in {0, 1} /\ lock = 0
  /\ next = [p \in Processes |-> 0] /\ spare = [p \in Processes |-> 0]
  /\ placed = [c \in Callers |-> 0] /\ faults = 0

Step(c) ==
  \/ Call(c) \/ Send(c) \/ Signed(c)
  \/ ReadCache(c) \/ TakeLock(c) \/ Poll(c) \/ Recheck(c) \/ Issued(c) \/ Save(c) \/ Unlock(c)
  \/ Accept(c) \/ Answered(c) \/ Limited(c) \/ BackedOff(c)
  \/ Fails(c) \/ Cancelled(c)

Next == (\E c \in Callers : Step(c)) \/ (\E p \in Processes : Crash(p)) \/ Tick

Spec == Init /\ [][Next]_vars
=============================================================================

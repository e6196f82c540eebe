---------------------------- MODULE ClientState ----------------------------
(***************************************************************************)
(* The calls to the broker, the limiters and the shared token as they are  *)
(* at a moment, and what is to hold of them (services/kis/client.py and    *)
(* broker/toss.py); BrokerClient says how they move.                       *)
(***************************************************************************)
EXTENDS Integers, FiniteSets

CONSTANTS
  Callers, Processes, ProcessOf,  \* the calls, and the process each is made in
  Interval,                       \* _RATE_MIN_INTERVAL, in ticks
  Rounds, LockTtl, TokenTtl,      \* _TOKEN_LOCK_WAIT, _TOKEN_LOCK_TTL, expires_in less the margin
  Latency,                        \* the longest an answer takes of a broker that is calm
  MaxFaults                       \* bound on crashes and cancelled calls

ClientConstants ==
  /\ ProcessOf \in [Callers -> Processes]
  /\ IsFiniteSet(Callers)
  /\ {Interval, Rounds, LockTtl, TokenTtl, Latency, MaxFaults} \subseteq Nat

VARIABLES
  client,     \* "kis" or "toss"
  calm,       \* the broker answers fast and refuses nothing, no process stops, sleepers
              \* wake on time
  kind,       \* per call: "order" or "query"
  pc, wait,   \* per call: its step, and the ticks until it, or since a calm request
  tries,      \* per call: attempts so far
  got,        \* callers whose set(nx) took the lock
  cache, lock,\* Redis: the ticks the token and its lock have left
  next,       \* per process: _RateLimiter._next_at, in ticks from now
  spare,      \* per process: the ticks since it started, less Interval for every request
              \* to KIS; after a rest no more than Burst
  placed,     \* per call: the orders the broker accepted
  faults

Burst == Interval * Cardinality(Callers)

(***************************************************************************)
(* The steps of a call                                                     *)
(***************************************************************************)
Slots == {"hash", "issue", "send"}
Sent == {"hashing", "issuing", "sending"}
Ended == {"idle", "done", "failed"}
Steps == {"token", "lock", "poll", "recheck", "save", "unlock", "backoff", "taken"}
         \cup Slots \cup Sent \cup Ended

\* Types of the variables.
ClientTypes ==
  /\ client \in {"kis", "toss"} /\ calm \in BOOLEAN
  /\ kind \in [Callers -> {"order", "query"}]
  /\ pc \in [Callers -> Steps] /\ wait \in [Callers -> Nat] /\ tries \in [Callers -> 0 .. 2]
  /\ got \subseteq Callers /\ {cache, lock, faults} \subseteq Nat
  /\ next \in [Processes -> Nat] /\ spare \in [Processes -> Int]
  /\ placed \in [Callers -> Nat]

(***************************************************************************)
(* Properties                                                              *)
(***************************************************************************)
\* However a call is limited, retried, answered late or not at all, the broker takes the
\* order it places at most once, and a call that returns has placed it (client.py:188).
OncePerCall ==
  ClientTypes /\ \A c \in Callers : placed[c] <= 1 /\ (pc[c] = "done" => placed[c] = 1)

\* The calls per second that KIS allows (client.py:46, 106): however late those wake that
\* sleep until their slot (nobody looks again at the distance), a process is never more
\* than one request ahead of one per Interval since it started, nor, after a rest, of as
\* many at once as there are calls.
Paced == client = "kis" => \A p \in Processes : spare[p] + Interval >= 0

\* "단 한 번만 발급" (client.py:144): one call at a time issues a token, whatever the number
\* of processes, as long as the broker answers fast and nobody dies with the lock.
SingleFlight ==
  calm => Cardinality({c \in Callers : pc[c] \in {"issue", "issuing", "save"}}) <= 1
=============================================================================

----------------------------- MODULE KrxSource -----------------------------
(***************************************************************************)
(* What a process gets from the exchange's data portal                     *)
(* (services/data/krx_index.py): members of an index, market values and    *)
(* sectors, for which it logs in, and which it keeps.  Threads of the web   *)
(* process share the session, the caches and the cooldown after a failure  *)
(* (services/data/errors.py); a worker process runs one task at a time, of *)
(* which one stores the sectors of the quarter.                            *)
(*                                                                         *)
(* The date asked for is day 0, and day n lies n days before it.  Of an    *)
(* answer is kept which markets it covers, and of which day it is.         *)
(***************************************************************************)
EXTENDS Integers, Sequences, FiniteSets

CONSTANTS
  Threads,
  Back,       \* days a call goes back at most, 6 or 9 in the code
  Blocked,    \* cooldown of SourceAuthError, in ticks
  Hiccup      \* cooldown of SourceUnavailableError

ASSUME SourceAssumption == {Back, Blocked, Hiccup} \subseteq Nat

VARIABLES
  process,   \* "web" or "worker"
  closed,    \* the days on which the exchange was closed, for which it has no rows
  portal,    \* how it answers: "up", "down", or "blocked", with a page that is no JSON
  session,   \* the session in pykrx is valid
  cooldown,  \* ticks left in which nobody is to ask
  cache,     \* per subject: what the process keeps, or Nothing
  snapshot,  \* sector_map_snapshots of this quarter, or Nothing
  call,      \* per thread: the call under way, or Nothing
  extra      \* per thread: requests it sent since the cooldown under way began

shared == <<session, cooldown, cache, snapshot>>
sourceVars == <<process, closed, portal, shared, call, extra>>

Nothing == [day |-> -1, markets |-> {}]
Subjects == {"members", "caps", "sectors", "snapshot"}
\* Market values and sectors are the same loop with caches of their own.
Asked == IF process = "web" THEN {"members", "caps"} ELSE {"sectors", "snapshot"}
\* The snapshot is taken from sector_map and its cache.
CacheOf(k) == IF k = "snapshot" THEN "sectors" ELSE k
\* One request for an index, one per market for the others.
Markets(k) == IF k = "members" THEN <<"STK">> ELSE <<"STK", "KSQ">>

NoCall == [at |-> "none", about |-> "members", day |-> 0, part |-> 1,
           got |-> {}, failed |-> FALSE, ok |-> FALSE]

Goes(t, c) == call' = [call EXCEPT ![t] = c]
At(t, where) == call[t].at = where
To(t, where) == Goes(t, [call[t] EXCEPT !.at = where])

\* note_failure: a later failure replaces what is left of an earlier one, a longer one too.
Note(secs) ==
  /\ cooldown' = secs
  /\ extra' = [t \in Threads |-> 0]
NoteNothing == UNCHANGED <<cooldown, extra>>

Sends(t) ==
  extra' = IF cooldown = 0 \/ extra[t] = 2 THEN extra ELSE [extra EXCEPT ![t] = @ + 1]

(***************************************************************************)
(* Ends of a call                                                          *)
(***************************************************************************)
Raises(t) ==
  /\ Goes(t, NoCall)
  /\ UNCHANGED <<cache, snapshot>>

Stores(k, answer) ==
  snapshot' = IF k = "snapshot" /\ answer # Nothing THEN answer ELSE snapshot

\* Nothing empty is cached or stored.
Answers(t, k, answer) ==
  /\ Goes(t, NoCall)
  /\ cache' = IF answer = Nothing THEN cache ELSE [cache EXCEPT ![CacheOf(k)] = answer]
  /\ Stores(k, answer)

\* What the loop has got decides, whatever failed beside it.
Finish(t, c) ==
  IF ~c.ok /\ c.failed THEN Raises(t)
  ELSE Answers(t, c.about,
               IF c.got = {} THEN Nothing ELSE [day |-> c.day, markets |-> c.got])

\* The next market, the day before, or the end.
Advance(t, c) ==
  IF c.part < Len(Markets(c.about))
  THEN /\ Goes(t, [c EXCEPT !.at = "loop", !.part = @ + 1])
       /\ UNCHANGED <<cache, snapshot>>
  ELSE IF c.got # {} \/ c.day = Back THEN Finish(t, c)
  ELSE /\ Goes(t, [c EXCEPT !.at = "loop", !.part = 1, !.day = @ + 1])
       /\ UNCHANGED <<cache, snapshot>>

(***************************************************************************)
(* index_members, market_caps, sector_map and snapshot_sector_map          *)
(***************************************************************************)
Worker(t) == process = "worker" => \A u \in Threads \ {t} : At(u, "none")

Begin(t, k) ==
  /\ At(t, "none") /\ Worker(t)
  /\ k = "snapshot" => snapshot = Nothing
  /\ IF cache[CacheOf(k)] # Nothing
     THEN Answers(t, k, cache[CacheOf(k)])
     ELSE /\ Goes(t, [NoCall EXCEPT !.at = "session", !.about = k])
          /\ UNCHANGED <<cache, snapshot>>
  /\ UNCHANGED <<process, closed, portal, session, cooldown, extra>>

\* _session: the cooldown first, then a session that is valid, then a login.
Session(t) ==
  /\ At(t, "session")
  /\ IF cooldown > 0 THEN Raises(t)
     ELSE /\ To(t, IF session THEN "loop" ELSE "login")
          /\ UNCHANGED <<cache, snapshot>>
  /\ UNCHANGED <<process, closed, portal, session, cooldown, extra>>

LoginSucceeds(t) ==
  /\ At(t, "login") /\ portal = "up"
  /\ session' = TRUE
  /\ Note(0)
  /\ To(t, "loop")
  /\ UNCHANGED <<process, closed, portal, cache, snapshot>>

LoginFails(t) ==
  /\ At(t, "login") /\ portal # "up"
  /\ Note(Blocked)
  /\ Raises(t)
  /\ UNCHANGED <<process, closed, portal, session>>

LoopsOn(t) ==
  /\ At(t, "loop")
  /\ To(t, "send")
  /\ UNCHANGED <<process, closed, portal, shared, extra>>

\* The loop gives up on a cooldown after a failure of its own; _krx_rows refuses while there
\* is one, which counts as a failure.
Loop(t) ==
  /\ At(t, "loop")
  /\ \/ cooldown = 0 /\ To(t, "send") /\ UNCHANGED <<cache, snapshot>>
     \/ cooldown > 0 /\ call[t].failed /\ Finish(t, call[t])
     \/ cooldown > 0 /\ ~call[t].failed /\ Advance(t, [call[t] EXCEPT !.failed = TRUE])
  /\ UNCHANGED <<process, closed, portal, session, cooldown, extra>>

Send(t) ==
  /\ At(t, "send") /\ Sends(t) /\ To(t, "wait")
  /\ UNCHANGED <<process, closed, portal, shared>>

\* Rows, or none for a day without trade.
Rows(t) ==
  /\ At(t, "wait") /\ portal = "up"
  /\ LET c == call[t]
         new == IF c.day \in closed THEN {} ELSE {Markets(c.about)[c.part]}
     IN  Advance(t, [c EXCEPT !.ok = TRUE, !.got = @ \cup new])
  /\ NoteNothing
  /\ UNCHANGED <<process, closed, portal, session>>

\* An answer of another form, or a status of 400 and above, at any time: no cooldown.
Odd(t) ==
  /\ At(t, "wait")
  /\ Advance(t, [call[t] EXCEPT !.failed = TRUE])
  /\ NoteNothing
  /\ UNCHANGED <<process, closed, portal, session>>

Refused(t) ==
  /\ At(t, "wait") /\ portal # "up"
  /\ Note(IF portal = "blocked" THEN Blocked ELSE Hiccup)
  /\ Advance(t, [call[t] EXCEPT !.failed = TRUE])
  /\ UNCHANGED <<process, closed, portal, session>>

(***************************************************************************)
(* The portal, time and restarts                                           *)
(***************************************************************************)
PortalChanges ==
  /\ \E p \in {"up", "down", "blocked"} : portal' = p /\ p # portal
  /\ UNCHANGED <<process, closed, shared, call, extra>>

SessionExpires ==
  /\ session /\ session' = FALSE
  /\ UNCHANGED <<process, closed, portal, cooldown, cache, snapshot, call, extra>>

Tick ==
  /\ cooldown > 0 /\ cooldown' = cooldown - 1
  /\ extra' = IF cooldown' = 0 THEN [t \in Threads |-> 0] ELSE extra
  /\ UNCHANGED <<process, closed, portal, session, cache, snapshot, call>>

\* Only what is in the database outlives the process: the snapshot, and the members of an
\* index that the ledger has confirmed.
Restart ==
  /\ session' = FALSE /\ cooldown' = 0
  /\ \E kept \in {Nothing, cache["members"]} :
       cache' = [k \in Subjects |-> IF k = "members" THEN kept ELSE Nothing]
  /\ call' = [t \in Threads |-> NoCall]
  /\ extra' = [t \in Threads |-> 0]
  /\ UNCHANGED <<process, closed, portal, snapshot>>

(***************************************************************************)
(* The specification                                                       *)
(***************************************************************************)
SourceInit ==
  /\ process \in {"web", "worker"} /\ closed \in SUBSET (0 .. Back)
  /\ portal = "up" /\ session = FALSE /\ cooldown = 0
  /\ cache = [k \in Subjects |-> Nothing] /\ snapshot = Nothing
  /\ call = [t \in Threads |-> NoCall]
  /\ extra = [t \in Threads |-> 0]

Step(t) ==
  \/ \E k \in Asked : Begin(t, k)
  \/ Session(t) \/ LoginSucceeds(t) \/ LoginFails(t)
  \/ Loop(t) \/ Send(t) \/ Rows(t) \/ Odd(t) \/ Refused(t)

SourceNext == (\E t \in Threads : Step(t)) \/ PortalChanges \/ SessionExpires \/ Tick \/ Restart

SourceSpec == SourceInit /\ [][SourceNext]_sourceVars

(***************************************************************************)
(* Properties                                                              *)
(***************************************************************************)
Answer == [day : -1 .. Back, markets : SUBSET {"STK", "KSQ"}]
Calls == [at : {"none", "session", "login", "loop", "send", "wait"}, about : Subjects,
          day : 0 .. Back, part : 1 .. 2, got : SUBSET {"STK", "KSQ"},
          failed : BOOLEAN, ok : BOOLEAN]

\* Types of the variables.
SourceTypes ==
  /\ process \in {"web", "worker"} /\ closed \subseteq 0 .. Back
  /\ portal \in {"up", "down", "blocked"} /\ session \in BOOLEAN
  /\ cooldown \in Nat /\ cache \in [Subjects -> Answer] /\ snapshot \in Answer
  /\ call \in [Threads -> Calls] /\ extra \in [Threads -> 0 .. 2]

\* In a cooldown a thread sends at most the one request for which it had looked before the
\* cooldown began, whatever loop it is in: being blocked does not lead to more requests.
SilenceIsKept == SourceTypes /\ \A t \in Threads : extra[t] <= 1
=============================================================================

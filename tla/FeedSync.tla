------------------------------ MODULE FeedSync ------------------------------
(***************************************************************************)
(* The web sockets of the engine, one per user for prices                  *)
(* (engine/price_feed.py) and one for fill notices (engine/fill_notice.py),*)
(* and how they follow the strategies that run (engine/main.py).           *)
(*                                                                         *)
(* The handler of a start or stop command brings both up to date.  A loop  *)
(* repeats the fill notices every minute, in a coroutine of its own: each  *)
(* of the two reads the database and closes sockets with awaits in between. *)
(***************************************************************************)
EXTENDS Naturals, FiniteSets

CONSTANTS
  Strategies,
  Rebalancing,   \* those of them with many symbols, which take no price feed
  UserOf,        \* whose a strategy is
  MaxCommands,   \* bound on start and stop commands
  MaxChanges,    \* bound on changes of credentials
  MaxFaults      \* bound on what the database or Redis refuses

Users == {UserOf[s] : s \in Strategies}
Single == Strategies \ Rebalancing
Coroutines == {"control", "resync"}

VARIABLES
  runners,    \* the keys of _runners
  creds,      \* the credentials of a user in the database: None, or which ones
  feeds,      \* _feeds of the price feed manager: the strategies whose symbols it has
  listeners,  \* _feeds of the fill notice manager: the credentials it opened with
  handling,   \* the command the control loop handles: "no", "started", "notices"
  step,       \* per coroutine: where it is in _sync_fill_notices
  asked,      \* per coroutine: the strategies its query names
  drop, want, \* per coroutine: the users it will remove yet, and then ensure
  found,      \* per coroutine: the credentials its query has read
  unfed,      \* history: the last _sync_feeds did not come about
  commands, changes, faults

None == 0
Versions == 1 .. 2

syncVars == <<step, asked, drop, want, found>>
boundVars == <<commands, changes, faults>>
vars == <<runners, creds, feeds, listeners, handling, syncVars, unfed, boundVars>>

Owners(ss) == {UserOf[s] : s \in ss}
\* Users of strategies ss that have credentials of a broker with web sockets.
Subscribers(ss, known) == {u \in Owners(ss) : known[u] # None}
Listening == {u \in Users : listeners[u] # None}

Fault == faults < MaxFaults /\ faults' = faults + 1

(***************************************************************************)
(* Commands                                                                *)
(***************************************************************************)
\* _start_strategy up to the entry in _runners, _stop_strategy up to its removal.  A stop
\* of what does not run synchronises as well.
Command(s) ==
  /\ handling = "no" /\ commands < MaxCommands
  /\ \/ s \notin runners /\ runners' = runners \cup {s}
     \/ runners' = runners \ {s}
  /\ handling' = "started" /\ commands' = commands + 1
  /\ UNCHANGED <<creds, feeds, listeners, syncVars, unfed, changes, faults>>

\* ensure of every user with symbols; nobody asks for the other users' feeds unless
\* nothing runs.
FeedsOf(u) ==
  IF runners = {} THEN {}
  ELSE LET symbols == {s \in runners \cap Single : UserOf[s] = u}
       IN  IF creds[u] = None \/ symbols = {} THEN feeds[u] ELSE symbols

\* Only the control loop changes runners and feeds, so that its awaits do not matter here.
SyncFeeds ==
  /\ handling = "started"
  /\ feeds' = [u \in Users |-> FeedsOf(u)]
  /\ unfed' = FALSE /\ handling' = "notices"
  /\ UNCHANGED <<runners, creds, listeners, syncVars, boundVars>>

\* sadd, srem or the query fails: the control loop subscribes again and forgets the rest.
HandlerFails ==
  /\ handling = "started" /\ Fault
  /\ unfed' = TRUE /\ handling' = "no"
  /\ UNCHANGED <<runners, creds, feeds, listeners, syncVars, commands, changes>>

(***************************************************************************)
(* _sync_fill_notices                                                      *)
(***************************************************************************)
Called(x) == IF x = "control" THEN handling = "notices" ELSE TRUE
Returns(x) ==
  /\ step' = [step EXCEPT ![x] = "idle"]
  /\ handling' = IF x = "control" THEN "no" ELSE handling

\* remove pops the entry, then awaits the end of its task.
Removed(d) == [u \in Users |-> IF u = d THEN None ELSE listeners[u]]
\* ensure leaves an entry that is there alone, and has no await.
Ensured(us, known) ==
  [u \in Users |-> IF u \in us /\ listeners[u] = None THEN known[u] ELSE listeners[u]]

\* From here to the end: remove one by one, then ensure.
Continue(x, out, in, known) ==
  IF out = {}
  THEN /\ listeners' = Ensured(in, known)
       /\ Returns(x)
       /\ UNCHANGED <<drop, want>>
  ELSE \E d \in out :
         /\ listeners' = Removed(d)
         /\ drop' = [drop EXCEPT ![x] = out \ {d}]
         /\ want' = [want EXCEPT ![x] = in]
         /\ step' = [step EXCEPT ![x] = "remove"]
         /\ UNCHANGED handling

\* Nothing runs: shutdown, over a list of the entries.
CloseAll(x) ==
  /\ Called(x) /\ step[x] = "idle" /\ runners = {}
  /\ Continue(x, Listening, {}, found[x])
  /\ UNCHANGED <<runners, creds, feeds, asked, found, unfed, boundVars>>

Ask(x) ==
  /\ Called(x) /\ step[x] = "idle" /\ runners # {}
  /\ asked' = [asked EXCEPT ![x] = runners]
  /\ step' = [step EXCEPT ![x] = "query"]
  /\ UNCHANGED <<runners, creds, feeds, listeners, handling, drop, want, found, unfed, boundVars>>

Answered(x) ==
  /\ step[x] = "query"
  /\ found' = [found EXCEPT ![x] = creds]
  /\ step' = [step EXCEPT ![x] = "apply"]
  /\ UNCHANGED <<runners, creds, feeds, listeners, handling, asked, drop, want, unfed, boundVars>>

\* The exception ends the handler of the control loop, or the round of the resync loop.
QueryFails(x) ==
  /\ step[x] = "query" /\ Fault
  /\ Returns(x)
  /\ UNCHANGED <<runners, creds, feeds, listeners, asked, drop, want, found, unfed, commands, changes>>

AppliesNoRemoval(x) ==
  /\ step[x] = "apply"
  /\ LET desired == Subscribers(asked[x], found[x])
     IN  Continue(x, {}, desired \ Listening, found[x])
  /\ UNCHANGED <<runners, creds, feeds, asked, found, unfed, boundVars>>

\* desired and current.
Apply(x) ==
  /\ step[x] = "apply"
  /\ LET desired == Subscribers(asked[x], found[x])
     IN  Continue(x, Listening \ desired, desired \ Listening, found[x])
  /\ UNCHANGED <<runners, creds, feeds, asked, found, unfed, boundVars>>

RemoveNext(x) ==
  /\ step[x] = "remove"
  /\ Continue(x, drop[x], want[x], found[x])
  /\ UNCHANGED <<runners, creds, feeds, asked, found, unfed, boundVars>>

Sync(x) == CloseAll(x) \/ Ask(x) \/ Answered(x) \/ Apply(x) \/ RemoveNext(x)

\* The user registers other credentials, or none.
ChangeCreds(u) ==
  /\ changes < MaxChanges /\ changes' = changes + 1
  /\ \E v \in {None} \cup Versions : v # creds[u] /\ creds' = [creds EXCEPT ![u] = v]
  /\ UNCHANGED <<runners, feeds, listeners, handling, syncVars, unfed, commands, faults>>

(***************************************************************************)
(* The specification                                                       *)
(***************************************************************************)
Init ==
  /\ runners = {} /\ creds = [u \in Users |-> 1]
  /\ feeds = [u \in Users |-> {}] /\ listeners = [u \in Users |-> None]
  /\ handling = "no" /\ step = [x \in Coroutines |-> "idle"]
  /\ asked = [x \in Coroutines |-> {}]
  /\ drop = [x \in Coroutines |-> {}] /\ want = [x \in Coroutines |-> {}]
  /\ found = [x \in Coroutines |-> creds]
  /\ unfed = FALSE
  /\ commands = 0 /\ changes = 0 /\ faults = 0

Control == SyncFeeds \/ Sync("control")
Resync == Sync("resync")

Next ==
  \/ Control \/ Resync
  \/ HandlerFails \/ \E x \in Coroutines : QueryFails(x)
  \/ \E s \in Strategies : Command(s)
  \/ \E u \in Users : ChangeCreds(u)

\* Neither coroutine stops for ever where it can go on.
Spec == Init /\ [][Next]_vars /\ WF_vars(Control) /\ WF_vars(Resync)

(***************************************************************************)
(* Properties                                                              *)
(***************************************************************************)
\* Types of the variables.
TypeOK ==
  /\ runners \subseteq Strategies
  /\ creds \in [Users -> {None} \cup Versions]
  /\ feeds \in [Users -> SUBSET Single]
  /\ listeners \in [Users -> {None} \cup Versions]
  /\ handling \in {"no", "started", "notices"}
  /\ step \in [Coroutines -> {"idle", "query", "apply", "remove"}]
  /\ asked \in [Coroutines -> SUBSET Strategies]
  /\ drop \in [Coroutines -> SUBSET Users] /\ want \in [Coroutines -> SUBSET Users]
  /\ found \in [Coroutines -> [Users -> {None} \cup Versions]]
  /\ unfed \in BOOLEAN

\* However the two coroutines interleave and whatever fails on the way, when commands and
\* changes have ended, the users with a fill notice socket are those with a strategy that
\* runs and credentials, and stay so; and what runs is fed, unless the last synchronisation
\* of the feeds failed or the credentials are gone.
SubscriptionsFollow ==
  <>[]/\ Listening = Subscribers(runners, creds)
      /\ unfed \/ \A s \in runners \cap Single :
                    creds[UserOf[s]] = None \/ changes > 0 \/ s \in feeds[UserOf[s]]
=============================================================================

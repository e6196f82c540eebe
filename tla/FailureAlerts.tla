--------------------------- MODULE FailureAlerts ---------------------------
(***************************************************************************)
(* The endless loops of the engine, how they count their failures, and how *)
(* an alert of them reaches the user: the table alerts, Telegram, and the  *)
(* web socket by way of Redis (engine/alerts.py).  An alert goes out once, *)
(* when the count meets the threshold.                                     *)
(*                                                                         *)
(* The loops share nothing but what they depend on, so that a behaviour is *)
(* about one of them, loop.  The last variables are kept to state what     *)
(* should be: how many rounds in a row have failed, and, since the loop    *)
(* last set its counter back, how many alerts it has published, whether    *)
(* one of them is where somebody finds it, and what has answered all along.*)
(***************************************************************************)
EXTENDS Integers

CONSTANT Threshold     \* FAILURE_ALERT_THRESHOLD
ASSUME ThresholdAssumption == Threshold \in Nat \ {0}

VARIABLES
  loop,      \* the loop this behaviour is about
  down,      \* what does not answer at present
  at,        \* where the loop is: in its rounds, or at a step of publish_alert
  alive,     \* its task has not ended
  count,     \* its counter of failures, saturated past the threshold
  inbox,     \* its last row in alerts
  health,    \* engine:health of the runner, as the page of the user reads it
  wrote,     \* Redis took the last record of the runner
  streak, published, reached, up

noted == <<inbox, health, wrote>>
history == <<streak, published, reached, up>>
alertVars == <<loop, down, at, alive, count, noted, history>>

Loops == {"runner", "reconcile", "resync", "control", "feed", "heartbeat"}
Services == {"redis", "db", "broker", "telegram"}

\* What a round may run into, and what no round does without: outside market hours a
\* runner asks nobody, without open orders the sweep needs the database only.
MayNeed(l) ==
  CASE l \in {"runner", "reconcile"} -> {"redis", "db", "broker"}
    [] l = "resync" -> {"db"}
    [] l = "control" -> {"redis", "db"}
    [] l = "feed" -> {"redis", "broker"}
    [] l = "heartbeat" -> {"redis"}
AlwaysNeeds(l) ==
  CASE l \in {"runner", "resync"} -> {}
    [] l = "reconcile" -> {"db"}
    [] l \in {"control", "heartbeat"} -> {"redis"}
    [] l = "feed" -> {"broker"}

Critical(l) == l # "feed"              \* the severity that goes to Telegram
HasUser(l) == l \in {"runner", "feed"} \* and whose alert goes to a web socket
Windowed(l) == l = "feed"              \* dedup_window_hours is given

Unrecorded == -1
Healthy == health < Threshold          \* strategies_health; no record counts as none failed

(***************************************************************************)
(* Rounds of the loop                                                      *)
(***************************************************************************)
\* _write_health: what Redis does not take is let go.
WriteHealth(n) ==
  \/ /\ loop = "runner" /\ "redis" \notin down
     /\ health' = n /\ wrote' = TRUE
  \/ /\ loop = "runner" /\ "redis" \in down
     /\ wrote' = FALSE /\ UNCHANGED health
  \/ loop # "runner" /\ UNCHANGED <<health, wrote>>

InRound == alive /\ at = "round"

\* The outage is over, and what comes next is another one.
Over == streak' = 0 /\ published' = 0 /\ reached' = FALSE /\ up' = Services \ down

\* The control loop sets its counter back where its inner loop ends, which is at shutdown.
RoundSucceeds ==
  /\ InRound /\ AlwaysNeeds(loop) \cap down = {}
  /\ count' = IF loop = "control" THEN count ELSE 0
  /\ WriteHealth(count') /\ Over
  /\ UNCHANGED <<loop, down, at, alive, inbox>>

More(n, most) == IF n < most THEN n + 1 ELSE most

RoundFails ==
  /\ InRound /\ loop # "heartbeat" /\ MayNeed(loop) \cap down # {}
  /\ count' = More(count, Threshold + 1)
  /\ WriteHealth(count')
  /\ at' = IF count < Threshold /\ count' = Threshold THEN "store" ELSE "round"
  \* A feed that had connected may fail of Redis only later, when it writes a price.
  /\ streak' \in {More(streak, Threshold)} \cup (IF loop = "feed" THEN {1} ELSE {})
  /\ UNCHANGED <<loop, down, alive, inbox, published, reached, up>>

\* Nothing catches what the heartbeat's write raises.
HeartbeatFails ==
  /\ InRound /\ loop = "heartbeat" /\ "redis" \in down
  /\ alive' = FALSE
  /\ UNCHANGED <<loop, down, at, count, noted, history>>

(***************************************************************************)
(* publish_alert                                                           *)
(***************************************************************************)
AfterCall == IF HasUser(loop) THEN "push" ELSE "round"

StoreOrNothing ==
  /\ alive /\ at = "store"
  /\ published' = More(published, 2)
  /\ \/ /\ "db" \notin down /\ ~(Windowed(loop) /\ inbox = "unread")
        /\ inbox' = "unread" /\ reached' = TRUE
        /\ at' = IF Critical(loop) THEN "call" ELSE AfterCall
     \/ /\ "db" \notin down /\ Windowed(loop) /\ inbox = "unread"
        /\ reached' = TRUE /\ at' = AfterCall /\ UNCHANGED inbox
     \/ "db" \in down /\ at' = "round" /\ UNCHANGED <<inbox, reached>>
  /\ UNCHANGED <<loop, down, alive, count, health, wrote, streak, up>>

\* Stored, found stored and unread within the window, or lost with the database.
Store ==
  /\ alive /\ at = "store"
  /\ published' = More(published, 2)
  /\ \/ /\ "db" \notin down /\ ~(Windowed(loop) /\ inbox = "unread")
        /\ inbox' = "unread" /\ reached' = TRUE
        /\ at' = IF Critical(loop) THEN "call" ELSE AfterCall
     \/ /\ "db" \notin down /\ Windowed(loop) /\ inbox = "unread"
        /\ reached' = TRUE /\ at' = AfterCall /\ UNCHANGED inbox
     \/ /\ "db" \in down /\ UNCHANGED <<inbox, reached>>
        /\ at' = IF Critical(loop) THEN "call" ELSE AfterCall
  /\ UNCHANGED <<loop, down, alive, count, health, wrote, streak, up>>

\* What Telegram does not take is let go.
Call ==
  /\ alive /\ at = "call"
  /\ reached' = (reached \/ "telegram" \notin down)
  /\ at' = AfterCall
  /\ UNCHANGED <<loop, down, alive, count, noted, streak, published, up>>

\* publish_event raises when Redis is away, and nothing around it catches it: the task ends.
\* A push does not count, since nobody may be connected.
Push ==
  /\ alive /\ at = "push"
  /\ at' = "round" /\ alive' = ("redis" \notin down)
  /\ UNCHANGED <<loop, down, count, noted, history>>

(***************************************************************************)
(* The user, the worker, time, and what the loops depend on                *)
(***************************************************************************)
\* mark_alert_read and mark_all_alerts_read.
Read ==
  /\ inbox \in {"unread", "old"} /\ inbox' = "read"
  /\ UNCHANGED <<loop, down, at, alive, count, health, wrote, history>>

WindowPasses ==
  /\ inbox = "unread" /\ inbox' = "old"
  /\ UNCHANGED <<loop, down, at, alive, count, health, wrote, history>>

\* cleanup_old_alerts, after months.
CleanUp ==
  /\ inbox \in {"read", "old"} /\ inbox' = "none"
  /\ UNCHANGED <<loop, down, at, alive, count, health, wrote, history>>

\* A record that nobody renews lives for a day.
HealthExpires ==
  /\ ~alive /\ health # Unrecorded /\ "redis" \notin down
  /\ health' = Unrecorded /\ wrote' = FALSE
  /\ UNCHANGED <<loop, down, at, alive, count, inbox, history>>

\* The engine starts again, a strategy is stopped and started, a feed gets other symbols.
StartAgain ==
  /\ at' = "round" /\ alive' = TRUE /\ count' = 0
  /\ wrote' = FALSE /\ Over
  /\ UNCHANGED <<loop, down, inbox, health>>

Breaks(x) ==
  /\ x \notin down /\ down' = down \cup {x} /\ up' = up \ {x}
  /\ UNCHANGED <<loop, at, alive, count, noted, streak, published, reached>>

Recovers(x) ==
  /\ x \in down /\ down' = down \ {x}
  /\ UNCHANGED <<loop, at, alive, count, noted, history>>

(***************************************************************************)
(* The specification                                                       *)
(***************************************************************************)
AlertInit ==
  \* Telegram that is not configured is down for ever.
  /\ loop \in Loops /\ down \in {{}, {"telegram"}}
  /\ at = "round" /\ alive = TRUE /\ count = 0
  /\ inbox = "none" /\ health = Unrecorded
  /\ wrote = FALSE
  /\ streak = 0 /\ published = 0 /\ reached = FALSE /\ up = Services \ down

Round == RoundSucceeds \/ RoundFails \/ HeartbeatFails
Publish == Store \/ Call \/ Push
Environment == \E x \in Services : Breaks(x) \/ Recovers(x)

AlertNext ==
  \/ Round \/ Publish
  \/ Read \/ WindowPasses \/ CleanUp \/ HealthExpires
  \/ StartAgain \/ Environment

AlertSpec == AlertInit /\ [][AlertNext]_alertVars

(***************************************************************************)
(* Properties                                                              *)
(***************************************************************************)
\* Types of the variables.
AlertTypes ==
  /\ loop \in Loops /\ down \subseteq Services
  /\ at \in {"round", "store", "call", "push"} /\ alive \in BOOLEAN
  /\ count \in 0 .. Threshold + 1 /\ streak \in 0 .. Threshold
  /\ inbox \in {"none", "unread", "old", "read"}
  /\ health \in {Unrecorded} \cup 0 .. Threshold + 1
  /\ wrote \in BOOLEAN /\ reached \in BOOLEAN
  /\ published \in 0 .. 2 /\ up \subseteq Services

\* An alert of the loop has somewhere to go: the table, or Telegram if it is critical.
Reachable == "db" \in up \/ (Critical(loop) /\ "telegram" \in up)

\* Threshold failures in a row do not go by without an alert, and with one only, however the
\* failures, the successes, other alerts and restarts are mixed; it is where the user finds
\* it if the database, or Telegram for a critical one, has answered since the counter was
\* last set back; and the page of the user shows a runner as unhealthy exactly while it
\* fails that long, if Redis took the last record.
OutageIsTold ==
  /\ AlertTypes
  /\ loop # "control" /\ at = "round" /\ streak >= Threshold =>
       published = 1 /\ (Reachable => reached)
  /\ wrote => (Healthy <=> streak < Threshold)
=============================================================================

--------------------------- MODULE EngineControl ---------------------------
(***************************************************************************)
(* Starting, stopping and deleting strategies across two processes.        *)
(*                                                                         *)
(* The web process (api/routes/engine.py, strategies.py) writes the status *)
(* of a strategy to the database and then publishes a command on a Redis   *)
(* channel, which keeps nothing for a subscriber that is not there.  The   *)
(* engine (engine/main.py) recovers the live strategies when it boots,     *)
(* then obeys the commands one by one, and stops everything when it is     *)
(* told to shut down; it may also crash.  Any call to Redis or to the      *)
(* database inside a command's handler may fail and leave it half done: in *)
(* the control loop the handler ends there and the loop subscribes anew,   *)
(* in main() the process ends (Crash).  Of a runner only what deletion     *)
(* depends on is kept: it may have one order open and hold shares.         *)
(***************************************************************************)
EXTENDS Naturals, Sequences, FiniteSets

CONSTANTS
  Strategies,
  WaitFor,      \* what users let end before they delete: "commands", "orders", the
                \* engine's "shutdown", and a "stray" task outside the active set
  MaxCommands,  \* bound on start and stop requests
  MaxStops,     \* bound on crashes and shutdowns of the engine
  MaxDrops      \* bound on errors of Redis and the database

\* The coroutines that start and stop strategies: main() and _control_loop().
Actors == {"main", "control"}

VARIABLES
  row,        \* the strategy in the database: "idle", "live" or "deleted"
  req,        \* command committed by the web and not published yet
  del,        \* delete_strategy: the check it does next
  channel,    \* commands the subscriber has received and not handled
  listening,  \* the control loop is subscribed
  engine,     \* "down", "recover", "control" or "closing"
  todo,       \* strategies _recover will start, or main will stop
  handler,    \* per actor: the next step of _start_strategy or _stop_strategy
  task,       \* per strategy: the task in _runners, "none" without an entry
  popped,     \* per actor: the task whose end _stop_strategy awaits was trading
  active,     \* the Redis set ACTIVE_STRATEGIES_KEY
  stray,      \* history: strategies whose task runs although its sadd failed
  open, holds,  \* the strategy's open order and whether it holds shares
  able,       \* what becomes of a start: the live gate refuses it, loading fails
  missed,     \* history: the last command was published to nobody, or its handler failed
  commands, stops, drops

Idle == <<>>
Trading(s) ==
  \/ task[s] = "trading"
  \/ \E a \in Actors : handler[a] = <<"wait", s>> /\ popped[a]

Commands == {"start", "stop"} \X Strategies
Steps == {"start", "create", "sadd", "stop", "wait", "srem"} \X Strategies

webVars == <<row, req, del>>
busVars == <<channel, listening>>
runVars == <<task, popped, active, stray>>
tradeVars == <<open, holds>>
boundVars == <<commands, stops, drops>>
vars == <<webVars, busVars, engine, todo, handler, runVars, tradeVars, able, missed, boundVars>>

InChannel(s) == \E i \in 1 .. Len(channel) : channel[i][2] = s
Handled(s) == \E a \in Actors : handler[a] # Idle /\ handler[a][2] = s
\* Every earlier command has taken effect.
Quiet(s) == req[s] = "none" /\ ~InChannel(s) /\ ~Handled(s) /\ s \notin todo

(***************************************************************************)
(* The web process.  A user has one request under way per strategy.        *)
(***************************************************************************)
Request(s, command, status) ==
  /\ row[s] # "deleted" /\ req[s] = "none" /\ del[s] = "none"
  /\ commands < MaxCommands
  /\ commands' = commands + 1
  /\ row' = [row EXCEPT ![s] = status]
  /\ req' = [req EXCEPT ![s] = command]
  /\ UNCHANGED <<del, busVars, engine, todo, handler, runVars, tradeVars, able, missed, stops, drops>>

\* start_strategy and stop_strategy up to the commit.
WebStart(s) == Request(s, "start", "live")
WebStop(s) == Request(s, "stop", "idle")

\* redis_client.publish, which may also raise; the status is committed by then.
Publish(s) ==
  /\ req[s] # "none"
  /\ req' = [req EXCEPT ![s] = "none"]
  /\ channel' = IF listening THEN Append(channel, <<req[s], s>>) ELSE channel
  /\ missed' = [missed EXCEPT ![s] = ~listening]
  /\ UNCHANGED <<row, del, listening, engine, todo, handler, runVars, tradeVars, able, boundVars>>

PublishFails(s) ==
  /\ req[s] # "none" /\ drops < MaxDrops
  /\ drops' = drops + 1
  /\ req' = [req EXCEPT ![s] = "none"]
  /\ missed' = [missed EXCEPT ![s] = TRUE]
  /\ UNCHANGED <<row, del, busVars, engine, todo, handler, runVars, tradeVars, able, commands, stops>>

\* delete_strategy: the status, then the active set, then the position; 409 if any
\* of them says no.
DeleteBegins(s) ==
  /\ row[s] = "idle" /\ req[s] = "none" /\ del[s] = "none"
  /\ "commands" \in WaitFor => Quiet(s)
  /\ del' = [del EXCEPT ![s] = "active"]
  /\ UNCHANGED <<row, req, busVars, engine, todo, handler, runVars, tradeVars, able, missed, boundVars>>

DeleteSkipsActive(s) ==
  /\ del[s] = "active"
  /\ "shutdown" \in WaitFor => engine # "closing"
  /\ "stray" \in WaitFor => s \notin stray
  /\ del' = [del EXCEPT ![s] = "position"]
  /\ UNCHANGED <<row, req, busVars, engine, todo, handler, runVars, tradeVars, able, missed, boundVars>>

DeleteChecksActive(s) ==
  /\ del[s] = "active"
  /\ "shutdown" \in WaitFor => engine # "closing"
  /\ "stray" \in WaitFor => s \notin stray
  /\ del' = [del EXCEPT ![s] = IF s \in active THEN "none" ELSE "position"]
  /\ UNCHANGED <<row, req, busVars, engine, todo, handler, runVars, tradeVars, able, missed, boundVars>>

DeleteChecksPosition(s) ==
  /\ del[s] = "position"
  /\ "orders" \in WaitFor => open[s] = "none"
  /\ del' = [del EXCEPT ![s] = IF holds[s] THEN "none" ELSE "commit"]
  /\ UNCHANGED <<row, req, busVars, engine, todo, handler, runVars, tradeVars, able, missed, boundVars>>

\* Orders and positions of a deleted strategy stay, without an owner.
DeleteCommits(s) ==
  /\ del[s] = "commit"
  /\ row' = [row EXCEPT ![s] = "deleted"]
  /\ del' = [del EXCEPT ![s] = "none"]
  /\ UNCHANGED <<req, busVars, engine, todo, handler, runVars, tradeVars, able, missed, boundVars>>

(***************************************************************************)
(* The engine's life                                                       *)
(***************************************************************************)
LiveInDb == {s \in Strategies : row[s] = "live"}
RecoverActive == active

\* _recover reads the live strategies from the database.
Recovered == LiveInDb

Boot ==
  /\ engine = "down"
  /\ engine' = "recover"
  /\ todo' = Recovered
  /\ missed' = [s \in Strategies |-> FALSE]
  /\ UNCHANGED <<webVars, busVars, handler, runVars, tradeVars, able, boundVars>>

RecoverNext ==
  /\ engine = "recover" /\ handler["main"] = Idle
  /\ \E s \in todo :
       /\ todo' = todo \ {s}
       /\ handler' = [handler EXCEPT !["main"] = <<"start", s>>]
  /\ UNCHANGED <<webVars, busVars, engine, runVars, tradeVars, able, missed, boundVars>>

RecoverEnds ==
  /\ engine = "recover" /\ handler["main"] = Idle /\ todo = {}
  /\ engine' = "control"
  /\ UNCHANGED <<webVars, busVars, todo, handler, runVars, tradeVars, able, missed, boundVars>>

\* SIGTERM: main stops what runs now, while the control loop may be in a handler.
Shutdown ==
  /\ engine = "control" /\ stops < MaxStops
  /\ engine' = "closing" /\ stops' = stops + 1
  /\ todo' = {s \in Strategies : task[s] # "none"}
  /\ UNCHANGED <<webVars, busVars, handler, runVars, tradeVars, able, missed, commands, drops>>

CloseNext ==
  /\ engine = "closing" /\ handler["main"] = Idle
  /\ \E s \in todo :
       /\ todo' = todo \ {s}
       /\ handler' = [handler EXCEPT !["main"] = <<"stop", s>>]
  /\ UNCHANGED <<webVars, busVars, engine, runVars, tradeVars, able, missed, boundVars>>

\* The process is gone, with its tasks and its subscription; Redis and the database
\* stay as they are.
Gone ==
  /\ engine' = "down" /\ todo' = {}
  /\ listening' = FALSE /\ channel' = <<>>
  /\ missed' = [s \in Strategies |-> missed[s] \/ InChannel(s)]
  /\ handler' = [a \in Actors |-> Idle]
  /\ popped' = [a \in Actors |-> FALSE]
  /\ task' = [s \in Strategies |-> "none"]
  /\ stray' = {}
  /\ UNCHANGED <<webVars, active, tradeVars, able, commands, drops>>

Exit ==
  /\ engine = "closing" /\ handler["main"] = Idle /\ todo = {}
  /\ Gone
  /\ UNCHANGED stops

Crash ==
  /\ engine # "down" /\ stops < MaxStops
  /\ stops' = stops + 1
  /\ Gone

(***************************************************************************)
(* The control loop                                                        *)
(***************************************************************************)
Subscribe ==
  /\ engine = "control" /\ ~listening /\ handler["control"] = Idle
  /\ listening' = TRUE
  /\ UNCHANGED <<webVars, channel, engine, todo, handler, runVars, tradeVars, able, missed, boundVars>>

\* A Redis error while the loop waits; it subscribes anew 5 seconds later.
LoseSubscription ==
  /\ engine = "control" /\ listening /\ handler["control"] = Idle
  /\ drops < MaxDrops
  /\ drops' = drops + 1
  /\ listening' = FALSE /\ channel' = <<>>
  /\ missed' = [s \in Strategies |-> missed[s] \/ InChannel(s)]
  /\ UNCHANGED <<webVars, engine, todo, handler, runVars, tradeVars, able, commands, stops>>

TakeCommand ==
  /\ engine = "control" /\ listening /\ channel # <<>> /\ handler["control"] = Idle
  /\ handler' = [handler EXCEPT !["control"] = Head(channel)]
  /\ channel' = Tail(channel)
  /\ UNCHANGED <<webVars, listening, engine, todo, runVars, tradeVars, able, missed, boundVars>>

\* The loop may be waiting for a message when the shutdown begins: one more is obeyed.
TakeLast ==
  /\ engine = "closing" /\ listening /\ handler["control"] = Idle
  /\ listening' = FALSE /\ channel' = <<>>
  /\ handler' = IF channel = <<>> THEN handler ELSE [handler EXCEPT !["control"] = Head(channel)]
  /\ missed' = [s \in Strategies |-> missed[s] \/ \E i \in 2 .. Len(channel) : channel[i][2] = s]
  /\ UNCHANGED <<webVars, engine, todo, runVars, tradeVars, able, boundVars>>

(***************************************************************************)
(* _start_strategy and _stop_strategy, run by either actor                 *)
(***************************************************************************)
\* The live gate of a real account refuses a strategy that is not approved.
BeginStart(a, s) ==
  /\ handler[a] = <<"start", s>>
  /\ handler' = [handler EXCEPT ![a] =
       IF task[s] # "none" \/ able[s] = "gated" THEN Idle ELSE <<"create", s>>]
  /\ UNCHANGED <<webVars, busVars, engine, todo, runVars, tradeVars, able, missed, boundVars>>

CreateTask(a, s) ==
  /\ handler[a] = <<"create", s>>
  /\ task' = [task EXCEPT ![s] = "loading"]
  /\ handler' = [handler EXCEPT ![a] = <<"sadd", s>>]
  /\ UNCHANGED <<webVars, busVars, engine, todo, popped, active, stray, tradeVars, able, missed, boundVars>>

AddActive(a, s) ==
  /\ handler[a] = <<"sadd", s>>
  /\ active' = active \cup {s}
  /\ handler' = [handler EXCEPT ![a] = Idle]
  /\ UNCHANGED <<webVars, busVars, engine, todo, task, popped, stray, tradeVars, able, missed, boundVars>>

StopWithoutWaiting(a, s) ==
  /\ handler[a] = <<"stop", s>>
  /\ task' = [task EXCEPT ![s] = "none"]
  /\ active' = active \ {s}
  /\ popped' = [popped EXCEPT ![a] = task[s] = "trading"]
  /\ handler' = [handler EXCEPT ![a] = IF task[s] = "none" THEN Idle ELSE <<"wait", s>>]
  /\ UNCHANGED <<webVars, busVars, engine, todo, stray, tradeVars, able, missed, boundVars>>

BeginStop(a, s) ==
  /\ handler[a] = <<"stop", s>>
  /\ task' = [task EXCEPT ![s] = "none"]
  /\ popped' = [popped EXCEPT ![a] = task[s] = "trading"]
  /\ handler' = [handler EXCEPT ![a] = IF task[s] = "none" THEN <<"srem", s>> ELSE <<"wait", s>>]
  /\ UNCHANGED <<webVars, busVars, engine, todo, active, stray, tradeVars, able, missed, boundVars>>

\* The task ends by itself within 10 seconds or is cancelled.
TaskEnds(a, s) ==
  /\ handler[a] = <<"wait", s>>
  /\ popped' = [popped EXCEPT ![a] = FALSE]
  /\ stray' = stray \ {s}
  /\ handler' = [handler EXCEPT ![a] = <<"srem", s>>]
  /\ UNCHANGED <<webVars, busVars, engine, todo, task, active, tradeVars, able, missed, boundVars>>

RemoveActive(a, s) ==
  /\ handler[a] = <<"srem", s>>
  /\ active' = active \ {s}
  /\ handler' = [handler EXCEPT ![a] = Idle]
  /\ UNCHANGED <<webVars, busVars, engine, todo, task, popped, stray, tradeVars, able, missed, boundVars>>

\* The gate of a real account cannot be evaluated: it refuses, and the command is spent.
GateFails(a, s) ==
  /\ handler[a] = <<"start", s>> /\ task[s] = "none" /\ drops < MaxDrops
  /\ drops' = drops + 1
  /\ handler' = [handler EXCEPT ![a] = Idle]
  /\ missed' = [missed EXCEPT ![s] = TRUE]
  /\ UNCHANGED <<webVars, busVars, engine, todo, runVars, tradeVars, able, commands, stops>>

\* _make_runner, sadd or srem raises: the handler is over, what it has done stays, and the
\* control loop is without a subscription for 5 seconds.
HandlerFails(s) ==
  LET step == handler["control"] IN
  /\ step \in {<<"create", s>>, <<"sadd", s>>, <<"srem", s>>} /\ drops < MaxDrops
  /\ drops' = drops + 1
  /\ handler' = [handler EXCEPT !["control"] = Idle]
  /\ listening' = FALSE /\ channel' = <<>>
  /\ missed' = [t \in Strategies |-> missed[t] \/ InChannel(t) \/ step = <<"create", t>>]
  /\ stray' = IF step = <<"sadd", s>> THEN stray \cup {s} ELSE stray
  /\ UNCHANGED <<webVars, engine, todo, task, popped, active, tradeVars, able, commands, stops>>

(***************************************************************************)
(* A runner                                                                *)
(***************************************************************************)
\* _load: without the strategy's row, or when loading raises, the task ends; its
\* entry in _runners stays.
Load(s) ==
  /\ task[s] = "loading"
  /\ task' = [task EXCEPT ![s] =
       IF row[s] # "deleted" /\ able[s] # "unloadable" THEN "trading" ELSE "ended"]
  /\ UNCHANGED <<webVars, busVars, engine, todo, handler, popped, active, stray, tradeVars, able, missed, boundVars>>

\* A tick buys or sells.  The order row refers to the strategy's.
TickOrders(s) ==
  /\ Trading(s) /\ open[s] = "none" /\ row[s] # "deleted"
  /\ open' = [open EXCEPT ![s] = IF holds[s] THEN "sell" ELSE "buy"]
  /\ UNCHANGED <<webVars, busVars, engine, todo, handler, runVars, holds, able, missed, boundVars>>

\* The executor, the sweep or a fill notice books the fill.
FillBooked(s) ==
  /\ engine # "down" /\ open[s] # "none"
  /\ holds' = [holds EXCEPT ![s] = open[s] = "buy"]
  /\ open' = [open EXCEPT ![s] = "none"]
  /\ UNCHANGED <<webVars, busVars, engine, todo, handler, runVars, able, missed, boundVars>>

(***************************************************************************)
(* The specification                                                       *)
(***************************************************************************)
Init ==
  /\ row = [s \in Strategies |-> "idle"]
  /\ req = [s \in Strategies |-> "none"]
  /\ del = [s \in Strategies |-> "none"]
  /\ channel = <<>> /\ listening = FALSE
  /\ engine = "down" /\ todo = {}
  /\ handler = [a \in Actors |-> Idle]
  /\ task = [s \in Strategies |-> "none"]
  /\ popped = [a \in Actors |-> FALSE]
  /\ active = {} /\ stray = {}
  /\ open = [s \in Strategies |-> "none"]
  /\ holds = [s \in Strategies |-> FALSE]
  /\ able \in [Strategies -> {"yes", "gated", "unloadable"}]
  /\ missed = [s \in Strategies |-> FALSE]
  /\ commands = 0 /\ stops = 0 /\ drops = 0

Delete(s) ==
  DeleteBegins(s) \/ DeleteChecksActive(s) \/ DeleteChecksPosition(s) \/ DeleteCommits(s)
Web(s) == WebStart(s) \/ WebStop(s) \/ Publish(s) \/ PublishFails(s) \/ Delete(s)
Handle(a, s) ==
  \/ BeginStart(a, s) \/ CreateTask(a, s) \/ AddActive(a, s)
  \/ BeginStop(a, s) \/ TaskEnds(a, s) \/ RemoveActive(a, s)
Fails(s) == HandlerFails(s) \/ \E a \in Actors : GateFails(a, s)
Main == Boot \/ RecoverNext \/ RecoverEnds \/ CloseNext \/ Exit
Control == Subscribe \/ TakeCommand \/ TakeLast
Runner(s) == Load(s) \/ TickOrders(s) \/ FillBooked(s)

Next ==
  \/ \E s \in Strategies : Web(s) \/ Runner(s) \/ Fails(s)
  \/ \E a \in Actors, s \in Strategies : Handle(a, s)
  \/ Main \/ Control
  \/ Shutdown \/ Crash \/ LoseSubscription

Spec == Init /\ [][Next]_vars

\* The container restarts the engine, and no coroutine of it waits for ever.
Fairness ==
  /\ WF_vars(Main) /\ WF_vars(Control)
  /\ \A a \in Actors : WF_vars(\E s \in Strategies : Handle(a, s))
  /\ \A s \in Strategies : WF_vars(Publish(s)) /\ WF_vars(Load(s))
FairSpec == Spec /\ Fairness

(***************************************************************************)
(* Properties                                                              *)
(***************************************************************************)
\* Types of the variables.
ControlTypes ==
  /\ row \in [Strategies -> {"idle", "live", "deleted"}]
  /\ req \in [Strategies -> {"none", "start", "stop"}]
  /\ del \in [Strategies -> {"none", "active", "position", "commit"}]
  /\ channel \in Seq(Commands) /\ listening \in BOOLEAN
  /\ engine \in {"down", "recover", "control", "closing"}
  /\ todo \subseteq Strategies
  /\ handler \in [Actors -> Steps \cup {Idle}]
  /\ task \in [Strategies -> {"none", "loading", "trading", "ended"}]
  /\ popped \in [Actors -> BOOLEAN]
  /\ active \subseteq Strategies /\ stray \subseteq Strategies
  /\ open \in [Strategies -> {"none", "buy", "sell"}]
  /\ holds \in [Strategies -> BOOLEAN]
  /\ able \in [Strategies -> {"yes", "gated", "unloadable"}]
  /\ missed \in [Strategies -> BOOLEAN]
  /\ {commands, stops, drops} \subseteq Nat

\* Whatever trades is in the active set, which delete_strategy asks before it
\* deletes, except while the handler that puts it there is under way, after the sadd of
\* that handler has failed (the task is in _runners by then and trades on, main.py:127),
\* or when the engine shuts down in the middle of another stop.
ActiveCoversTrading ==
  ControlTypes /\ \A s \in Strategies :
    Trading(s) /\ engine # "closing" =>
      s \in active \cup stray \/ \E a \in Actors : handler[a] = <<"sadd", s>>

\* No share is left to a strategy that is gone (delete_strategy: no ghost position).
NoGhostPosition == \A s \in Strategies : row[s] = "deleted" => ~holds[s]

\* The engine follows the database: a stopped strategy stops trading and a started one
\* that may trade does, unless the engine missed the command or failed in the middle of
\* it (main.py: _control_loop and _recover; nothing repeats a command that failed).
Obeyed(s) ==
  CASE row[s] = "live" -> Trading(s) \/ able[s] # "yes"
    [] row[s] = "idle" -> ~Trading(s)
    [] row[s] = "deleted" -> TRUE
CommandsAreObeyed == \A s \in Strategies : ~Obeyed(s) ~> (Obeyed(s) \/ missed[s])
=============================================================================

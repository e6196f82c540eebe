# QuantFolio, in TLA+

QuantFolio trades Korean stocks for its users: a web process keeps strategies
and shows results, an engine process runs the strategies that are live, and a
broker (Korea Investment & Securities, "KIS", or Toss) takes the orders.
PostgreSQL is the ledger, Redis carries commands, locks and what a strategy
remembers between two ticks. This directory models the parts where money is
moved by several actors at once, checks them with TLC and proves the invariants
that matter most with TLAPS.

All paths below are relative to `src/backend/`.

1. [The system](#1-the-system)
2. [The modules and the code](#2-the-modules-and-the-code)
3. [The runs](#3-the-runs)
4. [Fairness](#4-fairness)
5. [What is proved](#5-what-is-proved)
6. [Where the code and its documents disagree](#6-where-the-code-and-its-documents-disagree)
7. [What is not modelled](#7-what-is-not-modelled)
8. [Plan](#8-plan)
9. [Running the checks](#9-running-the-checks)

## 1. The system

### Processes and stores

| Process | Code | What it does |
|---|---|---|
| web | `app/` | FastAPI handlers; writes rows, publishes start and stop commands, deletes strategies |
| engine | `engine/` | one asyncio task per live strategy, plus the control loop, the heartbeat, the reconcile loop, the price feeds and the fill notice sockets |
| worker | `worker/` | Celery jobs: ingestion, backtests, backups, freshness checks |
| scripts | `scripts/` | manual runs, among them `reconcile_fills.py`, which writes the ledger beside the engine |

| Store | What it keeps that matters here |
|---|---|
| table `orders` | one row per signal, with a unique `idempotency_key`, the broker's number and a status |
| table `executions` | what has been booked of an order; it is only added to |
| table `positions` | quantity and average price per user, strategy and symbol |
| table `strategies` | status LIVE or IDLE; deleting a row sets `strategy_id` of its orders and positions to NULL |
| Redis locks | `lock:order:{key}`, `lock:position:{user}:{symbol}`, `reconcile:lock:{order}`: all `SET NX` with 30 seconds, all deleted in a `finally` without looking at who set them |
| Redis memory | `trail:*` (peak of a trailing stop), `rebalance:last`, `rebalance:regime`, `rebalance:mdd`, the set of active strategies |
| Redis pub/sub | `engine:control`; nothing is kept for a subscriber that is not there |

### Components

For each component: its state, its operations, whom it meets, what is hard, and
what makes it correct. `PROJECT.json` lists all of them, with their status, and
the hazards at their lines.

**Order execution** (`engine/executor.py`). State: the order lock, the order
row. Operation: `execute_signal` takes the lock, looks for a row with the key,
inserts one, sends the order, stores the number or the refusal (KIS may give neither),
asks once what was filled, books it and commits. It meets other ticks with the same signal, the
sweep and the notices. Hard: an answer that does not come (the row stays PENDING
without a number), a tick cancelled at any await, a lock that expires under it.
Correct when a signal is sent at most once and an order whose fate is unknown is
not forgotten.

**Reconcile sweep** (`engine/reconcile.py`, `scripts/reconcile_fills.py`). State:
the reconcile lock, a balance read once per sweep. Operation: for every open
order with a number, and every old PENDING one without, take the lock, read what
is booked, ask the broker, book the difference, correct the status. On the paper
account the broker's list of executions is always empty, and the balance is
compared with all executions of the symbol instead. Hard: other recorders,
stale reads, errors of one order in a loop over many. Correct when no fill is
booked twice, statuses agree with executions, and every fill is booked or
reported in the end.

**Fill notices** (`engine/fill_notice.py`, `engine/kis_ws.py`). State: one socket
per user. Operation: `apply_fill_notice` finds the order by number, takes the
same lock and books the difference to the cumulative quantity. Hard: notices that
come before the number is committed, or are lost. Correct under the same
invariants as the sweep.

**Fills and positions** (`engine/fills.py`). `record_fill` adds an execution, sets
the status and reads, changes and writes the position row. Hard: two callers on
one position. Correct when a position is what was bought less what was sold.

**Single-symbol runner** (`engine/runner.py`, `engine/base_runner.py`). State: the
position lock, the peak of the trailing stop, one order key per day, side and
kind of exit, and the daily bars it read when it was loaded. Operation: `_tick_once`
reads a price, puts it behind the bars, takes the lock, checks the stop loss, then
take profit, stop loss and trailing stop of the config, then the signal, and places
at most one order. It meets the ticks of other strategies on the same symbol, the
sweep, and fills that come late and in parts. Hard: everything it decides on was read
before an await. Correct when it sells only what is its own and gets out below the stop.
As it is, a tick fails before it takes the lock unless no bars were there (section 6).

**Risk checks** (`engine/risk.py`). No state of its own: position size limit, daily
loss limit, management flag, stop loss, all read from the database.

**Market halt monitor** (`engine/halt.py`, the gate in `engine/base_runner.py`).
State: one per process, the last observation of each symbol, NORMAL, HALTED or
COOLDOWN. Operation: the gate in front of each order notes the time, asks for a
quote, records whether the symbol is halted and judges the market. Hard: runners
judge out of order, by few and old observations. Correct when orders rest through
a halt and the cooldown, one halted symbol does not close the market, and orders
resume.

**Broker client** (`app/services/kis/client.py`, `app/services/broker/toss.py`). State:
in Redis the access token of an account and the lock under which one process fetches
it, in each process the next free slot of the limiter. Operation: a call signs an order
first (KIS), gets the token, waits for its slot, sends, and repeats what the broker
refused as one request too many. Hard: waiters that give up, a lock deleted by somebody
else, a repeated POST, callers that sleep too long. Correct when a call places one order,
requests keep the pace of the limiter, and one token is issued at a time.

**Price history** (`app/services/data/loader.py`, the nightly job of `worker/tasks.py`,
`_seed_series` of `engine/runner.py`). State: the bars in `price_ticks`, and the copy of
them each live runner keeps from its start. Operations: fill the gaps a batch or a
backtest sees, load the seed, add the price of the day. Hard: gaps worked out from the
first and the last bar, bars of days that are not over, a seed that grows old. Correct
when the table follows the days, and the signal of a day is the same from any bars that are enough.

**Local copy of market data** (`app/services/data/store/`, `app/services/metrics/fetch.py`).
State: rows per day and market, a ledger of what is confirmed, covered ranges of the
indexes, and a silence after failures. Operation: read what is confirmed, else fetch,
write and confirm in three steps. Hard: two callers, a crash between the steps, a market
that answers half, the close of the market while a call is under way. Correct when what
is confirmed is final.

**Signals** (`app/services/backtest/signals.py`). No state: sixteen kinds of strategy and
rules that users build, as functions of a series. Correct when the runner, which sees
the last bars only, and the backtest, which sees all of them, say the same.

**Portfolio backtest** (`app/services/backtest/portfolio.py`, `risk_caps.py`). State: cash,
holdings, the decision to fill tomorrow, the kill switch, the panic overlay, the regime.
Operation: one day after the other. Hard: four decision makers of different rank on one
day, fills a day later, caps, whole shares, limits. Correct when cash does not go below
zero, a kill means cash, an overlay ends, and its plan is the one of the live runner.

**Rebalancing runner** (`engine/rebalance_runner.py`, `engine/rebalance.py`). State:
all of it in Redis: the last rebalancing, the regime seen last, and the kill
switch (peak, killed, since when, owed re-entry). Operation: `_tick_once` evaluates
the drawdown, then the regime filter, then the cadence, and rebalances. Hard: a
tick that fails between two writes. Correct when a killed strategy buys nothing,
gets out, and comes back once.

**Engine process control** (`engine/main.py`, `app/api/routes/engine.py`). State:
`_runners`, the active set, the database status, commands in flight. Operations:
start, stop, recovery at boot, shutdown. Hard: two coroutines, two processes, a
channel that loses messages, errors of Redis in the middle of a handler, crashes. Correct when commands are obeyed in the end
and the active set covers what trades.

**Strategy deletion** (`app/api/routes/strategies.py`). Three checks in a row, then
the delete. Correct when no position is left without a strategy.

**Failures and alerts** (`engine/alerts.py`, the loops of `engine/main.py`,
`engine/base_runner.py` and `engine/price_feed.py`, the alerts page). State: one counter per
loop, the rows of `alerts`, the health record of a runner. Operations: a round that succeeds
or fails, `publish_alert` when the counter meets the threshold, reading and cleaning up.
Hard: what the alert goes through (database, Telegram, Redis) may be what has failed; a
counter must be set back by success and by nothing else. Correct when three failures in a
row are told once and where somebody finds it.

**Sockets** (`engine/price_feed.py`, `engine/fill_notice.py`, `_sync_feeds` and
`_sync_fill_notices` of `engine/main.py`). State: the sockets of each user. Operations: bring
them in line with the strategies that run, after each command and every minute. Hard: two
coroutines, queries that fail, credentials that change. Correct when in the end those are
subscribed who run something and have credentials.

**Backups** (`worker/tasks.py`). State: the dumps on disk, a record of the last success in
Redis. Operations: dump, rename, prune, record, copy elsewhere; check in the morning. Hard: a
worker that dies at any step, weeks of failures. Correct when one dump stays and a night
without one is told.

**The portal of the exchange** (`app/services/data/krx_index.py`, `errors.py`). State: per
process a session, a cooldown and what was answered; in the database the sectors of a quarter.
Operations: four questions, each a loop over days and markets. Hard: a portal that blocks who
asks too much, threads with one session, answers of half the markets. Correct when a block
silences all of them.

**Not modelled**: live gate, market hours, metrics and screener, most worker jobs, sessions,
the rest of the web API, frontend, deployment. See [section 7](#7-what-is-not-modelled).

## 2. The modules and the code

| Module | Models | Checked by | Proofs |
|---|---|---|---|
| `FillLedger` | the abstract specification: what any way of booking fills promises | `orders_safety` (as a property) | refinement in `OrderPipelineProofs` |
| `OrderPipeline` | executor, sweeps, notices, broker, locks, crashes | `MCOrders`, `MCOrderPipeline` | `OrderPipelineProofs` |
| `ClientState` | state of the broker client and what is to hold of it | through the next | |
| `BrokerClient` | token, limiter and retries of the KIS and the Toss client | `MCOrders` | `BrokerClientProofs` |
| `StrategyRunner` | ticks of single-symbol runners, risk checks, positions | `MCTrading`, `MCStrategyRunner` | `StrategyRunnerProofs` |
| `Signals` | the signals of all strategies (operators only) | through `PriceHistory` | |
| `PriceTable` | the daily bars of a symbol and what fills their gaps | through the next | `LocalStoreProofs` |
| `PriceHistory` | the runner's seed and the signals of its bars, over that table | `MCTrading` | |
| `StoreState` | state of the local copy and what is to hold of it | through the next | |
| `LocalStore` | confirmed frames and covered ranges of market data | `MCTrading` | `LocalStoreProofs` |
| `EngineControl` | web, control channel, engine life cycle, deletion | `MCSupervision`, `MCEngineControl` | `SupervisionProofs` |
| `MarketHalt` | halt monitor and gates | `MCSupervision` | `SupervisionProofs` |
| `RebalanceRunner` | kill switch, regime, cadence, re-entries over days | `MCRebalancing`, `MCRebalanceRunner` | `RebalancingProofs` |
| `PortfolioRules` | selection, weights, caps, orders, fills, calendar (operators only) | through the next two | `RebalancingProofs` |
| `PortfolioBacktest` | the simulation day by day | `MCRebalancing` | `RebalancingProofs` |
| `PortfolioCases` | inputs of the rules, one per behaviour | `MCRebalancing` | `RebalancingProofs` |
| `FailureAlerts` | the endless loops, their failures, what comes of an alert | `MCOutages` | `OutageProofs` |
| `FeedSync` | sockets for prices and fill notices, and what they follow | `MCOutages` | |
| `Backups` | the nightly dump and the check of the morning | `MCOutages` | `OutageProofs` |
| `KrxSource` | session, cooldown, caches and loops of the portal's client | `MCOutages` | `OutageProofs` |
| `Sums` | the sum of a function over a set (operator only) | through `OrderPipeline`, `StrategyRunner` and the proofs | `SumLemmas` |

`MCOrders`, `MCTrading`, `MCSupervision`, `MCRebalancing` and `MCOutages` put components that stand side
by side into one run: a variable (`focus` or `case`) says which of them a behaviour is about
and the others rest. They do not interact there; what one component takes from another is
described below.

`ClientState` and `StoreState` have the constants, the variables and the
properties of one component and none of its actions. The component and the MC module that sets
it beside others both extend them, so that a run checks and a theorem proves the very same
definition, although the actions of two components could not be in one module. `PriceTable` is
apart from `PriceHistory` for another reason: it does not need `Signals`, whose recursive
operators the prover does not take.

`map` in `PROJECT.json` names the lines of every definition. Definitions that
carry a mutated form of another one (such as `InsertUnchecked` before `Insert`)
are not part of any specification; they are slips the properties have to notice,
and `mutants` in `PROJECT.json` pairs them up.

**Granularity.** The engine is one asyncio process: between two awaits nothing
else runs in it, and at an await everything may. So a handler is cut at its
awaits into one action per stretch, with a program counter per coroutine.
Adjacent stretches are merged only when the second touches nothing shared before
the next await. Other processes (web, scripts, broker) interleave anywhere.
`asyncio.wait_for` around a tick is an action that jumps to the `finally`.

**FillLedger.** `accepted`, `filled`, `booked` per signal. `Place` at most once,
`Fill` up to the target, `Book` up to what is filled.

**OrderPipeline.** `status`, `numbered`, `recorded` are the two tables; an
execution row is only ever used through the sum of its order, so `recorded` is
that sum. `orderLock` and `reconcileLock` are sets of keys that exist. A worker
is one execution of `execute_signal`; its states name the await it is at
(`send`, `taken` and `refused` are inside `place_order`, before and after the
broker decides). A recorder is a sweep or the listener; `seen` is the row it
loaded, `already` the executions it read under the lock, `answer` what the broker
said, `holdings` the sweep's cached balance. A session writes a column only when
it differs from the value it had loaded, which is why `Record` takes the loaded
status. `aged` is the grace period of 300 seconds, `pastDay` the fact that the
query covers the current day. A crash (`Forget`) empties the locals and leaves
tables and Redis keys. Prices, fees and events are left out.

An order that KIS acknowledged without a number stays SUBMITTED (`CommitNumberless`); `Dropped`
names the rows that no sweep selects.

**StrategyRunner.** `SeriesFails` is `sort_index` on a seed with zoned stamps: the tick is over. Only
an empty seed gets further, with the bar of today alone, which has no signal
(`OneBarIsSilent` of `PriceHistory`); hence no tick buys or sells by a signal, and what is modelled
is every exit of the shares that the positions table had when the runner was loaded (`Holdings`).
The broker's side of an order is `size` and `filled`, which grows in parts and after the tick
(`Tardy`); the ledger's is `booked`, `sold` and the position row. `LoadRow` and `CommitFill` are
the two halves of `record_fill` with the await between them, for a tick and for the sweep; the sweep
sees an order once its number is committed. An answer that is lost, a look-up that fails, a tick cancelled at any
await, a lock that expires and a night share one bound, `MaxUpsets`. Two history variables say
what the code cannot rule out: `blind`, the strategies that evaluated a sale before an earlier one of theirs
was booked, and `raced`, those whose row two recorders had loaded at once. Quantities and prices are
whole; a sale leaves the average price as it is, so that the price of a fill does not matter here. The
live gate and the halt gate may block any order (`GateBlocks`).

**BrokerClient.** Time is in timers that a `Tick` moves on. `wait` is the time until a caller goes on
(its slot of the limiter, its back-off, its rounds of waiting for a token). `calm` is chosen once: a
broker that answers within `Latency` and refuses nothing, no process that stops, and callers that wake
when they asked to; otherwise any step may come any time later, as `asyncio.sleep` and the event
loop allow. `spare` is the time since the start of a process less `Interval` for each request, and
no more than `Burst`. Accepting an order and answering are two steps, so that an answer can be lost after
the order is placed. What an order or a query says in its answer is `OrderPipeline`'s.

**PriceTable.** `stored` is the table, a bar in it final or intraday. `Ingest` is the nightly job,
`Backtest` a user's, `Seed` what the start of a runner does to the table; each may find that the
source fails, for each gap on its own. `DayEnds` and `DayBegins` are the market's day. All days
are trading days; that the days between the bars of a series do not matter is what the code
assumes too.

**PriceHistory.** A behaviour is one of `Markets`: a strategy and the bar of each day. `Load` is the
start of a runner, `Close` and `NextDay` the market's day. `LastBars` are the last bars of a history,
as many as a seed or a backtest may have.

**Signals.** A series is a function on the bars at which it has a value, so that NaN is a bar
outside its domain and `min_periods` of pandas is `Full`. Values are whole multiples of
1/1536: averages over one to four bars and decays by a half are exact, square roots are
compared by squares, and quotients by cross-multiplication.

**LocalStore.** `AskFrame` to `PutLedger` are the steps of `cached_frame`, with one step per
market of `_fetch_per_market`; `AskRange` to `MergeCoverage` those of `cached_range`. The
source, on days that are over, tells the truth, nothing, or so little that the code sees that days
are missing (`Received`): a partial answer with more than half of the days passes its check
(`metrics/fetch.py:93-97` calls it a heuristic) and is assumed not to come. `phase` has an
evening: a call that starts before the close is over before midnight.

**EngineControl.** `handler` holds, for main and for the control loop, the step
of `_start_strategy` or `_stop_strategy` it is at; `popped` remembers that the task
whose end is awaited is still trading. Of trading itself only an open order and
a position remain. `PublishFails`, `GateFails` and `HandlerFails` are Redis or the database refusing
in the middle: what has been done stays, the command is spent, and after an error in a handler the
control loop is without a subscription. `missed` is a history variable: the last command found no
subscriber or its handler failed. `stray` is another: the strategies whose task runs although the `sadd`
after it failed.

**RebalanceRunner.** The basket is one symbol whose price moves between ticks; an
order fills when placed, or is refused, cut or skipped. `member` says whether the pool of the day has
the symbol; without it nothing is ordered (`Orders`) and a liquidation ends in silence
(`NothingToOrder`). `business` is the calendar, chosen once. The kill switch state `mdd` is one record, as it is one JSON value in
Redis. `used` holds the day's idempotency keys. Equity is cash plus holdings, as
`_live_equity` replays it. The tick is cut at each write to Redis, because a
failure between two of them is what this module is about.

**MarketHalt.** Times are ages in steps of a clock. A gate keeps the age of the time
it noted; `Evaluate(o, a)` judges observations `o` by a clock that is `a` steps slow,
which is exactly what `evaluate(now)` with an old `now` does.

**PortfolioRules.** Weights are thousandths, amounts whole won, and cash thousandths of a won, so
that costs, which are thousandths of an amount, are exact and nothing is rounded in favour of the
account. `TargetsAt` is selection,
weighting and caps, `LiveOrders` the plan of the live runner, `ApplyRebalance` the fills of the
backtest, `RebalanceDates` and `LiveDates` the two calendars. Where the code has two
implementations the module has two, and a property compares them. A case of orders has the
equity of its account and a configured `capital`, since the live runner sizes by the one and the
backtest by the other.

**PortfolioBacktest.** A day has three steps. `SimOpen` moves the market and fills yesterday's
decision, `Panic` runs the overlay, `SimDecide` lets the first of kill switch, overlay, regime
filter and cadence decide for tomorrow. Scores, volatilities, the panic label and the place of
the index between its bands are inputs of the day.

**PortfolioCases.** One behaviour per input of a rule; its only step repeats. It exists so that
TLC evaluates the rules on every input of the sets in `MCRebalancing`. `IsPortfolio` and
`IsCalendar` say what an input is: whole shares at positive prices, and days of which those of a
period follow one another.

**FailureAlerts.** The loops share nothing but the services they depend on, so `loop` chooses
one per behaviour. `MayNeed` and `AlwaysNeeds` say on which outages its round may or must fail:
a runner that has nothing to do succeeds while all is down. `at` is the step of `publish_alert`.
The last one, `Push`, raises when Redis is away and ends the task, as the heartbeat's write does
(`HeartbeatFails`). `StartAgain` is a restart of the engine, a strategy or a feed. `streak`,
`published`, `reached` and `up` keep what the property is about, apart from the code's own counter: the
failures in a row, the alerts since the counter was last set back, whether one of them is in the table or
went to Telegram, and which services have answered all the time. Telegram may be away from the start,
as when it is not configured.

**FeedSync.** `Command` is the part of a start or a stop before the sockets, with recovery at
boot as starts; `SyncFeeds` is one step, since only the control loop uses the price feeds;
`_sync_fill_notices` is cut at its awaits, because the resync loop runs it too. `Continue` is
the loop over the users to remove. `KIS_HTS_ID` is set, all accounts are with KIS, and the tasks
behind a socket do not end by themselves (`FailureAlerts` has the feed's): what the module calls
open is an entry of the manager's table.

**Backups.** Ages of files and of the record count nights. `Crash` may come anywhere and drops
the job, `Missed` is a time at which no worker ran, `Forgotten` a Redis that lost its data. Without Redis
(`away`) neither the record is written nor the check read, and no task reaches the worker.
`steady` remembers that neither the worker died today nor Redis was away: the check is a job of the
worker itself, and ends without an alert when Redis does not answer.

**KrxSource.** An answer is reduced to the day it is of and the markets it covers. `Loop` holds
both checks of the cooldown, the one of the loop and the one of `_krx_rows`; `Send` and the
answer are steps of their own, so that threads interleave between them. `extra` counts requests
since the cooldown began. `closed` is chosen once. ETF holdings, leverage and the list of all
stocks, which this file asks in the same way, are not in it; nor are the calls that
`metrics/fetch.py` makes to the same portal through pykrx, which do not look at the cooldown first.

**How the modules fit together.** `StrategyRunner` and `RebalanceRunner` call
`execute_signal`, whose inside is `OrderPipeline`; `FillLedger` is what they rely
on, and `BrokerClient` is the inside of each call `OrderPipeline` makes. `PriceHistory` shows why
a tick of `StrategyRunner` has no signal. `PortfolioRules` is the
basket that is one symbol in `RebalanceRunner`, and `PortfolioBacktest` is the same strategy in
the past. `EngineControl` decides which runners exist. `MarketHalt` is the inside of the
gate that `StrategyRunner` lets pass or block. Each module takes from its neighbours more
behaviours than they have (any verdict of the gate, any outcome of an order), so
that what holds of it holds in the whole.

## 3. The runs

Bounds are in the configurations; every bound on a counter is a constant whose
name starts with `Max`, or `Days`, `Periods`.

### Orders

`orders_safety` (`MCOrders`): one real-account order of two shares, two workers on its signal,
the engine's sweep, a script, the listener, network errors, answers with errors or
without a number after acceptance, one crash, the end of the day. Checks `NoDoubleRecording` (no
more booked than filled), `AtMostOneOrder`, `StatusTellsRecorded` (the status is
filled or partial exactly when the executions say so, whoever wrote last),
`ClosedStaysClosed` (an actor with an old row does not reopen an order) and
`ImplementsLedger`. Orders on the real account share no state but the locks, which
are per order, so one order with all actors is the interesting case; two shares
are enough for a partial fill; two workers and three recorders are enough for any
race of two and for a third that profits from it. The proofs remove these bounds
for all that this run checks. Beside it the client: two calls of the engine and one of the web
process, each an order or a query, KIS or Toss, with at most one crash or cancelled call.
`OncePerCall` (however often a call is refused and repeated, the broker takes one order),
`Paced` (a process has never sent more than one request beyond one per interval since its start,
nor, after a rest, beyond one per call: sleepers that wake late may bunch what they send, but not
add to it), `SingleFlight` (one token is issued at a time). Three calls are enough for an owner of the token lock, a waiter in another process
and one that queues behind them; a calm broker has all three, one that fails has two, of two
processes or, where the limiter matters (`focus = "engine"`), of one. `SingleFlight` assumes a calm broker, because the code's lock does: with a slow one a
waiter gives up and issues a second token, which is what its comment says it should do.

`orders_live`: as long as it takes, on two accounts (`focus`). On the real one two orders and a
worker, one crash, sweeps that a network error aborts. `RealSettles`: something is owed while an
order with a number has fills that are not booked, or the broker took an order whose number
never came back and nobody was told, unless its row is `Dropped`, that is refused, SUBMITTED or PARTIAL
without a number, which no sweep selects; there always comes a moment when nothing is owed. Two orders,
because one may keep the sweep from the other. Within the day, since the query covers the day
only. On the paper account two purchases, no notices (an engine without `KIS_HTS_ID`), the balance
alone. `SymbolNotOverRecorded`: crediting the balance never books more than the account got, with
two unconfirmed orders that claim the same shares. `PaperIsRecovered`: purchases that are filled
whole are booked, reported or `Dropped`.

`orders_slow` (violation): with `CallOutlivesLock` the reconcile lock expires under
a query, and a fill is booked twice.

### Single-symbol runners and their data

`trading` (`MCTrading`): two strategies on one symbol that is cheap (1) or dear (4), one with two
shares bought at 5, which stops its loss by its own limit or by the account's, the other with one share bought at 2, which
takes its profit or trails; seeds from the table or empty; fills in parts and late, and one upset: a
lost answer, a failed look-up or sweep, a cancelled tick, an expired lock or a night. Refusals are those
for want of shares. `SellsOthersOnlyBlindly`: a strategy outside `blind` and `raced` never has more
sold and for sale than it had. `PositionsAgree`: outside `raced`, a position is what the
strategy had less what its executions say. Two strategies are the smallest account on which one can
sell what belongs to another; two shares the smallest order that fills in parts; one upset makes
each of them meet every state of both ticks and the sweep. The proofs remove the bounds.
Beside it, one strategy of each kind and one with a rule of its own, on three histories of six
days that rise, fall and turn: `SignalLooksBack`, the signal of a day is that of the bars until it, and,
where no exponential average remembers more, that of any last bars that are one more than
`min_periods`, so no indicator needs more bars and none looks ahead; and one bar gives no
signal. `TailIsRecent`, after a batch whose source answered the table
ends where it should. Six days are longer than any indicator here needs, with one day of grace
and a lookback of four the head and the tail of the table can both be missing. And the local
copy: two callers that ask for the frame of two markets on two days, or for three overlapping
ranges of four days: `ConfirmedIsFinal`. Two callers are enough for a race, two markets for a
half answer, three ranges for a merge that bridges a hole.

`live_series` (violation): with a seed from `price_ticks` no tick reaches the stop loss, though nothing
else fails: `StopLossActs`. With `Seeds = {"empty"}` the same configuration satisfies it.

`runner_late_sales` (violation): with fills that come late and without any upset a strategy
sells the shares of the other: `NeverSellsOthers`.

### Control, deletion and market halts

`supervision` (`MCSupervision`): one strategy (commands for others only delay its own), four
requests, two crashes or shutdowns, two errors of Redis or the database (in the loop, in a
publish, at the gate, in the middle of a handler), starts that the live gate refuses or that fail
to load. `ActiveCoversTrading`, `NoGhostPosition`, `CommandsAreObeyed`. `ActiveCoversTrading` and `CommandsAreObeyed` except what such an error leaves half done (`stray`, `missed`). `WaitFor` says
what users wait for before they delete: earlier commands, open orders, the end of a shutdown, and that
no task runs outside the active set, which they cannot see: without `"stray"` TLC finds the ghost.
Four requests allow start, stop, start, stop around every step of a handler. Beside it the halt
monitor with two runners, two symbols, `MinSample` 2, a cooldown of 2, a quote that takes up to
1, observations valid for 1. `RestsAfterHalt`, `MarketIsJudged`, `Reopens`. Two runners are
enough to judge out of order, two symbols with a sample of two to tell one halted symbol from
the market; the numbers keep the order of the real ones (120 and 180 seconds).

`control_ghost` (violation): the same control without waiting for open orders.

### Rebalancing

`rebalancing` (`MCRebalancing`): the live runner over two periods of two days, any subset of
which is a holiday but for the last, prices 2 and 4, a kill at 25 %, one day of cooldown, regime
filter and immediate fill on, a pool that may lose the symbol, one failed tick or loss of Redis. `NoPurchaseWhileKilled`,
`KillLiquidates`, `CooldownEnds`, `RearmIsServed`. Four days allow kill, cooldown, re-entry and a
second kill. Beside it the backtest of five strategies over three to five days, each with those
of kill switch, overlay, regime and limits that meet in it, with prices that double, halve and
are missing for good or for a while: `NeverOverspends`, `PrecedenceIsKept` (a kill and a regime
that is off mean cash, an overlay ends). And the rules: `PlansAgree`, of `OrdersAgree` (plan of the
live runner and fills of the backtest, every position of two symbols, two targets, three prices, while the configured
capital is the equity)
and `DatesAgree` (the two calendars, every set of holidays of two months of four and three days,
and of two weeks); `ExposureIsKept`, weights add up to what was asked for (every ranking and
history of three symbols, and eight weighted by volatility); `SectorsWithinCap`, no sector is above
its limit when the redistribution ends (four symbols in two sectors, limits on both).

`rebalance_month_end` (violation): a rebalancing day that is the last of its period, and a holiday; day 3 of
3 stands for the 28th of February, the only month-end the schema lets a user choose.

`weights_overrun` (violation): up to thirty symbols weighted by volatility, most of them at the floor.

### Outages

`outages` (`MCOutages`). One of six loops, four services that break and recover at any time and
the threshold of the code, 3: `OutageIsTold`, three failures in a row bring one alert and not a second,
it is where the user finds it if the database, or Telegram for a critical one, has answered since the
counter was last set back, and the page shows a runner as unhealthy exactly then. Nothing bounds the length of a
behaviour: counters saturate past the threshold. Two users, one of them with a rebalancing strategy,
three commands, a change of credentials and a query that fails: `SubscriptionsFollow`. Three
commands are a start, a stop and one between the two coroutines' reads. Backups with a retention of
two nights and two files left behind, for ever: `BackupsAreKept`, one backup stays, a recorded one
is there, and a night without is told, but for days on which the worker died or Redis was away. Two threads, two days, blocks of two ticks and hiccups of
one, any day closed: `SilenceIsKept`, in a cooldown no thread sends more than the request it was about
to send.

In every combined run each action of each component was seen to fire, and each property was
seen to fail for a slip in its own component (`mutants` in `PROJECT.json`).

## 4. Fairness

Liveness is checked under `FairSpec` of each module; safety under `Spec`, except
where a configuration checks both.

* Ticks, sweeps, handlers, the loop of the listener: weak fairness. Each coroutine
  is awaited with a timeout or loops for as long as the process runs; the container
  restarts a dead engine.
* `ExpireOrderLock`, `ExpireReconcileLock`, `GraceEnds`, `NextDay`, the clock: weak
  fairness. Keys have a lifetime and time passes.
* `QueryAnswers` and `BalanceAnswers` of the engine's sweep: strong fairness. The
  sweep asks every minute; a broker that answers again and again with an error for
  ever cannot be converged with. This is the one assumption on the broker. It also
  assumes that an order's query is not cut off for ever by the error of an earlier one.
* `StrategyRunner` (in `live_series`): weak fairness of the tick and of the broker's fills, strong
  fairness of starting a tick and of reaching for the lock while the lock is free (two runners poll
  every 30 seconds and hold it for a moment) and of passing the gate (trading is not halted for
  ever). The counterexample has all of this: every tick runs, and fails.
* `FeedSync`: weak fairness of the control loop and of the resync loop, which runs every
  minute. None for commands, credentials or what makes a query fail.
* `MCOutages` states fairness of the steps of its sockets, `MCOrders` (`FairAccounts`) that of
  `OrderPipeline` for each account, because a behaviour is about one of them for ever.
* `LocalStore`, `PriceTable`, `PriceHistory`, `BrokerClient`, `FailureAlerts`, `Backups`, `KrxSource`, the
  backtest: safety only.
* `EngineControl`: no fairness for users, crashes or lost subscriptions, and none for
  a fill.
* `MarketHalt`: weak fairness on `Gate(r)` says that runners keep having something
  to order. When none has, the monitor is not evaluated, and nobody needs it.

## 5. What is proved

| Theorem | Says | Assumes |
|---|---|---|
| `OrderPipelineProofs!TypeCorrect` | `[]TypeOK` | |
| `OrderPipelineProofs!SentOnce` | `[]AtMostOneOrder` | |
| `OrderPipelineProofs!RecordedOnce` | `[]NoDoubleRecording` | `~Paper`, `~CallOutlivesLock` |
| `OrderPipelineProofs!StatusIsTold` | `[]StatusTellsRecorded` | `~Paper`, `~CallOutlivesLock` |
| `OrderPipelineProofs!NeverReopened` | `ClosedStaysClosed` | `~Paper`, `~CallOutlivesLock` |
| `OrderPipelineProofs!RealWithinFills` | `[]SymbolNotOverRecorded` | `~Paper`, `~CallOutlivesLock` |
| `OrderPipelineProofs!PaperWithinFills` | `[]SymbolNotOverRecorded` | `Paper`, `~Notices`, `Scripts = {}` |
| `OrderPipelineProofs!Refinement` | `Spec => ImplementsLedger` | `~Paper`, `~CallOutlivesLock` |
| `BrokerClientProofs!TypeCorrect` | `[]ClientTypes` | `ClientConstants` |
| `BrokerClientProofs!PlacedOnce` | `[]OncePerCall` | `ClientConstants` |
| `BrokerClientProofs!KeepsPace` | `[]Paced` | `ClientConstants` |
| `BrokerClientProofs!OneToken` | `[]SingleFlight` | `ClientConstants`, `Prompt` |
| `StrategyRunnerProofs!TypeCorrect` | `[]TypeOK` | |
| `StrategyRunnerProofs!OwnShares` | `[]SellsOthersOnlyBlindly` | |
| `StrategyRunnerProofs!BooksRight` | `[]PositionsAgree` | |
| `LocalStoreProofs!TypeCorrect` | `[]StoreTypes` | `StoreConstants` |
| `LocalStoreProofs!ConfirmedStaysFinal` | `[]ConfirmedIsFinal` | `StoreConstants` |
| `LocalStoreProofs!TailRecent` | `[]TailIsRecent` | |
| `SupervisionProofs!TypeCorrect` | `[]ControlTypes` | |
| `SupervisionProofs!ActiveCovers` | `[]ActiveCoversTrading` | |
| `SupervisionProofs!NoGhost` | `[]NoGhostPosition` | `Patient` |
| `SupervisionProofs!HaltTypeCorrect` | `[]TypeOK` of `MarketHalt` | |
| `SupervisionProofs!Rests` | `[]RestsAfterHalt` | |
| `SupervisionProofs!Judged` | `[]MarketIsJudged` | |
| `RebalancingProofs!TypeCorrect` | `[]TypeOK` of `RebalanceRunner` | |
| `RebalancingProofs!KillOutranks` | `NoPurchaseWhileKilled` | |
| `RebalancingProofs!CashSuffices` | `[]NeverOverspends` | |
| `RebalancingProofs!PrecedenceKept` | `[]PrecedenceIsKept` | |
| `RebalancingProofs!PlansAgreed` | `[]PlansAgree` | |
| `RebalancingProofs!SectorsCapped` | `[]SectorsWithinCap` | |
| `OutageProofs!OutageTold` | `[]OutageIsTold` | |
| `OutageProofs!BackupsKept` | `[]BackupsAreKept` | |
| `OutageProofs!SilenceKept` | `[]SilenceIsKept` | |

They hold for every number of orders, workers, scripts, runners, strategies, symbols, days,
prices, limits, calls, callers, threads and markets, every threshold, retention, cooldown and
lookback, and every bound on requests, crashes and failures.
What a module assumes of its constants, it says in a named assumption that TLC evaluates in every
run of it; `ClientConstants` and `StoreConstants` are those of two components whose
constants the run's module gives (`MCOrders` and `MCTrading` assume them). `BacktestAssumption`
is what the schemas let a user save (`app/schemas/strategy.py`: fees, tax and slippage are small
fractions, the windows of the overlay at least a day; `portfolio.py:877`: recovery is clamped to a
fraction) and that a universe is finite. `CasesAssumption` says what a portfolio and a calendar
are: whole shares with prices above zero, and periods whose days follow one another; and that
weights add up to no more than 1.0 where the limit of a sector is 1.0, since then nothing is cut. The others leave
behaviours out, each for a reason:

* `~CallOutlivesLock`: the run `orders_slow` is the counterexample without it. `~Paper` is the
  real account: on the paper account the executions of one order follow from a balance of the
  whole symbol, and only the sum over the symbol is bounded.
* `Scripts = {}` and `~Notices` on the paper account: a sweep by hand beside the engine, or a fill
  notice, books shares that the balance has given to another order (section 6). An engine without
  `KIS_HTS_ID`, which does not listen, and that is left alone satisfies both.
* `Patient`: users wait for earlier commands, for open orders and for the end of a shutdown before
  they delete, and no task of the strategy runs outside the active set. The run `control_ghost` is
  the counterexample without open orders; `WaitFor` of `supervision` has all four. The last is no
  more than luck, since the page shows nothing of such a task.
* `Prompt`: the callers are finitely many, and in each process the slots of all its calls and one
  answer of the broker are over before a waiter has had its rounds and before the token lock
  expires; a token lives longer than those rounds. With a slow broker a waiter gives up and issues
  a second token, as the code's comment says. The constants of `orders_safety` satisfy it.

**AtMostOneOrder** is not inductive: nothing in it says why a worker that is about to
send has not sent before. `SendInv` adds that a worker past the insert has a row, that
no two such workers have the same key, that the broker knows nothing of an order
before it is sent, and nothing of an order without a row. The order lock does not
occur in it: it may expire at any time, and the unique key alone carries the argument.

**NoDoubleRecording** needs `RecordInv`. Orders come in two classes: those in flight
in a worker, which are not yet numbered or aged and of which nothing is booked, so
that only the worker books them; and the reachable ones, which only a recorder books.
A recorder past its `SET NX` holds the key, no other recorder works on its order, what
it has read as booked still is what is booked, and its answer is no more than what is
filled, because fills only grow. Hence booking `answer - already` on top of `recorded`
ends at `answer`, which is at most `filled`.

**Refinement** follows from both: `BrokerAccepts` is `Place`, `BrokerFills` is `Fill`,
and the steps that change `recorded` (`CommitAttempt`, `ApplySweep`, `ApplyNotice`) are
`Book` or stutter; every other step stutters.

**StatusTellsRecorded** and **ClosedStaysClosed** rest on `StatusInv`. Only the worker that sends
an order writes the status of one that is in flight, and a refused order is never reachable for a
recorder. A recorder about to apply asks for more than it read as booked, and by `RecordInv` what
it read is what is booked. The status it loaded before it took the lock may be old, but it is at
most behind: a loaded PARTIAL or FILLED has its executions. So a write that is left out because
the loaded value is the same leaves a status that the executions support.

**SymbolNotOverRecorded** on the real account is `NoDoubleRecording` summed over the orders. On the
paper account that does not hold of one order, and `PaperInv` carries the sum itself: what the
engine's sweep has cached as holdings is at most what was bought, and from its cross-check to its
commit what is booked of the symbol together with the credit is at most what was bought, since
nobody else adds an execution in between. Both need facts about sums over finite sets (a sum of
naturals is one, it grows with its terms, one changed term changes it by the difference).
`SumLemmas` proves them from the recursive function behind `FoldSet`; induction over finite
sets with an operator as parameter is beyond the provers, so `SubsetInduction` speaks of a set of
subsets and follows from the well-foundedness of the naturals.

**StrategyRunner.** `RunnerInv` says of each strategy what its tick knows and what its orders can
still do. `Unbooked`: an order without a number has nothing booked, and one that was refused no
size. `Swept`: what the sweep is about to book of an order is filled and not booked yet. `Ordered`: a
tick that resolves, books or commits has an order the sweep does not see, and books no more than the
broker has filled of it. Outside `raced`, `Alone`: one recorder at a time has the row of a strategy. Hence
`Loaded`, it has the row as it is, and `Remaining`, the row is what the executions leave, which is
`PositionsAgree`. Outside `blind` as well, `Informed`: a sale on its way to the broker is of all shares,
while none is for sale. With it `Covered` is inductive, and `SellsOthersOnlyBlindly` follows. Nothing
here names the position lock, which may expire, or counts on a tick to reach its end: what is
committed to the ledger carries the argument.

**ActiveCoversTrading.** `TurnsInv` says that until a shutdown main and the control loop take
turns and that an engine that is down trades nothing; `ActiveInv` says where a strategy with a task
is: in the active set, in `stray`, or at the one step of a start before it. A stop takes it out only after it
has seen the end of the task.

**NoGhostPosition.** `DeleteInv` follows the three checks of a deletion. Once it has begun no command
for the strategy is under way; once the active set has been asked it has no task and none can be
made; once the position has been asked it has none, and no order that could bring one. Each check
is good for ever because of what the one before found, which is why their order matters, and
`ActiveInv` is what makes the first of them mean something.

**NoPurchaseWhileKilled** needs to know what a tick is doing when the switch is on:
`KillRules` says that no tick of a killed strategy is at the regime filter or the
cadence, and that one that trades has cash for its goal. `Finish` and the loss of Redis
end the kill or leave it; none of them starts a purchase.

**RestsAfterHalt** needs the age of the cooldown: `RestInv` says that the last verdict is
at least as old as the cooldown's start, less the latency of one quote. A judgement that
ends the cooldown sees it `CooldownSec` old by a clock that is slow, so it is at least
that old by the true one.

**MarketIsJudged.** `JudgeInv` ties observations to the exchange: a symbol seen halted is one that
may be halted by itself or the market is down, and since the market went down nothing was seen
trading. After `Old`, that is when all older observations have run out and all gates that asked
before have had their answers, the last judgement was by observations of a stopped market
alone, so that enough of them mean `halted`. The proof needed a longer `Lasting` than the model had:
`2 * ObserveTtl + Latency + 1` after the stop is enough for any constants, the former value was so
only for those of the run.

**OncePerCall** and **Paced** rest on two invariants. `OnceInv` ties what the broker has of
a call to the step the call is at: nothing before it is sent, one order once it is taken,
and nothing is sent again from there. `PaceInv` counts: the
calls that wait for a slot of a process, and those of them whose slot comes within `n` ticks, have
been given their time by `spare` and the next slot, whenever they wake; to send takes one from the
count and one interval from `spare`. That two requests are an interval apart, which is what
`client.py:48` says of the limiter, does not follow and is not so: only while all is calm does
nobody oversleep (`SlotInv`, which `SingleFlight` needs).

**SingleFlight.** `LineInv` says that the slots of a calm process leave no gaps, so that the
next one is as far away as there are calls in front of it, at most all calls of the process.
`FlightInv` then counts time: who holds the token lock has the token before the lock expires and
before those who wait for it have had their rounds (`Due`), and each waiter either sees the
token in the cache, or a caller that will have it in time. It is the one proof here that stands on
deadlines, and `Prompt` has exactly the inequalities it uses.

**ConfirmedIsFinal** needs to know what each caller carries between its steps. `FrameIsOfToday`
and `RangeIsOfToday` say that a value of the middle of a trading day is of the current day,
and that nobody takes one into the late evening: what a caller brings over midnight is final.
`FrameIsWritten` and `RangeIsWritten` say that what was written is in the copy and final unless
another caller of the same day has overwritten it with an older answer, which none does once
the day is past; so a confirmation, which asks for a past day, finds it final.
`MergedCovers` shows that merging intervals covers no day that none of them covered: this is
where a least start and a greatest end are needed, which `LeastElement` and `GreatestElement`
take from the well-foundedness of the natural numbers. `Evening` is what the argument
stands on: were a call that began before the close still under way after midnight, its answer
could be confirmed.

**TailIsRecent.** `Recent` says that on the day of a batch whose source answered the table reaches
from the head of the lookback to that day, but for the grace. After it only bars are added, by
whomever, so it stays true until the day ends. That the batch itself brings it about is a case
for each gap it found or did not find, and needs a least and a greatest day of the table
(`LeastElement`, `GreatestElement`). What lies between the two is not said, as `GapsOf` does not look
there.

**NeverOverspends.** On one day the fills come in this order: sales first, then all purchases,
and when their cost and what slips exceed the cash all purchases are cut by the same factor. The
argument (`AffordableIsPaid`, `FillsSolvent`) is that each cut purchase, rounded down, costs no
more than its part of the cash, that the parts add up to no more than the whole (`SumLemmas`), and
that a sale of what is held brings no less than nothing, for which costs and tax must not exceed
the amount. A day's prices, delistings and the recovery after them leave cash and positions
natural (`MarkedSolvent`).

**PrecedenceIsKept.** `SimIInv` says which of the decision makers has the day. `SwitchRules`: between
the days nothing but the kill's liquidation is pending while the switch is on, and within a
day no decision is made before the switch has had its say. `KillSells`: a killed strategy holds
nothing, or its liquidation is the decision to be filled tomorrow; with limits on what a
day's volume takes it may take more than a day, and neither the property nor the invariant speaks
of them. `OverlayRules` and `Within`: an overlay counts its days, with one day more before it is
looked at than after, so that its end comes on the day of its deadline, and a kill leaves none.

**PlansAgree.** Once the configured capital and the equity are one amount, the backtest divides twice where the live runner divides once: it has an amount for
each symbol and makes shares of it. `DivisionTwice` is that floor(floor(a/m)/n) is floor(a/mn), and
`SharesAgree` that the two hence differ in a sale only, by a share, when what is kept is not a whole
number of shares. `DatesAgree` compares a set with a memory: the live runner remembers the
last day it rebalanced. That memory is a recursive function of the day, which exists by induction
(`LastDateExists`) and always names the last of the days the backtest chooses; here the
days of a period must follow one another.

**SectorsWithinCap** says that a loop has done its work when it ends. In one round each sector above
the limit is cut to it, but for the rounding (`PartsAddUp`: parts in proportion, rounded down, miss
the whole by less than one each), and one at the limit gets nothing more; so a sector that was at
the limit stays there, and while one is above it one more gets there (`SectorRound`, `AtLimit`).
There are no more sectors than symbols, so after as many rounds none is above it (`SectorCapped`).
The rounds are a recursive function again; `RoundsExist` is the induction for it.

**OutageIsTold.** `AlertInv`: the code's counter is the number of failures in a row, for every loop but
the control loop, whose counter is set back at shutdown only; a long streak has been published once or
is at the step that publishes it, and what has answered since then was asked; the health record is the counter at the time it was written.

**BackupsAreKept.** `BackupInv` is about what a step takes for granted: the file of the night is there
from its renaming until the record of it, no backup runs by day, and the check of the morning
comes after the night of a worker that lives and reads its record while Redis answers. Pruning keeps the newest, so the retention may be any.

**SilenceIsKept.** `SourceInv`: a thread about to send has seen, at some time, that there was no
cooldown, so that in the one that has begun since it has sent nothing. All other steps of a thread
are dealt with by one lemma (`KeepsSilence`), for they send nothing and leave nobody about to send.

Only model-checked are

* all liveness properties (`RealSettles`, `PaperIsRecovered`, `Reopens`, `CommandsAreObeyed`,
  `KillLiquidates`, `CooldownEnds`, `RearmIsServed`, `SubscriptionsFollow`): the prover
  has no fairness and no ENABLED;
* `SignalLooksBack`: `Signals` is written with RECURSIVE operators, as decaying averages
  and rules of users are, and what they compute for every series needs induction over data;
* `ExposureIsKept`: it speaks of all of selection, weighting and limits at once. Of weights by
  volatility what a proof would need is false beyond 26 symbols, which is how `weights_overrun` was
  found;
* the status of an order on the paper account, on which the executions of one order may exceed
  its own fills.

## 6. Where the code and its documents disagree

Each has a run that expects the violation, and an entry under `findings`:

* `orders_slow`: `engine/reconcile.py:25-26` says that repeating a query never books
  twice. The lock lives 30 seconds, a query with its retries about 50, and the `finally`
  deletes the key whoever holds it.
* `runner_late_sales`: `engine/risk.py:92-96` says that selling its own quantity keeps a
  strategy from selling the shares of others. While a sale is unfilled the quantity
  still counts them, and the next exit has another key.
* `control_ghost`: `app/api/routes/strategies.py:398-400` says that no ghost position is
  left. Open orders are not looked at.
* `rebalance_month_end`: `engine/rebalance.py:431-433` says that clamping the day to the
  end of the month keeps the month from being skipped, and line 407 that a holiday is made up for on
  the next business day. The schema lets users choose up to the 28th; 28 February 2026 is a Saturday, and
  no business day of that month is left.
* `live_series`: `engine/runner.py:3-5` describes a tick as seed, price, signal (the stop loss first),
  order. The stamp of today has no zone, the index of a seed from `price_ticks` is UTC, and
  `sort_index` (`engine/runner.py:167`) raises in every tick of an open market, before the stop loss
  (line 182). `portfolio.py:124-132` strips the zone for this reason. A runner without a seed gets past
  it with one bar, which has no signal. So no tick buys, and only one without bars in the table sells.
* `weights_overrun`: `engine/rebalance.py:103` says that the weights always add up to 1.0. The
  symbols fixed at the floor or the ceiling of weights by volatility can use up more than what is left
  for them (line 142): with 27 symbols, 6 at the ceiling, the weights add up to 1.005, with 30 to
  1.02. `ExposureIsKept` of the passing run has eight.

Met while modelling, without a run of their own:

* `engine/halt.py:95-97` says that with too few observations the state is kept; `evaluate`
  leaves HALTED for COOLDOWN (`halt.py:112-119`), as `Evaluate` does.
* A gate that waited for its quote starts the cooldown at the time it noted before
  (`engine/base_runner.py:279`), so the rest is shorter than `cooldown_sec` by up to that
  wait. `RestsAfterHalt` states what is left; without `- Latency` it fails.
* `engine/reconcile.py:269`: an exception other than `BrokerError` on one order leaves the
  loop over all of them, and the reconcile loop of `engine/main.py:329-348` starts over in
  the next minute; an order that fails each time keeps the later ones from being asked
  about. `RealSettles` holds because of the strong fairness of each order's query.
* `engine/reconcile.py:108-119`: an unconfirmed order that the balance explains in part
  becomes PARTIAL without a number, and one that KIS answers without `ODNO`
  (`app/services/kis/client.py:361`, `engine/executor.py:194-195`) SUBMITTED without one: neither branch
  of the selection finds them again. `RealSettles` and `PaperIsRecovered` except them (`Dropped`).
* `engine/fills.py:3-4` calls `record_fill` the one entry that keeps position and status consistent.
  It reads the position row before it writes it: a tick and the sweep that book parts of two
  orders of a strategy at once lose one part. TLC refutes `PositionsAgree` without `raced`.
* `engine/executor.py:197-203` and `engine/base_runner.py:133`: a sale that the broker took may be filled
  and not booked when the look-up fails or the tick is cancelled, and the next exit sells again.
* `engine/runner.py:185, 195`: the peak of the trailing stop is forgotten before the sale, so that a sale
  which the gate stops leaves no trailing stop behind.
* `engine/main.py:126-130`: a `sadd` that fails leaves a task that trades outside the active set until it
  is stopped, and delete_strategy does not see it; an error in a handler loses its command. Nothing
  repeats either.
* `engine/rebalance_runner.py:541-546` says that a holding which left the pool gets target 0 and is
  sold. `_holdings` looks in the pool only (line 1040), and lines 747-749 end a liquidation with
  nothing to sell in silence.
* `engine/rebalance_runner.py:763` sizes by the configured capital, `portfolio.py:600` by the equity;
  `portfolio.py:60` says so. `OrdersAgree` compares them while these are one amount.
* `app/services/kis/client.py:48` says that the limiter enforces a minimal distance. Callers sleep outside
  its lock and do not look again, so two requests may be closer. `Paced` is what is left.
* `engine/alerts.py:100-113`: an alert published while the database and Telegram are away reaches nobody,
  and the counter has passed the threshold.
* `engine/reconcile.py:80` adds purchases and sales when it works out what the balance has
  left, so a purchase after a sale is not recovered.
* `engine/reconcile.py:62-66` names the lock per order as what keeps engine and
  `scripts/reconcile_fills.py` from booking a fill twice. On the paper account a fill is credited
  from the balance of the symbol (`_balance_cross_check`), so that a lock per order does not do:
  with two open orders of one symbol each of the two sweeps credits the same shares to another
  order. A fill notice does so without any race: the sweep credits the shares of one order to
  the other, and the notice, which only looks at the executions of its own order, books them
  again (`engine/fill_notice.py:139-140` says that notice and sweep do not record the same fill
  twice). TLC finds both when `Scripts` or `Notices` of `OrdersLive.cfg` are set otherwise, and
  `PaperWithinFills` assumes that they are not.
* `engine/executor.py:197`: a network error during the look-up rolls back the number of an
  order that was acknowledged; `executor.py:188-190` speaks of errors as "not filled yet".
* `engine/main.py:5` says that recovery reads the active set; `_recover` reads the status
  LIVE from the database. `StopIsObeyed` fails with the former (it is that property's
  mutant).
* A runner whose `_load` fails stays in `_runners`, so that a start is ignored until a stop
  was sent; two requests may publish in another order than they commit; at shutdown the
  control loop may take one more start, and main may remove a strategy from the active
  set while the other coroutine still waits for its task.
* `engine/rebalance_runner.py:177`: a tick that fails right after `_set_regime` loses the
  re-entry of the transition it saw.
* `app/services/kis/client.py:142-165`: the lock under which a token is issued lives 10 seconds
  and is deleted by whoever took it first, and waiters give up after four; with a slow broker two
  tokens are issued. `SingleFlight` speaks of a fast one.
* `app/services/backtest/risk_caps.py:131-136`: the sector cap comes after the position cap and
  hands its excess to other symbols, past `max_position_pct`, which `app/schemas/strategy.py:550`
  calls the upper limit of a symbol. `SectorsWithinCap` therefore is about sectors only.
* `app/services/backtest/portfolio.py:1048-1052`: a held symbol without a price on the day of the
  fill is dropped from the targets as not tradable, and what is not in the targets is sold.
* `app/services/backtest/portfolio.py:1081-1086`: on the first day after a halt the price before
  is missing, and the change over the halt is not in the value of the position.
* `app/services/data/loader.py:251-267`: a hole between the first and the last bar of the table is
  never filled; lines 270-274: the batch counts a symbol whose source failed as done.
* A bar stored while the market trades stays in `price_ticks` until the tail is asked for again,
  with days of grace.
* `engine/runner.py:75-100` reads the daily bars once, when the runner is loaded: if `sort_index` did not
  fail, the series of the second day would skip the first one.
* `engine/main.py:241-244` promises an alert for failures of the control loop in a row; its counter
  is set back only where the inner loop ends (line 269), which is at shutdown. So it counts the
  failures of weeks, and after the third nobody is told again. `OutageIsTold` leaves the control
  loop out.
* `engine/base_runner.py:121-126` says that a runner goes on until it is told to stop.
  `publish_event` (`engine/alerts.py:124`) raises when Redis is away, inside the handler of the
  failed tick: the task ends, `_runners` keeps it, and a start is ignored. The price feed and the
  heartbeat (`main.py:303-310`) end in the same way.
* `engine/main.py:370-372` wants the resync loop to make good a change of credentials; a user who
  is listening is not looked at again (lines 220-224), and price feeds only when symbols change.
* `app/services/data/krx_index.py:442-448` and `528-535`: one market that answers makes half a map
  which is cached as the whole; the docstring of `snapshot_sector_map` (604-605) says that
  partial failures are not swallowed. With half the market values the liquidity filter drops the
  other half.
* `app/services/data/errors.py:108`: a later failure of a shorter kind shortens the cooldown of a
  block, and a login that another thread had begun clears it (`krx_index.py:132`).
* `worker/tasks.py:376-385`: `.tmp` files of a worker that died in the dump are never removed;
  lines 441-442: when Redis fails after the rename the task ends without an alert, and the check of
  the morning reports a backup that is there as missing; line 505: without Redis that check ends
  without an alert, too.
* `worker/tasks.py:495-531`: the check that reports that the worker may not be running is a job
  of that worker.

## 7. What is not modelled

* *Metrics, screener, recommendations, news, symbols*: computations over tables and
  pass-through queries that keep nothing between two calls.
* *Clients of DART, KOFIA, the KIS master file, and parsing of what KRX answers*: translation of
  foreign formats. What they answer, and how they fail, is any value in `LocalStore` and
  `PriceTable`.
* *Single-symbol backtest, statistics, attribution, slippage calibration*: floating point
  summaries of a simulation. `Signals` has the signals they start from.
* *Live gate, sessions, the other batches of the worker, the alerts of other callers than the
  endless loops*: they do have state and races; planned.
* *Parsing of quotes and charts, Toss endpoints*: only requests, tokens and retries of the two
  clients are in `BrokerClient`.
* *Panic overlay refusal and preview* of the rebalancing runner. In `RebalanceRunner` one symbol
  stands for the basket; `PortfolioRules` has the basket.
* *Purchases and sales by signal of single-symbol runners, with the position limit, the daily loss
  limit and the management flag*: no tick reaches them (section 6).
* *Frontend, migrations, deployment*: only through what they do to the rest (requests,
  constraints, restarts).

Abstractions that a reader should know of: prices and quantities are small integers (but
for the exact ratios of `Signals`); an order book does not exist, and fees and taxes only in
`PortfolioRules`; one user and one
symbol per model; the database gives each statement the last committed state (READ
COMMITTED), and a commit is one step; Redis commands are atomic.

## 8. Plan

In this order, each with its property and, where it is inductive, its theorem:

1. `BatchJobs`: backtest rows, universes and reports, over retries and dead workers.
2. `LiveGate`: approval against executions.
3. Purchases of `StrategyRunner` with the position and the loss limit, once `sort_index` is mended;
   its composition with `OrderPipeline` on a small instance.
4. `PanicOverlay` of the live runner, beside the one of `PortfolioBacktest`.
5. Proof of `ExposureIsKept` for the weights that are equal or follow the rank.

## 9. Running the checks

    tlc -workers 2 -config Orders.cfg MCOrders
    tlc -workers 2 -config Trading.cfg MCTrading
    tlapm OrderPipelineProofs.tla

`PROJECT.json` names module and configuration of every run. Deadlock is checked for the orders.
It is off where the calendar, the days of a history or the bounds on requests end the behaviour.

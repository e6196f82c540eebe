--------------------------- MODULE StrategyRunner ---------------------------
(***************************************************************************)
(* The single-symbol strategies of one user on one symbol: what a tick of  *)
(* StrategyRunner (engine/runner.py) reads, decides and sells, with the    *)
(* risk checks it asks (engine/risk.py), the gates of _place               *)
(* (engine/base_runner.py) and the position a fill leaves (engine/fills.py)*)
(*                                                                         *)
(* A tick puts the naive stamp of today into its copy of the seed.  A seed *)
(* read from price_ticks has stamps with a zone, and sort_index raises     *)
(* before anything is decided; a seed that came back empty becomes a       *)
(* series of one bar, which has no signal (OneBarIsSilent, PriceHistory).  *)
(* So a tick buys nothing and what it can sell it sells by its exits: the  *)
(* shares are those the positions table had when the runner was loaded.    *)
(*                                                                         *)
(* All strategies trade on one account: the broker knows shares of the     *)
(* symbol, the positions table says whose they are.  Ticks of different    *)
(* strategies and the sweep that books what they left interleave at every  *)
(* await.  OrderPipeline has the locks and the lost answers of one order.  *)
(***************************************************************************)
EXTENDS Integers, FiniteSets, Sums

CONSTANTS
  Strategies,
  Prices,       \* prices of the symbol
  Holdings,     \* [qty, avg] of every strategy: positions at the start
  Seeds,        \* what _seed_series may have read: "stored" bars or "empty"
  StopPct,      \* RiskLimit.stop_loss_pct
  LossPct, TakePct, TrailPct,  \* config stop_loss_pct, take_profit_pct, trailing_stop_pct
  Tardy,        \* an order may fill in parts, and after its tick
  MaxUpsets,    \* bound on failed calls, ticks that time out, locks that expire, and nights
  Refusals      \* the broker may refuse an order

ASSUME RunnerAssumption ==
  /\ IsFiniteSet(Strategies) /\ "sweep" \notin Strategies
  /\ Prices \subseteq Nat \ {0}
  /\ Holdings \subseteq [qty : [Strategies -> Nat], avg : [Strategies -> Nat]]
  /\ Seeds \subseteq {"stored", "empty"}
  /\ {StopPct, LossPct, TakePct, TrailPct} \subseteq Nat
  /\ {Tardy, Refusals} \subseteq BOOLEAN
  /\ MaxUpsets \in Nat

\* The part of the idempotency key that is not the strategy: the day, and the suffix
\* of the exit.
Exits == {"stop", "sl", "tp", "trail"}
Keys == Strategies \X Exits
KeysOf(s) == {s} \X Exits

VARIABLES
  price,                \* the market
  lock,                 \* the key lock:position:{user}:{symbol} exists
  qty, avg,             \* table positions, per strategy
  had, sold,            \* shares at the start, and sales in table executions
  peak,                 \* trail:{strategy}:{symbol}, 0 without the key
  seed,                 \* the seed of each runner
  state,                \* table orders: "sent" has no number
  size, filled,         \* the broker: the sale it accepted, what it has filled of it
  booked,               \* table executions of the order
  shares,               \* the broker: shares of the symbol
  pc, px, want, kind, got,   \* a tick's locals
  upsets,               \* so far
  row, sweep, due,      \* the position row a recorder has loaded; the order the sweep
                        \* books and how much of it
  blind,        \* history: strategies that evaluated a sale while an earlier one was not
                \* booked in full, or left one that never will be
  raced         \* history: strategies whose row two recorders had loaded at once

NoKey == <<>>
marketVars == <<price, had, seed>>
bookVars == <<qty, avg, sold, booked>>
brokerVars == <<size, filled, shares>>
localVars == <<px, want, kind, got>>
rowVars == <<row, sweep, due>>
historyVars == <<blind, raced, upsets>>
vars == <<marketVars, lock, bookVars, peak, state, brokerVars, pc, localVars, rowVars, historyVars>>

Upset == upsets < MaxUpsets /\ upsets' = upsets + 1
Key(s) == <<s, kind[s]>>
Open == [k \in Keys |-> size[k] - filled[k]]
Waiting == [k \in Keys |-> size[k] - booked[k]]
ForSale == shares - SumOver(Open, Keys)

(***************************************************************************)
(* risk.py                                                                 *)
(***************************************************************************)
\* _aggregate_position: all strategies of the user, at cost.
Exposure == SumOver([s \in Strategies |-> qty[s] * avg[s]], Strategies)
TotalQty == SumOver(qty, Strategies)

\* check_stop_loss looks at the aggregate, (avg - price) / avg >= stop_loss_pct.
StopHit(p) ==
  /\ TotalQty > 0 /\ Exposure > 0
  /\ (Exposure - p * TotalQty) * 100 >= StopPct * Exposure

SellQtyOfAccount(s) == TotalQty
\* evaluate_sell with strategy_id: this strategy's own quantity.
SellQty(s) == qty[s]

(***************************************************************************)
(* A tick: _tick_once                                                      *)
(***************************************************************************)
StartTick(s) ==
  /\ pc[s] = "idle"
  /\ pc' = [pc EXCEPT ![s] = "series"]
  /\ px' = [px EXCEPT ![s] = price]
  /\ UNCHANGED <<marketVars, lock, bookVars, peak, state, brokerVars, want, kind, got, rowVars, historyVars>>

\* Whatever way a tick ends, its locals are gone.
Forget(s) ==
  /\ px' = [px EXCEPT ![s] = 0] /\ want' = [want EXCEPT ![s] = 0]
  /\ got' = [got EXCEPT ![s] = 0] /\ kind' = [kind EXCEPT ![s] = "stop"]

Leave(s) == pc' = [pc EXCEPT ![s] = "unlock"] /\ Forget(s)

\* sort_index cannot order stamps with and without a zone.
SeriesFails(s) ==
  /\ pc[s] = "series" /\ seed[s] = "stored"
  /\ pc' = [pc EXCEPT ![s] = "idle"] /\ Forget(s)
  /\ UNCHANGED <<marketVars, lock, bookVars, peak, state, brokerVars, rowVars, historyVars>>

\* An empty seed gives the series of today; a tick that then finds the lock taken is skipped.
LockPosition(s) ==
  /\ pc[s] = "series" /\ seed[s] = "empty"
  /\ IF lock
     THEN pc' = [pc EXCEPT ![s] = "idle"] /\ Forget(s) /\ UNCHANGED lock
     ELSE pc' = [pc EXCEPT ![s] = "held"] /\ lock' = TRUE /\ UNCHANGED localVars
  /\ UNCHANGED <<marketVars, bookVars, peak, state, brokerVars, rowVars, historyVars>>

\* _holding_qty; without shares the peak of the trailing stop is forgotten, and there
\* is no signal to buy any.
ReadHolding(s) ==
  /\ pc[s] = "held"
  /\ IF qty[s] > 0
     THEN pc' = [pc EXCEPT ![s] = "stop"] /\ UNCHANGED <<peak, localVars>>
     ELSE Leave(s) /\ peak' = [peak EXCEPT ![s] = 0]
  /\ UNCHANGED <<marketVars, lock, bookVars, state, brokerVars, rowVars, historyVars>>

\* Every exit forgets the peak before it sells; the price is of no more use.
Exit(s, k) ==
  /\ peak' = [peak EXCEPT ![s] = 0]
  /\ kind' = [kind EXCEPT ![s] = k] /\ px' = [px EXCEPT ![s] = 0]
  /\ pc' = [pc EXCEPT ![s] = "sell"]
  /\ UNCHANGED <<want, got>>

CheckStop(s) ==
  /\ pc[s] = "stop"
  /\ IF StopHit(px[s])
     THEN Exit(s, "stop")
     ELSE pc' = [pc EXCEPT ![s] = "exit"] /\ UNCHANGED <<peak, localVars>>
  /\ UNCHANGED <<marketVars, lock, bookVars, state, brokerVars, rowVars, historyVars>>

\* _config_exit: take profit, then stop loss, then the trailing stop, which
\* raises the peak on the way.
TakeHit(s) == (px[s] - avg[s]) * 100 >= TakePct * avg[s]
LossHit(s) == (avg[s] - px[s]) * 100 >= LossPct * avg[s]
Peak(s) ==
  LET before == IF peak[s] > 0 THEN peak[s] ELSE avg[s] IN
  IF px[s] > before THEN px[s] ELSE before
TrailHit(s) == (Peak(s) - px[s]) * 100 >= TrailPct * Peak(s)

ConfigExit(s) ==
  /\ pc[s] = "exit"
  /\ \/ /\ qty[s] > 0
        /\ \/ TakeHit(s) /\ Exit(s, "tp")
           \/ ~TakeHit(s) /\ LossHit(s) /\ Exit(s, "sl")
           \/ ~TakeHit(s) /\ ~LossHit(s) /\ TrailHit(s) /\ Exit(s, "trail")
           \/ /\ ~TakeHit(s) /\ ~LossHit(s) /\ ~TrailHit(s)
              /\ peak' = [peak EXCEPT ![s] = Peak(s)]
              /\ Leave(s)
     \/ /\ qty[s] = 0
        /\ Leave(s) /\ UNCHANGED peak
  /\ UNCHANGED <<marketVars, lock, bookVars, state, brokerVars, rowVars, historyVars>>

\* _do_sell.  Unless every sale of the strategy is booked, it knows too little.
Settled(s) == \A k \in KeysOf(s) : Waiting[k] = 0
EvaluateSell(s) ==
  /\ pc[s] = "sell"
  /\ \/ /\ SellQty(s) > 0
        /\ want' = [want EXCEPT ![s] = SellQty(s)]
        /\ pc' = [pc EXCEPT ![s] = "gate"]
        /\ UNCHANGED <<px, kind, got>>
     \/ SellQty(s) = 0 /\ Leave(s)
  /\ blind' = IF Settled(s) THEN blind ELSE blind \cup {s}
  /\ UNCHANGED <<marketVars, lock, bookVars, peak, state, brokerVars, rowVars, raced, upsets>>

\* The live gate and _halt_gate_passed: a halt of the symbol or the market stops the order.
GateBlocks(s) ==
  /\ pc[s] = "gate"
  /\ Leave(s)
  /\ UNCHANGED <<marketVars, lock, bookVars, peak, state, brokerVars, rowVars, historyVars>>

PassGate(s) ==
  /\ pc[s] = "gate"
  /\ pc' = [pc EXCEPT ![s] = "place"]
  /\ UNCHANGED <<marketVars, lock, bookVars, peak, state, brokerVars, localVars, rowVars, historyVars>>

\* execute_signal.  A key is used once a day.  The broker sells no more shares than
\* the account has.
KeyUsed(s) ==
  /\ pc[s] = "place"
  /\ state[Key(s)] # "none"
  /\ Leave(s)
  /\ UNCHANGED <<marketVars, lock, bookVars, peak, state, brokerVars, rowVars, historyVars>>

Refused(s) ==
  /\ pc[s] = "place"
  /\ state[Key(s)] = "none"
  /\ Refusals \/ want[s] > ForSale
  /\ state' = [state EXCEPT ![Key(s)] = "refused"]
  /\ Leave(s)
  /\ UNCHANGED <<marketVars, lock, bookVars, peak, brokerVars, rowVars, historyVars>>

\* The row is committed without a number; the broker has the order.
Taken(s) ==
  /\ want[s] <= ForSale
  /\ size' = [size EXCEPT ![Key(s)] = want[s]]
Sent(s) ==
  /\ pc[s] = "place"
  /\ state[Key(s)] = "none"
  /\ state' = [state EXCEPT ![Key(s)] = "sent"]
  /\ UNCHANGED <<marketVars, lock, bookVars, peak, filled, shares, rowVars, blind, raced>>

Accepted(s) ==
  /\ Sent(s) /\ Taken(s)
  /\ pc' = [pc EXCEPT ![s] = "resolve"] /\ want' = [want EXCEPT ![s] = 0]
  /\ UNCHANGED <<px, kind, got, upsets>>

\* No answer or a useless one, whether or not the broker has the order.
Unanswered(s) ==
  /\ Upset
  /\ Sent(s)
  /\ Taken(s) \/ UNCHANGED size
  /\ Leave(s)

\* _resolve_fill: what is filled by now, in part or in full; a BrokerError is nothing.
Resolve(s) ==
  /\ pc[s] = "resolve"
  /\ \/ /\ Tardy \/ filled[Key(s)] = size[Key(s)]
        /\ got' = [got EXCEPT ![s] = filled[Key(s)]]
        /\ UNCHANGED upsets
     \/ Upset /\ got' = [got EXCEPT ![s] = 0]
  /\ pc' = [pc EXCEPT ![s] = IF got'[s] > 0 THEN "book" ELSE "commit"]
  /\ UNCHANGED <<marketVars, lock, bookVars, peak, state, brokerVars, px, want, kind, rowVars, blind, raced>>

(***************************************************************************)
(* record_fill                                                             *)
(***************************************************************************)
Recorders == Strategies \cup {"sweep"}

\* Recorder r is between the load of the position row of s and its commit.
AtRow(r, s) ==
  \/ r = s /\ pc[s] = "commit" /\ got[s] > 0
  \/ r = "sweep" /\ sweep \in KeysOf(s)
LoadRow(r, s) ==
  /\ row' = [row EXCEPT ![r] = qty[s]]
  /\ raced' = IF \E q \in Recorders \ {r} : AtRow(q, s) THEN raced \cup {s} ELSE raced

BookKeepsQty(r, s, n) ==
  /\ qty' = [qty EXCEPT ![s] = row[r]]
  /\ UNCHANGED avg

\* What the loaded row becomes; a row without shares is not written.
Book(r, s, n) ==
  LET left == IF n > row[r] THEN 0 ELSE row[r] - n IN
  IF row[r] = 0 THEN UNCHANGED <<qty, avg>>
  ELSE /\ qty' = [qty EXCEPT ![s] = left]
       /\ avg' = [avg EXCEPT ![s] = IF left = 0 THEN 0 ELSE @]

\* The execution, the row and the status are one commit.  Of an order booked in full
\* only the status matters any more.
CommitFill(r, k, n) ==
  /\ Book(r, k[1], n)
  /\ sold' = [sold EXCEPT ![k[1]] = @ + n]
  /\ row' = [row EXCEPT ![r] = 0]
  /\ \/ /\ booked[k] + n < size[k]
        /\ state' = [state EXCEPT ![k] = "open"]
        /\ booked' = [booked EXCEPT ![k] = @ + n]
        /\ UNCHANGED <<size, filled>>
     \/ /\ booked[k] + n = size[k]
        /\ state' = [state EXCEPT ![k] = "done"]
        /\ booked' = [booked EXCEPT ![k] = 0]
        /\ size' = [size EXCEPT ![k] = 0] /\ filled' = [filled EXCEPT ![k] = 0]

LoadPosition(s) ==
  /\ pc[s] = "book"
  /\ LoadRow(s, s)
  /\ pc' = [pc EXCEPT ![s] = "commit"]
  /\ UNCHANGED <<marketVars, lock, bookVars, peak, state, brokerVars, localVars, sweep, due, blind, upsets>>

\* The number of the order is committed with its fill, or alone.
CommitOrder(s) ==
  /\ pc[s] = "commit"
  /\ \/ got[s] > 0 /\ CommitFill(s, Key(s), got[s])
     \/ got[s] = 0 /\ state' = [state EXCEPT ![Key(s)] = "open"] /\ UNCHANGED <<bookVars, size, filled, row>>
  /\ Leave(s)
  /\ UNCHANGED <<marketVars, lock, peak, shares, sweep, due, historyVars>>

\* An error, or asyncio.wait_for cancels the tick: what is not committed is undone.
TickFails(s) ==
  /\ Upset
  /\ pc[s] \in {"held", "stop", "exit", "sell", "gate", "resolve", "book", "commit"}
  /\ Leave(s)
  /\ row' = [row EXCEPT ![s] = 0]
  /\ UNCHANGED <<marketVars, lock, bookVars, peak, state, brokerVars, sweep, due, blind, raced>>

\* _position_lock: the key is deleted by whoever had acquired it once.
Unlock(s) ==
  /\ pc[s] = "unlock"
  /\ lock' = FALSE
  /\ pc' = [pc EXCEPT ![s] = "idle"]
  /\ UNCHANGED <<marketVars, bookVars, peak, state, brokerVars, localVars, rowVars, historyVars>>

(***************************************************************************)
(* The sweep, which sees the orders with a number, and the broker          *)
(***************************************************************************)
SweepLoads(k) ==
  /\ sweep = NoKey
  /\ state[k] = "open" /\ filled[k] > booked[k]
  /\ sweep' = k
  /\ due' = filled[k] - booked[k]
  /\ LoadRow("sweep", k[1])
  /\ UNCHANGED <<marketVars, lock, bookVars, peak, state, brokerVars, pc, localVars, blind, upsets>>

SweepBooks ==
  /\ sweep # NoKey
  /\ CommitFill("sweep", sweep, due)
  /\ sweep' = NoKey /\ due' = 0
  /\ UNCHANGED <<marketVars, lock, peak, shares, pc, localVars, historyVars>>

SweepFails ==
  /\ Upset
  /\ sweep # NoKey
  /\ sweep' = NoKey /\ due' = 0
  /\ row' = [row EXCEPT !["sweep"] = 0]
  /\ UNCHANGED <<marketVars, lock, bookVars, peak, state, brokerVars, pc, localVars, blind, raced>>

BrokerFills(k) ==
  /\ \E n \in filled[k] + 1 .. size[k] :
       /\ Tardy \/ n = size[k]
       /\ filled' = [filled EXCEPT ![k] = n]
       /\ shares' = shares - (n - filled[k])
  /\ UNCHANGED <<marketVars, lock, bookVars, peak, state, size, pc, localVars, rowVars, historyVars>>

(***************************************************************************)
(* The market and time                                                     *)
(***************************************************************************)
PriceMoves ==
  /\ \E p \in Prices \ {price} : price' = p
  /\ UNCHANGED <<had, seed, lock, bookVars, peak, state, brokerVars, pc, localVars, rowVars, historyVars>>

LockExpires ==
  /\ Upset
  /\ lock
  /\ lock' = FALSE
  /\ UNCHANGED <<marketVars, bookVars, peak, state, brokerVars, pc, localVars, rowVars, blind, raced>>

\* Overnight the keys change with the date and open orders lapse; the look-up answers
\* for today only, and a fill that is not booked stays so.
NextDay ==
  /\ Upset
  /\ sweep = NoKey
  /\ \A s \in Strategies : pc[s] = "idle"
  /\ blind' = blind \cup {s \in Strategies : \E k \in KeysOf(s) : filled[k] > booked[k]}
  /\ state' = [k \in Keys |-> "none"]
  /\ size' = [k \in Keys |-> 0] /\ filled' = [k \in Keys |-> 0] /\ booked' = [k \in Keys |-> 0]
  /\ UNCHANGED <<price, had, seed, lock, qty, avg, sold, peak, shares, pc, localVars, rowVars, raced>>

(***************************************************************************)
(* The specification                                                       *)
(***************************************************************************)
Init ==
  /\ price \in Prices
  /\ \E h \in Holdings :
       /\ had = h.qty /\ qty = h.qty
       /\ avg = [s \in Strategies |-> IF h.qty[s] = 0 THEN 0 ELSE h.avg[s]]
       /\ shares = SumOver(h.qty, Strategies)
  /\ seed \in [Strategies -> Seeds]
  /\ lock = FALSE
  /\ sold = [s \in Strategies |-> 0] /\ peak = [s \in Strategies |-> 0]
  /\ state = [k \in Keys |-> "none"]
  /\ size = [k \in Keys |-> 0] /\ filled = [k \in Keys |-> 0] /\ booked = [k \in Keys |-> 0]
  /\ pc = [s \in Strategies |-> "idle"]
  /\ px = [s \in Strategies |-> 0] /\ want = [s \in Strategies |-> 0]
  /\ got = [s \in Strategies |-> 0] /\ kind = [s \in Strategies |-> "stop"]
  /\ row = [r \in Recorders |-> 0]
  /\ sweep = NoKey /\ due = 0
  /\ blind = {} /\ raced = {} /\ upsets = 0

Decide(s) ==
  \/ ReadHolding(s) \/ CheckStop(s) \/ ConfigExit(s) \/ EvaluateSell(s)
  \/ GateBlocks(s) \/ PassGate(s)
Order(s) ==
  \/ KeyUsed(s) \/ Refused(s) \/ Accepted(s) \/ Unanswered(s) \/ Resolve(s)
  \/ LoadPosition(s) \/ CommitOrder(s)
Tick(s) ==
  \/ StartTick(s) \/ SeriesFails(s) \/ LockPosition(s)
  \/ Decide(s) \/ Order(s) \/ TickFails(s) \/ Unlock(s)

Next ==
  \/ \E s \in Strategies : Tick(s)
  \/ \E k \in Keys : SweepLoads(k) \/ BrokerFills(k)
  \/ SweepBooks \/ SweepFails
  \/ PriceMoves \/ LockExpires \/ NextDay

Spec == Init /\ [][Next]_vars

\* A runner ticks for as long as it runs and every tick ends.  Two strategies on
\* one symbol poll every 30 seconds and hold the lock for a moment: neither
\* finds it taken for ever; nor is trading halted for ever.
Fairness ==
  /\ \A s \in Strategies :
       /\ WF_vars(Tick(s))
       /\ SF_vars(~lock /\ StartTick(s)) /\ SF_vars(~lock /\ LockPosition(s))
       /\ SF_vars(PassGate(s))
  /\ \A k \in Keys : WF_vars(BrokerFills(k))
FairSpec == Spec /\ Fairness

(***************************************************************************)
(* Properties                                                              *)
(***************************************************************************)
States == {"none", "refused", "sent", "open", "done"}
TickStates == {"idle", "series", "held", "stop", "exit", "sell",
               "gate", "place", "resolve", "book", "commit", "unlock"}

\* Types of the variables.
TypeOK ==
  /\ price \in Prices
  /\ lock \in BOOLEAN
  /\ qty \in [Strategies -> Nat] /\ avg \in [Strategies -> Nat]
  /\ had \in [Strategies -> Nat] /\ sold \in [Strategies -> Nat]
  /\ peak \in [Strategies -> Nat]
  /\ seed \in [Strategies -> Seeds]
  /\ state \in [Keys -> States]
  /\ size \in [Keys -> Nat] /\ filled \in [Keys -> Nat] /\ booked \in [Keys -> Nat]
  /\ \A k \in Keys : booked[k] <= filled[k] /\ filled[k] <= size[k]
  /\ shares \in Int
  /\ pc \in [Strategies -> TickStates]
  /\ px \in [Strategies -> Prices \cup {0}]
  /\ want \in [Strategies -> Nat] /\ got \in [Strategies -> Nat]
  /\ kind \in [Strategies -> Exits]
  /\ row \in [Recorders -> Nat]
  /\ sweep \in Keys \cup {NoKey} /\ due \in Nat
  /\ blind \subseteq Strategies /\ raced \subseteq Strategies /\ upsets \in Nat

\* What a strategy has sold or has for sale never exceeds what it had: selling its own
\* quantity leaves the shares of the other strategies alone (risk.py:92-96).
Covered(s) == sold[s] + SumOver(Waiting, KeysOf(s)) <= had[s]
NeverSellsOthers == \A s \in Strategies : Covered(s)

\* It does exceed it only after the strategy evaluated a sale before an earlier one was
\* booked in full, or after two recorders had its position row at once: partial and late
\* fills that the tick and the sweep book one after the other do no harm (risk.py:101-111,
\* runner.py:185-197).
SellsOthersOnlyBlindly == \A s \in Strategies \ (blind \cup raced) : Covered(s)

\* Unless two recorders had the row of a strategy loaded at once, its position is what it
\* had less what table executions says it sold, whoever booked the parts (fills.py:44-85).
PositionsAgree ==
  /\ TypeOK
  /\ \A s \in Strategies \ raced :
       qty[s] = IF sold[s] > had[s] THEN 0 ELSE had[s] - sold[s]

\* The stop loss acts (runner.py:3, runner.py:181-188): while the price stays below it,
\* the broker gets a sale of the strategy.
Stopped(s) == qty[s] > 0 /\ StopHit(price)
StopLossActs ==
  \A s \in Strategies : Stopped(s) ~> (~Stopped(s) \/ state[<<s, "stop">>] \in {"sent", "open", "done"})
=============================================================================

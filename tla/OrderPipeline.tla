--------------------------- MODULE OrderPipeline ---------------------------
(***************************************************************************)
(* How one order becomes executions in the ledger of QuantFolio.           *)
(*                                                                         *)
(* Three paths write the ledger: the executor right after it has sent an   *)
(* order (engine/executor.py), the reconcile sweep that polls the broker   *)
(* (engine/reconcile.py, run by the engine loop and by a script), and the  *)
(* listener of real-time fill notices (engine/fill_notice.py).  They share *)
(* the orders and executions tables and two kinds of Redis keys: the order *)
(* lock of the executor, per idempotency key, and the reconcile lock, per  *)
(* order, of the other two.  Every await of the code is a place where the  *)
(* other actors may run, so a handler is cut into one action per await.    *)
(*                                                                         *)
(* An order is named by its idempotency key.  The module looks at the      *)
(* orders of one user on one symbol; positions are in StrategyRunner.      *)
(***************************************************************************)
EXTENDS Integers, FiniteSets, Sums

CONSTANTS
  Orders,          \* idempotency keys of the signals of one user and symbol
  NoOrder,         \* what an idle actor works on
  Target,          \* Target[o]: the quantity order o asks for
  Buys,            \* the orders that buy; the others sell
  Workers,         \* concurrent executions of execute_signal
  EngineSweeper,   \* the reconcile loop of the engine
  Scripts,         \* manual runs of scripts/reconcile_fills.py
  Listener,        \* the fill notice websocket of the user
  Paper,           \* settings.is_paper_trading
  Notices,         \* the fill notice websocket is connected
  NetErrors,       \* a call may fail with something else than BrokerError
  ErrorAnswers,    \* an accepted order may be answered with an error
  Numberless,      \* an accepted order may be answered without its number (KIS)
  CallOutlivesLock,\* a broker call may take longer than RECONCILE_LOCK_TTL
  NextDay,         \* the trading day may end before an order is reconciled
  MaxStops         \* bound on process crashes and restarts

Sweepers == {EngineSweeper} \cup Scripts
Recorders == Sweepers \cup {Listener}

ASSUME PipelineAssumption ==
  /\ IsFiniteSet(Orders)
  /\ NoOrder \notin Orders
  /\ Target \in [Orders -> Nat \ {0}]
  /\ Buys \subseteq Orders
  /\ Listener \notin Sweepers
  /\ EngineSweeper \notin Scripts
  /\ Workers \cap Recorders = {}
  /\ {Paper, Notices, NetErrors, ErrorAnswers, Numberless, CallOutlivesLock, NextDay} \subseteq BOOLEAN
  /\ MaxStops \in Nat

VARIABLES
  \* the database: table orders, and the sum of its executions per order
  status,          \* Order.status, "none" while there is no row
  numbered,        \* orders whose kis_order_id is committed
  recorded,        \* sum of Execution.filled_qty of the order
  aged,            \* orders older than _PENDING_GRACE_SECONDS
  \* Redis
  orderLock,       \* keys lock:order:{idempotency_key} that exist
  reconcileLock,   \* keys reconcile:lock:{order.id} that exist
  \* the broker
  accepted,        \* how many broker orders were accepted under this key
  filled,          \* quantity the broker has filled for the order
  pastDay,         \* orders accepted on an earlier trading day
  notices,         \* fill notices on the wire, <<order, cumulative quantity>>
  \* the executor
  wpc, wkey, wfill,
  \* the recorders
  rpc, rkey, todo, seen, already, answer, holdings,
  \* observers
  alerted,         \* orders the user was told to check (order_unconfirmed)
  stops            \* crashes so far

dbVars == <<status, numbered, recorded, aged>>
lockVars == <<orderLock, reconcileLock>>
brokerVars == <<accepted, filled, pastDay, notices>>
workerVars == <<wpc, wkey, wfill>>
recorderVars == <<rpc, rkey, todo, seen, already, answer, holdings>>
vars == <<dbVars, lockVars, brokerVars, workerVars, recorderVars, alerted, stops>>

OpenStatuses == {"submitted", "partial"}
Statuses == OpenStatuses \cup {"none", "pending", "filled", "rejected"}
Unknown == -1      \* the balance was not read in this sweep

(***************************************************************************)
(* Reading the shared state                                                *)
(***************************************************************************)
InFlight(o) == \E w \in Workers :
  wkey[w] = o /\ wpc[w] \in {"send", "taken", "refused", "resolve", "commit", "numberless"}
Holds(r, o) == rpc[r] \notin {"idle", "next", "matched"} /\ rkey[r] = o

(* Mutants, here and below: slips the runs have to notice. *)
SelectedAllAged ==
  {o \in Orders : status[o] \in OpenStatuses \cup {"pending"} /\ o \in aged}
SelectedNumbered == {o \in Orders : status[o] \in OpenStatuses /\ o \in numbered}
NotFoundIsMinusOne(o) == IF Paper \/ o \in pastDay THEN -1 ELSE filled[o]

\* What reconcile_open_orders selects: open orders with a number, and the
\* unconfirmed ones whose grace period is over.
IsOpen(o) == status[o] \in OpenStatuses /\ o \in numbered
IsStalePending(o) == status[o] = "pending" /\ o \notin numbered /\ o \in aged
Selected == {o \in Orders : IsOpen(o) \/ IsStalePending(o)}

\* get_order_execution asks for today's fills only, and the paper account
\* always answers with an empty list.
ExecutionAnswer(o) == IF Paper \/ o \in pastDay THEN 0 ELSE filled[o]

Held == SumOver(filled, Buys) - SumOver(filled, Orders \ Buys)
SymbolRecorded == SumOver(recorded, Orders)

\* record_fill: one execution row and the status it leaves.  The session
\* writes the status only where it differs from the value it had loaded.
Record(o, qty, fully, loaded) ==
  LET reached == IF fully THEN "filled" ELSE "partial" IN
  /\ recorded' = [recorded EXCEPT ![o] = @ + qty]
  /\ status' = [status EXCEPT ![o] = IF loaded = reached THEN @ ELSE reached]

(***************************************************************************)
(* The executor: execute_signal and _resolve_fill                          *)
(***************************************************************************)
Begin(w, o) ==
  /\ wpc[w] = "idle"
  /\ o \notin orderLock
  /\ orderLock' = orderLock \cup {o}
  /\ wpc' = [wpc EXCEPT ![w] = "check"]
  /\ wkey' = [wkey EXCEPT ![w] = o]
  /\ UNCHANGED <<dbVars, reconcileLock, brokerVars, wfill, recorderVars, alerted, stops>>

FindExisting(w) ==
  /\ wpc[w] = "check"
  /\ wpc' = [wpc EXCEPT ![w] = IF status[wkey[w]] = "none" THEN "insert" ELSE "finally"]
  /\ UNCHANGED <<dbVars, lockVars, brokerVars, wkey, wfill, recorderVars, alerted, stops>>

InsertUnchecked(w) ==
  /\ wpc[w] = "insert"
  /\ status' = [status EXCEPT ![wkey[w]] = "pending"]
  /\ wpc' = [wpc EXCEPT ![w] = "send"]
  /\ UNCHANGED <<numbered, recorded, aged, lockVars, brokerVars, wkey, wfill,
                 recorderVars, alerted, stops>>

\* The UNIQUE constraint on idempotency_key decides, not the check before.
Insert(w) ==
  /\ wpc[w] = "insert"
  /\ IF status[wkey[w]] = "none"
     THEN /\ status' = [status EXCEPT ![wkey[w]] = "pending"]
          /\ wpc' = [wpc EXCEPT ![w] = "send"]
     ELSE /\ wpc' = [wpc EXCEPT ![w] = "finally"]
          /\ UNCHANGED status
  /\ UNCHANGED <<numbered, recorded, aged, lockVars, brokerVars, wkey, wfill,
                 recorderVars, alerted, stops>>

\* The request reaches the broker, who takes the order or refuses it.
BrokerAccepts(w) ==
  /\ wpc[w] = "send"
  /\ accepted' = [accepted EXCEPT ![wkey[w]] = @ + 1]
  /\ wpc' = [wpc EXCEPT ![w] = "taken"]
  /\ UNCHANGED <<dbVars, lockVars, filled, pastDay, notices, wkey, wfill,
                 recorderVars, alerted, stops>>

BrokerRefuses(w) ==
  /\ wpc[w] = "send"
  /\ wpc' = [wpc EXCEPT ![w] = "refused"]
  /\ UNCHANGED <<dbVars, lockVars, brokerVars, wkey, wfill, recorderVars, alerted, stops>>

\* A gateway answers with an HTTP error, or the answer cannot be read: a
\* BrokerError, although the order was taken.  Of the brokers only Toss makes
\* one of an answer without an order number.
ErrorAnswered(w) ==
  /\ ErrorAnswers
  /\ wpc[w] = "taken"
  /\ wpc' = [wpc EXCEPT ![w] = "refused"]
  /\ UNCHANGED <<dbVars, lockVars, brokerVars, wkey, wfill, recorderVars, alerted, stops>>

\* The answer arrives: kis_order_id and SUBMITTED are set on the session's
\* object and not committed.
Acknowledged(w) ==
  /\ wpc[w] = "taken"
  /\ wpc' = [wpc EXCEPT ![w] = "resolve"]
  /\ UNCHANGED <<dbVars, lockVars, brokerVars, wkey, wfill, recorderVars, alerted, stops>>

\* KIS takes the order and its answer has no number: nothing to ask for, so
\* _resolve_fill answers zero at once.
AcknowledgedNumberless(w) ==
  /\ Numberless
  /\ wpc[w] = "taken"
  /\ wpc' = [wpc EXCEPT ![w] = "numberless"]
  /\ UNCHANGED <<dbVars, lockVars, brokerVars, wkey, wfill, recorderVars, alerted, stops>>

\* The row says SUBMITTED and no sweep will ever select it.
CommitNumberless(w) ==
  /\ wpc[w] = "numberless"
  /\ status' = [status EXCEPT ![wkey[w]] = "submitted"]
  /\ wpc' = [wpc EXCEPT ![w] = "finally"]
  /\ UNCHANGED <<numbered, recorded, aged, lockVars, brokerVars, wkey, wfill,
                 recorderVars, alerted, stops>>

MarkRejected(w) ==
  /\ wpc[w] = "refused"
  /\ status' = [status EXCEPT ![wkey[w]] = "rejected"]
  /\ wpc' = [wpc EXCEPT ![w] = "finally"]
  /\ UNCHANGED <<numbered, recorded, aged, lockVars, brokerVars, wkey, wfill,
                 recorderVars, alerted, stops>>

\* Neither an answer nor a refusal: the row stays PENDING and the user is told.
Unanswered(w) ==
  /\ NetErrors
  /\ wpc[w] \in {"send", "taken", "refused"}
  /\ alerted' = alerted \cup {wkey[w]}
  /\ wpc' = [wpc EXCEPT ![w] = "finally"]
  /\ UNCHANGED <<dbVars, lockVars, brokerVars, wkey, wfill, recorderVars, stops>>

ResolveAssumesFilled(w) ==
  /\ wpc[w] = "resolve"
  /\ \E qty \in {Target[wkey[w]], ExecutionAnswer(wkey[w])} :
       wfill' = [wfill EXCEPT ![w] = qty]
  /\ wpc' = [wpc EXCEPT ![w] = "commit"]
  /\ UNCHANGED <<dbVars, lockVars, brokerVars, wkey, recorderVars, alerted, stops>>

\* _resolve_fill: a BrokerError counts as nothing filled.
ResolveFill(w) ==
  /\ wpc[w] = "resolve"
  /\ \E qty \in {0, ExecutionAnswer(wkey[w])} :
       wfill' = [wfill EXCEPT ![w] = qty]
  /\ wpc' = [wpc EXCEPT ![w] = "commit"]
  /\ UNCHANGED <<dbVars, lockVars, brokerVars, wkey, recorderVars, alerted, stops>>

\* Any other exception leaves execute_signal, and the session rolls back.
ResolveRaises(w) ==
  /\ NetErrors
  /\ wpc[w] = "resolve"
  /\ wpc' = [wpc EXCEPT ![w] = "finally"]
  /\ UNCHANGED <<dbVars, lockVars, brokerVars, wkey, wfill, recorderVars, alerted, stops>>

CommitAttempt(w) ==
  LET o == wkey[w] IN
  /\ wpc[w] = "commit"
  /\ numbered' = numbered \cup {o}
  /\ IF wfill[w] = 0
     THEN /\ status' = [status EXCEPT ![o] = "submitted"]
          /\ UNCHANGED recorded
     ELSE Record(o, wfill[w], wfill[w] >= Target[o], "pending")
  /\ wpc' = [wpc EXCEPT ![w] = "finally"]
  /\ UNCHANGED <<aged, lockVars, brokerVars, wkey, wfill, recorderVars, alerted, stops>>

\* asyncio.wait_for cancels the tick at an await; only the finally runs.
CancelTick(w) ==
  /\ wpc[w] \notin {"idle", "finally"}
  /\ wpc' = [wpc EXCEPT ![w] = "finally"]
  /\ UNCHANGED <<dbVars, lockVars, brokerVars, wkey, wfill, recorderVars, alerted, stops>>

\* finally: the key is deleted whoever set it.
Finally(w) ==
  /\ wpc[w] = "finally"
  /\ orderLock' = orderLock \ {wkey[w]}
  /\ wpc' = [wpc EXCEPT ![w] = "idle"]
  /\ wkey' = [wkey EXCEPT ![w] = NoOrder]
  /\ wfill' = [wfill EXCEPT ![w] = 0]
  /\ UNCHANGED <<dbVars, reconcileLock, brokerVars, recorderVars, alerted, stops>>

(***************************************************************************)
(* The reconcile sweep: reconcile_open_orders                              *)
(***************************************************************************)
\* A user whose broker cannot be made has no sweep: every order is skipped.
StartSweep(r) ==
  /\ rpc[r] = "idle"
  /\ Selected # {}
  /\ rpc' = [rpc EXCEPT ![r] = "next"]
  /\ todo' = [todo EXCEPT ![r] = Selected]
  /\ seen' = [seen EXCEPT ![r] = [o \in Orders |->
                                    IF o \in Selected THEN status[o] ELSE "none"]]
  /\ UNCHANGED <<dbVars, lockVars, brokerVars, workerVars, rkey, already, answer,
                 holdings, alerted, stops>>

SkipLocked(r, o) ==
  /\ rpc[r] = "next"
  /\ o \in todo[r]
  /\ o \in reconcileLock
  /\ todo' = [todo EXCEPT ![r] = @ \ {o}]
  /\ UNCHANGED <<dbVars, lockVars, brokerVars, workerVars, rpc, rkey, seen, already,
                 answer, holdings, alerted, stops>>

\* SET NX, then _order_recorded_qty at the head of _process_one.
LockOrder(r, o) ==
  /\ rpc[r] = "next"
  /\ o \in todo[r]
  /\ o \notin reconcileLock
  /\ reconcileLock' = reconcileLock \cup {o}
  /\ todo' = [todo EXCEPT ![r] = @ \ {o}]
  /\ rkey' = [rkey EXCEPT ![r] = o]
  /\ already' = [already EXCEPT ![r] = recorded[o]]
  /\ rpc' = [rpc EXCEPT ![r] = IF seen[r][o] = "pending" THEN "crosscheck" ELSE "query"]
  /\ UNCHANGED <<dbVars, orderLock, brokerVars, workerVars, seen, answer, holdings,
                 alerted, stops>>

\* get_order_execution answers.  Zero falls back on the balance.
QueryAnswers(r, o) ==
  /\ rpc[r] = "query"
  /\ rkey[r] = o
  /\ answer' = [answer EXCEPT ![r] = ExecutionAnswer(o)]
  /\ rpc' = [rpc EXCEPT ![r] = IF ExecutionAnswer(o) > 0 THEN "apply" ELSE "crosscheck"]
  /\ UNCHANGED <<dbVars, lockVars, brokerVars, workerVars, rkey, todo, seen, already,
                 holdings, alerted, stops>>

QueryRefused(r) ==
  /\ rpc[r] = "query"
  /\ rpc' = [rpc EXCEPT ![r] = "crosscheck"]
  /\ UNCHANGED <<dbVars, lockVars, brokerVars, workerVars, rkey, todo, seen, already,
                 answer, holdings, alerted, stops>>

\* Only BrokerError is caught: anything else ends the sweep with this order.
SweepRaises(r) ==
  /\ NetErrors
  /\ \/ rpc[r] = "query"
     \/ rpc[r] = "crosscheck" /\ Paper /\ rkey[r] \in Buys /\ holdings[r] = Unknown
  /\ todo' = [todo EXCEPT ![r] = {}]
  /\ rpc' = [rpc EXCEPT ![r] = "release"]
  /\ UNCHANGED <<dbVars, lockVars, brokerVars, workerVars, rkey, seen, already,
                 answer, holdings, alerted, stops>>

\* _balance: read once per sweep and kept; a BrokerError keeps an empty one.
BalanceAnswers(r, qty) ==
  /\ rpc[r] = "crosscheck"
  /\ Paper /\ rkey[r] \in Buys /\ holdings[r] = Unknown
  /\ holdings' = [holdings EXCEPT ![r] = qty]
  /\ UNCHANGED <<dbVars, lockVars, brokerVars, workerVars, rpc, rkey, todo, seen,
                 already, answer, alerted, stops>>

CreditIgnoringOthers(r) ==
  LET available == holdings[r] - already[r]
      missing == Target[rkey[r]] - already[r]
      delta == IF missing < available THEN missing ELSE available IN
  IF Paper /\ rkey[r] \in Buys /\ holdings[r] > 0 /\ delta > 0 THEN delta ELSE 0

\* _balance_cross_check: what the balance holds beyond every execution of the
\* symbol is credited to this order, whole or in part.
Credit(r) ==
  LET available == holdings[r] - SymbolRecorded
      missing == Target[rkey[r]] - already[r]
      delta == IF missing < available THEN missing ELSE available IN
  IF Paper /\ rkey[r] \in Buys /\ holdings[r] > 0 /\ delta > 0 THEN delta ELSE 0

CrossCheck(r) ==
  /\ rpc[r] = "crosscheck"
  /\ (Paper /\ rkey[r] \in Buys) => holdings[r] # Unknown
  /\ IF Credit(r) > 0
     THEN /\ answer' = [answer EXCEPT ![r] = already[r] + Credit(r)]
          /\ rpc' = [rpc EXCEPT ![r] = "apply"]
          /\ UNCHANGED alerted
     ELSE /\ alerted' = IF seen[r][rkey[r]] = "pending"
                        THEN alerted \cup {rkey[r]} ELSE alerted
          /\ rpc' = [rpc EXCEPT ![r] = "release"]
          /\ UNCHANGED answer
  /\ UNCHANGED <<dbVars, lockVars, brokerVars, workerVars, rkey, todo, seen, already,
                 holdings, stops>>

ApplySweepByDelta(r) ==
  LET o == rkey[r]
      delta == answer[r] - already[r] IN
  /\ r \in Sweepers
  /\ rpc[r] = "apply"
  /\ Record(o, IF delta > 0 THEN delta ELSE 0, delta >= Target[o], seen[r][o])
  /\ rpc' = [rpc EXCEPT ![r] = "release"]
  /\ UNCHANGED <<numbered, aged, lockVars, brokerVars, workerVars, rkey, todo, seen,
                 already, answer, holdings, alerted, stops>>

\* _apply, or the correction of a status that lags behind the executions.
ApplySweep(r) ==
  LET o == rkey[r]
      delta == answer[r] - already[r]
      fully == answer[r] >= Target[o] IN
  /\ r \in Sweepers
  /\ rpc[r] = "apply"
  /\ Record(o, IF delta > 0 THEN delta ELSE 0, fully, seen[r][o])
  /\ rpc' = [rpc EXCEPT ![r] = "release"]
  /\ UNCHANGED <<numbered, aged, lockVars, brokerVars, workerVars, rkey, todo, seen,
                 already, answer, holdings, alerted, stops>>

\* finally: the key is deleted whoever set it.
Release(r) ==
  /\ r \in Sweepers
  /\ rpc[r] = "release"
  /\ reconcileLock' = reconcileLock \ {rkey[r]}
  /\ rpc' = [rpc EXCEPT ![r] = "next"]
  /\ rkey' = [rkey EXCEPT ![r] = NoOrder]
  /\ already' = [already EXCEPT ![r] = 0]
  /\ answer' = [answer EXCEPT ![r] = 0]
  /\ UNCHANGED <<dbVars, orderLock, brokerVars, workerVars, todo, seen, holdings,
                 alerted, stops>>

EndSweep(r) ==
  /\ rpc[r] = "next"
  /\ todo[r] = {}
  /\ rpc' = [rpc EXCEPT ![r] = "idle"]
  /\ seen' = [seen EXCEPT ![r] = [o \in Orders |-> "none"]]
  /\ holdings' = [holdings EXCEPT ![r] = Unknown]
  /\ UNCHANGED <<dbVars, lockVars, brokerVars, workerVars, rkey, todo, already, answer,
                 alerted, stops>>

(***************************************************************************)
(* The fill notice listener: apply_fill_notice                             *)
(***************************************************************************)
\* The order is looked up by its number; without a match the notice is gone.
TakeNotice(n) ==
  /\ rpc[Listener] = "idle"
  /\ n \in notices
  /\ notices' = notices \ {n}
  /\ IF n[1] \in numbered
     THEN /\ rpc' = [rpc EXCEPT ![Listener] = "matched"]
          /\ rkey' = [rkey EXCEPT ![Listener] = n[1]]
          /\ answer' = [answer EXCEPT ![Listener] = n[2]]
          /\ seen' = [seen EXCEPT ![Listener][n[1]] = status[n[1]]]
     ELSE UNCHANGED <<rpc, rkey, answer, seen>>
  /\ UNCHANGED <<dbVars, lockVars, accepted, filled, pastDay, workerVars, todo, already,
                 holdings, alerted, stops>>

ListenerRests ==
  /\ rpc' = [rpc EXCEPT ![Listener] = "idle"]
  /\ rkey' = [rkey EXCEPT ![Listener] = NoOrder]
  /\ answer' = [answer EXCEPT ![Listener] = 0]
  /\ already' = [already EXCEPT ![Listener] = 0]
  /\ seen' = [seen EXCEPT ![Listener] = [o \in Orders |-> "none"]]

SkipNotice ==
  /\ rpc[Listener] = "matched"
  /\ rkey[Listener] \in reconcileLock
  /\ ListenerRests
  /\ UNCHANGED <<dbVars, lockVars, brokerVars, workerVars, todo, holdings, alerted, stops>>

LockNoticeHeld ==
  LET o == rkey[Listener] IN
  /\ rpc[Listener] = "matched"
  /\ reconcileLock' = reconcileLock \cup {o}
  /\ already' = [already EXCEPT ![Listener] = recorded[o]]
  /\ rpc' = [rpc EXCEPT ![Listener] =
               IF answer[Listener] > recorded[o] THEN "apply" ELSE "release"]
  /\ UNCHANGED <<dbVars, orderLock, brokerVars, workerVars, rkey, todo, seen, answer,
                 holdings, alerted, stops>>

LockNotice ==
  LET o == rkey[Listener] IN
  /\ rpc[Listener] = "matched"
  /\ o \notin reconcileLock
  /\ reconcileLock' = reconcileLock \cup {o}
  /\ already' = [already EXCEPT ![Listener] = recorded[o]]
  /\ rpc' = [rpc EXCEPT ![Listener] =
               IF answer[Listener] > recorded[o] THEN "apply" ELSE "release"]
  /\ UNCHANGED <<dbVars, orderLock, brokerVars, workerVars, rkey, todo, seen, answer,
                 holdings, alerted, stops>>

ApplyNoticeByDelta ==
  LET o == rkey[Listener]
      delta == answer[Listener] - already[Listener] IN
  /\ rpc[Listener] = "apply"
  /\ Record(o, delta, delta >= Target[o], seen[Listener][o])
  /\ rpc' = [rpc EXCEPT ![Listener] = "release"]
  /\ UNCHANGED <<numbered, aged, lockVars, brokerVars, workerVars, rkey, todo, seen,
                 already, answer, holdings, alerted, stops>>

ApplyNotice ==
  LET o == rkey[Listener] IN
  /\ rpc[Listener] = "apply"
  /\ Record(o, answer[Listener] - already[Listener], answer[Listener] >= Target[o],
            seen[Listener][o])
  /\ rpc' = [rpc EXCEPT ![Listener] = "release"]
  /\ UNCHANGED <<numbered, aged, lockVars, brokerVars, workerVars, rkey, todo, seen,
                 already, answer, holdings, alerted, stops>>

ReleaseNotice ==
  /\ rpc[Listener] = "release"
  /\ reconcileLock' = reconcileLock \ {rkey[Listener]}
  /\ ListenerRests
  /\ UNCHANGED <<dbVars, orderLock, brokerVars, workerVars, todo, holdings, alerted, stops>>

(***************************************************************************)
(* The broker, time and failures                                           *)
(***************************************************************************)
\* A sale fills from what the account holds.  The notice carries the
\* cumulative quantity, as the listener assumes.
BrokerFills(o) ==
  /\ accepted[o] > 0
  /\ o \notin pastDay
  /\ \E qty \in (filled[o] + 1)..Target[o] :
       /\ o \in Buys \/ qty - filled[o] <= Held
       /\ filled' = [filled EXCEPT ![o] = qty]
       /\ notices' = IF Notices THEN notices \cup {<<o, qty>>} ELSE notices
  /\ UNCHANGED <<dbVars, lockVars, accepted, pastDay, workerVars, recorderVars, alerted, stops>>

LoseNotice(n) ==
  /\ n \in notices
  /\ notices' = notices \ {n}
  /\ UNCHANGED <<dbVars, lockVars, accepted, filled, pastDay, workerVars, recorderVars,
                 alerted, stops>>

\* The tick is cancelled long before the grace period of its orders ends.
GraceEnds(o) ==
  /\ status[o] = "pending"
  /\ o \notin aged
  /\ ~InFlight(o)
  /\ aged' = aged \cup {o}
  /\ UNCHANGED <<status, numbered, recorded, lockVars, brokerVars, workerVars, recorderVars,
                 alerted, stops>>

\* Ticks last up to five minutes and the key 30 seconds.
ExpireOrderLock(o) ==
  /\ o \in orderLock
  /\ orderLock' = orderLock \ {o}
  /\ UNCHANGED <<dbVars, reconcileLock, brokerVars, workerVars, recorderVars, alerted, stops>>

ExpireReconcileLock(o) ==
  /\ o \in reconcileLock
  /\ CallOutlivesLock \/ \A r \in Recorders : ~Holds(r, o)
  /\ reconcileLock' = reconcileLock \ {o}
  /\ UNCHANGED <<dbVars, orderLock, brokerVars, workerVars, recorderVars, alerted, stops>>

\* Orders live for a day, and ticks run in market hours.
EndOfDay ==
  /\ NextDay
  /\ \A w \in Workers : wpc[w] = "idle"
  /\ pastDay' = {o \in Orders : accepted[o] > 0}
  /\ UNCHANGED <<dbVars, lockVars, accepted, filled, notices, workerVars, recorderVars,
                 alerted, stops>>

\* A process dies: its actors forget everything, its Redis keys stay.
Forget(W, R) ==
  /\ stops < MaxStops
  /\ stops' = stops + 1
  /\ wpc' = [w \in Workers |-> IF w \in W THEN "idle" ELSE wpc[w]]
  /\ wkey' = [w \in Workers |-> IF w \in W THEN NoOrder ELSE wkey[w]]
  /\ wfill' = [w \in Workers |-> IF w \in W THEN 0 ELSE wfill[w]]
  /\ rpc' = [r \in Recorders |-> IF r \in R THEN "idle" ELSE rpc[r]]
  /\ rkey' = [r \in Recorders |-> IF r \in R THEN NoOrder ELSE rkey[r]]
  /\ todo' = [r \in Recorders |-> IF r \in R THEN {} ELSE todo[r]]
  /\ seen' = [r \in Recorders |-> IF r \in R THEN [o \in Orders |-> "none"] ELSE seen[r]]
  /\ already' = [r \in Recorders |-> IF r \in R THEN 0 ELSE already[r]]
  /\ answer' = [r \in Recorders |-> IF r \in R THEN 0 ELSE answer[r]]
  /\ holdings' = [r \in Recorders |-> IF r \in R THEN Unknown ELSE holdings[r]]
  /\ UNCHANGED <<dbVars, lockVars, accepted, filled, pastDay, alerted>>

CrashEngine == Forget(Workers, {EngineSweeper, Listener}) /\ notices' = {}
KillScript(r) == Forget({}, {r}) /\ UNCHANGED notices

(***************************************************************************)
(* The specification                                                       *)
(***************************************************************************)
Init ==
  /\ status = [o \in Orders |-> "none"]
  /\ numbered = {} /\ aged = {} /\ pastDay = {} /\ notices = {} /\ alerted = {}
  /\ recorded = [o \in Orders |-> 0]
  /\ orderLock = {} /\ reconcileLock = {}
  /\ accepted = [o \in Orders |-> 0]
  /\ filled = [o \in Orders |-> 0]
  /\ wpc = [w \in Workers |-> "idle"]
  /\ wkey = [w \in Workers |-> NoOrder]
  /\ wfill = [w \in Workers |-> 0]
  /\ rpc = [r \in Recorders |-> "idle"]
  /\ rkey = [r \in Recorders |-> NoOrder]
  /\ todo = [r \in Recorders |-> {}]
  /\ seen = [r \in Recorders |-> [o \in Orders |-> "none"]]
  /\ already = [r \in Recorders |-> 0]
  /\ answer = [r \in Recorders |-> 0]
  /\ holdings = [r \in Recorders |-> Unknown]
  /\ stops = 0

Execute(w) ==
  \/ \E o \in Orders : Begin(w, o)
  \/ FindExisting(w) \/ Insert(w)
  \/ BrokerAccepts(w) \/ BrokerRefuses(w) \/ ErrorAnswered(w)
  \/ Acknowledged(w) \/ AcknowledgedNumberless(w) \/ CommitNumberless(w) \/ MarkRejected(w)
  \/ Unanswered(w) \/ ResolveFill(w) \/ ResolveRaises(w) \/ CommitAttempt(w)
  \/ CancelTick(w) \/ Finally(w)

Sweep(r) ==
  \/ StartSweep(r)
  \/ \E o \in Orders : SkipLocked(r, o) \/ LockOrder(r, o) \/ QueryAnswers(r, o)
  \/ QueryRefused(r) \/ SweepRaises(r)
  \/ BalanceAnswers(r, Held) \/ BalanceAnswers(r, 0) \/ CrossCheck(r) \/ ApplySweep(r) \/ Release(r) \/ EndSweep(r)

Listen ==
  \/ \E n \in notices : TakeNotice(n)
  \/ SkipNotice \/ LockNotice \/ ApplyNotice \/ ReleaseNotice

Environment ==
  \/ \E o \in Orders : BrokerFills(o) \/ GraceEnds(o)
                       \/ ExpireOrderLock(o) \/ ExpireReconcileLock(o)
  \/ \E n \in notices : LoseNotice(n)
  \/ EndOfDay
  \/ CrashEngine
  \/ \E r \in Scripts : KillScript(r)

Next ==
  \/ \E w \in Workers : Execute(w)
  \/ \E r \in Sweepers : Sweep(r)
  \/ Listen
  \/ Environment

Spec == Init /\ [][Next]_vars

\* What the loops of the code guarantee.  A tick ends (it is cancelled after a
\* timeout), the engine sweeps every minute for as long as it runs, keys
\* expire and time passes.  A query that is asked again and again is answered
\* some day: that is the one assumption on the broker.
Advance(w) ==
  \/ FindExisting(w) \/ Insert(w) \/ BrokerAccepts(w) \/ BrokerRefuses(w)
  \/ ErrorAnswered(w) \/ Acknowledged(w) \/ AcknowledgedNumberless(w) \/ CommitNumberless(w)
  \/ MarkRejected(w) \/ Unanswered(w)
  \/ ResolveFill(w) \/ ResolveRaises(w) \/ CommitAttempt(w) \/ CancelTick(w) \/ Finally(w)

Fairness ==
  /\ \A w \in Workers : WF_vars(Advance(w))
  /\ WF_vars(Sweep(EngineSweeper))
  /\ WF_vars(Listen)
  /\ SF_vars(BalanceAnswers(EngineSweeper, Held))
  /\ \A o \in Orders :
       /\ WF_vars(GraceEnds(o))
       /\ WF_vars(ExpireOrderLock(o))
       /\ WF_vars(ExpireReconcileLock(o))
       /\ SF_vars(QueryAnswers(EngineSweeper, o))

FairSpec == Spec /\ Fairness

(***************************************************************************)
(* Properties                                                              *)
(***************************************************************************)
WorkerStates == {"idle", "check", "insert", "send", "taken", "refused", "resolve",
                 "commit", "numberless", "finally"}
RecorderStates == {"idle", "next", "query", "crosscheck", "apply", "release", "matched"}

\* The type of every variable.
TypeOK ==
  /\ status \in [Orders -> Statuses]
  /\ numbered \subseteq Orders /\ aged \subseteq Orders
  /\ pastDay \subseteq Orders /\ alerted \subseteq Orders
  /\ recorded \in [Orders -> Nat]
  /\ accepted \in [Orders -> Nat]
  /\ filled \in [Orders -> Nat]
  /\ notices \subseteq Orders \X Nat
  /\ orderLock \subseteq Orders /\ reconcileLock \subseteq Orders
  /\ wpc \in [Workers -> WorkerStates]
  /\ wkey \in [Workers -> Orders \cup {NoOrder}]
  /\ wfill \in [Workers -> Nat]
  /\ rpc \in [Recorders -> RecorderStates]
  /\ rkey \in [Recorders -> Orders \cup {NoOrder}]
  /\ todo \in [Recorders -> SUBSET Orders]
  /\ seen \in [Recorders -> [Orders -> Statuses]]
  /\ already \in [Recorders -> Nat]
  /\ answer \in [Recorders -> Nat]
  /\ holdings \in [Recorders -> Int]
  /\ stops \in 0..MaxStops

\* However often and by whomever an order is looked at again, its executions
\* never add up to more than the broker filled (reconcile.py: a repeated query
\* does not add to the position twice; fill_notice.py: the lock keeps the sweep
\* and the notices from booking the same fill).
NoDoubleRecording == \A o \in Orders : recorded[o] <= filled[o]

\* A signal reaches the broker at most once, over concurrent ticks, expired
\* order locks, unanswered requests and restarts (execute_signal).
AtMostOneOrder == \A o \in Orders : accepted[o] <= 1

\* The committed status says how much of the order the ledger holds, whichever
\* of the three paths wrote it last (record_fill and the status correction).
StatusTellsRecorded ==
  \A o \in Orders :
    /\ status[o] = "filled" <=> recorded[o] >= Target[o]
    /\ status[o] = "partial" <=> recorded[o] \in 1..(Target[o] - 1)

\* An order that left the sweep's reach, filled or refused, is never reopened
\* by an actor that had read it earlier (the status correction of the sweep).
ClosedStaysClosed ==
  [][\A o \in Orders : status[o] \in {"filled", "rejected"} => status'[o] = status[o]]_vars

\* Why a signal is sent once: the row of an order in flight exists, one worker
\* has inserted it, and the broker knows nothing of an order without a row.
Sending(w) == wpc[w] \in {"send", "taken", "refused", "resolve", "commit", "numberless"}
SendInv ==
  /\ \A w \in Workers : wpc[w] # "idle" => wkey[w] \in Orders
  /\ \A w \in Workers : Sending(w) => status[wkey[w]] # "none"
  /\ \A v, w \in Workers : Sending(v) /\ Sending(w) /\ wkey[v] = wkey[w] => v = w
  /\ \A w \in Workers : wpc[w] = "send" => accepted[wkey[w]] = 0
  /\ \A o \in Orders : status[o] = "none" => accepted[o] = 0
  /\ AtMostOneOrder

\* Why a fill is booked once on the real account, while no call outlives the
\* lock: nobody but its worker touches an order in flight, every other writer
\* holds the lock, has read the executions under it, and has an answer that the
\* broker's fills have not fallen behind.
Reachable == numbered \cup aged     \* what a recorder may have in its hands
WorkerInv ==
  /\ \A o \in Orders : status[o] = "none" => recorded[o] = 0 /\ o \notin Reachable
  /\ \A w \in Workers : Sending(w) => recorded[wkey[w]] = 0 /\ wkey[w] \notin Reachable
  /\ \A w \in Workers : wpc[w] = "commit" => wfill[w] <= filled[wkey[w]]
Holding(r) == rpc[r] \notin {"idle", "next", "matched"}
RecorderInv ==
  /\ \A r \in Recorders : todo[r] \subseteq Reachable
  /\ \A r \in Recorders : rpc[r] \notin {"idle", "next"} => rkey[r] \in Reachable
  /\ \A r \in Recorders : Holding(r) => rkey[r] \in reconcileLock
  /\ \A r, s \in Recorders : Holding(r) /\ Holding(s) /\ rkey[r] = rkey[s] => r = s
  /\ \A r \in Recorders : Holding(r) /\ rpc[r] # "release" => already[r] = recorded[rkey[r]]
  /\ \A r \in Recorders : rpc[r] \in {"matched", "apply"} => answer[r] <= filled[rkey[r]]
  /\ \A r \in Recorders : rpc[r] = "matched" => r = Listener
  /\ rpc[Listener] \in {"idle", "matched", "apply", "release"}
  /\ \A n \in notices : n[2] <= filled[n[1]]
RecordInv == WorkerInv /\ RecorderInv /\ NoDoubleRecording

\* The pipeline books fills as the abstract ledger does.
Ledger == INSTANCE FillLedger WITH booked <- recorded
ImplementsLedger == Ledger!Spec

\* The orders no sweep selects although the broker took them: refused by an answer that
\* was an error, SUBMITTED by one without a number, and PARTIAL where the balance explained
\* only a part of an unconfirmed order, which stays without its number.  Nobody looks at
\* these again and nobody is told, against what executor.py and reconcile.py promise of
\* every order; the two properties below are about all the others.
Dropped(o) ==
  /\ accepted[o] > 0 /\ o \notin numbered
  /\ status[o] \in {"rejected", "submitted", "partial"}

\* What is filled of an order whose number is known is to be booked (executor.py:
\* reconcile asks again and converges to the actual fill), and an order the broker took
\* and whose number never came back is to be handed to a person (reconcile.py: what
\* cannot be cleared up ends in a critical alert), unless its row was dropped.  There
\* always comes a moment when nothing of this is owed, after a crash and a cancelled
\* tick as well.
Owed(o) ==
  \/ o \in numbered /\ filled[o] > recorded[o]
  \/ accepted[o] > 0 /\ o \notin numbered \cup alerted /\ ~Dropped(o)
NothingStaysOwed == (\E o \in Orders : Owed(o)) ~> (\A o \in Orders : ~Owed(o))

\* The paper account's way to recover fills: executions of the bought symbol
\* never exceed what the account got (reconcile.py: only what other orders have
\* not consumed is credited).
SymbolNotOverRecorded == SumOver(recorded, Buys) <= SumOver(filled, Buys)

\* Purchases the balance explains in full are booked in full or handed to a
\* person (reconcile.py: an unconfirmed order is recovered from the balance, and
\* otherwise ends in a critical alert), the dropped ones excepted.
UnconfirmedIsRecovered ==
  (\A o \in Orders \cap Buys : filled[o] = Target[o])
    ~> (\A o \in Orders \cap Buys :
           recorded[o] = Target[o] \/ o \in alerted \/ Dropped(o))
=============================================================================

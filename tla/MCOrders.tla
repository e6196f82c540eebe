------------------------------ MODULE MCOrders ------------------------------
(***************************************************************************)
(* The order pipeline, on the account of the configuration or on a real    *)
(* one, and, below it, the client that carries its calls to the broker.    *)
(* focus says which of them a behaviour is about; the others rest.  Of the *)
(* client: two calls of one process ("engine"), or of two ("client").      *)
(***************************************************************************)
EXTENDS MCOrderPipeline, ClientState, TLC

CONSTANTS c1, c2, c3, p1, p2

\* Two calls of the engine and one of the web process, which shares the token with it.
ThreeCalls == {c1, c2, c3}
TwoProcesses == {p1, p2}
Split == c1 :> p1 @@ c2 :> p1 @@ c3 :> p2

VARIABLE focus          \* "orders", "real", "client" or "engine"
Real == INSTANCE OrderPipeline WITH Paper <- FALSE, Buys <- {o1}
B == INSTANCE BrokerClient
ASSUME ClientAssumption == ClientConstants
clientVars == <<client, calm, kind, pc, wait, tries, got, cache, lock, next, spare, placed, faults>>
all == <<focus, vars, clientVars>>

ClientRests ==
  client = "kis" /\ calm /\ cache = 0 /\ kind = [c \in Callers |-> "order"]

\* Where things go wrong two calls are enough.
Calls(c) == calm \/ c # IF focus = "client" THEN c2 ELSE c3
MCInit ==
  /\ Init /\ B!Init
  /\ \/ /\ focus = "client" \/ (focus = "engine" /\ ~calm /\ client = "kis")
        /\ \A c \in Callers : Calls(c) \/ kind[c] = "query"
     \/ focus = "orders" /\ ClientRests

MCNext ==
  \/ focus = "orders" /\ Next /\ UNCHANGED <<focus, clientVars>>
  \/ focus = "real" /\ Real!Next /\ UNCHANGED <<focus, clientVars>>
  \/ /\ focus \in {"client", "engine"}
     /\ (\E c \in Callers : Calls(c) /\ B!Step(c)) \/ (\E p \in Processes : B!Crash(p)) \/ B!Tick
     /\ UNCHANGED <<focus, vars>>

MCSpec == MCInit /\ [][MCNext]_all

\* The orders of both accounts as long as they take, with the fairness of OrderPipeline.
Either(paper, real) == (focus = "orders" /\ paper) \/ (focus = "real" /\ real)
AccountsInit == Init /\ B!Init /\ ClientRests /\ focus \in {"orders", "real"}
FairAccounts ==
  /\ AccountsInit /\ [][MCNext]_all
  /\ \A w \in Workers : WF_vars(Either(Advance(w), Real!Advance(w)))
  /\ WF_vars(Either(Sweep(EngineSweeper), Real!Sweep(EngineSweeper)))
  /\ WF_vars(Either(Listen, Real!Listen))
  /\ SF_vars(Either(BalanceAnswers(EngineSweeper, Held), Real!BalanceAnswers(EngineSweeper, Real!Held)))
  /\ \A o \in Orders :
       /\ WF_vars(Either(GraceEnds(o), Real!GraceEnds(o)))
       /\ WF_vars(Either(ExpireOrderLock(o), Real!ExpireOrderLock(o)))
       /\ WF_vars(Either(ExpireReconcileLock(o), Real!ExpireReconcileLock(o)))
       /\ SF_vars(Either(QueryAnswers(EngineSweeper, o), Real!QueryAnswers(EngineSweeper, o)))

\* On the real account every fill is booked and every order accounted for (reconcile.py).
RealSettles == focus = "real" => Real!NothingStaysOwed
\* The paper account tells nothing of an order: its purchases are recovered from the balance.
PaperIsRecovered == focus = "orders" => UnconfirmedIsRecovered
=============================================================================

------------------------ MODULE OrderPipelineProofs ------------------------
(***************************************************************************)
(* Safety of the order pipeline for any set of orders, any number of ticks *)
(* and any number of manual sweeps.                                        *)
(***************************************************************************)
EXTENDS OrderPipeline, SumLemmas

\* The types alone are not inductive: an actor at work has an order in its
\* hands, and the listener books only what is new.
KeyInv ==
  /\ \A w \in Workers : wpc[w] # "idle" => wkey[w] \in Orders
  /\ \A r \in Recorders : rpc[r] \notin {"idle", "next"} => rkey[r] \in Orders
  /\ rpc[Listener] = "apply" => answer[Listener] > already[Listener]
TypeInv == TypeOK /\ KeyInv

\* Without the paper account's balance there is nothing to credit.
LEMMA NoCredit ==
  ASSUME ~Paper, NEW r, CrossCheck(r)
  PROVE  /\ rpc[r] = "crosscheck"
         /\ rpc' = [rpc EXCEPT ![r] = "release"]
         /\ alerted' \in {alerted, alerted \cup {rkey[r]}}
         /\ UNCHANGED <<dbVars, lockVars, brokerVars, workerVars, rkey, todo, seen, already,
                        answer, holdings, stops>>
<1>1. Credit(r) = 0
  BY DEF Credit
<1>2. QED
  BY <1>1 DEF CrossCheck

\* The orders are finitely many: what they hold and what is recorded of them are numbers.
LEMMA Totals ==
  ASSUME recorded \in [Orders -> Nat], filled \in [Orders -> Nat]
  PROVE  /\ SumOver(filled, Buys) \in Nat /\ SumOver(filled, Orders \ Buys) \in Nat
         /\ SymbolRecorded \in Nat /\ Held \in Int
<1>1. IsFiniteSet(Orders) /\ IsFiniteSet(Buys) /\ IsFiniteSet(Orders \ Buys) /\ Buys \subseteq Orders
  BY PipelineAssumption, FS_Subset
<1>2. SumOver(filled, Buys) \in Nat /\ SumOver(filled, Orders \ Buys) \in Nat
  BY <1>1, SumNat
<1>3. SumOver(recorded, Orders) \in Nat
  BY <1>1, SumNat
<1>. QED BY <1>2, <1>3 DEF SymbolRecorded, Held

\* Each actor keeps the types, whatever it does.
LEMMA ExecutorTypes ==
  ASSUME TypeInv, NEW w \in Workers, Execute(w) PROVE TypeInv'
<1> USE PipelineAssumption DEF TypeInv, TypeOK, KeyInv, dbVars, lockVars, brokerVars, workerVars, recorderVars
<1>1. ASSUME NEW o \in Orders, Begin(w, o) PROVE TypeInv'
  BY <1>1 DEF Begin, WorkerStates
<1>2. ASSUME FindExisting(w) PROVE TypeInv'
  BY <1>2 DEF FindExisting, WorkerStates
<1>3. ASSUME Insert(w) PROVE TypeInv'
  <2>1. wkey[w] \in Orders
    BY <1>3 DEF Insert
  <2>2. CASE status[wkey[w]] = "none"
    <3>1. status' = [status EXCEPT ![wkey[w]] = "pending"]
      BY <1>3, <2>2 DEF Insert
    <3>2. wpc' = [wpc EXCEPT ![w] = "send"]
      BY <1>3, <2>2 DEF Insert
    <3>3. QED
      BY <1>3, <2>1, <3>1, <3>2 DEF Insert, WorkerStates, Statuses, OpenStatuses
  <2>3. CASE status[wkey[w]] # "none"
    BY <1>3, <2>1, <2>3 DEF Insert, WorkerStates
  <2>4. QED
    BY <2>2, <2>3
<1>4. ASSUME BrokerAccepts(w) PROVE TypeInv'
  BY <1>4 DEF BrokerAccepts, WorkerStates
<1>5. ASSUME BrokerRefuses(w) PROVE TypeInv'
  BY <1>5 DEF BrokerRefuses, WorkerStates
<1>6. ASSUME Acknowledged(w) PROVE TypeInv'
  BY <1>6 DEF Acknowledged, WorkerStates
<1>7. ASSUME MarkRejected(w) PROVE TypeInv'
  BY <1>7 DEF MarkRejected, WorkerStates, Statuses, OpenStatuses
<1>8. ASSUME Unanswered(w) PROVE TypeInv'
  BY <1>8 DEF Unanswered, WorkerStates
<1>9. ASSUME ResolveFill(w) PROVE TypeInv'
  BY <1>9 DEF ResolveFill, ExecutionAnswer, WorkerStates
<1>10. ASSUME ResolveRaises(w) PROVE TypeInv'
  BY <1>10 DEF ResolveRaises, WorkerStates
<1>11. ASSUME CommitAttempt(w) PROVE TypeInv'
  <2>1. wkey[w] \in Orders /\ wfill[w] \in Nat
    BY <1>11 DEF CommitAttempt
  <2>2. status' \in [Orders -> Statuses] /\ recorded' \in [Orders -> Nat]
    <3>1. CASE wfill[w] = 0
      BY <1>11, <2>1, <3>1 DEF CommitAttempt, Statuses, OpenStatuses
    <3>2. CASE wfill[w] # 0
      <4>1. Record(wkey[w], wfill[w], wfill[w] >= Target[wkey[w]], "pending")
        BY <1>11, <3>2 DEF CommitAttempt
      <4>2. QED
        BY <2>1, <4>1 DEF Record, Statuses, OpenStatuses
    <3>3. QED
      BY <3>1, <3>2
  <2>3. QED
    BY <1>11, <2>1, <2>2 DEF CommitAttempt, WorkerStates
<1>12. ASSUME CancelTick(w) PROVE TypeInv'
  BY <1>12 DEF CancelTick, WorkerStates
<1>13. ASSUME Finally(w) PROVE TypeInv'
  BY <1>13 DEF Finally, WorkerStates
<1>14. ASSUME ErrorAnswered(w) PROVE TypeInv'
  BY <1>14 DEF ErrorAnswered, WorkerStates
<1>15. ASSUME AcknowledgedNumberless(w) PROVE TypeInv'
  BY <1>15 DEF AcknowledgedNumberless, WorkerStates
<1>16. ASSUME CommitNumberless(w) PROVE TypeInv'
  BY <1>16 DEF CommitNumberless, WorkerStates, Statuses, OpenStatuses
<1>17. QED
  BY <1>1, <1>2, <1>3, <1>4, <1>5, <1>6, <1>7, <1>8, <1>9, <1>10, <1>11, <1>12, <1>13, <1>14,
     <1>15, <1>16 DEF Execute

\* The cross check answers for the order at hand, or gives it up.
LEMMA Crosschecked ==
  ASSUME TypeInv, NEW r \in Sweepers, CrossCheck(r), rkey[r] \in Orders, Credit(r) \in Nat
  PROVE  /\ answer' \in [Recorders -> Nat] /\ alerted' \subseteq Orders
         /\ rpc' \in [Recorders -> RecorderStates]
         /\ \A q \in Recorders : rpc'[q] \notin {"idle", "next"} => rpc[q] \notin {"idle", "next"}
         /\ rpc'[Listener] = rpc[Listener] /\ answer'[Listener] = answer[Listener]
<1>1. /\ r # Listener /\ r \in Recorders /\ Listener \in Recorders
      /\ rpc \in [Recorders -> RecorderStates] /\ answer \in [Recorders -> Nat]
      /\ already \in [Recorders -> Nat] /\ alerted \subseteq Orders
  BY PipelineAssumption DEF Sweepers, Recorders, TypeInv, TypeOK
<1>2. PICK step \in {"apply", "release"}, told \in Nat :
        /\ rpc[r] = "crosscheck" /\ rpc' = [rpc EXCEPT ![r] = step]
        /\ answer' = [answer EXCEPT ![r] = told]
  <2>1. CASE Credit(r) > 0
    <3>1. already[r] + Credit(r) \in Nat
      BY <1>1
    <3>. QED BY <2>1, <3>1 DEF CrossCheck
  <2>2. CASE ~(Credit(r) > 0)
    <3>1. answer[r] \in Nat /\ answer' = [answer EXCEPT ![r] = answer[r]]
      BY <1>1, <2>2 DEF CrossCheck
    <3>. QED BY <2>2, <3>1 DEF CrossCheck
  <2>. QED BY <2>1, <2>2
<1>3. alerted' \subseteq Orders
  BY <1>1 DEF CrossCheck
<1>4. step \in RecorderStates
  BY DEF RecorderStates
<1>. QED BY <1>1, <1>2, <1>3, <1>4

\* What the sweep credits is a number of shares.
LEMMA SweepTypes ==
  ASSUME TypeInv, NEW r \in Sweepers, Sweep(r) PROVE TypeInv'
<1> USE PipelineAssumption DEF TypeInv, TypeOK, KeyInv, dbVars, lockVars, brokerVars, workerVars, recorderVars
<1>1. ASSUME StartSweep(r) PROVE TypeInv'
  BY <1>1 DEF StartSweep, Selected, Statuses, RecorderStates, Recorders, Sweepers
<1>2. ASSUME NEW o \in Orders, SkipLocked(r, o) PROVE TypeInv'
  BY <1>2 DEF SkipLocked, RecorderStates, Recorders, Sweepers
<1>3. ASSUME NEW o \in Orders, LockOrder(r, o) PROVE TypeInv'
  BY <1>3 DEF LockOrder, RecorderStates, Recorders, Sweepers
<1>4. ASSUME NEW o \in Orders, QueryAnswers(r, o) PROVE TypeInv'
  BY <1>4 DEF QueryAnswers, ExecutionAnswer, RecorderStates, Recorders, Sweepers
<1>5. ASSUME QueryRefused(r) PROVE TypeInv'
  BY <1>5 DEF QueryRefused, RecorderStates, Recorders, Sweepers
<1>6. ASSUME SweepRaises(r) PROVE TypeInv'
  BY <1>6 DEF SweepRaises, RecorderStates, Recorders, Sweepers
<1>7. ASSUME NEW qty \in {Held, 0}, BalanceAnswers(r, qty) PROVE TypeInv'
  <2>1. qty \in Int
    <3>1. Held \in Int
      BY Totals
    <3>. QED BY <3>1
  <2>2. holdings' \in [Recorders -> Int]
    BY <1>7, <2>1 DEF BalanceAnswers
  <2>. QED BY <1>7, <2>2 DEF BalanceAnswers
<1>8. ASSUME CrossCheck(r) PROVE TypeInv'
  <2>1. r \in Recorders /\ rkey[r] \in Orders
    BY <1>8 DEF CrossCheck, Recorders
  <2>2. Credit(r) \in Nat
    <3>1. SymbolRecorded \in Nat
      BY Totals
    <3>. QED BY <2>1, <3>1 DEF Credit
  <2>3. /\ answer' \in [Recorders -> Nat] /\ alerted' \subseteq Orders
        /\ rpc' \in [Recorders -> RecorderStates]
        /\ \A q \in Recorders : rpc'[q] \notin {"idle", "next"} => rpc[q] \notin {"idle", "next"}
        /\ rpc'[Listener] = rpc[Listener] /\ answer'[Listener] = answer[Listener]
    BY <1>8, <2>1, <2>2, Crosschecked
  <2>4. TypeOK'
    BY <1>8, <2>3 DEF CrossCheck
  <2>5. KeyInv'
    <3>1. UNCHANGED <<workerVars, rkey, already>>
      BY <1>8 DEF CrossCheck
    <3>. QED BY <2>3, <3>1
  <2>. QED BY <2>4, <2>5
<1>9. ASSUME ApplySweep(r) PROVE TypeInv'
  <2> DEFINE delta == answer[r] - already[r]
  <2>1. rkey[r] \in Orders /\ (IF delta > 0 THEN delta ELSE 0) \in Nat
    BY <1>9 DEF ApplySweep, Recorders
  <2>2. status' \in [Orders -> Statuses] /\ recorded' \in [Orders -> Nat]
    BY <1>9, <2>1 DEF ApplySweep, Record, Statuses, OpenStatuses
  <2>3. QED
    BY <1>9, <2>1, <2>2 DEF ApplySweep, RecorderStates, Recorders, Sweepers
<1>10. ASSUME Release(r) PROVE TypeInv'
  BY <1>10 DEF Release, RecorderStates, Recorders, Sweepers
<1>11. ASSUME EndSweep(r) PROVE TypeInv'
  BY <1>11 DEF EndSweep, Statuses, Unknown, RecorderStates, Recorders, Sweepers
<1>12. QED
  BY <1>1, <1>2, <1>3, <1>4, <1>5, <1>6, <1>7, <1>8, <1>9, <1>10, <1>11 DEF Sweep

\* The listener keeps the types.
LEMMA ListenTypes ==
  ASSUME TypeInv, Listen PROVE TypeInv'
<1> USE PipelineAssumption DEF TypeInv, TypeOK, KeyInv, dbVars, lockVars, brokerVars, workerVars, recorderVars
<1>1. ASSUME NEW n \in notices, TakeNotice(n) PROVE TypeInv'
  <2>1. n[1] \in Orders /\ n[2] \in Nat /\ Listener \in Recorders
    BY DEF Recorders
  <2>2. CASE n[1] \in numbered
    <3>1. /\ rpc' = [rpc EXCEPT ![Listener] = "matched"]
          /\ rkey' = [rkey EXCEPT ![Listener] = n[1]]
          /\ answer' = [answer EXCEPT ![Listener] = n[2]]
          /\ seen' = [seen EXCEPT ![Listener][n[1]] = status[n[1]]]
      BY <1>1, <2>2 DEF TakeNotice
    <3>2. seen' \in [Recorders -> [Orders -> Statuses]]
      BY <2>1, <3>1
    <3>3. QED
      BY <1>1, <2>1, <3>1, <3>2 DEF TakeNotice, RecorderStates
  <2>3. CASE n[1] \notin numbered
    BY <1>1, <2>1, <2>3 DEF TakeNotice
  <2>4. QED
    BY <2>2, <2>3
<1>2. ASSUME SkipNotice PROVE TypeInv'
  BY <1>2 DEF SkipNotice, ListenerRests, Statuses, RecorderStates, Recorders
<1>3. ASSUME LockNotice PROVE TypeInv'
  BY <1>3 DEF LockNotice, RecorderStates, Recorders
<1>4. ASSUME ApplyNotice PROVE TypeInv'
  <2> DEFINE o == rkey[Listener]
             delta == answer[Listener] - already[Listener]
  <2>1. o \in Orders /\ delta \in Nat
    BY <1>4 DEF ApplyNotice, Recorders
  <2>2. status' \in [Orders -> Statuses] /\ recorded' \in [Orders -> Nat]
    BY <1>4, <2>1 DEF ApplyNotice, Record, Statuses, OpenStatuses
  <2>3. QED
    BY <1>4, <2>1, <2>2 DEF ApplyNotice, RecorderStates, Recorders
<1>5. ASSUME ReleaseNotice PROVE TypeInv'
  BY <1>5 DEF ReleaseNotice, ListenerRests, Statuses, RecorderStates, Recorders
<1>6. QED
  BY <1>1, <1>2, <1>3, <1>4, <1>5 DEF Listen

\* The broker, the clocks, crashes and lost notices keep the types.
LEMMA EnvironmentTypes ==
  ASSUME TypeInv, Environment PROVE TypeInv'
<1> USE PipelineAssumption DEF TypeInv, TypeOK, KeyInv, dbVars, lockVars, brokerVars, workerVars, recorderVars
<1>1. ASSUME NEW o \in Orders, BrokerFills(o) PROVE TypeInv'
  BY <1>1 DEF BrokerFills
<1>2. ASSUME NEW o \in Orders, GraceEnds(o) PROVE TypeInv'
  BY <1>2 DEF GraceEnds
<1>3. ASSUME NEW o \in Orders, ExpireOrderLock(o) PROVE TypeInv'
  BY <1>3 DEF ExpireOrderLock
<1>4. ASSUME NEW o \in Orders, ExpireReconcileLock(o) PROVE TypeInv'
  BY <1>4 DEF ExpireReconcileLock
<1>5. ASSUME NEW n \in notices, LoseNotice(n) PROVE TypeInv'
  BY <1>5 DEF LoseNotice
<1>6. ASSUME EndOfDay PROVE TypeInv'
  BY <1>6 DEF EndOfDay
<1>7. ASSUME CrashEngine PROVE TypeInv'
  BY <1>7 DEF CrashEngine, Forget, WorkerStates, RecorderStates, Recorders, Statuses, Unknown
<1>8. ASSUME NEW r \in Scripts, KillScript(r) PROVE TypeInv'
  BY <1>8 DEF KillScript, Forget, WorkerStates, RecorderStates, Recorders, Sweepers, Statuses, Unknown
<1>9. QED
  BY <1>1, <1>2, <1>3, <1>4, <1>5, <1>6, <1>7, <1>8 DEF Environment

\* The types hold at the start.
LEMMA TypeStart == Init => TypeInv
  BY PipelineAssumption DEF Init, TypeInv, TypeOK, KeyInv, Statuses, WorkerStates,
     RecorderStates, Unknown, Recorders

\* No step of any actor breaks a type.
LEMMA TypeStep == ASSUME TypeInv, [Next]_vars PROVE TypeInv'
<1>1. CASE UNCHANGED vars
  BY <1>1 DEF vars, dbVars, lockVars, brokerVars, workerVars, recorderVars, TypeInv, TypeOK, KeyInv
<1>2. QED
  BY <1>1, ExecutorTypes, SweepTypes, ListenTypes, EnvironmentTypes DEF Next

\* On both accounts every variable keeps its type: whatever the tick, the sweeps, the
\* notices, crashes and failures do.
THEOREM TypeCorrect == Spec => []TypeOK
<1>1. TypeInv /\ [Next]_vars => TypeInv'
  BY TypeStep
<1>2. QED
  BY TypeStart, <1>1, PTL DEF Spec, TypeInv

(***************************************************************************)
(* A signal is sent once.                                                  *)
(***************************************************************************)
SendType ==
  /\ status \in [Orders -> Statuses]
  /\ accepted \in [Orders -> Nat]
  /\ wpc \in [Workers -> WorkerStates]
  /\ wkey \in [Workers -> Orders \cup {NoOrder}]
SendIInv == SendType /\ SendInv

\* Whoever does not touch the executor or the broker's book, and takes no row
\* away, keeps the invariant.
LEMMA RowsStay ==
  ASSUME SendIInv, UNCHANGED <<accepted, wpc, wkey>>,
         status' \in [Orders -> Statuses],
         \A o \in Orders : status'[o] = "none" => status[o] = "none"
  PROVE  SendIInv'
  BY DEF SendIInv, SendType, SendInv, Sending, AtMostOneOrder

\* record_fill never takes a row away, whoever calls it.
LEMMA RecordKeepsRows ==
  ASSUME NEW o, NEW qty, NEW fully, NEW loaded,
         status \in [Orders -> Statuses], Record(o, qty, fully, loaded)
  PROVE  /\ status' \in [Orders -> Statuses]
         /\ \A p \in Orders : status'[p] = "none" => status[p] = "none"
<1>1. \A p \in Orders : status'[p] \in {status[p], "filled", "partial"}
  BY DEF Record
<1>2. DOMAIN status' = Orders /\ status' = [p \in Orders |-> status'[p]]
  BY DEF Record
<1>3. QED
  BY <1>1, <1>2 DEF Statuses, OpenStatuses

\* A tick sends a signal only after its own insert of the row.
LEMMA ExecutorSends ==
  ASSUME SendIInv, NEW w \in Workers, Execute(w) PROVE SendIInv'
<1> USE PipelineAssumption DEF SendIInv, SendType, SendInv, Sending, AtMostOneOrder, WorkerStates, Statuses, OpenStatuses, dbVars, brokerVars
<1>1. ASSUME NEW o \in Orders, Begin(w, o) PROVE SendIInv'
  BY <1>1 DEF Begin
<1>2. ASSUME FindExisting(w) PROVE SendIInv'
  BY <1>2 DEF FindExisting
<1>3. ASSUME Insert(w) PROVE SendIInv'
  <2>1. wkey[w] \in Orders
    BY <1>3 DEF Insert
  <2>2. CASE status[wkey[w]] = "none"
    <3>1. /\ status' = [status EXCEPT ![wkey[w]] = "pending"]
          /\ wpc' = [wpc EXCEPT ![w] = "send"]
          /\ UNCHANGED <<accepted, wkey>>
      BY <1>3, <2>2 DEF Insert
    <3>2. \A v \in Workers \ {w} : Sending(v) => wkey[v] # wkey[w]
      BY <2>1, <2>2
    <3>3. QED
      BY <2>1, <2>2, <3>1, <3>2
  <2>3. CASE status[wkey[w]] # "none"
    BY <1>3, <2>1, <2>3 DEF Insert
  <2>4. QED
    BY <2>2, <2>3
<1>4. ASSUME BrokerAccepts(w) PROVE SendIInv'
  <2>1. /\ wpc[w] = "send"
        /\ accepted' = [accepted EXCEPT ![wkey[w]] = @ + 1]
        /\ wpc' = [wpc EXCEPT ![w] = "taken"]
        /\ UNCHANGED <<status, wkey>>
    BY <1>4 DEF BrokerAccepts
  <2>2. wkey[w] \in Orders /\ accepted[wkey[w]] = 0 /\ status[wkey[w]] # "none"
    BY <2>1
  <2>3. \A v \in Workers \ {w} : Sending(v) => wkey[v] # wkey[w]
    BY <2>1
  <2>4. QED
    BY <2>1, <2>2, <2>3
<1>5. ASSUME BrokerRefuses(w) PROVE SendIInv'
  BY <1>5 DEF BrokerRefuses
<1>6. ASSUME Acknowledged(w) PROVE SendIInv'
  BY <1>6 DEF Acknowledged
<1>7. ASSUME MarkRejected(w) PROVE SendIInv'
  BY <1>7 DEF MarkRejected
<1>8. ASSUME Unanswered(w) PROVE SendIInv'
  BY <1>8 DEF Unanswered
<1>9. ASSUME ResolveFill(w) PROVE SendIInv'
  BY <1>9 DEF ResolveFill
<1>10. ASSUME ResolveRaises(w) PROVE SendIInv'
  BY <1>10 DEF ResolveRaises
<1>11. ASSUME CommitAttempt(w) PROVE SendIInv'
  <2>1. /\ wpc[w] = "commit"
        /\ wpc' = [wpc EXCEPT ![w] = "finally"]
        /\ UNCHANGED <<accepted, wkey>>
    BY <1>11 DEF CommitAttempt
  <2>2. /\ status' \in [Orders -> Statuses]
        /\ \A p \in Orders : status'[p] = "none" => status[p] = "none"
    <3>1. CASE wfill[w] = 0
      BY <1>11, <3>1 DEF CommitAttempt
    <3>2. CASE wfill[w] # 0
      BY <1>11, <3>2, RecordKeepsRows DEF CommitAttempt
    <3>3. QED
      BY <3>1, <3>2
  <2>3. QED
    BY <2>1, <2>2
<1>12. ASSUME CancelTick(w) PROVE SendIInv'
  BY <1>12 DEF CancelTick
<1>13. ASSUME Finally(w) PROVE SendIInv'
  BY <1>13 DEF Finally
<1>14. ASSUME ErrorAnswered(w) PROVE SendIInv'
  BY <1>14 DEF ErrorAnswered
<1>15. ASSUME AcknowledgedNumberless(w) PROVE SendIInv'
  BY <1>15 DEF AcknowledgedNumberless
<1>16. ASSUME CommitNumberless(w) PROVE SendIInv'
  BY <1>16 DEF CommitNumberless
<1>17. QED
  BY <1>1, <1>2, <1>3, <1>4, <1>5, <1>6, <1>7, <1>8, <1>9, <1>10, <1>11, <1>12, <1>13, <1>14,
     <1>15, <1>16 DEF Execute

\* Nobody but the executor sends anything.
LEMMA OthersSendNothing ==
  ASSUME SendIInv, (\E r \in Sweepers : Sweep(r)) \/ Listen \/ Environment PROVE SendIInv'
<1> USE DEF dbVars, brokerVars, workerVars
<1>1. ASSUME NEW r \in Sweepers, Sweep(r) PROVE SendIInv'
  <2>1. CASE ApplySweep(r)
    BY <2>1, RowsStay, RecordKeepsRows DEF ApplySweep, SendIInv, SendType
  <2>2. CASE ~ApplySweep(r)
    <3>1. UNCHANGED <<status, accepted, wpc, wkey>>
      BY <1>1, <2>2 DEF Sweep, StartSweep, SkipLocked, LockOrder, QueryAnswers, QueryRefused,
         SweepRaises, BalanceAnswers, CrossCheck, Release, EndSweep
    <3>2. QED
      BY <3>1, RowsStay DEF SendIInv, SendType
  <2>3. QED
    BY <2>1, <2>2
<1>2. ASSUME Listen PROVE SendIInv'
  <2>1. CASE ApplyNotice
    BY <2>1, RowsStay, RecordKeepsRows DEF ApplyNotice, SendIInv, SendType
  <2>2. CASE ~ApplyNotice
    <3>1. UNCHANGED <<status, accepted, wpc, wkey>>
      BY <1>2, <2>2 DEF Listen, TakeNotice, SkipNotice, LockNotice, ReleaseNotice
    <3>2. QED
      BY <3>1, RowsStay DEF SendIInv, SendType
  <2>3. QED
    BY <2>1, <2>2
<1>3. ASSUME Environment PROVE SendIInv'
  <2>1. CASE CrashEngine \/ \E r \in Scripts : KillScript(r)
    <3>1. PICK W, R : Forget(W, R)
      BY <2>1 DEF CrashEngine, KillScript
    <3>2. /\ UNCHANGED <<status, accepted>>
          /\ wpc' = [w \in Workers |-> IF w \in W THEN "idle" ELSE wpc[w]]
          /\ wkey' = [w \in Workers |-> IF w \in W THEN NoOrder ELSE wkey[w]]
      BY <3>1 DEF Forget
    <3>3. QED
      BY <3>2 DEF SendIInv, SendType, SendInv, Sending, AtMostOneOrder, WorkerStates
  <2>2. CASE ~(CrashEngine \/ \E r \in Scripts : KillScript(r))
    <3>1. UNCHANGED <<status, accepted, wpc, wkey>>
      BY <1>3, <2>2 DEF Environment, BrokerFills, GraceEnds, ExpireOrderLock,
         ExpireReconcileLock, LoseNotice, EndOfDay
    <3>2. QED
      BY <3>1, RowsStay DEF SendIInv, SendType
  <2>3. QED
    BY <2>1, <2>2
<1>4. QED
  BY <1>1, <1>2, <1>3

\* Nothing is sent at the start.
LEMMA SendStart == Init => SendIInv
  BY DEF Init, SendIInv, SendType, SendInv, Sending, AtMostOneOrder, Statuses, WorkerStates

\* Every step keeps it that a signal is sent once.
LEMMA SendStep == ASSUME SendIInv, [Next]_vars PROVE SendIInv'
<1>1. CASE UNCHANGED vars
  BY <1>1, RowsStay DEF vars, dbVars, brokerVars, workerVars, SendIInv, SendType
<1>2. QED
  BY <1>1, ExecutorSends, OthersSendNothing DEF Next

\* A signal reaches the broker at most once, on both accounts, whatever locks
\* expire, requests stay unanswered or processes die: the committed row and its
\* UNIQUE key decide, not the lock (execute_signal).
THEOREM SentOnce == Spec => []AtMostOneOrder
<1>1. SendIInv /\ [Next]_vars => SendIInv'
  BY SendStep
<1>2. SendIInv => AtMostOneOrder
  BY DEF SendIInv, SendInv
<1>3. QED
  BY SendStart, <1>1, <1>2, PTL DEF Spec

(***************************************************************************)
(* A fill is booked once on the real account.                              *)
(***************************************************************************)
RecordIInv == TypeInv /\ SendInv /\ RecordInv

\* What each actor does to the invariant.
LEMMA ExecutorRecords ==
  ASSUME ~Paper, RecordIInv, NEW w \in Workers, Execute(w) PROVE RecordInv'
<1> USE PipelineAssumption DEF RecordIInv, SendInv, RecordInv, WorkerInv, RecorderInv, NoDoubleRecording, Reachable, Holding, Sending,
         TypeInv, TypeOK, KeyInv, dbVars, lockVars, brokerVars, workerVars, recorderVars
<1>1. ASSUME NEW o \in Orders, Begin(w, o) PROVE RecordInv'
  BY <1>1 DEF Begin
<1>2. ASSUME FindExisting(w) PROVE RecordInv'
  BY <1>2 DEF FindExisting
<1>3. ASSUME Insert(w) PROVE RecordInv'
  BY <1>3 DEF Insert
<1>4. ASSUME BrokerAccepts(w) PROVE RecordInv'
  BY <1>4 DEF BrokerAccepts
<1>5. ASSUME BrokerRefuses(w) PROVE RecordInv'
  BY <1>5 DEF BrokerRefuses
<1>6. ASSUME Acknowledged(w) PROVE RecordInv'
  BY <1>6 DEF Acknowledged
<1>7. ASSUME MarkRejected(w) PROVE RecordInv'
  BY <1>7 DEF MarkRejected
<1>8. ASSUME Unanswered(w) PROVE RecordInv'
  BY <1>8 DEF Unanswered
<1>9. ASSUME ResolveFill(w) PROVE RecordInv'
  BY <1>9 DEF ResolveFill, ExecutionAnswer
<1>10. ASSUME ResolveRaises(w) PROVE RecordInv'
  BY <1>10 DEF ResolveRaises
<1>11. ASSUME CommitAttempt(w) PROVE RecordInv'
  <2> DEFINE o == wkey[w]
  <2>1. /\ o \in Orders /\ wfill[w] \in Nat /\ wfill[w] <= filled[o] /\ recorded[o] = 0
        /\ o \notin Reachable /\ status[o] # "none"
        /\ \A v \in Workers \ {w} : Sending(v) => wkey[v] # o
        /\ \A r \in Recorders : rpc[r] \notin {"idle", "next"} => rkey[r] # o
    BY <1>11 DEF CommitAttempt
  <2>2. /\ numbered' = numbered \cup {o} /\ wpc' = [wpc EXCEPT ![w] = "finally"]
        /\ UNCHANGED <<aged, lockVars, brokerVars, wkey, wfill, recorderVars>>
    BY <1>11 DEF CommitAttempt
  <2>3. /\ \A p \in Orders \ {o} : status'[p] = status[p] /\ recorded'[p] = recorded[p]
        /\ status'[o] # "none" /\ recorded'[o] = wfill[w]
    <3>1. CASE wfill[w] = 0
      BY <1>11, <2>1, <3>1 DEF CommitAttempt
    <3>2. CASE wfill[w] # 0
      <4>1. Record(o, wfill[w], wfill[w] >= Target[o], "pending")
        BY <1>11, <3>2 DEF CommitAttempt
      <4>2. QED
        BY <2>1, <4>1 DEF Record
    <3>3. QED
      BY <3>1, <3>2
  <2>4. WorkerInv'
    <3>1. Reachable' = Reachable \cup {o}
      BY <2>2
    <3>2. \A p \in Orders : status'[p] = "none" => recorded'[p] = 0 /\ p \notin Reachable'
      BY <2>1, <2>3, <3>1
    <3>3. ASSUME NEW v \in Workers, Sending(v)'
          PROVE  recorded'[wkey'[v]] = 0 /\ wkey'[v] \notin Reachable'
      <4>1. v # w /\ Sending(v) /\ wkey[v] # o /\ wkey[v] \in Orders /\ wkey' = wkey
        BY <2>1, <2>2, <3>3
      <4>2. QED
        BY <2>3, <3>1, <4>1
    <3>4. \A v \in Workers : wpc'[v] = "commit" => wfill'[v] <= filled'[wkey'[v]]
      BY <2>2
    <3>5. QED
      BY <3>2, <3>3, <3>4
  <2>5. RecorderInv'
    BY <2>1, <2>2, <2>3
  <2>6. NoDoubleRecording'
    BY <2>1, <2>2, <2>3
  <2>7. QED
    BY <2>4, <2>5, <2>6
<1>12. ASSUME CancelTick(w) PROVE RecordInv'
  BY <1>12 DEF CancelTick
<1>13. ASSUME Finally(w) PROVE RecordInv'
  BY <1>13 DEF Finally
<1>14. ASSUME ErrorAnswered(w) PROVE RecordInv'
  BY <1>14 DEF ErrorAnswered
<1>15. ASSUME AcknowledgedNumberless(w) PROVE RecordInv'
  BY <1>15 DEF AcknowledgedNumberless
<1>16. ASSUME CommitNumberless(w) PROVE RecordInv'
  BY <1>16 DEF CommitNumberless
<1>17. QED
  BY <1>1, <1>2, <1>3, <1>4, <1>5, <1>6, <1>7, <1>8, <1>9, <1>10, <1>11, <1>12, <1>13, <1>14,
     <1>15, <1>16 DEF Execute

\* The sweep records what is missing, no more.
LEMMA SweepRecords ==
  ASSUME ~Paper, RecordIInv, NEW r \in Sweepers, Sweep(r) PROVE RecordInv'
<1> USE PipelineAssumption DEF RecordIInv, SendInv, RecordInv, WorkerInv, RecorderInv, NoDoubleRecording, Reachable, Holding, Sending,
         TypeInv, TypeOK, KeyInv, dbVars, lockVars, brokerVars, workerVars, recorderVars
<1>1. ASSUME StartSweep(r) PROVE RecordInv'
  BY <1>1 DEF StartSweep, Selected, IsOpen, IsStalePending, Recorders, Sweepers
<1>2. ASSUME NEW o \in Orders, SkipLocked(r, o) PROVE RecordInv'
  BY <1>2 DEF SkipLocked, Recorders, Sweepers
<1>3. ASSUME NEW o \in Orders, LockOrder(r, o) PROVE RecordInv'
  BY <1>3 DEF LockOrder, Recorders, Sweepers
<1>4. ASSUME NEW o \in Orders, QueryAnswers(r, o) PROVE RecordInv'
  BY <1>4 DEF QueryAnswers, ExecutionAnswer, Recorders, Sweepers
<1>5. ASSUME QueryRefused(r) PROVE RecordInv'
  BY <1>5 DEF QueryRefused, Recorders, Sweepers
<1>6. ASSUME SweepRaises(r) PROVE RecordInv'
  BY <1>6 DEF SweepRaises, Recorders, Sweepers
<1>7. ASSUME NEW qty, BalanceAnswers(r, qty) PROVE RecordInv'
  BY <1>7 DEF BalanceAnswers
<1>8. ASSUME CrossCheck(r) PROVE RecordInv'
  <2>1. /\ rpc[r] = "crosscheck" /\ r \in Recorders /\ r # Listener
        /\ rpc' = [rpc EXCEPT ![r] = "release"]
        /\ UNCHANGED <<dbVars, lockVars, brokerVars, workerVars, rkey, todo, already, answer>>
    BY <1>8, NoCredit DEF Recorders
  <2>2. WorkerInv' /\ NoDoubleRecording'
    BY <2>1
  <2>3. RecorderInv'
    <3>1. \A s \in Recorders : Holding(s)' => Holding(s)
      BY <2>1
    <3>2. \A s \in Recorders : /\ rpc'[s] \notin {"idle", "next"} => rpc[s] \notin {"idle", "next"}
                               /\ rpc'[s] \in {"matched", "apply"} => rpc[s] = rpc'[s]
                               /\ Holding(s)' /\ rpc'[s] # "release" => rpc[s] # "release"
      BY <2>1
    <3>3. QED
      BY <2>1, <3>1, <3>2
  <2>4. QED
    BY <2>2, <2>3
<1>9. ASSUME ApplySweep(r) PROVE RecordInv'
  BY <1>9 DEF ApplySweep, Record, Recorders, Sweepers
<1>10. ASSUME Release(r) PROVE RecordInv'
  BY <1>10 DEF Release, Recorders, Sweepers
<1>11. ASSUME EndSweep(r) PROVE RecordInv'
  BY <1>11 DEF EndSweep, Recorders, Sweepers
<1>12. QED
  BY <1>1, <1>2, <1>3, <1>4, <1>5, <1>6, <1>7, <1>8, <1>9, <1>10, <1>11 DEF Sweep

\* The listener records what is missing, no more.
LEMMA ListenRecords ==
  ASSUME RecordIInv, Listen PROVE RecordInv'
<1> USE PipelineAssumption DEF RecordIInv, SendInv, RecordInv, WorkerInv, RecorderInv, NoDoubleRecording, Reachable, Holding, Sending,
         TypeInv, TypeOK, KeyInv, dbVars, lockVars, brokerVars, workerVars, recorderVars
<1>1. ASSUME NEW n \in notices, TakeNotice(n) PROVE RecordInv'
  BY <1>1 DEF TakeNotice, Recorders
<1>2. ASSUME SkipNotice PROVE RecordInv'
  BY <1>2 DEF SkipNotice, ListenerRests, Recorders
<1>3. ASSUME LockNotice PROVE RecordInv'
  BY <1>3 DEF LockNotice, Recorders
<1>4. ASSUME ApplyNotice PROVE RecordInv'
  BY <1>4 DEF ApplyNotice, Record, Recorders
<1>5. ASSUME ReleaseNotice PROVE RecordInv'
  BY <1>5 DEF ReleaseNotice, ListenerRests, Recorders
<1>6. QED
  BY <1>1, <1>2, <1>3, <1>4, <1>5 DEF Listen

\* The broker, crashes and locks that expire between calls leave the executions in order.
LEMMA EnvironmentRecords ==
  ASSUME ~CallOutlivesLock, RecordIInv, Environment PROVE RecordInv'
<1> USE PipelineAssumption DEF RecordIInv, SendInv, RecordInv, WorkerInv, RecorderInv, NoDoubleRecording, Reachable, Holding, Sending,
         TypeInv, TypeOK, KeyInv, dbVars, lockVars, brokerVars, workerVars, recorderVars
<1>1. ASSUME NEW o \in Orders, BrokerFills(o) PROVE RecordInv'
  BY <1>1 DEF BrokerFills
<1>2. ASSUME NEW o \in Orders, GraceEnds(o) PROVE RecordInv'
  BY <1>2 DEF GraceEnds, InFlight
<1>3. ASSUME NEW o \in Orders, ExpireOrderLock(o) PROVE RecordInv'
  BY <1>3 DEF ExpireOrderLock
<1>4. ASSUME NEW o \in Orders, ExpireReconcileLock(o) PROVE RecordInv'
  BY <1>4 DEF ExpireReconcileLock, Holds
<1>5. ASSUME NEW n \in notices, LoseNotice(n) PROVE RecordInv'
  BY <1>5 DEF LoseNotice
<1>6. ASSUME EndOfDay PROVE RecordInv'
  BY <1>6 DEF EndOfDay
<1>7. ASSUME CrashEngine PROVE RecordInv'
  BY <1>7 DEF CrashEngine, Forget, Recorders
<1>8. ASSUME NEW r \in Scripts, KillScript(r) PROVE RecordInv'
  BY <1>8 DEF KillScript, Forget, Recorders, Sweepers
<1>9. QED
  BY <1>1, <1>2, <1>3, <1>4, <1>5, <1>6, <1>7, <1>8 DEF Environment

\* The three parts together are inductive.
LEMMA RecordStep ==
  ASSUME ~Paper, ~CallOutlivesLock, RecordIInv, [Next]_vars PROVE RecordIInv'
<1>1. TypeInv'
  BY TypeStep DEF RecordIInv
<1>2. SendInv'
  <2>1. SendIInv
    BY DEF RecordIInv, TypeInv, TypeOK, SendIInv, SendType
  <2>2. QED
    BY <2>1, SendStep DEF SendIInv
<1>3. RecordInv'
  <2>1. CASE UNCHANGED vars
    BY <2>1 DEF vars, dbVars, lockVars, brokerVars, workerVars, recorderVars, RecordIInv,
       RecordInv, WorkerInv, RecorderInv, NoDoubleRecording, Reachable, Holding, Sending
  <2>2. QED
    BY <2>1, ExecutorRecords, SweepRecords, ListenRecords, EnvironmentRecords DEF Next
<1>4. QED
  BY <1>1, <1>2, <1>3 DEF RecordIInv

\* Nothing is recorded at the start.
LEMMA RecordStart == Init => RecordIInv
<1> SUFFICES ASSUME Init PROVE RecordIInv
  OBVIOUS
<1>1. TypeInv
  BY TypeStart
<1>2. SendInv
  BY SendStart DEF SendIInv
<1>3. RecordInv
  BY PipelineAssumption DEF Init, RecordInv, WorkerInv, RecorderInv, NoDoubleRecording,
     Reachable, Holding, Sending, Recorders
<1>4. QED
  BY <1>1, <1>2, <1>3 DEF RecordIInv

\* On the real account, while no broker call outlives the reconcile lock, the
\* executions of an order never add up to more than the broker filled: sweeps,
\* manual runs, notices, ticks and crashes may interleave in any way.
THEOREM RecordedOnce == ASSUME ~Paper, ~CallOutlivesLock PROVE Spec => []NoDoubleRecording
<1>1. RecordIInv /\ [Next]_vars => RecordIInv'
  BY RecordStep, ~Paper, ~CallOutlivesLock
<1>2. RecordIInv => NoDoubleRecording
  BY DEF RecordIInv, RecordInv
<1>3. QED
  BY RecordStart, <1>1, <1>2, PTL DEF Spec

(***************************************************************************)
(* The pipeline implements the abstract ledger.                            *)
(***************************************************************************)
ledger == <<accepted, filled, recorded>>

\* Booking some of what the broker filled is a step of the ledger; booking
\* nothing is none.
LEMMA RecordBooks ==
  ASSUME RecordIInv, RecordIInv', NEW o \in Orders, NEW qty \in Nat, NEW fully, NEW loaded,
         Record(o, qty, fully, loaded), UNCHANGED <<accepted, filled>>
  PROVE  Ledger!Book(o) \/ UNCHANGED ledger
<1>1. /\ recorded \in [Orders -> Nat] /\ filled \in [Orders -> Nat]
      /\ recorded' = [recorded EXCEPT ![o] = @ + qty] /\ recorded'[o] <= filled[o]
  BY DEF Record, RecordIInv, TypeInv, TypeOK, RecordInv, NoDoubleRecording
<1>2. CASE qty = 0
  BY <1>1, <1>2 DEF ledger
<1>3. CASE qty # 0
  <2>1. recorded'[o] \in (recorded[o] + 1)..filled[o]
    BY <1>1, <1>3
  <2>2. recorded' = [recorded EXCEPT ![o] = recorded'[o]]
    BY <1>1
  <2>3. QED
    BY <2>1, <2>2 DEF Ledger!Book
<1>4. QED
  BY <1>2, <1>3

\* Every step of the pipeline is a step of the ledger, or none.
LEMMA StepRefines ==
  ASSUME RecordIInv, RecordIInv', [Next]_vars
  PROVE  (\E o \in Orders : Ledger!Place(o) \/ Ledger!Fill(o) \/ Ledger!Book(o))
         \/ UNCHANGED ledger
<1> DEFINE Goal == (\E o \in Orders : Ledger!Place(o) \/ Ledger!Fill(o) \/ Ledger!Book(o))
                   \/ UNCHANGED ledger
<1> USE DEF brokerVars, dbVars
<1>1. ASSUME NEW w \in Workers, Execute(w) PROVE Goal
  <2>1. CASE BrokerAccepts(w)
    <3>1. wkey[w] \in Orders /\ accepted[wkey[w]] = 0
      BY <2>1 DEF BrokerAccepts, RecordIInv, SendInv
    <3>2. Ledger!Place(wkey[w])
      BY <2>1, <3>1 DEF BrokerAccepts, Ledger!Place
    <3>3. QED
      BY <3>1, <3>2
  <2>2. CASE CommitAttempt(w)
    <3>1. wkey[w] \in Orders /\ wfill[w] \in Nat
      BY <2>2 DEF CommitAttempt, RecordIInv, SendInv, TypeInv, TypeOK
    <3>2. CASE wfill[w] = 0
      BY <2>2, <3>2 DEF CommitAttempt, ledger
    <3>3. CASE wfill[w] # 0
      BY <2>2, <3>1, <3>3, RecordBooks DEF CommitAttempt
    <3>4. QED
      BY <3>2, <3>3
  <2>3. CASE ~BrokerAccepts(w) /\ ~CommitAttempt(w)
    BY <1>1, <2>3 DEF Execute, Begin, FindExisting, Insert, BrokerRefuses, ErrorAnswered, Acknowledged,
       AcknowledgedNumberless, CommitNumberless, MarkRejected, Unanswered, ResolveFill, ResolveRaises,
       CancelTick, Finally, ledger
  <2>4. QED
    BY <2>1, <2>2, <2>3
<1>2. ASSUME NEW r \in Sweepers, Sweep(r) PROVE Goal
  <2>1. CASE ApplySweep(r)
    <3> DEFINE delta == answer[r] - already[r]
    <3>1. rkey[r] \in Orders /\ (IF delta > 0 THEN delta ELSE 0) \in Nat
      BY <2>1 DEF ApplySweep, RecordIInv, TypeInv, TypeOK, KeyInv, Recorders
    <3>2. QED
      BY <2>1, <3>1, RecordBooks DEF ApplySweep
  <2>2. CASE ~ApplySweep(r)
    BY <1>2, <2>2 DEF Sweep, StartSweep, SkipLocked, LockOrder, QueryAnswers, QueryRefused,
       SweepRaises, BalanceAnswers, CrossCheck, Release, EndSweep, ledger
  <2>3. QED
    BY <2>1, <2>2
<1>3. ASSUME Listen PROVE Goal
  <2>1. CASE ApplyNotice
    <3>1. rkey[Listener] \in Orders /\ answer[Listener] - already[Listener] \in Nat
      BY <2>1 DEF ApplyNotice, RecordIInv, TypeInv, TypeOK, KeyInv, Recorders
    <3>2. QED
      BY <2>1, <3>1, RecordBooks DEF ApplyNotice
  <2>2. CASE ~ApplyNotice
    BY <1>3, <2>2 DEF Listen, TakeNotice, SkipNotice, LockNotice, ReleaseNotice, ledger
  <2>3. QED
    BY <2>1, <2>2
<1>4. ASSUME Environment PROVE Goal
  <2>1. ASSUME NEW o \in Orders, BrokerFills(o) PROVE Goal
    <3>1. accepted[o] = 1
      BY <2>1 DEF BrokerFills, RecordIInv, SendInv, AtMostOneOrder, TypeInv, TypeOK
    <3>2. Ledger!Fill(o)
      BY <2>1, <3>1 DEF BrokerFills, Ledger!Fill
    <3>3. QED
      BY <3>2
  <2>2. CASE \A o \in Orders : ~BrokerFills(o)
    BY <1>4, <2>2 DEF Environment, GraceEnds, ExpireOrderLock, ExpireReconcileLock,
       LoseNotice, EndOfDay, CrashEngine, KillScript, Forget, ledger
  <2>3. QED
    BY <2>1, <2>2
<1>5. CASE UNCHANGED vars
  BY <1>5 DEF vars, ledger
<1>6. QED
  BY <1>1, <1>2, <1>3, <1>4, <1>5 DEF Next

\* Under the same conditions the pipeline implements the abstract ledger: every
\* step of it places an order once, fills it, books part of what is filled, or
\* changes nothing the ledger shows.
THEOREM Refinement == ASSUME ~Paper, ~CallOutlivesLock PROVE Spec => ImplementsLedger
<1>1. Init => Ledger!Init
  BY DEF Init, Ledger!Init
<1>2. RecordIInv /\ [Next]_vars => RecordIInv'
  BY RecordStep, ~Paper, ~CallOutlivesLock
<1>3. RecordIInv /\ RecordIInv' /\ [Next]_vars => [Ledger!Next]_(Ledger!ledgerVars)
  BY StepRefines DEF Ledger!Next, Ledger!ledgerVars, ledger
<1>4. QED
  BY RecordStart, <1>1, <1>2, <1>3, PTL DEF Spec, ImplementsLedger, Ledger!Spec

(***************************************************************************)
(* The status of an order tells its executions and does not go back.       *)
(***************************************************************************)
\* Why: only the worker that sends an order writes the status of one that is in
\* flight or refused, an actor about to record asks for more than is recorded,
\* and what it had read of the status before it took the lock is at most behind.
StatusInv ==
  /\ StatusTellsRecorded
  /\ \A w \in Workers : Sending(w) => status[wkey[w]] = "pending"
  /\ \A o \in Orders : status[o] = "rejected" => o \notin Reachable
  /\ \A r \in Recorders : rpc[r] = "apply" => answer[r] > 0 /\ answer[r] >= already[r]
  /\ \A r \in Recorders, o \in Orders :
       /\ seen[r][o] = "partial" => recorded[o] >= 1
       /\ seen[r][o] = "filled" => recorded[o] >= Target[o]
StatusIInv == RecordIInv /\ StatusInv
Closed == \A o \in Orders : status[o] \in {"filled", "rejected"} => status'[o] = status[o]

\* A recorder that applies an answer leaves the executions at that answer, and the
\* status follows: what it had loaded is what the row says now, where it matters.
LEMMA ApplyTells ==
  ASSUME StatusIInv, NEW r \in Recorders, rpc[r] = "apply",
         Record(rkey[r], answer[r] - already[r], answer[r] >= Target[rkey[r]], seen[r][rkey[r]]),
         UNCHANGED <<numbered, aged, workerVars, rkey, seen, answer, already>>,
         rpc' = [rpc EXCEPT ![r] = "release"]
  PROVE  StatusInv' /\ Closed
<1> DEFINE o == rkey[r]
           reached == IF answer[r] >= Target[o] THEN "filled" ELSE "partial"
<1> USE PipelineAssumption DEF StatusIInv, RecordIInv, TypeInv, TypeOK, KeyInv
<1>1. /\ o \in Orders /\ o \in Reachable /\ already[r] = recorded[o]
      /\ answer[r] >= recorded[o] /\ answer[r] > 0
      /\ {answer[r], recorded[o], Target[o]} \subseteq Nat /\ Target[o] > 0
  BY DEF RecordInv, RecorderInv, Holding, StatusInv
<1>2. recorded' = [recorded EXCEPT ![o] = answer[r]]
  <2>1. recorded' = [recorded EXCEPT ![o] = @ + (answer[r] - already[r])]
    BY DEF Record
  <2>2. recorded[o] + (answer[r] - already[r]) = answer[r]
    BY <1>1
  <2>. QED BY <2>1, <2>2
<1>3. status' = [status EXCEPT ![o] = reached]
  <2>1. CASE seen[r][o] = reached
    <3>1. status[o] = reached
      BY <1>1, <2>1 DEF StatusInv, StatusTellsRecorded
    <3>. QED BY <2>1, <3>1 DEF Record
  <2>2. CASE seen[r][o] # reached
    BY <2>2 DEF Record
  <2>. QED BY <2>1, <2>2
<1>4. StatusTellsRecorded'
  BY <1>1, <1>2, <1>3 DEF StatusInv, StatusTellsRecorded
<1>5. \A w \in Workers : Sending(w)' => status'[wkey'[w]] = "pending"
  BY <1>1, <1>3 DEF StatusInv, RecordInv, WorkerInv, Sending, workerVars
<1>6. \A p \in Orders : status'[p] = "rejected" => p \notin Reachable'
  BY <1>1, <1>3 DEF StatusInv, Reachable
<1>7. \A s \in Recorders : rpc'[s] = "apply" => answer'[s] > 0 /\ answer'[s] >= already'[s]
  BY DEF StatusInv
<1>8. \A p \in Orders : recorded'[p] >= recorded[p] /\ {recorded'[p], recorded[p]} \subseteq Nat
  BY <1>1, <1>2
<1>9. \A s \in Recorders, p \in Orders :
       /\ seen'[s][p] = "partial" => recorded'[p] >= 1
       /\ seen'[s][p] = "filled" => recorded'[p] >= Target[p]
  BY <1>8 DEF StatusInv
<1>10. Closed
  BY <1>1, <1>3 DEF Closed, StatusInv, StatusTellsRecorded
<1>. QED BY <1>4, <1>5, <1>6, <1>7, <1>9, <1>10 DEF StatusInv

\* A step that neither writes the ledger nor lets an order out of the hands it is in.
LEMMA StatusRests ==
  ASSUME StatusIInv, UNCHANGED <<status, recorded, numbered>>,
         \A w \in Workers : Sending(w)' => Sending(w) /\ wkey'[w] = wkey[w],
         \A o \in Orders : o \in aged' => o \in aged \/ status[o] = "pending",
         \A r \in Recorders : rpc'[r] = "apply" => answer'[r] > 0 /\ answer'[r] >= already'[r],
         \A r \in Recorders, o \in Orders : seen'[r][o] \in {"none", seen[r][o], status[o]}
  PROVE  StatusInv' /\ Closed
<1>1. StatusTellsRecorded' /\ Closed
  BY DEF StatusIInv, StatusInv, StatusTellsRecorded, Closed
<1>2. \A r \in Recorders, o \in Orders :
       /\ seen'[r][o] = "partial" => recorded'[o] >= 1
       /\ seen'[r][o] = "filled" => recorded'[o] >= Target[o]
  BY PipelineAssumption DEF StatusIInv, StatusInv, StatusTellsRecorded
<1>3. \A w \in Workers : Sending(w)' => status'[wkey'[w]] = "pending"
  BY DEF StatusIInv, StatusInv
<1>4. \A o \in Orders : status'[o] = "rejected" => o \notin Reachable'
  BY DEF StatusIInv, StatusInv, Reachable
<1>. QED BY <1>1, <1>2, <1>3, <1>4 DEF StatusInv

\* A worker writes the status of the order it sends, which nobody else may touch.
LEMMA ExecutorTells ==
  ASSUME StatusIInv, NEW w \in Workers, Execute(w) PROVE StatusInv' /\ Closed
<1> USE PipelineAssumption DEF dbVars, lockVars, brokerVars, workerVars, recorderVars
<1>types. /\ status \in [Orders -> Statuses] /\ recorded \in [Orders -> Nat]
          /\ wpc \in [Workers -> WorkerStates] /\ wkey \in [Workers -> Orders \cup {NoOrder}]
          /\ wfill \in [Workers -> Nat] /\ seen \in [Recorders -> [Orders -> Statuses]]
          /\ \A v \in Workers : wpc[v] # "idle" => wkey[v] \in Orders
  BY DEF StatusIInv, RecordIInv, TypeInv, TypeOK, KeyInv
\* A step that leaves the row alone.
<1>rest. ASSUME UNCHANGED <<dbVars, recorderVars>>, 
                \A v \in Workers : Sending(v)' => Sending(v) /\ wkey'[v] = wkey[v]
         PROVE  StatusInv' /\ Closed
  BY <1>rest, <1>types, StatusRests DEF StatusIInv, StatusInv
\* A step that ends with the row of the order at hand.
<1>write. ASSUME NEW new \in {"submitted", "partial", "filled", "rejected"}, NEW qty \in Nat,
                 status' = [status EXCEPT ![wkey[w]] = new],
                 recorded' = [recorded EXCEPT ![wkey[w]] = qty],
                 wpc' = [wpc EXCEPT ![w] = "finally"],
                 numbered' \in {numbered, numbered \cup {wkey[w]}},
                 new # "rejected" \/ numbered' = numbered,
                 UNCHANGED <<aged, wkey, recorderVars>>,
                 recorded[wkey[w]] = 0, wkey[w] \notin Reachable, wkey[w] \in Orders,
                 status[wkey[w]] = "pending",
                 \A v \in Workers \ {w} : Sending(v) => wkey[v] # wkey[w],
                 new = "filled" <=> qty >= Target[wkey[w]],
                 new = "partial" <=> qty \in 1 .. (Target[wkey[w]] - 1)
          PROVE  StatusInv' /\ Closed
  <2> DEFINE o == wkey[w]
  <2>1. StatusTellsRecorded'
    BY <1>write, <1>types DEF StatusIInv, StatusInv, StatusTellsRecorded
  <2>2. \A v \in Workers : Sending(v)' => status'[wkey'[v]] = "pending"
    BY <1>write, <1>types DEF StatusIInv, StatusInv, Sending
  <2>3. \A p \in Orders : status'[p] = "rejected" => p \notin Reachable'
    BY <1>write, <1>types DEF StatusIInv, StatusInv, Reachable
  <2>4. \A r \in Recorders : rpc'[r] = "apply" => answer'[r] > 0 /\ answer'[r] >= already'[r]
    BY <1>write DEF StatusIInv, StatusInv
  <2>5. \A p \in Orders : recorded'[p] >= recorded[p] /\ {recorded[p], recorded'[p], Target[p]} \subseteq Nat
    BY <1>write, <1>types
  <2>6. \A r \in Recorders, p \in Orders :
         /\ seen'[r][p] = "partial" => recorded'[p] >= 1
         /\ seen'[r][p] = "filled" => recorded'[p] >= Target[p]
    BY <2>5, <1>write DEF StatusIInv, StatusInv
  <2>7. Closed
    BY <1>write, <1>types DEF Closed
  <2>. QED BY <2>1, <2>2, <2>3, <2>4, <2>6, <2>7 DEF StatusInv
<1>hand. ASSUME Sending(w)
         PROVE  /\ recorded[wkey[w]] = 0 /\ wkey[w] \notin Reachable /\ wkey[w] \in Orders
                /\ status[wkey[w]] = "pending"
                /\ \A v \in Workers \ {w} : Sending(v) => wkey[v] # wkey[w]
  BY <1>hand, <1>types DEF StatusIInv, StatusInv, RecordIInv, RecordInv, WorkerInv, SendInv, Sending
<1>1. CASE Insert(w) /\ status[wkey[w]] = "none"
  <2>1. wkey[w] \in Orders /\ recorded[wkey[w]] = 0 /\ wkey[w] \notin Reachable
    BY <1>1, <1>types DEF Insert, StatusIInv, RecordIInv, RecordInv, WorkerInv
  <2>2. \A v \in Workers \ {w} : Sending(v) => wkey[v] # wkey[w]
    BY <1>1 DEF StatusIInv, StatusInv
  <2>3. /\ status' = [status EXCEPT ![wkey[w]] = "pending"] /\ wpc' = [wpc EXCEPT ![w] = "send"]
        /\ UNCHANGED <<numbered, recorded, aged, wkey, recorderVars>>
    BY <1>1 DEF Insert
  <2>4. StatusTellsRecorded'
    BY <2>1, <2>3, <1>1, <1>types DEF StatusIInv, StatusInv, StatusTellsRecorded
  <2>5. \A v \in Workers : Sending(v)' => status'[wkey'[v]] = "pending"
    BY <2>1, <2>2, <2>3, <1>types DEF StatusIInv, StatusInv, Sending
  <2>6. \A p \in Orders : status'[p] = "rejected" => p \notin Reachable'
    BY <2>1, <2>3, <1>types DEF StatusIInv, StatusInv, Reachable
  <2>7. Closed
    BY <2>1, <2>3, <1>1, <1>types DEF Closed
  <2>. QED BY <2>3, <2>4, <2>5, <2>6, <2>7 DEF StatusIInv, StatusInv
<1>2. CASE MarkRejected(w)
  <2>1. Sending(w)
    BY <1>2 DEF MarkRejected, Sending
  <2>2. /\ status' = [status EXCEPT ![wkey[w]] = "rejected"] /\ wpc' = [wpc EXCEPT ![w] = "finally"]
        /\ UNCHANGED <<numbered, recorded, aged, wkey, recorderVars>>
    BY <1>2 DEF MarkRejected
  <2>3. recorded' = [recorded EXCEPT ![wkey[w]] = 0]
    BY <2>1, <2>2, <1>hand, <1>types
  <2>4. Target[wkey[w]] \in Nat \ {0}
    BY <2>1, <1>hand
  <2>5. ~(0 >= Target[wkey[w]]) /\ 0 \notin 1 .. (Target[wkey[w]] - 1)
    BY <2>4
  <2>. QED BY <2>1, <2>2, <2>3, <2>4, <2>5, <1>hand, <1>write
<1>3. CASE CommitAttempt(w)
  <2>1. Sending(w)
    BY <1>3 DEF CommitAttempt, Sending
  <2>2. /\ wpc' = [wpc EXCEPT ![w] = "finally"] /\ numbered' = numbered \cup {wkey[w]}
        /\ UNCHANGED <<aged, wkey, recorderVars>>
    BY <1>3 DEF CommitAttempt
  <2>4. Target[wkey[w]] \in Nat \ {0}
    BY <2>1, <1>hand
  <2>5. CASE wfill[w] = 0
    <3>1. status' = [status EXCEPT ![wkey[w]] = "submitted"] /\ recorded' = recorded
      BY <1>3, <2>5 DEF CommitAttempt
    <3>2. recorded' = [recorded EXCEPT ![wkey[w]] = 0]
      BY <3>1, <2>1, <1>hand, <1>types
    <3>3. ~(0 >= Target[wkey[w]]) /\ 0 \notin 1 .. (Target[wkey[w]] - 1)
      BY <2>4
    <3>. QED BY <2>1, <2>2, <2>4, <3>1, <3>2, <3>3, <1>hand, <1>write
  <2>6. CASE wfill[w] # 0
    <3> DEFINE new == IF wfill[w] >= Target[wkey[w]] THEN "filled" ELSE "partial"
    <3>1. Record(wkey[w], wfill[w], wfill[w] >= Target[wkey[w]], "pending") /\ wfill[w] \in Nat \ {0}
      BY <1>3, <2>6, <1>types DEF CommitAttempt
    <3>2. recorded' = [recorded EXCEPT ![wkey[w]] = wfill[w]]
      <4>1. recorded' = [recorded EXCEPT ![wkey[w]] = @ + wfill[w]]
        BY <3>1 DEF Record
      <4>2. recorded[wkey[w]] + wfill[w] = wfill[w]
        BY <3>1, <2>1, <1>hand
      <4>. QED BY <4>1, <4>2
    <3>3. status' = [status EXCEPT ![wkey[w]] = new]
      BY <3>1, <2>1, <1>hand, <1>types DEF Record
    <3>4. /\ new \in {"filled", "partial"} /\ (new = "filled" <=> wfill[w] >= Target[wkey[w]])
          /\ (new = "partial" <=> wfill[w] \in 1 .. (Target[wkey[w]] - 1))
      BY <3>1, <2>4
    <3>. QED BY <2>1, <2>2, <2>4, <3>1, <3>2, <3>3, <3>4, <1>hand, <1>write
  <2>. QED BY <2>5, <2>6
<1>4. CASE ~(Insert(w) /\ status[wkey[w]] = "none") /\ ~MarkRejected(w) /\ ~CommitAttempt(w)
           /\ ~CommitNumberless(w)
  <2>1. UNCHANGED <<dbVars, recorderVars>>
    BY <1>4 DEF Execute, Begin, FindExisting, Insert, BrokerAccepts, BrokerRefuses, ErrorAnswered,
       Acknowledged, AcknowledgedNumberless, Unanswered, ResolveFill, ResolveRaises, CancelTick, Finally
  <2>2. \A v \in Workers : Sending(v)' => Sending(v) /\ wkey'[v] = wkey[v]
    BY <1>4, <1>types DEF Execute, Begin, FindExisting, Insert, BrokerAccepts, BrokerRefuses, ErrorAnswered,
       Acknowledged, AcknowledgedNumberless, Unanswered, ResolveFill, ResolveRaises, CancelTick, Finally, Sending
  <2>. QED BY <2>1, <2>2, <1>rest
<1>5. CASE CommitNumberless(w)
  <2>1. Sending(w)
    BY <1>5 DEF CommitNumberless, Sending
  <2>2. /\ status' = [status EXCEPT ![wkey[w]] = "submitted"] /\ wpc' = [wpc EXCEPT ![w] = "finally"]
        /\ UNCHANGED <<numbered, recorded, aged, wkey, recorderVars>>
    BY <1>5 DEF CommitNumberless
  <2>3. recorded' = [recorded EXCEPT ![wkey[w]] = 0]
    BY <2>1, <2>2, <1>hand, <1>types
  <2>4. Target[wkey[w]] \in Nat \ {0}
    BY <2>1, <1>hand
  <2>5. ~(0 >= Target[wkey[w]]) /\ 0 \notin 1 .. (Target[wkey[w]] - 1)
    BY <2>4
  <2>. QED BY <2>1, <2>2, <2>3, <2>4, <2>5, <1>hand, <1>write
<1>. QED BY <1>1, <1>2, <1>3, <1>4, <1>5

\* A sweep writes under the lock, from executions it has read under it.
LEMMA SweepTells ==
  ASSUME ~Paper, StatusIInv, NEW r \in Sweepers, Sweep(r) PROVE StatusInv' /\ Closed
<1> USE PipelineAssumption DEF dbVars, lockVars, brokerVars, workerVars, recorderVars
<1>types. /\ rpc \in [Recorders -> RecorderStates] /\ seen \in [Recorders -> [Orders -> Statuses]]
          /\ answer \in [Recorders -> Nat] /\ already \in [Recorders -> Nat] /\ r \in Recorders
          /\ filled \in [Orders -> Nat]
  BY DEF StatusIInv, RecordIInv, TypeInv, TypeOK, Recorders
<1>rest. ASSUME UNCHANGED <<dbVars, workerVars>>,
                \A s \in Recorders : rpc'[s] = "apply" => answer'[s] > 0 /\ answer'[s] >= already'[s],
                \A s \in Recorders, p \in Orders : seen'[s][p] \in {"none", seen[s][p], status[p]}
         PROVE  StatusInv' /\ Closed
  BY <1>rest, StatusRests DEF Sending
<1>same. \A s \in Recorders : rpc[s] = "apply" => answer[s] > 0 /\ answer[s] >= already[s]
  BY DEF StatusIInv, StatusInv
<1>1. CASE ApplySweep(r)
  <2>1. answer[r] - already[r] = IF answer[r] - already[r] > 0 THEN answer[r] - already[r] ELSE 0
    BY <1>1, <1>types, <1>same DEF ApplySweep
  <2>. QED BY <1>1, <2>1, <1>types, ApplyTells DEF ApplySweep
<1>2. CASE StartSweep(r)
  BY <1>2, <1>types, <1>same, <1>rest DEF StartSweep
<1>3. ASSUME NEW o \in Orders, QueryAnswers(r, o) PROVE StatusInv' /\ Closed
  <2>1. /\ rpc[r] = "query" /\ rkey[r] = o /\ already[r] = recorded[o] /\ recorded[o] <= filled[o]
        /\ answer' = [answer EXCEPT ![r] = ExecutionAnswer(o)]
        /\ rpc' = [rpc EXCEPT ![r] = IF ExecutionAnswer(o) > 0 THEN "apply" ELSE "crosscheck"]
        /\ UNCHANGED <<already, seen>>
    BY <1>3, <1>types DEF QueryAnswers, StatusIInv, RecordIInv, RecordInv, RecorderInv, Holding, NoDoubleRecording
  <2>2. ExecutionAnswer(o) > 0 => ExecutionAnswer(o) = filled[o]
    BY DEF ExecutionAnswer
  <2>3. \A s \in Recorders : rpc'[s] = "apply" => answer'[s] > 0 /\ answer'[s] >= already'[s]
    BY <2>1, <2>2, <1>types, <1>same
  <2>. QED BY <1>3, <2>1, <2>3, <1>rest DEF QueryAnswers
<1>4. ASSUME NEW o \in Orders, LockOrder(r, o) PROVE StatusInv' /\ Closed
  BY <1>4, <1>types, <1>same, <1>rest DEF LockOrder
<1>5. CASE CrossCheck(r)
  BY <1>5, <1>types, <1>same, <1>rest, NoCredit
<1>6. CASE Release(r) \/ EndSweep(r)
  <2>1. CASE Release(r)
    BY <2>1, <1>types, <1>same, <1>rest DEF Release
  <2>2. CASE EndSweep(r)
    BY <2>2, <1>types, <1>same, <1>rest DEF EndSweep
  <2>. QED BY <1>6, <2>1, <2>2
<1>7. CASE QueryRefused(r) \/ SweepRaises(r) \/ \E o \in Orders : SkipLocked(r, o)
  BY <1>7, <1>types, <1>same, <1>rest DEF QueryRefused, SweepRaises, SkipLocked
<1>8. ASSUME NEW qty, BalanceAnswers(r, qty) PROVE StatusInv' /\ Closed
  BY <1>8 DEF BalanceAnswers
<1>. QED BY <1>1, <1>2, <1>3, <1>4, <1>5, <1>6, <1>7, <1>8 DEF Sweep

\* So does the listener, which is asked for more than is recorded.
LEMMA ListenTells == ASSUME StatusIInv, Listen PROVE StatusInv' /\ Closed
<1> USE PipelineAssumption DEF dbVars, lockVars, brokerVars, workerVars, recorderVars
<1>types. /\ rpc \in [Recorders -> RecorderStates] /\ seen \in [Recorders -> [Orders -> Statuses]]
          /\ answer \in [Recorders -> Nat] /\ already \in [Recorders -> Nat] /\ Listener \in Recorders
          /\ recorded \in [Orders -> Nat] /\ notices \subseteq Orders \X Nat
          /\ (rpc[Listener] = "matched" => rkey[Listener] \in Orders)
  BY DEF StatusIInv, RecordIInv, TypeInv, TypeOK, KeyInv, Recorders
<1>rest. ASSUME UNCHANGED <<dbVars, workerVars>>,
                \A s \in Recorders : rpc'[s] = "apply" => answer'[s] > 0 /\ answer'[s] >= already'[s],
                \A s \in Recorders, p \in Orders : seen'[s][p] \in {"none", seen[s][p], status[p]}
         PROVE  StatusInv' /\ Closed
  BY <1>rest, StatusRests DEF Sending
<1>same. \A s \in Recorders : rpc[s] = "apply" => answer[s] > 0 /\ answer[s] >= already[s]
  BY DEF StatusIInv, StatusInv
<1>1. CASE ApplyNotice
  BY <1>1, <1>types, ApplyTells DEF ApplyNotice
<1>2. ASSUME NEW n \in notices, TakeNotice(n) PROVE StatusInv' /\ Closed
  <2>1. CASE n[1] \in numbered
    <3>1. /\ rpc' = [rpc EXCEPT ![Listener] = "matched"]
          /\ answer' = [answer EXCEPT ![Listener] = n[2]]
          /\ seen' = [seen EXCEPT ![Listener][n[1]] = status[n[1]]]
          /\ UNCHANGED <<dbVars, workerVars, already>>
      BY <1>2, <2>1 DEF TakeNotice
    <3>2. \A s \in Recorders, p \in Orders : seen'[s][p] \in {"none", seen[s][p], status[p]}
      BY <3>1, <1>types
    <3>3. \A s \in Recorders : rpc'[s] = "apply" => answer'[s] > 0 /\ answer'[s] >= already'[s]
      BY <3>1, <1>types, <1>same
    <3>. QED BY <3>1, <3>2, <3>3, <1>rest
  <2>2. CASE n[1] \notin numbered
    BY <1>2, <2>2, <1>types, <1>same, <1>rest DEF TakeNotice
  <2>. QED BY <2>1, <2>2
<1>3. CASE LockNotice
  BY <1>3, <1>types, <1>same, <1>rest DEF LockNotice
<1>4. CASE SkipNotice \/ ReleaseNotice
  <2>1. ListenerRests /\ UNCHANGED <<dbVars, workerVars>>
    BY <1>4 DEF SkipNotice, ReleaseNotice
  <2>2. \A s \in Recorders, p \in Orders : seen'[s][p] \in {"none", seen[s][p], status[p]}
    BY <2>1, <1>types DEF ListenerRests
  <2>3. \A s \in Recorders : rpc'[s] = "apply" => answer'[s] > 0 /\ answer'[s] >= already'[s]
    BY <2>1, <1>types, <1>same DEF ListenerRests
  <2>. QED BY <2>1, <2>2, <2>3, <1>rest
<1>. QED BY <1>1, <1>2, <1>3, <1>4 DEF Listen

\* The environment writes neither; what dies has forgotten what it read.
LEMMA EnvironmentTells == ASSUME StatusIInv, Environment PROVE StatusInv' /\ Closed
<1> USE PipelineAssumption DEF dbVars, lockVars, brokerVars, workerVars, recorderVars
<1>same. \A s \in Recorders : rpc[s] = "apply" => answer[s] > 0 /\ answer[s] >= already[s]
  BY DEF StatusIInv, StatusInv
<1>1. CASE CrashEngine \/ \E r \in Scripts : KillScript(r)
  <2>1. PICK W, R : Forget(W, R)
    BY <1>1 DEF CrashEngine, KillScript
  <2>2. \A r \in Recorders : rpc'[r] = "apply" => answer'[r] > 0 /\ answer'[r] >= already'[r]
    BY <2>1, <1>same DEF Forget
  <2>3. \A r \in Recorders, o \in Orders : seen'[r][o] \in {"none", seen[r][o], status[o]}
    BY <2>1 DEF Forget
  <2>4. \A v \in Workers : Sending(v)' => Sending(v) /\ wkey'[v] = wkey[v]
    BY <2>1 DEF Forget, Sending
  <2>5. UNCHANGED <<status, recorded, numbered, aged>>
    BY <2>1 DEF Forget
  <2>. QED BY <2>2, <2>3, <2>4, <2>5, StatusRests
<1>2. ASSUME NEW o \in Orders, GraceEnds(o) PROVE StatusInv' /\ Closed
  BY <1>2, <1>same, StatusRests DEF GraceEnds, Sending
<1>3. CASE ~(CrashEngine \/ \E r \in Scripts : KillScript(r)) /\ \A o \in Orders : ~GraceEnds(o)
  <2>1. UNCHANGED <<dbVars, workerVars, recorderVars>>
    BY <1>3 DEF Environment, BrokerFills, ExpireOrderLock, ExpireReconcileLock, LoseNotice, EndOfDay
  <2>. QED BY <2>1, <1>same, StatusRests DEF Sending
<1>. QED BY <1>1, <1>2, <1>3

\* Every step keeps the invariant, and leaves what is closed.
LEMMA StatusStep ==
  ASSUME ~Paper, ~CallOutlivesLock, StatusIInv, [Next]_vars PROVE StatusIInv' /\ Closed
<1>1. RecordIInv'
  BY RecordStep DEF StatusIInv
<1>2. CASE UNCHANGED vars
  <2>1. UNCHANGED <<dbVars, workerVars, recorderVars>>
    BY <1>2 DEF vars
  <2>2. StatusInv' /\ Closed
    BY <2>1, StatusRests DEF dbVars, workerVars, recorderVars, Sending, StatusIInv, StatusInv
  <2>. QED BY <1>1, <2>2 DEF StatusIInv
<1>3. CASE Next
  BY <1>1, <1>3, ExecutorTells, SweepTells, ListenTells, EnvironmentTells DEF Next, StatusIInv
<1>. QED BY <1>2, <1>3

\* No order has a status at the start.
LEMMA StatusStart == Init => StatusIInv
<1>1. Init => StatusInv
  BY PipelineAssumption DEF Init, StatusInv, StatusTellsRecorded, Sending, Reachable
<1>. QED BY <1>1, RecordStart DEF StatusIInv

\* On the real account, while no call outlives the lock, the committed status says how
\* much of the order the ledger holds, whichever of the three paths wrote it last and
\* however old the status was that it had loaded (record_fill, reconcile.py).
THEOREM StatusIsTold == ASSUME ~Paper, ~CallOutlivesLock PROVE Spec => []StatusTellsRecorded
<1>1. StatusIInv /\ [Next]_vars => StatusIInv'
  BY StatusStep, ~Paper, ~CallOutlivesLock
<1>2. StatusIInv => StatusTellsRecorded
  BY DEF StatusIInv, StatusInv
<1>3. QED
  BY StatusStart, <1>1, <1>2, PTL DEF Spec

\* Under the same conditions no order that is filled or refused is opened again.
THEOREM NeverReopened == ASSUME ~Paper, ~CallOutlivesLock PROVE Spec => ClosedStaysClosed
<1>1. StatusIInv /\ [Next]_vars => StatusIInv' /\ [Closed]_vars
  BY StatusStep, ~Paper, ~CallOutlivesLock
<1>2. QED
  BY StatusStart, <1>1, PTL DEF Spec, ClosedStaysClosed, Closed

(***************************************************************************)
(* What the executions of the symbol add up to                             *)
(***************************************************************************)
\* On the real account, while no call outlives the lock, the executions of what was
\* bought never exceed what the account got: no order is booked beyond its fills.
THEOREM RealWithinFills ==
  ASSUME ~Paper, ~CallOutlivesLock PROVE Spec => []SymbolNotOverRecorded
<1>1. RecordIInv /\ [Next]_vars => RecordIInv'
  BY RecordStep, ~Paper, ~CallOutlivesLock
<1>2. RecordIInv => SymbolNotOverRecorded
  <2>. SUFFICES ASSUME RecordIInv PROVE SymbolNotOverRecorded
    OBVIOUS
  <2>1. IsFiniteSet(Buys) /\ Buys \subseteq Orders
    BY PipelineAssumption, FS_Subset
  <2>2. \A o \in Orders : recorded[o] \in Nat /\ filled[o] \in Nat /\ recorded[o] <= filled[o]
    BY DEF RecordIInv, TypeInv, TypeOK, RecordInv, NoDoubleRecording
  <2>. QED BY <2>1, <2>2, SumLeq DEF SymbolNotOverRecorded
<1>3. QED
  BY RecordStart, <1>1, <1>2, PTL DEF Spec

\* The paper account answers no query, and with no listener no notice comes either: only
\* the sweep records, and it records what the balance holds beyond every execution.  One recorder at
\* a time: between its cross check and its commit nobody else adds to the executions.
Engine == EngineSweeper
Bought == SumOver(filled, Buys)
PaperInv ==
  /\ recorded \in [Orders -> Nat] /\ filled \in [Orders -> Nat]
  /\ wfill \in [Workers -> {0}]
  /\ rpc \in [Recorders -> RecorderStates] /\ already \in [Recorders -> Nat]
  /\ answer \in [Recorders -> Int] /\ holdings \in [Recorders -> Int]
  /\ notices = {} /\ rpc[Listener] = "idle"
  /\ holdings[Engine] <= Bought
  /\ rpc[Engine] = "apply" =>
       /\ rkey[Engine] \in Orders /\ already[Engine] <= answer[Engine]
       /\ SymbolRecorded + (answer[Engine] - already[Engine]) <= Bought
  /\ SymbolRecorded <= Bought

\* The orders are finitely many, and what they hold and have bought are naturals.
LEMMA SymbolTotals ==
  ASSUME recorded \in [Orders -> Nat], filled \in [Orders -> Nat]
  PROVE  /\ Bought \in Nat /\ SymbolRecorded \in Nat /\ Held \in Int /\ Held <= Bought
BY Totals DEF Bought, Held

\* A step that neither fills, records nor sweeps.
LEMMA PaperRests ==
  ASSUME PaperInv, UNCHANGED <<recorded, filled, notices, recorderVars>>,
         wfill' \in [Workers -> {0}]
  PROVE  PaperInv'
BY DEF PaperInv, recorderVars, Bought, SymbolRecorded

\* The executor is told of no fill and records none.
LEMMA PaperExecutes ==
  ASSUME Paper, PaperInv, NEW w \in Workers, Execute(w) PROVE PaperInv'
<1>1. wfill \in [Workers -> {0}]
  BY DEF PaperInv
<1>2. /\ UNCHANGED <<recorded, filled, notices, recorderVars>>
      /\ wfill' \in [Workers -> {0}]
  <2>1. CASE CommitAttempt(w)
    BY <1>1, <2>1 DEF CommitAttempt, brokerVars, dbVars
  <2>2. CASE ResolveFill(w)
    BY <1>1, <2>2, Paper DEF ResolveFill, ExecutionAnswer, brokerVars, dbVars
  <2>3. CASE ~CommitAttempt(w) /\ ~ResolveFill(w)
    BY <1>1, <2>3 DEF Execute, Begin, FindExisting, Insert, BrokerAccepts, BrokerRefuses,
       ErrorAnswered, Acknowledged, AcknowledgedNumberless, CommitNumberless, MarkRejected,
       Unanswered, ResolveRaises, CancelTick,
       Finally, brokerVars, dbVars
  <2>. QED BY <2>1, <2>2, <2>3
<1>. QED BY <1>2, PaperRests

\* The sweep credits what the balance holds beyond every execution, and records that.
LEMMA PaperSweeps ==
  ASSUME Paper, PaperInv, Sweep(Engine) PROVE PaperInv'
<1>types. /\ recorded \in [Orders -> Nat] /\ filled \in [Orders -> Nat]
          /\ rpc \in [Recorders -> RecorderStates] /\ already \in [Recorders -> Nat]
          /\ answer \in [Recorders -> Int] /\ holdings \in [Recorders -> Int]
          /\ Engine \in Recorders /\ Listener \in Recorders /\ Engine # Listener
  BY PipelineAssumption DEF PaperInv, Engine, Recorders, Sweepers
<1>totals. Bought \in Nat /\ SymbolRecorded \in Nat /\ Held \in Int /\ Held <= Bought
  BY <1>types, SymbolTotals
<1>still. ASSUME UNCHANGED <<recorded, brokerVars, workerVars>>,
                 rpc' = [rpc EXCEPT ![Engine] = rpc'[Engine]], rpc'[Engine] \in RecorderStates,
                 already' \in [Recorders -> Nat], answer' \in [Recorders -> Int],
                 holdings' \in [Recorders -> Int], holdings'[Engine] <= Bought,
                 rpc'[Engine] = "apply" =>
                    /\ rkey'[Engine] \in Orders /\ already'[Engine] <= answer'[Engine]
                    /\ SymbolRecorded + (answer'[Engine] - already'[Engine]) <= Bought
          PROVE  PaperInv'
  <2>1. Bought' = Bought /\ SymbolRecorded' = SymbolRecorded
    BY <1>still DEF Bought, SymbolRecorded, brokerVars
  <2>2. rpc' \in [Recorders -> RecorderStates] /\ rpc'[Listener] = rpc[Listener]
    BY <1>still, <1>types
  <2>3. Engine' = Engine
    BY DEF Engine
  <2>. QED BY <1>still, <2>1, <2>2, <2>3 DEF PaperInv, brokerVars, workerVars
<1>1. CASE StartSweep(Engine)
  BY <1>1, <1>still, <1>types DEF StartSweep, PaperInv, dbVars, RecorderStates
<1>2. ASSUME NEW o \in Orders, SkipLocked(Engine, o) \/ LockOrder(Engine, o) PROVE PaperInv'
  BY <1>2, <1>still, <1>types DEF SkipLocked, LockOrder, PaperInv, dbVars, RecorderStates
<1>3. ASSUME NEW o \in Orders, QueryAnswers(Engine, o) PROVE PaperInv'
  BY <1>3, <1>still, <1>types, Paper
     DEF QueryAnswers, ExecutionAnswer, PaperInv, dbVars, RecorderStates
<1>4. CASE QueryRefused(Engine) \/ SweepRaises(Engine)
  BY <1>4, <1>still, <1>types DEF QueryRefused, SweepRaises, PaperInv, dbVars, RecorderStates
<1>5. ASSUME NEW qty \in {Held, 0}, BalanceAnswers(Engine, qty) PROVE PaperInv'
  <2>1. qty \in Int /\ qty <= Bought
    BY <1>totals
  <2>. QED BY <2>1, <1>5, <1>still, <1>types DEF BalanceAnswers, PaperInv, dbVars, RecorderStates
<1>6. CASE CrossCheck(Engine)
  <2>1. Credit(Engine) > 0 =>
          /\ rkey[Engine] \in Orders /\ Credit(Engine) \in Int
          /\ SymbolRecorded + Credit(Engine) <= holdings[Engine]
    BY <1>types, <1>totals, PipelineAssumption DEF Credit
  <2>2. CASE Credit(Engine) > 0
    <3>1. /\ answer' = [answer EXCEPT ![Engine] = already[Engine] + Credit(Engine)]
          /\ rpc' = [rpc EXCEPT ![Engine] = "apply"]
          /\ UNCHANGED <<dbVars, brokerVars, workerVars, rkey, already, holdings>>
      BY <1>6, <2>2 DEF CrossCheck
    <3>2. /\ rkey'[Engine] \in Orders /\ already'[Engine] <= answer'[Engine]
          /\ SymbolRecorded + (answer'[Engine] - already'[Engine]) <= Bought
          /\ answer' \in [Recorders -> Int]
      BY <2>1, <2>2, <3>1, <1>types, <1>totals DEF PaperInv
    <3>. QED BY <3>1, <3>2, <1>still, <1>types DEF PaperInv, dbVars, RecorderStates
  <2>3. CASE ~(Credit(Engine) > 0)
    BY <2>3, <1>6, <1>still, <1>types DEF CrossCheck, PaperInv, dbVars, RecorderStates
  <2>. QED BY <2>2, <2>3
<1>7. CASE ApplySweep(Engine)
  <2>. DEFINE o == rkey[Engine]
              delta == answer[Engine] - already[Engine]
  <2>1. /\ o \in Orders /\ delta \in Nat /\ SymbolRecorded + delta <= Bought
        /\ rpc' = [rpc EXCEPT ![Engine] = "release"]
        /\ UNCHANGED <<brokerVars, workerVars, already, answer, holdings>>
    BY <1>7, <1>types DEF ApplySweep, PaperInv
  <2>2. recorded' = [recorded EXCEPT ![o] = @ + delta]
    <3>1. recorded' = [recorded EXCEPT ![o] = @ + (IF delta > 0 THEN delta ELSE 0)]
      BY <1>7 DEF ApplySweep, Record
    <3>2. (IF delta > 0 THEN delta ELSE 0) = delta
      BY <2>1
    <3>. QED BY <3>1, <3>2
  <2>3. recorded' \in [Orders -> Nat] /\ SymbolRecorded' = SymbolRecorded + delta
    <3>1. recorded' \in [Orders -> Nat] /\ recorded'[o] = recorded[o] + delta
      BY <2>1, <2>2, <1>types
    <3>2. \A x \in Orders \ {o} : recorded[x] = recorded'[x]
      BY <2>2, <1>types
    <3>3. \A x \in Orders : recorded[x] \in Int /\ recorded'[x] \in Int
      BY <3>1, <1>types
    <3>4. SumOver(recorded', Orders) = SumOver(recorded, Orders) - recorded[o] + recorded'[o]
      <4>1. IsFiniteSet(Orders)
        BY PipelineAssumption
      <4>. HIDE DEF o
      <4>. QED BY <4>1, <2>1, <3>2, <3>3, SumUpdate
    <3>. QED BY <3>1, <3>3, <3>4, <2>1, <1>totals DEF SymbolRecorded
  <2>4. Bought' = Bought /\ Engine' = Engine
    BY <2>1 DEF Bought, brokerVars, Engine
  <2>. HIDE DEF o, delta
  <2>. QED BY <2>1, <2>3, <2>4, <1>types, <1>totals DEF PaperInv, brokerVars, workerVars, RecorderStates
<1>8. CASE Release(Engine) \/ EndSweep(Engine)
  <2>1. 0 \in Nat /\ Unknown \in Int /\ Unknown <= Bought
    BY <1>totals DEF Unknown
  <2>. QED BY <2>1, <1>8, <1>still, <1>types DEF Release, EndSweep, PaperInv, dbVars, RecorderStates
<1>. QED BY <1>1, <1>2, <1>3, <1>4, <1>5, <1>6, <1>7, <1>8 DEF Sweep

\* More may be filled; nobody else records.
LEMMA PaperElsewhere ==
  ASSUME Paper, ~Notices, Scripts = {}, PaperInv, Listen \/ Environment PROVE PaperInv'
<1>1. ~Listen
  BY DEF PaperInv, Listen, TakeNotice, SkipNotice, LockNotice, ApplyNotice, ReleaseNotice
<1>2. ASSUME NEW o \in Orders, BrokerFills(o) PROVE PaperInv'
  <2>1. PICK qty \in (filled[o] + 1)..Target[o] :
          /\ filled' = [filled EXCEPT ![o] = qty] /\ notices' = notices
          /\ UNCHANGED <<recorded, wfill, recorderVars>>
    BY <1>2 DEF BrokerFills, dbVars, workerVars
  <2>2. filled' \in [Orders -> Nat] /\ \A x \in Orders : filled[x] <= filled'[x]
    BY <2>1 DEF PaperInv
  <2>3. Bought <= Bought' /\ SymbolRecorded' = SymbolRecorded /\ Engine' = Engine
    <3>1. IsFiniteSet(Buys) /\ Buys \subseteq Orders
      BY PipelineAssumption, FS_Subset
    <3>2. \A x \in Buys : filled[x] \in Int /\ filled'[x] \in Int /\ filled[x] <= filled'[x]
      BY <2>2, <3>1 DEF PaperInv
    <3>3. SumOver(filled, Buys) <= SumOver(filled', Buys)
      BY <3>1, <3>2, SumLeq
    <3>. QED BY <3>3, <2>1 DEF Bought, SymbolRecorded, Engine
  <2>4. Bought \in Nat /\ Bought' \in Nat /\ SymbolRecorded \in Nat
    <3>1. IsFiniteSet(Buys) /\ \A x \in Buys : filled'[x] \in Nat
      BY <2>2, PipelineAssumption, FS_Subset
    <3>2. SumOver(filled', Buys) \in Nat
      BY <3>1, SumNat
    <3>. QED BY <3>2, SymbolTotals DEF PaperInv, Bought
  <2>5. Engine \in Recorders
    BY DEF Engine, Recorders, Sweepers
  <2>. QED BY <2>1, <2>2, <2>3, <2>4, <2>5 DEF PaperInv, recorderVars
<1>3. CASE CrashEngine
  <2>1. /\ UNCHANGED <<recorded, filled>> /\ notices' = {}
        /\ wfill' = [w \in Workers |-> 0]
        /\ rpc' = [r \in Recorders |-> IF r \in {Engine, Listener} THEN "idle" ELSE rpc[r]]
        /\ already' = [r \in Recorders |-> IF r \in {Engine, Listener} THEN 0 ELSE already[r]]
        /\ answer' = [r \in Recorders |-> IF r \in {Engine, Listener} THEN 0 ELSE answer[r]]
        /\ holdings' = [r \in Recorders |-> IF r \in {Engine, Listener} THEN Unknown ELSE holdings[r]]
    BY <1>3 DEF CrashEngine, Forget, dbVars, Engine
  <2>2. Engine \in Recorders /\ Listener \in Recorders
    BY DEF Engine, Recorders, Sweepers
  <2>3. Bought' = Bought /\ SymbolRecorded' = SymbolRecorded /\ Engine' = Engine
    BY <2>1 DEF Bought, SymbolRecorded, Engine
  <2>4. Bought \in Nat
    BY SymbolTotals DEF PaperInv
  <2>. QED BY <2>1, <2>2, <2>3, <2>4 DEF PaperInv, Unknown, RecorderStates
<1>4. ASSUME Environment, ~CrashEngine, \A o \in Orders : ~BrokerFills(o) PROVE PaperInv'
  <2>1. UNCHANGED <<recorded, filled, recorderVars, wfill>> /\ notices' \subseteq notices
    BY <1>4, Scripts = {} DEF Environment, GraceEnds, ExpireOrderLock, ExpireReconcileLock,
       LoseNotice, EndOfDay, dbVars, brokerVars, workerVars
  <2>2. notices' = notices
    BY <2>1 DEF PaperInv
  <2>. QED BY <2>1, <2>2, PaperRests DEF PaperInv
<1>. QED BY <1>1, <1>2, <1>3, <1>4

\* On the paper account, while the engine's sweep is the only one to record (no listener,
\* as without KIS_HTS_ID, and no script beside it; TLC refutes it with either), the executions of
\* what was bought never exceed what the account got, whichever orders the balance is
\* credited to (reconcile.py: only what other orders have not consumed).
THEOREM PaperWithinFills ==
  ASSUME Paper, ~Notices, Scripts = {} PROVE Spec => []SymbolNotOverRecorded
<1>1. Init => PaperInv
  <2>. SUFFICES ASSUME Init PROVE PaperInv
    OBVIOUS
  <2>1. IsFiniteSet(Orders) /\ IsFiniteSet(Buys) /\ Buys \subseteq Orders
    BY PipelineAssumption, FS_Subset
  <2>2. \A x \in Orders : recorded[x] = 0 /\ filled[x] = 0
    BY DEF Init
  <2>3. SumOver(recorded, Orders) = 0 /\ SumOver(filled, Buys) = 0
    BY <2>1, <2>2, SumZero
  <2>4. Engine \in Recorders /\ Listener \in Recorders
    BY DEF Engine, Recorders, Sweepers
  <2>. QED BY <2>3, <2>4 DEF Init, PaperInv, Bought, SymbolRecorded, Unknown, RecorderStates
<1>2. PaperInv /\ [Next]_vars => PaperInv'
  <2>. SUFFICES ASSUME PaperInv, [Next]_vars PROVE PaperInv'
    OBVIOUS
  <2>1. CASE UNCHANGED vars
    <3>1. UNCHANGED <<recorded, filled, notices, recorderVars, wfill>>
      BY <2>1 DEF vars, dbVars, brokerVars, workerVars
    <3>. QED BY <3>1, PaperRests DEF PaperInv
  <2>2. CASE Next
    <3>1. Sweepers = {Engine}
      BY Scripts = {} DEF Sweepers, Engine
    <3>. QED BY <2>2, <3>1, Paper, ~Notices, Scripts = {}, PaperExecutes, PaperSweeps,
                PaperElsewhere DEF Next
  <2>. QED BY <2>1, <2>2
<1>3. PaperInv => SymbolNotOverRecorded
  <2>. SUFFICES ASSUME PaperInv PROVE SymbolNotOverRecorded
    OBVIOUS
  <2>1. IsFiniteSet(Orders) /\ Buys \in SUBSET Orders /\ \A x \in Orders : recorded[x] \in Nat
    BY PipelineAssumption DEF PaperInv
  <2>2. SumOver(recorded, Buys) <= SumOver(recorded, Orders)
    BY <2>1, SumSubset
  <2>3. SumOver(recorded, Buys) \in Nat
    BY <2>1, FS_Subset, SumNat
  <2>. QED BY <2>2, <2>3, SymbolTotals DEF PaperInv, SymbolNotOverRecorded, Bought, SymbolRecorded
<1>4. QED
  BY <1>1, <1>2, <1>3, PTL DEF Spec
=============================================================================

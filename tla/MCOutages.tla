----------------------------- MODULE MCOutages -----------------------------
(***************************************************************************)
(* What must hold although services fail: sockets follow the strategies,   *)
(* an outage is reported, there is a backup of the night, and a source     *)
(* that refuses is left alone.  case says which of them a behaviour is     *)
(* about; the others rest in an initial state.                             *)
(***************************************************************************)
EXTENDS FailureAlerts, Backups, KrxSource, TLC

CONSTANTS a, b, u1, u2, MaxCommands, MaxChanges, MaxFaults

VARIABLES case, runners, creds, feeds, listeners, handling, step, asked, drop, ensure, found,
          unfed, commands, changes, faults

\* Two users, one of them with a rebalancing strategy.
F == INSTANCE FeedSync WITH
       Strategies <- {a, b}, Rebalancing <- {b}, UserOf <- a :> u1 @@ b :> u2, want <- ensure
TwoThreads == {a, b}

socketVars == <<runners, creds, feeds, listeners, handling, step, asked, drop, ensure, found,
                unfed, commands, changes, faults>>
all == <<case, alertVars, socketVars, backupVars, sourceVars>>

AnyOf(set) == CHOOSE x \in set : TRUE
SourceRests == process = "web" /\ closed = {}

MCInit ==
  /\ AlertInit /\ F!Init /\ BackupInit /\ SourceInit
  /\ case \in {"alerts", "sockets", "backups", "source"}
  /\ case = "alerts" \/ (loop = AnyOf(Loops) /\ down = {})
  /\ case = "source" \/ SourceRests

AlertStep(act) ==
  case = "alerts" /\ act /\ UNCHANGED <<case, socketVars, backupVars, sourceVars>>
SocketStep(act) ==
  case = "sockets" /\ act /\ UNCHANGED <<case, alertVars, backupVars, sourceVars>>
BackupStep(act) ==
  case = "backups" /\ act /\ UNCHANGED <<case, alertVars, socketVars, sourceVars>>
SourceStep(act) ==
  case = "source" /\ act /\ UNCHANGED <<case, alertVars, socketVars, backupVars>>

MCNext ==
  \/ AlertStep(AlertNext) \/ SocketStep(F!Next)
  \/ BackupStep(BackupNext) \/ SourceStep(SourceNext)

\* The fairness of the sockets: the handler of commands and the resync loop go on.
MCSpec ==
  /\ MCInit /\ [][MCNext]_all
  /\ WF_all(SocketStep(F!Control)) /\ WF_all(SocketStep(F!Resync))

\* In the end the sockets are those of the users who run something.
SubscriptionsFollow == []F!TypeOK /\ F!SubscriptionsFollow
=============================================================================

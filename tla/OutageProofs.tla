---------------------------- MODULE OutageProofs ----------------------------
(***************************************************************************)
(* What holds although services fail, for any thresholds, retention,       *)
(* cooldowns and number of threads: an outage is told, a backup stays and  *)
(* a night without one is told, and a portal that refuses is left alone.   *)
(***************************************************************************)
EXTENDS FailureAlerts, Backups, KrxSource, TLAPS

(***************************************************************************)
(* FailureAlerts                                                           *)
(***************************************************************************)
\* But for the control loop: the counter is at least how many rounds in a row have failed,
\* and is just that but for a feed; one alert has been published since it met the threshold,
\* and reached somebody as far as something answered that could take it.  The record of a
\* runner is its counter when it was written.
Counted ==
  /\ loop # "feed" => streak = IF count < Threshold THEN count ELSE Threshold
  /\ streak <= count
  /\ at # "round" => count >= Threshold
  /\ published = IF count < Threshold \/ at = "store" THEN 0 ELSE 1
Delivered ==
  /\ at = "call" => Critical(loop) /\ ("db" \in up => reached)
  /\ at \in {"push", "round"} /\ count >= Threshold => (Reachable => reached)
AlertInv ==
  /\ AlertTypes
  /\ up \cap down = {}
  /\ loop # "control" => Counted /\ Delivered
  /\ wrote => loop = "runner" /\ health = count

\* The initial states satisfy it.
LEMMA InitAlertInv == AlertInit => AlertInv
<1>. SUFFICES ASSUME AlertInit PROVE AlertInv
  OBVIOUS
<1>1. ~wrote /\ wrote \in BOOLEAN /\ alive \in BOOLEAN /\ reached \in BOOLEAN
  BY DEF AlertInit
<1>2. at = "round" /\ count = 0 /\ streak = 0 /\ published = 0 /\ loop \in Loops
      /\ inbox = "none" /\ health = Unrecorded /\ down \subseteq Services /\ up = Services \ down
  BY DEF AlertInit, Services
<1>. QED BY <1>1, <1>2, ThresholdAssumption DEF AlertInv, AlertTypes, Counted, Delivered

\* What the record says after a write.
LEMMA WriteHealthKeeps ==
  ASSUME AlertTypes, NEW n \in 0 .. Threshold + 1, WriteHealth(n), wrote => loop = "runner"
  PROVE  /\ health' \in {Unrecorded} \cup 0 .. Threshold + 1 /\ wrote' \in BOOLEAN
         /\ wrote' => loop = "runner" /\ health' = n
<1>1. CASE loop = "runner" /\ "redis" \notin down
  <2>1. health' = n /\ wrote' = TRUE
    BY <1>1 DEF WriteHealth
  <2>. QED BY <2>1, <1>1
<1>2. CASE loop = "runner" /\ "redis" \in down
  <2>1. health' = health /\ wrote' = FALSE
    BY <1>2 DEF WriteHealth
  <2>2. ~wrote' /\ wrote' \in BOOLEAN
    BY <2>1
  <2>. QED BY <2>1, <2>2 DEF AlertTypes
<1>3. CASE loop # "runner"
  <2>1. health' = health /\ wrote' = wrote
    BY <1>3 DEF WriteHealth
  <2>. QED BY <2>1, <1>3 DEF AlertTypes
<1>. QED BY <1>1, <1>2, <1>3

\* A round keeps it.
LEMMA RoundKeeps == ASSUME AlertInv, Round PROVE AlertInv'
<1>. USE ThresholdAssumption DEF AlertInv, AlertTypes
<1>1. CASE RoundSucceeds
  <2>1. /\ count' \in 0 .. Threshold + 1 /\ WriteHealth(count') /\ at = "round"
        /\ UNCHANGED <<loop, down, at, alive, inbox>> /\ (loop # "control" => count' = 0)
        /\ streak' = 0 /\ published' = 0 /\ reached' = FALSE /\ up' = Services \ down
    BY <1>1 DEF RoundSucceeds, Over, InRound
  <2>2. /\ health' \in {Unrecorded} \cup 0 .. Threshold + 1 /\ wrote' \in BOOLEAN
        /\ (wrote' => loop = "runner" /\ health' = count')
    BY <2>1, WriteHealthKeeps
  <2>3. loop' # "control" => Counted' /\ Delivered'
    BY <2>1 DEF Counted, Delivered
  <2>4. reached' \in BOOLEAN
    BY <2>1
  <2>. QED BY <2>1, <2>2, <2>3, <2>4
<1>2. CASE RoundFails
  <2>1. count' \in 0 .. Threshold + 1 /\ WriteHealth(count') /\ streak' \in 0 .. Threshold
    BY <1>2 DEF RoundFails, More
  <2>2. health' \in {Unrecorded} \cup 0 .. Threshold + 1 /\ wrote' \in BOOLEAN
        /\ (wrote' => loop = "runner" /\ health' = count')
    BY <2>1, WriteHealthKeeps
  <2>3. /\ UNCHANGED <<loop, down, alive, inbox, published, reached, up>>
        /\ count' = More(count, Threshold + 1)
        /\ streak' = More(streak, Threshold) \/ (loop = "feed" /\ streak' = 1)
        /\ at' = IF count < Threshold /\ count' = Threshold THEN "store" ELSE "round"
        /\ at = "round"
    BY <1>2 DEF RoundFails, InRound
  <2>4. loop # "control" => Counted'
    BY <2>1, <2>3 DEF More, Counted
  <2>5. loop # "control" => Delivered'
    BY <2>1, <2>3 DEF More, Delivered, Reachable, Critical
  <2>6. AlertTypes'
    BY <2>1, <2>2, <2>3
  <2>. QED BY <2>2, <2>3, <2>4, <2>5, <2>6
<1>3. CASE HeartbeatFails
  BY <1>3 DEF HeartbeatFails, noted, history, Counted, Delivered, Reachable, Critical
<1>. QED BY <1>1, <1>2, <1>3 DEF Round

\* Every step keeps it.
LEMMA StepAlertInv == AlertInv /\ [AlertNext]_alertVars => AlertInv'
<1>. SUFFICES ASSUME AlertInv, [AlertNext]_alertVars PROVE AlertInv'
  OBVIOUS
<1>1. CASE Round
  BY <1>1, RoundKeeps
<1>. USE ThresholdAssumption DEF AlertInv, AlertTypes, noted, history
<1>2. CASE Store
  <2>1. /\ UNCHANGED <<loop, down, alive, count, health, wrote, streak, up>>
        /\ at = "store" /\ published' = More(published, 2)
        /\ inbox' \in {"none", "unread", "old", "read"} /\ reached' \in BOOLEAN
        /\ at' = (IF Critical(loop) THEN "call" ELSE AfterCall) \/ (~Critical(loop) /\ at' = AfterCall)
        /\ "db" \notin down => reached'
    BY <1>2 DEF Store, Critical, Windowed
  <2>2. at' \in {"call", "push", "round"} /\ published' \in 0 .. 2
    BY <2>1 DEF AfterCall, More
  <2>3. loop # "control" => Counted'
    BY <2>1, <2>2 DEF Counted, More
  <2>4. loop # "control" => Delivered'
    BY <2>1, <2>2 DEF Delivered, Reachable, Critical, AfterCall
  <2>. QED BY <2>1, <2>2, <2>3, <2>4
<1>3. CASE Call
  <2>1. /\ UNCHANGED <<loop, down, alive, count, inbox, health, wrote, streak, published, up>>
        /\ at = "call" /\ at' \in {"push", "round"} /\ reached' \in BOOLEAN
        /\ (reached => reached') /\ ("telegram" \notin down => reached')
    BY <1>3 DEF Call, AfterCall
  <2>2. loop # "control" => Counted'
    BY <2>1 DEF Counted
  <2>3. loop # "control" => Delivered'
    BY <2>1 DEF Delivered, Reachable
  <2>. QED BY <2>1, <2>2, <2>3
<1>4. CASE Push
  BY <1>4 DEF Push, Counted, Delivered, Reachable
<1>5. CASE Read \/ WindowPasses \/ CleanUp
  BY <1>5 DEF Read, WindowPasses, CleanUp, Counted, Delivered, Reachable
<1>6. CASE HealthExpires
  <2>1. /\ UNCHANGED <<loop, down, at, alive, count, inbox, streak, published, reached, up>>
        /\ health' = Unrecorded /\ wrote' = FALSE
    BY <1>6 DEF HealthExpires
  <2>2. ~wrote' /\ wrote' \in BOOLEAN
    BY <2>1
  <2>. QED BY <2>1, <2>2 DEF Counted, Delivered, Reachable
<1>7. CASE StartAgain
  <2>1. /\ UNCHANGED <<loop, down, inbox, health>> /\ at' = "round" /\ count' = 0
        /\ streak' = 0 /\ published' = 0 /\ up' = Services \ down
    BY <1>7 DEF StartAgain, Over
  <2>2. ~wrote' /\ wrote' \in BOOLEAN /\ alive' \in BOOLEAN /\ reached' \in BOOLEAN
    BY <1>7 DEF StartAgain, Over
  <2>. QED BY <2>1, <2>2 DEF Counted, Delivered
<1>8. ASSUME NEW x \in Services, Breaks(x) \/ Recovers(x) PROVE AlertInv'
  <2>1. /\ UNCHANGED <<loop, at, alive, count, inbox, health, wrote, streak, published, reached>>
        /\ down' \subseteq Services /\ up' \subseteq up /\ up' \cap down' = {}
    BY <1>8 DEF Breaks, Recovers
  <2>. QED BY <2>1 DEF Counted, Delivered, Reachable
<1>9. CASE UNCHANGED alertVars
  BY <1>9 DEF alertVars, Counted, Delivered, Reachable
<1>. QED BY <1>1, <1>2, <1>3, <1>4, <1>5, <1>6, <1>7, <1>8, <1>9 DEF AlertNext, Publish, Environment

\* Whatever loop it is but that of the commands, and whatever fails, recovers, is read or
\* starts again in between: as many failures in a row as the threshold are told once, where
\* somebody finds it unless the database and Telegram have both been away since, and the
\* page shows a runner as unhealthy exactly then (base_runner.py: _record_tick_failure;
\* alerts.py: publish_alert; main.py).
THEOREM OutageTold == AlertSpec => []OutageIsTold
<1>1. AlertInv => OutageIsTold
  BY ThresholdAssumption DEF AlertInv, AlertTypes, OutageIsTold, Healthy, Counted, Delivered
<1>. QED BY InitAlertInv, StepAlertInv, <1>1, PTL DEF AlertSpec

(***************************************************************************)
(* Backups                                                                 *)
(***************************************************************************)
\* The file of the night is there from its renaming until the record of it; by day no
\* backup runs; the check of a worker that lives comes in the day; and after it there is a
\* file of the night, or it was told that there is none.
BackupInv ==
  /\ BackupTypes
  /\ ever => files # {}
  /\ record \in 0 .. Retention => record \in files
  /\ job = "rename" => temps > 0
  /\ job \in {"prune", "record"} => 0 \in files
  /\ steady => ~away
  /\ hour = "day" => job = "idle" /\ "backup" \notin due
  /\ hour = "night" /\ steady => "check" \in due
  /\ hour = "day" /\ "check" \notin due /\ steady => 0 \in files \/ "stale" \in alerts

\* The initial states satisfy it.
LEMMA InitBackupInv == BackupInit => BackupInv
<1>. SUFFICES ASSUME BackupInit PROVE BackupInv
  OBVIOUS
<1>1. ~ever /\ ever \in BOOLEAN /\ steady \in BOOLEAN /\ away \in BOOLEAN /\ ~away
  BY DEF BackupInit
<1>. QED BY <1>1, BackupAssumption DEF BackupInit, BackupInv, BackupTypes, NoRecord, Ages

\* Every step keeps it.
LEMMA StepBackupInv == BackupInv /\ [BackupNext]_backupVars => BackupInv'
<1>. SUFFICES ASSUME BackupInv, [BackupNext]_backupVars PROVE BackupInv'
  OBVIOUS
<1>. USE BackupAssumption DEF BackupInv, BackupTypes, NoRecord, Ages, watched
<1>1. CASE BeginBackup
  BY <1>1 DEF BeginBackup
<1>2. CASE Dump
  BY <1>2 DEF Dump
<1>3. CASE Fail
  BY <1>3 DEF Fail
<1>4. CASE Rename
  BY <1>4 DEF Rename
<1>5. CASE Prune
  <2>1. \A n \in files : n <= Retention => n \in files'
    BY <1>5 DEF Prune
  <2>2. files' \subseteq files
    BY <1>5 DEF Prune
  <2>3. 0 \in files /\ 0 <= Retention
    BY <1>5 DEF Prune
  <2>4. UNCHANGED <<hour, temps, record, due, away, steady, alerts, ever>>
        /\ job = "prune" /\ job' = "record"
    BY <1>5 DEF Prune
  <2>5. record' \in 0 .. Retention => record' \in files'
    BY <2>1, <2>4
  <2>6. 0 \in files'
    BY <2>1, <2>3
  <2>. QED BY <2>2, <2>4, <2>5, <2>6
<1>6. CASE Record
  BY <1>6 DEF Record
<1>7. CASE Upload
  BY <1>7 DEF Upload
<1>8. CASE Raise
  BY <1>8 DEF Raise
<1>9. CASE Check
  BY <1>9 DEF Check, Stale
<1>10. CASE Crash \/ Missed \/ RedisGoes \/ RedisComes \/ Forgotten
  <2>1. CASE Crash
    <3>1. ~steady' /\ steady' \in BOOLEAN
      BY <2>1 DEF Crash
    <3>. QED BY <2>1, <3>1 DEF Crash
  <2>2. CASE Missed
    BY <2>2 DEF Missed
  <2>3. CASE Forgotten
    BY <2>3 DEF Forgotten
  <2>4. CASE RedisGoes
    <3>1. ~steady' /\ steady' \in BOOLEAN /\ away' \in BOOLEAN
      BY <2>4 DEF RedisGoes
    <3>. QED BY <2>4, <3>1 DEF RedisGoes
  <2>5. CASE RedisComes
    <3>1. ~away' /\ away' \in BOOLEAN
      BY <2>5 DEF RedisComes
    <3>. QED BY <2>5, <3>1 DEF RedisComes
  <2>. QED BY <1>10, <2>1, <2>2, <2>3, <2>4, <2>5
<1>11. CASE Morning
  BY <1>11 DEF Morning
<1>12. CASE Night
  <2>1. \A n \in Ages : Older(n) \in Ages
    BY DEF Older
  <2>2. files' \subseteq Ages
    BY <1>12, <2>1 DEF Night
  <2>2a. files # {} => files' # {}
    <3>1. \A n \in files : Older(n) \in files'
      BY <1>12 DEF Night
    <3>. QED BY <3>1
  <2>3. record' \in {NoRecord} \cup Ages
    BY <1>12, <2>1 DEF Night
  <2>4. ASSUME record' \in 0 .. Retention PROVE record' \in files'
    <3>1. record \in 0 .. Retention /\ record' = Older(record)
      BY <1>12, <2>4 DEF Night, Older
    <3>. QED BY <1>12, <3>1 DEF Night
  <2>5. steady' \in BOOLEAN /\ away' = away /\ (steady' => ~away')
    BY <1>12 DEF Night
  <2>. QED BY <1>12, <2>5, <2>2, <2>2a, <2>3, <2>4 DEF Night
<1>13. CASE UNCHANGED backupVars
  BY <1>13 DEF backupVars
<1>. QED BY <1>1, <1>2, <1>3, <1>4, <1>5, <1>6, <1>7, <1>8, <1>9, <1>10, <1>11, <1>12, <1>13
         DEF BackupNext

\* Once there is a backup there is one for ever, a recorded one is still there, and a day on
\* which neither the worker died nor Redis was away has a file of its night or an alert that
\* it has not, for any retention and wherever the worker dies (worker/tasks.py).
THEOREM BackupsKept == BackupSpec => []BackupsAreKept
<1>1. BackupInv => BackupsAreKept
  BY DEF BackupInv, BackupsAreKept
<1>. QED BY InitBackupInv, StepBackupInv, <1>1, PTL DEF BackupSpec

(***************************************************************************)
(* KrxSource                                                               *)
(***************************************************************************)
\* Without a cooldown there are no requests in it, and a thread about to send had seen
\* that there was none, so that in the one that has begun it has sent none.
SourceInv ==
  /\ SourceTypes
  /\ \A t \in Threads : call[t].part <= Len(Markets(call[t].about))
  /\ \A t \in Threads : cooldown = 0 \/ At(t, "send") => extra[t] = 0
  /\ \A t \in Threads : extra[t] <= 1

\* An answer holds markets of a day.
LEMMA NothingIsAnswer == Nothing \in Answer
BY SourceAssumption DEF Nothing, Answer

\* A thread without a call.
LEMMA NoCallIsCall ==
  /\ NoCall \in Calls /\ NoCall.part <= Len(Markets(NoCall.about))
  /\ NoCall.at = "none"
BY SourceAssumption DEF NoCall, Calls, Subjects, Markets

\* The initial states satisfy it.
LEMMA InitSourceInv == SourceInit => SourceInv
<1>. SUFFICES ASSUME SourceInit PROVE SourceInv
  OBVIOUS
<1>1. SourceTypes
  <2>1. call \in [Threads -> Calls] /\ extra \in [Threads -> 0 .. 2]
    BY NoCallIsCall DEF SourceInit
  <2>2. cache \in [Subjects -> Answer] /\ snapshot \in Answer
    BY NothingIsAnswer DEF SourceInit
  <2>3. process \in {"web", "worker"} /\ closed \subseteq 0 .. Back /\ portal \in {"up", "down", "blocked"}
        /\ session \in BOOLEAN /\ cooldown \in Nat
    BY DEF SourceInit
  <2>. QED BY <2>1, <2>2, <2>3 DEF SourceTypes
<1>. QED BY <1>1, NoCallIsCall DEF SourceInit, SourceInv

\* What a call is made of.
LEMMA CallFields ==
  ASSUME NEW c \in Calls
  PROVE  /\ c.at \in {"none", "session", "login", "loop", "send", "wait"} /\ c.about \in Subjects
         /\ c.day \in 0 .. Back /\ c.part \in 1 .. 2 /\ c.got \subseteq {"STK", "KSQ"}
         /\ c.failed \in BOOLEAN /\ c.ok \in BOOLEAN
BY DEF Calls

\* The markets of a subject are one or two.
LEMMA MarketsOf ==
  ASSUME NEW k \in Subjects
  PROVE  /\ Len(Markets(k)) \in 1 .. 2
         /\ \A i \in 1 .. Len(Markets(k)) : Markets(k)[i] \in {"STK", "KSQ"}
<1>1. CASE k = "members"
  <2>1. Markets(k) = <<"STK">>
    BY <1>1 DEF Markets
  <2>. QED BY <2>1
<1>2. CASE k # "members"
  <2>1. Markets(k) = <<"STK", "KSQ">>
    BY <1>2 DEF Markets
  <2>. QED BY <2>1
<1>. QED BY <1>1, <1>2

\* A step that leaves the calls to GoesOn, or to nobody.
Calling == call' \in [Threads -> Calls] /\ \A t \in Threads : call'[t].part <= Len(Markets(call'[t].about))

\* One thread goes on with c.
Proper(c) == c \in Calls /\ c.part <= Len(Markets(c.about))

LEMMA GoesOn ==
  ASSUME SourceInv, NEW t \in Threads, NEW c, Proper(c), Goes(t, c)
  PROVE  /\ Calling
         /\ \A u \in Threads : call'[u].at = "send" => call[u].at = "send" \/ (u = t /\ c.at = "send")
BY DEF SourceInv, SourceTypes, Goes, Proper, Calling

\* The end of a call, and what is kept of it.
LEMMA RaisesCalls ==
  ASSUME SourceInv, NEW t \in Threads, Raises(t)
  PROVE  /\ Calling /\ cache' \in [Subjects -> Answer] /\ snapshot' \in Answer
         /\ \A u \in Threads : call'[u].at = "send" => call[u].at = "send"
<1>1. Goes(t, NoCall) /\ UNCHANGED <<cache, snapshot>>
  BY DEF Raises
<1>2. Proper(NoCall) /\ NoCall.at # "send"
  BY NoCallIsCall DEF Proper
<1>3. /\ Calling
      /\ \A u \in Threads : call'[u].at = "send" => call[u].at = "send" \/ (u = t /\ NoCall.at = "send")
  BY <1>1, <1>2, GoesOn
<1>. QED BY <1>1, <1>2, <1>3 DEF SourceInv, SourceTypes

LEMMA AnswersCalls ==
  ASSUME SourceInv, NEW t \in Threads, NEW k \in Subjects, NEW answer \in Answer, Answers(t, k, answer)
  PROVE  /\ Calling /\ cache' \in [Subjects -> Answer] /\ snapshot' \in Answer
         /\ \A u \in Threads : call'[u].at = "send" => call[u].at = "send"
<1>1. Goes(t, NoCall)
  BY DEF Answers
<1>2. Proper(NoCall) /\ NoCall.at # "send"
  BY NoCallIsCall DEF Proper
<1>3. /\ Calling
      /\ \A u \in Threads : call'[u].at = "send" => call[u].at = "send" \/ (u = t /\ NoCall.at = "send")
  BY <1>1, <1>2, GoesOn
<1>4. cache' \in [Subjects -> Answer] /\ snapshot' \in Answer
  BY DEF SourceInv, SourceTypes, Answers, Stores, CacheOf, Subjects
<1>. QED BY <1>2, <1>3, <1>4

LEMMA FinishCalls ==
  ASSUME SourceInv, NEW t \in Threads, NEW c \in Calls, Finish(t, c)
  PROVE  /\ Calling /\ cache' \in [Subjects -> Answer] /\ snapshot' \in Answer
         /\ \A u \in Threads : call'[u].at = "send" => call[u].at = "send"
<1>1. CASE ~c.ok /\ c.failed
  BY <1>1, RaisesCalls DEF Finish
<1>2. CASE ~(~c.ok /\ c.failed)
  <2>. DEFINE answer == IF c.got = {} THEN Nothing ELSE [day |-> c.day, markets |-> c.got]
  <2>1. answer \in Answer
    BY NothingIsAnswer, CallFields DEF Answer
  <2>2. Answers(t, c.about, answer)
    BY <1>2 DEF Finish
  <2>. QED BY <2>1, <2>2, AnswersCalls, CallFields
<1>. QED BY <1>1, <1>2

\* A call that goes further.
LEMMA Further ==
  ASSUME NEW c \in Calls, NEW n \in 0 .. Back, NEW p \in 1 .. 2, NEW d, p <= Len(Markets(c.about)),
         d = [c EXCEPT !.at = "loop", !.part = p, !.day = n]
  PROVE  Proper(d) /\ d.at # "send"
<1>1. /\ d.at = "loop" /\ d.about = c.about /\ d.day = n /\ d.part = p
      /\ d.got = c.got /\ d.failed = c.failed /\ d.ok = c.ok
  BY DEF Calls
<1>2. d \in Calls
  BY DEF Calls
<1>. QED BY <1>1, <1>2 DEF Proper

LEMMA AdvanceCalls ==
  ASSUME SourceInv, NEW t \in Threads, NEW c \in Calls, Advance(t, c)
  PROVE  /\ Calling /\ cache' \in [Subjects -> Answer] /\ snapshot' \in Answer
         /\ \A u \in Threads : call'[u].at = "send" => call[u].at = "send"
<1>c. /\ c.day \in 0 .. Back /\ c.part \in 1 .. 2 /\ c.about \in Subjects
      /\ Len(Markets(c.about)) \in 1 .. 2
  BY CallFields, MarketsOf
<1>1. CASE c.part < Len(Markets(c.about))
  <2>. DEFINE d == [c EXCEPT !.at = "loop", !.part = @ + 1]
  <2>1. d = [c EXCEPT !.at = "loop", !.part = c.part + 1, !.day = c.day]
    BY DEF Calls
  <2>1a. c.part + 1 \in 1 .. 2 /\ c.part + 1 <= Len(Markets(c.about))
    <3>1. \A p, n \in Int : p \in 1 .. 2 /\ n \in 1 .. 2 /\ p < n => p + 1 \in 1 .. 2 /\ p + 1 <= n
      OBVIOUS
    <3>2. c.part \in Int /\ Len(Markets(c.about)) \in Int
      BY <1>c
    <3>. QED BY <1>c, <1>1, <3>1, <3>2
  <2>. HIDE DEF d
  <2>2. Proper(d) /\ d.at # "send"
    BY <2>1, <2>1a, <1>c, Further
  <2>3. Goes(t, d) /\ UNCHANGED <<cache, snapshot>>
    BY <1>1 DEF Advance, d
  <2>. QED BY <2>2, <2>3, GoesOn DEF SourceInv, SourceTypes
<1>2. CASE ~(c.part < Len(Markets(c.about))) /\ (c.got # {} \/ c.day = Back)
  BY <1>2, FinishCalls DEF Advance
<1>3. CASE ~(c.part < Len(Markets(c.about))) /\ ~(c.got # {} \/ c.day = Back)
  <2>. DEFINE d == [c EXCEPT !.at = "loop", !.part = 1, !.day = @ + 1]
  <2>1. d = [c EXCEPT !.at = "loop", !.part = 1, !.day = c.day + 1]
    BY DEF Calls
  <2>1a. c.day # Back /\ Back \in Nat
    BY <1>3, SourceAssumption
  <2>1b. c.day + 1 \in 0 .. Back
    BY <1>c, <2>1a
  <2>1c. 1 \in 1 .. 2 /\ 1 <= Len(Markets(c.about))
    <3>1. PICK n \in 1 .. 2 : n = Len(Markets(c.about))
      BY <1>c
    <3>2. 1 \in 1 .. 2 /\ 1 <= n
      OBVIOUS
    <3>. QED BY <3>1, <3>2
  <2>. HIDE DEF d
  <2>2. Proper(d) /\ d.at # "send"
    BY <2>1, <2>1b, <2>1c, Further
  <2>3. Goes(t, d) /\ UNCHANGED <<cache, snapshot>>
    BY <1>3 DEF Advance, d
  <2>. QED BY <2>2, <2>3, GoesOn DEF SourceInv, SourceTypes
<1>. QED BY <1>1, <1>2, <1>3

\* What a step of a thread has to leave behind.
Kept ==
  /\ Calling /\ cache' \in [Subjects -> Answer] /\ snapshot' \in Answer
  /\ session' \in BOOLEAN /\ cooldown' \in Nat
  /\ UNCHANGED <<process, closed, portal>>

\* It does when the requests in the cooldown stand, or begin anew with it, and nobody new
\* is about to send in one.
LEMMA KeepsSilence ==
  ASSUME SourceInv, Kept,
         \/ UNCHANGED <<cooldown, extra>>
         \/ extra' = [t \in Threads |-> 0],
         \A t \in Threads : call'[t].at = "send" => call[t].at = "send" \/ extra'[t] = 0
  PROVE  SourceInv'
<1>1. SourceTypes'
  BY DEF SourceInv, SourceTypes, Kept, Calling
<1>. QED BY <1>1 DEF SourceInv, SourceTypes, Kept, Calling, At

\* Every step keeps the invariant.
LEMMA StepSourceInv == SourceInv /\ [SourceNext]_sourceVars => SourceInv'
<1>. SUFFICES ASSUME SourceInv, [SourceNext]_sourceVars PROVE SourceInv'
  OBVIOUS
<1>. USE SourceAssumption
<1>types. ASSUME NEW t \in Threads
          PROVE  /\ call[t] \in Calls /\ call[t].part <= Len(Markets(call[t].about))
                 /\ call[t].about \in Subjects
  BY DEF SourceInv, SourceTypes, Calls
\* To another place than the request, or to it when there is no cooldown.
<1>to. ASSUME NEW t \in Threads, NEW where \in {"session", "login", "loop", "wait", "send"}, To(t, where)
       PROVE  /\ Calling
              /\ \A u \in Threads : call'[u].at = "send" => call[u].at = "send" \/ (u = t /\ where = "send")
  <2>. DEFINE d == [call[t] EXCEPT !.at = where]
  <2>1. Proper(d) /\ d.at = where
    BY <1>types DEF Proper, Calls
  <2>2. Goes(t, d)
    BY <1>to DEF To
  <2>. HIDE DEF d
  <2>. QED BY <2>1, <2>2, GoesOn
<1>1. ASSUME NEW t \in Threads, NEW k \in Asked, Begin(t, k) PROVE SourceInv'
  <2>1. UNCHANGED <<process, closed, portal, session, cooldown, extra>> /\ k \in Subjects
    BY <1>1 DEF Begin, Asked, Subjects
  <2>2. CASE cache[CacheOf(k)] # Nothing
    <3>1. Answers(t, k, cache[CacheOf(k)])
      BY <1>1, <2>2 DEF Begin
    <3>2. cache[CacheOf(k)] \in Answer
      BY <2>1 DEF SourceInv, SourceTypes, CacheOf, Subjects
    <3>. QED BY <2>1, <3>1, <3>2, AnswersCalls, KeepsSilence DEF Kept, SourceInv, SourceTypes
  <2>3. CASE cache[CacheOf(k)] = Nothing
    <3>. DEFINE d == [NoCall EXCEPT !.at = "session", !.about = k]
    <3>1. Goes(t, d) /\ UNCHANGED <<cache, snapshot>>
      BY <1>1, <2>3 DEF Begin
    <3>2. d \in Calls
      BY <2>1, NoCallIsCall DEF Calls
    <3>3. d.part = NoCall.part /\ d.at = "session" /\ d.about = k
      BY NoCallIsCall DEF Calls
    <3>4. NoCall.part = 1 /\ 1 <= Len(Markets(k))
      <4>1. \A n \in 1 .. 2 : 1 <= n
        OBVIOUS
      <4>. QED BY <2>1, <4>1, MarketsOf DEF NoCall
    <3>5. Proper(d) /\ d.at # "send"
      BY <3>2, <3>3, <3>4 DEF Proper
    <3>. HIDE DEF d
    <3>. QED BY <2>1, <3>1, <3>5, GoesOn, KeepsSilence DEF Kept, SourceInv, SourceTypes
  <2>. QED BY <2>2, <2>3
<1>2. ASSUME NEW t \in Threads, Session(t) PROVE SourceInv'
  <2>1. UNCHANGED <<process, closed, portal, session, cooldown, extra>>
    BY <1>2 DEF Session
  <2>2. CASE cooldown > 0
    <3>1. Raises(t)
      BY <1>2, <2>2 DEF Session
    <3>. QED BY <2>1, <3>1, RaisesCalls, KeepsSilence DEF Kept, SourceInv, SourceTypes
  <2>3. CASE ~(cooldown > 0)
    <3>1. (To(t, "loop") \/ To(t, "login")) /\ UNCHANGED <<cache, snapshot>>
      BY <1>2, <2>3 DEF Session
    <3>2. Calling /\ \A u \in Threads : call'[u].at = "send" => call[u].at = "send"
      BY <3>1, <1>to
    <3>. QED BY <2>1, <3>1, <3>2, KeepsSilence DEF Kept, SourceInv, SourceTypes
  <2>. QED BY <2>2, <2>3
<1>3. ASSUME NEW t \in Threads, LoginSucceeds(t) PROVE SourceInv'
  <2>1. /\ UNCHANGED <<process, closed, portal, cache, snapshot>> /\ session' = TRUE
        /\ cooldown' = 0 /\ extra' = [u \in Threads |-> 0] /\ To(t, "loop")
    BY <1>3 DEF LoginSucceeds, Note
  <2>2. Calling /\ \A u \in Threads : call'[u].at = "send" => call[u].at = "send"
    BY <2>1, <1>to
  <2>. QED BY <2>1, <2>2, KeepsSilence DEF Kept, SourceInv, SourceTypes
<1>4. ASSUME NEW t \in Threads, LoginFails(t) PROVE SourceInv'
  <2>1. /\ UNCHANGED <<process, closed, portal, session>>
        /\ cooldown' = Blocked /\ extra' = [u \in Threads |-> 0] /\ Raises(t)
    BY <1>4 DEF LoginFails, Note
  <2>. QED BY <2>1, RaisesCalls, KeepsSilence DEF Kept, SourceInv, SourceTypes
<1>5. ASSUME NEW t \in Threads, Loop(t) PROVE SourceInv'
  <2>1. UNCHANGED <<process, closed, portal, session, cooldown, extra>> /\ cooldown \in Nat
    BY <1>5 DEF Loop, SourceInv, SourceTypes
  <2>2. CASE cooldown = 0 /\ To(t, "send") /\ UNCHANGED <<cache, snapshot>>
    <3>1. To(t, "send") /\ UNCHANGED <<cache, snapshot>>
      BY <2>2
    <3>2. Calling /\ \A u \in Threads : call'[u].at = "send" => call[u].at = "send" \/ u = t
      BY <3>1, <1>to
    <3>3. extra'[t] = 0
      BY <2>1, <2>2 DEF SourceInv
    <3>. QED BY <2>1, <3>1, <3>2, <3>3, KeepsSilence DEF Kept, SourceInv, SourceTypes
  <2>3. CASE Finish(t, call[t])
    <3>. QED BY <2>1, <2>3, <1>types, FinishCalls, KeepsSilence DEF Kept, SourceInv, SourceTypes
  <2>4. CASE Advance(t, [call[t] EXCEPT !.failed = TRUE])
    <3>. DEFINE d == [call[t] EXCEPT !.failed = TRUE]
    <3>1. Advance(t, d)
      BY <2>4
    <3>2. d \in Calls
      BY <1>types DEF Calls
    <3>. HIDE DEF d
    <3>. QED BY <2>1, <3>1, <3>2, AdvanceCalls, KeepsSilence DEF Kept, SourceInv, SourceTypes
  <2>. QED BY <1>5, <2>2, <2>3, <2>4 DEF Loop
<1>6. ASSUME NEW t \in Threads, Send(t) PROVE SourceInv'
  <2>1. /\ UNCHANGED <<process, closed, portal, session, cooldown, cache, snapshot>>
        /\ At(t, "send") /\ Sends(t) /\ To(t, "wait")
    BY <1>6 DEF Send, shared
  <2>2. Calling /\ \A u \in Threads : call'[u].at = "send" => call[u].at = "send"
    BY <2>1, <1>to
  <2>3. call'[t].at # "send"
    BY <2>1 DEF To, Goes, SourceInv, SourceTypes, Calls
  <2>4. extra[t] = 0
    BY <2>1 DEF SourceInv
  <2>5. /\ cooldown = 0 => extra' = extra
        /\ extra' \in [Threads -> 0 .. 2] /\ \A u \in Threads : extra'[u] <= 1
        /\ \A u \in Threads \ {t} : extra'[u] = extra[u]
    BY <2>1, <2>4 DEF Sends, SourceInv, SourceTypes
  <2>6. SourceTypes'
    BY <2>1, <2>2, <2>5 DEF SourceInv, SourceTypes, Calling
  <2>. QED BY <2>1, <2>2, <2>3, <2>5, <2>6 DEF SourceInv, Calling, At
<1>7. ASSUME NEW t \in Threads, Rows(t) PROVE SourceInv'
  <2>. DEFINE c == call[t]
              new == IF c.day \in closed THEN {} ELSE {Markets(c.about)[c.part]}
              d == [c EXCEPT !.ok = TRUE, !.got = @ \cup new]
  <2>1. UNCHANGED <<process, closed, portal, session, cooldown, extra>> /\ Advance(t, d)
    BY <1>7 DEF Rows, NoteNothing
  <2>2. new \subseteq {"STK", "KSQ"}
    <3>1. c.part \in 1 .. Len(Markets(c.about))
      BY <1>types, MarketsOf DEF Calls
    <3>. QED BY <3>1, <1>types, MarketsOf
  <2>3. d \in Calls
    BY <1>types, <2>2 DEF Calls
  <2>. HIDE DEF d
  <2>. QED BY <2>1, <2>3, AdvanceCalls, KeepsSilence DEF Kept, SourceInv, SourceTypes
<1>8. ASSUME NEW t \in Threads, Odd(t) \/ Refused(t) PROVE SourceInv'
  <2>. DEFINE d == [call[t] EXCEPT !.failed = TRUE]
  <2>1. /\ UNCHANGED <<process, closed, portal, session>> /\ Advance(t, d)
        /\ \/ UNCHANGED <<cooldown, extra>>
           \/ cooldown' \in Nat /\ extra' = [u \in Threads |-> 0]
    BY <1>8 DEF Odd, Refused, NoteNothing, Note
  <2>2. d \in Calls
    BY <1>types DEF Calls
  <2>. HIDE DEF d
  <2>. QED BY <2>1, <2>2, AdvanceCalls, KeepsSilence DEF Kept, SourceInv, SourceTypes
<1>9. CASE PortalChanges \/ SessionExpires
  BY <1>9 DEF PortalChanges, SessionExpires, shared, SourceInv, SourceTypes, At
<1>10. CASE Tick
  <2>1. /\ UNCHANGED <<process, closed, portal, session, cache, snapshot, call>>
        /\ cooldown > 0 /\ cooldown' = cooldown - 1
        /\ extra' = IF cooldown' = 0 THEN [t \in Threads |-> 0] ELSE extra
    BY <1>10 DEF Tick
  <2>. QED BY <2>1 DEF SourceInv, SourceTypes, At
<1>11. CASE Restart
  <2>1. /\ UNCHANGED <<process, closed, portal, snapshot>>
        /\ session' = FALSE /\ cooldown' = 0
        /\ call' = [t \in Threads |-> NoCall] /\ extra' = [t \in Threads |-> 0]
    BY <1>11 DEF Restart
  <2>2. cache' \in [Subjects -> Answer]
    <3>1. cache["members"] \in Answer
      BY DEF SourceInv, SourceTypes, Subjects
    <3>. QED BY <1>11, <3>1, NothingIsAnswer DEF Restart
  <2>3. Calling /\ \A t \in Threads : call'[t].at # "send"
    BY <2>1, NoCallIsCall DEF Calling
  <2>. QED BY <2>1, <2>2, <2>3, KeepsSilence DEF Kept, SourceInv, SourceTypes
<1>12. CASE UNCHANGED sourceVars
  BY <1>12 DEF sourceVars, shared, SourceInv, SourceTypes, At
<1>. QED BY <1>1, <1>2, <1>3, <1>4, <1>5, <1>6, <1>7, <1>8, <1>9, <1>10, <1>11, <1>12
         DEF SourceNext, Step

\* Within one cooldown a thread sends at most one request, the one it had looked for
\* before, whichever loop it is in and for any number of threads, days and cooldowns
\* (krx_index.py: _session and _krx_rows; errors.py).
THEOREM SilenceKept == SourceSpec => []SilenceIsKept
<1>1. SourceInv => SilenceIsKept
  BY DEF SourceInv, SilenceIsKept
<1>. QED BY InitSourceInv, StepSourceInv, <1>1, PTL DEF SourceSpec
=============================================================================

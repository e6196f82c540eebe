------------------------------ MODULE Backups ------------------------------
(***************************************************************************)
(* The nightly dump of the database and the check of the next morning that *)
(* there was one (worker/tasks.py), in the one worker process, which may   *)
(* die at any point and be started again.  An age counts nights.           *)
(***************************************************************************)
EXTENDS Integers, FiniteSets

CONSTANTS
  Retention,   \* _BACKUP_RETENTION_DAYS
  MaxLeft      \* bound on .tmp files that are left behind

ASSUME BackupAssumption == {Retention, MaxLeft} \subseteq Nat

VARIABLES
  hour,     \* "night", until the backup was due, then "day"
  files,    \* the ages of the files quant_*.sql.gz
  temps,    \* how many *.sql.gz.tmp lie about
  record,   \* BACKUP_LAST_SUCCESS_KEY: the age of the last success, or NoRecord
  job,      \* where the backup is
  due,      \* what the scheduler has not started today: backup, check
  away,     \* Redis does not answer, which also brings the tasks to the worker
  steady,   \* history: neither did the worker die today nor was Redis away
  alerts,   \* the codes that were published today
  ever      \* history: a backup has come about

watched == <<away, steady>>
backupVars == <<hour, files, temps, record, job, due, watched, alerts, ever>>

NoRecord == -1
\* Ages past the retention are not told apart.
Ages == 0 .. Retention + 1
Older(n) == IF n = Retention + 1 THEN n ELSE n + 1
\* 26 hours: the backup of last night only.
Stale == record # 0

PrunesFirst ==
  /\ job = "idle" /\ "backup" \in due
  /\ due' = due \ {"backup"} /\ job' = "dump"
  /\ files' = {n \in files : n <= Retention}
  /\ UNCHANGED <<hour, temps, record, watched, alerts, ever>>

(***************************************************************************)
(* backup_database                                                         *)
(***************************************************************************)
BeginBackup ==
  /\ job = "idle" /\ "backup" \in due
  /\ due' = due \ {"backup"} /\ job' = "dump"
  /\ UNCHANGED <<hour, files, temps, record, watched, alerts, ever>>

Dump ==
  /\ job = "dump" /\ temps < MaxLeft
  /\ temps' = temps + 1 /\ job' = "rename"
  /\ UNCHANGED <<hour, files, record, due, watched, alerts, ever>>

\* pg_dump or the rename fails: the .tmp goes, and an alert.
Fail ==
  /\ job \in {"dump", "rename"}
  /\ temps' = IF job = "rename" THEN temps - 1 ELSE temps
  /\ alerts' = alerts \cup {"failed"} /\ job' = "idle"
  /\ UNCHANGED <<hour, files, record, due, watched, ever>>

Rename ==
  /\ job = "rename"
  /\ temps' = temps - 1 /\ files' = files \cup {0}
  /\ ever' = TRUE /\ job' = "prune"
  /\ UNCHANGED <<hour, record, due, watched, alerts>>

\* _prune_old_backups: of its pattern only, which no .tmp meets.
Prune ==
  /\ job = "prune"
  /\ files' = {n \in files : n <= Retention}
  /\ job' = "record"
  /\ UNCHANGED <<hour, temps, record, due, watched, alerts, ever>>

Record ==
  /\ job = "record" /\ ~away
  /\ record' = 0 /\ job' = "upload"
  /\ UNCHANGED <<hour, files, temps, due, watched, alerts, ever>>

\* The copy elsewhere, if there is to be one.
Upload ==
  /\ job = "upload" /\ job' = "idle"
  /\ \E code \in {{}, {"upload"}} : alerts' = alerts \cup code
  /\ UNCHANGED <<hour, files, temps, record, due, watched, ever>>

\* Pruning or Redis raises: the task ends, and nothing says so.
Raise ==
  /\ job = "prune" \/ (job = "record" /\ away)
  /\ job' = "idle"
  /\ UNCHANGED <<hour, files, temps, record, due, watched, alerts, ever>>

(***************************************************************************)
(* check_backup_freshness                                                  *)
(***************************************************************************)
\* Without Redis the read of the record raises, and the task ends with no alert.
Check ==
  /\ hour = "day" /\ "check" \in due
  /\ due' = due \ {"check"}
  /\ alerts' = IF Stale /\ ~away THEN alerts \cup {"stale"} ELSE alerts
  /\ UNCHANGED <<hour, files, temps, record, job, watched, ever>>

(***************************************************************************)
(* The worker, Redis and time                                              *)
(***************************************************************************)
\* The process dies; what was under way is not taken up again, and what was due is.
Crash ==
  /\ steady' = FALSE /\ job' = "idle"
  /\ UNCHANGED <<hour, files, temps, record, due, away, alerts, ever>>

\* A task whose time comes while the worker or Redis is down is missed.
Missed ==
  /\ ~steady /\ \E t \in due : due' = due \ {t}
  /\ UNCHANGED <<hour, files, temps, record, job, watched, alerts, ever>>

RedisGoes ==
  /\ ~away /\ away' = TRUE /\ steady' = FALSE
  /\ UNCHANGED <<hour, files, temps, record, job, due, alerts, ever>>

RedisComes ==
  /\ away /\ away' = FALSE
  /\ UNCHANGED <<hour, files, temps, record, job, due, steady, alerts, ever>>

\* Redis starts without its data.
Forgotten ==
  /\ record # NoRecord /\ record' = NoRecord
  /\ UNCHANGED <<hour, files, temps, job, due, watched, alerts, ever>>

Morning ==
  /\ hour = "night" /\ job = "idle" /\ "backup" \notin due
  /\ hour' = "day"
  /\ UNCHANGED <<files, temps, record, job, due, watched, alerts, ever>>

Night ==
  /\ hour = "day" /\ due = {}
  /\ hour' = "night" /\ due' = {"backup", "check"}
  /\ files' = {Older(n) : n \in files}
  /\ record' = IF record = NoRecord THEN NoRecord ELSE Older(record)
  /\ steady' = ~away /\ alerts' = {}
  /\ UNCHANGED <<temps, job, away, ever>>

BackupInit ==
  /\ hour = "night" /\ files = {} /\ temps = 0 /\ record = NoRecord
  /\ job = "idle" /\ due = {"backup", "check"} /\ away = FALSE /\ steady = TRUE
  /\ alerts = {} /\ ever = FALSE

BackupNext ==
  \/ BeginBackup \/ Dump \/ Fail \/ Rename \/ Prune \/ Record \/ Upload \/ Raise \/ Check
  \/ Crash \/ Missed \/ RedisGoes \/ RedisComes \/ Forgotten \/ Morning \/ Night

BackupSpec == BackupInit /\ [][BackupNext]_backupVars

(***************************************************************************)
(* Properties                                                              *)
(***************************************************************************)
\* Types of the variables.
BackupTypes ==
  /\ hour \in {"night", "day"} /\ files \subseteq Ages
  /\ temps \in 0 .. MaxLeft /\ record \in {NoRecord} \cup Ages
  /\ job \in {"idle", "dump", "rename", "prune", "record", "upload"}
  /\ due \subseteq {"backup", "check"} /\ away \in BOOLEAN /\ steady \in BOOLEAN
  /\ alerts \subseteq {"failed", "upload", "stale"} /\ ever \in BOOLEAN

\* Once there is a backup there is one for ever, however long all further ones fail and
\* wherever the worker dies; a success recorded within the retention left a file that is
\* still there; and a day on which neither the worker died nor Redis was away has a file of
\* its night, or an alert was published that says it has not.
BackupsAreKept ==
  /\ BackupTypes
  /\ ever => files # {}
  /\ record \in 0 .. Retention => record \in files
  /\ hour = "day" /\ due = {} /\ steady => 0 \in files \/ "stale" \in alerts
=============================================================================

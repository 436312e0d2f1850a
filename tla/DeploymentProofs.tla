-------------------------- MODULE DeploymentProofs --------------------------
(***************************************************************************)
(* Proofs about Deployment for every number of commits, backups, restores, *)
(* faults and power losses, every retention and every start limit: there   *)
(* is a whole snapshot to go back to, no restore costs a commit, and the   *)
(* service runs on the database that is selected.                          *)
(***************************************************************************)
EXTENDS Deployment, FiniteSetTheorems, TLAPS

\* A database is never half written, and never mixes the demonstration with commits.
Whole(content) == Torn \notin content /\ (Demo \in content => content = {Demo})

FilesInv ==
    /\ 0 \in DOMAIN files
    /\ \A f \in DOMAIN files : f <= clock /\ Whole(files[f])
    /\ \A c \in 1..commits : \E f \in DOMAIN files : c \in files[f]

\* A process runs on the database that is selected, and not on a demonstration.
RunInv == run # "down" => db = env /\ Demo \notin files[db]

SnapsInv ==
    /\ \A s \in DOMAIN snaps : s <= clock /\ snaps[s].synced /\ Whole(snaps[s].content)
    /\ saved <= clock
    /\ saved # 0 => saved \in DOMAIN snaps

\* The snapshot that is being made is later than all the others.
BackupInv ==
    /\ backup.stamp <= clock
    /\ Whole(backup.content)
    /\ backup.at \in {"copying", "copied", "synced"} =>
          saved < backup.stamp /\ \A s \in DOMAIN snaps : s < backup.stamp
    /\ backup.at \in {"synced", "linked"} => backup.synced
    /\ backup.at = "linked" =>
          /\ saved < backup.stamp /\ \A s \in DOMAIN snaps : s <= backup.stamp
          /\ backup.stamp \in DOMAIN snaps
    /\ backup.at = "prune" =>
          saved = backup.stamp /\ \A s \in DOMAIN snaps : s <= backup.stamp

\* A restore writes to a database that was not there; while it changes the setting
\* nothing runs and nothing is there to start it.
RestoreInv ==
    /\ restore.target <= clock
    /\ restore.at \in {"pause", "stopJobs", "stopApp", "copy"} => restore.target \notin DOMAIN files
    /\ restore.at \in {"truncate", "write", "start", "ready"} => restore.target \in DOMAIN files
    /\ restore.at \notin {"idle", "pause"} => ~timers
    /\ restore.at \notin {"idle", "pause", "stopJobs"} => health = "idle"
    /\ restore.at \in {"copy", "truncate", "write", "start", "undoTruncate", "undoWrite", "undoStart"}
          => active # "on" /\ run = "down"

IInv == TypeOK /\ FilesInv /\ RunInv /\ SnapsInv /\ BackupInv /\ RestoreInv

-----------------------------------------------------------------------------
(* Helpers *)

LEMMA PutType ==
  ASSUME NEW S, NEW f, f \in [DOMAIN f -> S], NEW k, NEW x \in S
  PROVE  Put(f, k, x) \in [DOMAIN Put(f, k, x) -> S]
  BY DEF Put

\* A step of a backup, or of a restore, changes its place and nothing else.
LEMMA BackupGoesTo ==
  ASSUME backup \in BackupRuns, NEW from, NEW to, BackupGoes(from, to)
  PROVE  /\ backup.at = from /\ backup'.at = to
         /\ backup' = [backup EXCEPT !.at = to]
         /\ backup'.by = backup.by /\ backup'.source = backup.source
         /\ backup'.stamp = backup.stamp /\ backup'.content = backup.content
         /\ backup'.synced = backup.synced
  BY DEF BackupGoes, BackupRuns

LEMMA RestoreGoesTo ==
  ASSUME restore \in RestoreRuns, NEW from, NEW to, RestoreGoes(from, to)
  PROVE  /\ restore.at = from /\ restore'.at = to
         /\ restore' = [restore EXCEPT !.at = to]
         /\ restore'.from = restore.from /\ restore'.target = restore.target
         /\ restore'.original = restore.original
  BY DEF RestoreGoes, RestoreRuns

LEMMA Initially == Init => IInv
<1> SUFFICES ASSUME Init PROVE IInv
  OBVIOUS
<1> USE LimitsAssumption, BoundsAssumption, MarksAssumption
<1>1. files \in [DOMAIN files -> Contents] /\ DOMAIN files = {0} /\ files[0] = {}
  BY DEF Init, Contents
<1>2. /\ snaps \in [DOMAIN snaps -> Snapshots] /\ DOMAIN snaps \subseteq {0}
      /\ \A s \in DOMAIN snaps : snaps[s].synced /\ snaps[s].content = {Demo}
  BY DEF Init, Contents, Snapshots
<1>3. backup \in BackupRuns /\ restore \in RestoreRuns
  BY <1>1 DEF Init, NoBackup, NoRestore, BackupRuns, RestoreRuns, Contents
<1>4. TypeOK
  BY <1>1, <1>2, <1>3 DEF Init, TypeOK
<1>5. FilesInv /\ RunInv /\ SnapsInv
  BY <1>1, <1>2 DEF Init, FilesInv, RunInv, SnapsInv, Whole
<1>6. BackupInv /\ RestoreInv
  BY DEF Init, NoBackup, NoRestore, BackupInv, RestoreInv, Whole
<1> QED
  BY <1>4, <1>5, <1>6 DEF IInv

-----------------------------------------------------------------------------
(* The service *)

\* What the restore and the backup are at does not depend on the service.
LEMMA CommitKeepsIInv ==
  ASSUME IInv, Commit
  PROVE  IInv'
<1> USE LimitsAssumption, BoundsAssumption, MarksAssumption
<1>1. /\ run # "down" /\ commits' = commits + 1 /\ commits' \in 1..MaxCommits
      /\ files' = [files EXCEPT ![db] = @ \cup {commits'}]
      /\ UNCHANGED <<setting, service, jobs, snaps, backup, restore, clock, saved, abandoned,
                     faults, powerLosses>>
  BY DEF Commit, IInv, TypeOK
<1>2. /\ db \in DOMAIN files /\ files \in [DOMAIN files -> Contents]
      /\ Demo \notin files[db] /\ files[db] \in Contents
  BY <1>1 DEF IInv, TypeOK, RunInv
<1>3. files[db] \cup {commits'} \in Contents
  BY <1>1, <1>2 DEF Contents
<1>4. /\ files' \in [DOMAIN files' -> Contents] /\ DOMAIN files' = DOMAIN files
      /\ \A f \in DOMAIN files : files'[f] = IF f = db THEN files[f] \cup {commits'} ELSE files[f]
  BY <1>1, <1>2, <1>3
<1>5. TypeOK'
  BY <1>1, <1>4 DEF IInv, TypeOK, setting, service, jobs, BackupRuns, RestoreRuns
<1>6. Whole(files'[db]) /\ Demo \notin files'[db]
  BY <1>1, <1>2, <1>4 DEF IInv, FilesInv, Whole
<1>7. FilesInv'
  <2>1. ASSUME NEW c \in 1..commits' PROVE \E f \in DOMAIN files' : c \in files'[f]
    <3>1. CASE c = commits'
      BY <1>2, <1>4, <3>1
    <3>2. CASE c # commits'
      <4>1. c \in 1..commits
        BY <1>1, <3>2 DEF IInv, TypeOK
      <4> QED
        BY <1>4, <4>1 DEF IInv, FilesInv
    <3> QED
      BY <3>1, <3>2
  <2> QED
    BY <1>1, <1>2, <1>4, <1>6, <2>1 DEF IInv, FilesInv
<1>8. RunInv' /\ SnapsInv' /\ BackupInv' /\ RestoreInv'
  BY <1>1, <1>4, <1>6 DEF IInv, RunInv, SnapsInv, BackupInv, RestoreInv, setting, service, jobs
<1> QED
  BY <1>5, <1>7, <1>8 DEF IInv

LEMMA LaunchKeepsIInv ==
  ASSUME IInv, Launch
  PROVE  IInv'
<1> USE LimitsAssumption, BoundsAssumption, MarksAssumption
<1>1. starts \in 0..Burst
  BY DEF IInv, TypeOK
<1>2. (starts < Burst /\ starts' = starts + 1) \/ starts' = starts
  BY DEF Launch
<1>3. active = "on" /\ run = "down" /\ UNCHANGED <<setting, jobs, snaps, backup, restore, clock, history>>
  BY DEF Launch
<1>4. /\ active = "on" /\ run = "down" /\ starts' \in 0..Burst
      /\ UNCHANGED <<setting, jobs, snaps, backup, restore, clock, history>>
  BY <1>1, <1>2, <1>3
<1>5. restore.at \notin {"copy", "truncate", "write", "start",
                         "undoTruncate", "undoWrite", "undoStart"}
  BY <1>4 DEF IInv, RestoreInv
<1>6. CASE Starts /\ run' = "up" /\ db' = env /\ files' = files /\ UNCHANGED active
  <2>1. env \in DOMAIN files /\ Demo \notin files[env]
    BY <1>6 DEF Starts, IInv, TypeOK
  <2>2. TypeOK'
    BY <1>4, <1>6, <2>1 DEF IInv, TypeOK, setting, jobs, history, BackupRuns, RestoreRuns
  <2> QED
    BY <1>4, <1>5, <1>6, <2>1, <2>2
       DEF IInv, FilesInv, RunInv, SnapsInv, BackupInv, RestoreInv, setting, jobs, history
<1>7. CASE UNCHANGED <<run, db, files>> /\ active' \in {active, "failed"}
  <2>1. active' \in {"on", "failed"}
    BY <1>4, <1>7
  <2>2. TypeOK'
    BY <1>4, <1>7, <2>1 DEF IInv, TypeOK, setting, jobs, history, BackupRuns, RestoreRuns
  <2> QED
    BY <1>4, <1>5, <1>7, <2>2
       DEF IInv, FilesInv, RunInv, SnapsInv, BackupInv, RestoreInv, setting, jobs, history
<1>8. Starts => env \in DOMAIN files
  BY DEF Starts, IInv, TypeOK
<1> QED
  BY <1>6, <1>7, <1>8 DEF Launch

\* A step that leaves the databases, the snapshots and the scripts alone.
LEMMA ProcessKeepsIInv ==
  ASSUME IInv,
         UNCHANGED <<files, setting, db, snaps, backup, restore, clock, commits, saved,
                     abandoned, powerLosses>>,
         active' \in {"on", "off", "failed"}, run' \in {"down", "up", "sick"}, starts' \in 0..Burst,
         timers' = timers, health' \in {"idle", "restart"}, faults' \in Nat,
         run' # "down" => run # "down",
         health' # "idle" => timers \/ health # "idle",
         active' = "on" => active = "on" \/ health = "restart"
  PROVE  IInv'
<1>1. TypeOK'
  BY DEF IInv, TypeOK, setting, BackupRuns, RestoreRuns
<1>2. RestoreInv'
  BY DEF IInv, RestoreInv, TypeOK
<1> QED
  BY <1>1, <1>2 DEF IInv, FilesInv, RunInv, SnapsInv, BackupInv, setting

LEMMA ServiceKeepsIInv ==
  ASSUME IInv, Falter \/ Calm \/ HealthCheck \/ HealthRestart
  PROVE  IInv'
<1> USE LimitsAssumption, BoundsAssumption
<1>1. CASE Falter
  BY <1>1, ProcessKeepsIInv DEF Falter, setting, jobs, IInv, TypeOK
<1>2. CASE Calm
  BY <1>2, ProcessKeepsIInv DEF Calm, setting, jobs, history, IInv, TypeOK
<1>3. CASE HealthCheck
  BY <1>3, ProcessKeepsIInv DEF HealthCheck, setting, service, history, IInv, TypeOK
<1>4. CASE HealthRestart
  BY <1>4, ProcessKeepsIInv DEF HealthRestart, setting, history, IInv, TypeOK
<1> QED
  BY <1>1, <1>2, <1>3, <1>4

-----------------------------------------------------------------------------
(* The backups *)

\* A step of a backup that publishes nothing and removes nothing.
LEMMA CopyingKeepsIInv ==
  ASSUME IInv, UNCHANGED <<files, setting, service, jobs, snaps, restore, history>>,
         clock' \in 0..MaxStamps, clock <= clock',
         backup' \in BackupRuns, BackupInv'
  PROVE  IInv'
<1>1. TypeOK'
  BY DEF IInv, TypeOK, setting, service, jobs, history, BackupRuns, RestoreRuns
<1>2. clock \in Nat /\ clock' \in Nat /\ DOMAIN files \subseteq Nat /\ DOMAIN snaps \subseteq Nat
      /\ saved \in Nat /\ restore.target \in Nat
  BY BoundsAssumption DEF IInv, TypeOK, RestoreRuns
<1>3. FilesInv'
  BY <1>2 DEF IInv, FilesInv, setting, history
<1>4. SnapsInv'
  BY <1>2 DEF IInv, SnapsInv, setting, history
<1>5. RunInv' /\ RestoreInv'
  BY <1>2 DEF IInv, RunInv, RestoreInv, setting, service, jobs
<1> QED
  BY <1>1, <1>3, <1>4, <1>5 DEF IInv

LEMMA BackupBeginKeepsIInv ==
  ASSUME IInv, BackupBegin
  PROVE  IInv'
<1> USE BoundsAssumption
<1>1. PICK by \in {"service", "script"} :
        backup' = [NoBackup EXCEPT !.at = "copying", !.by = by, !.source = env, !.stamp = clock']
  BY DEF BackupBegin
<1>2. /\ clock' = clock + 1 /\ clock' \in 0..MaxStamps /\ env \in DOMAIN files
      /\ UNCHANGED <<files, setting, service, jobs, snaps, restore, history>>
  BY DEF BackupBegin, IInv, TypeOK
<1>3. backup' = [at |-> "copying", by |-> by, source |-> env, stamp |-> clock',
                 content |-> {}, synced |-> FALSE]
  BY <1>1 DEF NoBackup
<1>4. backup' \in BackupRuns
  BY <1>2, <1>3 DEF BackupRuns, Contents
<1>5. BackupInv'
  <2>1. clock \in Nat /\ DOMAIN snaps \subseteq Nat /\ saved \in Nat
    BY DEF IInv, TypeOK
  <2> QED
    BY <1>2, <1>3, <2>1 DEF IInv, SnapsInv, BackupInv, Whole, setting, history
<1> QED
  BY <1>2, <1>4, <1>5, CopyingKeepsIInv DEF IInv, TypeOK

LEMMA BackupCopyKeepsIInv ==
  ASSUME IInv, BackupCopy \/ BackupSync
  PROVE  IInv'
<1> USE BoundsAssumption
<1>1. /\ backup \in BackupRuns /\ backup.source \in DOMAIN files
      /\ files[backup.source] \in Contents /\ Whole(files[backup.source])
  BY DEF IInv, TypeOK, BackupRuns, FilesInv
<1>2. UNCHANGED <<files, setting, service, jobs, snaps, restore, history, clock>>
  BY DEF BackupCopy, BackupSync
<1>3. CASE BackupCopy
  <2>1. /\ backup' \in BackupRuns
        /\ backup.at = "copying" /\ backup'.at = "copied"
        /\ backup'.stamp = backup.stamp /\ backup'.content = files[backup.source]
    BY <1>1, <1>3 DEF BackupCopy, BackupRuns
  <2>2. BackupInv'
    BY <1>1, <1>2, <2>1 DEF IInv, BackupInv, setting, history
  <2> QED
    BY <1>2, <2>1, <2>2, CopyingKeepsIInv DEF IInv, TypeOK
<1>4. CASE BackupSync
  <2>1. /\ backup' \in BackupRuns
        /\ backup.at = "copied" /\ backup'.at = "synced" /\ backup'.synced
        /\ backup'.stamp = backup.stamp /\ backup'.content = backup.content
    BY <1>1, <1>4 DEF BackupSync, BackupRuns
  <2>2. BackupInv'
    BY <1>2, <2>1 DEF IInv, BackupInv, setting, history
  <2> QED
    BY <1>2, <2>1, <2>2, CopyingKeepsIInv DEF IInv, TypeOK
<1> QED
  BY <1>3, <1>4

LEMMA BackupLinkKeepsIInv ==
  ASSUME IInv, BackupLink
  PROVE  IInv'
<1> USE BoundsAssumption
<1> DEFINE snap == [content |-> backup.content, synced |-> backup.synced]
<1>1. /\ backup \in BackupRuns /\ BackupGoes("synced", "linked")
      /\ snaps' = Put(snaps, backup.stamp, snap)
      /\ UNCHANGED <<files, setting, service, jobs, restore, clock, history>>
  BY DEF BackupLink, IInv, TypeOK
<1>2. /\ backup.at = "synced" /\ backup'.at = "linked"
      /\ backup' \in BackupRuns
      /\ backup'.stamp = backup.stamp /\ backup'.content = backup.content
      /\ backup'.synced = backup.synced
  BY <1>1, BackupGoesTo DEF BackupRuns
<1>3. snap \in Snapshots /\ Whole(snap.content) /\ snap.synced /\ backup.stamp \in 0..MaxStamps
  BY <1>1, <1>2 DEF IInv, BackupInv, BackupRuns, Snapshots
<1>4. snaps \in [DOMAIN snaps -> Snapshots] /\ DOMAIN snaps \subseteq 0..MaxStamps
  BY DEF IInv, TypeOK
<1> HIDE DEF snap
<1>5. /\ snaps' \in [DOMAIN snaps' -> Snapshots]
      /\ DOMAIN snaps' = DOMAIN snaps \cup {backup.stamp}
      /\ \A s \in DOMAIN snaps' : snaps'[s] = IF s = backup.stamp THEN snap ELSE snaps[s]
  <2>1. Put(snaps, backup.stamp, snap) \in [DOMAIN Put(snaps, backup.stamp, snap) -> Snapshots]
    BY <1>3, <1>4, PutType
  <2>2. /\ DOMAIN Put(snaps, backup.stamp, snap) = DOMAIN snaps \cup {backup.stamp}
        /\ \A s \in DOMAIN snaps \cup {backup.stamp} :
              Put(snaps, backup.stamp, snap)[s] = IF s = backup.stamp THEN snap ELSE snaps[s]
    BY DEF Put
  <2> QED
    BY <1>1, <2>1, <2>2
<1>6. TypeOK'
  BY <1>1, <1>2, <1>3, <1>4, <1>5
     DEF IInv, TypeOK, setting, service, jobs, history, BackupRuns, RestoreRuns
<1>7. SnapsInv'
  BY <1>1, <1>2, <1>3, <1>5 DEF IInv, SnapsInv, BackupInv, setting, history
<1>8. BackupInv'
  <2>1. \A s \in DOMAIN snaps' : s <= backup.stamp
    BY <1>2, <1>3, <1>4, <1>5 DEF IInv, BackupInv
  <2> QED
    BY <1>1, <1>2, <1>5, <2>1 DEF IInv, BackupInv, setting, history
<1> QED
  BY <1>1, <1>6, <1>7, <1>8 DEF IInv, FilesInv, RunInv, RestoreInv, setting, service, jobs, history

LEMMA BackupPublishKeepsIInv ==
  ASSUME IInv, BackupPublish
  PROVE  IInv'
<1> USE BoundsAssumption
<1>1. /\ backup \in BackupRuns /\ BackupGoes("linked", "prune") /\ saved' = backup.stamp
      /\ UNCHANGED <<files, setting, service, jobs, snaps, restore, clock, commits, abandoned,
                     faults, powerLosses>>
  BY DEF BackupPublish, IInv, TypeOK
<1>2. /\ backup.at = "linked" /\ backup'.at = "prune"
      /\ backup' \in BackupRuns
      /\ backup'.stamp = backup.stamp /\ backup'.content = backup.content
      /\ backup'.synced = backup.synced
  BY <1>1, BackupGoesTo DEF BackupRuns
<1>3. TypeOK'
  BY <1>1, <1>2 DEF IInv, TypeOK, setting, service, jobs, BackupRuns, RestoreRuns
<1>4. SnapsInv' /\ BackupInv'
  BY <1>1, <1>2 DEF IInv, SnapsInv, BackupInv
<1> QED
  BY <1>1, <1>3, <1>4 DEF IInv, FilesInv, RunInv, RestoreInv, setting, service, jobs

\* The snapshot that was completed last is the latest, and with it another one is
\* there when the oldest goes.
LEMMA PruneKeepsIInv ==
  ASSUME IInv, Prune
  PROVE  IInv'
<1> USE BoundsAssumption
<1>1. /\ backup.at = "prune" /\ saved = backup.stamp
      /\ UNCHANGED <<files, setting, service, jobs, restore, clock, history>>
      /\ \A s \in DOMAIN snaps : s <= saved
      /\ DOMAIN snaps \subseteq 0..MaxStamps
      /\ snaps \in [DOMAIN snaps -> Snapshots]
  BY DEF Prune, IInv, TypeOK, BackupInv
<1>2. CASE backup' = NoBackup /\ UNCHANGED snaps
  <2>1. backup' \in BackupRuns
    BY <1>1, <1>2 DEF NoBackup, BackupRuns, Contents, IInv, FilesInv
  <2>2. BackupInv'
    BY <1>1, <1>2 DEF BackupInv, NoBackup, Whole, IInv, TypeOK
  <2> QED
    BY <1>1, <1>2, <2>1, <2>2, CopyingKeepsIInv DEF IInv, TypeOK
<1>3. CASE /\ Cardinality(DOMAIN snaps) > Keep /\ UNCHANGED backup
           /\ \E s \in DOMAIN snaps : (\A t \in DOMAIN snaps : s <= t) /\ snaps' = Without(s)
  <2>1. PICK s \in DOMAIN snaps : (\A t \in DOMAIN snaps : s <= t) /\ snaps' = Without(s)
    BY <1>3
  <2>2. s # saved
    <3> SUFFICES ASSUME s = saved PROVE FALSE
      OBVIOUS
    <3>1. DOMAIN snaps = {s}
      BY <1>1, <2>1
    <3>2. Cardinality(DOMAIN snaps) = 1
      BY <3>1, FS_Singleton
    <3> QED
      BY <1>3, <3>2, LimitsAssumption
  <2>3. /\ DOMAIN snaps' = DOMAIN snaps \ {s}
        /\ \A t \in DOMAIN snaps' : snaps'[t] = snaps[t]
        /\ snaps' \in [DOMAIN snaps' -> Snapshots]
    BY <1>1, <2>1 DEF Without
  <2>4. TypeOK'
    BY <1>1, <1>3, <2>3 DEF IInv, TypeOK, setting, service, jobs, history, BackupRuns, RestoreRuns
  <2>5. SnapsInv' /\ BackupInv'
    BY <1>1, <1>3, <2>2, <2>3 DEF IInv, SnapsInv, BackupInv, setting, history
  <2> QED
    BY <1>1, <2>4, <2>5 DEF IInv, FilesInv, RunInv, RestoreInv, setting, service, jobs, history
<1> QED
  BY <1>2, <1>3 DEF Prune

\* Without a backup under way nothing has to be shown of it.
LEMMA NoBackupIsFine ==
  ASSUME IInv, clock' = clock, backup' = NoBackup, files' = files
  PROVE  backup' \in BackupRuns /\ BackupInv'
<1>1. backup' \in BackupRuns
  BY BoundsAssumption DEF NoBackup, BackupRuns, Contents, IInv, FilesInv
<1>2. BackupInv'
  BY BoundsAssumption DEF NoBackup, BackupInv, Whole, IInv, TypeOK
<1> QED
  BY <1>1, <1>2

LEMMA BackupFailKeepsIInv ==
  ASSUME IInv, BackupFail
  PROVE  IInv'
<1>1. /\ backup' = NoBackup /\ faults' \in Nat
      /\ UNCHANGED <<files, setting, service, jobs, snaps, restore, clock, commits, saved,
                     abandoned, powerLosses>>
  BY DEF BackupFail, IInv, TypeOK
<1>2. backup' \in BackupRuns /\ BackupInv'
  BY <1>1, NoBackupIsFine
<1>3. TypeOK'
  BY <1>1, <1>2 DEF IInv, TypeOK, setting, service, jobs, BackupRuns, RestoreRuns
<1> QED
  BY <1>1, <1>2, <1>3 DEF IInv, FilesInv, RunInv, SnapsInv, RestoreInv, setting, service, jobs

LEMMA BackupKeepsIInv ==
  ASSUME IInv, Backup
  PROVE  IInv'
  BY BackupBeginKeepsIInv, BackupCopyKeepsIInv, BackupLinkKeepsIInv, BackupPublishKeepsIInv,
     PruneKeepsIInv DEF Backup

-----------------------------------------------------------------------------
(* The restore *)

LEMMA HistoryStays ==
  ASSUME IInv, UNCHANGED history
  PROVE  /\ abandoned' \in BOOLEAN /\ faults' \in Nat
         /\ UNCHANGED <<commits, saved, powerLosses>>
<1>1. abandoned' = abandoned /\ faults' = faults /\ UNCHANGED <<commits, saved, powerLosses>>
  BY DEF history
<1>2. abandoned \in BOOLEAN /\ faults \in Nat
  BY DEF IInv, TypeOK
<1> QED
  BY <1>1, <1>2

LEMMA SettingStays ==
  ASSUME IInv, UNCHANGED setting
  PROVE  /\ env' = env /\ env' \in DOMAIN files \cup {Empty}
         /\ unsynced' \subseteq DOMAIN files \cup {Empty}
  BY DEF setting, IInv, TypeOK

\* A step of a restore that leaves the databases and the snapshots alone.
LEMMA RestoringKeepsIInv ==
  ASSUME IInv, UNCHANGED <<files, db, starts, snaps, commits, saved, powerLosses>>,
         clock' \in 0..MaxStamps, clock <= clock', abandoned' \in BOOLEAN, faults' \in Nat,
         env' \in DOMAIN files \cup {Empty}, unsynced' \subseteq DOMAIN files \cup {Empty},
         active' \in {"on", "off", "failed"}, run' \in {"down", run},
         timers' \in BOOLEAN, health' \in {"idle", health},
         run' # "down" => env' = env,
         backup' \in {backup, NoBackup},
         restore' \in RestoreRuns, RestoreInv'
  PROVE  IInv'
<1> USE BoundsAssumption
<1>1. backup' \in BackupRuns
  <2>1. backup \in BackupRuns
    BY DEF IInv, TypeOK
  <2>2. NoBackup \in BackupRuns
    BY DEF NoBackup, BackupRuns, Contents, IInv, FilesInv
  <2> QED
    BY <2>1, <2>2
<1>2. clock \in Nat /\ clock' \in Nat /\ DOMAIN files \subseteq Nat /\ DOMAIN snaps \subseteq Nat
      /\ saved \in Nat /\ backup.stamp \in Nat
  BY DEF IInv, TypeOK, BackupRuns
<1>3. TypeOK'
  <2>1. backup' \in BackupRuns' /\ restore' \in RestoreRuns'
    BY <1>1 DEF BackupRuns, RestoreRuns
  <2> QED
    BY <2>1 DEF IInv, TypeOK, setting, history
<1>4. BackupInv'
  <2>1. CASE backup' = backup
    BY <1>2, <2>1 DEF IInv, BackupInv, setting, history
  <2>2. CASE backup' = NoBackup
    BY <1>2, <2>2 DEF BackupInv, NoBackup, Whole
  <2> QED
    BY <2>1, <2>2
<1>5. FilesInv' /\ SnapsInv'
  BY <1>2 DEF IInv, FilesInv, SnapsInv, setting, history
<1>6. RunInv'
  BY DEF IInv, RunInv
<1> QED
  BY <1>3, <1>4, <1>5, <1>6 DEF IInv

LEMMA RestoreBeginKeepsIInv ==
  ASSUME IInv, RestoreBegin
  PROVE  IInv'
<1> USE BoundsAssumption
<1>1. PICK s \in DOMAIN snaps :
        restore' = [at |-> "pause", from |-> s, target |-> clock', original |-> env]
  BY DEF RestoreBegin
<1>2. /\ clock' = clock + 1 /\ clock' \in 0..MaxStamps /\ env \in DOMAIN files
      /\ UNCHANGED <<files, setting, service, jobs, snaps, backup, history>>
  BY DEF RestoreBegin, IInv, TypeOK
<1>3. restore' \in RestoreRuns
  BY <1>1, <1>2 DEF RestoreRuns, IInv, TypeOK
<1>4. RestoreInv'
  <2>1. clock' \notin DOMAIN files
    <3>1. clock \in Nat /\ DOMAIN files \subseteq Nat /\ \A f \in DOMAIN files : f <= clock
      BY DEF IInv, TypeOK, FilesInv
    <3> QED
      BY <1>2, <3>1
  <2> QED
    BY <1>1, <1>2, <2>1 DEF RestoreInv, IInv, TypeOK
<1> QED
  BY <1>2, <1>3, <1>4, RestoringKeepsIInv, HistoryStays, SettingStays DEF IInv, TypeOK, service, jobs

\* The next place of the restore: what a step that only moves it has to keep.
LEMMA RestoreStepType ==
  ASSUME IInv, NEW from, NEW to, RestoreGoes(from, to), UNCHANGED files,
         to \in {"idle", "pause", "stopJobs", "stopApp", "copy", "truncate", "write", "start",
                 "ready", "undoStop", "undoTruncate", "undoWrite", "undoStart", "resume"}
  PROVE  restore' \in RestoreRuns /\ restore.target \in 0..MaxStamps
  BY DEF RestoreGoes, RestoreRuns, IInv, TypeOK

LEMMA NoRestoreIsFine ==
  ASSUME IInv, clock' = clock, restore' = NoRestore
  PROVE  restore' \in RestoreRuns /\ RestoreInv'
  BY BoundsAssumption DEF NoRestore, RestoreRuns, RestoreInv, IInv, TypeOK, FilesInv

LEMMA TimersKeepIInv ==
  ASSUME IInv, PauseTimers \/ Resume
  PROVE  IInv'
<1>1. UNCHANGED <<files, setting, service, health, snaps, backup, clock, history>>
  BY DEF PauseTimers, Resume
<1>2. restore' \in RestoreRuns /\ RestoreInv' /\ timers' \in BOOLEAN
  <2>1. CASE PauseTimers
    <3>1. RestoreGoes("pause", "stopJobs") /\ timers' = FALSE
      BY <2>1 DEF PauseTimers
    <3>2. restore' \in RestoreRuns
      BY <1>1, <3>1, RestoreStepType
    <3>3. /\ restore.at = "pause" /\ restore'.at = "stopJobs" /\ restore'.target = restore.target
      BY <3>1, RestoreGoesTo DEF IInv, TypeOK
    <3> QED
      BY <1>1, <3>1, <3>2, <3>3 DEF RestoreInv, IInv
  <2>2. CASE Resume
    <3>1. restore' = NoRestore /\ timers' = TRUE
      BY <2>2 DEF Resume
    <3> QED
      BY <1>1, <3>1, NoRestoreIsFine
  <2> QED
    BY <2>1, <2>2
<1> QED
  BY <1>1, <1>2, RestoringKeepsIInv, HistoryStays, SettingStays DEF IInv, TypeOK, service

LEMMA StopJobsKeepsIInv ==
  ASSUME IInv, StopJobs
  PROVE  IInv'
<1>1. /\ RestoreGoes("stopJobs", "stopApp") /\ health' = "idle" /\ backup' \in {backup, NoBackup}
      /\ UNCHANGED <<files, setting, service, timers, snaps, clock, history>>
  BY DEF StopJobs
<1>2. restore' \in RestoreRuns /\ RestoreInv'
  BY <1>1, RestoreStepType, RestoreGoesTo DEF RestoreInv, IInv, TypeOK, setting, service
<1> QED
  BY <1>1, <1>2, RestoringKeepsIInv, HistoryStays, SettingStays DEF IInv, TypeOK, service

LEMMA StopAppKeepsIInv ==
  ASSUME IInv, StopApp
  PROVE  IInv'
<1>1. /\ active' = "off" /\ run' = "down"
      /\ UNCHANGED <<files, setting, db, starts, jobs, snaps, backup, clock, history>>
  BY DEF StopApp
<1>2. restore' \in RestoreRuns /\ RestoreInv'
  <2>1. CASE RestoreGoes("stopApp", "copy")
    BY <1>1, <2>1, RestoreStepType, RestoreGoesTo DEF RestoreInv, IInv, TypeOK, setting, jobs
  <2>2. CASE RestoreGoes("undoStop", "undoTruncate")
    BY <1>1, <2>2, RestoreStepType, RestoreGoesTo DEF RestoreInv, IInv, TypeOK, setting, jobs
  <2> QED
    BY <2>1, <2>2 DEF StopApp
<1>3. /\ active' \in {"on", "off", "failed"} /\ timers' \in BOOLEAN /\ health' = health
      /\ env' = env /\ env \in DOMAIN files \cup {Empty}
      /\ run' \in {"down", run} /\ clock' = clock /\ clock \in 0..MaxStamps
  BY <1>1 DEF IInv, TypeOK, setting, jobs
<1> QED
  BY <1>1, <1>2, <1>3, RestoringKeepsIInv, HistoryStays, SettingStays, BoundsAssumption

LEMMA WriteEnvKeepsIInv ==
  ASSUME IInv, WriteEnv
  PROVE  IInv'
<1>1. unsynced' = unsynced \cup {env} /\ UNCHANGED <<files, service, jobs, snaps, backup, clock, history>>
  BY DEF WriteEnv
<1>2. \/ RestoreGoes("truncate", "write") /\ env' = Empty
      \/ RestoreGoes("write", "start") /\ env' = restore.target
      \/ RestoreGoes("undoTruncate", "undoWrite") /\ env' = Empty
      \/ RestoreGoes("undoWrite", "undoStart") /\ env' = restore.original
  BY DEF WriteEnv
<1>3. restore.at \in {"truncate", "write", "undoTruncate", "undoWrite"}
  BY <1>2 DEF RestoreGoes
<1>4. run = "down" /\ active # "on"
  BY <1>3 DEF IInv, RestoreInv
<1>5. env' \in DOMAIN files \cup {Empty}
  <2>1. restore.original \in DOMAIN files
    BY DEF IInv, TypeOK, RestoreRuns
  <2> QED
    BY <1>2, <2>1 DEF RestoreGoes, IInv, RestoreInv
<1>6. restore' \in RestoreRuns /\ RestoreInv'
  <2>1. CASE RestoreGoes("truncate", "write")
    BY <1>1, <2>1, RestoreStepType, RestoreGoesTo DEF RestoreInv, IInv, TypeOK, setting, jobs, service
  <2>2. CASE RestoreGoes("write", "start")
    BY <1>1, <2>2, RestoreStepType, RestoreGoesTo DEF RestoreInv, IInv, TypeOK, setting, jobs, service
  <2>3. CASE RestoreGoes("undoTruncate", "undoWrite")
    BY <1>1, <2>3, RestoreStepType, RestoreGoesTo DEF RestoreInv, IInv, TypeOK, setting, jobs, service
  <2>4. CASE RestoreGoes("undoWrite", "undoStart")
    BY <1>1, <2>4, RestoreStepType, RestoreGoesTo DEF RestoreInv, IInv, TypeOK, setting, jobs, service
  <2> QED
    BY <1>2, <2>1, <2>2, <2>3, <2>4
<1> QED
  BY <1>1, <1>4, <1>5, <1>6, RestoringKeepsIInv, HistoryStays DEF IInv, TypeOK, jobs, service

LEMMA StartAppKeepsIInv ==
  ASSUME IInv, StartApp \/ AwaitReady
  PROVE  IInv'
<1>1. /\ active' \in {active, "on"}
      /\ UNCHANGED <<files, setting, run, db, starts, jobs, snaps, backup, clock, history>>
  BY DEF StartApp, AwaitReady, setting, service
<1>2. restore' \in RestoreRuns /\ RestoreInv'
  <2>1. CASE RestoreGoes("start", "ready")
    BY <1>1, <2>1, RestoreStepType, RestoreGoesTo DEF RestoreInv, IInv, TypeOK, setting, jobs
  <2>2. CASE RestoreGoes("undoStart", "resume")
    BY <1>1, <2>2, RestoreStepType, RestoreGoesTo DEF RestoreInv, IInv, TypeOK, setting, jobs
  <2>3. CASE RestoreGoes("ready", "resume")
    BY <1>1, <2>3, RestoreStepType, RestoreGoesTo DEF RestoreInv, IInv, TypeOK, setting, jobs
  <2>4. CASE RestoreGoes("ready", "undoStop")
    BY <1>1, <2>4, RestoreStepType, RestoreGoesTo DEF RestoreInv, IInv, TypeOK, setting, jobs
  <2> QED
    BY <2>1, <2>2, <2>3, <2>4 DEF StartApp, AwaitReady
<1>3. /\ active' \in {"on", "off", "failed"} /\ timers' \in BOOLEAN /\ health' = health
      /\ env' = env /\ env \in DOMAIN files \cup {Empty}
      /\ run' \in {"down", run} /\ clock' = clock /\ clock \in 0..MaxStamps
  BY <1>1 DEF IInv, TypeOK, setting, jobs
<1> QED
  BY <1>1, <1>2, <1>3, RestoringKeepsIInv, HistoryStays, SettingStays, BoundsAssumption

\* The snapshot goes into a database that was not there: what the others hold stays.
LEMMA RestoreCopyKeepsIInv ==
  ASSUME IInv, RestoreCopy
  PROVE  IInv'
<1> USE BoundsAssumption
<1>1. UNCHANGED <<setting, service, jobs, snaps, backup, clock, history>>
  BY DEF RestoreCopy
<1>2. restore \in RestoreRuns /\ restore.at = "copy" /\ restore.target \notin DOMAIN files
      /\ restore.target \in 0..MaxStamps /\ restore.target <= clock
  BY DEF RestoreCopy, IInv, TypeOK, RestoreInv, RestoreRuns
<1>3. CASE /\ restore.from \in DOMAIN snaps
           /\ files' = Put(files, restore.target, snaps[restore.from].content)
           /\ RestoreGoes("copy", "truncate")
  <2> DEFINE content == snaps[restore.from].content
  <2>1. content \in Contents /\ Whole(content)
    BY <1>3 DEF IInv, TypeOK, SnapsInv, Snapshots
  <2>2. files \in [DOMAIN files -> Contents]
    BY DEF IInv, TypeOK
  <2> HIDE DEF content
  <2>3. /\ DOMAIN files' = DOMAIN files \cup {restore.target}
        /\ \A f \in DOMAIN files' : files'[f] = IF f = restore.target THEN content ELSE files[f]
    BY <1>3 DEF Put, content
  <2>4. files' \in [DOMAIN files' -> Contents]
    BY <1>3, <2>1, <2>2, PutType DEF content
  <2>5. restore' \in RestoreRuns' /\ restore'.at = "truncate" /\ restore'.target = restore.target
    BY <1>2, <1>3, <2>3 DEF RestoreGoes, RestoreRuns
  <2>6. TypeOK'
    <3>1. backup \in BackupRuns'
      BY <2>3 DEF IInv, TypeOK, BackupRuns
    <3> QED
      BY <1>1, <1>2, <1>3, <2>3, <2>4, <2>5, <3>1 DEF IInv, TypeOK, setting, service, jobs, history
  <2>7. FilesInv'
    <3>1. ASSUME NEW c \in 1..commits PROVE \E f \in DOMAIN files' : c \in files'[f]
      <4>1. PICK f \in DOMAIN files : c \in files[f]
        BY DEF IInv, FilesInv
      <4> QED
        BY <1>2, <2>3, <4>1
    <3> QED
      BY <1>1, <1>2, <2>1, <2>3, <3>1 DEF IInv, FilesInv, history
  <2>8. RunInv'
    BY <1>1, <1>2, <2>3 DEF IInv, TypeOK, RunInv, setting, service
  <2>9. RestoreInv'
    BY <1>1, <1>2, <2>3, <2>5 DEF IInv, RestoreInv, setting, service, jobs
  <2> QED
    BY <1>1, <2>6, <2>7, <2>8, <2>9 DEF IInv, SnapsInv, BackupInv, history
<1>4. CASE RestoreGoes("copy", "undoStop") /\ UNCHANGED files
  <2>1. restore' \in RestoreRuns /\ restore'.at = "undoStop" /\ restore'.target = restore.target
    BY <1>2, <1>4 DEF RestoreGoes, RestoreRuns
  <2>2. RestoreInv'
    BY <1>1, <1>2, <1>4, <2>1 DEF IInv, RestoreInv, setting, service, jobs
  <2> QED
    BY <1>1, <1>4, <2>1, <2>2, RestoringKeepsIInv, HistoryStays, SettingStays
       DEF IInv, TypeOK, service, jobs
<1> QED
  BY <1>3, <1>4 DEF RestoreCopy

LEMMA RestoreKeepsIInv ==
  ASSUME IInv, Restore
  PROVE  IInv'
  BY TimersKeepIInv, StopJobsKeepsIInv, StopAppKeepsIInv, RestoreCopyKeepsIInv, WriteEnvKeepsIInv,
     StartAppKeepsIInv DEF Restore

\* A restore that fails, breaks off or is killed leaves everything but itself as it is,
\* and none of the places where it goes on to needs the service to be stopped.
LEMMA CutOffKeepsIInv ==
  ASSUME IInv, RestoreFails \/ RestoreBreaks \/ RestoreKilled
  PROVE  IInv'
<1>1. /\ abandoned' \in {abandoned, TRUE} /\ faults' = faults + 1
      /\ UNCHANGED <<files, setting, service, jobs, snaps, backup, clock, commits, saved, powerLosses>>
  BY DEF RestoreFails, RestoreBreaks, RestoreKilled
<1>2. abandoned' \in BOOLEAN /\ faults' \in Nat
  <2>1. abandoned \in BOOLEAN /\ faults \in Nat
    BY DEF IInv, TypeOK
  <2>2. abandoned' \in BOOLEAN
    BY <1>1, <2>1
  <2>3. faults' \in Nat
    BY <1>1, <2>1
  <2> QED
    BY <2>2, <2>3
<1>3. restore' \in RestoreRuns /\ RestoreInv'
  <2>1. CASE RestoreKilled
    BY <1>1, <2>1, NoRestoreIsFine DEF RestoreKilled
  <2>2. CASE RestoreFails \/ RestoreBreaks
    <3>1. /\ restore.at \in Guarded \cup Undoing
          /\ \/ restore' = [restore EXCEPT !.at = "undoStop"]
             \/ restore' = [restore EXCEPT !.at = "resume"]
      BY <2>2 DEF RestoreFails, RestoreBreaks
    <3>2. /\ restore' \in RestoreRuns
          /\ restore'.at \in {"undoStop", "resume"} /\ restore'.target = restore.target
      BY <3>1 DEF RestoreRuns, IInv, TypeOK
    <3>3. ~timers /\ health = "idle" /\ restore.target <= clock
      BY <3>1 DEF Guarded, Undoing, IInv, RestoreInv
    <3> QED
      BY <1>1, <3>2, <3>3 DEF RestoreInv, jobs
  <2> QED
    BY <2>1, <2>2
<1> QED
  BY <1>1, <1>2, <1>3, RestoringKeepsIInv, SettingStays, BoundsAssumption DEF IInv, TypeOK, service, jobs

LEMMA WriteBackKeepsIInv ==
  ASSUME IInv, WriteBack
  PROVE  IInv'
<1>1. /\ unsynced' = {}
      /\ UNCHANGED <<files, env, service, jobs, snaps, backup, restore, clock, history>>
  BY DEF WriteBack
<1>2. restore' \in RestoreRuns /\ RestoreInv'
  BY <1>1 DEF IInv, TypeOK, RestoreInv, RestoreRuns, service, jobs
<1> QED
  BY <1>1, <1>2, RestoringKeepsIInv, HistoryStays, BoundsAssumption DEF IInv, TypeOK, service, jobs

-----------------------------------------------------------------------------
(* A power loss *)

\* What is published is on disk; only a snapshot that is not yet the saved one may
\* lose its name.
LEMMA PowerLossKeepsIInv ==
  ASSUME IInv, PowerLoss
  PROVE  IInv'
<1> USE BoundsAssumption
<1>1. /\ active' = "on" /\ run' = "down" /\ starts' = 0 /\ timers' = TRUE /\ health' = "idle"
      /\ backup' = NoBackup /\ restore' = NoRestore /\ powerLosses' = powerLosses + 1
      /\ env' \in unsynced \cup {env} /\ unsynced' = {}
      /\ UNCHANGED <<files, db, clock, commits, saved, abandoned, faults>>
  BY DEF PowerLoss
<1>2. PICK gone \in SUBSET (IF backup.at = "linked" THEN {backup.stamp} ELSE {}) :
        snaps' = [s \in DOMAIN snaps \ gone |->
            IF snaps[s].synced THEN snaps[s] ELSE [content |-> {Torn}, synced |-> TRUE]]
  BY DEF PowerLoss
<1>3. /\ DOMAIN snaps' = DOMAIN snaps \ gone
      /\ \A s \in DOMAIN snaps' : snaps'[s] = snaps[s]
  BY <1>2 DEF IInv, SnapsInv
<1>4. snaps' \in [DOMAIN snaps' -> Snapshots]
  <2>1. snaps \in [DOMAIN snaps -> Snapshots]
    BY DEF IInv, TypeOK
  <2>2. \A s \in DOMAIN snaps' : snaps'[s] \in Snapshots
    BY <1>3, <2>1
  <2>3. snaps' = [s \in DOMAIN snaps' |-> snaps'[s]]
    BY <1>2
  <2> QED
    BY <2>2, <2>3
<1>5. saved \notin gone
  BY <1>2 DEF IInv, TypeOK, BackupInv, BackupRuns
<1>6. backup' \in BackupRuns /\ BackupInv'
  BY <1>1, NoBackupIsFine
<1>7. restore' \in RestoreRuns /\ RestoreInv'
  BY <1>1, NoRestoreIsFine
<1>8. TypeOK'
  <2>1. backup' \in BackupRuns' /\ restore' \in RestoreRuns'
    BY <1>1, <1>6, <1>7 DEF BackupRuns, RestoreRuns
  <2> QED
    BY <1>1, <1>3, <1>4, <2>1, LimitsAssumption DEF IInv, TypeOK
<1>9. FilesInv' /\ RunInv' /\ SnapsInv'
  BY <1>1, <1>3, <1>5 DEF IInv, FilesInv, RunInv, SnapsInv
<1> QED
  BY <1>6, <1>7, <1>8, <1>9 DEF IInv

LEMMA NextKeepsIInv == IInv /\ [Next]_vars => IInv'
<1> SUFFICES ASSUME IInv, [Next]_vars PROVE IInv'
  OBVIOUS
<1>1. CASE Commit
  BY <1>1, CommitKeepsIInv
<1>2. CASE Launch
  BY <1>2, LaunchKeepsIInv
<1>3. CASE Falter \/ Calm \/ HealthCheck \/ HealthRestart
  BY <1>3, ServiceKeepsIInv
<1>4. CASE Backup
  BY <1>4, BackupKeepsIInv
<1>5. CASE BackupFail
  BY <1>5, BackupFailKeepsIInv
<1>6. CASE RestoreBegin
  BY <1>6, RestoreBeginKeepsIInv
<1>7. CASE Restore
  BY <1>7, RestoreKeepsIInv
<1>8. CASE RestoreFails \/ RestoreBreaks \/ RestoreKilled
  BY <1>8, CutOffKeepsIInv
<1>9. CASE WriteBack
  BY <1>9, WriteBackKeepsIInv
<1>10. CASE PowerLoss
  BY <1>10, PowerLossKeepsIInv
<1>11. CASE UNCHANGED vars
  BY <1>11
     DEF vars, setting, service, jobs, history, IInv, TypeOK, BackupRuns, RestoreRuns, FilesInv, RunInv,
         SnapsInv, BackupInv, RestoreInv
<1> QED
  BY <1>1, <1>2, <1>3, <1>4, <1>5, <1>6, <1>7, <1>8, <1>9, <1>10, <1>11 DEF Next

LEMMA Invariance == Spec => []IInv
  BY Initially, NextKeepsIInv, PTL DEF Spec

-----------------------------------------------------------------------------
(* Theorems *)

\* For any retention, start limit and number of faults every variable stays in its
\* range: app.env names a database that is there, or nothing.
THEOREM TypeCorrect == Spec => []TypeOK
<1>1. IInv => TypeOK
  BY DEF IInv
<1> QED
  BY <1>1, Invariance, PTL

\* The snapshot that was completed last survives every prune, kill and power loss,
\* and nothing half written ever bears the name of a snapshot.
THEOREM SnapshotsAreWhole == Spec => []RecoveryPoint
<1>1. IInv => RecoveryPoint
  BY DEF IInv, SnapsInv, RecoveryPoint, Whole
<1> QED
  BY <1>1, Invariance, PTL

\* Every commit is in some database, however many restores were made, undone or cut
\* off, and no database mixes live data with the demonstration.
THEOREM CommitsSurvive == Spec => []NothingLost
<1>1. IInv => NothingLost
  BY DEF IInv, FilesInv, NothingLost, Whole
<1> QED
  BY <1>1, Invariance, PTL

\* A process that runs has the database open that app.env names.
THEOREM SelectedDatabaseRuns == Spec => []RunsSelected
<1>1. IInv => RunsSelected
  BY DEF IInv, RunInv, RunsSelected
<1> QED
  BY <1>1, Invariance, PTL
=============================================================================

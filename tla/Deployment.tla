------------------------------ MODULE Deployment ------------------------------
(***************************************************************************)
(* The database of a supervised installation: deploy/azure/backup-daily.py *)
(* and restore-runtime.py over tools/backup.py, the units that             *)
(* configure-runtime.py installs, and the start of the process, whose      *)
(* guard is src/demo.rs.  Backups run by timer or by hand, a restore makes *)
(* a new database of a snapshot and switches the service to it, the        *)
(* service and its health check go on meanwhile, and a fault, a signal or  *)
(* a power loss may come between any two steps.                            *)
(*                                                                         *)
(* A database is the set of the commits that it holds; one that was seeded *)
(* in demo mode holds Demo.  systemd, the file system and the operator are *)
(* modelled as the scripts use them.                                       *)
(***************************************************************************)
EXTENDS Integers, FiniteSets

CONSTANTS
    Keep,                     \* snapshots that are retained
    Burst,                    \* StartLimitBurst: starts within the interval
    Demo, Torn, Empty,        \* the demo marker, a file half written, a file without a setting
    MaxCommits, MaxStamps, MaxFaults, MaxPowerLosses     \* bounds

ASSUME LimitsAssumption == Keep \in Nat \ {0} /\ Burst \in Nat \ {0}
ASSUME BoundsAssumption ==
    MaxCommits \in Nat /\ MaxStamps \in Nat /\ MaxFaults \in Nat /\ MaxPowerLosses \in Nat
ASSUME MarksAssumption == Demo \notin Nat /\ Torn \notin Nat /\ Empty \notin Nat /\ Torn # Demo

VARIABLES
    files,                    \* databases; 0 is the first one, the others bear the time of a restore
    env,                      \* DATABASE_PATH in app.env
    unsynced,                 \* what the disk may still hold in its stead
    active, run, db, starts,  \* cyberwatch.service: wanted, its process, the open database
    timers, health,           \* the timers, and a health check that has seen the service unhealthy
    snaps,                    \* published snapshots by their time: content, and whether it is on disk
    backup,                   \* the run of backup-daily.py
    restore,                  \* the run of restore-runtime.py
    clock,
    commits, saved,           \* history: commits made, and the last snapshot that was completed
    abandoned,                \* history: a restore was cut off where it has no way to go on
    faults, powerLosses

service == <<active, run, db, starts>>
jobs == <<timers, health>>
setting == <<env, unsynced>>
history == <<commits, saved, abandoned, faults, powerLosses>>
vars == <<files, setting, service, jobs, snaps, backup, restore, clock, history>>

Put(f, k, x) == [j \in DOMAIN f \cup {k} |-> IF j = k THEN x ELSE f[j]]

NoBackup == [at |-> "idle", by |-> "service", source |-> 0, stamp |-> 0, content |-> {}, synced |-> FALSE]
NoRestore == [at |-> "idle", from |-> 0, target |-> 0, original |-> 0]

Init ==
    /\ files = [f \in {0} |-> {}] /\ env = 0 /\ unsynced = {}
    /\ active = "on" /\ run = "up" /\ db = 0 /\ starts = 0
    /\ timers = TRUE /\ health = "idle"
    /\ snaps \in {[s \in {} |-> {}], [s \in {0} |-> [content |-> {Demo}, synced |-> TRUE]]}
    /\ backup = NoBackup /\ restore = NoRestore
    /\ clock = 0
    /\ commits = 0 /\ saved = 0 /\ abandoned = FALSE /\ faults = 0 /\ powerLosses = 0

-----------------------------------------------------------------------------
(* The service *)

\* A refresh commits.
Commit ==
    /\ run # "down"
    /\ commits < MaxCommits
    /\ commits' = commits + 1
    /\ files' = [files EXCEPT ![db] = @ \cup {commits'}]
    /\ UNCHANGED <<setting, service, jobs, snaps, backup, restore, clock, saved, abandoned,
                   faults, powerLosses>>

\* The process stops answering, or ends.
Falter ==
    /\ run = "up"
    /\ faults < MaxFaults
    /\ faults' = faults + 1
    /\ run' \in {"sick", "down"}
    /\ UNCHANGED <<files, setting, active, db, starts, jobs, snaps, backup, restore, clock,
                   commits, saved, abandoned, powerLosses>>

\* Without its settings the process refuses to listen, and a demo database is refused.
Starts == env # Empty /\ (env \in DOMAIN files => Demo \notin files[env])

\* systemd starts the process, and again when it has ended, with what app.env says
\* now, until there were too many starts (start-limit-hit); a database that is not
\* there is created.
Launch ==
    /\ active = "on" /\ run = "down"
    /\ \/ /\ starts < Burst
          /\ starts' = starts + 1
          /\ \/ Starts /\ run' = "up" /\ db' = env
                /\ files' = IF env \in DOMAIN files THEN files ELSE Put(files, env, {})
             \/ ~Starts /\ UNCHANGED <<run, db, files>>
          /\ UNCHANGED active
       \/ /\ starts = Burst
          /\ active' = "failed"
          /\ UNCHANGED <<run, db, starts, files>>
    /\ UNCHANGED <<setting, jobs, snaps, backup, restore, clock, history>>

\* The interval of the start limit has passed.
Calm ==
    /\ starts > 0
    /\ starts' = 0
    /\ UNCHANGED <<files, setting, active, run, db, jobs, snaps, backup, restore, clock, history>>

\* check-health.sh, up to its decision and after it.
HealthCheck ==
    /\ timers /\ health = "idle" /\ run = "sick"
    /\ health' = "restart"
    /\ UNCHANGED <<files, setting, service, timers, snaps, backup, restore, clock, history>>

HealthRestart ==
    /\ health = "restart"
    /\ health' = "idle"
    /\ active' = "on" /\ run' = "down"
    /\ UNCHANGED <<files, setting, db, starts, timers, snaps, backup, restore, clock, history>>

-----------------------------------------------------------------------------
(* backup-daily.py *)

\* By its unit, or by hand.  The lock admits one; without one setting it gives up.
BackupBegin ==
    /\ backup.at = "idle"
    /\ env \in DOMAIN files
    /\ clock < MaxStamps
    /\ clock' = clock + 1
    /\ \E by \in {"service", "script"} :
        backup' = [NoBackup EXCEPT !.at = "copying", !.by = by, !.source = env, !.stamp = clock']
    /\ UNCHANGED <<files, setting, service, jobs, snaps, restore, history>>

BackupGoes(from, to) == backup.at = from /\ backup' = [backup EXCEPT !.at = to]

\* The online copy is of one state of the source, that at its end, and is checked.
BackupCopy ==
    /\ backup.at = "copying"
    /\ backup' = [backup EXCEPT !.at = "copied", !.content = files[backup.source]]
    /\ UNCHANGED <<files, setting, service, jobs, snaps, restore, clock, history>>

BackupSync ==
    /\ backup.at = "copied"
    /\ backup' = [backup EXCEPT !.at = "synced", !.synced = TRUE]
    /\ UNCHANGED <<files, setting, service, jobs, snaps, restore, clock, history>>

\* Variant: published before it is on disk.
BackupLinkUnsynced ==
    /\ BackupGoes("copied", "linked")
    /\ snaps' = Put(snaps, backup.stamp, [content |-> backup.content, synced |-> backup.synced])
    /\ UNCHANGED <<files, setting, service, jobs, restore, clock, history>>

\* os.link gives the temporary file its name.
BackupLink ==
    /\ BackupGoes("synced", "linked")
    /\ snaps' = Put(snaps, backup.stamp, [content |-> backup.content, synced |-> backup.synced])
    /\ UNCHANGED <<files, setting, service, jobs, restore, clock, history>>

\* The directory is on disk too.
BackupPublish ==
    /\ BackupGoes("linked", "prune")
    /\ saved' = backup.stamp
    /\ UNCHANGED <<files, setting, service, jobs, snaps, restore, clock, commits, abandoned,
                   faults, powerLosses>>

Without(s) == [t \in DOMAIN snaps \ {s} |-> snaps[t]]

\* The oldest go, one by one.
Prune ==
    /\ backup.at = "prune"
    /\ \/ /\ Cardinality(DOMAIN snaps) > Keep
          /\ \E s \in DOMAIN snaps : (\A t \in DOMAIN snaps : s <= t) /\ snaps' = Without(s)
          /\ UNCHANGED backup
       \/ /\ Cardinality(DOMAIN snaps) <= Keep
          /\ backup' = NoBackup
          /\ UNCHANGED snaps
    /\ UNCHANGED <<files, setting, service, jobs, restore, clock, history>>

\* The deadline of the copy, a full disk, a signal.
BackupFail ==
    /\ backup.at # "idle"
    /\ faults < MaxFaults
    /\ faults' = faults + 1
    /\ backup' = NoBackup
    /\ UNCHANGED <<files, setting, service, jobs, snaps, restore, clock, commits, saved,
                   abandoned, powerLosses>>

-----------------------------------------------------------------------------
(* restore-runtime.py *)

RestoreGoes(from, to) == restore.at = from /\ restore' = [restore EXCEPT !.at = to]

\* The snapshot is verified, and what app.env says is kept in memory.  Nothing keeps
\* a second restore out, or configure-runtime.py from rewriting app.env: that the
\* operator runs one of them at a time is an assumption of this module.
RestoreBegin ==
    /\ restore.at = "idle"
    /\ env # Empty
    /\ clock < MaxStamps
    /\ clock' = clock + 1
    /\ \E s \in DOMAIN snaps :
        restore' = [at |-> "pause", from |-> s, target |-> clock', original |-> env]
    /\ UNCHANGED <<files, setting, service, jobs, snaps, backup, history>>

PauseTimers ==
    /\ RestoreGoes("pause", "stopJobs")
    /\ timers' = FALSE
    /\ UNCHANGED <<files, setting, service, health, snaps, backup, clock, history>>

\* Variant: a health check that is under way goes on.
StopBackupOnly ==
    /\ RestoreGoes("stopJobs", "stopApp")
    /\ backup' = IF backup.by = "service" THEN NoBackup ELSE backup
    /\ UNCHANGED <<files, setting, service, jobs, snaps, clock, history>>

\* What the timers have started is stopped, but not a backup that runs by hand.
StopJobs ==
    /\ RestoreGoes("stopJobs", "stopApp")
    /\ health' = "idle"
    /\ backup' = IF backup.by = "service" THEN NoBackup ELSE backup
    /\ UNCHANGED <<files, setting, service, timers, snaps, clock, history>>

StopApp ==
    /\ \/ RestoreGoes("stopApp", "copy")
       \/ RestoreGoes("undoStop", "undoTruncate")
    /\ active' = "off" /\ run' = "down"
    /\ UNCHANGED <<files, setting, db, starts, jobs, snaps, backup, clock, history>>

\* Variant: into the database that is in use.
RestoreInPlace ==
    /\ restore.at = "copy"
    /\ \/ /\ restore.from \in DOMAIN snaps
          /\ files' = Put(files, restore.original, snaps[restore.from].content)
          /\ RestoreGoes("copy", "truncate")
       \/ /\ restore.from \notin DOMAIN snaps
          /\ RestoreGoes("copy", "undoStop")
          /\ UNCHANGED files
    /\ UNCHANGED <<setting, service, jobs, snaps, backup, clock, history>>

\* backup.py restore publishes the new file as a backup is published; the snapshot
\* may have been pruned meanwhile.
RestoreCopy ==
    /\ restore.at = "copy"
    /\ \/ /\ restore.from \in DOMAIN snaps
          /\ files' = Put(files, restore.target, snaps[restore.from].content)
          /\ RestoreGoes("copy", "truncate")
       \/ /\ restore.from \notin DOMAIN snaps
          /\ RestoreGoes("copy", "undoStop")
          /\ UNCHANGED files
    /\ UNCHANGED <<setting, service, jobs, snaps, backup, clock, history>>

\* ENV.write_text, of the new setting and of the old one: opened for writing, then
\* written, and never synced.
WriteEnv ==
    /\ \/ RestoreGoes("truncate", "write") /\ env' = Empty
       \/ RestoreGoes("write", "start") /\ env' = restore.target
       \/ RestoreGoes("undoTruncate", "undoWrite") /\ env' = Empty
       \/ RestoreGoes("undoWrite", "undoStart") /\ env' = restore.original
    /\ unsynced' = unsynced \cup {env}
    /\ UNCHANGED <<files, service, jobs, snaps, backup, clock, history>>

\* The kernel writes app.env back in its own time; while the script still writes, that
\* would only leave fewer versions to fall back to.
WriteBack ==
    /\ unsynced # {} /\ restore.at = "idle"
    /\ unsynced' = {}
    /\ UNCHANGED <<files, env, service, jobs, snaps, backup, restore, clock, history>>

\* Variant: the undo leaves the service stopped.
StartNewOnly ==
    /\ \/ RestoreGoes("start", "ready") /\ active' = "on"
       \/ RestoreGoes("undoStart", "resume") /\ UNCHANGED active
    /\ UNCHANGED <<files, setting, run, db, starts, jobs, snaps, backup, clock, history>>

StartApp ==
    /\ \/ RestoreGoes("start", "ready")
       \/ RestoreGoes("undoStart", "resume")
    /\ active' = "on"
    /\ UNCHANGED <<files, setting, run, db, starts, jobs, snaps, backup, clock, history>>

\* ready() polls for 120 seconds.
AwaitReady ==
    /\ \/ run = "up" /\ RestoreGoes("ready", "resume")
       \/ run # "up" /\ RestoreGoes("ready", "undoStop")
    /\ UNCHANGED <<files, setting, service, jobs, snaps, backup, clock, history>>

Resume ==
    /\ restore.at = "resume"
    /\ restore' = NoRestore
    /\ timers' = TRUE
    /\ UNCHANGED <<files, setting, service, health, snaps, backup, clock, history>>

Guarded == {"stopApp", "copy", "truncate", "write", "start", "ready"}
Undoing == {"undoStop", "undoTruncate", "undoWrite", "undoStart"}

\* An exception where the script catches it: a command, or a write of app.env, fails.
RestoreFails ==
    /\ restore.at \in Guarded
    /\ restore' = [restore EXCEPT !.at = "undoStop"]
    /\ faults < MaxFaults
    /\ faults' = faults + 1
    /\ UNCHANGED <<files, setting, service, jobs, snaps, backup, clock, commits, saved,
                   abandoned, powerLosses>>

\* What "except Exception" does not catch, a KeyboardInterrupt or a write that fails
\* during the undo: only the timers are started again, the service is left as it is.
RestoreBreaks ==
    /\ restore.at \in Guarded \cup Undoing
    /\ restore' = [restore EXCEPT !.at = "resume"]
    /\ abandoned' = TRUE
    /\ faults < MaxFaults
    /\ faults' = faults + 1
    /\ UNCHANGED <<files, setting, service, jobs, snaps, backup, clock, commits, saved, powerLosses>>

\* SIGTERM or SIGKILL anywhere, or an exception outside the "try": nothing is put back.
RestoreKilled ==
    /\ restore.at # "idle"
    /\ restore' = NoRestore
    /\ abandoned' = TRUE
    /\ faults < MaxFaults
    /\ faults' = faults + 1
    /\ UNCHANGED <<files, setting, service, jobs, snaps, backup, clock, commits, saved, powerLosses>>

\* The machine stops and boots: the units are enabled, a directory entry that is not
\* on disk may be gone, content that is not is, and app.env may be any of the versions
\* since it was last on disk.
PowerLoss ==
    /\ powerLosses < MaxPowerLosses
    /\ powerLosses' = powerLosses + 1
    /\ active' = "on" /\ run' = "down" /\ starts' = 0
    /\ timers' = TRUE /\ health' = "idle"
    /\ \E gone \in SUBSET (IF backup.at = "linked" THEN {backup.stamp} ELSE {}) :
        snaps' = [s \in DOMAIN snaps \ gone |->
            IF snaps[s].synced THEN snaps[s] ELSE [content |-> {Torn}, synced |-> TRUE]]
    /\ env' \in unsynced \cup {env} /\ unsynced' = {}
    /\ backup' = NoBackup /\ restore' = NoRestore
    /\ UNCHANGED <<files, db, clock, commits, saved, abandoned, faults>>

Backup == BackupBegin \/ BackupCopy \/ BackupSync \/ BackupLink \/ BackupPublish \/ Prune

Restore ==
    \/ PauseTimers \/ StopJobs \/ StopApp \/ RestoreCopy \/ WriteEnv \/ StartApp
    \/ AwaitReady \/ Resume

Next ==
    \/ Commit \/ Falter \/ Launch \/ Calm \/ HealthCheck \/ HealthRestart
    \/ Backup \/ BackupFail
    \/ RestoreBegin \/ Restore \/ RestoreFails \/ RestoreBreaks \/ RestoreKilled
    \/ WriteBack \/ PowerLoss

Spec == Init /\ [][Next]_vars

\* Scripts and units go on; a launch comes before the 120 seconds of ready() are over.
FairSpec == Spec /\ WF_vars(Restore) /\ WF_vars(Launch) /\ WF_vars(HealthCheck \/ HealthRestart)

-----------------------------------------------------------------------------
(* Properties *)

Contents == SUBSET (1..MaxCommits \cup {Demo, Torn})

Snapshots == [content : Contents, synced : BOOLEAN]

BackupRuns ==
    [at : {"idle", "copying", "copied", "synced", "linked", "prune"},
     by : {"service", "script"}, source : DOMAIN files, stamp : 0..MaxStamps,
     content : Contents, synced : BOOLEAN]

RestoreRuns ==
    [at : {"idle", "pause", "stopJobs", "stopApp", "copy", "truncate", "write", "start", "ready",
           "undoStop", "undoTruncate", "undoWrite", "undoStart", "resume"},
     from : 0..MaxStamps, target : 0..MaxStamps, original : DOMAIN files]

\* Every variable in its range: the setting names a database that is there.
TypeOK ==
    /\ files \in [DOMAIN files -> Contents] /\ DOMAIN files \subseteq 0..MaxStamps
    /\ env \in DOMAIN files \cup {Empty} /\ unsynced \subseteq DOMAIN files \cup {Empty}
    /\ active \in {"on", "off", "failed"} /\ run \in {"down", "up", "sick"} /\ db \in DOMAIN files
    /\ starts \in 0..Burst
    /\ timers \in BOOLEAN /\ health \in {"idle", "restart"}
    /\ snaps \in [DOMAIN snaps -> Snapshots] /\ DOMAIN snaps \subseteq 0..MaxStamps
    /\ backup \in BackupRuns /\ restore \in RestoreRuns
    /\ clock \in 0..MaxStamps /\ commits \in 0..MaxCommits /\ saved \in 0..MaxStamps
    /\ abandoned \in BOOLEAN /\ faults \in Nat /\ powerLosses \in Nat

\* What bears the name of a snapshot is a whole database, and the last one that was
\* completed is still there, whatever was pruned, killed or cut off by a power loss
\* since then.
RecoveryPoint ==
    /\ \A s \in DOMAIN snaps : Torn \notin snaps[s].content
    /\ saved # 0 => saved \in DOMAIN snaps

\* No restore, complete, failed or interrupted, costs a commit: each is in one of the
\* databases, and none of them mixes live data with the demonstration.
NothingLost ==
    /\ 1..commits \subseteq UNION {files[f] : f \in DOMAIN files}
    /\ \A f \in DOMAIN files : Demo \in files[f] => files[f] = {Demo}

\* Whenever the service runs, it writes to the database that app.env names, which is
\* the one that backups copy: no health check, timer or failed restore starts it
\* while the setting is being changed, or changes the setting under it.
RunsSelected == run # "down" => db = env

\* A restore, complete or undone, comes to its end, the timers run again, and the
\* service serves the new database or the old one; it stays down only if failing
\* starts have used up what systemd allows.  The exceptions are a power loss, and an
\* interrupt or a failure where the script does not undo what it did: then the timers
\* or the service may stay off until the operator starts them.
ServiceReturns ==
    restore.at # "idle" ~>
        \/ restore.at = "idle" /\ timers /\ (run = "up" \/ active = "failed")
        \/ abandoned \/ powerLosses > 0
=============================================================================

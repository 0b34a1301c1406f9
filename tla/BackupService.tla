--------------------------- MODULE BackupService ---------------------------
(***************************************************************************)
(* rsync snapshots, retention, backup-on-start and restore of one server:  *)
(* app/services/backup_service.py on top of the process control of         *)
(* ServerProcess. A backup calls stop_server, refresh_status and           *)
(* start_server of that module in its own session; any other request may   *)
(* run beside it.                                                          *)
(***************************************************************************)
EXTENDS ServerProcess, FiniteSetsExt

CONSTANTS
    Worlds,       \* consistent contents of the server directory
    Keep,         \* backup_keep_generations
    MaxRow,       \* bound on the primary keys of table backups
    MaxSecond,    \* bound on the clock that names the snapshots
    MaxSuffix     \* bound on the _<n> that tells two names apart

(* Torn: a copy taken while its source changed. Mixed: a server directory  *)
(* that a restore left half-way.                                           *)
Contents == Worlds \cup {"torn", "mixed", "absent"}

(* A snapshot directory is <timestamp> or <timestamp>_<n>.                 *)
Names == (0 .. MaxSecond) \X (0 .. MaxSuffix)

BackupRows == [name : Names, type : {"normal", "pre_restore"},
               status : {"in_progress", "ok", "failed"}]

BackupRequests == {"backup", "gated", "restore", "delete"}

BackupLabels == {"bk_checked", "bk_confirmed", "snap_name", "snap_insert",
                 "snap_begin", "snap_copy", "snap_commit", "snap_failed", "prune",
                 "prune_commit", "bk_finally", "bk_ret",
                 "gate_checked", "rs_checked", "rs_begin", "rs_copy",
                 "rs_commit", "rs_ret", "del_files", "del_row"}

ASSUME BackupAssumption ==
    /\ Worlds \cap {"torn", "mixed", "absent"} = {}
    /\ Keep \in Nat \ {0}
    /\ MaxRow \in Nat \ {0} /\ MaxSecond \in Nat /\ MaxSuffix \in Nat

VARIABLES
    world,    \* what the server directory holds
    disk,     \* what every snapshot directory under BACKUP_DIR holds
    rows,     \* the table backups
    second,   \* the wall clock, as far as the names show it
    job       \* the local variables of every session's backup work

bvars == <<world, disk, rows, second>>

allVars == <<vars, bvars, job>>

(* own, name, type: the row being written; target, source: the backup to   *)
(* restore or delete and its directory; seen, raced: what rsync reads, and *)
(* whether it changed meanwhile; was: was_running; ok: the outcome so far; *)
(* victims: the generations to prune; before: the world that a restore     *)
(* overwrites.                                                             *)
Jobs == [own : 0 .. MaxRow, name : Names, type : {"normal", "pre_restore"},
         target : 0 .. MaxRow, source : Names, seen : Contents, raced : BOOLEAN,
         was : BOOLEAN, ok : BOOLEAN, victims : SUBSET (1 .. MaxRow),
         before : Contents]

NoJob == [own |-> 0, name |-> <<0, 0>>, type |-> "normal", target |-> 0,
          source |-> <<0, 0>>, seen |-> "absent", raced |-> FALSE,
          was |-> FALSE, ok |-> TRUE, victims |-> {}, before |-> "absent"]

BackupTypeOK ==
    /\ db \in Rows
    /\ proc \in [Pids -> ProcStates]
    /\ sess \in [Sessions ->
           [pc : Labels \cup BackupLabels, req : Requests \cup BackupRequests,
            after : Labels \cup BackupLabels, back : Labels,
            res : {"stopped", "running"}, row : Rows \cup {Expired},
            pid : Pids \cup {NoPid}]]
    /\ world \in Worlds \cup {"mixed"}
    /\ disk \in [Names -> Contents]
    /\ DOMAIN rows \subseteq 1 .. MaxRow /\ rows \in [DOMAIN rows -> BackupRows]
    /\ second \in 0 .. MaxSecond
    /\ job \in [Sessions -> Jobs]

BackupInit ==
    /\ Init
    /\ world \in Worlds
    /\ disk = [n \in Names |-> "absent"]
    /\ rows = [i \in {} |-> NoJob]
    /\ second = 0
    /\ job = [s \in Sessions |-> NoJob]

----------------------------------------------------------------------------
(* Helpers                                                                 *)

Step1(s, from, to) == At(s, from) /\ Goto(s, to)

Job(s, field, value) == job' = [job EXCEPT ![s][field] = value]

(* SQLite without AUTOINCREMENT: one more than the largest id in use.      *)
NewId == IF DOMAIN rows = {} THEN 1 ELSE 1 + Max(DOMAIN rows)

OkRows == {i \in DOMAIN rows : rows[i].status = "ok"}

(* _last_successful_snapshot: of any type, still on disk.                  *)
LastSuccessful == {i \in OkRows : disk[rows[i].name] # "absent"}

Normals == {i \in OkRows : rows[i].type = "normal"}

(* Mutant: one generation too many is kept.                                *)
OutdatedOffByOne ==
    {i \in Normals : Cardinality({j \in Normals : j > i}) > Keep}

(* Mutant: retention counts every good snapshot, whatever its type.        *)
OutdatedAnyType == {i \in OkRows : Cardinality({j \in OkRows : j > i}) >= Keep}

(* Ids grow with created_at: normals[keep:], newest first.                 *)
Outdated == {i \in Normals : Cardinality({j \in Normals : j > i}) >= Keep}

Without(ids) == [i \in DOMAIN rows \ ids |-> rows[i]]

Erased(names) == [n \in Names |-> IF n \in names THEN "absent" ELSE disk[n]]

(* A second passes whenever a snapshot has been copied or the unit has been *)
(* down (RestartSec): two names are equal only if they are chosen by two   *)
(* requests at the same time.                                              *)
Later == IF second < MaxSecond THEN second + 1 ELSE second

(* The server directory changes: whoever is copying it, or overwriting it, *)
(* ends up with parts of both.                                             *)
Race(others) ==
    [s \in Sessions |->
        IF s \in others THEN [job[s] EXCEPT !.raced = TRUE] ELSE job[s]]

Copiers == {s \in Sessions : sess[s].pc \in {"snap_copy", "rs_copy"}}

----------------------------------------------------------------------------
(* _perform_snapshot                                                       *)

(* rsync or the server directory is missing; or a name is chosen that no   *)
(* directory has.                                                          *)
SnapshotName(s) ==
    /\ Loaded(s)
    /\ \/ Step1(s, "snap_name", "snap_failed") /\ UNCHANGED job
       \/ \E k \in 0 .. MaxSuffix :
             /\ NewId <= MaxRow /\ second < MaxSecond
             /\ disk[<<second, k>>] = "absent"
             /\ \A j \in 0 .. k - 1 : disk[<<second, j>>] # "absent"
             /\ Step1(s, "snap_name", "snap_insert")
             /\ Job(s, "name", <<second, k>>)
    /\ UNCHANGED <<db, proc, bvars>>

(* Mutant: the row is "ok" from the start, as the zip backups' are.        *)
SnapshotInsertOk(s) ==
    /\ At(s, "snap_insert") /\ NewId <= MaxRow
    /\ rows' = [i \in DOMAIN rows \cup {NewId} |->
                   IF i = NewId
                   THEN [name |-> job[s].name, type |-> job[s].type,
                         status |-> "ok"]
                   ELSE rows[i]]
    /\ Job(s, "own", NewId)
    /\ GotoExpired(s, "snap_begin")
    /\ UNCHANGED <<db, proc, world, disk, second>>

(* Mutant: a status that models.py does not have.                          *)
SnapshotInsertUnknown(s) ==
    /\ At(s, "snap_insert") /\ NewId <= MaxRow
    /\ rows' = [i \in DOMAIN rows \cup {NewId} |->
                   IF i = NewId
                   THEN [name |-> job[s].name, type |-> job[s].type,
                         status |-> "unknown"]
                   ELSE rows[i]]
    /\ Job(s, "own", NewId)
    /\ GotoExpired(s, "snap_begin")
    /\ UNCHANGED <<db, proc, world, disk, second>>

SnapshotInsert(s) ==
    /\ At(s, "snap_insert") /\ NewId <= MaxRow
    /\ rows' = [i \in DOMAIN rows \cup {NewId} |->
                   IF i = NewId
                   THEN [name |-> job[s].name, type |-> job[s].type,
                         status |-> "in_progress"]
                   ELSE rows[i]]
    /\ Job(s, "own", NewId)
    /\ GotoExpired(s, "snap_begin")
    /\ UNCHANGED <<db, proc, world, disk, second>>

(* mkdir(exist_ok=True), the --link-dest query, and rsync starts to read.  *)
SnapshotBegin(s) ==
    /\ Step1(s, "snap_begin", "snap_copy") /\ Loaded(s)
    /\ disk' = [disk EXCEPT ![job[s].name] = IF @ = world THEN @ ELSE "torn"]
    /\ job' = [job EXCEPT ![s] = [@ EXCEPT !.seen = world, !.raced = FALSE]]
    /\ UNCHANGED <<db, proc, world, rows, second>>

CopyEnded(s, ok) ==
    job' = [job EXCEPT ![s] =
               [@ EXCEPT !.ok = ok, !.name = <<0, 0>>, !.seen = "absent",
                         !.raced = FALSE]]

(* rsync ends: a complete copy of what it read, or an error. A directory   *)
(* removed meanwhile is an error.                                          *)
SnapshotCopy(s) ==
    /\ \/ /\ disk[job[s].name] # "absent"
          /\ Step1(s, "snap_copy", "snap_commit")
          /\ disk' = [disk EXCEPT ![job[s].name] =
                          IF job[s].raced THEN "torn" ELSE job[s].seen]
          /\ CopyEnded(s, job[s].ok)
       \/ /\ Step1(s, "snap_copy", "snap_failed")
          /\ CopyEnded(s, FALSE)
          /\ UNCHANGED disk
    /\ second' = Later
    /\ UNCHANGED <<db, proc, world, rows>>

(* Mutant: a restore goes on after its pre-restore snapshot has failed.    *)
SnapshotFailureIgnored(s) ==
    /\ sess[s].pc \in {"snap_commit", "snap_failed"} /\ job[s].own \in DOMAIN rows
    /\ rows' = [rows EXCEPT ![job[s].own].status =
                    IF At(s, "snap_commit") THEN "ok" ELSE "failed"]
    /\ GotoExpired(s, IF job[s].type = "normal" THEN "bk_finally" ELSE "rs_begin")
    /\ UNCHANGED <<db, proc, world, disk, second, job>>

(* The row becomes ok or failed. An UPDATE of a row that is gone raises,   *)
(* and the session is unusable from then on: the request dies.             *)
SnapshotCommit(s) ==
    /\ \/ /\ At(s, "snap_commit") /\ job[s].own \in DOMAIN rows
          /\ rows' = [rows EXCEPT ![job[s].own].status = "ok"]
          /\ GotoExpired(s, IF job[s].type = "normal" THEN "prune" ELSE "rs_begin")
          /\ UNCHANGED job
       \/ /\ At(s, "snap_failed") /\ job[s].own \in DOMAIN rows
          /\ rows' = [rows EXCEPT ![job[s].own].status = "failed"]
          /\ GotoExpired(s, IF job[s].type = "normal" THEN "bk_finally" ELSE "rs_ret")
          /\ UNCHANGED job
       \/ /\ At(s, "snap_failed") /\ job[s].own = 0
          /\ Goto(s, IF job[s].type = "normal" THEN "bk_finally" ELSE "rs_ret")
          /\ Job(s, "ok", FALSE)
          /\ UNCHANGED rows
       \/ /\ sess[s].pc \in {"snap_commit", "snap_failed"}
          /\ job[s].own \notin DOMAIN rows \cup {0}
          /\ sess' = [sess EXCEPT ![s] = IdleSession]
          /\ job' = [job EXCEPT ![s] = NoJob]
          /\ UNCHANGED rows
    /\ UNCHANGED <<db, proc, world, disk, second>>

----------------------------------------------------------------------------
(* _prune_generations                                                      *)

PruneFiles(s) ==
    /\ Step1(s, "prune", "prune_commit") /\ Loaded(s)
    /\ Job(s, "victims", Outdated)
    /\ disk' = Erased({rows[i].name : i \in Outdated})
    /\ UNCHANGED <<db, proc, world, rows, second>>

PruneCommit(s) ==
    /\ At(s, "prune_commit")
    /\ rows' = Without(job[s].victims)
    /\ Job(s, "victims", {})
    /\ GotoExpired(s, "bk_finally")
    /\ UNCHANGED <<db, proc, world, disk, second>>

----------------------------------------------------------------------------
(* backup_now                                                              *)

BackupChecked(s) ==
    /\ At(s, "bk_checked") /\ Loaded(s)
    /\ LET running == sess[s].row.status = "running" IN
       /\ Job(s, "was", running)
       /\ IF running THEN Refresh(s, "stop_checked") ELSE Goto(s, "snap_name")
    /\ UNCHANGED <<db, proc, bvars>>

BackupStopped(s) ==
    /\ At(s, "stop_ret") /\ sess[s].req \in {"backup", "gated"}
    /\ sess' = [sess EXCEPT ![s] =
                   [@ EXCEPT !.pc = "refresh", !.pid = NoPid,
                             !.after = "bk_confirmed", !.back = "idle"]]
    /\ UNCHANGED <<db, proc, bvars, job>>

(* A server that could not be stopped aborts the backup; it is not started *)
(* again either.                                                           *)
BackupConfirmed(s) ==
    /\ At(s, "bk_confirmed") /\ Loaded(s)
    /\ \/ /\ sess[s].row.status = "stopped"
          /\ Goto(s, "snap_name") /\ UNCHANGED job
       \/ /\ sess[s].row.status # "stopped"
          /\ Goto(s, "bk_ret")
          /\ job' = [job EXCEPT ![s] = [@ EXCEPT !.ok = FALSE, !.was = FALSE]]
    /\ UNCHANGED <<db, proc, bvars>>

(* Mutant: the restart belongs to the good case only.                      *)
BackupRestartIfOk(s) ==
    /\ At(s, "bk_finally")
    /\ IF job[s].was /\ job[s].ok THEN Refresh(s, "start_checked") ELSE Goto(s, "bk_ret")
    /\ Job(s, "own", 0)
    /\ UNCHANGED <<db, proc, bvars>>

(* The finally block: a server that had been running is started again.     *)
BackupFinally(s) ==
    /\ At(s, "bk_finally")
    /\ IF job[s].was THEN Refresh(s, "start_checked") ELSE Goto(s, "bk_ret")
    /\ Job(s, "own", 0)
    /\ UNCHANGED <<db, proc, bvars>>

----------------------------------------------------------------------------
(* maybe_backup_on_start and the start after it (action_start)             *)

(* Running, or a recent snapshot: go straight on to start_server.          *)
GateChecked(s) ==
    /\ At(s, "gate_checked") /\ Loaded(s)
    /\ \/ sess[s].row.status = "running" /\ Refresh(s, "start_checked")
       \/ /\ sess[s].row.status # "running" /\ LastSuccessful # {}
          /\ Refresh(s, "start_checked")
       \/ sess[s].row.status # "running" /\ Refresh(s, "bk_checked")
    /\ UNCHANGED <<db, proc, bvars, job>>

(* The backup was good: start_server, once more if the backup started it.  *)
GateStart(s) ==
    /\ sess[s].req = "gated" /\ job[s].ok
    /\ At(s, "bk_ret") \/ (At(s, "start_ret") /\ job[s].was)
    /\ Refresh(s, "start_checked")
    /\ Job(s, "was", FALSE)
    /\ UNCHANGED <<db, proc, bvars>>

----------------------------------------------------------------------------
(* restore_backup                                                          *)

Restorable(i) ==
    i \in DOMAIN rows /\ rows[i].status = "ok" /\ disk[rows[i].name] # "absent"

(* Mutant: the status is not looked at before a restore.                   *)
RestoreUnchecked(s) ==
    /\ At(s, "rs_checked") /\ Loaded(s)
    /\ Goto(s, IF Restorable(job[s].target) THEN "snap_name" ELSE "rs_ret")
    /\ UNCHANGED <<db, proc, bvars, job>>

RestoreChecked(s) ==
    /\ At(s, "rs_checked") /\ Loaded(s)
    /\ IF sess[s].row.status = "stopped" /\ Restorable(job[s].target)
       THEN Goto(s, "snap_name")
       ELSE Goto(s, "rs_ret")
    /\ UNCHANGED <<db, proc, bvars, job>>

(* rsync --delete starts to overwrite the server directory; without its    *)
(* source it fails before it touches anything.                             *)
RestoreBegin(s) ==
    /\ At(s, "rs_begin") /\ Loaded(s)
    /\ \/ LET i == job[s].target IN
          /\ i \in DOMAIN rows /\ disk[rows[i].name] # "absent"
          /\ Goto(s, "rs_copy")
          /\ job' = [Race(Copiers) EXCEPT ![s] =
                        [@ EXCEPT !.source = rows[i].name, !.raced = FALSE,
                                  !.seen = disk[rows[i].name],
                                  !.before = world]]
          /\ world' = "mixed"
       \/ Goto(s, "rs_ret") /\ UNCHANGED <<job, world>>
    /\ UNCHANGED <<db, proc, disk, rows, second>>

(* The revert is complete, or rsync failed half-way: a timeout, or a       *)
(* source that is being removed.                                           *)
RestoreCopy(s) ==
    /\ \/ /\ Step1(s, "rs_copy", "rs_commit")
          /\ disk[job[s].source] = job[s].seen
          /\ world' = IF job[s].raced \/ job[s].seen = "torn" THEN "mixed"
                      ELSE job[s].seen
       \/ Step1(s, "rs_copy", "rs_ret") /\ UNCHANGED world
    /\ job' = Race(Copiers \ {s})
    /\ UNCHANGED <<db, proc, disk, rows, second>>

RestoreCommit(s) ==
    /\ At(s, "rs_commit")
    /\ Flush(s, [status |-> "stopped", pid |-> NoPid])
    /\ GotoExpired(s, "rs_ret")
    /\ UNCHANGED <<proc, bvars, job>>

----------------------------------------------------------------------------
(* delete_backup: the directory first, then the row                        *)

DeleteFiles(s) ==
    /\ At(s, "del_files")
    /\ disk' = Erased({job[s].source})
    /\ Goto(s, "del_row")
    /\ UNCHANGED <<db, proc, world, rows, second, job>>

DeleteRow(s) ==
    /\ At(s, "del_row")
    /\ rows' = Without({job[s].target})
    /\ sess' = [sess EXCEPT ![s] = IdleSession]
    /\ job' = [job EXCEPT ![s] = NoJob]
    /\ UNCHANGED <<db, proc, world, disk, second>>

----------------------------------------------------------------------------
(* Requests                                                                *)

(* backup_run (the daily schedule calls the same backup_now), action_start *)
(* with backup-on-start, backup_restore and backup_delete.                 *)
BackupArrive(s, r, target) ==
    /\ At(s, "idle") /\ r \in Allowed[s]
    /\ Cardinality(Active) < MaxActive
    /\ r \in {"restore", "delete"} => target \in DOMAIN rows
    /\ sess' = [sess EXCEPT ![s] =
           [IdleSession EXCEPT
               !.req = r, !.row = db,
               !.pc = IF r = "delete" THEN "del_files" ELSE "refresh",
               !.after = CASE r = "backup"  -> "bk_checked"
                           [] r = "gated"   -> "gate_checked"
                           [] r = "restore" -> "rs_checked"
                           [] r = "delete"  -> "idle"]]
    /\ job' = [job EXCEPT ![s] =
           [NoJob EXCEPT
               !.type = IF r = "restore" THEN "pre_restore" ELSE "normal",
               !.target = IF r \in {"restore", "delete"} THEN target ELSE 0,
               !.source = IF r = "delete" THEN rows[target].name ELSE @]]
    /\ UNCHANGED <<db, proc, bvars>>

Finished(s) ==
    \/ sess[s].req = "backup" /\ sess[s].pc \in {"bk_ret", "start_ret"}
    \/ sess[s].req = "gated" /\ At(s, "start_ret") /\ ~(job[s].was /\ job[s].ok)
    \/ sess[s].req = "gated" /\ At(s, "bk_ret") /\ ~job[s].ok
    \/ sess[s].req = "restore" /\ At(s, "rs_ret")

BackupAnswer(s) ==
    /\ Finished(s)
    /\ sess' = [sess EXCEPT ![s] = IdleSession]
    /\ job' = [job EXCEPT ![s] = NoJob]
    /\ UNCHANGED <<db, proc, bvars>>

(* A running server writes its world at any time.                          *)
Play ==
    /\ Servers # {}
    /\ world' \in IF world = "mixed" THEN {"mixed"} ELSE Worlds \ {world}
    /\ job' = Race(Copiers)
    /\ UNCHANGED <<db, proc, sess, disk, rows, second>>

(* A step of process control; a session that ends loses its locals.        *)
ProcessStep ==
    /\ Running
    /\ job' = [s \in Sessions |-> IF sess'[s].pc = "idle" THEN NoJob ELSE job[s]]
    /\ UNCHANGED bvars

RestartStep ==
    /\ UnitRestart
    /\ job' = [s \in Sessions |-> NoJob]
    /\ second' = Later
    /\ UNCHANGED <<world, disk, rows>>

BackupStep(s) ==
    \/ SnapshotName(s) \/ SnapshotInsert(s) \/ SnapshotBegin(s)
    \/ SnapshotCopy(s) \/ SnapshotCommit(s)
    \/ PruneFiles(s) \/ PruneCommit(s)
    \/ BackupChecked(s) \/ BackupStopped(s) \/ BackupConfirmed(s)
    \/ BackupFinally(s) \/ GateChecked(s) \/ GateStart(s)
    \/ RestoreChecked(s) \/ RestoreBegin(s) \/ RestoreCopy(s) \/ RestoreCommit(s)
    \/ DeleteFiles(s) \/ DeleteRow(s) \/ BackupAnswer(s)

BackupNext ==
    \/ ProcessStep
    \/ RestartStep
    \/ \E s \in Sessions :
          \/ \E r \in BackupRequests, target \in 1 .. MaxRow : BackupArrive(s, r, target)
          \/ BackupStep(s)
    \/ Play

BackupSpec == BackupInit /\ [][BackupNext]_allVars

----------------------------------------------------------------------------
(* Properties                                                              *)

(* A backup called "ok" is a complete, consistent tree: never one torn by  *)
(* a change underneath rsync or cut short by an error or a restart.        *)
OkMeansWhole == \A i \in OkRows : disk[rows[i].name] # "torn"

(* Every good generation has a directory to itself, so that deleting or    *)
(* pruning one leaves the others restorable.                               *)
OwnDirectory ==
    \A i, j \in OkRows : i # j => rows[i].name # rows[j].name

(* No server runs in the directory that a snapshot is reading ...          *)
QuietSnapshot == \A s \in Sessions : At(s, "snap_copy") => Servers = {}

(* ... or that a restore is overwriting.                                   *)
QuietRestore == \A s \in Sessions : At(s, "rs_copy") => Servers = {}

(* While a restore overwrites the world, the world it overwrites is safe   *)
(* in a good pre-restore snapshot.                                         *)
SafetyNet ==
    \A s \in Sessions : At(s, "rs_copy") =>
        /\ job[s].own \in OkRows
        /\ rows[job[s].own].type = "pre_restore"
        /\ disk[rows[job[s].own].name] = job[s].before

(* After a good backup at most Keep normal generations are left, the new   *)
(* one among them.                                                         *)
Retention ==
    \A s \in Sessions : (At(s, "bk_finally") /\ job[s].ok) =>
        Cardinality(Normals) <= Keep /\ job[s].own \in Normals

(* Unless it was asked to delete one, no request removes a pre-restore     *)
(* snapshot, a failed one, or a directory that such a row names.           *)
OnlyNormalsPruned ==
    [][\A i \in DOMAIN rows :
          (\A s \in Sessions : job[s].target # i \/ sess[s].req # "delete") =>
              (i \in DOMAIN rows' /\ disk'[rows[i].name] = disk[rows[i].name])
                  \/ i \in Normals \/ rows[i].status = "in_progress"]_allVars

(* A backup that stopped a running server is not over before it has called *)
(* start_server again, whether or not the snapshot succeeded.              *)
BackupRestarts ==
    [][\A s \in Sessions :
          (BackupStep(s) /\ job[s].was /\ sess'[s].pc = "idle")
              => At(s, "start_ret")]_allVars

=============================================================================

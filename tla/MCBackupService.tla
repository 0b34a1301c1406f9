-------------------------- MODULE MCBackupService --------------------------
(* Instances of BackupService for TLC.                                     *)
EXTENDS BackupService, TLC

CONSTANTS s1, s2, p1, p2, w1, w2

(* Everything that touches the backups, and Start and Stop beside it.       *)
AllowAll ==
    [s \in Sessions |-> {"start", "stop"} \cup BackupRequests]

(* One session backs up and restores while the other starts the server.    *)
AllowRestoreAndStart ==
    [s \in Sessions |-> IF s = s1 THEN {"backup", "restore"} ELSE {"start"}]

AllowBackupAndStart ==
    [s \in Sessions |-> IF s = s1 THEN {"backup"} ELSE {"start"}]

(* "Back up now" clicked twice.                                            *)
AllowBackup == [s \in Sessions |-> {"backup"}]

(* The backup in progress is deleted.                                      *)
AllowBackupAndDelete ==
    [s \in Sessions |-> IF s = s1 THEN {"backup"} ELSE {"delete"}]

(* One session backs up and restores while the other deletes.            *)
AllowBesideDelete ==
    [s \in Sessions |-> IF s = s1 THEN {"backup", "restore"} ELSE {"delete"}]

Symmetric == Permutations(Pids) \cup Permutations(Worlds)
=============================================================================

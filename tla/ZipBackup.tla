------------------------------ MODULE ZipBackup ------------------------------
(***************************************************************************)
(* Zip backups of a server that may be running: create_backup of           *)
(* app/routers/backups.py and _run_due_backup of the scheduler ask for a   *)
(* save over RCON, then app/services/backup_service.py zips the directory  *)
(* file by file. Composes RconService, whose other callers are the RCON    *)
(* forms of app/routers/servers.py and the stop of a server.               *)
(***************************************************************************)
EXTENDS RconService

CONSTANTS
    Faults,      \* what may go wrong: "disk", "locked", "crash"
    MaxSecond,   \* bound: seconds that go by
    MaxRequests  \* bound: requests in all

ASSUME ZipAssumption == Faults \subseteq {"disk", "locked", "crash"} /\ {MaxSecond, MaxRequests} \subseteq Nat

VARIABLES
    enabled,   \* rcon_enabled of the server's row
    second,    \* now; zip files are named by it
    zips,      \* the zip files of the server
    rows,      \* table backups, committed
    job,       \* what each request is at
    shared,    \* seconds two zips were opened in (history)
    begun      \* number of requests so far

vars == <<rcon_vars, enabled, second, zips, rows, job, shared, begun>>

Seconds == 0 .. MaxSecond

(* entries: which change of each file went into it.                        *)
Zips == [state : {"none", "part", "torn", "whole"},
         entries : UNION {[S -> 0 .. MaxWorld] : S \in SUBSET Files}]
NoZip == [state |-> "none", entries |-> [f \in {} |-> 0]]

(* base: as the request's call left it (history).                          *)
ZipRows == [second : Seconds, base : 0 .. MaxWorld]

Jobs == [step : {"idle", "rcon", "save", "open", "copy"}, second : Seconds,
         todo : SUBSET Files, abort : BOOLEAN]
NoJob == [step |-> "idle", second |-> 0, todo |-> {}, abort |-> FALSE]

TypeOK ==
    /\ RconTypeOK
    /\ enabled \in BOOLEAN /\ second \in Seconds
    /\ zips \in [Seconds -> Zips] /\ rows \subseteq ZipRows
    /\ job \in [Requests -> Jobs]
    /\ shared \subseteq Seconds /\ begun \in 0 .. MaxRequests

Init ==
    /\ RconInit
    /\ enabled \in BOOLEAN /\ second = 0
    /\ zips = [s \in Seconds |-> NoZip] /\ rows = {}
    /\ job = [r \in Requests |-> NoJob]
    /\ shared = {} /\ begun = 0

----------------------------------------------------------------------------
At(r, step) == job[r].step = step
Goto(r, step) == job' = [job EXCEPT ![r].step = step]
Begin == begun < MaxRequests /\ begun' = begun + 1
End(r) == /\ job' = [job EXCEPT ![r] = NoJob]
          /\ call' = [call EXCEPT ![r] = NoCall]

Calling(r, commands) == call' = [call EXCEPT ![r] = CallIn(r, commands)]

ServerAlone == UNCHANGED <<life, endpoint, world, disk, late>>
ZipsAlone == UNCHANGED <<enabled, second, zips, rows, shared>>

(* rcon_test, rcon_command, console_rcon_command, and the first attempt of *)
(* stop_server; a command off the list is refused.                         *)
RconForm(r) ==
    /\ At(r, "idle") /\ Begin /\ Goto(r, "rcon")
    /\ \/ Calling(r, TestConnection)
       \/ \E raw \in Raw : Valid(raw) /\ Calling(r, RunCommand(raw))
       \/ enabled /\ Calling(r, StopViaRcon)
    /\ ServerAlone /\ ZipsAlone

(* rcon_last_status is written and the answer sent.                        *)
RconFormEnd(r) ==
    /\ At(r, "rcon") /\ call[r].step = "answered" /\ End(r)
    /\ ServerAlone /\ ZipsAlone /\ UNCHANGED begun

(* The save is asked for if RCON is on and the process is there.           *)
CreateBackup(r) ==
    /\ At(r, "idle") /\ Begin
    /\ \E abort \in BOOLEAN :
          job' = [job EXCEPT ![r] =
                     [@ EXCEPT !.abort = abort,
                               !.step = IF enabled /\ life # "down" THEN "save" ELSE "open"]]
    /\ IF enabled /\ life # "down" THEN Calling(r, SaveAll) ELSE UNCHANGED call
    /\ ServerAlone /\ ZipsAlone

(* Without the save the backup is given up, or made with a warning; a      *)
(* scheduled one is always made.                                           *)
SaveAnswered(r) ==
    /\ At(r, "save") /\ call[r].step = "answered"
    /\ \/ job[r].abort /\ ~ToldOk(r) /\ End(r)
       \/ (job[r].abort => ToldOk(r)) /\ Goto(r, "open")
          /\ call' = [call EXCEPT ![r] = [NoCall EXCEPT !.base = call[r].base]]
    /\ ServerAlone /\ ZipsAlone /\ UNCHANGED begun

(* The file of this second is created, or emptied.                         *)
OpenZip(r) ==
    /\ At(r, "open")
    /\ job' = [job EXCEPT ![r] = [@ EXCEPT !.step = "copy", !.second = second,
                                           !.todo = Files]]
    /\ LET writing == \E q \in Requests : At(q, "copy") /\ job[q].second = second IN
       zips' = [zips EXCEPT ![second] =
                  [NoZip EXCEPT !.state = IF writing THEN "torn" ELSE "part"]]
    /\ shared' = IF zips[second].state = "none" THEN shared ELSE shared \cup {second}
    /\ ServerAlone /\ UNCHANGED <<call, enabled, second, rows, begun>>

(* The files are read one after the other, as they are at that moment.     *)
CopyFile(r) ==
    /\ At(r, "copy")
    /\ \E f \in job[r].todo :
          /\ job' = [job EXCEPT ![r].todo = @ \ {f}]
          /\ zips' = [zips EXCEPT ![job[r].second].entries =
                        [g \in {f} \cup DOMAIN @ |-> IF g = f THEN disk[f] ELSE @[g]]]
    /\ ServerAlone /\ UNCHANGED <<call, enabled, second, rows, shared, begun>>

(* A file has vanished or the disk is full: the request fails, and the zip *)
(* stays as it is.                                                         *)
CopyFails(r) ==
    /\ "disk" \in Faults /\ At(r, "copy") /\ job[r].todo # {} /\ End(r)
    /\ ServerAlone /\ ZipsAlone /\ UNCHANGED begun

(* The zip is complete; the row follows unless the database is locked.     *)
CloseZip(r) ==
    /\ At(r, "copy") /\ job[r].todo = {} /\ End(r)
    /\ LET zip == job[r].second IN
       /\ zips' = [zips EXCEPT ![zip].state = IF @ = "torn" THEN @ ELSE "whole"]
       /\ \/ rows' = rows \cup {[second |-> zip, base |-> call[r].base]}
          \/ "locked" \in Faults /\ UNCHANGED rows
    /\ ServerAlone /\ UNCHANGED <<enabled, second, shared, begun>>

Tick == /\ second < MaxSecond /\ second' = second + 1
        /\ UNCHANGED <<rcon_vars, enabled, zips, rows, job, shared, begun>>

(* The application dies; what it has sent may still be run.                *)
Crash ==
    /\ "crash" \in Faults /\ \E r \in Requests : ~At(r, "idle")
    /\ late' = late \cup (Lasting \cap {Command(r) : r \in {q \in Requests : call[q].step = "sent"}})
    /\ call' = [r \in Requests |-> NoCall] /\ job' = [r \in Requests |-> NoJob]
    /\ UNCHANGED <<life, endpoint, world, disk, enabled, second, zips, rows, shared, begun>>

Rcon == Game \/ (\E c \in late : ExecuteLate(c)) \/ \E r \in Requests : Exchange(r)

Next ==
    \/ Rcon /\ UNCHANGED <<enabled, second, zips, rows, job, shared, begun>>
    \/ \E r \in Requests : RconForm(r) \/ RconFormEnd(r) \/ CreateBackup(r) \/ SaveAnswered(r)
    \/ \E r \in Requests : OpenZip(r) \/ CopyFile(r) \/ CopyFails(r) \/ CloseZip(r)
    \/ Tick \/ Crash

Spec == Init /\ [][Next]_vars

----------------------------------------------------------------------------
(* Properties                                                              *)

Unshared == {row \in rows : row.second \notin shared}

(* A listed zip has every file, whatever failed or died on the way.        *)
ZipWhole == \A row \in Unshared : zips[row.second].state = "whole"

(* "save-all flush executed." was told: every file the zip took is at      *)
(* least as new as the world that was saved.                               *)
ZipFresh == \A row \in Unshared : \A f \in Files : zips[row.second].entries[f] >= row.base

(* A zip the table lists, and no other backup of the same second has       *)
(* written to, can be restored from: it is complete, and a save the        *)
(* operator was told of is in it, though commands are answered late or     *)
(* never, the server dies or restarts and the disk or the database fails   *)
(* (backups.py:45-70, scheduler_service.py:123-136,                        *)
(* backup_service.py:94-127).                                              *)
ZipSound == ZipWhole /\ ZipFresh

(* Stated by the code's comments, and not kept; see the README.            *)

(* backups.py:45: "so the zip captures a consistent, fully-saved state".   *)
ZipConsistent ==
    \A row \in Unshared : row.base > 0 =>
        \A f, g \in Files : zips[row.second].entries[f] = zips[row.second].entries[g]

(* rcon_service.py:237: "Sent 'stop'; the server is shutting down."        *)
StopTold ==
    \A r \in Requests :
        (At(r, "rcon") /\ call[r].step = "answered" /\ Command(r) = "stop" /\ ToldOk(r))
            => life \in {"closing", "down"}

(* backup_service.py:70: each backup is <name>/<timestamp>.zip of its own. *)
ZipsApart == \A row \in rows : zips[row.second].state = "whole"
=============================================================================

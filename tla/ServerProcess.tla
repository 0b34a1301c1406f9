--------------------------- MODULE ServerProcess ---------------------------
(***************************************************************************)
(* The life cycle of one Minecraft server process, as app/services/        *)
(* server_process.py drives it from the request handlers of app/routers.   *)
(*                                                                         *)
(* Every request runs in a thread of its own with a SQLAlchemy session of  *)
(* its own and there is no lock, so a request is a sequence of atomic      *)
(* steps: it reads the server's row once, works from that cached copy      *)
(* until a commit expires it, looks at the operating system's processes,   *)
(* and writes back only the columns it changed.                            *)
(***************************************************************************)
EXTENDS Naturals, FiniteSets

CONSTANTS
    Sessions,   \* request threads, each with its own database session
    Pids,       \* process ids the operating system hands out
    NoPid,      \* the NULL of servers.pid
    Expired,    \* a cached row that the next attribute access reloads
    Allowed,    \* Allowed[s]: the requests session s may carry
    MaxActive,  \* how many requests are served at the same time
    Faults,     \* which of "crash", "unit_restart", "locked" may happen
    Recycled    \* what a freed pid may become: "other", "private"

Requests == {"view", "poll", "start", "stop", "kill", "restart"}

Rows == [status : {"stopped", "running"}, pid : Pids \cup {NoPid}]

ProcStates == {"free", "server", "zombie", "other", "private"}

Labels == {"idle", "persist", "refresh", "mark_running", "clear_row",
           "view_ret", "start_checked", "spawn", "record_pid", "start_ret",
           "stop_checked", "rcon", "rcon_wait", "stdin", "stdin_wait",
           "sigterm", "sigterm_wait", "stop_ret",
           "kill_checked", "sigkill", "sigkill_wait", "kill_ret",
           "mark_stopped", "restart_checked", "restart_confirmed",
           "restart_ret"}

ASSUME ConstantsAssumption ==
    /\ NoPid \notin Pids
    /\ Expired \notin Rows
    /\ IsFiniteSet(Sessions)
    /\ DOMAIN Allowed = Sessions
    /\ MaxActive \in Nat
    /\ Faults \subseteq {"crash", "unit_restart", "locked"}
    /\ Recycled \subseteq {"other", "private"}

VARIABLES
    db,     \* the committed row: columns status and pid of table servers
    proc,   \* the process table; "server" is a process in server_path
    sess    \* the state of every session

vars == <<db, proc, sess>>

(* One session: the next step (pc), the request, the step after the        *)
(* current refresh_status (after) and what that refresh returned (res),    *)
(* the step after the current stop or kill (back), the cached row and the  *)
(* local variable pid (stop, kill) or proc.pid (start).                    *)
SessionStates ==
    [pc : Labels, req : Requests, after : Labels, back : Labels,
     res : {"stopped", "running"}, row : Rows \cup {Expired},
     pid : Pids \cup {NoPid}]

IdleSession ==
    [pc |-> "idle", req |-> "view", after |-> "idle", back |-> "idle",
     res |-> "stopped", row |-> Expired, pid |-> NoPid]

TypeOK ==
    /\ db \in Rows
    /\ proc \in [Pids -> ProcStates]
    /\ sess \in [Sessions -> SessionStates]

(* A server that was never started, or one an earlier run of the           *)
(* application launched and recorded: it outlives the application.         *)
Init ==
    /\ sess = [s \in Sessions |-> IdleSession]
    /\ \/ /\ db = [status |-> "stopped", pid |-> NoPid]
          /\ proc = [p \in Pids |-> "free"]
       \/ \E p \in Pids :
             /\ db = [status |-> "running", pid |-> p]
             /\ proc = [q \in Pids |-> IF q = p THEN "server" ELSE "free"]

----------------------------------------------------------------------------
(* Helpers                                                                 *)

Active == {s \in Sessions : sess[s].pc # "idle"}

(* _process_is_minecraft: alive, not a zombie, working directory equal to  *)
(* server_path; a process whose directory may not be read passes too.      *)
LooksOurs(p) == p \in Pids /\ proc[p] \in {"server", "private"}

Loaded(s) == sess[s].row # Expired

At(s, label) == sess[s].pc = label

Goto(s, label) == sess' = [sess EXCEPT ![s].pc = label]

(* A commit ends the transaction: every cached row of the session expires. *)
GotoExpired(s, label) ==
    sess' = [sess EXCEPT ![s] = [@ EXCEPT !.pc = label, !.row = Expired]]

(* Call refresh_status and continue at label.                              *)
Refresh(s, label) ==
    sess' = [sess EXCEPT ![s] = [@ EXCEPT !.pc = "refresh", !.after = label]]

(* UPDATE names only the columns that differ from the cached row.          *)
Flush(s, new) ==
    LET old == sess[s].row IN
    db' = [status |-> IF new.status # old.status THEN new.status ELSE db.status,
           pid    |-> IF new.pid # old.pid THEN new.pid ELSE db.pid]

----------------------------------------------------------------------------
(* Requests                                                                *)

(* A handler of app/routers looks the row up and calls the service. "view" *)
(* is any page that refreshes, "poll" the console's status poll; "start"   *)
(* is action_start with backup_on_start switched off.                      *)
Entry == [view |-> "view_ret", start |-> "start_checked",
          stop |-> "stop_checked", kill |-> "kill_checked",
          restart |-> "restart_checked"]

Arrive(s, r) ==
    /\ At(s, "idle")
    /\ r \in Allowed[s]
    /\ Cardinality(Active) < MaxActive
    /\ sess' = [sess EXCEPT ![s] =
           [IdleSession EXCEPT
               !.req = r, !.row = db,
               !.pc = IF r = "poll" THEN "persist" ELSE "refresh",
               !.after = IF r = "poll" THEN "view_ret" ELSE Entry[r]]]
    /\ UNCHANGED <<db, proc>>

(* Mutant: the poll writes its whole cached row back, not the changed      *)
(* columns alone.                                                          *)
PersistWholeRow(s) ==
    /\ At(s, "persist") /\ Loaded(s)
    /\ db' = sess[s].row
    /\ GotoExpired(s, "refresh")
    /\ UNCHANGED proc

(* console_status commits a changed last_runtime_status before it          *)
(* refreshes; an unchanged one leaves the cached row alone.                *)
Persist(s) ==
    /\ At(s, "persist") /\ Loaded(s)
    /\ GotoExpired(s, "refresh") \/ Goto(s, "refresh")
    /\ UNCHANGED <<db, proc>>

(* The request is answered and its session closed.                         *)
Final == [view |-> {"view_ret"}, poll |-> {"view_ret"},
          start |-> {"start_ret"}, stop |-> {"stop_ret"}, kill |-> {"kill_ret"},
          restart |-> {"start_ret", "restart_ret"}]

Answer(s) ==
    /\ sess[s].req \in DOMAIN Final /\ sess[s].pc \in Final[sess[s].req]
    /\ sess' = [sess EXCEPT ![s] = IdleSession]
    /\ UNCHANGED <<db, proc>>

(* The first attribute access after a commit reloads the whole row.        *)
Load(s) ==
    /\ ~At(s, "idle") /\ ~Loaded(s)
    /\ sess' = [sess EXCEPT ![s].row = db]
    /\ UNCHANGED <<db, proc>>

----------------------------------------------------------------------------
(* refresh_status                                                          *)

RefreshDone(s, status) ==
    sess' = [sess EXCEPT ![s] =
                [@ EXCEPT !.pc = sess[s].after, !.after = "idle",
                          !.res = status]]

RefreshDoneExpired(s, status) ==
    sess' = [sess EXCEPT ![s] =
                [@ EXCEPT !.pc = sess[s].after, !.after = "idle",
                          !.res = status, !.row = Expired]]

(* The row in hand is compared with the process table ...                  *)
RefreshCheck(s) ==
    /\ At(s, "refresh") /\ Loaded(s)
    /\ LET r == sess[s].row IN
       \/ LooksOurs(r.pid) /\ r.status = "running" /\ RefreshDone(s, "running")
       \/ LooksOurs(r.pid) /\ r.status # "running" /\ Goto(s, "mark_running")
       \/ /\ ~LooksOurs(r.pid) /\ r.status = "stopped" /\ r.pid = NoPid
          /\ RefreshDone(s, "stopped")
       \/ /\ ~LooksOurs(r.pid) /\ (r.status # "stopped" \/ r.pid # NoPid)
          /\ Goto(s, "clear_row")
    /\ UNCHANGED <<db, proc>>

(* ... and the correction is committed later.                              *)
MarkRunning(s) ==
    /\ At(s, "mark_running")
    /\ Flush(s, [sess[s].row EXCEPT !.status = "running"])
    /\ RefreshDoneExpired(s, "running")
    /\ UNCHANGED proc

(* Mutant: the status is corrected and the stale pid left behind.          *)
ClearStatusOnly(s) ==
    /\ At(s, "clear_row")
    /\ Flush(s, [sess[s].row EXCEPT !.status = "stopped"])
    /\ RefreshDoneExpired(s, "stopped")
    /\ UNCHANGED proc

(* Mutant: a vanished process leaves the status "unknown" of models.py.    *)
ClearToUnknown(s) ==
    /\ At(s, "clear_row")
    /\ Flush(s, [status |-> "unknown", pid |-> NoPid])
    /\ RefreshDoneExpired(s, "stopped")
    /\ UNCHANGED proc

ClearRow(s) ==
    /\ At(s, "clear_row")
    /\ Flush(s, [status |-> "stopped", pid |-> NoPid])
    /\ RefreshDoneExpired(s, "stopped")
    /\ UNCHANGED proc

----------------------------------------------------------------------------
(* start_server                                                            *)

(* Mutant: the answer of refresh_status is not looked at.                  *)
StartUnchecked(s) ==
    /\ At(s, "start_checked") /\ Loaded(s)
    /\ Goto(s, "spawn")
    /\ UNCHANGED <<db, proc>>

(* "already running", or the checks before the launch: a missing directory *)
(* or jar commits last_start_error and raises.                             *)
StartChecked(s) ==
    /\ At(s, "start_checked") /\ Loaded(s)
    /\ \/ sess[s].res = "running" /\ Goto(s, "start_ret")
       \/ sess[s].res = "stopped" /\ GotoExpired(s, "start_ret")
       \/ sess[s].res = "stopped" /\ Goto(s, "spawn")
    /\ UNCHANGED <<db, proc>>

(* subprocess.Popen detaches the child; it may raise OSError.              *)
Spawn(s) ==
    /\ At(s, "spawn")
    /\ \/ \E p \in Pids :
             /\ proc[p] = "free"
             /\ proc' = [proc EXCEPT ![p] = "server"]
             /\ sess' = [sess EXCEPT ![s] =
                            [@ EXCEPT !.pc = "record_pid", !.pid = p]]
       \/ Goto(s, "start_ret") /\ UNCHANGED proc
    /\ UNCHANGED db

RecordPid(s) ==
    /\ At(s, "record_pid")
    /\ Flush(s, [status |-> "running", pid |-> sess[s].pid])
    /\ sess' = [sess EXCEPT ![s] =
                   [@ EXCEPT !.pc = "start_ret", !.row = Expired,
                             !.pid = NoPid]]
    /\ UNCHANGED proc

----------------------------------------------------------------------------
(* stop_server: RCON, then stdin, then SIGTERM; never SIGKILL              *)

StopChecked(s) ==
    /\ At(s, "stop_checked") /\ Loaded(s)
    /\ \/ sess[s].res = "stopped" /\ Goto(s, "stop_ret")
       \/ /\ sess[s].res = "running"
          /\ sess' = [sess EXCEPT ![s] =
                         [@ EXCEPT !.pc = "rcon", !.back = "stop_ret",
                                   !.pid = sess[s].row.pid]]
    /\ UNCHANGED <<db, proc>>

(* Disabled; or tried, its outcome committed in rcon_last_status.          *)
StopViaRcon(s) ==
    /\ At(s, "rcon")
    /\ \/ Goto(s, "stdin")
       \/ \E next \in {"stdin", "rcon_wait"} : GotoExpired(s, next)
    /\ UNCHANGED <<db, proc>>

(* Only a process that reads the FIFO lets "stop" be written.              *)
StopViaStdin(s) ==
    /\ At(s, "stdin") /\ Loaded(s)
    /\ \/ (\E p \in Pids : proc[p] = "server") /\ Goto(s, "stdin_wait")
       \/ Goto(s, "sigterm")
    /\ UNCHANGED <<db, proc>>

(* Mutant: the row is marked as soon as SIGTERM is sent.                   *)
SigtermWithoutWait(s) ==
    /\ At(s, "sigterm")
    /\ Goto(s, "mark_stopped")
    /\ UNCHANGED <<db, proc>>

(* os.kill: no such process marks the row; another user's process refuses  *)
(* the signal, which is the end of the attempt; a NULL pid is a TypeError. *)
StopViaSigterm(s) ==
    LET p == sess[s].pid IN
    /\ At(s, "sigterm")
    /\ \/ p \in Pids /\ proc[p] = "free" /\ Goto(s, "mark_stopped")
       \/ p \in Pids /\ proc[p] = "private" /\ GotoExpired(s, "stop_ret")
       \/ /\ p \in Pids /\ proc[p] \in {"server", "zombie", "other"}
          /\ Goto(s, "sigterm_wait")
       \/ p = NoPid /\ sess' = [sess EXCEPT ![s] = IdleSession]
    /\ UNCHANGED <<db, proc>>

----------------------------------------------------------------------------
(* kill_server                                                             *)
KillChecked(s) ==
    /\ At(s, "kill_checked") /\ Loaded(s)
    /\ \/ sess[s].res = "stopped" /\ Goto(s, "kill_ret")
       \/ /\ sess[s].res = "running"
          /\ sess' = [sess EXCEPT ![s] =
                         [@ EXCEPT !.pc = "sigkill", !.back = "kill_ret",
                                   !.pid = sess[s].row.pid]]
    /\ UNCHANGED <<db, proc>>

(* Mutant: SIGKILL is taken to work at once.                               *)
SigkillWithoutWait(s) ==
    /\ At(s, "sigkill")
    /\ Goto(s, "mark_stopped")
    /\ UNCHANGED <<db, proc>>

KillViaSigkill(s) ==
    LET p == sess[s].pid IN
    /\ At(s, "sigkill")
    /\ \/ p \in Pids /\ proc[p] = "free" /\ Goto(s, "mark_stopped")
       \/ p \in Pids /\ proc[p] = "private" /\ Goto(s, "kill_ret")
       \/ /\ p \in Pids /\ proc[p] \in {"server", "zombie", "other"}
          /\ Goto(s, "sigkill_wait")
       \/ p = NoPid /\ sess' = [sess EXCEPT ![s] = IdleSession]
    /\ UNCHANGED <<db, proc>>

(* _wait_for_exit polls until the pid is no longer ours, else times out:   *)
(* the next rung of the ladder, or a failure that is recorded.             *)
NextRung == [rcon_wait |-> "stdin", stdin_wait |-> "sigterm"]

(* Mutant: a timeout counts as an exit.                                    *)
TimeoutIsExit(s) ==
    /\ sess[s].pc \in {"rcon_wait", "stdin_wait", "sigterm_wait", "sigkill_wait"}
    /\ Loaded(s)
    /\ Goto(s, "mark_stopped")
    /\ UNCHANGED <<db, proc>>

WaitForExit(s) ==
    /\ sess[s].pc \in {"rcon_wait", "stdin_wait", "sigterm_wait", "sigkill_wait"}
    /\ Loaded(s)
    /\ \/ ~LooksOurs(sess[s].pid) /\ Goto(s, "mark_stopped")
       \/ /\ LooksOurs(sess[s].pid) /\ sess[s].pc \in DOMAIN NextRung
          /\ Goto(s, NextRung[sess[s].pc])
       \/ /\ LooksOurs(sess[s].pid) /\ sess[s].pc \notin DOMAIN NextRung
          /\ GotoExpired(s, sess[s].back)
    /\ UNCHANGED <<db, proc>>

(* _mark_stopped writes the row without looking at it again.               *)
MarkStopped(s) ==
    /\ At(s, "mark_stopped")
    /\ Flush(s, [status |-> "stopped", pid |-> NoPid])
    /\ GotoExpired(s, sess[s].back)
    /\ UNCHANGED proc

----------------------------------------------------------------------------
(* restart_server                                                          *)

RestartChecked(s) ==
    /\ At(s, "restart_checked")
    /\ \/ sess[s].res = "stopped" /\ Refresh(s, "start_checked")
       \/ sess[s].res = "running" /\ Refresh(s, "stop_checked")
    /\ UNCHANGED <<db, proc>>

RestartConfirm(s) ==
    /\ At(s, "stop_ret") /\ sess[s].req = "restart"
    /\ sess' = [sess EXCEPT ![s] =
                   [@ EXCEPT !.pc = "refresh", !.pid = NoPid,
                             !.after = "restart_confirmed", !.back = "idle"]]
    /\ UNCHANGED <<db, proc>>

RestartConfirmed(s) ==
    /\ At(s, "restart_confirmed")
    /\ \/ sess[s].res = "stopped" /\ Refresh(s, "start_checked")
       \/ sess[s].res = "running" /\ Goto(s, "restart_ret")
    /\ UNCHANGED <<db, proc>>

----------------------------------------------------------------------------
(* Faults and the operating system                                         *)

(* "database is locked": the commit raises, the request ends with an error *)
(* and nothing of it is written.                                           *)
Locked(s) ==
    /\ "locked" \in Faults
    /\ sess[s].pc \in {"persist", "mark_running", "clear_row", "record_pid",
                       "rcon", "mark_stopped"}
    /\ sess' = [sess EXCEPT ![s] = IdleSession]
    /\ UNCHANGED <<db, proc>>

(* The application alone dies and is started again: the children, in a     *)
(* session of their own, live on.                                          *)
Crash ==
    /\ "crash" \in Faults
    /\ Active # {}
    /\ sess' = [s \in Sessions |-> IdleSession]
    /\ UNCHANGED <<db, proc>>

(* systemd stops or restarts the unit, by hand or on failure. The unit sets *)
(* no KillMode, so every process of its control group is killed, and the   *)
(* servers are in that group whatever session they lead.                   *)
UnitRestart ==
    /\ "unit_restart" \in Faults
    /\ sess' = [s \in Sessions |-> IdleSession]
    /\ proc' = [p \in Pids |-> IF proc[p] \in {"server", "zombie"} THEN "free"
                               ELSE proc[p]]
    /\ UNCHANGED db

(* A server exits: stopped, killed or crashed. It is a zombie until it is  *)
(* reaped, and its pid is free for anyone afterwards.                      *)
Exit(p) == proc[p] = "server" /\ proc' = [proc EXCEPT ![p] = "zombie"]

Reap(p) == proc[p] = "zombie" /\ proc' = [proc EXCEPT ![p] = "free"]

Recycle(p) ==
    \/ \E k \in Recycled : proc[p] = "free" /\ proc' = [proc EXCEPT ![p] = k]
    \/ proc[p] \in {"other", "private"} /\ proc' = [proc EXCEPT ![p] = "free"]

System == \E p \in Pids : (Exit(p) \/ Reap(p) \/ Recycle(p)) /\ UNCHANGED <<db, sess>>

----------------------------------------------------------------------------
Step(s) ==
    \/ Persist(s) \/ Answer(s) \/ Load(s)
    \/ RefreshCheck(s) \/ MarkRunning(s) \/ ClearRow(s)
    \/ StartChecked(s) \/ Spawn(s) \/ RecordPid(s)
    \/ StopChecked(s) \/ StopViaRcon(s) \/ StopViaStdin(s) \/ StopViaSigterm(s)
    \/ KillChecked(s) \/ KillViaSigkill(s)
    \/ WaitForExit(s) \/ MarkStopped(s)
    \/ RestartChecked(s) \/ RestartConfirm(s) \/ RestartConfirmed(s)

(* What happens while one application process runs, and for a crash of it. *)
Running ==
    \/ \E s \in Sessions : \/ \E r \in Requests : Arrive(s, r)
                           \/ Step(s)
                           \/ Locked(s)
    \/ Crash
    \/ System

Next == Running \/ UnitRestart

Spec == Init /\ [][Next]_vars

(* Threads run and timeouts expire, so a request that was accepted takes   *)
(* its next step; an open console page polls again and again.              *)
Fairness == \A s \in Sessions :
    /\ WF_vars(Step(s))
    /\ WF_vars(Arrive(s, "poll"))

FairSpec == Spec /\ Fairness

----------------------------------------------------------------------------
(* Properties                                                              *)

Servers == {p \in Pids : proc[p] = "server"}

(* No server runs that the row does not name, but for the moment between   *)
(* Popen and the commit that records its pid: every live server can be     *)
(* stopped from the UI.                                                    *)
NoOrphan ==
    \A p \in Servers :
        \/ db.pid = p
        \/ \E s \in Sessions : At(s, "record_pid") /\ sess[s].pid = p

(* Two servers never run in one server directory.                          *)
AtMostOneServer == \A p, q \in Servers : p = q

(* A row that says "stopped" is true: no server process is running, apart  *)
(* from one that is being recorded.                                        *)
StoppedMeansDead ==
    db.status = "stopped" =>
        \A p \in Servers : \E s \in Sessions : At(s, "record_pid") /\ sess[s].pid = p

(* The two columns agree: a row names a pid exactly when it is "running".  *)
RowConsistent == db.status = "running" <=> db.pid # NoPid

(* Overlapping refreshes, stops and kills never bring a row back: once one *)
(* of them committed "stopped", no other turns it "running" again.         *)
NeverResurrected == [][db.status = "stopped" => db'.status = "stopped"]_vars

(* A refresh that answers "running" has seen a server, not whatever else   *)
(* the operating system has given the recorded pid to.                     *)
NotARecycledPid ==
    [][\A s \in Sessions :
        (At(s, "refresh") /\ sess'[s].pc = sess[s].after /\ sess'[s].res = "running")
            => proc[sess[s].row.pid] = "server"]_vars

(* While an open console polls, a row does not name a dead server forever: *)
(* the pid of an exited process is cleared, or is alive again.             *)
DeadPidCleared ==
    \A p \in Pids :
        (db.pid = p /\ ~LooksOurs(p)) ~> (db.pid # p \/ LooksOurs(p))

(* A restart of the application takes no server down with it.              *)
ServersOutliveTheApp == [][UnitRestart => Servers' = Servers]_vars

(* Served one at a time, the requests keep the promise of process control: *)
(* no launch beside a live or recorded server, no record dropped before    *)
(* its process is gone.                                                    *)
Recording == {s \in Sessions : At(s, "record_pid")}

Launched == IF Recording = {} THEN NoPid
            ELSE sess[CHOOSE s \in Recording : TRUE].pid

Lifecycle == INSTANCE ServerLifecycle WITH
    alive <- Servers, recorded <- db.pid, launched <- Launched

LifecycleSpec == Lifecycle!Spec

=============================================================================

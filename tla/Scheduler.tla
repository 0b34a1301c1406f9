----------------------------- MODULE Scheduler -----------------------------
(***************************************************************************)
(* The backup scheduler: the daemon thread of                              *)
(* app/services/scheduler_service.py, the due rules of the zip schedules   *)
(* (table backup_schedules) and of the daily snapshots (columns of table   *)
(* servers), beside an administrator who edits both and takes snapshots.   *)
(*                                                                         *)
(* Time is counted in minutes, the precision of the due rules. Waking up   *)
(* and looking at the schedules takes no time; a backup takes any.         *)
(***************************************************************************)
EXTENDS Naturals, FiniteSets

CONSTANTS
    Servers,      \* the registered servers
    Day,          \* minutes in a day
    Dedup,        \* BACKUP_DAILY_DEDUP_HOURS, in minutes
    Plans,        \* what save_schedule stores: enabled, type and minute(s)
    Dailies,      \* what backup_settings stores: enabled and backup_time
    Faults,       \* "failed", "locked", "crash" and "drift" (see below)
    MaxTime,      \* bound on the clock
    MaxEdits,     \* bound on the edits of settings
    MaxLost       \* bound on crashes and on outcomes that cannot be stored

(* Time 0 is a midnight; the first day of the model begins at Day, so that *)
(* each of its instants is later than "never".                             *)
Never == 0
Times == Day .. MaxTime

(* A stored time is a minute of the day and whether it has a leading zero, *)
(* as in "04:00": save_schedule and backup_settings also accept "4:00".    *)
PlanRecords == [enabled : BOOLEAN, type : {"daily", "interval"}, minute : 0 .. Day]
DailyRecords == [enabled : BOOLEAN, minute : 0 .. Day - 1, padded : BOOLEAN]

ASSUME SchedulerAssumption ==
    /\ IsFiniteSet(Servers)
    /\ Day \in Nat \ {0} /\ Dedup \in 1 .. Day
    /\ Plans \subseteq PlanRecords /\ Dailies \subseteq DailyRecords
    /\ \A p \in Plans : IF p.type = "daily" THEN p.minute < Day ELSE p.minute > 0
    /\ Faults \subseteq {"failed", "locked", "crash", "drift"}
    /\ MaxTime \in Nat /\ MaxTime >= Day /\ MaxEdits \in Nat /\ MaxLost \in Nat

VARIABLES
    clock,    \* the wall clock, in minutes
    plan,     \* backup_schedules: one row a server
    last,     \* BackupSchedule.last_run_at
    daily,    \* Server.backup_enabled and backup_time
    snap,     \* created_at of the last good snapshot, of any type
    tick,     \* the scheduler thread
    made,     \* history: the last instant that a zip backup was made for
    taken,    \* history: created_at of the last good daily snapshot
    looked,   \* history: the last tick that snapshot a server, or tried to
    since,    \* history: when the settings of a server last changed
    edits,    \* counts the edits
    lost      \* counts crashes and outcomes that could not be stored

vars == <<clock, plan, last, daily, snap, tick, made, taken, looked, since, edits, lost>>

records == <<plan, last, daily, snap>>
history == <<made, taken, looked, since, edits, lost>>

(* now: the instant captured at the start of the tick. plans, dailies: the *)
(* rows as the session has them, until a commit expires them. wake: when   *)
(* the sleep is over. due: the instant at which cur was due.               *)
Expired == [s \in {} |-> {}]
Asleep(at) == [pc |-> "sleep", now |-> Never, todo |-> {}, plans |-> Expired,
               dailies |-> Expired, due |-> Never, wake |-> at, cur |-> {}]

Working == {"zip_work", "snap_work"}

TypeOK ==
    /\ clock \in Times
    /\ plan \in [Servers -> Plans] /\ daily \in [Servers -> Dailies]
    /\ last \in [Servers -> Times \cup {Never}]
    /\ snap \in [Servers -> Times \cup {Never}]
    /\ tick \in [pc : {"down", "sleep", "zips", "zip_commit", "zip_except", "snaps"}
                          \cup Working,
                 now : Times \cup {Never}, todo : SUBSET Servers,
                 plans : [Servers -> Plans] \cup {Expired},
                 dailies : [Servers -> Dailies] \cup {Expired},
                 due : Times \cup {Never}, wake : 0 .. MaxTime + 2,
                 cur : {{}} \cup {{s} : s \in Servers}]
    /\ made \in [Servers -> Times \cup {Never}]
    /\ taken \in [Servers -> Times \cup {Never}]
    /\ looked \in [Servers -> Times \cup {Never}] /\ since \in [Servers -> Times]
    /\ edits \in 0 .. MaxEdits /\ lost \in 0 .. MaxLost
    \* who is working on what
    /\ tick.pc \in Working \cup {"zip_commit", "zip_except"} <=> tick.cur # {}
    /\ tick.pc \in {"down", "sleep"} => tick.todo = {}

Init ==
    /\ clock = Day
    /\ plan \in [Servers -> Plans] /\ daily \in [Servers -> Dailies]
    /\ last = [s \in Servers |-> Never] /\ snap = [s \in Servers |-> Never]
    /\ tick = Asleep(clock)
    /\ made = last /\ taken = last /\ looked = last
    /\ since = [s \in Servers |-> clock]
    /\ edits = 0 /\ lost = 0

----------------------------------------------------------------------------
(* _is_due                                                                 *)

(* now.replace(hour, minute).                                               *)
ScheduledToday(p, now) == (now \div Day) * Day + p.minute

Instant(p, now) == IF p.type = "daily" THEN ScheduledToday(p, now) ELSE now

(* Mutant: a run at the scheduled minute itself does not count.            *)
IsDueAgain(p, ran, now) ==
    /\ p.enabled
    /\ \/ p.type = "interval" /\ (ran = Never \/ now - ran >= p.minute)
       \/ /\ p.type = "daily" /\ now >= ScheduledToday(p, now)
          /\ ran <= ScheduledToday(p, now)

(* "Never ran" is before every instant.                                    *)
IsDue(p, ran, now) ==
    /\ p.enabled
    /\ \/ p.type = "interval" /\ (ran = Never \/ now - ran >= p.minute)
       \/ /\ p.type = "daily" /\ now >= ScheduledToday(p, now)
          /\ ran = Never \/ ran < ScheduledToday(p, now)

PlanSeen(s) == IF s \in DOMAIN tick.plans THEN tick.plans[s] ELSE plan[s]
DailySeen(s) == IF s \in DOMAIN tick.dailies THEN tick.dailies[s] ELSE daily[s]

----------------------------------------------------------------------------
(* The loop: sleep, then a pass over the zip schedules, then one over the  *)
(* daily snapshots                                                         *)

StartScheduler ==
    /\ tick.pc = "down"
    /\ tick' = Asleep(clock)
    /\ UNCHANGED <<clock, records, history>>

TickStart ==
    /\ tick.pc = "sleep" /\ clock >= tick.wake
    /\ tick' = [tick EXCEPT !.pc = "zips", !.now = clock, !.plans = plan,
                            !.todo = {s \in Servers : plan[s].enabled}]
    /\ UNCHANGED <<clock, records, history>>

NotDue(s) ==
    /\ tick.pc = "zips" /\ s \in tick.todo
    /\ ~IsDue(PlanSeen(s), last[s], tick.now)
    /\ tick' = [tick EXCEPT !.todo = @ \ {s}]
    /\ UNCHANGED <<clock, records, history>>

RunDueBackup(s) ==
    /\ tick.pc = "zips" /\ s \in tick.todo
    /\ IsDue(PlanSeen(s), last[s], tick.now)
    /\ tick' = [tick EXCEPT !.pc = "zip_work", !.todo = @ \ {s}, !.cur = {s},
                            !.due = Instant(PlanSeen(s), tick.now)]
    /\ UNCHANGED <<clock, records, history>>

(* create_backup has zipped the directory and committed the backup's row;  *)
(* or it raises.                                                           *)
ZipMade(s) ==
    /\ tick.pc = "zip_work" /\ tick.cur = {s}
    /\ \/ /\ tick' = [tick EXCEPT !.pc = "zip_commit", !.plans = Expired]
          /\ made' = [made EXCEPT ![s] = tick.due]
       \/ /\ "failed" \in Faults
          /\ tick' = [tick EXCEPT !.pc = "zip_except", !.plans = Expired]
          /\ UNCHANGED made
    /\ UNCHANGED <<clock, records, taken, looked, since, edits, lost>>

(* Mutant: the schedule stays the current one.                             *)
NextScheduleSame == tick' = [tick EXCEPT !.pc = "zips"]

NextSchedule == tick' = [tick EXCEPT !.pc = "zips", !.cur = {}, !.due = Never]

(* The outcome is committed, or "database is locked" sends it to the       *)
(* handler of _tick.                                                       *)
RecordOutcome(s) ==
    /\ tick.pc = "zip_commit" /\ tick.cur = {s}
    /\ \/ last' = [last EXCEPT ![s] = tick.now] /\ NextSchedule
       \/ /\ "locked" \in Faults
          /\ tick' = [tick EXCEPT !.pc = "zip_except"]
          /\ UNCHANGED last
    /\ UNCHANGED <<clock, plan, daily, snap, history>>

(* Mutant: a failure leaves last_run_at as it was.                         *)
RecordFailureForgotten(s) ==
    /\ tick.pc = "zip_except" /\ tick.cur = {s}
    /\ NextSchedule
    /\ UNCHANGED <<clock, records, history>>

(* A second locked commit gives the outcome up.                            *)
RecordFailure(s) ==
    /\ tick.pc = "zip_except" /\ tick.cur = {s}
    /\ NextSchedule
    /\ \/ last' = [last EXCEPT ![s] = tick.now] /\ UNCHANGED lost
       \/ /\ "locked" \in Faults /\ lost < MaxLost
          /\ lost' = lost + 1
          /\ UNCHANGED last
    /\ UNCHANGED <<clock, plan, daily, snap, made, taken, looked, since, edits>>

RunDailies ==
    /\ tick.pc = "zips" /\ tick.todo = {}
    /\ tick' = [tick EXCEPT !.pc = "snaps", !.dailies = daily, !.plans = Expired,
                            !.todo = {s \in Servers : daily[s].enabled}]
    /\ UNCHANGED <<clock, records, history>>

(* strftime always pads. The tick's minute decides when, the time of the   *)
(* check whether the last snapshot is too recent.                          *)
AtBackupTime(s) ==
    /\ DailySeen(s).enabled
    /\ DailySeen(s).padded /\ DailySeen(s).minute = tick.now % Day

Recent(s) == snap[s] # Never /\ clock - snap[s] < Dedup

DailyNotDue(s) ==
    /\ tick.pc = "snaps" /\ s \in tick.todo
    /\ ~AtBackupTime(s) \/ Recent(s)
    /\ tick' = [tick EXCEPT !.todo = @ \ {s}]
    /\ UNCHANGED <<clock, records, history>>

(* run_due_server_backup calls backup_now: the row is created now.         *)
RunDaily(s) ==
    /\ tick.pc = "snaps" /\ s \in tick.todo
    /\ AtBackupTime(s) /\ ~Recent(s)
    /\ tick' = [tick EXCEPT !.pc = "snap_work", !.todo = @ \ {s}, !.cur = {s},
                            !.due = clock]
    /\ looked' = [looked EXCEPT ![s] = tick.now]
    /\ UNCHANGED <<clock, records, made, taken, since, edits, lost>>

DailyTaken(s) ==
    /\ tick.pc = "snap_work" /\ tick.cur = {s}
    /\ \/ /\ snap' = [snap EXCEPT ![s] = IF @ > tick.due THEN @ ELSE tick.due]
          /\ taken' = [taken EXCEPT ![s] = tick.due]
       \/ "failed" \in Faults /\ UNCHANGED <<snap, taken>>
    /\ tick' = [tick EXCEPT !.pc = "snaps", !.cur = {}, !.due = Never,
                            !.dailies = Expired]
    /\ UNCHANGED <<clock, plan, last, daily, made, looked, since, edits, lost>>

(* 60 seconds after the end of the tick it is the next minute, or, since   *)
(* every pass takes some milliseconds of its own, now and then the one     *)
(* after it ("drift").                                                     *)
TickEnd ==
    /\ tick.pc = "snaps" /\ tick.todo = {}
    /\ \/ tick' = [Asleep(clock + 1) EXCEPT !.now = tick.now]
       \/ "drift" \in Faults /\ tick' = [Asleep(clock + 2) EXCEPT !.now = tick.now]
    /\ UNCHANGED <<clock, records, history>>

Crash ==
    /\ "crash" \in Faults /\ lost < MaxLost /\ tick.pc # "down"
    /\ tick' = [Asleep(0) EXCEPT !.pc = "down"]
    /\ lost' = lost + 1
    /\ UNCHANGED <<clock, records, made, taken, looked, since, edits>>

----------------------------------------------------------------------------
(* The administrator and the clock                                         *)

Edited(s) ==
    /\ edits < MaxEdits /\ edits' = edits + 1
    /\ since' = [since EXCEPT ![s] = clock]
    /\ UNCHANGED <<clock, last, snap, tick, made, taken, looked, lost>>

(* last_run_at survives a change of the schedule.                          *)
SaveSchedule(s, p) ==
    /\ p # plan[s] /\ Edited(s)
    /\ plan' = [plan EXCEPT ![s] = p]
    /\ UNCHANGED daily

BackupSettings(s, d) ==
    /\ d # daily[s] /\ Edited(s)
    /\ daily' = [daily EXCEPT ![s] = d]
    /\ UNCHANGED plan

(* A good snapshot by "Back up now", backup-on-start or a restore.         *)
OtherSnapshot(s) ==
    /\ edits < MaxEdits /\ edits' = edits + 1
    /\ snap' = [snap EXCEPT ![s] = clock]
    /\ UNCHANGED <<clock, plan, last, daily, tick, made, taken, looked, since, lost>>

(* A thread that may go on does so within the minute, unless it is busy.   *)
Minute ==
    /\ clock < MaxTime
    /\ tick.pc \in Working \cup {"down"} \/ (tick.pc = "sleep" /\ clock < tick.wake)
    /\ clock' = clock + 1
    /\ UNCHANGED <<records, tick, history>>

Next ==
    \/ StartScheduler \/ TickStart \/ RunDailies \/ TickEnd \/ Crash \/ Minute
    \/ \E s \in Servers :
          \/ NotDue(s) \/ RunDueBackup(s) \/ ZipMade(s) \/ RecordOutcome(s)
          \/ RecordFailure(s)
          \/ DailyNotDue(s) \/ RunDaily(s) \/ DailyTaken(s)
          \/ OtherSnapshot(s)
          \/ \E p \in Plans : SaveSchedule(s, p)
          \/ \E d \in Dailies : BackupSettings(s, d)

Spec == Init /\ [][Next]_vars

----------------------------------------------------------------------------
(* Properties                                                              *)

ZipOncePerInstant ==
    (tick.pc = "zip_work" /\ lost = 0) => \A s \in tick.cur : made[s] < tick.due

DailyApart ==
    tick.pc = "snap_work" =>
        \A s \in tick.cur : taken[s] = Never \/ tick.due - taken[s] >= Dedup

(* A zip schedule never works twice on an instant at which it was due,     *)
(* however long the backups take and however the schedule is edited, as    *)
(* long as no crash and no locked database has lost the first outcome; and *)
(* a daily snapshot is not begun within the window of the last good one,   *)
(* also when the application restarts within the minute of that one        *)
(* (_is_due; backup_service.py:592-595).                                   *)
OncePerInstant == ZipOncePerInstant /\ DailyApart

(* After its turn a zip schedule has run at its last instant of the day,   *)
(* or within its interval.                                                 *)
UpToDate(s, now) ==
    \/ ~plan[s].enabled
    \/ /\ plan[s].type = "daily"
       /\ now < ScheduledToday(plan[s], now) \/ last[s] >= ScheduledToday(plan[s], now)
    \/ plan[s].type = "interval" /\ last[s] # Never /\ last[s] + plan[s].minute > now

SchedulesServed ==
    (tick.pc = "snaps" /\ lost = 0) =>
        \A s \in Servers : since[s] < tick.now => UpToDate(s, tick.now)

Wanted(s, t) == daily[s].enabled /\ since[s] < t /\ t % Day = daily[s].minute

DailyServed ==
    tick.pc = "sleep" =>
        \A s \in Servers :
            (Wanted(s, tick.now) /\ daily[s].padded /\ tick.now # Never) =>
                \/ looked[s] = tick.now
                \/ snap[s] # Never /\ snap[s] + Dedup > tick.now

(* A pass leaves nothing that was due: a zip schedule that was not edited  *)
(* has had its turn, late or not, and one that failed is not tried again   *)
(* until it is due again; a server at whose backup time the pass began has *)
(* a snapshot within the window, or one was tried. The failures and the    *)
(* duration of the backups before it take nothing from either (_tick,      *)
(* _run_v06_daily).                                                        *)
PassServesAll == SchedulesServed /\ DailyServed

(* models.py: when enabled, a daily snapshot is taken at backup_time. While *)
(* the application is up, every server gets its snapshot of the day.       *)
DailyNeverMissed ==
    tick.pc = "sleep" =>
        \A s \in Servers, t \in Times :
            (Wanted(s, t) /\ t < clock /\ lost = 0) =>
                \/ looked[s] >= t
                \/ snap[s] # Never /\ snap[s] + Dedup > t

=============================================================================

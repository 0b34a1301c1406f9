# Verification of mc-appliance

mc-appliance is a FastAPI application that manages Minecraft servers on one
Linux host. It has a SQLite database, runs most requests in a worker thread of
their own and a few (uploads, saves, creations) as coroutines on one event loop,
drives operating-system processes, takes rsync snapshots, runs one
scheduler thread, caches server jars, edits the files of its servers, installs
Java runtimes through a root helper, sends RCON commands, and has a console page
that polls. There is no lock around a server, its row or its
directory. What is hard about it is therefore what happens when two requests, a
dying process, a restart of the application and a slow file copy meet. This
directory models those parts in TLA+, checks them with TLC, and proves the safety
properties of every component with TLAPS, for any number of requests, files, rows
and seconds. Process control is proved for any number of requests that only view,
stop and kill; process control and the snapshots together for requests served one
at a time, and for one session of them beside any number of others that delete
backups. The other components are proved however their requests overlap.

- [The system](#the-system)
- [Plan](#plan)
- [The modules](#the-modules)
- [The runs](#the-runs)
- [Where the code and its documents disagree](#where-the-code-and-its-documents-disagree)
- [Fairness](#fairness)
- [Proofs](#proofs)
- [What is left out](#what-is-left-out)
- [Running the checks](#running-the-checks)

## The system

### Components

| Component | Source | State | Operations |
|---|---|---|---|
| Process control | `services/server_process.py`, handlers of `routers/servers.py` | row of `servers` (`status`, `pid`), the process table, one ORM session a request | refresh, start, stop (RCON, stdin, SIGTERM), kill, restart |
| Snapshots, retention, restore | `services/backup_service.py`, `routers/backups.py` | table `backups`, directories and zips under `BACKUP_DIR`, the server directory | backup now, zip now, backup on start, prune, restore, delete |
| Backup scheduler | `services/scheduler_service.py`, `run_due_server_backup` | `backup_schedules.last_run_at`, `servers.backup_time`, the daemon thread | tick: zip schedules, then daily snapshots |
| Vanilla jar cache | `services/vanilla_downloader.py`, `routers/jars.py` | table `server_jar_cache`, `vanilla/<version>/server.jar`, temporary files | check latest, download, list |
| Server console | `services/server_console.py`, `console_status` | `last_runtime_status`, the two log files it reads | evaluate, persist, refresh |
| Mods and plugins | `services/mod_service.py` | `.jar` and `.jar.disabled` files | list, upload, toggle |
| server.properties editor | `services/properties_service.py` | one file and its `.bak` | read, merge, write |
| Creation and registration | `services/server_creator.py`, `server_detector.py`, `routers/servers.py` | a new directory, a new row | create, register, detect |
| RCON service | `services/rcon_service.py` | none of its own: one connection a command; the state is the game server's | test, command, save-all, stop |
| Java runtimes | `services/java_runtime.py`, `action_set_java`, `routers/system.py`, `scripts/install_java_runtime.sh` | `java_path` and `start_command` of the row, the JDKs of the host, `/usr/bin/java`, the root helper | detect, warn, choose, start with, install |
| Authentication | `auth.py`, `routers/auth.py` | a signed cookie | log in, log out |
| Database and models | `database.py`, `models.py` | SQLite; one session a request | commit, rollback, expire |
| Dashboard, metrics, templates | `routers/dashboard.py`, `system_metrics.py` | none | read and format |
| Configuration, installation | `config.py`, `main.py`, `scripts/` | constants, the systemd unit | start, restart |

### How they interact

- A **request** opens a database session, loads the server's row once, and works
  from that cached copy until a commit expires it. The next attribute access
  reloads the row. An UPDATE names only the columns that differ from the cached
  values. All interleavings of process control come from this.
- **Backups call process control** in their own session: refresh, stop, refresh
  again to confirm, and start in a `finally` block.
- **Start calls backups** when backup-on-start is enabled.
- **The scheduler calls backups** from its own thread with a session per tick.
- **The console page** evaluates before it refreshes, so that the crash is
  reported before the row that gives it away is corrected.
- **The jar cache and everything else** share SQLite's single write lock: a
  flush takes it and only a commit or the end of the session gives it back.
- **Coroutines** (`properties_save`, `rcon_settings`, `mod_upload`,
  `create_server`) share the event loop with one another. Whatever they do
  between two awaits is one piece to other coroutines, not to the threads.
- **A zip of a running server** asks for `save-all flush` over RCON first, then
  reads the directory file by file while the server goes on writing. The same
  service carries the RCON forms and the first rung of the stop.
- **A start** runs the `java_path` of the row as its session has read it, while
  another request chooses a runtime and the package manager, driven by the
  installer or by an administrator, moves the binaries behind the paths.
- **systemd** restarts the unit, and with it, since the unit sets no
  `KillMode`, every process in its control group, the Minecraft servers included.

### What makes each component correct

- *Process control*: at most one server per directory; every live server is
  named by the row, so it can be stopped; a row that says "stopped" is true; the
  pid of a dead server does not stay in the row for ever.
- *Snapshots*: a backup recorded as "ok" is a complete, consistent copy in a
  directory of its own; nothing runs in a directory that is being copied or
  overwritten; a restore always leaves a good copy of what it overwrote;
  retention keeps exactly the newest N; a stopped server is started again.
- *Scheduler*: each scheduled instant is worked on once, no failure or delay of
  one schedule costs another its turn, and daily snapshots are apart.
- *Jar cache*: a row means a whole, verified file; one row a version; one latest.
- *Zip backups and RCON*: a listed zip is complete, and a save that the operator
  was told of is in it, whatever is lost, late or dead on the way.
- *Java runtimes*: the page warns of a Java that is missing or too old, by
  whatever path the row names it, and of no other; the start command shown is
  the one that runs; a server that was set to Java N runs on Java N.
- *Console*: the verdict agrees with what the server does, crashes are reported,
  and a verdict does not outlive the server.
- *Files of a server*: what the last save wrote is in the file or in its backup;
  no save loses a key of another; file and row agree about RCON; a jar that was
  uploaded is still there.
- *Creation and registration*: a row stands over a complete directory; a
  creation builds only in a directory of its own; a refused one leaves nothing.

## Plan

| Order | Module | What it covers | State |
|---|---|---|---|
| 1 | `ServerProcess` | process control, step by step, with faults | done, checked; proved for closers, served one at a time, and beneath 3 |
| 2 | `ServerLifecycle` | abstract promise of process control | done, refinement checked and proved |
| 3 | `BackupService` (extends 1) | snapshots, retention, restore, gate on start | done, checked; proved served one at a time and beside deletions |
| 4 | `Scheduler` | due rules, tick, failures, restarts | done, checked and proved |
| 5 | `JarCache` | downloads, flags, SQLite's write lock | done, checked and proved |
| 6 | `ServerConsole` | verdicts, order of a poll, logs over runs | done, checked and proved |
| 7 | `ServerFiles` | saves of `server.properties`, the RCON form, uploads and toggles of jars | done, checked and proved |
| 8 | `ServerRegistry` | creation and registration beside one another | done, checked and proved |
| 9 | `JavaRuntimes` | detection, the version table, choice, start, the installer and its helper | done, checked and proved |
| 10 | `RconService`, `ZipBackup` (extends it) | RCON exchanges with a game server, and what a zip of its world holds | done, checked and proved |

The theorems about a module `X` are in `XProofs`, but those about `ServerProcess`
are the first part of `BackupServiceProofs`, whose proofs go on from them.

Composition: `BackupService` EXTENDS `ServerProcess` and takes every step of it
as a step of its own; `ServerProcess` has an INSTANCE of `ServerLifecycle` with
a refinement mapping. `ZipBackup` EXTENDS `RconService`: the requests are the
RCON client's callers, and the game server runs beside them. The other modules
stand alone.
They meet the rest of the system in a few places, and each models those as steps
of its surroundings (a backup of any length in `Scheduler`; any other page that
refreshes in `ServerConsole`; a server that goes down in any way in
`JavaRuntimes`; a server stopped by SIGTERM in `RconService`; a directory the operator has put below
`SERVERS_DIR` in `ServerRegistry`).

## The modules

### ServerProcess

State: `db` is the committed row, `proc` the process table, `sess` one record a
request thread. A record has the next step `pc`, the cached `row` (or
`Expired`), the local pid, and the return points of the nested calls `after`
(of `refresh_status`) and `back` (of a stop or kill).

| Action | Code |
|---|---|
| `Arrive`, `Answer` | a handler loads the row; the response closes the session |
| `Load` | first attribute access after a commit |
| `Persist` | `console_status` commits a changed `last_runtime_status` |
| `RefreshCheck`, `MarkRunning`, `ClearRow` | `refresh_status`: look, then correct and commit |
| `StartChecked`, `Spawn`, `RecordPid` | `start_server`: checks, `Popen`, the commit of the pid |
| `StopChecked`, `StopViaRcon`, `StopViaStdin`, `StopViaSigterm`, `WaitForExit` | the ladder of `stop_server`; it never sends SIGKILL |
| `KillChecked`, `KillViaSigkill` | `kill_server` |
| `MarkStopped` | `_mark_stopped`: writes without looking again |
| `RestartChecked`, `RestartConfirm`, `RestartConfirmed` | `restart_server` |
| `Locked` | "database is locked" at any commit ends the request |
| `Crash`, `UnitRestart` | the application dies alone, or with its control group |
| `System` | a server exits, is reaped, and its pid is given to someone else |

`LooksOurs` is `_process_is_minecraft`: it accepts a process in the server's
directory and, as the code does, one whose directory it may not read
("private"). A zombie is rejected. The bookkeeping columns (times, methods,
error texts) are left out except for their commits, which expire the cached row
and so matter. RCON and stdin either lead to a wait or fall through to the next
rung; the server exits at any time by itself, so "told to stop and obeys" and
"told to stop and does not" are both there.

### ServerLifecycle

Three variables, `alive`, `recorded` and `launched`, and six actions: `Launch`
only if nothing is alive or on record, `Record`, `Exit`, `Forget` only if the
named process is gone, `TakenDown`. `ServerProcess` implements it under
`alive <- Servers`, `recorded <- db.pid`, `launched <-` the pid of the session
between `Popen` and its commit.

### BackupService

Adds the contents of the server directory (`world`), of every snapshot directory
(`disk`), the table `backups` (`rows`), the second that names snapshots, and the
local variables of each backup (`job`). The content of a directory is one of a
few consistent worlds, or "torn", "mixed", "absent". A copy that is raced by any
change of its source is torn. The steps are those between which another thread
can come in: choosing a name, inserting the row, mkdir and the start of rsync,
its end, the commit, prune (files, then rows), the `finally` restart.
`Race` marks every copier when the server writes (`Play`) or a restore
overwrites.

### Scheduler

One clock in minutes, the precision of the due rules, which starts at a midnight
(`Day`) so that every instant of the model is later than "never". `tick` is the thread:
`now` is taken once at the start of the tick; `plans` and `dailies` are the rows
as loaded, until a commit in the pass expires them. A backup takes any number of
minutes, fails, or finds the database locked when it stores its outcome
(`RecordOutcome`, `RecordFailure`). `TickEnd` sleeps to the next minute, or
with "drift" to the one after it: the loop sleeps 60 s *after* a tick, so the
period is a little more than a minute and a minute is skipped now and then.
Minutes may be stored without a leading zero (`padded`), because
`backup_settings` accepts "4:00", which `strftime("%H:%M")` never produces.

History variables (`made`, `taken`, `looked`, `since`, `lost`) let the
properties speak about instants; no guard of the thread reads them (`lost` and
`edits` bound the faults).

### JarCache

`rows` is the committed table, `lock` SQLite's write lock, and `sess` has the
rows each session has loaded (`seen`) and inserted (`mine`). A query adds rows
to the identity map and does not refresh those that are in it, which is why the
flags of `_mark_latest` may be computed from old values. The unique constraint
makes the second insert of a version fail. Mojang publishes releases and fails
at any step. `DownloadTo` is one step since `os.replace` is atomic and the
temporary file, which is left out, has a random name.

### ServerConsole

A log line is reduced to the marker it contains: completion, stop, a specific
error, a generic error, or noise. `latest` begins anew with a run, `managed` is
appended to over all runs, and both are scanned in their last `Scan` lines.
`LiveVerdict` and `DeadVerdict` are `_classify`. A poll takes three steps, in
the code's order: look at the row and process (`PollArrive`), read the logs and
commit (`Evaluate`), reconcile (`PollRefresh`).

### ServerFiles

`file` and `bak` are `server.properties` and its copy, functions from three keys
to a value or None: one key that only the editor changes, and `port` and
`password`, which the row has as well (`mirror`). `page` is an editor page of
any age: it posts every key that the file had when it was rendered, with those
changed that are in `Edits`. `mods` is one jar under its enabled and its
disabled name, and `target` the name the inode an upload writes to goes by.
`loop` is the coroutine that holds the event loop.

| Action | Code |
|---|---|
| `PropertiesForm`, `PropertiesSave` | the editor's page; read, merge, and write |
| `RconArrive`, `RconSettings`, `RconCommit` | the row is loaded before the form is awaited; ports checked; the commit |
| `WriteBegin`, `WriteBackup`, `WriteOpen`, `WriteValues`, `WriteFails` | `write_properties`: copy, empty, fill, or fail in between |
| `Upload`, `UploadRead`, `UploadStored` | `save_upload`: opens the target, then awaits every chunk |
| `Toggle`, `ToggleLooked`, `ToggleRename` | `toggle`, in a thread: two looks and a rename |

A commit writes only the columns that differ from the row as the session loaded
it (`MirrorPosted`), so of two forms in flight the later may leave an older
value in the row than the one it wrote to the file. `hist.apart` records the
keys that such a race, a fault or the editor has set apart, and `MirrorAgrees`
says that nothing else does.

### ServerRegistry

`dirs` says of every name who made the directory below `SERVERS_DIR`, which
parts it has and how far its jar is; `rows` is the table. A creation validates
the form, awaits the upload, and from then on runs in one piece on the loop, but
for registrations, which are threads. `Lay` is one of `write_eula`,
`write_properties` and `ensure_mod_plugin_dirs`; `OpenJar` and `CopyJar` are
`save_jar` and `place_cached_jar`. Every step may fail and leave the directory
behind; only then, or for a name that was registered meanwhile, is the name
`excused` from `RefusedLeavesNothing`.

### JavaRuntimes

A binary is a *build* of a major, with a directory of its own; `host` says which
build of each major is installed. Three kinds of paths lead to builds:
`/usr/bin/java` (`link` says to which major), a name that stays the same from
build to build, and the build's own directory. `Real` is `os.path.realpath`
over them, and `MajorAt` what a path runs at this moment. The row has the
`java_path` and the path its displayed `start_command` begins with; `req` has the
row as the session read it, because a commit writes the columns that differ
from it (`Written`). `promise` is history: what "Server Java runtime set to Java
N" said last, withdrawn when it lapses for a reason outside the code.

| Action | Code |
|---|---|
| `CreateServer`, `RegisterServer` | the row begins with a detected path, or with any path (`register_server` takes what it is given) |
| `SetJava`, `SetDetect`, `SetCommit` | `action_set_java`: row read, host probed, both columns written |
| `StartServer`, `StartRefreshed`, `StartLaunch`, `StartRecord` | `start_server` as far as the runtime goes |
| `InstallJava`, `InstallEnded`, `InstallTimeout`, `InstallKillFailed` | `install_java`, and its `subprocess.run` with a timeout |
| `HelperBegins`, `HelperEnds` | `install_java_runtime.sh` under sudo, one package manager at a time |
| `HostChange` | an administrator or an update: packages come, go and move on, the alternatives are switched |

A detection takes no time, but the choice it leads to is written later. What a
probe answers is chosen anew for every binary: the banner, a banner without a
version, silence. `JavaFor` is `minecraft_version_to_java`; `Documented` is the
table of `docs/17_server_runtime_controls.md` stated by the order of versions,
and an `ASSUME` of `MCJavaRuntimes` and the lemma `TableOfVersion` compare them.

### RconService

The client is three lines of state a request: the `step` of its exchange, the
commands `todo`, each over a connection of its own, and the result. What it
talks to is external: a server with a `life`, an `endpoint` that RCON has at
boot (off, ours, or with another port or password), a `world` in memory as the
number of its last change, and on `disk` the change that each file has. The
server writes any file when it likes (`Autosave`). A command whose client has
gone may still run (`late`). `NoResponse` is every failure after the command was
sent. `ToldOk` is what the operator is told: a `stop` whose connection breaks
passes for one that was carried out.

### ZipBackup

| Action | Code |
|---|---|
| `RconForm`, `RconFormEnd` | `rcon_test`, `rcon_command`, `console_rcon_command`, the RCON rung of `stop_server` |
| `CreateBackup`, `SaveAnswered` | the router's or the scheduler's request; whether it goes on without the save |
| `OpenZip`, `CopyFile`, `CopyFails`, `CloseZip` | `create_backup` of `backup_service.py`: the zip named by the second, file after file, the row |
| `Tick`, `Crash` | the next second; the application dies |

A zip is what it holds: of each file the change that was on disk when it was
read. It is "torn" when another backup of its second writes to it at the same
time. `base` is history: the world the server saved for this request, as far as
the request has heard.

## The runs

Passing runs finish without error; every property has a mutant, a plausible bug
in one definition, that TLC finds to violate it.

| Run | Instance | What it shows |
|---|---|---|
| `ServerProcessSerial` | 2 sessions, one served at a time, 2 pids, recycling, unit restarts | `NoOrphan`, `AtMostOneServer`, `RowConsistent`; implements `ServerLifecycle` |
| `ServerProcessClosers` | 3 concurrent sessions that view, poll, stop, kill; 2 pids; crash, unit restart, locked commits, recycling | `StoppedMeansDead`, `NeverResurrected` |
| `ServerProcessPolled` | an operator with every request beside a console page that polls and has a Start button, 2 pids, recycling | liveness: `DeadPidCleared`, also when two starts collide and leave a row that says "stopped" and names a live pid (`MarkRunning` corrects it) |
| `BackupSerial` | one request at a time, unit restarts at any step, rsync failing at any step, 2 worlds, 3 rows | `OkMeansWhole`, `QuietRestore`, `SafetyNet`, `Retention`, `OnlyNormalsPruned`, `BackupRestarts` |
| `SchedulerPasses` | 2 servers, days of 3 minutes, the 5 minutes from a midnight on, one edit, one crash or lost outcome, failures, drift | `OncePerInstant` (zips once an instant, daily snapshots apart), `PassServesAll` (schedules and daily snapshots) |
| `JarCacheRequests` | 3 concurrent sessions, 2 releases, one crash | `UsableJars` (whole files, one row a version), `CheckRepairs` |
| `ServerConsoleVerdicts` | 1 console, logs of 4 lines, 2 runs | `FirstRunTruth`, `CrashReported`; liveness: `VerdictSettles` |
| `ServerFilesRequests` | 2 requests of any kind, an editor page of any age, 2 ports, servers with and without RCON or a file, failing writes, locked commits, crashes | `SavedSurvives`, `KeysKept`, `MirrorAgrees`, `UploadKept` |
| `ServerRegistryRequests` | 3 creations and registrations at once, 2 names, adopted directories, every fault | `RowsWhole`, `OwnTree`, `RefusedLeavesNothing` |
| `JavaRuntimesChoice` | 2 requests at once of 3 in all, 2 majors of 2 builds, 2 changes of the host, 3 paths in the forms, versions at the edges of the table | `PageTruthful`, `CommandMatches`, `ChoiceHeld` |
| `ZipBackupRunning` | 2 requests at once of 3 in all, 2 files, 1 change of the world, 2 seconds, every fault | `ZipSound` |

`BackupRestoreStart` is expected to find a violation (see below). Every module's
type invariant is checked by one of the runs.

### Bounds and why they are enough

- *Sessions.* Two requests produce every pairwise race; the third of
  `ServerProcessClosers` and `JarCacheRequests` adds the case of a request that
  changes the row between two others' reads and writes. The proofs remove the
  bound where there are some. Serving one at a time with two sessions is not the
  same as with one: a request can begin with whatever another left.
- *Pids.* With two pids a restarted server has another pid than the one that is
  still a zombie or recycled, which is the interesting case. One pid suffices in
  `BackupSerial`, where no pid is recycled: the freed pid is given out again.
- *Rows, names and seconds* in `BackupSerial`: with `Keep = 1` and three rows a
  prune has something to delete, something to keep, and a row of another type
  beside them. A name has a second and a suffix; requests that do not overlap
  never meet in a second, since a copy takes time (`Later`). In
  `BackupBesideDelete`, below, two rows suffice: a deletion frees an id, and a third
  backup takes it. TLAPS removes these bounds, that of `Keep` and the number of
  sessions that delete.
- *Scheduler*: a day of three minutes has minutes before, at and after the
  instant of a daily zip; the clock passes two instants of the zips and two of
  the daily snapshots. TLAPS removes these bounds. `Dedup` is less than a day, as 12 hours is in the code.
- *JarCache*: two releases are enough for "old and new latest"; the third
  session can be the reader of either.
- *ServerConsole*: four lines hold a completion, a stop and errors together, and
  two runs one boundary in the managed log. With two consoles the history of
  overlapping polls does not finish in reasonable time; other pages are
  represented by `OtherRefresh`. TLAPS removes these bounds for the safety
  properties.
- *ServerFiles*: two requests and a page give every pair of writers. One port has
  a second value, so that a save changes it. `ServerFilesJars` has three
  sessions for the jars alone. TLAPS removes these bounds.
- *ServerRegistry*: with three requests two creations of a name meet a
  registration of it. Nothing is counted, so crashes are not bounded.
- *JavaRuntimes*: two majors and two builds give every way a path can lead
  elsewhere: a new build, a removal, another alternative. Three requests are two
  choices and a start in any overlap, and two changes of the host can both undo
  and redo what one of them has promised. TLAPS removes all these bounds.
- *ZipBackup*: two files are read at different times, one change of the world
  separates what was saved before from what is written after, and with three
  requests two backups meet in a second or a backup meets a stop. TLAPS removes
  these bounds too.
- `MaxRow`, `MaxSecond`, `MaxSuffix`, `MaxTime`, `MaxEdits`, `MaxLost`,
  `MaxVersion`, `MaxCrashes`, `MaxRuns`, `MaxBuild`, `MaxRequests`, `MaxChanges`,
  `MaxWorld` bound counters in the guards; each is a
  constant of its module, with a comment.

`CHECK_DEADLOCK FALSE` is set for the scheduler, whose clock stops at its bound,
and for `JavaRuntimes`, whose requests and changes are used up. Everywhere else a state without successor would be an error.

### Further configurations

These configurations are not part of the list of runs; run them by hand. Each
shows by a counterexample how far a result of the runs reaches. Where a star
follows the name, put the property (`PROPERTY` for `ServersOutliveTheApp`,
`ChoiceStays` and `SetTold`, `INVARIANT` for the others) in the place of those
the configuration has.

| Configuration | Violates | Story |
|---|---|---|
| `ServerProcessCrash` | `NoOrphan` | the application dies between `Popen` and the commit of the pid |
| `ServerProcessRestarts` | `AtMostOneServer` | two restarts both confirm the stop and both launch |
| `ServerProcessSerial` * | `ServersOutliveTheApp` | a restart of the unit takes the servers down with it |
| `ServerProcessStaleView` | `StoppedMeansDead` | a page that read the row before a start committed clears the new pid |
| `ServerProcessRecycled` | `NotARecycledPid` | a process whose directory is unreadable passes for the server |
| `BackupSnapshotStart` | `OkMeansWhole` | Start clicked while rsync reads: a torn snapshot is "ok" |
| `BackupSameSecond` | `OwnDirectory` | two backups in one second share a directory |
| `BackupDeleted` | `BackupRestarts` | the row of the backup in progress is deleted, and the `finally` block fails with the session |
| `SchedulerMissed` | `DailyNeverMissed` | the minute of a daily snapshot passes while another is taken |
| `JarCacheTwoLatest` | `OneLatest` | two requests that heard of different releases leave two rows flagged |
| `ServerConsoleStaleStop` | `UpMeansRunning` | in its second run a server that is up is judged by the end of the first |
| `ServerFilesStalePage` | `InSync` | an editor page opened before the RCON form was saved takes the old port back into the file |
| `ServerFilesTwoForms` | `InSync` | two RCON forms at once: the row of the second was loaded before the first committed |
| `ServerFilesTwin` | `NeverOverwritten` | a jar is uploaded beside its disabled twin, and the toggle renames one over the other |
| `ServerRegistryDuplicate` | `DuplicateLeavesNothing` | a name is registered while its creation awaits the upload |
| `ServerRegistryDuplicate` * | `OneRowPerDirectory` | a directory is registered under two names |
| `JavaRuntimesChoice` * | `ChoiceStays` | `/usr/bin/java` is shown as Java N, chosen as such, and led elsewhere by a new package |
| `JavaRuntimesChoice` * | `SetTold` | of two choices at once, one finds its path in the row it has read, writes nothing, and is told that it is set |
| `JavaRuntimesInstallCap` | `GivesUp` | the wait for an install runs out, but the kill of root's helper is refused and the request waits on |
| `ZipBackupTorn` | `ZipConsistent` | the server writes a file between the reading of two others, after the save was confirmed |
| `ZipBackupTorn` * | `StopTold` | a stop that found the connection refused counts as sent |
| `ZipBackupTorn` * | `ZipsApart` | two backups in one second write to one zip, and both are listed |

Others pass. `BackupBesideDelete`: one session backs up and restores while another
deletes any backup at any moment, the one being written, pruned or restored among
them, with restarts of the unit (`OkMeansWhole`, `OwnDirectory`,
`OnlyNormalsPruned`; 500,000 states): it checked the theorems beside deletions
before they were proved. In the same way `BackupSerial` passes with `OwnDirectory`,
`QuietSnapshot` and `LifecycleSpec` besides. `ServerFilesJars`: three sessions that upload and toggle
keep what was uploaded.

## Where the code and its documents disagree

`BackupRestoreStart` is one of the runs; the others are configurations of the
table above.

1. `ServerProcessRestarts`: two restarts both confirm the stop and both launch.
   `server_process.py:398` says "Safe-stop, confirm stopped, then start." There
   is nothing between the confirmation and `Popen` that a second request could
   not come into.
2. `BackupRestoreStart`: the "server is stopped" check of a restore is made
   before the pre-restore snapshot. A start during that snapshot is not noticed,
   and rsync overwrites a live directory, which
   `docs/18_backup_restore.md:121` rules out.
3. `ServerConsoleStaleStop`: in its second run a server that is up is called
   "stopping" because of the line with which the first run ended, against
   `docs/14_server_console.md:66`.
4. `SchedulerMissed`: a daily snapshot is taken only by a tick that begins in
   its minute. While the snapshot of one server lasts, the minute of another
   passes, and nothing catches up (`models.py:104`: "a daily rsync snapshot is
   taken at backup_time"). The zip schedules do catch up: they compare with the
   last run.
5. `JarCacheTwoLatest`: two rows flagged as the latest, against
   `vanilla_downloader.py:299`. The next undisturbed check repairs it
   (`CheckRepairs`).
6. `ServerFilesStalePage` and `ServerFilesTwoForms`: the RCON values in the file
   and in the row drift apart, which `docs/09_rcon.md` says are kept in sync.
7. `ServerFilesTwin`: a jar is lost to a rename, in a module that says "There is
   **no delete** operation" (`mod_service.py:17`).
8. `ServerRegistryDuplicate`: a duplicate is noticed only at the commit, when its
   directory has been built, against `docs/10_server_creation.md`.
9. `ChoiceStays` and `SetTold`: a choice of
   `/usr/bin/java` is a choice of whatever it leads to later, although
   `docs/17_server_runtime_controls.md` says that "only the per-server
   `java_path` changes"; and the answer of `action_set_java` (`servers.py:758`) may name a
   runtime that is not the row's.
10. `JavaRuntimesInstallCap`: `JAVA_INSTALL_TIMEOUT_SECONDS` is a "Hard cap"
    (`config.py:326`), but `subprocess.run` waits for the process after its kill
    has failed, and the helper is root's.
11. `ZipBackupTorn`: `backups.py:45` asks for the save "so the zip captures a
    consistent, fully-saved state". It captures one that is at least as new
    (`ZipFresh`), not a consistent one: nothing sends `save-off`.
12. `StopTold`: "Sent 'stop'; the server is shutting down."
    (`rcon_service.py:237`) is also said when the connection was refused.
13. The unit `mc-appliance.service:24` sets `NoNewPrivileges=true`, under which
    sudo cannot run; `docs/16` describes the installer as working through sudo.
    No model is needed for that; `Permitted` is what sudo grants where it runs.

## Fairness

Safety runs assume none. The two liveness properties assume:

- `WF_vars(Step(s))` in `ServerProcess`: a request that was accepted takes its
  next step. Threads run, and every wait in the code has a timeout after which
  it goes on.
- `WF_vars(Arrive(s, "poll"))` and `WF_vars(Poll(c))`: an open console page
  polls every five seconds (`initConsole` in `static/js/main.js`), whatever the
  previous answers were.

In `ServerProcessPolled` the console's session may also start the server. Every
request begins with a refresh, so a session that is not idle for ever refreshes
again and again either way.

Nothing is assumed of the operator, the server process, the operating system or
the faults: a server that never exits, or a button never pressed, is allowed.
The scheduler's promises are stated as invariants of its passes and need none.

## Proofs

All are checked by TLAPS for every value of the constants that satisfies the
named assumption of the module, which says no more than what the constants are:

| Assumption | Leaves open |
|---|---|
| `ConstantsAssumption` | any set of sessions, pids, recycled kinds and faults |
| `BackupAssumption` | any worlds and bounds, any number of generations kept, from one on |
| `SchedulerAssumption` | any finite set of servers, any length of a day, schedules, faults and bounds; the window of a daily snapshot is at most a day |
| `JarAssumption` | any finite set of sessions, any number of releases |
| `ConsoleAssumption` | any finite set of consoles, any number of runs and of lines scanned |
| `FilesAssumption` | any finite set of requests, any values of the keys, any faults |
| `RegistryAssumption` | any finite set of sessions, any names and faults |
| `JavaAssumption` | any requests, majors, versions and bounds |
| `RconAssumption`, `ZipAssumption` | any requests, files and bounds |

| Theorem | Module | States |
|---|---|---|
| `TypeCorrect` | `BackupServiceProofs` | `Spec => []TypeOK` |
| `ClosersTellTheTruth` | `BackupServiceProofs` | `Spec => []StoppedMeansDead` if no session may start or restart |
| `ClosersNeverResurrect` | `BackupServiceProofs` | `Spec => NeverResurrected`, likewise |
| `SerialNoOrphan` | `BackupServiceProofs` | `Spec => []NoOrphan` served one at a time |
| `SerialAtMostOneServer` | `BackupServiceProofs` | `Spec => []AtMostOneServer`, likewise |
| `SerialRowConsistent` | `BackupServiceProofs` | `Spec => []RowConsistent`, likewise |
| `SerialImplementsLifecycle` | `BackupServiceProofs` | `Spec => LifecycleSpec`, likewise |
| `BackupTypeCorrect` | `BackupServiceProofs` | `BackupSpec => []BackupTypeOK` for any overlap and any faults |
| `SerialOkMeansWhole` | `BackupServiceProofs` | `BackupSpec => []OkMeansWhole` served one at a time |
| `SerialQuietSnapshot` | `BackupServiceProofs` | `BackupSpec => []QuietSnapshot`, likewise |
| `SerialQuietRestore` | `BackupServiceProofs` | `BackupSpec => []QuietRestore`, likewise |
| `SerialSafetyNet` | `BackupServiceProofs` | `BackupSpec => []SafetyNet`, likewise |
| `SerialOwnDirectory` | `BackupServiceProofs` | `BackupSpec => []OwnDirectory`, likewise |
| `SerialRetention` | `BackupServiceProofs` | `BackupSpec => []Retention`, likewise |
| `SerialOnlyNormalsPruned` | `BackupServiceProofs` | `BackupSpec => OnlyNormalsPruned`, likewise |
| `SerialBackupRestarts` | `BackupServiceProofs` | `BackupSpec => BackupRestarts`, likewise |
| `BackupNoOrphan` | `BackupServiceProofs` | `BackupSpec => []NoOrphan`, likewise |
| `BackupAtMostOneServer` | `BackupServiceProofs` | `BackupSpec => []AtMostOneServer`, likewise |
| `BackupRowConsistent` | `BackupServiceProofs` | `BackupSpec => []RowConsistent`, likewise |
| `BackupImplementsLifecycle` | `BackupServiceProofs` | `BackupSpec => LifecycleSpec`, likewise |
| `BesideNoOrphan` | `BackupServiceProofs` | `BackupSpec => []NoOrphan` beside deletions |
| `BesideAtMostOneServer` | `BackupServiceProofs` | `BackupSpec => []AtMostOneServer`, likewise |
| `BesideRowConsistent` | `BackupServiceProofs` | `BackupSpec => []RowConsistent`, likewise |
| `BesideImplementsLifecycle` | `BackupServiceProofs` | `BackupSpec => LifecycleSpec`, likewise |
| `BesideQuietSnapshot` | `BackupServiceProofs` | `BackupSpec => []QuietSnapshot`, likewise |
| `BesideQuietRestore` | `BackupServiceProofs` | `BackupSpec => []QuietRestore`, likewise |
| `BesideOkMeansWhole` | `BackupServiceProofs` | `BackupSpec => []OkMeansWhole`, likewise |
| `BesideOwnDirectory` | `BackupServiceProofs` | `BackupSpec => []OwnDirectory`, likewise |
| `BesideOnlyNormalsPruned` | `BackupServiceProofs` | `BackupSpec => OnlyNormalsPruned`, likewise |
| `TypeCorrect` | `SchedulerProofs` | `Spec => []TypeOK` |
| `WorksOnce` | `SchedulerProofs` | `Spec => []OncePerInstant` |
| `PassesServeAll` | `SchedulerProofs` | `Spec => []PassServesAll` |
| `TypeCorrect` | `ServerConsoleProofs` | `Spec => []TypeOK` |
| `FirstRunJudged` | `ServerConsoleProofs` | `Spec => []FirstRunTruth` |
| `CrashesReported` | `ServerConsoleProofs` | `Spec => []CrashReported` |
| `TypeCorrect` | `ServerFilesProofs` | `Spec => []TypeOK` |
| `SavesSurvive` | `ServerFilesProofs` | `Spec => []SavedSurvives` |
| `FormsKeepInSync` | `ServerFilesProofs` | `Spec => []MirrorAgrees` |
| `UploadsKept` | `ServerFilesProofs` | `Spec => []UploadKept` |
| `SavesLoseNoKey` | `ServerFilesProofs` | `Spec => KeysKept` |
| `TypeCorrect` | `ServerRegistryProofs` | `Spec => []TypeOK` |
| `OnlyOwnTree` | `ServerRegistryProofs` | `Spec => []OwnTree` |
| `RowsAreWhole` | `ServerRegistryProofs` | `Spec => []RowsWhole` |
| `RefusalsLeaveNothing` | `ServerRegistryProofs` | `Spec => []RefusedLeavesNothing` |
| `TypeCorrect` | `JavaRuntimesProofs` | `Spec => []TypeOK` |
| `PageTells` | `JavaRuntimesProofs` | `Spec => []PageTruthful` |
| `CommandFollows` | `JavaRuntimesProofs` | `Spec => []CommandMatches` |
| `ChoiceKept` | `JavaRuntimesProofs` | `Spec => ChoiceHeld` |
| `TypeCorrect` | `ZipBackupProofs` | `Spec => []TypeOK` |
| `ListedSound` | `ZipBackupProofs` | `Spec => []ZipSound` |
| `TypeCorrect` | `JarCacheProofs` | `Spec => []TypeOK` |
| `CachedUsable` | `JarCacheProofs` | `Spec => []UsableJars` |
| `ChecksRepair` | `JarCacheProofs` | `Spec => CheckRepairs` |

**Hypotheses.** The closers' theorems assume that `Allowed[s]` is a subset of
view, poll, stop and kill, with any faults and recycling. The serial
theorems, of process control and of the backups, assume `MaxActive = 1` and
`Faults \subseteq {"unit_restart"}`: requests that do not overlap, and a unit
that may go down with its servers between any two steps. In the backups' case
an rsync may fail besides. "Beside deletions" is `Beside(w)`: the session `w` may
make any request, every other session only deletions, and any number of them
overlap with each other and with what `w` is doing, with the same restarts of the
unit. What deletions do break is not claimed there: `BackupRestarts` (see
`BackupDeleted`), and `SafetyNet` and `Retention`, whose row may be the one that is
deleted. The hypotheses are needed: `ServerProcessCrash`,
`ServerProcessRestarts`, `ServerProcessStaleView`, `BackupRestoreStart`,
`BackupSnapshotStart` and `BackupSameSecond` violate the same properties
without them. The application
itself serves nothing one at a time; the serial theorems say that the code is
right as a sequential program, so that what goes wrong is the overlap. The other
theorems have no hypotheses.

**The closers' invariant.** `StoppedMeansDead` is not inductive: whether a step
that writes "stopped" is right depends on what its session saw some steps
earlier. `CloserInv` adds that the columns of the committed row and of every
cached one agree, that no session is at a step of a launch (`CloserControl`),
and, for every live server `p`, that the committed row and every cached row name
`p` as running, that whatever a session stops or kills is `p`, and that no
session is about to write the row off (`KnowsServer`). A session gets there only
once `p` is dead, and nobody brings a server back. From this no write can turn
"stopped" into "running" either.

**The serial invariant.** `SerialInv` says that at most one session is active,
that its cached row, when it has one, equals the committed row, that what it
stops or kills is the pid on record, and at each label what the process table
may be (`SerialKnows`): no server when the row is about to be cleared or marked,
nothing on record before `Popen`, only the launched one before its pid is
recorded, and otherwise only the one on record. `NoOrphan`, `AtMostOneServer`
and `RowConsistent` are consequences, and the same invariant shows that every
step maps to a step of `ServerLifecycle` or to a stutter.

**The backups' invariant.** Nothing in the row of a snapshot says that it was not
disturbed; that follows from what the request did before. `BackupInv` has the
serial invariant of process control, extended by the labels to which
`refresh_status` returns in a backup (`JobControl`), and at each label of the
backup what its request has established (`JobKnows`): from the confirmed stop to
the `finally` block nothing is on record and therefore, by the serial invariant,
nothing runs (`Quiet`); the row it writes is the newest, since ids go upwards and
nobody else inserts, and the copy has the world of the moment it began
(`SnapshotKnows`); what it deletes is what exceeds the newest `Keep`
(`PruneKnows`); and the pre-restore copy is whole until the restore is over
(`RestoreKnows`). That directories are apart needs a fact about names that are
not in use any more: all but the one being copied were named in an earlier
second (`Past`). `KeepsFew` counts what retention leaves: above the oldest row that
is not outdated there are fewer than `Keep` normal ones. `BackupTypeCorrect`
needs none of it and has no hypotheses.

**Process control beneath the backups.** The serial invariant is about the labels
of process control. `Serves` says what of it remains true when a request has
further labels and further sessions are about; it implies `NoOrphan`,
`AtMostOneServer` and `RowConsistent` (`SerialControls`), and with it every step of
`ServerProcess` maps to a step of `ServerLifecycle` or to a stutter
(`LifecycleStep`), so both are proved once and used three times. What is left is
that the steps of a backup are stutters: they neither launch nor record
(`WorksSteps`), and the row that a restore writes was already so.

**Beside deletions.** `BackupInv` does not survive a deletion: ids no longer go
upwards, and the row of a backup may vanish while it is written. `ControlBeside`
keeps the part about process control, since a deletion touches neither server nor
row (`OthersDelete`). `DataBeside` replaces `JobKnows` by what holds of the
worker's row for as long as it is there (`WorkKnows`): it is the one it inserted,
under its name, in progress; no other row was named in this second, so a copy is
always into a directory of its own, and names stay apart even when ids are used
again. For `OnlyNormalsPruned` one must know what a deletion that
began earlier is about to erase: `Erasing` says that no row but its target, and no
backup made meanwhile, has that directory, and `Pruning` that of the generations
the worker is about to prune those that are still there are still normal ones.

**The scheduler's invariant.** `OncePerInstant` compares the last run that is
recorded with the work under way, and the two differ between the end of a
backup and its commit (`OnceInv`); `ClockInv` says that nothing recorded lies
ahead of the clock or of the pass. `PassServesAll` speaks of the end of a pass,
so the invariant says what is already served in the middle of one (`ZipsDone`,
`DailiesDone`): every schedule that is neither in the list still to do nor at
work. That takes `SeenInv`, that the rows the pass has loaded are those of the
database but for edits made since it began. The first attempt at the proof failed
for a schedule at midnight, whose first instant was the 0 that stands for
"never": the clock of the model now begins at a midnight after 0.

**The console's invariant.** A verdict is about what the last lines of a log say
of a server that may have moved on. `ConsoleInv` says, as long as the first run
fits into the lines that are scanned, which marks the log holds at each stage of
the server's life and which it cannot hold yet (`FirstRun`); what a poll has seen
still holds unless the server has done something since; and a row that was seen
running, and dead, has been reported before it is tidied away (`PollKnows`).
`LastLinesOf` states what the scan of a log finds, for a log of any length.

**The files' invariant.** `SavedSurvives` is not inductive: the backup is made
by a save that is about to destroy the file. `LoopInv` says that exactly the
holder of the loop is between two awaits. `SaveKnows` says what a save has
established at each label: that what it will write keeps the keys of the file
as it is now, that file or backup still has what was saved last, and that the
file is empty when its values are filled in. `Damage` says which contents a fault
can leave, and that then every key counts as apart from the row until the RCON
form fills it; `Agreement` that the other keys agree but for those of a form
that has not committed. `KeysKept` follows from `Keeps` at the write.
`JarInv` follows one jar: there is none, one that an upload is writing, or a
whole one, under one of its two names; and there is a part of it exactly while an
upload reads its chunks.

**The registry's invariant.** `RowsWhole` says nothing of the requests that are
under way. `IInv` adds what a request has established at each label
(`Established`: the directory it builds is its own, and from the jar on has all
its parts) and that nobody builds in the directory of a created server
(`Settled`). `OthersKeep` and `RowsKeep` say once why a step of one request
disturbs neither the others nor the rows: it touches only what did not exist and
what it has made itself (`Grown`). No use is made of the event loop: `mkdir`
without `exist_ok` is what keeps creations apart. `RefusedLeavesNothing` is
inductive relative to `IInv`.

**The runtimes' invariants.** `PageTruthful` follows from the types: the lemmas
`MajorOfPath`, `DetectedMajors` and `TableOfVersion` say what a path runs, what a
detection tells of it and what the table gives, for any host. `CommandMatches`
needs `CommandInv`: path and command agree in the row and in every copy of it a
request holds, since a commit writes the difference of the two. `ChoiceHeld` is
about the row at the launch, and what was promised about it lies several steps
back. `ChoiceInv` adds that a promise is about the path the row still has and
runs what was promised or nothing (`PromiseKept`), that a change that overlaps no
other one has read the path the row still has (`ChangeAlone`), and what a request
knows of the path it is about to write or run (`Knows`).

**The zips' invariant.** `ZipSound` compares a zip with a save that was made
before the zip was opened. `ZipInv` carries the save along: what a request was
told is on the disk from the execution on (`Flushed`), because the disk never
goes back (`Forward`), because a running server is never behind it
(`DiskBehind`). A zip that is written by one request has exactly the files the
request has read, each at least as new (`Copied`); as soon as a second one opens
it, its second is in `shared` and says so (`Writers`).

**The cache's invariant.** `TypeOK` alone is not inductive, since a new row gets
the id after the number of rows. `JarInv` therefore says that the ids have no
gaps (`Dense`) and that versions and ids tell rows apart (`OneEach`), from which
there are no more rows than versions (`RowsFit`, by an injection). For each
request it adds that a jar is whole from its verification on (`Fetched`), that a
row which is not committed yet belongs to the holder of the write lock and has
no rival (`Inserting`), so that no other commit touches it (`CommitLocked`), and
that a request which is alone has loaded exactly the rows there are and was told
the release there is (`Alone`). `CheckRepairs` follows from the last part at the
commit.

**Only model-checked.** Liveness under fairness is beyond TLAPS as used here:
`DeadPidCleared` and `VerdictSettles`, and no invariant or action property besides.
What process control and the snapshots do when requests overlap beyond the
hypotheses above is in the runs and configurations only; most of it is wrong there.

## What is left out

- *Zip backups*: `Scheduler` has them as one step, `ZipBackup` step by step but
  with times of its own. The `exclude_*` options and downloads are file handling;
  the deletion of a zip is the same as that of a snapshot in `BackupService`.
- *Clock changes.* The scheduler's clock only advances. Local time against UTC,
  daylight saving and NTP jumps are not modelled. Minutes are atomic: the check
  of a schedule takes no time.
- *Snapshots that disappear during a run of the scheduler* (a delete makes the
  last good one an older one) are in `BackupService` only.
- *RCON* is a nondeterministic outcome in `ServerProcess`: disabled, failed, or
  accepted. `RconService` has its steps. The wording of commands, the packets and
  the 2-second waits are left out, and so is the password's way into the file,
  which is in `ServerFiles`.
- *Packages*: their names per distribution, the manual commands shown when sudo
  grants nothing, the inventory page and the installer's log. An install that is
  interrupted leaves the old build or the new one.
- *Sharing the directory between two registered servers*: process control is
  modelled for one row per directory, although the registration allows more
  (`OneRowPerDirectory` does not hold).
- *What files say*: the order and the comments of `server.properties`, the
  contents of jars, checks of names, what `server_detector.py` guesses from the
  name of a jar. An upload is whole, partial or refused.
- *Authentication*: a password hash and a signed cookie that the browser keeps.
  A login or logout writes the cookie of its own answer, and the middleware reads
  it; no two steps share state on the server.
- *Dashboard, metrics, templates, schemas*: reading and formatting. The refresh
  that a page performs is the request "view" of `ServerProcess`, and the dashboard
  check of the jar cache a request of `JarCache`.
- *Configuration and installation scripts*: constants and one-off commands, but
  for the unit's restart and the Java helper, which are modelled.
- *Migrations* run once, before the first request.
- *A file descriptor* that `_download_to` leaks when `urlopen` fails before
  `os.fdopen` has taken it over: `JarCache` does not count descriptors.

## Running the checks

    tlc -workers 2 -config ServerProcessSerial.cfg MCServerProcess.tla
    tlapm BackupServiceProofs.tla

A configuration named `<X>...cfg` belongs to the module `MC<X>` for
`ServerProcess`, `Scheduler`, `JarCache`, `ServerConsole`, `ServerFiles`,
`ServerRegistry`, `JavaRuntimes` and `ZipBackup`; `Backup...cfg` belongs to `MCBackupService`.

An update of several fields of one record in a function is written as one nested
EXCEPT (`![s] = [@ EXCEPT !.a = x, !.b = y]`), never as two updates at the same
index: the SMT translation of tlapm 1.4.5 makes the latter contradictory, and
every goal would follow from it. No module has one.

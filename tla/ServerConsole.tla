--------------------------- MODULE ServerConsole ---------------------------
(***************************************************************************)
(* What the console says of one server: app/services/server_console.py and *)
(* the console_status route. The verdict is drawn from the database row,   *)
(* the process and the last lines of two logs that a server fills over     *)
(* several runs. Several consoles may poll at the same time.               *)
(*                                                                         *)
(* A log line is reduced to the marker it contains. How a row becomes      *)
(* stale is the matter of ServerProcess; here refresh_status is one step.  *)
(***************************************************************************)
EXTENDS Naturals, Sequences, FiniteSets

CONSTANTS
    Consoles,  \* pages with auto-refresh on
    Scan,      \* CONSOLE_STATE_SCAN_LINES
    MaxRuns    \* bound on the launches

Marks == {"noise", "done", "stop", "specific", "generic"}
Alive == {"booting", "up", "closing"}
AliveVerdicts == {"starting", "running", "stopping"}
Verdicts == AliveVerdicts \cup {"stopped", "crashed", "failed_to_start", "unknown"}

ASSUME ConsoleAssumption ==
    /\ IsFiniteSet(Consoles) /\ Scan \in Nat \ {0} /\ MaxRuns \in Nat \ {0}

VARIABLES
    life,      \* what the server process really does
    fresh,     \* the game has not yet begun a new latest.log
    latest,    \* the last lines of logs/latest.log
    managed,   \* the last lines of the managed log of stdout and stderr
    status,    \* Server.status: running with a pid, or stopped without
    last,      \* Server.last_runtime_status
    poll,      \* the console_status requests
    runs,      \* counts the launches
    lines,     \* history: the lines since the last launch, at most Scan + 1
    died,      \* history: how the last run ended
    reported,  \* history: a console has told of that end as of a failure
    cleared    \* history: who found the row out of date after that end

logs == <<fresh, latest, managed, lines>>
history == <<died, reported, cleared>>
vars == <<life, logs, status, last, poll, runs, history>>

(* db, actual, seen: the row and the process as the request found them;    *)
(* steady: the server has done nothing since (history).                    *)
PollStates == [pc : {"idle", "evaluate", "refresh"}, db : {"running", "stopped"},
               actual : {"running", "stopped", "unknown"}, seen : Verdicts,
               steady : BOOLEAN]

IdlePoll == [pc |-> "idle", db |-> "stopped", actual |-> "unknown",
             seen |-> "unknown", steady |-> FALSE]

TypeOK ==
    /\ life \in Alive \cup {"down"} /\ fresh \in BOOLEAN
    /\ latest \in UNION {[1 .. n -> Marks] : n \in 0 .. Scan}
    /\ managed \in UNION {[1 .. n -> Marks] : n \in 0 .. Scan}
    /\ status \in {"running", "stopped"} /\ last \in Verdicts
    /\ poll \in [Consoles -> PollStates]
    /\ runs \in 0 .. MaxRuns /\ lines \in 0 .. Scan + 1
    /\ died \in {"never", "quietly", "badly"} /\ reported \in BOOLEAN
    /\ cleared \in {"nobody", "console", "other"}

Init ==
    /\ life = "down" /\ fresh = TRUE /\ latest = <<>> /\ managed = <<>>
    /\ status = "stopped" /\ last = "unknown"
    /\ poll = [c \in Consoles |-> IdlePoll]
    /\ runs = 0 /\ lines = 0
    /\ died = "never" /\ reported = FALSE /\ cleared = "nobody"

----------------------------------------------------------------------------
(* The logs                                                                *)

LastLines(log) ==
    IF Len(log) > Scan THEN SubSeq(log, Len(log) - Scan + 1, Len(log)) ELSE log

Moved == poll' = [c \in Consoles |-> [poll[c] EXCEPT !.steady = FALSE]]

Counted(n) == IF n > Scan THEN n ELSE n + 1

(* A line of the game goes to both logs. The game keeps the latest.log of  *)
(* an earlier run until it has begun its own.                              *)
Logged(mark) ==
    /\ managed' = LastLines(Append(managed, mark))
    /\ latest' = LastLines(Append(IF fresh THEN <<>> ELSE latest, mark))
    /\ fresh' = FALSE
    /\ lines' = Counted(lines)

(* A line of the JVM goes to stdout alone.                                 *)
LoggedByJvm(mark) ==
    /\ managed' = LastLines(Append(managed, mark))
    /\ lines' = Counted(lines)
    /\ UNCHANGED <<latest, fresh>>

(* _scan_markers                                                           *)
Scanned(mark) ==
    \/ \E i \in 1 .. Len(latest) : latest[i] = mark
    \/ \E i \in 1 .. Len(managed) : managed[i] = mark

----------------------------------------------------------------------------
(* _classify                                                               *)

Faulty == Scanned("specific") \/ Scanned("generic")

DeadVerdict(db) ==
    IF Faulty /\ ~Scanned("done") THEN "failed_to_start"
    ELSE IF db = "running" \/ Faulty THEN "crashed"
    ELSE "stopped"

(* Mutant: an error counts before the completion line.                     *)
LiveVerdictErrorFirst ==
    IF Scanned("stop") THEN "stopping"
    ELSE IF Scanned("specific") THEN "failed_to_start"
    ELSE IF Scanned("generic") THEN "crashed"
    ELSE IF Scanned("done") THEN "running"
    ELSE "starting"

LiveVerdict ==
    IF Scanned("stop") THEN "stopping"
    ELSE IF Scanned("done") THEN "running"
    ELSE IF Scanned("specific") THEN "failed_to_start"
    ELSE IF Scanned("generic") THEN "crashed"
    ELSE "starting"

(* Mutant: the psutil error is not caught as one.                          *)
VerdictUnchecked(db, actual) ==
    IF actual = "running" THEN LiveVerdict
    ELSE IF actual = "stopped" THEN DeadVerdict(db) ELSE "error"

Verdict(db, actual) ==
    IF actual = "unknown" THEN "unknown"
    ELSE IF actual = "running" THEN LiveVerdict
    ELSE DeadVerdict(db)

Says(c) == Verdict(poll[c].db, poll[c].actual)

----------------------------------------------------------------------------
(* console_status                                                          *)

(* Mutant: the row is reconciled before the server is looked at.           *)
PollArriveRefreshed(c) ==
    /\ poll[c].pc = "idle"
    /\ status' = IF life = "down" THEN "stopped" ELSE status
    /\ cleared' = IF status' # status THEN "console" ELSE cleared
    /\ \E actual \in {"unknown", IF life # "down" THEN "running" ELSE "stopped"} :
          poll' = [poll EXCEPT ![c] = [pc |-> "evaluate", db |-> status',
                      actual |-> actual, seen |-> last, steady |-> TRUE]]
    /\ UNCHANGED <<life, logs, last, runs, died, reported>>

(* The request loads the row; evaluate looks at the process first.         *)
PollArrive(c) ==
    /\ poll[c].pc = "idle"
    /\ \E actual \in (IF status = "running" THEN {"unknown"} ELSE {}) \cup
                     {IF status = "running" /\ life # "down" THEN "running"
                      ELSE "stopped"} :
          poll' = [poll EXCEPT ![c] = [pc |-> "evaluate", db |-> status,
                      actual |-> actual, seen |-> last, steady |-> TRUE]]
    /\ UNCHANGED <<life, logs, status, last, runs, history>>

(* Mutant: the verdict is stored once and never replaced.                  *)
EvaluateOnce(c) ==
    /\ poll[c].pc = "evaluate"
    /\ last' = IF last = "unknown" THEN Says(c) ELSE last
    /\ poll' = [poll EXCEPT ![c].pc = "refresh"]
    /\ reported' = (reported \/ (life = "down" /\ Says(c) \in {"crashed", "failed_to_start"}))
    /\ UNCHANGED <<life, logs, status, runs, died, cleared>>

(* Then it reads the logs. A verdict that differs from the one the request *)
(* loaded is committed.                                                    *)
Evaluate(c) ==
    /\ poll[c].pc = "evaluate"
    /\ last' = IF Says(c) # poll[c].seen THEN Says(c) ELSE last
    /\ poll' = [poll EXCEPT ![c].pc = "refresh"]
    /\ reported' = (reported \/ (life = "down" /\ Says(c) \in {"crashed", "failed_to_start"}))
    /\ UNCHANGED <<life, logs, status, runs, died, cleared>>

(* refresh_status; "console" only if this request has seen it dead.      *)
PollRefresh(c) ==
    /\ poll[c].pc = "refresh"
    /\ status' = IF life = "down" THEN "stopped" ELSE status
    /\ cleared' = IF status' = status THEN cleared
                  ELSE IF poll[c].actual = "stopped" /\ poll[c].steady THEN "console"
                  ELSE "other"
    /\ poll' = [poll EXCEPT ![c] = IdlePoll]
    /\ UNCHANGED <<life, logs, last, runs, died, reported>>

(* Any other page that refreshes, and the end of a stop.                   *)
OtherRefresh ==
    /\ life = "down" /\ status = "running"
    /\ status' = "stopped" /\ cleared' = "other"
    /\ UNCHANGED <<life, logs, last, poll, runs, died, reported>>

----------------------------------------------------------------------------
(* The server                                                              *)

(* start_server appends a banner to the managed log; the row is committed. *)
Launch ==
    /\ life = "down" /\ status = "stopped" /\ runs < MaxRuns
    /\ life' = "booting" /\ status' = "running" /\ runs' = runs + 1
    /\ fresh' = TRUE /\ lines' = 1
    /\ managed' = LastLines(Append(managed, "noise"))
    /\ Moved
    /\ UNCHANGED <<latest, last, history>>

(* The server writes: chatter and errors at any time, and the lines that   *)
(* go with a change of its life.                                           *)
Writes ==
    /\ life # "down" /\ Moved
    /\ \/ \E mark \in {"noise", "generic"} : Logged(mark) /\ UNCHANGED life
       \/ life = "booting" /\ Logged("done") /\ life' = "up"
       \/ life = "up" /\ Logged("stop") /\ life' = "closing"
       \/ life = "booting" /\ Logged("specific") /\ UNCHANGED life
       \/ life = "booting" /\ fresh /\ LoggedByJvm("specific") /\ UNCHANGED life
    /\ UNCHANGED <<status, last, runs, history>>

Exit ==
    /\ life # "down"
    /\ life' = "down"
    /\ died' = IF life = "closing" THEN "quietly" ELSE "badly"
    /\ reported' = FALSE /\ cleared' = "nobody"
    /\ Moved
    /\ UNCHANGED <<logs, status, last, runs>>

Poll(c) == PollArrive(c) \/ Evaluate(c) \/ PollRefresh(c)

Next ==
    \/ \E c \in Consoles : Poll(c)
    \/ OtherRefresh \/ Launch \/ Writes \/ Exit

Spec == Init /\ [][Next]_vars

(* An open console polls every five seconds (initConsole in main.js).      *)
PolledSpec == Spec /\ \A c \in Consoles : WF_vars(Poll(c))

----------------------------------------------------------------------------
(* Properties                                                              *)

(* A verdict on something that has not changed since the request began.    *)
Given(c) == poll[c].pc = "evaluate" /\ poll[c].steady /\ poll[c].actual # "unknown"

(* On the first run, and until its first lines leave the scanned tail, the *)
(* verdict is right: whatever errors are logged, a server that is up is    *)
(* never called crashed, one that is booting never called up, and one that *)
(* died before it was up, or that died and is still recorded as running,   *)
(* never called stopped.                                                   *)
FirstRunTruth ==
    \A c \in Consoles :
        (Given(c) /\ runs = 1 /\ lines <= Scan) =>
            CASE life = "up"      -> Says(c) = "running"
              [] life = "closing" -> Says(c) = "stopping"
              [] life = "booting" -> Says(c) \in {"starting", "crashed", "failed_to_start"}
              [] life = "down"    ->
                    /\ Says(c) \in {"stopped", "crashed", "failed_to_start"}
                    /\ poll[c].db = "running" => Says(c) # "stopped"

(* A console that finds a server dead reports the failure before it clears *)
(* the row that gives it away.                                             *)
CrashReported == (life = "down" /\ died = "badly" /\ cleared = "console") => reported

(* A server that stays down is not for ever called starting, running or    *)
(* stopping while a console polls, even if it died during the poll.        *)
VerdictSettles == <>[](life = "down") => <>[](last \notin AliveVerdicts)

(* docs/14: running is "process alive and a startup-complete line is       *)
(* present"; a stop line means that "it ran and is shutting down".         *)
UpMeansRunning == \A c \in Consoles : (Given(c) /\ life = "up") => Says(c) = "running"

=============================================================================

------------------------ MODULE ServerConsoleProofs ------------------------
(* Theorems about ServerConsole: any number of consoles and of runs, and   *)
(* any number of lines scanned.                                            *)
EXTENDS ServerConsole, TLAPS

USE ConsoleAssumption

----------------------------------------------------------------------------
(* The invariant                                                           *)

Within(log, mark) == \E i \in 1 .. Len(log) : log[i] = mark

(* A server that lives is on record as running.                            *)
Recorded == life # "down" => status = "running"

(* As long as the first run fits into the lines scanned, the managed log   *)
(* holds all of it; and the lines that go with a change of the server's    *)
(* life are where its life has got to, and not further.                    *)
FirstRun ==
    /\ runs = 0 => latest = <<>> /\ managed = <<>> /\ life = "down"
    /\ (runs = 1 /\ lines <= Scan) =>
          /\ Len(managed) = lines
          /\ life = "booting" => ~Scanned("done")
          /\ life \in {"booting", "up"} => ~Scanned("stop")
          /\ life = "up" => Within(managed, "done")
          /\ life = "closing" => Within(managed, "stop")

(* What a request has seen holds until the server does something; a row it *)
(* has seen running and dead is reported before it is reconciled.          *)
PollKnows(p) ==
    (p.pc # "idle" /\ p.steady) =>
        /\ p.actual = "running" => life # "down"
        /\ p.actual = "stopped" => life = "down"
        /\ p.db = "stopped" => status = "stopped"
        /\ (p.pc = "refresh" /\ p.actual = "stopped" /\ p.db = "running") => reported

ConsoleInv ==
    /\ TypeOK /\ Recorded /\ FirstRun
    /\ \A c \in Consoles : PollKnows(poll[c])
    /\ (life = "down" /\ cleared = "console") => reported

----------------------------------------------------------------------------
(* Logs                                                                    *)

Tails == UNION {[1 .. n -> Marks] : n \in 0 .. Scan}

LEMMA TailsAre ==
    ASSUME NEW log
    PROVE  log \in Tails <=> log \in Seq(Marks) /\ Len(log) <= Scan
<1>1. ASSUME log \in Tails PROVE log \in Seq(Marks) /\ Len(log) <= Scan
  <2>1. PICK n \in 0 .. Scan : log \in [1 .. n -> Marks]
    BY <1>1 DEF Tails
  <2>2. n \in Nat
    OBVIOUS
  <2>3. log \in Seq(Marks) /\ Len(log) = n
    BY <2>1, <2>2
  <2> QED BY <2>1, <2>3
<1>2. ASSUME log \in Seq(Marks), Len(log) <= Scan PROVE log \in Tails
  <2>1. Len(log) \in 0 .. Scan /\ log \in [1 .. Len(log) -> Marks]
    BY <1>2
  <2> QED BY <2>1 DEF Tails
<1> QED BY <1>1, <1>2

(* The last lines of a log are lines of it, and all of a short one.        *)
LEMMA LastLinesOf ==
    ASSUME NEW log \in Seq(Marks)
    PROVE  /\ LastLines(log) \in Tails
           /\ \A m : Within(LastLines(log), m) => Within(log, m)
           /\ Len(log) <= Scan => LastLines(log) = log
<1>1. CASE Len(log) <= Scan
  BY <1>1, TailsAre DEF LastLines
<1>2. CASE Len(log) > Scan
  <2> DEFINE from == Len(log) - Scan + 1
             tail == SubSeq(log, from, Len(log))
  <2>1. LastLines(log) = tail /\ from \in 1 .. Len(log)
    BY <1>2 DEF LastLines
  <2>2. tail \in Seq(Marks) /\ Len(tail) = Scan
    BY <2>1
  <2>3. \A i \in 1 .. Len(tail) : tail[i] = log[from + i - 1] /\ from + i - 1 \in 1 .. Len(log)
    BY <2>1, <2>2
  <2>4. \A m : Within(tail, m) => Within(log, m)
    BY <2>3 DEF Within
  <2> HIDE DEF tail
  <2>5. tail \in Tails
    BY <2>2, TailsAre
  <2> QED BY <1>2, <2>1, <2>4, <2>5
<1> QED BY <1>1, <1>2

(* A line that is written is the last one; it pushes out another only if   *)
(* there is no room for it.                                                *)
LEMMA Appended ==
    ASSUME NEW log \in Tails, NEW mark \in Marks
    PROVE  LET longer == LastLines(Append(log, mark)) IN
           /\ longer \in Tails
           /\ \A m : Within(longer, m) => m = mark \/ Within(log, m)
           /\ Len(log) < Scan =>
                 /\ Len(longer) = Len(log) + 1 /\ Within(longer, mark)
                 /\ \A m : Within(log, m) => Within(longer, m)
<1> DEFINE whole == Append(log, mark)
<1>1. log \in Seq(Marks) /\ Len(log) \in Nat /\ Len(log) <= Scan
  BY TailsAre
<1>2. /\ whole \in Seq(Marks) /\ Len(whole) = Len(log) + 1
      /\ whole[Len(log) + 1] = mark
      /\ \A i \in 1 .. Len(log) : whole[i] = log[i]
  BY <1>1
<1>3. \A m : Within(whole, m) <=> m = mark \/ Within(log, m)
  BY <1>1, <1>2 DEF Within
<1> HIDE DEF whole
<1>4. Len(log) < Scan => LastLines(whole) = whole
  <2>1. Len(log) < Scan => Len(whole) <= Scan
    BY <1>1, <1>2
  <2> QED BY <1>2, <2>1, LastLinesOf
<1>5. LastLines(whole) \in Tails /\ \A m : Within(LastLines(whole), m) => Within(whole, m)
  BY <1>2, LastLinesOf
<1>6. /\ \A m : Within(LastLines(whole), m) => m = mark \/ Within(log, m)
      /\ Len(log) < Scan =>
            /\ Len(LastLines(whole)) = Len(log) + 1 /\ Within(LastLines(whole), mark)
            /\ \A m : Within(log, m) => Within(LastLines(whole), m)
  BY <1>2, <1>3, <1>4, <1>5
<1> QED BY <1>5, <1>6 DEF whole

LEMMA EmptyLog == <<>> \in Tails /\ Len(<<>>) = 0 /\ \A m : ~Within(<<>>, m)
<1> DEFINE none == <<>>
<1>1. none \in Seq(Marks) /\ Len(none) = 0
  OBVIOUS
<1> HIDE DEF none
<1>2. \A m : ~Within(none, m)
  BY <1>1 DEF Within
<1>3. Len(none) <= Scan
  BY <1>1
<1>4. none \in Tails
  BY <1>1, <1>3, TailsAre
<1> QED BY <1>1, <1>2, <1>4 DEF none

----------------------------------------------------------------------------
(* Every step                                                              *)

LEMMA Logging ==
    ASSUME ConsoleInv, NEW mark \in Marks, Logged(mark)
    PROVE  /\ latest' \in Tails /\ managed' \in Tails /\ fresh' \in BOOLEAN
           /\ lines' \in 0 .. Scan + 1
           /\ \A m : Scanned(m)' => m = mark \/ Scanned(m)
           /\ lines' <= Scan =>
                 /\ lines' = lines + 1 /\ lines <= Scan
                 /\ runs = 1 => /\ Len(managed') = lines'
                               /\ Within(managed', mark)
                               /\ \A m : Within(managed, m) => Within(managed', m)
<1>1. /\ managed \in Tails /\ latest \in Tails /\ lines \in 0 .. Scan + 1
      /\ fresh \in BOOLEAN
  BY DEF ConsoleInv, TypeOK, Tails
<1> DEFINE before == IF fresh THEN <<>> ELSE latest
<1>2. before \in Tails /\ \A m : Within(before, m) => Within(latest, m)
  BY <1>1, EmptyLog
<1>3. managed' = LastLines(Append(managed, mark)) /\ latest' = LastLines(Append(before, mark))
  BY DEF Logged
<1> HIDE DEF before
<1>4. /\ managed' \in Tails /\ latest' \in Tails
      /\ \A m : Within(managed', m) => m = mark \/ Within(managed, m)
      /\ \A m : Within(latest', m) => m = mark \/ Within(latest, m)
  BY <1>1, <1>2, <1>3, Appended
<1>5. \A m : Scanned(m)' => m = mark \/ Scanned(m)
  BY <1>4 DEF Scanned, Within
<1>6. lines' \in 0 .. Scan + 1 /\ (lines' <= Scan => lines' = lines + 1 /\ lines < Scan)
  BY <1>1 DEF Logged, Counted
<1>7. ASSUME lines' <= Scan, runs = 1
      PROVE  /\ Len(managed') = lines' /\ Within(managed', mark)
             /\ \A m : Within(managed, m) => Within(managed', m)
  <2>1. Len(managed) = lines /\ Len(managed) < Scan
    BY <1>1, <1>6, <1>7 DEF ConsoleInv, FirstRun
  <2> QED BY <1>1, <1>3, <1>6, <1>7, <2>1, Appended
<1>8. fresh' \in BOOLEAN
  BY DEF Logged
<1> QED BY <1>1, <1>4, <1>5, <1>6, <1>7, <1>8

LEMMA ConsoleInit == Init => ConsoleInv
<1> SUFFICES ASSUME Init PROVE ConsoleInv
  OBVIOUS
<1>1. poll \in [Consoles -> PollStates] /\ \A c \in Consoles : poll[c] = IdlePoll
  BY DEF Init, PollStates, IdlePoll, Verdicts
<1>2. latest \in Tails /\ managed \in Tails
  BY EmptyLog DEF Init
<1>3. TypeOK
  <2>1. MaxRuns \in Nat /\ Scan \in Nat
    OBVIOUS
  <2>2. runs \in 0 .. MaxRuns /\ lines \in 0 .. Scan + 1
    BY <2>1 DEF Init
  <2>3. /\ life \in Alive \cup {"down"} /\ fresh \in BOOLEAN
        /\ status \in {"running", "stopped"} /\ last \in Verdicts
        /\ died \in {"never", "quietly", "badly"} /\ reported \in BOOLEAN
        /\ cleared \in {"nobody", "console", "other"}
    BY DEF Init, Verdicts
  <2> QED BY <1>1, <1>2, <2>2, <2>3 DEF TypeOK, Tails
<1>4. Recorded /\ FirstRun
  BY DEF Init, Recorded, FirstRun
<1>5. \A c \in Consoles : PollKnows(poll[c])
  BY <1>1 DEF PollKnows, IdlePoll
<1> QED BY <1>3, <1>4, <1>5 DEF ConsoleInv, Init

(* What the server does: no request can rely on what it has seen.          *)
LEMMA Moving ==
    ASSUME ConsoleInv, Moved
    PROVE  /\ poll' \in [Consoles -> PollStates]
           /\ \A c \in Consoles : PollKnows(poll[c])'
<1>1. poll \in [Consoles -> PollStates]
  BY DEF ConsoleInv, TypeOK
<1>2. \A c \in Consoles : poll'[c] \in PollStates /\ ~poll'[c].steady
  BY <1>1 DEF Moved, PollStates
<1>3. poll' \in [Consoles -> PollStates]
  BY <1>2 DEF Moved
<1> QED BY <1>2, <1>3 DEF PollKnows

LEMMA LaunchKeeps ==
    ASSUME ConsoleInv, Launch
    PROVE  ConsoleInv'
<1>1. /\ TypeOK /\ managed \in Tails /\ latest \in Tails
      /\ life' = "booting" /\ status' = "running"
      /\ runs' = runs + 1 /\ runs \in Nat /\ runs' \in 0 .. MaxRuns
      /\ fresh' = TRUE /\ lines' = 1 /\ latest' = latest
      /\ UNCHANGED <<last, died, reported, cleared>>
  BY DEF ConsoleInv, TypeOK, Tails, Launch, history
<1>2. managed' = LastLines(Append(managed, "noise")) /\ "noise" \in Marks
  BY DEF Launch, Marks
<1>3. managed' \in Tails
  BY <1>1, <1>2, Appended
<1>4. poll' \in [Consoles -> PollStates] /\ \A c \in Consoles : PollKnows(poll[c])'
  BY Moving DEF Launch
<1>5. TypeOK'
  BY <1>1, <1>3, <1>4 DEF TypeOK, Tails, Alive
<1>6. ASSUME runs' = 1
      PROVE  /\ Len(managed') = 1
             /\ \A m \in {"done", "stop"} : ~Within(managed', m) /\ ~Within(latest', m)
  <2>1. latest = <<>> /\ managed = <<>>
    BY <1>1, <1>6 DEF ConsoleInv, FirstRun
  <2>2. Len(managed) = 0 /\ \A m : ~Within(managed, m) /\ ~Within(latest, m)
    BY <2>1, EmptyLog
  <2>3. Len(managed) < Scan
    BY <2>2
  <2>4. /\ Len(managed') = Len(managed) + 1
        /\ \A m : Within(managed', m) => m = "noise" \/ Within(managed, m)
    BY <1>1, <1>2, <2>3, Appended
  <2> QED BY <1>1, <2>2, <2>4
<1>7. FirstRun'
  BY <1>1, <1>6 DEF FirstRun, Scanned, Within
<1> QED BY <1>1, <1>4, <1>5, <1>7 DEF ConsoleInv, Recorded

LEMMA WritesKeep ==
    ASSUME ConsoleInv, Writes
    PROVE  ConsoleInv'
<1>1. /\ TypeOK /\ life # "down" /\ managed \in Tails /\ latest \in Tails
      /\ UNCHANGED <<status, last, runs, died, reported, cleared>>
      /\ life' \in Alive
  BY DEF Writes, ConsoleInv, TypeOK, Tails, history, Alive
<1>2. poll' \in [Consoles -> PollStates] /\ \A c \in Consoles : PollKnows(poll[c])'
  BY Moving DEF Writes
<1>3. status = "running" /\ runs # 0 /\ life' # "down"
  BY <1>1 DEF ConsoleInv, Recorded, FirstRun, Alive
<1>4. SUFFICES /\ latest' \in Tails /\ managed' \in Tails /\ fresh' \in BOOLEAN
               /\ lines' \in 0 .. Scan + 1
               /\ FirstRun'
  <2> SUFFICES ASSUME latest' \in Tails, managed' \in Tails, fresh' \in BOOLEAN,
                      lines' \in 0 .. Scan + 1, FirstRun'
               PROVE  ConsoleInv'
    OBVIOUS
  <2>1. TypeOK'
    BY <1>1, <1>2 DEF TypeOK, Tails
  <2> QED BY <1>1, <1>2, <1>3, <2>1 DEF ConsoleInv, Recorded
<1>5. CASE LoggedByJvm("specific") /\ life = "booting" /\ life' = life
  <2>1. /\ managed' = LastLines(Append(managed, "specific")) /\ "specific" \in Marks
        /\ latest' = latest /\ fresh' = fresh /\ lines' = Counted(lines)
    BY <1>5 DEF LoggedByJvm, Marks
  <2>2. managed' \in Tails /\ \A m : Within(managed', m) => m = "specific" \/ Within(managed, m)
    BY <1>1, <2>1, Appended
  <2>3. lines' \in 0 .. Scan + 1 /\ (lines' <= Scan => lines' = lines + 1 /\ lines < Scan)
    BY <1>1, <2>1 DEF TypeOK, Counted
  <2>4. ASSUME runs' = 1, lines' <= Scan
        PROVE  Len(managed') = lines' /\ ~Scanned("done")' /\ ~Scanned("stop")'
    <3>1. runs = 1 /\ lines <= Scan
      BY <1>1, <2>3, <2>4 DEF TypeOK
    <3>2. Len(managed) = lines /\ ~Scanned("done") /\ ~Scanned("stop")
      BY <1>5, <3>1 DEF ConsoleInv, FirstRun
    <3>3. Len(managed') = Len(managed) + 1
      BY <1>1, <2>1, <2>3, <2>4, <3>2, Appended
    <3>4. \A m : Scanned(m)' => m = "specific" \/ Scanned(m)
      BY <2>1, <2>2 DEF Scanned, Within
    <3> QED BY <2>3, <2>4, <3>2, <3>3, <3>4
  <2> QED BY <1>1, <1>3, <1>5, <2>1, <2>2, <2>3, <2>4 DEF FirstRun, TypeOK
<1>6. ASSUME NEW mark \in Marks, Logged(mark),
             \/ mark \in {"noise", "generic"} /\ life' = life
             \/ mark = "specific" /\ life = "booting" /\ life' = life
             \/ mark = "done" /\ life = "booting" /\ life' = "up"
             \/ mark = "stop" /\ life = "up" /\ life' = "closing"
      PROVE  /\ latest' \in Tails /\ managed' \in Tails /\ fresh' \in BOOLEAN
             /\ lines' \in 0 .. Scan + 1
             /\ FirstRun'
  <2>1. /\ latest' \in Tails /\ managed' \in Tails /\ fresh' \in BOOLEAN
        /\ lines' \in 0 .. Scan + 1
        /\ \A m : Scanned(m)' => m = mark \/ Scanned(m)
        /\ lines' <= Scan =>
              /\ lines' = lines + 1 /\ lines <= Scan
              /\ runs = 1 => /\ Len(managed') = lines'
                            /\ Within(managed', mark)
                            /\ \A m : Within(managed, m) => Within(managed', m)
    BY <1>6, Logging
  <2>2. ASSUME runs' = 1, lines' <= Scan
        PROVE  /\ Len(managed') = lines'
               /\ life' = "booting" => ~Scanned("done")'
               /\ life' \in {"booting", "up"} => ~Scanned("stop")'
               /\ life' = "up" => Within(managed', "done")
               /\ life' = "closing" => Within(managed', "stop")
    <3>1. runs = 1 /\ lines <= Scan
      BY <1>1, <2>1, <2>2
    <3>2. /\ life = "booting" => ~Scanned("done")
          /\ life \in {"booting", "up"} => ~Scanned("stop")
          /\ life = "up" => Within(managed, "done")
          /\ life = "closing" => Within(managed, "stop")
      BY <3>1 DEF ConsoleInv, FirstRun
    <3>3. /\ Len(managed') = lines' /\ Within(managed', mark)
          /\ \A m : Within(managed, m) => Within(managed', m)
          /\ \A m : Scanned(m)' => m = mark \/ Scanned(m)
      BY <2>1, <2>2, <3>1
    <3> QED BY <1>6, <3>2, <3>3
  <2> QED BY <1>1, <1>3, <2>1, <2>2 DEF FirstRun
<1> QED BY <1>5, <1>6 DEF Writes, Marks

LEMMA ExitKeeps ==
    ASSUME ConsoleInv, Exit
    PROVE  ConsoleInv'
<1>1. /\ TypeOK /\ life # "down" /\ life' = "down" /\ reported' = FALSE
      /\ cleared' = "nobody" /\ died' \in {"quietly", "badly"}
      /\ UNCHANGED <<fresh, latest, managed, lines, status, last, runs>>
  BY DEF ConsoleInv, Exit, logs
<1>2. poll' \in [Consoles -> PollStates] /\ \A c \in Consoles : PollKnows(poll[c])'
  BY Moving DEF Exit
<1>3. TypeOK'
  BY <1>1, <1>2 DEF TypeOK
<1>4. FirstRun'
  BY <1>1 DEF ConsoleInv, FirstRun
<1> QED BY <1>1, <1>2, <1>3, <1>4 DEF ConsoleInv, Recorded

(* A step of one console, or of another page, changes neither the server   *)
(* nor its logs.                                                           *)
LEMMA PagesKeep ==
    ASSUME ConsoleInv, UNCHANGED <<life, logs, runs, died>>,
           status' \in {"running", "stopped"}, last' \in Verdicts, reported' \in BOOLEAN,
           cleared' \in {"nobody", "console", "other"},
           poll' \in [Consoles -> PollStates], Recorded',
           \A c \in Consoles : PollKnows(poll[c])',
           (life' = "down" /\ cleared' = "console") => reported'
    PROVE  ConsoleInv'
<1>1. UNCHANGED <<fresh, latest, managed, lines>>
  BY DEF logs
<1>2. TypeOK'
  BY <1>1 DEF ConsoleInv, TypeOK
<1>3. FirstRun'
  BY <1>1 DEF ConsoleInv, FirstRun, Scanned
<1> QED BY <1>2, <1>3 DEF ConsoleInv

LEMMA SaysVerdict ==
    ASSUME NEW c \in Consoles
    PROVE  /\ Says(c) \in Verdicts
           /\ (poll[c].actual = "stopped" /\ poll[c].db = "running") =>
                  Says(c) \in {"crashed", "failed_to_start"}
BY DEF Says, Verdict, LiveVerdict, DeadVerdict, Verdicts, AliveVerdicts

LEMMA PollKeeps ==
    ASSUME ConsoleInv, NEW c \in Consoles, Poll(c)
    PROVE  ConsoleInv'
<1>1. /\ TypeOK /\ poll \in [Consoles -> PollStates]
      /\ poll[c] \in PollStates
      /\ \A d \in Consoles : PollKnows(poll[d])
  BY DEF ConsoleInv, TypeOK
<1>2. CASE PollArrive(c)
  <2>1. UNCHANGED <<life, logs, status, last, runs, died, reported, cleared>>
    BY <1>2 DEF PollArrive, history
  <2> PICK actual \in (IF status = "running" THEN {"unknown"} ELSE {}) \cup
                       {IF status = "running" /\ life # "down" THEN "running"
                        ELSE "stopped"} :
          poll' = [poll EXCEPT ![c] = [pc |-> "evaluate", db |-> status,
                      actual |-> actual, seen |-> last, steady |-> TRUE]]
    BY <1>2 DEF PollArrive
  <2>2. /\ actual \in {"running", "stopped", "unknown"}
        /\ actual = "running" => life # "down"
        /\ actual = "stopped" => life = "down"
    BY DEF ConsoleInv, TypeOK, Recorded
  <2>3. poll' \in [Consoles -> PollStates]
    BY <1>1, <2>2 DEF TypeOK, PollStates
  <2>4. PollKnows(poll[c])'
    BY <1>1, <2>1, <2>2 DEF PollKnows, ConsoleInv, Recorded
  <2>5. \A d \in Consoles \ {c} : PollKnows(poll[d])'
    BY <1>1, <2>1, <2>2 DEF PollKnows
  <2> QED BY <2>1, <2>3, <2>4, <2>5, PagesKeep DEF ConsoleInv, TypeOK, Recorded
<1>3. CASE Evaluate(c)
  <2>1. /\ UNCHANGED <<life, logs, status, runs, died, cleared>>
        /\ poll[c].pc = "evaluate" /\ poll' = [poll EXCEPT ![c].pc = "refresh"]
        /\ last' \in {last, Says(c)}
        /\ reported' = (reported \/ (life = "down" /\ Says(c) \in {"crashed", "failed_to_start"}))
    BY <1>3 DEF Evaluate
  <2>2. poll' \in [Consoles -> PollStates] /\ last' \in Verdicts /\ reported' \in BOOLEAN
    BY <1>1, <2>1, SaysVerdict DEF TypeOK, PollStates
  <2>3. PollKnows(poll[c])'
    BY <1>1, <2>1, SaysVerdict DEF PollKnows, PollStates
  <2>4. \A d \in Consoles \ {c} : PollKnows(poll[d])'
    BY <1>1, <2>1 DEF PollKnows
  <2> QED BY <2>1, <2>2, <2>3, <2>4, PagesKeep DEF ConsoleInv, TypeOK, Recorded
<1>4. CASE PollRefresh(c)
  <2>1. /\ UNCHANGED <<life, logs, last, runs, died, reported>>
        /\ poll[c].pc = "refresh" /\ poll' = [poll EXCEPT ![c] = IdlePoll]
        /\ status' = IF life = "down" THEN "stopped" ELSE status
        /\ cleared' = IF status' = status THEN cleared
                      ELSE IF poll[c].actual = "stopped" /\ poll[c].steady THEN "console"
                      ELSE "other"
    BY <1>4 DEF PollRefresh
  <2>2. poll' \in [Consoles -> PollStates]
    BY <1>1, <2>1 DEF PollStates, IdlePoll, Verdicts
  <2>3. \A d \in Consoles : PollKnows(poll[d])'
    BY <1>1, <2>1 DEF PollKnows, IdlePoll
  <2>4. (life' = "down" /\ cleared' = "console") => reported'
    BY <1>1, <2>1 DEF ConsoleInv, TypeOK, PollKnows, PollStates
  <2> QED BY <2>1, <2>2, <2>3, <2>4, PagesKeep DEF ConsoleInv, TypeOK, Recorded
<1> QED BY <1>2, <1>3, <1>4 DEF Poll

LEMMA OtherRefreshKeeps ==
    ASSUME ConsoleInv, OtherRefresh
    PROVE  ConsoleInv'
<1>1. /\ UNCHANGED <<life, logs, last, poll, runs, died, reported>>
      /\ status' = "stopped" /\ cleared' = "other" /\ life = "down"
  BY DEF OtherRefresh
<1>2. \A c \in Consoles : PollKnows(poll[c])'
  BY <1>1 DEF ConsoleInv, PollKnows
<1> QED BY <1>1, <1>2, PagesKeep DEF ConsoleInv, TypeOK, Recorded

LEMMA ConsoleStep == ConsoleInv /\ [Next]_vars => ConsoleInv'
<1> SUFFICES ASSUME ConsoleInv, [Next]_vars PROVE ConsoleInv'
  OBVIOUS
<1>1. CASE Next
  BY <1>1, PollKeeps, OtherRefreshKeeps, LaunchKeeps, WritesKeep, ExitKeeps DEF Next
<1>2. CASE UNCHANGED vars
  <2>1. UNCHANGED <<life, fresh, latest, managed, lines, status, last, poll, runs,
                    died, reported, cleared>>
    BY <1>2 DEF vars, logs, history
  <2> QED BY <2>1
        DEF ConsoleInv, TypeOK, Recorded, FirstRun, Scanned, Within, PollKnows
<1> QED BY <1>1, <1>2

LEMMA ConsoleAlways == Spec => []ConsoleInv
BY ConsoleInit, ConsoleStep, PTL DEF Spec

----------------------------------------------------------------------------
(* What the console promises                                               *)

(* However many consoles poll and other pages refresh, over any number of  *)
(* runs, rows, requests, verdicts and both logs keep their types, and a    *)
(* log never exceeds the lines that are scanned (server_console.py).       *)
THEOREM TypeCorrect == Spec => []TypeOK
<1>1. ConsoleInv => TypeOK
  BY DEF ConsoleInv
<1> QED BY <1>1, ConsoleAlways, PTL

(* _classify judges the first run rightly until its first lines leave the  *)
(* scanned tail, however many lines that are and whatever errors are       *)
(* logged on the way.                                                      *)
THEOREM FirstRunJudged == Spec => []FirstRunTruth
<1>1. ASSUME ConsoleInv, NEW c \in Consoles, Given(c), runs = 1, lines <= Scan
      PROVE  /\ life = "up" => Says(c) = "running"
             /\ life = "closing" => Says(c) = "stopping"
             /\ life = "booting" => Says(c) \in {"starting", "crashed", "failed_to_start"}
             /\ life = "down" => /\ Says(c) \in {"stopped", "crashed", "failed_to_start"}
                                 /\ poll[c].db = "running" => Says(c) # "stopped"
  <2>1. /\ PollKnows(poll[c]) /\ poll[c] \in PollStates
        /\ life = "booting" => ~Scanned("done")
        /\ life \in {"booting", "up"} => ~Scanned("stop")
        /\ life = "up" => Within(managed, "done")
        /\ life = "closing" => Within(managed, "stop")
    BY <1>1 DEF ConsoleInv, TypeOK, FirstRun
  <2>2. /\ life = "up" => Scanned("done")
        /\ life = "closing" => Scanned("stop")
    BY <2>1 DEF Scanned, Within
  <2>3. /\ life # "down" => Says(c) = LiveVerdict
        /\ life = "down" => Says(c) = DeadVerdict(poll[c].db)
    BY <1>1, <2>1 DEF Given, PollKnows, PollStates, Says, Verdict
  <2> QED BY <2>1, <2>2, <2>3 DEF LiveVerdict, DeadVerdict
<1>2. ConsoleInv => FirstRunTruth
  <2> SUFFICES ASSUME ConsoleInv, NEW c \in Consoles, Given(c), runs = 1, lines <= Scan
               PROVE  CASE life = "up"      -> Says(c) = "running"
                        [] life = "closing" -> Says(c) = "stopping"
                        [] life = "booting" -> Says(c) \in {"starting", "crashed", "failed_to_start"}
                        [] life = "down"    ->
                              /\ Says(c) \in {"stopped", "crashed", "failed_to_start"}
                              /\ poll[c].db = "running" => Says(c) # "stopped"
    BY DEF FirstRunTruth
  <2>1. life \in {"up", "closing", "booting", "down"}
    BY DEF ConsoleInv, TypeOK, Alive
  <2>2. CASE life = "up"
    BY <1>1, <2>2
  <2>3. CASE life = "closing"
    BY <1>1, <2>3
  <2>4. CASE life = "booting"
    BY <1>1, <2>4
  <2>5. CASE life = "down"
    <3>1. /\ Says(c) \in {"stopped", "crashed", "failed_to_start"}
          /\ poll[c].db = "running" => Says(c) # "stopped"
      BY <1>1, <2>5
    <3> HIDE DEF Says
    <3>2. life # "up" /\ life # "closing" /\ life # "booting"
      BY <2>5
    <3> QED BY <2>5, <3>1, <3>2, Zenon
  <2> QED BY <2>1, <2>2, <2>3, <2>4, <2>5
<1> QED BY <1>2, ConsoleAlways, PTL

(* console_status evaluates before it refreshes: a console that clears the *)
(* row of a server it has found dead has told of the failure.              *)
THEOREM CrashesReported == Spec => []CrashReported
<1>1. ConsoleInv => CrashReported
  BY DEF ConsoleInv, CrashReported
<1> QED BY <1>1, ConsoleAlways, PTL

=============================================================================

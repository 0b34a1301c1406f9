--------------------------- MODULE SchedulerProofs ---------------------------
(* Theorems about Scheduler: any number of servers, any length of a day,   *)
(* any schedules and every fault.                                          *)
EXTENDS Scheduler, TLAPS

----------------------------------------------------------------------------
(* The invariant                                                           *)

ZipPass == {"zips", "zip_work", "zip_commit", "zip_except"}
SnapPass == {"snaps", "snap_work"}

(* Nothing is stored that lies ahead of the clock, and nothing is recorded *)
(* during a pass that lies ahead of the instant it works for.              *)
ClockInv ==
    /\ tick.now <= clock /\ tick.due <= clock
    /\ tick.pc \in ZipPass \cup SnapPass => tick.now # Never
    /\ \A s \in Servers :
          /\ last[s] <= clock /\ snap[s] <= clock
          /\ tick.pc \in ZipPass \cup SnapPass => last[s] <= tick.now

(* The last instant worked on is recorded, but for that of a zip which is  *)
(* made and not yet committed; and so is every daily snapshot.             *)
OnceInv ==
    /\ lost = 0 => tick.pc # "down"
    /\ lost = 0 => \A s \in Servers :
          made[s] <= IF tick.pc \in {"zip_commit", "zip_except"} /\ s \in tick.cur
                     THEN tick.now ELSE last[s]
    /\ tick.pc = "zip_work" => tick.due <= tick.now
    /\ \A s \in Servers : taken[s] <= snap[s]
    /\ OncePerInstant

(* The rows a session has are those of the database, but for an edit since *)
(* the pass began.                                                         *)
SeenInv ==
    \A s \in Servers : since[s] < tick.now =>
        /\ tick.pc \in ZipPass => PlanSeen(s) = plan[s]
        /\ tick.pc \in SnapPass => DailySeen(s) = daily[s]

(* Whatever is no longer to do has been served.                            *)
ZipsDone ==
    (tick.pc \in ZipPass \cup SnapPass /\ lost = 0) =>
        \A s \in Servers :
            (since[s] < tick.now /\ (tick.pc \in ZipPass => s \notin tick.todo \cup tick.cur))
               => UpToDate(s, tick.now)

Covered(s) == looked[s] = tick.now \/ (snap[s] # Never /\ snap[s] + Dedup > tick.now)

DailiesDone ==
    (tick.pc \in SnapPass \cup {"sleep"} /\ tick.now # Never) =>
        \A s \in Servers :
            (Wanted(s, tick.now) /\ daily[s].padded /\ s \notin tick.todo) => Covered(s)

SchedulerInv == TypeOK /\ ClockInv /\ OnceInv /\ SeenInv /\ ZipsDone /\ DailiesDone

----------------------------------------------------------------------------
(* Times and records                                                       *)

LEMMA Numbers ==
    /\ Day \in Nat \ {0} /\ Dedup \in Nat \ {0} /\ MaxTime \in Nat /\ MaxTime >= Day
    /\ MaxEdits \in Nat /\ MaxLost \in Nat
    /\ Times \subseteq Nat \ {0} /\ Times \subseteq 0 .. MaxTime /\ Never = 0 /\ Day \in Times
BY SchedulerAssumption DEF Times, Never

LEMMA PlanTyped ==
    ASSUME NEW p \in Plans
    PROVE  /\ p.enabled \in BOOLEAN /\ p.type \in {"daily", "interval"} /\ p.minute \in Nat
           /\ p.type = "interval" => p.minute > 0
BY SchedulerAssumption DEF PlanRecords

(* An instant of a day of the model is later than "never".                 *)
LEMMA InstantOf ==
    ASSUME NEW p \in Plans, NEW now \in Times
    PROVE  /\ ScheduledToday(p, now) \in Nat /\ ScheduledToday(p, now) >= Day
           /\ Instant(p, now) \in Nat /\ Instant(p, now) >= Day
<1> DEFINE q == now \div Day
<1>1. Day \in Nat \ {0} /\ now \in Nat /\ now >= Day /\ p.minute \in Nat
  BY Numbers, PlanTyped DEF Times
<1>2. q \in Nat /\ q >= 1
  <2>1. now = Day * q + (now % Day) /\ now % Day \in 0 .. Day - 1 /\ q \in Nat
    BY <1>1
  <2>2. q # 0
    BY <1>1, <2>1
  <2> QED
    BY <2>1, <2>2
<1> HIDE DEF q
<1>3. q * Day \in Nat /\ q * Day >= Day
  <2>1. q - 1 \in Nat /\ q = (q - 1) + 1
    BY <1>2
  <2>2. q * Day = (q - 1) * Day + Day /\ (q - 1) * Day >= 0
    BY <1>1, <2>1
  <2> QED
    BY <1>1, <1>2, <2>2
<1>4. ScheduledToday(p, now) = q * Day + p.minute
  BY DEF ScheduledToday, q
<1> QED
  BY <1>1, <1>3, <1>4 DEF Instant

Ticks == [pc : {"down", "sleep", "zips", "zip_commit", "zip_except", "snaps"} \cup Working,
          now : Times \cup {Never}, todo : SUBSET Servers,
          plans : [Servers -> Plans] \cup {Expired},
          dailies : [Servers -> Dailies] \cup {Expired},
          due : Times \cup {Never}, wake : 0 .. MaxTime + 2,
          cur : {{}} \cup {{s} : s \in Servers}]

LEMMA Typed ==
    ASSUME TypeOK
    PROVE  /\ tick \in Ticks /\ clock \in Times /\ lost \in Nat
           /\ plan \in [Servers -> Plans] /\ daily \in [Servers -> Dailies]
           /\ last \in [Servers -> Times \cup {Never}] /\ snap \in [Servers -> Times \cup {Never}]
           /\ made \in [Servers -> Times \cup {Never}] /\ taken \in [Servers -> Times \cup {Never}]
           /\ looked \in [Servers -> Times \cup {Never}] /\ since \in [Servers -> Times]
           /\ tick.pc \in Working \cup {"zip_commit", "zip_except"} <=> tick.cur # {}
           /\ tick.pc \in {"down", "sleep"} => tick.todo = {}
BY DEF TypeOK, Ticks

LEMMA AsleepTyped ==
    ASSUME NEW at \in 0 .. MaxTime + 2
    PROVE  /\ Asleep(at) \in Ticks /\ Asleep(at).pc = "sleep" /\ Asleep(at).now = Never
           /\ Asleep(at).todo = {} /\ Asleep(at).due = Never /\ Asleep(at).cur = {}
BY DEF Asleep, Ticks

LEMMA SeenTyped ==
    ASSUME TypeOK, NEW s \in Servers
    PROVE  PlanSeen(s) \in Plans /\ DailySeen(s) \in Dailies
<1>1. /\ tick.plans \in [Servers -> Plans] \cup {Expired}
      /\ tick.dailies \in [Servers -> Dailies] \cup {Expired}
  BY Typed DEF Ticks
<1>2. DOMAIN Expired = {}
  BY DEF Expired
<1> QED
  BY <1>1, <1>2, Typed DEF PlanSeen, DailySeen

----------------------------------------------------------------------------
(* The beginning                                                           *)

LEMMA InitInv == Init => SchedulerInv
<1> SUFFICES ASSUME Init PROVE SchedulerInv
  OBVIOUS
<1>1. clock = Day /\ clock \in Times /\ clock \in 0 .. MaxTime + 2
  BY Numbers DEF Init
<1>2. /\ tick = Asleep(clock) /\ tick \in Ticks /\ tick.pc = "sleep" /\ tick.now = Never
      /\ tick.todo = {} /\ tick.due = Never /\ tick.cur = {}
  BY <1>1, AsleepTyped DEF Init
<1>3. TypeOK
  BY <1>1, <1>2, Numbers DEF Init, TypeOK, Ticks, Working
<1>4. ClockInv /\ OnceInv /\ SeenInv /\ ZipsDone /\ DailiesDone
  BY <1>1, <1>2, Numbers DEF Init, ClockInv, OnceInv, OncePerInstant, ZipOncePerInstant,
     DailyApart, SeenInv, ZipsDone, DailiesDone, ZipPass, SnapPass
<1> QED
  BY <1>3, <1>4 DEF SchedulerInv

----------------------------------------------------------------------------
(* Types                                                                   *)

LEMMA TypeRule ==
    ASSUME clock' \in Times, tick' \in Ticks, lost' \in 0 .. MaxLost, edits' \in 0 .. MaxEdits,
           plan' \in [Servers -> Plans], daily' \in [Servers -> Dailies],
           last' \in [Servers -> Times \cup {Never}], snap' \in [Servers -> Times \cup {Never}],
           made' \in [Servers -> Times \cup {Never}], taken' \in [Servers -> Times \cup {Never}],
           looked' \in [Servers -> Times \cup {Never}], since' \in [Servers -> Times],
           tick'.pc \in Working \cup {"zip_commit", "zip_except"} <=> tick'.cur # {},
           tick'.pc \in {"down", "sleep"} => tick'.todo = {}
    PROVE  TypeOK'
BY DEF TypeOK, Ticks

(* The loop of the thread.                                                 *)
LEMMA LoopTyped ==
    ASSUME TypeOK, \/ StartScheduler \/ TickStart \/ RunDailies \/ TickEnd \/ Crash \/ Minute
    PROVE  TypeOK'
<1>1. clock \in 0 .. MaxTime + 2 /\ clock + 1 \in 0 .. MaxTime + 2
      /\ clock + 2 \in 0 .. MaxTime + 2 /\ 0 \in 0 .. MaxTime + 2
  <2>1. clock \in Times
    BY Typed
  <2>2. clock \in Nat /\ clock <= MaxTime /\ MaxTime \in Nat
    BY <2>1, Numbers DEF Times
  <2> QED
    BY <2>2
<1>2. CASE StartScheduler
  BY <1>1, <1>2, AsleepTyped, TypeRule, Typed
  DEF TypeOK, StartScheduler, records, history, Working
<1>3. CASE TickStart
  <2>1. tick' = [tick EXCEPT !.pc = "zips", !.now = clock, !.plans = plan,
                             !.todo = {s \in Servers : plan[s].enabled}]
    BY <1>3 DEF TickStart
  <2>2. tick' \in Ticks /\ tick'.pc = "zips" /\ tick'.cur = tick.cur /\ tick.cur = {}
    BY <1>3, <2>1, Typed DEF Ticks, TickStart, Working
  <2> QED
    BY <1>3, <2>2, TypeRule, Typed DEF TypeOK, TickStart, records, history, Working
<1>4. CASE RunDailies
  <2>1. tick' = [tick EXCEPT !.pc = "snaps", !.dailies = daily, !.plans = Expired,
                             !.todo = {s \in Servers : daily[s].enabled}]
    BY <1>4 DEF RunDailies
  <2>2. tick' \in Ticks /\ tick'.pc = "snaps" /\ tick'.cur = tick.cur /\ tick.cur = {}
    BY <1>4, <2>1, Typed DEF Ticks, RunDailies, Working
  <2> QED
    BY <1>4, <2>2, TypeRule, Typed DEF TypeOK, RunDailies, records, history, Working
<1>5. CASE TickEnd
  <2>1. PICK at \in 0 .. MaxTime + 2 : tick' = [Asleep(at) EXCEPT !.now = tick.now]
    BY <1>1, <1>5 DEF TickEnd
  <2>2. tick' \in Ticks /\ tick'.pc = "sleep" /\ tick'.cur = {} /\ tick'.todo = {}
    BY <2>1, AsleepTyped, Typed DEF Ticks
  <2> QED
    BY <1>5, <2>2, TypeRule, Typed DEF TypeOK, TickEnd, records, history, Working
<1>6. CASE Crash
  <2>1. tick' = [Asleep(0) EXCEPT !.pc = "down"] /\ lost' = lost + 1 /\ lost < MaxLost
    BY <1>6 DEF Crash
  <2>2. tick' \in Ticks /\ tick'.pc = "down" /\ tick'.cur = {} /\ tick'.todo = {}
    BY <1>1, <2>1, AsleepTyped DEF Ticks
  <2>3. lost' \in 0 .. MaxLost
    BY <2>1, Numbers DEF TypeOK
  <2> QED
    BY <1>6, <2>2, <2>3, TypeRule, Typed DEF TypeOK, Crash, records, Working
<1>7. CASE Minute
  <2>1. clock' \in Times
    BY <1>7, Typed, Numbers DEF Minute, Times
  <2> QED
    BY <1>7, <2>1, TypeRule, Typed DEF TypeOK, Minute, records, history
<1> QED
  BY <1>2, <1>3, <1>4, <1>5, <1>6, <1>7

(* The turn of a zip schedule.                                             *)
LEMMA ZipTyped ==
    ASSUME TypeOK, NEW s \in Servers,
           NotDue(s) \/ RunDueBackup(s) \/ ZipMade(s) \/ RecordOutcome(s) \/ RecordFailure(s)
    PROVE  TypeOK'
<1>1. CASE NotDue(s)
  <2>1. tick' = [tick EXCEPT !.todo = @ \ {s}] /\ tick.pc = "zips"
    BY <1>1 DEF NotDue
  <2>2. tick' \in Ticks /\ tick'.pc = "zips" /\ tick'.cur = tick.cur
    BY <2>1, Typed DEF Ticks
  <2> QED
    BY <1>1, <2>1, <2>2, TypeRule, Typed DEF TypeOK, NotDue, records, history, Working
<1>2. CASE RunDueBackup(s)
  <2>1. /\ tick' = [tick EXCEPT !.pc = "zip_work", !.todo = @ \ {s}, !.cur = {s},
                                !.due = Instant(PlanSeen(s), tick.now)]
        /\ IsDue(PlanSeen(s), last[s], tick.now)
    BY <1>2 DEF RunDueBackup
  <2>2. PlanSeen(s) \in Plans /\ tick.now \in Times \cup {Never}
    BY SeenTyped, Typed DEF Ticks
  <2>3. Instant(PlanSeen(s), tick.now) \in Times \cup {Never}
    <3>1. CASE tick.now = Never
      <4>1. ScheduledToday(PlanSeen(s), Never) = PlanSeen(s).minute
        BY <2>2, Numbers, PlanTyped DEF ScheduledToday
      <4> QED
        BY <2>1, <2>2, <3>1, <4>1, PlanTyped, Numbers DEF IsDue, Instant
    <3>2. CASE tick.now # Never
      <4>1. tick.now \in Times
        BY <2>2, <3>2
      <4> QED
        BY <2>1, <2>2, <4>1, InstantOf, PlanTyped, Numbers DEF IsDue, Instant, Times
    <3> QED
      BY <3>1, <3>2
  <2>4. tick' \in Ticks /\ tick'.pc = "zip_work" /\ tick'.cur = {s}
    BY <2>1, <2>3, Typed DEF Ticks, Working
  <2> QED
    BY <1>2, <2>4, TypeRule, Typed DEF TypeOK, RunDueBackup, records, history, Working
<1>3. CASE ZipMade(s)
  <2>1. PICK pc \in {"zip_commit", "zip_except"} : tick' = [tick EXCEPT !.pc = pc, !.plans = Expired]
    BY <1>3 DEF ZipMade
  <2>2. tick' \in Ticks /\ tick'.pc = pc /\ tick'.cur = {s}
    BY <1>3, <2>1, Typed DEF Ticks, ZipMade
  <2>3. made' \in [Servers -> Times \cup {Never}]
    BY <1>3, Typed DEF ZipMade, Ticks
  <2> QED
    BY <1>3, <2>2, <2>3, TypeRule, Typed DEF TypeOK, ZipMade, records
<1>4. CASE RecordOutcome(s) \/ RecordFailure(s)
  <2>1. PICK pc \in {"zips", "zip_except"} :
           \/ pc = "zips" /\ tick' = [tick EXCEPT !.pc = "zips", !.cur = {}, !.due = Never]
           \/ pc = "zip_except" /\ tick' = [tick EXCEPT !.pc = "zip_except"] /\ tick.cur = {s}
    BY <1>4 DEF RecordOutcome, RecordFailure, NextSchedule
  <2>2. tick' \in Ticks /\ tick'.pc = pc /\ (tick'.cur # {} <=> pc = "zip_except")
    BY <2>1, Typed DEF Ticks
  <2>3. last' \in [Servers -> Times \cup {Never}]
    BY <1>4, Typed DEF RecordOutcome, RecordFailure, Ticks
  <2>4. lost' \in 0 .. MaxLost
    BY <1>4, Numbers DEF TypeOK, RecordOutcome, RecordFailure, history
  <2> QED
    BY <1>4, <2>2, <2>3, <2>4, TypeRule, Typed
    DEF TypeOK, RecordOutcome, RecordFailure, history, Working
<1> QED
  BY <1>1, <1>2, <1>3, <1>4

(* The turn of a daily snapshot, and the administrator.                    *)
LEMMA DailyStepTyped ==
    ASSUME TypeOK, NEW s \in Servers,
           \/ DailyNotDue(s) \/ RunDaily(s) \/ DailyTaken(s) \/ OtherSnapshot(s)
           \/ \E p \in Plans : SaveSchedule(s, p)
           \/ \E d \in Dailies : BackupSettings(s, d)
    PROVE  TypeOK'
<1>1. CASE DailyNotDue(s)
  <2>1. tick' = [tick EXCEPT !.todo = @ \ {s}] /\ tick.pc = "snaps"
    BY <1>1 DEF DailyNotDue
  <2>2. tick' \in Ticks /\ tick'.pc = "snaps" /\ tick'.cur = tick.cur
    BY <2>1, Typed DEF Ticks
  <2> QED
    BY <1>1, <2>1, <2>2, TypeRule, Typed DEF TypeOK, DailyNotDue, records, history, Working
<1>2. CASE RunDaily(s)
  <2>1. tick' = [tick EXCEPT !.pc = "snap_work", !.todo = @ \ {s}, !.cur = {s}, !.due = clock]
    BY <1>2 DEF RunDaily
  <2>2. tick' \in Ticks /\ tick'.pc = "snap_work" /\ tick'.cur = {s}
    BY <2>1, Typed DEF Ticks, Working
  <2>3. looked' \in [Servers -> Times \cup {Never}]
    BY <1>2, Typed DEF RunDaily, Ticks
  <2> QED
    BY <1>2, <2>2, <2>3, TypeRule, Typed DEF TypeOK, RunDaily, records, Working
<1>3. CASE DailyTaken(s)
  <2>1. tick' = [tick EXCEPT !.pc = "snaps", !.cur = {}, !.due = Never, !.dailies = Expired]
    BY <1>3 DEF DailyTaken
  <2>2. tick' \in Ticks /\ tick'.pc = "snaps" /\ tick'.cur = {}
    BY <2>1, Typed DEF Ticks
  <2>3. /\ snap' \in [Servers -> Times \cup {Never}]
        /\ taken' \in [Servers -> Times \cup {Never}]
    BY <1>3, Typed DEF DailyTaken, Ticks
  <2> QED
    BY <1>3, <2>2, <2>3, TypeRule, Typed DEF TypeOK, DailyTaken, Working
<1>4. CASE OtherSnapshot(s)
  <2>1. /\ snap' \in [Servers -> Times \cup {Never}] /\ edits' \in 0 .. MaxEdits
    BY <1>4, Typed, Numbers DEF OtherSnapshot, TypeOK
  <2> QED
    BY <1>4, <2>1, TypeRule, Typed DEF TypeOK, OtherSnapshot
<1>5. ASSUME Edited(s),
             \/ UNCHANGED daily /\ \E p \in Plans : plan' = [plan EXCEPT ![s] = p]
             \/ UNCHANGED plan /\ \E d \in Dailies : daily' = [daily EXCEPT ![s] = d]
      PROVE  TypeOK'
  <2>1. since' \in [Servers -> Times] /\ edits' \in 0 .. MaxEdits
    BY <1>5, Typed, Numbers DEF Edited, TypeOK
  <2>2. plan' \in [Servers -> Plans] /\ daily' \in [Servers -> Dailies]
    BY <1>5, Typed
  <2> QED
    BY <1>5, <2>1, <2>2, TypeRule, Typed DEF TypeOK, Edited
<1> QED
  BY <1>1, <1>2, <1>3, <1>4, <1>5 DEF SaveSchedule, BackupSettings

(* What each step does to the thread, field by field.                      *)
LEMMA TickStepFields ==
    ASSUME TypeOK
    PROVE  /\ TickStart => /\ tick'.pc = "zips" /\ tick'.now = clock /\ tick'.cur = {}
                          /\ tick'.due = tick.due /\ tick'.plans = plan
                          /\ tick'.todo = {s \in Servers : plan[s].enabled}
           /\ RunDailies => /\ tick'.pc = "snaps" /\ tick'.now = tick.now /\ tick'.cur = {}
                           /\ tick'.due = tick.due /\ tick'.dailies = daily
                           /\ tick'.todo = {s \in Servers : daily[s].enabled}
           /\ TickEnd => /\ tick'.pc = "sleep" /\ tick'.now = tick.now /\ tick'.cur = {}
                        /\ tick'.due = Never /\ tick'.todo = {}
           /\ Crash => tick'.pc = "down" /\ tick'.now = Never /\ tick'.due = Never /\ tick'.todo = {}
           /\ StartScheduler => tick'.pc = "sleep" /\ tick'.now = Never /\ tick'.due = Never
<1>1. tick \in Ticks
  BY Typed
<1>2. tick.pc \in {"zips", "sleep"} => tick.cur = {}
  BY Typed DEF Working
<1>3. TickStart => /\ tick'.pc = "zips" /\ tick'.now = clock /\ tick'.cur = {}
                   /\ tick'.due = tick.due /\ tick'.plans = plan
                   /\ tick'.todo = {s \in Servers : plan[s].enabled}
  BY <1>1, <1>2 DEF TickStart, Ticks
<1>4. RunDailies => /\ tick'.pc = "snaps" /\ tick'.now = tick.now /\ tick'.cur = {}
                    /\ tick'.due = tick.due /\ tick'.dailies = daily
                    /\ tick'.todo = {s \in Servers : daily[s].enabled}
  BY <1>1, <1>2 DEF RunDailies, Ticks
<1> QED
  BY <1>3, <1>4 DEF TickEnd, Crash, StartScheduler, Asleep

LEMMA ZipStepFields ==
    ASSUME TypeOK, NEW s \in Servers
    PROVE  /\ NotDue(s) => /\ tick'.pc = "zips" /\ tick'.now = tick.now /\ tick'.cur = tick.cur
                          /\ tick.cur = {} /\ tick'.due = tick.due /\ tick'.plans = tick.plans
                          /\ tick'.todo = tick.todo \ {s}
           /\ RunDueBackup(s) => /\ tick'.pc = "zip_work" /\ tick'.now = tick.now
                                /\ tick'.cur = {s} /\ tick.cur = {}
                                /\ tick'.due = Instant(PlanSeen(s), tick.now)
                                /\ tick'.plans = tick.plans /\ tick'.todo = tick.todo \ {s}
           /\ ZipMade(s) => /\ tick'.pc \in {"zip_commit", "zip_except"} /\ tick'.now = tick.now
                           /\ tick'.cur = {s} /\ tick'.due = tick.due
                           /\ tick'.plans = Expired /\ tick'.todo = tick.todo
           /\ RecordOutcome(s) \/ RecordFailure(s) =>
                 /\ tick.cur = {s} /\ tick'.now = tick.now /\ tick'.plans = tick.plans
                 /\ tick'.todo = tick.todo /\ tick'.due \in {tick.due, Never}
                 /\ \/ tick'.pc = "zips" /\ tick'.cur = {}
                    \/ /\ tick'.pc = "zip_except" /\ tick.pc = "zip_commit"
                       /\ tick'.cur = {s} /\ UNCHANGED <<last, lost>>
<1>1. tick \in Ticks
  BY Typed
<1>2. tick.pc = "zips" => tick.cur = {}
  BY Typed DEF Working
<1>3. NotDue(s) => /\ tick'.pc = "zips" /\ tick'.now = tick.now /\ tick'.cur = tick.cur
                   /\ tick.cur = {} /\ tick'.due = tick.due /\ tick'.plans = tick.plans
                   /\ tick'.todo = tick.todo \ {s}
  BY <1>1, <1>2 DEF NotDue, Ticks
<1>4. RunDueBackup(s) => /\ tick'.pc = "zip_work" /\ tick'.now = tick.now
                         /\ tick'.cur = {s} /\ tick.cur = {}
                         /\ tick'.due = Instant(PlanSeen(s), tick.now)
                         /\ tick'.plans = tick.plans /\ tick'.todo = tick.todo \ {s}
  BY <1>1, <1>2 DEF RunDueBackup, Ticks
<1>5. ZipMade(s) => /\ tick'.pc \in {"zip_commit", "zip_except"} /\ tick'.now = tick.now
                    /\ tick'.cur = {s} /\ tick'.due = tick.due
                    /\ tick'.plans = Expired /\ tick'.todo = tick.todo
  BY <1>1 DEF ZipMade, Ticks
<1>6. RecordOutcome(s) \/ RecordFailure(s) =>
          /\ tick.cur = {s} /\ tick'.now = tick.now /\ tick'.plans = tick.plans
          /\ tick'.todo = tick.todo /\ tick'.due \in {tick.due, Never}
          /\ \/ tick'.pc = "zips" /\ tick'.cur = {}
             \/ /\ tick'.pc = "zip_except" /\ tick.pc = "zip_commit"
                /\ tick'.cur = {s} /\ UNCHANGED <<last, lost>>
  BY <1>1 DEF RecordOutcome, RecordFailure, NextSchedule, Ticks, history
<1> QED
  BY <1>3, <1>4, <1>5, <1>6

LEMMA SnapStepFields ==
    ASSUME TypeOK, NEW s \in Servers
    PROVE  /\ DailyNotDue(s) => /\ tick'.pc = "snaps" /\ tick'.now = tick.now /\ tick'.cur = tick.cur
                               /\ tick'.due = tick.due /\ tick'.dailies = tick.dailies
                               /\ tick'.todo = tick.todo \ {s}
           /\ RunDaily(s) => /\ tick'.pc = "snap_work" /\ tick'.now = tick.now /\ tick'.cur = {s}
                            /\ tick'.due = clock /\ tick'.dailies = tick.dailies
                            /\ tick'.todo = tick.todo \ {s}
           /\ DailyTaken(s) => /\ tick'.pc = "snaps" /\ tick'.now = tick.now /\ tick'.cur = {}
                              /\ tick'.due = Never /\ tick'.dailies = Expired
                              /\ tick'.todo = tick.todo
<1>1. tick \in Ticks
  BY Typed
<1> QED
  BY <1>1 DEF DailyNotDue, RunDaily, DailyTaken, Ticks

----------------------------------------------------------------------------
(* The parts of the invariant, step by step                                *)

Edit(s) ==
    \/ OtherSnapshot(s)
    \/ \E p \in Plans : SaveSchedule(s, p)
    \/ \E d \in Dailies : BackupSettings(s, d)

(* A schedule is due at an instant that is not ahead of the pass, and is   *)
(* later than the last one that was recorded.                              *)
LEMMA DueInstant ==
    ASSUME NEW p \in Plans, NEW now \in Times, NEW ran \in Times \cup {Never},
           IsDue(p, ran, now)
    PROVE  Instant(p, now) <= now /\ ran < Instant(p, now)
<1>1. now \in Nat \ {0} /\ ran \in Nat /\ Never = 0
  BY Numbers
<1>2. CASE p.type = "interval"
  BY <1>1, <1>2, PlanTyped DEF IsDue, Instant
<1>3. CASE p.type = "daily"
  BY <1>1, <1>3, PlanTyped, InstantOf, Numbers DEF IsDue, Instant
<1> QED
  BY <1>2, <1>3, PlanTyped

LEMMA Natural ==
    ASSUME TypeOK
    PROVE  /\ clock \in Nat \ {0} /\ tick.now \in Nat /\ tick.due \in Nat /\ lost \in Nat
           /\ \A s \in Servers : /\ last[s] \in Nat /\ snap[s] \in Nat
                                  /\ made[s] \in Nat /\ taken[s] \in Nat
                                  /\ looked[s] \in Nat /\ since[s] \in Nat
<1>1. Times \cup {Never} \subseteq Nat /\ Times \subseteq Nat \ {0}
  BY Numbers
<1>2. clock \in Times /\ tick.now \in Times \cup {Never} /\ tick.due \in Times \cup {Never}
      /\ lost \in Nat
  BY Typed DEF Ticks
<1>3. \A s \in Servers : /\ last[s] \in Times \cup {Never} /\ snap[s] \in Times \cup {Never}
                          /\ made[s] \in Times \cup {Never} /\ taken[s] \in Times \cup {Never}
                          /\ looked[s] \in Times \cup {Never} /\ since[s] \in Times
  BY Typed
<1> QED
  BY <1>1, <1>2, <1>3

LEMMA ClockKept == ASSUME TypeOK, ClockInv, Next PROVE ClockInv'
<1>1. /\ tick \in Ticks /\ clock \in Nat /\ tick.now \in Nat /\ tick.due \in Nat
      /\ \A s \in Servers : last[s] \in Nat /\ snap[s] \in Nat
      /\ Never = 0 /\ clock # 0
  BY Typed, Natural DEF Never
<1>2. /\ last \in [Servers -> Times \cup {Never}] /\ snap \in [Servers -> Times \cup {Never}]
  BY Typed
<1>3. CASE StartScheduler \/ TickStart \/ RunDailies \/ TickEnd \/ Crash
  BY <1>1, <1>3, TickStepFields
  DEF ClockInv, ZipPass, SnapPass, StartScheduler, TickStart, RunDailies, TickEnd, Crash, records
<1>4. CASE Minute
  BY <1>1, <1>4 DEF ClockInv, ZipPass, SnapPass, Minute, records
<1>5. ASSUME NEW s \in Servers, NotDue(s) \/ ZipMade(s) \/ DailyNotDue(s) \/ RunDaily(s)
      PROVE  ClockInv'
  <2>1. UNCHANGED <<clock, last, snap>> /\ tick.pc \in ZipPass \cup SnapPass
    BY <1>5 DEF NotDue, ZipMade, DailyNotDue, RunDaily, records, ZipPass, SnapPass
  <2>2. tick'.now = tick.now /\ tick'.due \in {tick.due, clock}
    BY <1>5, ZipStepFields, SnapStepFields
  <2> QED
    BY <1>1, <2>1, <2>2 DEF ClockInv
<1>6. ASSUME NEW s \in Servers, RunDueBackup(s) PROVE ClockInv'
  <2>1. tick.now \in Times
    BY <1>1, <1>6 DEF ClockInv, RunDueBackup, ZipPass, Ticks
  <2>2. Instant(PlanSeen(s), tick.now) <= tick.now /\ Instant(PlanSeen(s), tick.now) \in Nat
    BY <1>2, <1>6, <2>1, DueInstant, SeenTyped, InstantOf DEF RunDueBackup
  <2>3. UNCHANGED <<clock, last, snap>> /\ tick.pc \in ZipPass
    BY <1>6 DEF RunDueBackup, records, ZipPass
  <2>4. tick'.now = tick.now /\ tick'.due = Instant(PlanSeen(s), tick.now)
    BY <1>6, ZipStepFields
  <2> QED
    BY <1>1, <2>2, <2>3, <2>4 DEF ClockInv
<1>7. ASSUME NEW s \in Servers, RecordOutcome(s) \/ RecordFailure(s) PROVE ClockInv'
  <2>1. tick.pc \in ZipPass /\ last' \in {last, [last EXCEPT ![s] = tick.now]}
        /\ UNCHANGED <<clock, snap>>
    BY <1>7 DEF RecordOutcome, RecordFailure, ZipPass
  <2> QED
    BY <1>1, <1>2, <1>7, <2>1, ZipStepFields DEF ClockInv, ZipPass, SnapPass
<1>8. ASSUME NEW s \in Servers, DailyTaken(s) PROVE ClockInv'
  <2>1. /\ tick.pc \in SnapPass /\ UNCHANGED <<clock, last>>
        /\ \A o \in Servers : snap'[o] \in {snap[o], tick.due}
    BY <1>2, <1>8 DEF DailyTaken, SnapPass
  <2> QED
    BY <1>1, <1>8, <2>1, SnapStepFields DEF ClockInv, ZipPass, SnapPass
<1>9. ASSUME NEW s \in Servers, Edit(s) PROVE ClockInv'
  <2>1. UNCHANGED <<clock, last, tick>> /\ \A o \in Servers : snap'[o] \in {snap[o], clock}
    BY <1>2, <1>9 DEF Edit, OtherSnapshot, SaveSchedule, BackupSettings, Edited
  <2> QED
    BY <1>1, <2>1 DEF ClockInv, ZipPass, SnapPass
<1> QED
  BY <1>3, <1>4, <1>5, <1>6, <1>7, <1>8, <1>9 DEF Next, Edit

LEMMA OnceKept == ASSUME TypeOK, ClockInv, OnceInv, Next PROVE OnceInv'
<1> USE DEF OnceInv, OncePerInstant, ZipOncePerInstant, DailyApart
<1>1. /\ tick \in Ticks /\ clock \in Nat /\ tick.now \in Nat /\ tick.due \in Nat
      /\ lost \in Nat /\ Never = 0 /\ clock # 0 /\ Dedup \in Nat
      /\ \A s \in Servers : /\ last[s] \in Nat /\ snap[s] \in Nat
                             /\ made[s] \in Nat /\ taken[s] \in Nat
  BY Typed, Natural, Numbers
<1>2. /\ last \in [Servers -> Times \cup {Never}] /\ snap \in [Servers -> Times \cup {Never}]
      /\ made \in [Servers -> Times \cup {Never}] /\ taken \in [Servers -> Times \cup {Never}]
  BY Typed
<1>3. tick.pc \in Working \cup {"zip_commit", "zip_except"} <=> tick.cur # {}
  BY Typed
<1>4. CASE StartScheduler \/ TickStart \/ RunDailies \/ TickEnd
  BY <1>1, <1>3, <1>4, TickStepFields
  DEF StartScheduler, TickStart, RunDailies, TickEnd, records, history, Working
<1>5. CASE Crash
  BY <1>1, <1>5, TickStepFields DEF Crash, records
<1>6. CASE Minute
  BY <1>1, <1>6 DEF Minute, records, history
<1>7. ASSUME NEW s \in Servers, NotDue(s) \/ DailyNotDue(s) PROVE OnceInv'
  BY <1>1, <1>7, ZipStepFields, SnapStepFields DEF NotDue, DailyNotDue, records, history
<1>8. ASSUME NEW s \in Servers, RunDueBackup(s) PROVE OnceInv'
  <2>1. tick.now \in Times /\ tick.pc = "zips" /\ UNCHANGED <<records, history>>
    BY <1>1, <1>8 DEF ClockInv, RunDueBackup, ZipPass, Ticks
  <2>2. Instant(PlanSeen(s), tick.now) <= tick.now /\ last[s] < Instant(PlanSeen(s), tick.now)
        /\ Instant(PlanSeen(s), tick.now) \in Nat
    BY <1>2, <1>8, <2>1, DueInstant, SeenTyped, InstantOf DEF RunDueBackup
  <2> QED
    BY <1>1, <1>8, <2>1, <2>2, ZipStepFields DEF records, history
<1>9. ASSUME NEW s \in Servers, ZipMade(s) PROVE OnceInv'
  <2>1. /\ tick.pc = "zip_work" /\ tick.cur = {s} /\ UNCHANGED <<last, snap, taken, lost>>
        /\ made'[s] \in {made[s], tick.due} /\ \A o \in Servers \ {s} : made'[o] = made[o]
    BY <1>2, <1>9 DEF ZipMade, records
  <2>2. last[s] <= tick.now
    BY <2>1 DEF ClockInv, ZipPass
  <2> QED
    BY <1>1, <1>9, <2>1, <2>2, ZipStepFields
<1>10. ASSUME NEW s \in Servers, RecordOutcome(s) \/ RecordFailure(s) PROVE OnceInv'
  <2>1. /\ UNCHANGED <<snap, taken, made>> /\ tick.pc \in {"zip_commit", "zip_except"}
        /\ \/ last' = [last EXCEPT ![s] = tick.now] /\ lost' = lost
           \/ tick'.pc = "zip_except" /\ UNCHANGED <<last, lost>>
           \/ lost' = lost + 1 /\ last' = last
    BY <1>1, <1>10 DEF RecordOutcome, RecordFailure, history, Ticks
  <2> QED
    BY <1>1, <1>2, <1>10, <2>1, ZipStepFields
<1>11. ASSUME NEW s \in Servers, RunDaily(s) PROVE OnceInv'
  <2>1. /\ tick.pc = "snaps" /\ UNCHANGED <<clock, last, snap, made, taken, lost>>
        /\ snap[s] = Never \/ clock - snap[s] >= Dedup
    BY <1>1, <1>11 DEF RunDaily, Recent, records
  <2> QED
    BY <1>1, <1>11, <2>1, SnapStepFields
<1>12. ASSUME NEW s \in Servers, DailyTaken(s) PROVE OnceInv'
  <2>1. /\ tick.pc = "snap_work" /\ UNCHANGED <<last, made, lost>>
        /\ \/ /\ snap' = [snap EXCEPT ![s] = IF snap[s] > tick.due THEN snap[s] ELSE tick.due]
              /\ taken' = [taken EXCEPT ![s] = tick.due]
           \/ UNCHANGED <<snap, taken>>
    BY <1>12 DEF DailyTaken
  <2> QED
    BY <1>1, <1>2, <1>12, <2>1, SnapStepFields
<1>13. ASSUME NEW s \in Servers, Edit(s) PROVE OnceInv'
  <2>1. /\ UNCHANGED <<last, made, taken, lost, tick>>
        /\ \A o \in Servers : snap'[o] \in {snap[o], clock}
    BY <1>2, <1>13 DEF Edit, OtherSnapshot, SaveSchedule, BackupSettings, Edited
  <2>2. \A o \in Servers : snap[o] <= clock
    BY DEF ClockInv
  <2> QED
    BY <1>1, <2>1, <2>2
<1> QED
  BY <1>4, <1>5, <1>6, <1>7, <1>8, <1>9, <1>10, <1>11, <1>12, <1>13 DEF Next, Edit

(* An edit of s counts from now on; those of the others are as they were.  *)
LEMMA EditFields ==
    ASSUME TypeOK, NEW s \in Servers, Edit(s)
    PROVE  /\ UNCHANGED <<clock, last, tick, made, taken, looked, lost>>
           /\ \A o \in Servers : snap'[o] \in {snap[o], clock}
           /\ \A o \in Servers :
                 \/ since'[o] = clock
                 \/ since'[o] = since[o] /\ plan'[o] = plan[o] /\ daily'[o] = daily[o]
<1>1. /\ plan \in [Servers -> Plans] /\ daily \in [Servers -> Dailies]
      /\ snap \in [Servers -> Times \cup {Never}] /\ since \in [Servers -> Times]
  BY Typed
<1>2. CASE OtherSnapshot(s)
  BY <1>1, <1>2 DEF OtherSnapshot
<1>3. CASE \E p \in Plans : SaveSchedule(s, p)
  BY <1>1, <1>3 DEF SaveSchedule, Edited
<1>4. CASE \E d \in Dailies : BackupSettings(s, d)
  BY <1>1, <1>4 DEF BackupSettings, Edited
<1> QED
  BY <1>2, <1>3, <1>4 DEF Edit

LEMMA SeenKept == ASSUME TypeOK, ClockInv, SeenInv, Next PROVE SeenInv'
<1> USE DEF PlanSeen, DailySeen
<1>1. /\ clock \in Nat /\ tick.now \in Nat /\ tick.now <= clock
      /\ \A s \in Servers : since[s] \in Nat
  BY Natural DEF ClockInv
<1>2. DOMAIN Expired = {} /\ DOMAIN plan = Servers /\ DOMAIN daily = Servers
  BY Typed DEF Expired
<1>3. CASE TickStart \/ RunDailies
  BY <1>2, <1>3, TickStepFields
  DEF SeenInv, ZipPass, SnapPass, TickStart, RunDailies, records, history
<1>4. CASE TickEnd \/ Crash \/ StartScheduler
  BY <1>4, TickStepFields DEF SeenInv, ZipPass, SnapPass
<1>5. CASE Minute
  BY <1>5 DEF SeenInv, Minute, records, history
<1>6. ASSUME NEW s \in Servers, NotDue(s) \/ RunDueBackup(s) \/ ZipMade(s)
                                \/ RecordOutcome(s) \/ RecordFailure(s)
      PROVE  SeenInv'
  <2>1. UNCHANGED <<plan, since>> /\ tick.pc \in ZipPass
    BY <1>6 DEF NotDue, RunDueBackup, ZipMade, RecordOutcome, RecordFailure, records, history, ZipPass
  <2>2. tick'.now = tick.now /\ tick'.plans \in {tick.plans, Expired} /\ tick'.pc \in ZipPass
    BY <1>6, ZipStepFields DEF ZipPass
  <2> QED
    BY <1>2, <2>1, <2>2 DEF SeenInv, ZipPass, SnapPass
<1>7. ASSUME NEW s \in Servers, DailyNotDue(s) \/ RunDaily(s) \/ DailyTaken(s) PROVE SeenInv'
  <2>1. UNCHANGED <<daily, since>> /\ tick.pc \in SnapPass
    BY <1>7 DEF DailyNotDue, RunDaily, DailyTaken, records, history, SnapPass
  <2>2. tick'.now = tick.now /\ tick'.dailies \in {tick.dailies, Expired} /\ tick'.pc \in SnapPass
    BY <1>7, SnapStepFields DEF SnapPass
  <2> QED
    BY <1>2, <2>1, <2>2 DEF SeenInv, ZipPass, SnapPass
<1>8. ASSUME NEW s \in Servers, Edit(s) PROVE SeenInv'
  BY <1>1, <1>8, EditFields DEF SeenInv
<1> QED
  BY <1>3, <1>4, <1>5, <1>6, <1>7, <1>8 DEF Next, Edit

(* After its turn a schedule is up to date: it was not due, or its outcome *)
(* is recorded for the instant of the pass.                                *)
LEMMA NotDueUpToDate ==
    ASSUME TypeOK, NEW s \in Servers, NEW now \in Times,
           \/ ~IsDue(plan[s], last[s], now)
           \/ last[s] = now
    PROVE  UpToDate(s, now)
<1>1. /\ plan[s] \in Plans /\ last[s] \in Nat /\ now \in Nat \ {0} /\ Never = 0
      /\ ScheduledToday(plan[s], now) \in Nat
  BY Typed, Natural, Numbers, InstantOf
<1>2. /\ plan[s].enabled \in BOOLEAN /\ plan[s].type \in {"daily", "interval"}
      /\ plan[s].minute \in Nat /\ (plan[s].type = "interval" => plan[s].minute > 0)
  BY <1>1, PlanTyped
<1>3. CASE plan[s].type = "daily"
  BY <1>1, <1>2, <1>3 DEF UpToDate, IsDue
<1>4. CASE plan[s].type = "interval"
  <2>1. CASE ~plan[s].enabled
    BY <2>1 DEF UpToDate
  <2>2. CASE last[s] # Never /\ ~(now - last[s] >= plan[s].minute)
    BY <1>1, <1>2, <1>4, <2>2 DEF UpToDate
  <2>3. CASE last[s] = now
    BY <1>1, <1>2, <1>4, <2>3 DEF UpToDate
  <2> QED
    BY <1>4, <2>1, <2>2, <2>3 DEF IsDue
<1> QED
  BY <1>2, <1>3, <1>4

LEMMA ZipsKept ==
    ASSUME TypeOK, TypeOK', ClockInv, OnceInv, SeenInv, ZipsDone, Next PROVE ZipsDone'
<1>1. /\ clock \in Nat /\ tick.now \in Nat /\ tick.now <= clock /\ lost \in Nat
      /\ \A s \in Servers : since[s] \in Nat /\ plan[s].enabled \in BOOLEAN
  BY Natural, Typed, PlanTyped DEF ClockInv
<1>2. tick.pc \in ZipPass \cup SnapPass => tick.now \in Times
  BY Typed DEF ClockInv, Ticks
<1>3. tick.pc \in {"zips", "snaps"} => tick.cur = {}
  BY Typed DEF Working
<1>4. CASE TickStart
  BY <1>4, TickStepFields DEF ZipsDone, ZipPass, SnapPass, TickStart, records, history, UpToDate
<1>5. CASE RunDailies
  <2>1. /\ tick.pc = "zips" /\ tick.todo = {} /\ UNCHANGED <<plan, last, since, lost>>
        /\ tick'.now = tick.now
    BY <1>5, TickStepFields DEF RunDailies, records, history
  <2>2. \A s \in Servers : (lost = 0 /\ since[s] < tick.now) => UpToDate(s, tick.now)
    BY <1>3, <2>1 DEF ZipsDone, ZipPass
  <2> QED
    BY <2>1, <2>2 DEF ZipsDone, UpToDate
<1>6. CASE TickEnd \/ Crash \/ StartScheduler
  BY <1>6, TickStepFields DEF ZipsDone, ZipPass, SnapPass
<1>7. CASE Minute
  BY <1>7 DEF ZipsDone, Minute, records, history, UpToDate
<1>8. ASSUME NEW s \in Servers, NotDue(s) PROVE ZipsDone'
  <2>1. /\ tick.pc = "zips" /\ UNCHANGED <<plan, last, since, lost>> /\ tick'.now = tick.now
        /\ tick'.todo = tick.todo \ {s} /\ tick'.pc = "zips" /\ tick'.cur = tick.cur
    BY <1>8, ZipStepFields DEF NotDue, records, history
  <2>2. since[s] < tick.now => UpToDate(s, tick.now)
    BY <1>2, <1>8, <2>1, NotDueUpToDate DEF NotDue, SeenInv, ZipPass
  <2>3. \A o \in Servers : UpToDate(o, tick.now)' <=> UpToDate(o, tick.now)
    BY <2>1 DEF UpToDate
  <2> QED
    BY <2>1, <2>2, <2>3 DEF ZipsDone, ZipPass
<1>9. ASSUME NEW s \in Servers, RunDueBackup(s) \/ ZipMade(s) PROVE ZipsDone'
  <2>1. /\ tick.pc \in ZipPass /\ UNCHANGED <<plan, last, since, lost>> /\ tick'.now = tick.now
        /\ tick.todo \cup tick.cur \subseteq tick'.todo \cup tick'.cur /\ tick'.pc \in ZipPass
    <3>1. CASE RunDueBackup(s)
      BY <3>1, ZipStepFields DEF RunDueBackup, records, history, ZipPass
    <3>2. CASE ZipMade(s)
      BY <3>2, ZipStepFields DEF ZipMade, records, ZipPass
    <3> QED
      BY <1>9, <3>1, <3>2
  <2>2. \A o \in Servers : UpToDate(o, tick.now)' <=> UpToDate(o, tick.now)
    BY <2>1 DEF UpToDate
  <2> QED
    BY <2>1, <2>2 DEF ZipsDone
<1>10. ASSUME NEW s \in Servers, RecordOutcome(s) \/ RecordFailure(s) PROVE ZipsDone'
  <2>1. /\ tick.pc \in ZipPass /\ tick'.pc \in ZipPass /\ UNCHANGED <<plan, since>>
        /\ tick'.now = tick.now /\ tick.cur = {s} /\ tick'.todo = tick.todo
        /\ \/ last' = [last EXCEPT ![s] = tick.now] /\ lost' = lost
           \/ tick'.cur = {s} /\ UNCHANGED <<last, lost>>
           \/ lost' = lost + 1
    <3>1. CASE RecordOutcome(s)
      <4>1. tick \in Ticks
        BY Typed
      <4>2. UNCHANGED <<plan, since, lost>> /\ tick.pc = "zip_commit"
            /\ \/ last' = [last EXCEPT ![s] = tick.now]
               \/ tick' = [tick EXCEPT !.pc = "zip_except"] /\ UNCHANGED last
        BY <3>1 DEF RecordOutcome, history
      <4> QED
        BY <3>1, <4>1, <4>2, ZipStepFields DEF ZipPass, Ticks
    <3>2. CASE RecordFailure(s)
      BY <3>2, ZipStepFields DEF RecordFailure, ZipPass
    <3> QED
      BY <1>10, <3>1, <3>2
  <2>2. CASE last' = [last EXCEPT ![s] = tick.now] /\ lost' = lost
    <3>1. last' [s] = tick.now /\ \A o \in Servers \ {s} : last'[o] = last[o]
      BY <2>2, Typed
    <3>2. UpToDate(s, tick.now)'
      <4>1. plan[s] \in Plans /\ tick.now \in Times
        BY <1>2, <2>1, Typed
      <4>2. /\ plan[s].type \in {"daily", "interval"} /\ plan[s].minute \in Nat
            /\ plan[s].type = "interval" => plan[s].minute > 0
            /\ ScheduledToday(plan[s], tick.now) \in Nat /\ tick.now \in Nat \ {0} /\ Never = 0
        BY <4>1, PlanTyped, InstantOf, Numbers
      <4>3. UpToDate(s, tick.now)' <=>
               \/ ~plan[s].enabled
               \/ /\ plan[s].type = "daily"
                  /\ \/ tick.now < ScheduledToday(plan[s], tick.now)
                     \/ tick.now >= ScheduledToday(plan[s], tick.now)
               \/ /\ plan[s].type = "interval" /\ tick.now # Never
                  /\ tick.now + plan[s].minute > tick.now
        BY <2>1, <3>1 DEF UpToDate
      <4> QED
        BY <4>2, <4>3
    <3>3. \A o \in Servers \ {s} : UpToDate(o, tick.now)' <=> UpToDate(o, tick.now)
      BY <2>1, <3>1 DEF UpToDate
    <3> QED
      BY <2>1, <2>2, <3>2, <3>3 DEF ZipsDone
  <2>3. CASE tick'.cur = {s} /\ UNCHANGED <<last, lost>>
    <3>1. \A o \in Servers : UpToDate(o, tick.now)' <=> UpToDate(o, tick.now)
      BY <2>1, <2>3 DEF UpToDate
    <3> QED
      BY <2>1, <2>3, <3>1 DEF ZipsDone
  <2>4. CASE lost' = lost + 1
    BY <1>1, <2>4 DEF ZipsDone
  <2> QED
    BY <2>1, <2>2, <2>3, <2>4
<1>11. ASSUME NEW s \in Servers, DailyNotDue(s) \/ RunDaily(s) \/ DailyTaken(s) PROVE ZipsDone'
  <2>1. UNCHANGED <<plan, last, since, lost>> /\ tick.pc \in SnapPass
    BY <1>11 DEF DailyNotDue, RunDaily, DailyTaken, records, history, SnapPass
  <2>2. tick'.now = tick.now /\ tick'.pc \in SnapPass
    BY <1>11, SnapStepFields DEF SnapPass
  <2>3. \A o \in Servers : UpToDate(o, tick.now)' <=> UpToDate(o, tick.now)
    BY <2>1, <2>2 DEF UpToDate
  <2> QED
    BY <2>1, <2>2, <2>3 DEF ZipsDone, ZipPass, SnapPass
<1>12. ASSUME NEW s \in Servers, Edit(s) PROVE ZipsDone'
  BY <1>1, <1>12, EditFields DEF ZipsDone, UpToDate
<1> QED
  BY <1>4, <1>5, <1>6, <1>7, <1>8, <1>9, <1>10, <1>11, <1>12 DEF Next, Edit

LEMMA DailiesKept ==
    ASSUME TypeOK, ClockInv, SeenInv, DailiesDone, Next PROVE DailiesDone'
<1>1. /\ clock \in Nat \ {0} /\ tick.now \in Nat /\ tick.now <= clock /\ Dedup \in Nat \ {0}
      /\ tick.due \in Nat /\ Never = 0
      /\ \A s \in Servers : since[s] \in Nat /\ snap[s] \in Nat
  BY Natural, Numbers DEF ClockInv
<1>2. tick.pc \in {"down", "sleep"} => tick.todo = {}
  BY Typed
<1>3. CASE TickStart \/ Crash
  BY <1>3, TickStepFields DEF DailiesDone, SnapPass
<1>4. CASE StartScheduler
  BY <1>4, TickStepFields DEF DailiesDone
<1>5. CASE RunDailies
  <2>1. /\ UNCHANGED <<daily, since>> /\ tick'.todo = {s \in Servers : daily[s].enabled}
        /\ tick'.now = tick.now
    BY <1>5, TickStepFields DEF RunDailies, records, history
  <2> QED
    BY <2>1 DEF DailiesDone, Wanted
<1>6. CASE TickEnd
  <2>1. /\ tick.pc = "snaps" /\ tick.todo = {} /\ UNCHANGED <<daily, since, looked, snap>>
        /\ tick'.now = tick.now
    BY <1>6, TickStepFields DEF TickEnd, records, history
  <2> QED
    BY <2>1 DEF DailiesDone, SnapPass, Wanted, Covered
<1>7. CASE Minute
  BY <1>7 DEF DailiesDone, Minute, records, history, Wanted, Covered
<1>8. ASSUME NEW s \in Servers, NotDue(s) \/ RunDueBackup(s) \/ ZipMade(s)
                                \/ RecordOutcome(s) \/ RecordFailure(s)
      PROVE  DailiesDone'
  <2>1. tick'.pc \in ZipPass
    BY <1>8, ZipStepFields DEF ZipPass
  <2> QED
    BY <2>1 DEF DailiesDone, SnapPass, ZipPass
<1>9. ASSUME NEW s \in Servers, DailyNotDue(s) PROVE DailiesDone'
  <2>1. /\ tick.pc = "snaps" /\ UNCHANGED <<daily, since, looked, snap>>
        /\ tick'.now = tick.now /\ tick'.todo = tick.todo \ {s}
        /\ ~AtBackupTime(s) \/ Recent(s)
    BY <1>9, SnapStepFields DEF DailyNotDue, records, history
  <2>2. (Wanted(s, tick.now) /\ daily[s].padded) => Recent(s)
    BY <2>1 DEF Wanted, SeenInv, SnapPass, AtBackupTime
  <2>3. Recent(s) => Covered(s)
    BY <1>1 DEF Recent, Covered
  <2>4. \A o \in Servers : /\ Wanted(o, tick.now)' <=> Wanted(o, tick.now)
                           /\ Covered(o)' <=> Covered(o)
    BY <2>1 DEF Wanted, Covered
  <2> QED
    BY <2>1, <2>2, <2>3, <2>4 DEF DailiesDone, SnapPass
<1>10. ASSUME NEW s \in Servers, RunDaily(s) PROVE DailiesDone'
  <2>1. /\ tick.pc = "snaps" /\ UNCHANGED <<daily, since, snap>>
        /\ tick'.now = tick.now /\ tick'.todo = tick.todo \ {s}
        /\ looked'[s] = tick.now /\ \A o \in Servers \ {s} : looked'[o] = looked[o]
    BY <1>10, SnapStepFields, Typed DEF RunDaily, records
  <2>2. Covered(s)' /\ \A o \in Servers \ {s} : Covered(o)' <=> Covered(o)
    BY <2>1 DEF Covered
  <2>3. \A o \in Servers : Wanted(o, tick.now)' <=> Wanted(o, tick.now)
    BY <2>1 DEF Wanted
  <2> QED
    BY <2>1, <2>2, <2>3 DEF DailiesDone, SnapPass
<1>11. ASSUME NEW s \in Servers, DailyTaken(s) PROVE DailiesDone'
  <2>1. /\ tick.pc = "snap_work" /\ UNCHANGED <<daily, since, looked>>
        /\ tick'.now = tick.now /\ tick'.todo = tick.todo
        /\ snap' \in {snap, [snap EXCEPT ![s] = IF snap[s] > tick.due THEN snap[s] ELSE tick.due]}
    BY <1>11, SnapStepFields DEF DailyTaken
  <2>2. \A o \in Servers : snap'[o] \in Nat /\ snap'[o] >= snap[o]
    BY <1>1, <2>1, Typed
  <2>3. \A o \in Servers : /\ Wanted(o, tick.now)' <=> Wanted(o, tick.now)
                           /\ Covered(o) => Covered(o)'
    BY <1>1, <2>1, <2>2 DEF Wanted, Covered
  <2> QED
    BY <2>1, <2>3 DEF DailiesDone, SnapPass
<1>12. ASSUME NEW s \in Servers, Edit(s) PROVE DailiesDone'
  <2>1. \A o \in Servers : Covered(o) => Covered(o)'
    BY <1>1, <1>12, EditFields DEF Covered
  <2>2. \A o \in Servers : Wanted(o, tick.now)' => Wanted(o, tick.now) /\ daily'[o] = daily[o]
    BY <1>1, <1>12, EditFields DEF Wanted
  <2> QED
    BY <1>12, <2>1, <2>2, EditFields DEF DailiesDone
<1> QED
  BY <1>3, <1>4, <1>5, <1>6, <1>7, <1>8, <1>9, <1>10, <1>11, <1>12 DEF Next, Edit

LEMMA NextInv == ASSUME SchedulerInv, [Next]_vars PROVE SchedulerInv'
<1>1. CASE Next
  <2>1. TypeOK'
    BY <1>1, LoopTyped, ZipTyped, DailyStepTyped DEF Next, SchedulerInv
  <2>2. ClockInv' /\ OnceInv' /\ SeenInv' /\ ZipsDone' /\ DailiesDone'
    BY <1>1, <2>1, ClockKept, OnceKept, SeenKept, ZipsKept, DailiesKept DEF SchedulerInv
  <2> QED
    BY <2>1, <2>2 DEF SchedulerInv
<1>2. CASE UNCHANGED vars
  BY <1>2
  DEF vars, SchedulerInv, TypeOK, ClockInv, OnceInv, OncePerInstant, ZipOncePerInstant, DailyApart,
      SeenInv, PlanSeen, DailySeen, ZipsDone, UpToDate, DailiesDone, Wanted, Covered
<1> QED
  BY <1>1, <1>2

LEMMA Invariance == Spec => []SchedulerInv
BY InitInv, NextInv, PTL DEF Spec

----------------------------------------------------------------------------
(* Theorems                                                                *)

(* The settings, the records and the thread keep their types.              *)
THEOREM TypeCorrect == Spec => []TypeOK
BY Invariance, PTL DEF SchedulerInv

(* A schedule is not worked on twice for an instant at which it was due,   *)
(* and a daily snapshot is not begun within the window of the last one,    *)
(* whatever is edited, fails or takes long (_is_due, run_due_server_backup).*)
THEOREM WorksOnce == Spec => []OncePerInstant
BY Invariance, PTL DEF SchedulerInv, OnceInv

(* A pass leaves nothing that was due, whatever failed or took long before *)
(* its turn came (_tick, _run_v06_daily).                                  *)
THEOREM PassesServeAll == Spec => []PassServesAll
<1>1. ASSUME SchedulerInv PROVE SchedulesServed
  BY <1>1 DEF SchedulerInv, ZipsDone, SchedulesServed, ZipPass, SnapPass
<1>2. ASSUME SchedulerInv PROVE DailyServed
  BY <1>2, Typed DEF SchedulerInv, DailiesDone, DailyServed, Covered
<1> QED
  BY <1>1, <1>2, Invariance, PTL DEF PassServesAll

=============================================================================

--------------------------- MODULE ZipBackupProofs ---------------------------
(* Theorems about ZipBackup: any number of requests and files, any changes *)
(* of the world, any seconds.                                              *)
EXTENDS ZipBackup, SequenceTheorems, TLAPS

USE RconAssumption, ZipAssumption DEF At, Goto, ServerAlone, ZipsAlone

----------------------------------------------------------------------------
(* The invariant                                                           *)

(* What the call of a request is while the request is at a step.           *)
CallOf(r) ==
    /\ At(r, "idle") => call[r] = NoCall
    /\ At(r, "save") => call[r].todo = SaveAll
    /\ job[r].step \in {"open", "copy"} => call[r].step = "idle"

(* The save a backup was told of is on the disk.                           *)
Flushed(r) ==
    job[r].step \in {"save", "open", "copy"} => \A f \in Files : call[r].base <= disk[f]

(* The disk never is ahead of a running server.                            *)
DiskBehind == life # "down" => \A f \in Files : disk[f] <= world

(* The zip a request writes to, when no other one has written to it.       *)
Copied(r) ==
    LET zip == zips[job[r].second] IN
    /\ zip.state = "part" /\ DOMAIN zip.entries = Files \ job[r].todo
    /\ \A f \in Files \ job[r].todo : zip.entries[f] >= call[r].base
    /\ \A row \in rows : row.second # job[r].second

Writers ==
    \A r \in Requests : At(r, "copy") =>
        /\ zips[job[r].second].state # "none"
        /\ \A q \in Requests : At(q, "copy") /\ job[q].second = job[r].second /\ q # r
                                  => job[r].second \in shared
        /\ job[r].second \notin shared => Copied(r)

Listed ==
    \A row \in rows :
        /\ zips[row.second].state # "none"
        /\ row.second \notin shared =>
              LET zip == zips[row.second] IN
              /\ zip.state = "whole" /\ DOMAIN zip.entries = Files
              /\ \A f \in Files : zip.entries[f] >= row.base

ZipInv ==
    /\ TypeOK /\ DiskBehind
    /\ \A r \in Requests : CallOf(r) /\ Flushed(r)
    /\ Writers /\ Listed

----------------------------------------------------------------------------
(* Types of the operators                                                  *)

Todos == UNION {[1 .. n -> Commands] : n \in 0 .. 2}

LEMMA TodoTyped ==
    /\ <<>> \in Todos
    /\ \A c \in Commands : <<c>> \in Todos
    /\ \A c, d \in Commands : <<c, d>> \in Todos
<1>1. <<>> \in [1 .. 0 -> Commands]
  OBVIOUS
<1>2. \A c \in Commands : <<c>> \in [1 .. 1 -> Commands]
  OBVIOUS
<1>3. \A c, d \in Commands : <<c, d>> \in [1 .. 2 -> Commands]
  OBVIOUS
<1>4. 0 \in 0 .. 2 /\ 1 \in 0 .. 2 /\ 2 \in 0 .. 2
  OBVIOUS
<1> QED
  BY <1>1, <1>2, <1>3, <1>4 DEF Todos

LEMMA TailTyped ==
    ASSUME NEW t \in Todos, Len(t) > 1
    PROVE  Tail(t) \in Todos
<1>1. PICK n \in 0 .. 2 : t \in [1 .. n -> Commands]
  BY DEF Todos
<1>2. t \in Seq(Commands) /\ Len(t) = n
  BY <1>1
<1>3. Tail(t) \in Seq(Commands) /\ Len(Tail(t)) = n - 1
  BY <1>2, HeadTailProperties
<1>4. Tail(t) \in [1 .. n - 1 -> Commands]
  BY <1>3, LenProperties
<1>5. n - 1 \in 0 .. 2
  BY <1>2
<1> QED
  BY <1>4, <1>5 DEF Todos

LEMMA OperationsTyped ==
    {TestConnection, SaveAll, StopViaRcon} \cup {RunCommand(raw) : raw \in Commands} \subseteq Todos
BY TodoTyped DEF TestConnection, SaveAll, StopViaRcon, RunCommand, Commands

LEMMA CallsAre ==
    Calls = [step : {"idle", "dial", "sent", "executed", "cut", "answered"},
             todo : Todos, base : 0 .. MaxWorld, result : {"none", "ok"} \cup Failures]
BY DEF Calls, Todos

LEMMA NoCallTyped == NoCall \in Calls
BY CallsAre, TodoTyped DEF NoCall

LEMMA CallInTyped ==
    ASSUME NEW r, NEW commands \in Todos
    PROVE  /\ CallIn(r, commands) \in Calls
           /\ CallIn(r, commands).step = "dial" /\ CallIn(r, commands).todo = commands
           /\ CallIn(r, commands).base = 0
<1>1. NoCall.base = 0
  BY DEF NoCall
<1> QED
  BY <1>1, CallsAre, NoCallTyped DEF CallIn

LEMMA SaveAllOf == Len(SaveAll) = 1 /\ Head(SaveAll) = "save-all flush"
BY DEF SaveAll

LEMMA SavedTyped ==
    ASSUME NEW w \in 0 .. MaxWorld
    PROVE  /\ Saved(w) \in [Files -> 0 .. MaxWorld]
           /\ \A f \in Files : Saved(w)[f] = w
BY DEF Saved

Entries == UNION {[S -> 0 .. MaxWorld] : S \in SUBSET Files}

LEMMA EntriesTyped ==
    ASSUME NEW e
    PROVE  e \in Entries <=> DOMAIN e \subseteq Files /\ e \in [DOMAIN e -> 0 .. MaxWorld]
BY DEF Entries

LEMMA ZipsTyped ==
    /\ Zips = [state : {"none", "part", "torn", "whole"}, entries : Entries]
    /\ NoZip \in Zips /\ NoZip.state = "none" /\ DOMAIN NoZip.entries = {}
<1>1. [f \in {} |-> 0] \in [{} -> 0 .. MaxWorld]
  BY DEF Entries
<1> QED
  BY <1>1 DEF Zips, NoZip, Entries

----------------------------------------------------------------------------
(* Steps of the server and of the exchanges                                *)

(* An exchange that is not on stays off, and one that asks for a save      *)
(* promises no world that is not on the disk.                              *)
Kept(r) ==
    /\ call[r].step = "idle" => call'[r] = call[r]
    /\ call[r].todo = SaveAll =>
          /\ call'[r].todo = SaveAll
          /\ call'[r].base \in {0, call[r].base} \/ \A f \in Files : call'[r].base <= disk'[f]

Forward ==
    /\ RconTypeOK' /\ DiskBehind'
    /\ \A f \in Files : disk[f] <= disk'[f]
    /\ \A r \in Requests : Kept(r)

LEMMA GoneKeeps ==
    ASSUME RconTypeOK, Gone
    PROVE  /\ call' \in [Requests -> Calls]
           /\ \A r \in Requests : Kept(r)
<1>1. ASSUME NEW r \in Requests
      PROVE  call'[r] \in Calls /\ Kept(r)
  <2>1. CASE call[r].step = "sent"
    <3>1. call'[r] = [call[r] EXCEPT !.step = "cut"]
      BY <2>1 DEF Gone
    <3> QED
      BY <2>1, <3>1, CallsAre DEF RconTypeOK, Kept
  <2>2. CASE call[r].step # "sent"
    <3>1. call'[r] = call[r]
      BY <2>2 DEF Gone
    <3> QED
      BY <2>2, <3>1 DEF RconTypeOK, Kept
  <2> QED
    BY <2>1, <2>2
<1> QED
  BY <1>1 DEF Gone

(* What a command does leaves the disk no older, and not ahead.            *)
LEMMA EffectForward ==
    ASSUME RconTypeOK, DiskBehind, life = "up", world' = world, NEW c, Effect(c)
    PROVE  /\ life' \in {"up", "closing"} /\ disk' \in [Files -> 0 .. MaxWorld]
           /\ DiskBehind'
           /\ \A f \in Files : disk[f] <= disk'[f]
           /\ c = "save-all flush" => \A f \in Files : world <= disk'[f]
<1>1. life' \in {"up", "closing"}
  BY DEF Effect
<1>2. world \in Int /\ \A f \in Files : disk[f] \in Int /\ disk[f] <= world
  BY DEF RconTypeOK, DiskBehind
<1>3. CASE c = "save-all flush"
  <2>1. disk' \in [Files -> 0 .. MaxWorld] /\ \A f \in Files : disk'[f] = world
    BY <1>3, SavedTyped DEF Effect, RconTypeOK
  <2>2. \A f \in Files : disk[f] <= disk'[f] /\ world <= disk'[f] /\ disk'[f] <= world'
    BY <1>2, <2>1
  <2> QED
    BY <1>1, <2>1, <2>2 DEF DiskBehind
<1>4. CASE c # "save-all flush"
  <2>1. disk' = disk /\ disk' \in [Files -> 0 .. MaxWorld]
    BY <1>4 DEF Effect, RconTypeOK
  <2>2. \A f \in Files : disk[f] <= disk'[f] /\ disk'[f] <= world'
    BY <1>2, <2>1
  <2> QED
    BY <1>1, <1>4, <2>1, <2>2 DEF DiskBehind
<1> QED
  BY <1>3, <1>4

LEMMA GameForward ==
    ASSUME RconTypeOK, DiskBehind, Game
    PROVE  Forward
<1>1. CASE Boot
  <2>1. PICK newest \in Files : world' = disk[newest] /\ \A f \in Files : disk[f] <= disk[newest]
    BY <1>1 DEF Boot
  <2> QED
    BY <1>1, <2>1 DEF Boot, Forward, Kept, RconTypeOK, DiskBehind
<1>2. CASE Ready
  BY <1>2 DEF Ready, Forward, Kept, RconTypeOK, DiskBehind
<1>3. CASE Play
  BY <1>3 DEF Play, Forward, Kept, RconTypeOK, DiskBehind
<1>4. CASE Closing
  BY <1>4 DEF Closing, Forward, Kept, RconTypeOK, DiskBehind
<1>5. CASE Closed
  <2>1. disk' \in [Files -> 0 .. MaxWorld] /\ \A f \in Files : disk'[f] = world
    BY <1>5, SavedTyped DEF Closed, RconTypeOK
  <2>2. \A f \in Files : disk[f] <= disk'[f]
    BY <1>5, <2>1 DEF Closed, DiskBehind
  <2>3. life' = "down" /\ endpoint' = "off" /\ world' = 0 /\ late' = {}
    BY <1>5 DEF Closed, Gone
  <2>4. call' \in [Requests -> Calls] /\ \A r \in Requests : Kept(r)
    BY <1>5, GoneKeeps DEF Closed
  <2> QED
    BY <2>1, <2>2, <2>3, <2>4 DEF Forward, RconTypeOK, DiskBehind
<1>6. CASE Killed
  <2>3. life' = "down" /\ endpoint' = "off" /\ world' = 0 /\ late' = {} /\ disk' = disk
    BY <1>6 DEF Killed, Gone
  <2>4. call' \in [Requests -> Calls] /\ \A r \in Requests : Kept(r)
    BY <1>6, GoneKeeps DEF Killed
  <2> QED
    BY <2>3, <2>4 DEF Forward, RconTypeOK, DiskBehind
<1>7. ASSUME NEW f \in Files, Autosave(f)
      PROVE  Forward
  BY <1>7 DEF Autosave, Forward, Kept, RconTypeOK, DiskBehind
<1> QED
  BY <1>1, <1>2, <1>3, <1>4, <1>5, <1>6, <1>7 DEF Game

LEMMA LateForward ==
    ASSUME RconTypeOK, DiskBehind, NEW c \in late, ExecuteLate(c)
    PROVE  Forward
<1>1. life = "up" /\ Effect(c) /\ late' = late \ {c}
        /\ UNCHANGED <<endpoint, world, call>>
  BY DEF ExecuteLate
<1>2. /\ life' \in {"up", "closing"} /\ disk' \in [Files -> 0 .. MaxWorld] /\ DiskBehind'
      /\ \A f \in Files : disk[f] <= disk'[f]
  BY <1>1, EffectForward
<1> QED
  BY <1>1, <1>2 DEF Forward, Kept, RconTypeOK

LEMMA FailKeeps ==
    ASSUME RconTypeOK, NEW r \in Requests, NEW why \in Failures, Fail(r, why),
           call[r].step # "idle"
    PROVE  call' \in [Requests -> Calls] /\ \A q \in Requests : Kept(q)
<1>1. ASSUME NEW q \in Requests
      PROVE  call'[q] \in Calls /\ Kept(q)
  <2>1. CASE q = r
    <3>1. call'[r] = [call[r] EXCEPT !.step = "answered", !.result = why, !.base = 0]
      BY DEF Fail, RconTypeOK
    <3>2. call[r] \in Calls /\ 0 \in 0 .. MaxWorld
      BY DEF RconTypeOK
    <3>3. call'[r].todo = call[r].todo /\ call'[r].base = 0
      BY <3>1, <3>2, CallsAre
    <3>4. call'[r] \in Calls
      BY <3>1, <3>2, CallsAre
    <3> QED
      BY <2>1, <3>3, <3>4 DEF Kept
  <2>2. CASE q # r
    <3>1. call'[q] = call[q]
      BY <2>2 DEF Fail, RconTypeOK
    <3> QED
      BY <3>1 DEF Kept, RconTypeOK
  <2> QED
    BY <2>1, <2>2
<1> QED
  BY <1>1 DEF Fail, RconTypeOK

LEMMA ExchangeForward ==
    ASSUME RconTypeOK, DiskBehind, NEW r \in Requests, Exchange(r)
    PROVE  Forward
<1>1. CASE Dial(r)
  <2>1. call' \in [Requests -> Calls] /\ \A q \in Requests : Kept(q)
    <3>1. CASE call' = [call EXCEPT ![r].step = "sent"]
      BY <1>1, <3>1, CallsAre DEF Dial, RconTypeOK, Kept
    <3>2. CASE Fail(r, "credentials") \/ Fail(r, "connection")
      BY <1>1, <3>2, FailKeeps DEF Dial, Failures
    <3> QED
      BY <1>1, <3>1, <3>2 DEF Dial
  <2> QED
    BY <1>1, <2>1 DEF Dial, Forward, RconTypeOK, DiskBehind
<1>2. CASE Execute(r)
  <2> DEFINE base == IF Command(r) \in {"list", "stop"} THEN 0 ELSE world
  <2>1. /\ call[r].step = "sent" /\ life = "up" /\ Effect(Command(r))
        /\ call' = [call EXCEPT ![r] =
                       [@ EXCEPT !.step = "executed", !.base = base]]
        /\ UNCHANGED <<endpoint, world, late>>
    BY <1>2 DEF Execute
  <2>2. /\ life' \in {"up", "closing"} /\ disk' \in [Files -> 0 .. MaxWorld] /\ DiskBehind'
        /\ \A f \in Files : disk[f] <= disk'[f]
        /\ Command(r) = "save-all flush" => \A f \in Files : world <= disk'[f]
    BY <2>1, EffectForward
  <2>3. base \in 0 .. MaxWorld
    BY DEF RconTypeOK
  <2> HIDE DEF base
  <2>4. call' \in [Requests -> Calls]
    BY <2>1, <2>3, CallsAre DEF RconTypeOK
  <2>5. call[r].todo = SaveAll => base = world /\ Command(r) = "save-all flush"
    BY SaveAllOf DEF base, Command
  <2>6. call'[r].base = base /\ call'[r].todo = call[r].todo
    BY <2>1, CallsAre DEF RconTypeOK
  <2>7. Kept(r)
    BY <2>1, <2>2, <2>5, <2>6 DEF Kept
  <2>8. \A q \in Requests \ {r} : Kept(q)
    BY <2>1 DEF Kept, RconTypeOK
  <2> QED
    BY <2>1, <2>2, <2>4, <2>7, <2>8 DEF Forward, RconTypeOK
<1>3. CASE Respond(r)
  <2>1. call' \in [Requests -> Calls] /\ \A q \in Requests : Kept(q)
    <3>1. CASE /\ Len(call[r].todo) > 1
               /\ call' = [call EXCEPT ![r] =
                              [@ EXCEPT !.step = "dial", !.todo = Tail(call[r].todo)]]
      <4>1. Tail(call[r].todo) \in Todos
        BY <3>1, CallsAre, TailTyped DEF RconTypeOK
      <4>2. call' \in [Requests -> Calls]
        <5> DEFINE new == [call[r] EXCEPT !.step = "dial", !.todo = Tail(call[r].todo)]
        <5>1. new \in Calls
          BY <4>1, CallsAre DEF RconTypeOK
        <5> HIDE DEF new
        <5>2. call' = [call EXCEPT ![r] = new]
          BY <3>1 DEF new
        <5> QED
          BY <5>1, <5>2 DEF RconTypeOK
      <4>3. call[r].todo # SaveAll
        <5> SUFFICES ASSUME call[r].todo = SaveAll
                     PROVE  FALSE
          OBVIOUS
        <5>1. Len(call[r].todo) = 1
          BY SaveAllOf
        <5> QED
          BY <3>1, <5>1
      <4> QED
        BY <1>3, <3>1, <4>2, <4>3 DEF Respond, RconTypeOK, Kept
    <3>2. CASE call' = [call EXCEPT ![r] =
                           [@ EXCEPT !.step = "answered", !.result = "ok"]]
      BY <1>3, <3>2, CallsAre DEF Respond, RconTypeOK, Kept
    <3> QED
      BY <1>3, <3>1, <3>2 DEF Respond
  <2> QED
    BY <1>3, <2>1 DEF Respond, Forward, RconTypeOK, DiskBehind
<1>4. CASE NoResponse(r)
  <2>1. call' \in [Requests -> Calls] /\ \A q \in Requests : Kept(q)
    BY <1>4, FailKeeps DEF NoResponse, Failures
  <2>2. late' \subseteq Lasting
    BY <1>4 DEF NoResponse, RconTypeOK
  <2> QED
    BY <1>4, <2>1, <2>2 DEF NoResponse, Forward, RconTypeOK, DiskBehind
<1> QED
  BY <1>1, <1>2, <1>3, <1>4 DEF Exchange

----------------------------------------------------------------------------
(* Steps of the invariant                                                  *)

LEMMA InitInv == Init => ZipInv
<1> SUFFICES ASSUME Init PROVE ZipInv
  OBVIOUS
<1>1. RconTypeOK
  BY NoCallTyped DEF Init, RconInit, RconTypeOK
<1>2. NoJob \in Jobs /\ NoJob.step = "idle"
  BY DEF NoJob, Jobs, Seconds
<1>3. TypeOK
  BY <1>1, <1>2, ZipsTyped DEF Init, TypeOK, Seconds
<1>4. DiskBehind
  BY DEF Init, RconInit, DiskBehind
<1>5. \A r \in Requests : CallOf(r) /\ Flushed(r)
  BY <1>2 DEF Init, RconInit, CallOf, Flushed
<1>6. Writers /\ Listed
  BY <1>2 DEF Init, Writers, Listed
<1> QED
  BY <1>3, <1>4, <1>5, <1>6 DEF ZipInv

LEMMA ForwardInv ==
    ASSUME ZipInv, Forward, UNCHANGED <<enabled, second, zips, rows, job, shared, begun>>
    PROVE  ZipInv'
<1>1. TypeOK' /\ DiskBehind'
  BY DEF ZipInv, TypeOK, Forward
<1>2. ASSUME NEW r \in Requests
      PROVE  CallOf(r)' /\ Flushed(r)'
  <2>1. Kept(r) /\ CallOf(r) /\ Flushed(r)
    BY DEF Forward, ZipInv
  <2>2. CallOf(r)'
    BY <2>1 DEF CallOf, Kept, NoCall
  <2>3. ASSUME NEW f \in Files, job[r].step \in {"save", "open", "copy"}
        PROVE  call'[r].base <= disk'[f]
    <3>1. disk[f] \in Int /\ disk'[f] \in Int /\ disk[f] <= disk'[f] /\ 0 <= disk'[f]
      BY DEF Forward, RconTypeOK, ZipInv, TypeOK
    <3>2. call[r].base \in Int /\ call[r].base <= disk[f]
      BY <2>1, <2>3, CallsAre DEF Flushed, RconTypeOK, ZipInv, TypeOK
    <3>3. call'[r].base \in {0, call[r].base} \/ call'[r].base <= disk'[f]
      BY <2>1, <2>3 DEF CallOf, Kept
    <3> QED
      BY <3>1, <3>2, <3>3
  <2> QED
    BY <2>2, <2>3 DEF Flushed
<1>3. \A r \in Requests : At(r, "copy") => call'[r] = call[r]
  BY DEF ZipInv, CallOf, Forward, Kept
<1>4. Writers'
  BY <1>3 DEF ZipInv, Writers, Copied
<1>5. Listed'
  BY DEF ZipInv, Listed
<1> QED
  BY <1>1, <1>2, <1>4, <1>5 DEF ZipInv

(* A request that goes on without a zip leaves the zips alone.             *)
LEMMA QuietInv ==
    ASSUME ZipInv, NEW r \in Requests, NEW j \in Jobs, NEW c \in Calls,
           job' = [job EXCEPT ![r] = j], call' = [call EXCEPT ![r] = c],
           UNCHANGED <<life, endpoint, world, disk, late>>,
           UNCHANGED <<enabled, second, zips, rows, shared>>,
           begun' \in 0 .. MaxRequests,
           j.step # "copy",
           j.step = "idle" => c = NoCall,
           j.step = "save" => c.todo = SaveAll,
           j.step = "open" => c.step = "idle",
           j.step \in {"save", "open"} => \A f \in Files : c.base <= disk[f]
    PROVE  ZipInv'
<1>1. /\ job \in [Requests -> Jobs] /\ call \in [Requests -> Calls]
      /\ job'[r] = j /\ call'[r] = c
      /\ \A q \in Requests : q # r => job'[q] = job[q] /\ call'[q] = call[q]
  BY DEF ZipInv, TypeOK, RconTypeOK
<1>2. TypeOK' /\ DiskBehind'
  BY DEF ZipInv, TypeOK, RconTypeOK, DiskBehind
<1>3. \A q \in Requests : CallOf(q)' /\ Flushed(q)'
  BY <1>1 DEF ZipInv, CallOf, Flushed
<1>4. Writers'
  BY <1>1 DEF ZipInv, Writers, Copied
<1>5. Listed'
  BY DEF ZipInv, Listed
<1> QED
  BY <1>2, <1>3, <1>4, <1>5 DEF ZipInv

LEMMA RequestTyped ==
    ASSUME ZipInv, NEW r \in Requests
    PROVE  /\ job[r] \in Jobs /\ call[r] \in Calls /\ NoJob \in Jobs
           /\ job \in [Requests -> Jobs] /\ call \in [Requests -> Calls]
           /\ NoJob.step = "idle" /\ begun \in 0 .. MaxRequests
           /\ Begin => begun' \in 0 .. MaxRequests
<1>1. MaxRequests \in Nat
  OBVIOUS
<1> QED
  BY <1>1 DEF ZipInv, TypeOK, RconTypeOK, NoJob, Jobs, Seconds, Begin

LEMMA EndInv ==
    ASSUME ZipInv, NEW r \in Requests, End(r), ServerAlone, ZipsAlone, begun' = begun
    PROVE  ZipInv'
<1>1. job' = [job EXCEPT ![r] = NoJob] /\ call' = [call EXCEPT ![r] = NoCall]
  BY DEF End
<1> QED
  BY <1>1, QuietInv, RequestTyped, NoCallTyped

LEMMA RconFormInv ==
    ASSUME ZipInv, NEW r \in Requests, RconForm(r)
    PROVE  ZipInv'
<1> DEFINE j == [job[r] EXCEPT !.step = "rcon"]
<1>1. PICK commands \in Todos : call' = [call EXCEPT ![r] = CallIn(r, commands)]
  <2>1. CASE Calling(r, TestConnection) \/ Calling(r, StopViaRcon)
    BY <2>1, OperationsTyped DEF Calling
  <2>2. CASE \E raw \in Raw : Valid(raw) /\ Calling(r, RunCommand(raw))
    BY <2>2, OperationsTyped DEF Calling, Valid
  <2> QED
    BY <2>1, <2>2 DEF RconForm
<1>2. job' = [job EXCEPT ![r] = j]
  BY DEF RconForm
<1>3. j \in Jobs /\ j.step = "rcon"
  BY RequestTyped DEF Jobs
<1> HIDE DEF j
<1>4. ServerAlone /\ ZipsAlone /\ begun' \in 0 .. MaxRequests
  BY RequestTyped DEF RconForm
<1> QED
  BY <1>1, <1>2, <1>3, <1>4, CallInTyped, QuietInv

LEMMA CreateBackupInv ==
    ASSUME ZipInv, NEW r \in Requests, CreateBackup(r)
    PROVE  ZipInv'
<1>1. ServerAlone /\ ZipsAlone /\ begun' \in 0 .. MaxRequests /\ At(r, "idle")
  BY RequestTyped DEF CreateBackup
<1> DEFINE step == IF enabled /\ life # "down" THEN "save" ELSE "open"
<1>2. PICK abort \in BOOLEAN : job' = [job EXCEPT ![r] =
                                          [@ EXCEPT !.abort = abort,
                                                    !.step = step]]
  BY DEF CreateBackup
<1> DEFINE j == [job[r] EXCEPT !.abort = abort, !.step = step]
<1>3. job' = [job EXCEPT ![r] = j] /\ j \in Jobs /\ j.step = step
  BY <1>2, RequestTyped DEF Jobs
<1>4. \A f \in Files : 0 <= disk[f]
  BY DEF ZipInv, TypeOK, RconTypeOK
<1>5. CASE enabled /\ life # "down"
  <2>1. call' = [call EXCEPT ![r] = CallIn(r, SaveAll)] /\ step = "save"
    BY <1>5 DEF CreateBackup, Calling
  <2>2. SaveAll \in Todos
    BY OperationsTyped
  <2>3. /\ CallIn(r, SaveAll) \in Calls /\ CallIn(r, SaveAll).todo = SaveAll
        /\ CallIn(r, SaveAll).base = 0
    BY <2>2, CallInTyped
  <2> HIDE DEF j, step
  <2>4. \A f \in Files : CallIn(r, SaveAll).base <= disk[f]
    BY <1>4, <2>3
  <2> QED
    BY <1>1, <1>3, <2>1, <2>3, <2>4, QuietInv
<1>6. CASE ~(enabled /\ life # "down")
  <2>1. call' = [call EXCEPT ![r] = call[r]] /\ step = "open"
    BY <1>6, RequestTyped DEF CreateBackup
  <2>2. call[r] = NoCall /\ NoCall.step = "idle" /\ NoCall.base = 0
    BY <1>1 DEF ZipInv, CallOf, NoCall
  <2> HIDE DEF j, step
  <2> QED
    BY <1>1, <1>3, <1>4, <2>1, <2>2, NoCallTyped, QuietInv
<1> QED
  BY <1>5, <1>6

LEMMA SaveAnsweredInv ==
    ASSUME ZipInv, NEW r \in Requests, SaveAnswered(r)
    PROVE  ZipInv'
<1>1. ServerAlone /\ ZipsAlone /\ begun' = begun /\ At(r, "save")
  BY DEF SaveAnswered
<1>2. CASE End(r)
  BY <1>1, <1>2, EndInv
<1>3. CASE /\ Goto(r, "open")
           /\ call' = [call EXCEPT ![r] = [NoCall EXCEPT !.base = call[r].base]]
  <2> DEFINE j == [job[r] EXCEPT !.step = "open"]
  <2> DEFINE c == [NoCall EXCEPT !.base = call[r].base]
  <2>1. job' = [job EXCEPT ![r] = j] /\ j \in Jobs /\ j.step = "open"
    BY <1>3, RequestTyped DEF Jobs
  <2>2. call[r].base \in 0 .. MaxWorld /\ NoCall.step = "idle"
    BY RequestTyped, CallsAre DEF NoCall
  <2>3. c \in Calls /\ c.step = "idle" /\ c.base = call[r].base
    BY <2>2, NoCallTyped, CallsAre
  <2>4. call' = [call EXCEPT ![r] = c]
    BY <1>3
  <2>5. \A f \in Files : call[r].base <= disk[f]
    BY <1>1 DEF ZipInv, Flushed
  <2> HIDE DEF j, c
  <2>6. begun' \in 0 .. MaxRequests
    BY <1>1, RequestTyped
  <2> QED
    BY <1>1, <2>1, <2>3, <2>4, <2>5, <2>6, QuietInv
<1> QED
  BY <1>2, <1>3 DEF SaveAnswered

LEMMA OpenZipInv ==
    ASSUME ZipInv, NEW r \in Requests, OpenZip(r)
    PROVE  ZipInv'
<1> DEFINE writing == \E q \in Requests : At(q, "copy") /\ job[q].second = second
<1> DEFINE j == [job[r] EXCEPT !.step = "copy", !.second = second, !.todo = Files]
<1> DEFINE zip == [NoZip EXCEPT !.state = IF writing THEN "torn" ELSE "part"]
<1>1. /\ At(r, "open") /\ ServerAlone /\ UNCHANGED <<call, enabled, second, rows, begun>>
      /\ job' = [job EXCEPT ![r] = j] /\ zips' = [zips EXCEPT ![second] = zip]
      /\ shared' = IF zips[second].state = "none" THEN shared ELSE shared \cup {second}
  BY DEF OpenZip
<1>2. second \in Seconds /\ zips \in [Seconds -> Zips] /\ shared \subseteq Seconds
  BY DEF ZipInv, TypeOK
<1>3. j \in Jobs /\ j.step = "copy" /\ j.second = second /\ j.todo = Files
  BY <1>2, RequestTyped DEF Jobs
<1>4. /\ zip \in Zips /\ zip.state = IF writing THEN "torn" ELSE "part"
      /\ DOMAIN zip.entries = {}
  BY ZipsTyped
<1> HIDE DEF j, zip, writing
<1>5. /\ job'[r] = j /\ job' \in [Requests -> Jobs]
      /\ \A q \in Requests \ {r} : job'[q] = job[q]
  BY <1>1, <1>3, RequestTyped
<1>6. /\ zips'[second] = zip /\ zips' \in [Seconds -> Zips]
      /\ \A s \in Seconds \ {second} : zips'[s] = zips[s]
  BY <1>1, <1>2, <1>4
<1>7. TypeOK' /\ DiskBehind'
  BY <1>1, <1>2, <1>5, <1>6 DEF ZipInv, TypeOK, RconTypeOK, DiskBehind
<1>8. ASSUME NEW q \in Requests
      PROVE  CallOf(q)' /\ Flushed(q)'
  BY <1>1, <1>3, <1>5 DEF ZipInv, CallOf, Flushed
<1>9. \A q \in Requests : At(q, "copy") => job[q].second \in Seconds
  BY DEF ZipInv, TypeOK, Jobs
<1>10. \A q \in Requests : At(q, "copy") /\ job[q].second = second => second \in shared'
  BY <1>1 DEF ZipInv, Writers
<1>11. \A s \in Seconds \ {second} : s \in shared' <=> s \in shared
  BY <1>1
<1>12. second \notin shared' =>
          zip.state = "part" /\ \A row \in rows : row.second # second
  BY <1>1, <1>4, <1>10 DEF ZipInv, Listed, writing
<1>13. \A q \in Requests \ {r} : At(q, "copy")' =>
          /\ zips'[job'[q].second].state # "none"
          /\ \A p \in Requests : At(p, "copy")' /\ job'[p].second = job'[q].second /\ p # q
                                    => job'[q].second \in shared'
          /\ job'[q].second \notin shared' => Copied(q)'
  <2> SUFFICES ASSUME NEW q \in Requests \ {r}, At(q, "copy")
               PROVE  /\ zips'[job[q].second].state # "none"
                      /\ \A p \in Requests :
                            At(p, "copy")' /\ job'[p].second = job[q].second /\ p # q
                               => job[q].second \in shared'
                      /\ job[q].second \notin shared' => Copied(q)'
    BY <1>5
  <2>1. CASE job[q].second = second
    BY <1>4, <1>6, <1>10, <2>1
  <2>2. CASE job[q].second # second
    <3>1. /\ zips'[job[q].second] = zips[job[q].second]
          /\ job[q].second \in shared' <=> job[q].second \in shared
      BY <1>6, <1>9, <1>11, <2>2
    <3>2. \A p \in Requests : At(p, "copy")' /\ job'[p].second = job[q].second /\ p # q
                                => p # r /\ At(p, "copy") /\ job[p].second = job[q].second
      BY <1>3, <1>5, <2>2
    <3>3. Copied(q) => Copied(q)'
      BY <1>1, <1>5, <3>1 DEF Copied
    <3> QED
      BY <3>1, <3>2, <3>3 DEF ZipInv, Writers
  <2> QED
    BY <2>1, <2>2
<1>14. /\ zips'[job'[r].second].state # "none"
       /\ \A p \in Requests : At(p, "copy")' /\ job'[p].second = job'[r].second /\ p # r
                                 => job'[r].second \in shared'
       /\ job'[r].second \notin shared' => Copied(r)'
  <2>1. zips'[job'[r].second] = zip /\ job'[r].second = second /\ job'[r].todo = Files
    BY <1>3, <1>5, <1>6
  <2>2. \A p \in Requests : At(p, "copy")' /\ job'[p].second = second /\ p # r
                              => At(p, "copy") /\ job[p].second = second
    BY <1>5
  <2>3. second \notin shared' => Copied(r)'
    BY <1>1, <1>4, <1>12, <2>1 DEF Copied
  <2> QED
    BY <1>4, <1>10, <2>1, <2>2, <2>3
<1>15. Writers'
  BY <1>13, <1>14 DEF Writers
<1>16. Listed'
  <2>1. rows \subseteq ZipRows
    BY DEF ZipInv, TypeOK
  <2>2. ASSUME NEW row \in rows, row.second = second
        PROVE  zips'[row.second].state # "none" /\ row.second \in shared'
    BY <1>1, <1>4, <1>6, <2>2 DEF ZipInv, Listed
  <2>3. ASSUME NEW row \in rows, row.second # second
        PROVE  zips'[row.second] = zips[row.second] /\ row.second \in shared' <=> row.second \in shared
    BY <1>6, <1>11, <2>1, <2>3 DEF ZipRows
  <2> QED
    BY <1>1, <2>2, <2>3 DEF ZipInv, Listed
<1> QED
  BY <1>7, <1>8, <1>15, <1>16 DEF ZipInv

(* What a request of a copy knows of the second it writes to.              *)
LEMMA Copier ==
    ASSUME ZipInv, NEW r \in Requests, At(r, "copy")
    PROVE  /\ job[r].second \in Seconds /\ job[r].todo \subseteq Files
           /\ zips \in [Seconds -> Zips] /\ zips[job[r].second].state # "none"
           /\ \A q \in Requests \ {r} : At(q, "copy") /\ job[q].second = job[r].second
                                         => job[r].second \in shared
           /\ job[r].second \notin shared => Copied(r)
BY DEF ZipInv, TypeOK, Jobs, Writers

LEMMA CopyFileInv ==
    ASSUME ZipInv, NEW r \in Requests, CopyFile(r)
    PROVE  ZipInv'
<1> DEFINE s == job[r].second
<1> DEFINE old == zips[s].entries
<1>1. PICK f \in job[r].todo :
          /\ job' = [job EXCEPT ![r].todo = @ \ {f}]
          /\ zips' = [zips EXCEPT ![s].entries =
                        [g \in {f} \cup DOMAIN @ |-> IF g = f THEN disk[f] ELSE @[g]]]
  BY DEF CopyFile
<1> DEFINE new == [g \in {f} \cup DOMAIN old |-> IF g = f THEN disk[f] ELSE old[g]]
<1> DEFINE j == [job[r] EXCEPT !.todo = @ \ {f}]
<1> DEFINE zip == [zips[s] EXCEPT !.entries = new]
<1>2. /\ At(r, "copy") /\ ServerAlone
      /\ UNCHANGED <<call, enabled, second, rows, shared, begun>>
  BY DEF CopyFile
<1>3. /\ s \in Seconds /\ job[r].todo \subseteq Files /\ f \in Files
      /\ zips \in [Seconds -> Zips] /\ zips[s].state # "none"
      /\ \A q \in Requests \ {r} : At(q, "copy") /\ job[q].second = s => s \in shared
      /\ s \notin shared => Copied(r)
  BY <1>1, <1>2, Copier
<1>4. j \in Jobs /\ j.step = "copy" /\ j.second = s /\ j.todo = job[r].todo \ {f}
  BY <1>2, <1>3, RequestTyped DEF Jobs
<1>5. new \in Entries /\ DOMAIN new = {f} \cup DOMAIN old /\ new[f] = disk[f]
        /\ \A g \in DOMAIN old \ {f} : new[g] = old[g]
  <2>1. old \in Entries
    BY <1>3, ZipsTyped
  <2>2. disk[f] \in 0 .. MaxWorld
    BY <1>3 DEF ZipInv, TypeOK, RconTypeOK
  <2>3. DOMAIN old \subseteq Files /\ \A g \in DOMAIN old : old[g] \in 0 .. MaxWorld
    BY <2>1, EntriesTyped
  <2>4. DOMAIN new \subseteq Files /\ new \in [DOMAIN new -> 0 .. MaxWorld]
    BY <1>3, <2>2, <2>3
  <2> QED
    BY <2>4, EntriesTyped
<1>6. zip \in Zips /\ zip.state = zips[s].state /\ zip.entries = new
  BY <1>3, <1>5, ZipsTyped
<1>7. /\ job'[r] = j /\ job' \in [Requests -> Jobs]
      /\ \A q \in Requests \ {r} : job'[q] = job[q]
  BY <1>1, <1>4, RequestTyped
<1>8. /\ zips'[s] = zip /\ zips' \in [Seconds -> Zips]
      /\ \A t \in Seconds \ {s} : zips'[t] = zips[t]
  BY <1>1, <1>3, <1>6
<1> HIDE DEF j, zip, new
<1>9. TypeOK' /\ DiskBehind'
  BY <1>2, <1>7, <1>8 DEF ZipInv, TypeOK, RconTypeOK, DiskBehind
<1>10. ASSUME NEW q \in Requests
       PROVE  CallOf(q)' /\ Flushed(q)'
  BY <1>2, <1>4, <1>7 DEF ZipInv, CallOf, Flushed
<1>11. \A t \in Seconds : (zips'[t].state = zips[t].state) /\ (t # s => zips'[t] = zips[t])
  BY <1>6, <1>8
<1>12. \A q \in Requests : At(q, "copy")' <=> At(q, "copy")
  BY <1>2, <1>4, <1>7
<1>13. \A q \in Requests : job'[q].second = job[q].second
  BY <1>4, <1>7
<1>14. s \notin shared => Copied(r)'
  <2> SUFFICES ASSUME s \notin shared PROVE Copied(r)'
    OBVIOUS
  <2>1. /\ zips[s].state = "part" /\ DOMAIN old = Files \ job[r].todo
        /\ \A g \in Files \ job[r].todo : old[g] >= call[r].base
        /\ \A row \in rows : row.second # s
    BY <1>3 DEF Copied
  <2>2. DOMAIN new = Files \ (job[r].todo \ {f})
    BY <1>1, <1>3, <1>5, <2>1
  <2>3. call[r].base <= disk[f] /\ call[r].base \in Int /\ disk[f] \in Int
    BY <1>2, <1>3, RequestTyped, CallsAre DEF ZipInv, Flushed, TypeOK, RconTypeOK
  <2>4. \A g \in Files \ (job[r].todo \ {f}) : new[g] >= call[r].base
    BY <1>5, <2>1, <2>3
  <2> QED
    BY <1>2, <1>4, <1>6, <1>7, <1>8, <2>1, <2>2, <2>4 DEF Copied
<1>15. Writers'
  <2> SUFFICES ASSUME NEW q \in Requests, At(q, "copy")
               PROVE  /\ zips'[job[q].second].state # "none"
                      /\ \A p \in Requests : At(p, "copy") /\ job[p].second = job[q].second
                                                /\ p # q => job[q].second \in shared
                      /\ job[q].second \notin shared => Copied(q)'
    BY <1>2, <1>12, <1>13 DEF Writers
  <2>1. zips'[job[q].second].state # "none" /\ job[q].second \in Seconds
    BY <1>11, Copier
  <2>2. \A p \in Requests : At(p, "copy") /\ job[p].second = job[q].second /\ p # q
                              => job[q].second \in shared
    BY Copier
  <2>3. CASE q = r
    BY <1>14, <2>1, <2>2, <2>3
  <2>4. CASE q # r /\ job[q].second # s
    <3>1. Copied(q) => Copied(q)'
      BY <1>2, <1>7, <1>11, <2>1, <2>4 DEF Copied
    <3> QED
      BY <2>1, <2>2, <3>1, Copier
  <2>5. CASE q # r /\ job[q].second = s
    BY <1>2, <1>3, <2>1, <2>2, <2>5
  <2> QED
    BY <2>3, <2>4, <2>5
<1>16. Listed'
  <2>1. rows \subseteq ZipRows
    BY DEF ZipInv, TypeOK
  <2>2. ASSUME NEW row \in rows
        PROVE  /\ zips'[row.second].state # "none"
               /\ row.second \notin shared => zips'[row.second] = zips[row.second]
    <3>1. row.second \in Seconds
      BY <2>1 DEF ZipRows
    <3>2. row.second = s => s \in shared
      BY <1>3 DEF Copied
    <3> QED
      BY <1>11, <3>1, <3>2 DEF ZipInv, Listed
  <2> QED
    BY <1>2, <2>2 DEF ZipInv, Listed
<1> QED
  BY <1>9, <1>10, <1>15, <1>16 DEF ZipInv

LEMMA CloseZipInv ==
    ASSUME ZipInv, NEW r \in Requests, CloseZip(r)
    PROVE  ZipInv'
<1> DEFINE s == job[r].second
<1> DEFINE zip == [zips[s] EXCEPT !.state = IF @ = "torn" THEN @ ELSE "whole"]
<1> DEFINE listing == [second |-> s, base |-> call[r].base]
<1>1. /\ At(r, "copy") /\ job[r].todo = {} /\ End(r)
      /\ zips' = [zips EXCEPT ![s] = zip]
      /\ rows' = rows \cup {listing} \/ rows' = rows
      /\ ServerAlone /\ UNCHANGED <<enabled, second, shared, begun>>
  BY DEF CloseZip
<1>2. /\ s \in Seconds /\ zips \in [Seconds -> Zips] /\ zips[s].state # "none"
      /\ \A q \in Requests \ {r} : At(q, "copy") /\ job[q].second = s => s \in shared
      /\ s \notin shared => Copied(r)
  BY <1>1, Copier
<1>3. /\ zip \in Zips /\ zip.state \in {"torn", "whole"} /\ zip.entries = zips[s].entries
      /\ zips[s].state # "torn" => zip.state = "whole"
  BY <1>2, ZipsTyped
<1>4. /\ zips'[s] = zip /\ zips' \in [Seconds -> Zips]
      /\ \A t \in Seconds \ {s} : zips'[t] = zips[t]
  BY <1>1, <1>2, <1>3
<1> HIDE DEF zip
<1>5. /\ job'[r] = NoJob /\ job' \in [Requests -> Jobs]
      /\ call'[r] = NoCall /\ call' \in [Requests -> Calls]
      /\ \A q \in Requests \ {r} : job'[q] = job[q] /\ call'[q] = call[q]
  BY <1>1, RequestTyped, NoCallTyped DEF End
<1>6. listing \in ZipRows /\ listing.second = s /\ listing.base = call[r].base
  BY <1>2, RequestTyped, CallsAre DEF ZipRows
<1> HIDE DEF listing
<1>7. TypeOK' /\ DiskBehind'
  BY <1>1, <1>4, <1>5, <1>6 DEF ZipInv, TypeOK, RconTypeOK, DiskBehind
<1>8. ASSUME NEW q \in Requests
      PROVE  CallOf(q)' /\ Flushed(q)'
  BY <1>1, <1>5, RequestTyped DEF ZipInv, CallOf, Flushed
<1>9. Writers'
  <2> SUFFICES ASSUME NEW q \in Requests \ {r}, At(q, "copy")
               PROVE  /\ zips'[job[q].second].state # "none"
                      /\ \A p \in Requests \ {r} :
                            At(p, "copy") /\ job[p].second = job[q].second /\ p # q
                               => job[q].second \in shared
                      /\ job[q].second \notin shared => Copied(q)'
    BY <1>1, <1>5, RequestTyped DEF Writers
  <2>1. /\ job[q].second \in Seconds /\ zips[job[q].second].state # "none"
        /\ \A p \in Requests \ {q} : At(p, "copy") /\ job[p].second = job[q].second
                                      => job[q].second \in shared
        /\ job[q].second \notin shared => Copied(q)
    BY Copier
  <2>2. CASE job[q].second = s
    BY <1>2, <1>3, <1>4, <2>1, <2>2
  <2>3. CASE job[q].second # s
    <3>1. zips'[job[q].second] = zips[job[q].second]
      BY <1>4, <2>1, <2>3
    <3>2. Copied(q) => Copied(q)'
      BY <1>1, <1>5, <1>6, <2>3, <3>1 DEF Copied
    <3> QED
      BY <1>1, <2>1, <3>1, <3>2
  <2> QED
    BY <2>2, <2>3
<1>10. ASSUME s \notin shared
       PROVE  /\ zips'[s].state = "whole" /\ DOMAIN zips'[s].entries = Files
              /\ \A f \in Files : zips'[s].entries[f] >= call[r].base
              /\ \A row \in rows : row.second # s
  BY <1>1, <1>2, <1>3, <1>4, <1>10 DEF Copied
<1>11. ASSUME NEW row \in rows'
       PROVE  /\ zips'[row.second].state # "none"
              /\ row.second \notin shared =>
                    /\ zips'[row.second].state = "whole" /\ DOMAIN zips'[row.second].entries = Files
                    /\ \A f \in Files : zips'[row.second].entries[f] >= row.base
  <2>1. CASE row = listing
    BY <1>3, <1>4, <1>6, <1>10, <2>1
  <2>2. CASE row \in rows /\ row.second = s
    BY <1>3, <1>4, <1>10, <2>2
  <2>3. CASE row \in rows /\ row.second # s
    <3>1. row.second \in Seconds
      BY <2>3 DEF ZipInv, TypeOK, ZipRows
    <3>2. zips'[row.second] = zips[row.second]
      BY <1>4, <2>3, <3>1
    <3> QED
      BY <2>3, <3>2 DEF ZipInv, Listed
  <2> QED
    BY <1>1, <1>11, <2>1, <2>2, <2>3
<1>12. Listed'
  BY <1>1, <1>11 DEF Listed
<1> QED
  BY <1>7, <1>8, <1>9, <1>12 DEF ZipInv

LEMMA CrashInv ==
    ASSUME ZipInv, Crash
    PROVE  ZipInv'
<1>1. /\ \A r \in Requests : call'[r] = NoCall /\ job'[r] = NoJob
      /\ call' \in [Requests -> Calls] /\ job' \in [Requests -> Jobs]
  BY NoCallTyped, RequestTyped DEF Crash
<1>2. late' \subseteq Lasting
  BY DEF Crash, ZipInv, TypeOK, RconTypeOK
<1>3. UNCHANGED <<life, endpoint, world, disk, enabled, second, zips, rows, shared, begun>>
  BY DEF Crash
<1>4. TypeOK' /\ DiskBehind'
  BY <1>1, <1>2, <1>3 DEF ZipInv, TypeOK, RconTypeOK, DiskBehind
<1>5. NoJob.step = "idle"
  BY DEF NoJob
<1>6. \A r \in Requests : CallOf(r)' /\ Flushed(r)'
  BY <1>1, <1>5 DEF CallOf, Flushed
<1>7. Writers'
  BY <1>1, <1>5 DEF Writers
<1>8. Listed'
  BY <1>3 DEF ZipInv, Listed
<1> QED
  BY <1>4, <1>6, <1>7, <1>8 DEF ZipInv

LEMMA TickInv ==
    ASSUME ZipInv, Tick
    PROVE  ZipInv'
<1>1. /\ second' \in Seconds
      /\ UNCHANGED <<life, endpoint, world, disk, late, call, enabled, zips, rows, job, shared, begun>>
  BY DEF Tick, rcon_vars, ZipInv, TypeOK, Seconds
<1> QED
  BY <1>1 DEF ZipInv, TypeOK, RconTypeOK, DiskBehind, CallOf, Flushed, Writers, Copied, Listed

LEMMA NextInv == ZipInv /\ [Next]_vars => ZipInv'
<1> SUFFICES ASSUME ZipInv, [Next]_vars PROVE ZipInv'
  OBVIOUS
<1>1. CASE Rcon /\ UNCHANGED <<enabled, second, zips, rows, job, shared, begun>>
  <2>1. Forward
    BY <1>1, GameForward, LateForward, ExchangeForward DEF Rcon, ZipInv, TypeOK
  <2> QED
    BY <1>1, <2>1, ForwardInv
<1>2. ASSUME NEW r \in Requests, RconForm(r) PROVE ZipInv'
  BY <1>2, RconFormInv
<1>3. ASSUME NEW r \in Requests, RconFormEnd(r) PROVE ZipInv'
  BY <1>3, EndInv DEF RconFormEnd
<1>4. ASSUME NEW r \in Requests, CreateBackup(r) PROVE ZipInv'
  BY <1>4, CreateBackupInv
<1>5. ASSUME NEW r \in Requests, SaveAnswered(r) PROVE ZipInv'
  BY <1>5, SaveAnsweredInv
<1>6. ASSUME NEW r \in Requests, OpenZip(r) PROVE ZipInv'
  BY <1>6, OpenZipInv
<1>7. ASSUME NEW r \in Requests, CopyFile(r) PROVE ZipInv'
  BY <1>7, CopyFileInv
<1>8. ASSUME NEW r \in Requests, CopyFails(r) PROVE ZipInv'
  BY <1>8, EndInv DEF CopyFails
<1>9. ASSUME NEW r \in Requests, CloseZip(r) PROVE ZipInv'
  BY <1>9, CloseZipInv
<1>10. CASE Tick
  BY <1>10, TickInv
<1>11. CASE Crash
  BY <1>11, CrashInv
<1>12. CASE UNCHANGED vars
  BY <1>12 DEF vars, rcon_vars, ZipInv, TypeOK, RconTypeOK, DiskBehind, CallOf, Flushed,
               Writers, Copied, Listed
<1> QED
  BY <1>1, <1>2, <1>3, <1>4, <1>5, <1>6, <1>7, <1>8, <1>9, <1>10, <1>11, <1>12 DEF Next

----------------------------------------------------------------------------
(* Every state of the two modules has its types.                           *)
THEOREM TypeCorrect == Spec => []TypeOK
<1>1. ZipInv => TypeOK
  BY DEF ZipInv
<1> QED
  BY <1>1, InitInv, NextInv, PTL DEF Spec

(* A listed zip that no other backup of the same second has written to is  *)
(* complete, and holds the save its request was told of, for any number of *)
(* requests and files and however often the server and the application die *)
(* (backup_service.py:86-129, rcon_service.py:147-212).                    *)
THEOREM ListedSound == Spec => []ZipSound
<1>1. ZipInv => ZipSound
  BY DEF ZipInv, Listed, ZipSound, ZipWhole, ZipFresh, Unshared
<1> QED
  BY <1>1, InitInv, NextInv, PTL DEF Spec
=============================================================================

------------------------ MODULE BackupServiceProofs ------------------------
(***************************************************************************)
(* Theorems about process control and, on top of it, about the backups:    *)
(* for every number of sessions, pids and worlds, every generation count   *)
(* and every bound on ids and seconds. The first part is about Spec, the   *)
(* module ServerProcess alone; the second about BackupSpec, which adds the *)
(* backups' own steps to it and uses the lemmas of the first.              *)
(***************************************************************************)
EXTENDS BackupService, TLAPS, FiniteSetTheorems, WellFoundedInduction

USE DEF At, Loaded

----------------------------------------------------------------------------
(* Process control: types                                                  *)

LEMMA TypeInit == Init => TypeOK
BY ConstantsAssumption DEF Init, TypeOK, Rows, ProcStates, SessionStates,
   IdleSession, Labels, Requests

(* What a session's record may hold where other modules add labels to the  *)
(* program counter and requests of their own to these.                     *)
SessionsOver(More, Others) ==
    [pc : Labels \cup More, req : Requests \cup Others, after : Labels \cup More,
     back : Labels, res : {"stopped", "running"}, row : Rows \cup {Expired},
     pid : Pids \cup {NoPid}]

Typed(More, Others) ==
    /\ db \in Rows
    /\ proc \in [Pids -> ProcStates]
    /\ sess \in [Sessions -> SessionsOver(More, Others)]

LEMMA TypedAlone ==
    /\ SessionsOver({}, {}) = SessionStates
    /\ TypeOK <=> Typed({}, {})
<1>1. SessionsOver({}, {}) = SessionStates
  BY DEF SessionsOver, SessionStates
<1> QED BY <1>1 DEF TypeOK, Typed

(* What a step makes of one session's record, field by field.              *)
With(x, pc, after, back, res, row, pid) ==
    [pc |-> pc, req |-> x.req, after |-> after, back |-> back, res |-> res,
     row |-> row, pid |-> pid]

Becomes(s, y) == sess' = [sess EXCEPT ![s] = y]

LEMMA BecomesIf ==
    ASSUME NEW S, sess \in [Sessions -> S], NEW s \in Sessions, NEW y,
           sess' = [t \in Sessions |-> sess'[t]],
           \A t \in Sessions \ {s} : sess'[t] = sess[t],
           sess'[s] = y
    PROVE  Becomes(s, y)
<1>1. \A t \in Sessions : sess'[t] = [sess EXCEPT ![s] = y][t]
  OBVIOUS
<1>2. [sess EXCEPT ![s] = y] = [t \in Sessions |-> [sess EXCEPT ![s] = y][t]]
  OBVIOUS
<1> QED BY <1>1, <1>2 DEF Becomes

(* The helpers of the model, as such updates of the record x of session s. *)
Writes(s, x) ==
    /\ \A l : Goto(s, l) =>
          Becomes(s, With(x, l, x.after, x.back, x.res, x.row, x.pid))
    /\ \A l : GotoExpired(s, l) =>
          Becomes(s, With(x, l, x.after, x.back, x.res, Expired, x.pid))
    /\ \A l : Refresh(s, l) =>
          Becomes(s, With(x, "refresh", l, x.back, x.res, x.row, x.pid))
    /\ \A r : RefreshDone(s, r) =>
          Becomes(s, With(x, x.after, "idle", x.back, r, x.row, x.pid))
    /\ \A r : RefreshDoneExpired(s, r) =>
          Becomes(s, With(x, x.after, "idle", x.back, r, Expired, x.pid))

LEMMA Updates ==
    ASSUME NEW CONSTANT More, NEW CONSTANT Others, Typed(More, Others),
           NEW s \in Sessions
    PROVE  Writes(s, sess[s])
<1> DEFINE x == sess[s]
<1>1. sess \in [Sessions -> SessionsOver(More, Others)]
  BY DEF Typed
<1>2. ASSUME NEW l, Goto(s, l)
      PROVE  Becomes(s, With(x, l, x.after, x.back, x.res, x.row, x.pid))
  <2>1. /\ sess'[s] = With(x, l, x.after, x.back, x.res, x.row, x.pid)
        /\ \A t \in Sessions \ {s} : sess'[t] = sess[t]
        /\ sess' = [t \in Sessions |-> sess'[t]]
    BY <1>1, <1>2 DEF Goto, With, SessionsOver
  <2> QED BY <1>1, <2>1, BecomesIf
<1>3. ASSUME NEW l, GotoExpired(s, l)
      PROVE  Becomes(s, With(x, l, x.after, x.back, x.res, Expired, x.pid))
  <2>1. /\ sess'[s] = With(x, l, x.after, x.back, x.res, Expired, x.pid)
        /\ \A t \in Sessions \ {s} : sess'[t] = sess[t]
        /\ sess' = [t \in Sessions |-> sess'[t]]
    BY <1>1, <1>3 DEF GotoExpired, With, SessionsOver
  <2> QED BY <1>1, <2>1, BecomesIf
<1>4. ASSUME NEW l, Refresh(s, l)
      PROVE  Becomes(s, With(x, "refresh", l, x.back, x.res, x.row, x.pid))
  <2>1. /\ sess'[s] = With(x, "refresh", l, x.back, x.res, x.row, x.pid)
        /\ \A t \in Sessions \ {s} : sess'[t] = sess[t]
        /\ sess' = [t \in Sessions |-> sess'[t]]
    BY <1>1, <1>4 DEF Refresh, With, SessionsOver
  <2> QED BY <1>1, <2>1, BecomesIf
<1>5. ASSUME NEW r, RefreshDone(s, r)
      PROVE  Becomes(s, With(x, x.after, "idle", x.back, r, x.row, x.pid))
  <2>1. /\ sess'[s] = With(x, x.after, "idle", x.back, r, x.row, x.pid)
        /\ \A t \in Sessions \ {s} : sess'[t] = sess[t]
        /\ sess' = [t \in Sessions |-> sess'[t]]
    BY <1>1, <1>5 DEF RefreshDone, With, SessionsOver
  <2> QED BY <1>1, <2>1, BecomesIf
<1>6. ASSUME NEW r, RefreshDoneExpired(s, r)
      PROVE  Becomes(s, With(x, x.after, "idle", x.back, r, Expired, x.pid))
  <2>1. /\ sess'[s] = With(x, x.after, "idle", x.back, r, Expired, x.pid)
        /\ \A t \in Sessions \ {s} : sess'[t] = sess[t]
        /\ sess' = [t \in Sessions |-> sess'[t]]
    BY <1>1, <1>6 DEF RefreshDoneExpired, With, SessionsOver
  <2> QED BY <1>1, <2>1, BecomesIf
<1> QED BY <1>2, <1>3, <1>4, <1>5, <1>6 DEF Writes

(* And the actions that write several fields themselves.                   *)
Assigns(s, x) ==
    /\ StopChecked(s) =>
          /\ x.pc = "stop_checked" /\ x.row # Expired /\ UNCHANGED <<db, proc>>
          /\ \/ x.res = "stopped" /\ Goto(s, "stop_ret")
             \/ /\ x.res = "running"
                /\ Becomes(s, With(x, "rcon", x.after, "stop_ret", x.res, x.row, x.row.pid))
    /\ KillChecked(s) =>
          /\ x.pc = "kill_checked" /\ x.row # Expired /\ UNCHANGED <<db, proc>>
          /\ \/ x.res = "stopped" /\ Goto(s, "kill_ret")
             \/ /\ x.res = "running"
                /\ Becomes(s, With(x, "sigkill", x.after, "kill_ret", x.res, x.row, x.row.pid))
    /\ RestartConfirm(s) =>
          /\ x.pc = "stop_ret" /\ x.req = "restart" /\ UNCHANGED <<db, proc>>
          /\ Becomes(s, With(x, "refresh", "restart_confirmed", "idle", x.res, x.row, NoPid))
    /\ Spawn(s) =>
          /\ x.pc = "spawn" /\ UNCHANGED db
          /\ \/ \E p \in Pids :
                   /\ proc[p] = "free" /\ proc' = [proc EXCEPT ![p] = "server"]
                   /\ Becomes(s, With(x, "record_pid", x.after, x.back, x.res, x.row, p))
             \/ Goto(s, "start_ret") /\ UNCHANGED proc
    /\ RecordPid(s) =>
          /\ x.pc = "record_pid" /\ UNCHANGED proc
          /\ Flush(s, [status |-> "running", pid |-> x.pid])
          /\ Becomes(s, With(x, "start_ret", x.after, x.back, x.res, Expired, NoPid))

LEMMA Assignments ==
    ASSUME NEW CONSTANT More, NEW CONSTANT Others, Typed(More, Others),
           NEW s \in Sessions
    PROVE  Assigns(s, sess[s])
<1> DEFINE x == sess[s]
<1>1. sess \in [Sessions -> SessionsOver(More, Others)]
  BY DEF Typed
<1>2. ASSUME NEW l, NEW b, NEW p,
             sess' = [sess EXCEPT ![s] = [@ EXCEPT !.pc = l, !.back = b, !.pid = p]]
      PROVE  Becomes(s, With(x, l, x.after, b, x.res, x.row, p))
  <2>1. /\ sess'[s] = With(x, l, x.after, b, x.res, x.row, p)
        /\ \A t \in Sessions \ {s} : sess'[t] = sess[t]
        /\ sess' = [t \in Sessions |-> sess'[t]]
    BY <1>1, <1>2 DEF With, SessionsOver
  <2> QED BY <1>1, <2>1, BecomesIf
<1>3. ASSUME NEW p,
             sess' = [sess EXCEPT ![s] = [@ EXCEPT !.pc = "record_pid", !.pid = p]]
      PROVE  Becomes(s, With(x, "record_pid", x.after, x.back, x.res, x.row, p))
  <2>1. /\ sess'[s] = With(x, "record_pid", x.after, x.back, x.res, x.row, p)
        /\ \A t \in Sessions \ {s} : sess'[t] = sess[t]
        /\ sess' = [t \in Sessions |-> sess'[t]]
    BY <1>1, <1>3 DEF With, SessionsOver
  <2> QED BY <1>1, <2>1, BecomesIf
<1>4. ASSUME RestartConfirm(s)
      PROVE  Becomes(s, With(x, "refresh", "restart_confirmed", "idle", x.res, x.row, NoPid))
  <2>1. /\ sess'[s] = With(x, "refresh", "restart_confirmed", "idle", x.res, x.row, NoPid)
        /\ \A t \in Sessions \ {s} : sess'[t] = sess[t]
        /\ sess' = [t \in Sessions |-> sess'[t]]
    BY <1>1, <1>4 DEF RestartConfirm, With, SessionsOver
  <2> QED BY <1>1, <2>1, BecomesIf
<1>5. ASSUME RecordPid(s)
      PROVE  Becomes(s, With(x, "start_ret", x.after, x.back, x.res, Expired, NoPid))
  <2>1. /\ sess'[s] = With(x, "start_ret", x.after, x.back, x.res, Expired, NoPid)
        /\ \A t \in Sessions \ {s} : sess'[t] = sess[t]
        /\ sess' = [t \in Sessions |-> sess'[t]]
    BY <1>1, <1>5 DEF RecordPid, With, SessionsOver
  <2> QED BY <1>1, <2>1, BecomesIf
<1> QED
  BY <1>2, <1>3, <1>4, <1>5
     DEF Assigns, StopChecked, KillChecked, RestartConfirm, Spawn, RecordPid

LEMMA TypedStep ==
    ASSUME NEW CONSTANT More, NEW CONSTANT Others, Typed(More, Others), [Next]_vars
    PROVE  Typed(More, Others)'
<1> USE ConstantsAssumption DEF Typed
<1>1. \A s \in Sessions : Writes(s, sess[s]) /\ Assigns(s, sess[s])
  BY Updates, Assignments
<1>2. IdleSession \in SessionsOver(More, Others)
  BY DEF SessionsOver, IdleSession, Labels, Requests
<1>3. ASSUME NEW s \in Sessions, NEW r \in Requests, Arrive(s, r)
      PROVE  Typed(More, Others)'
  <2>1. /\ r # "poll" => Entry[r] \in Labels
        /\ "view_ret" \in Labels
    BY DEF Entry, Labels, Requests
  <2> DEFINE new == [IdleSession EXCEPT
            !.req = r, !.row = db,
            !.pc = IF r = "poll" THEN "persist" ELSE "refresh",
            !.after = IF r = "poll" THEN "view_ret" ELSE Entry[r]]
  <2>2. new \in SessionsOver(More, Others)
    BY <2>1, <1>2 DEF IdleSession, SessionsOver, Labels
  <2>3. sess' = [sess EXCEPT ![s] = new] /\ UNCHANGED <<db, proc>>
    BY <1>3 DEF Arrive
  <2> HIDE DEF new
  <2> QED BY <2>2, <2>3
<1>4. ASSUME NEW s \in Sessions, Persist(s) \/ Load(s) PROVE Typed(More, Others)'
  BY <1>1, <1>4 DEF Writes, Becomes, With, Persist, Load, SessionsOver, Labels
<1>5. ASSUME NEW s \in Sessions, Answer(s) \/ Locked(s) PROVE Typed(More, Others)'
  BY <1>5, <1>2 DEF Answer, Locked
<1>6. ASSUME NEW s \in Sessions, RefreshCheck(s) PROVE Typed(More, Others)'
  BY <1>1, <1>6 DEF Writes, Becomes, With, RefreshCheck, SessionsOver, Labels
<1>7. ASSUME NEW s \in Sessions, MarkRunning(s) \/ ClearRow(s) \/ MarkStopped(s)
      PROVE  Typed(More, Others)'
  <2>1. db' \in Rows
    BY <1>7 DEF MarkRunning, ClearRow, MarkStopped, Flush, Rows
  <2>2. sess' \in [Sessions -> SessionsOver(More, Others)]
    BY <1>1, <1>7 DEF Writes, Becomes, With, MarkRunning, ClearRow, MarkStopped,
       SessionsOver, Labels
  <2> QED BY <2>1, <2>2, <1>7 DEF MarkRunning, ClearRow, MarkStopped
<1>8. ASSUME NEW s \in Sessions, StartChecked(s) \/ StopViaRcon(s) \/ StopViaStdin(s)
      PROVE  Typed(More, Others)'
  BY <1>1, <1>8 DEF Writes, Becomes, With, StartChecked, StopViaRcon, StopViaStdin, SessionsOver, Labels
<1>9. ASSUME NEW s \in Sessions, Spawn(s) PROVE Typed(More, Others)'
  <2>1. Assigns(s, sess[s])
    BY <1>1
  <2>2. CASE Goto(s, "start_ret") /\ UNCHANGED <<db, proc>>
    BY <1>1, <2>2 DEF Writes, Becomes, With, SessionsOver, Labels
  <2>3. ASSUME NEW p \in Pids, proc' = [proc EXCEPT ![p] = "server"], db' = db,
               Becomes(s, With(sess[s], "record_pid", sess[s].after, sess[s].back,
                               sess[s].res, sess[s].row, p))
        PROVE  Typed(More, Others)'
    BY <2>3 DEF Becomes, With, SessionsOver, Labels, ProcStates
  <2> QED BY <1>9, <2>1, <2>2, <2>3 DEF Assigns
<1>10. ASSUME NEW s \in Sessions, RecordPid(s) PROVE Typed(More, Others)'
  <2>1. db' \in Rows
    BY <1>10 DEF RecordPid, Flush, Rows, SessionsOver
  <2> DEFINE new == [sess[s] EXCEPT !.pc = "start_ret", !.row = Expired,
                                    !.pid = NoPid]
  <2>2. sess' = [sess EXCEPT ![s] = new] /\ UNCHANGED proc
    BY <1>10 DEF RecordPid
  <2>3. new \in SessionsOver(More, Others)
    <3>1. sess[s] \in SessionsOver(More, Others) /\ "start_ret" \in Labels
      BY DEF Labels
    <3> HIDE DEF Typed
    <3> QED BY <3>1 DEF SessionsOver
  <2> HIDE DEF new
  <2> QED BY <2>1, <2>2, <2>3
<1>11. ASSUME NEW s \in Sessions, NEW next \in Labels, NEW back \in Labels,
              sess[s].row # Expired, UNCHANGED <<db, proc>>,
              Becomes(s, With(sess[s], next, sess[s].after, back, sess[s].res,
                              sess[s].row, sess[s].row.pid))
       PROVE  Typed(More, Others)'
  <2>1. sess[s].row.pid \in Pids \cup {NoPid}
    BY <1>11 DEF SessionsOver, Rows
  <2> QED BY <1>11, <2>1 DEF Becomes, With, SessionsOver
<1>12. ASSUME NEW s \in Sessions, StopChecked(s) \/ KillChecked(s)
       PROVE  Typed(More, Others)'
  <2>1. Assigns(s, sess[s])
    BY <1>1
  <2>2. {"rcon", "sigkill", "stop_ret", "kill_ret"} \subseteq Labels
    BY DEF Labels
  <2>3. CASE (Goto(s, "stop_ret") \/ Goto(s, "kill_ret")) /\ UNCHANGED <<db, proc>>
    BY <1>1, <2>3 DEF Writes, Becomes, With, SessionsOver, Labels
  <2> QED BY <1>11, <1>12, <2>1, <2>2, <2>3 DEF Assigns
<1>13. ASSUME NEW s \in Sessions, StopViaSigterm(s) \/ KillViaSigkill(s)
       PROVE  Typed(More, Others)'
  BY <1>1, <1>13, <1>2 DEF Writes, Becomes, With, StopViaSigterm, KillViaSigkill, SessionsOver, Labels
<1>14. ASSUME NEW s \in Sessions, WaitForExit(s) PROVE Typed(More, Others)'
  BY <1>1, <1>14 DEF Writes, Becomes, With, WaitForExit, NextRung, SessionsOver, Labels
<1>15. ASSUME NEW s \in Sessions,
              RestartChecked(s) \/ RestartConfirm(s) \/ RestartConfirmed(s)
       PROVE  Typed(More, Others)'
  <2>1. CASE RestartChecked(s) \/ RestartConfirmed(s)
    BY <1>1, <2>1 DEF Writes, Becomes, With, RestartChecked, RestartConfirmed,
       SessionsOver, Labels
  <2>2. CASE RestartConfirm(s)
    <3>1. Assigns(s, sess[s])
      BY <1>1
    <3>2. /\ UNCHANGED <<db, proc>>
          /\ Becomes(s, With(sess[s], "refresh", "restart_confirmed", "idle",
                             sess[s].res, sess[s].row, NoPid))
      BY <2>2, <3>1 DEF Assigns
    <3> QED BY <3>2 DEF Becomes, With, SessionsOver, Labels
  <2> QED BY <1>15, <2>1, <2>2
<1>16. CASE Crash \/ UnitRestart
  BY <1>16, <1>2 DEF Crash, UnitRestart, ProcStates
<1>17. CASE System
  BY <1>17 DEF System, Exit, Reap, Recycle, ProcStates
<1>18. CASE UNCHANGED vars
  BY <1>18 DEF vars
<1> QED
  BY <1>3, <1>4, <1>5, <1>6, <1>7, <1>8, <1>9, <1>10, <1>12, <1>13, <1>14,
     <1>15, <1>16, <1>17, <1>18 DEF Next, Running, Step

LEMMA TypeStep == TypeOK /\ [Next]_vars => TypeOK'
<1>1. TypeOK' <=> Typed({}, {})'
  BY TypedAlone DEF TypeOK, Typed
<1> QED BY <1>1, TypedAlone, TypedStep

(* Every cached row, local variable and committed column keeps its type,   *)
(* whatever requests overlap and whatever fails: no code path of           *)
(* server_process.py writes a status or a pid that models.py does not have. *)
THEOREM TypeCorrect == Spec => []TypeOK
BY TypeInit, TypeStep, PTL DEF Spec

----------------------------------------------------------------------------
(* Closers: pages, polls, Stop and Kill, any number of them at once, with  *)
(* every fault of the model.                                               *)

OnlyClosers == \A s \in Sessions : Allowed[s] \subseteq {"view", "poll", "stop", "kill"}

(* Where a closer can be; a refresh continues at one of three labels.      *)
CloserLabels == {"idle", "persist", "refresh", "clear_row", "view_ret",
                 "stop_checked", "rcon", "rcon_wait", "stdin", "stdin_wait",
                 "sigterm", "sigterm_wait", "stop_ret", "kill_checked",
                 "sigkill", "sigkill_wait", "kill_ret", "mark_stopped"}

CloserControl(x) ==
    /\ x.req \in {"view", "poll", "stop", "kill"}
    /\ x.pc \in CloserLabels
    /\ x.pc \in {"persist", "refresh", "clear_row"} =>
          x.after \in {"view_ret", "stop_checked", "kill_checked"}
    /\ x.pc \in {"rcon", "rcon_wait", "stdin", "stdin_wait", "sigterm",
                 "sigterm_wait", "sigkill", "sigkill_wait", "mark_stopped"} =>
          x.back \in {"stop_ret", "kill_ret"}
    /\ x.pc \in {"clear_row", "sigterm", "sigterm_wait", "sigkill",
                 "sigkill_wait", "mark_stopped"} => x.row # Expired

(* The two columns of a row agree.                                         *)
Consistent(r) == r.status = "running" <=> r.pid # NoPid

(* What a session knows of a live server p: its row names p, whatever it   *)
(* stops or kills is p, and it is not about to write the row off.          *)
KnowsServer(x, p) ==
    /\ x.row # Expired => x.row = [status |-> "running", pid |-> p]
    /\ x.pc \notin {"clear_row", "mark_stopped"}
    /\ x.pc \in {"rcon", "rcon_wait", "stdin", "stdin_wait", "sigterm",
                 "sigterm_wait", "sigkill", "sigkill_wait"} => x.pid = p

CloserInv ==
    /\ TypeOK
    /\ Consistent(db)
    /\ \A s \in Sessions :
          /\ CloserControl(sess[s])
          /\ sess[s].row # Expired => Consistent(sess[s].row)
    /\ \A p \in Servers :
          /\ db = [status |-> "running", pid |-> p]
          /\ \A s \in Sessions : KnowsServer(sess[s], p)

LEMMA CloserInit == Init => CloserInv
<1> SUFFICES ASSUME Init PROVE CloserInv
  OBVIOUS
<1>1. TypeOK
  BY TypeInit
<1>2. \A s \in Sessions : sess[s] = IdleSession
  BY DEF Init
<1>3. Consistent(db)
  BY ConstantsAssumption DEF Init, Consistent
<1>4. CloserControl(IdleSession) /\ IdleSession.row = Expired
  BY DEF IdleSession, CloserControl, CloserLabels
<1>5. \A p \in Servers : db = [status |-> "running", pid |-> p]
  BY DEF Init, Servers
<1>6. \A p \in Servers : KnowsServer(IdleSession, p)
  BY DEF KnowsServer, IdleSession
<1> QED BY <1>1, <1>2, <1>3, <1>4, <1>5, <1>6 DEF CloserInv

(* No step of a closer, and no fault, disturbs the invariant.              *)
LEMMA CloserStep == ASSUME OnlyClosers PROVE CloserInv /\ [Next]_vars => CloserInv'
<1> SUFFICES ASSUME CloserInv, [Next]_vars PROVE CloserInv'
  OBVIOUS
<1> USE ConstantsAssumption
<1>1. TypeOK /\ TypeOK'
  BY TypeStep DEF CloserInv
<1>2. \A s \in Sessions : Writes(s, sess[s]) /\ Assigns(s, sess[s])
  BY <1>1, TypedAlone, Updates, Assignments
<1> DEFINE Own(x) == CloserControl(x) /\ (x.row # Expired => Consistent(x.row))
           Sure(p) == /\ db = [status |-> "running", pid |-> p]
                      /\ \A s \in Sessions : KnowsServer(sess[s], p)
(* A step of one session that launches nothing: what it must establish.    *)
<1> DEFINE Harmless(s) ==
       /\ \A t \in Sessions \ {s} : sess'[t] = sess[t]
       /\ proc' = proc
       /\ Consistent(db')
       /\ Own(sess'[s])
       /\ \A p \in Servers : db' = db /\ KnowsServer(sess'[s], p)
<1>3. ASSUME NEW s \in Sessions, Harmless(s) PROVE CloserInv'
  <2>1. \A t \in Sessions : Own(sess'[t])
    BY <1>3 DEF CloserInv
  <2>2. Servers' = Servers
    BY <1>3 DEF Servers
  <2>3. \A p \in Servers' : Sure(p)'
    BY <1>3, <2>2 DEF CloserInv
  <2> QED BY <1>1, <1>3, <2>1, <2>3 DEF CloserInv
<1>4. \A s \in Sessions : Own(sess[s])
  BY DEF CloserInv
<1>5. \A p \in Servers : Sure(p)
  BY DEF CloserInv
<1>6. Consistent(db)
  BY DEF CloserInv
<1>7. ASSUME NEW s \in Sessions, NEW r \in Requests, Arrive(s, r)
      PROVE  CloserInv'
  <2>1. r \in {"view", "poll", "stop", "kill"}
    BY <1>7 DEF Arrive, OnlyClosers
  <2>2. Harmless(s)
    <3> DEFINE new == [IdleSession EXCEPT
              !.req = r, !.row = db,
              !.pc = IF r = "poll" THEN "persist" ELSE "refresh",
              !.after = IF r = "poll" THEN "view_ret" ELSE Entry[r]]
    <3>1. Own(new)
      BY <1>6, <2>1 DEF IdleSession, Entry, CloserControl, CloserLabels
    <3>2. \A p \in Servers : KnowsServer(new, p)
      BY <1>5 DEF IdleSession, KnowsServer
    <3>3. sess' = [sess EXCEPT ![s] = new] /\ UNCHANGED <<db, proc>>
      BY <1>7 DEF Arrive
    <3> QED BY <1>1, <1>6, <3>1, <3>2, <3>3 DEF TypeOK, Consistent
  <2> QED BY <1>3, <2>2
<1>8. ASSUME NEW s \in Sessions, Persist(s) PROVE CloserInv'
  <2>1. Writes(s, sess[s]) /\ Assigns(s, sess[s])
    BY <1>2
  <2>2. Harmless(s)
    BY <2>1, <1>8, <1>1, <1>4, <1>5, <1>6
       DEF Writes, Becomes, With,
           Persist, CloserControl, CloserLabels, KnowsServer, Consistent,
           TypeOK, SessionStates, Rows
  <2> QED BY <1>3, <2>2
<1>9. ASSUME NEW s \in Sessions, Answer(s) \/ Locked(s) PROVE CloserInv'
  <2>1. Harmless(s)
    BY <1>9, <1>1, <1>4, <1>5, <1>6
       DEF Answer, Locked, IdleSession, CloserControl, CloserLabels,
           KnowsServer, Consistent, TypeOK, SessionStates, Rows
  <2> QED BY <1>3, <2>1
<1>10. ASSUME NEW s \in Sessions, Load(s) PROVE CloserInv'
  <2> DEFINE new == [sess[s] EXCEPT !.row = db]
  <2>1. sess[s] \in SessionStates /\ sess[s].row = Expired
    BY <1>1, <1>10 DEF TypeOK, Load
  <2>2. Own(new)
    BY <1>4, <1>6, <2>1 DEF CloserControl, SessionStates
  <2>3. \A p \in Servers : KnowsServer(new, p)
    BY <1>5, <2>1 DEF KnowsServer, SessionStates
  <2>4. sess' = [sess EXCEPT ![s] = new] /\ UNCHANGED <<db, proc>>
    BY <1>10 DEF Load
  <2>5. Harmless(s)
    BY <1>1, <1>6, <2>2, <2>3, <2>4 DEF TypeOK, Consistent
  <2> QED BY <1>3, <2>5
<1>11. ASSUME NEW s \in Sessions, RefreshCheck(s) PROVE CloserInv'
  <2>1. Writes(s, sess[s]) /\ Assigns(s, sess[s])
    BY <1>2
  <2>2. Harmless(s)
    BY <2>1, <1>11, <1>1, <1>4, <1>5, <1>6
       DEF Writes, Becomes, With,
           RefreshCheck, LooksOurs, Servers, CloserControl,
           CloserLabels, KnowsServer, Consistent, TypeOK, SessionStates, Rows
  <2> QED BY <1>3, <2>2
<1>12. ASSUME NEW s \in Sessions, ClearRow(s) PROVE CloserInv'
  <2>1. Writes(s, sess[s]) /\ Assigns(s, sess[s])
    BY <1>2
  <2>2. Harmless(s)
    BY <2>1, <1>12, <1>1, <1>4, <1>5, <1>6
       DEF Writes, Becomes, With,
           ClearRow, Flush, CloserControl, CloserLabels,
           KnowsServer, Consistent, TypeOK, SessionStates, Rows
  <2> QED BY <1>3, <2>2
<1>13. ASSUME NEW s \in Sessions, StopChecked(s) \/ KillChecked(s) PROVE CloserInv'
  <2>1. Writes(s, sess[s]) /\ Assigns(s, sess[s])
    BY <1>2
  <2>2. Harmless(s)
    BY <2>1, <1>13, <1>1, <1>4, <1>5, <1>6
       DEF Writes, Becomes, With,
           Assigns, CloserControl, CloserLabels, KnowsServer,
           Consistent, TypeOK, SessionStates, Rows
  <2> QED BY <1>3, <2>2
<1>14. ASSUME NEW s \in Sessions, StopViaRcon(s) \/ StopViaStdin(s) PROVE CloserInv'
  <2>1. Writes(s, sess[s]) /\ Assigns(s, sess[s])
    BY <1>2
  <2>2. Harmless(s)
    BY <2>1, <1>14, <1>1, <1>4, <1>5, <1>6
       DEF Writes, Becomes, With,
           StopViaRcon, StopViaStdin, CloserControl, CloserLabels,
           KnowsServer, Consistent, TypeOK, SessionStates, Rows
  <2> QED BY <1>3, <2>2
<1>15. ASSUME NEW s \in Sessions, StopViaSigterm(s) \/ KillViaSigkill(s) PROVE CloserInv'
  <2>1. Writes(s, sess[s]) /\ Assigns(s, sess[s])
    BY <1>2
  <2>2. Harmless(s)
    BY <2>1, <1>15, <1>1, <1>4, <1>5, <1>6
       DEF Writes, Becomes, With,
           StopViaSigterm, KillViaSigkill, IdleSession, Servers,
           CloserControl, CloserLabels, KnowsServer, Consistent, TypeOK,
           SessionStates, Rows
  <2> QED BY <1>3, <2>2
<1>16. ASSUME NEW s \in Sessions, WaitForExit(s) PROVE CloserInv'
  <2>1. Writes(s, sess[s]) /\ Assigns(s, sess[s])
    BY <1>2
  <2>2. Harmless(s)
    BY <2>1, <1>16, <1>1, <1>4, <1>5, <1>6
       DEF Writes, Becomes, With,
           WaitForExit, NextRung, LooksOurs, Servers, CloserControl,
           CloserLabels, KnowsServer, Consistent, TypeOK, SessionStates, Rows
  <2> QED BY <1>3, <2>2
<1>17. ASSUME NEW s \in Sessions, MarkStopped(s) PROVE CloserInv'
  <2>1. Writes(s, sess[s]) /\ Assigns(s, sess[s])
    BY <1>2
  <2>2. Harmless(s)
    BY <2>1, <1>17, <1>1, <1>4, <1>5, <1>6
       DEF Writes, Becomes, With,
           MarkStopped, Flush, CloserControl, CloserLabels, KnowsServer,
           Consistent, TypeOK, SessionStates, Rows
  <2> QED BY <1>3, <2>2
(* The labels of start and restart are out of a closer's reach.            *)
<1>18. \A s \in Sessions :
         ~(\/ MarkRunning(s) \/ StartChecked(s) \/ Spawn(s) \/ RecordPid(s)
           \/ RestartChecked(s) \/ RestartConfirm(s) \/ RestartConfirmed(s))
  BY <1>4 DEF CloserControl, CloserLabels, MarkRunning, StartChecked, Spawn,
     RecordPid, RestartChecked, RestartConfirm, RestartConfirmed
<1>19. CASE Crash \/ UnitRestart
  <2>1. Servers' \subseteq Servers /\ db' = db
    BY <1>19 DEF Crash, UnitRestart, Servers
  <2>2. \A s \in Sessions : sess'[s] = IdleSession
    BY <1>19 DEF Crash, UnitRestart
  <2>3. Own(IdleSession) /\ \A p \in Servers : KnowsServer(IdleSession, p)
    BY DEF IdleSession, CloserControl, CloserLabels, KnowsServer
  <2> QED BY <1>1, <1>5, <1>6, <2>1, <2>2, <2>3 DEF CloserInv
<1>20. CASE System
  <2>1. Servers' \subseteq Servers /\ UNCHANGED <<db, sess>>
    BY <1>20, <1>1 DEF System, Exit, Reap, Recycle, Servers, TypeOK
  <2> QED BY <1>1, <1>4, <1>5, <1>6, <2>1 DEF CloserInv
<1>21. CASE UNCHANGED vars
  BY <1>1, <1>4, <1>5, <1>6, <1>21 DEF vars, CloserInv, Servers
<1> QED
  BY <1>7, <1>8, <1>9, <1>10, <1>11, <1>12, <1>13, <1>14, <1>15, <1>16, <1>17,
     <1>18, <1>19, <1>20, <1>21 DEF Next, Running, Step

(* Overlapping refreshes, polls, stops and kills never record a running    *)
(* server as stopped, for any number of sessions and with every fault.     *)
THEOREM ClosersTellTheTruth == ASSUME OnlyClosers PROVE Spec => []StoppedMeansDead
<1>1. CloserInv => StoppedMeansDead
  BY DEF CloserInv, StoppedMeansDead
<1> QED BY <1>1, CloserInit, CloserStep, PTL DEF Spec

(* Nor does one of them bring back a row that another has written off.     *)
THEOREM ClosersNeverResurrect == ASSUME OnlyClosers PROVE Spec => NeverResurrected
<1>1. CloserInv /\ [Next]_vars => [db.status = "stopped" => db'.status = "stopped"]_vars
  <2> SUFFICES ASSUME CloserInv, Next, db.status = "stopped"
               PROVE  db'.status = "stopped"
    BY DEF vars
  <2> USE DEF CloserInv
  <2>1. ASSUME NEW s \in Sessions
        PROVE  ~MarkRunning(s) /\ ~RecordPid(s)
    BY DEF CloserControl, CloserLabels, MarkRunning, RecordPid
  <2>2. ASSUME NEW s \in Sessions, ClearRow(s) \/ MarkStopped(s)
        PROVE  db'.status = "stopped"
    BY <2>2 DEF ClearRow, MarkStopped, Flush
  <2>3. CASE db' = db
    BY <2>3
  <2> QED
    BY <2>1, <2>2, <2>3 DEF Next, Running, Step, Arrive, Persist, Answer,
       Load, RefreshCheck, StartChecked, Spawn, StopChecked, StopViaRcon,
       StopViaStdin, StopViaSigterm, KillChecked, KillViaSigkill, WaitForExit,
       RestartChecked, RestartConfirm, RestartConfirmed, Locked, Crash,
       UnitRestart, System
<1> QED BY <1>1, CloserInit, CloserStep, PTL DEF Spec, NeverResurrected

----------------------------------------------------------------------------
(* One request served at a time, and only whole restarts of the unit       *)
(* interrupt it: every page, Start, Stop, Kill and Restart, servers that   *)
(* exit at any step, any pids recycled.                                    *)

Serial == MaxActive = 1 /\ Faults \subseteq {"unit_restart"}

(* The labels at which the local pid is the target of a stop or a kill,    *)
(* and those that a step reaches with a promise to keep: no refresh        *)
(* continues at one of them.                                               *)
Targeting == {"rcon", "rcon_wait", "stdin", "stdin_wait", "sigterm",
              "sigterm_wait", "sigkill", "sigkill_wait"}

Busy == Targeting \cup {"persist", "refresh", "mark_running", "clear_row",
                        "spawn", "record_pid", "mark_stopped"}

SerialControl(x) ==
    /\ x.pc # "mark_running"
    /\ x.pc \in {"persist", "refresh", "clear_row"} => x.after \notin Busy
    /\ x.pc \in Targeting \cup {"mark_stopped"} => x.back \in {"stop_ret", "kill_ret"}
    /\ x.pc \in {"clear_row", "spawn", "record_pid", "sigterm", "sigterm_wait",
                 "sigkill", "sigkill_wait", "mark_stopped"} => x.row # Expired

(* What the one active session knows of the row and of the servers.        *)
SerialKnows(x) ==
    /\ x.row # Expired => x.row = db
    /\ x.pc \in Targeting => x.pid = db.pid
    /\ x.pc \in {"clear_row", "mark_stopped"} => Servers = {}
    /\ x.pc = "start_checked" /\ x.res = "stopped" => db.pid = NoPid
    /\ x.pc = "spawn" => db.pid = NoPid
    /\ IF x.pc = "record_pid"
       THEN db.pid = NoPid /\ x.pid \in Pids /\ Servers \subseteq {x.pid}
       ELSE Servers \subseteq {db.pid}

SerialInv ==
    /\ TypeOK
    /\ Consistent(db)
    /\ \A s, t \in Active : s = t
    /\ \A s \in Active : SerialControl(sess[s]) /\ SerialKnows(sess[s])
    /\ Active = {} => Servers \subseteq {db.pid}

USE DEF Active

LEMMA SerialInit == Init => SerialInv
<1> SUFFICES ASSUME Init PROVE SerialInv
  OBVIOUS
<1>1. Active = {}
  BY DEF Init, IdleSession
<1>2. Consistent(db) /\ Servers \subseteq {db.pid}
  BY ConstantsAssumption DEF Init, Consistent, Servers
<1> QED BY TypeInit, <1>1, <1>2 DEF SerialInv

(* With MaxActive = 1, a request arrives only when no other is served.     *)
LEMMA ArriveAlone ==
    ASSUME Serial, Cardinality(Active) < MaxActive
    PROVE  Active = {}
<1>1. IsFiniteSet(Active)
  BY ConstantsAssumption, FS_Subset
<1>2. Cardinality(Active) = 0
  BY <1>1, FS_CardinalityType DEF Serial
<1> QED BY <1>1, <1>2, FS_EmptySet

(* A step of the active session s: what it must establish.                 *)
Established(s) ==
    /\ \A t \in Sessions \ {s} : sess'[t] = sess[t]
    /\ Consistent(db)'
    /\ IF sess'[s].pc = "idle" THEN Servers' \subseteq {db'.pid}
       ELSE SerialControl(sess'[s]) /\ SerialKnows(sess[s])'

LEMMA EstablishedSuffices ==
    ASSUME SerialInv, TypeOK', NEW s \in Sessions, Active \subseteq {s}, Established(s)
    PROVE  SerialInv'
<1>1. Active' \subseteq {s}
  BY DEF Established
<1>2. \A t \in Active' : SerialControl(sess'[t]) /\ SerialKnows(sess[t])'
  BY <1>1 DEF Established
<1>3. Active' = {} => Servers' \subseteq {db'.pid}
  BY DEF Established
<1> QED BY <1>1, <1>2, <1>3 DEF SerialInv, Established

(* Every step of the one active session keeps what it knows true.          *)
LEMMA SerialSessionStep ==
    ASSUME NEW CONSTANT More, NEW CONSTANT Others, Typed(More, Others),
           NEW s \in Sessions, Consistent(db),
           SerialControl(sess[s]), SerialKnows(sess[s]), Step(s)
    PROVE  Established(s)
<1> USE ConstantsAssumption
<1>1. Typed(More, Others) /\ Consistent(db)
  OBVIOUS
<1>2. SerialControl(sess[s]) /\ SerialKnows(sess[s])
  OBVIOUS
<1>3. sess[s] \in SessionsOver(More, Others)
  BY <1>1 DEF Typed
<1>4. Writes(s, sess[s]) /\ Assigns(s, sess[s])
  BY Updates, Assignments
<1>5. proc' = proc => Servers' = Servers
  BY DEF Servers
<1>6. CASE Persist(s)
  BY <1>6, <1>1, <1>2, <1>3, <1>5, <1>4
     DEF Writes, Becomes, With, Persist, Established, SerialControl, SerialKnows, Targeting, Busy,
         Consistent, Typed, SessionsOver, Rows, Servers
<1>7. CASE RefreshCheck(s)
  BY <1>7, <1>1, <1>2, <1>3, <1>5, <1>4
     DEF Writes, Becomes, With, RefreshCheck, LooksOurs, Established, SerialControl,
         SerialKnows, Targeting, Busy, Consistent, Typed, SessionsOver, Rows,
         Servers
<1>8. CASE StartChecked(s)
  BY <1>8, <1>1, <1>2, <1>3, <1>5, <1>4
     DEF Writes, Becomes, With, StartChecked, Established, SerialControl, SerialKnows, Targeting, Busy,
         Consistent, Typed, SessionsOver, Rows, Servers
<1>9. CASE StopChecked(s) \/ KillChecked(s)
  BY <1>9, <1>1, <1>2, <1>3, <1>5, <1>4
     DEF Writes, Becomes, With, Assigns, Established, SerialControl, SerialKnows,
         Targeting, Busy, Consistent, Typed, SessionsOver, Rows, Servers
<1>10. CASE StopViaRcon(s) \/ StopViaStdin(s)
  BY <1>10, <1>1, <1>2, <1>3, <1>5, <1>4
     DEF Writes, Becomes, With, StopViaRcon, StopViaStdin, Established, SerialControl, SerialKnows,
         Targeting, Busy, Consistent, Typed, SessionsOver, Rows, Servers
<1>11. CASE StopViaSigterm(s) \/ KillViaSigkill(s)
  BY <1>11, <1>1, <1>2, <1>3, <1>5, <1>4
     DEF Writes, Becomes, With, StopViaSigterm, KillViaSigkill, IdleSession, Established,
         SerialControl, SerialKnows, Targeting, Busy, Consistent, Typed,
         SessionsOver, Rows, Servers
<1>12. CASE WaitForExit(s)
  BY <1>12, <1>1, <1>2, <1>3, <1>5, <1>4
     DEF Writes, Becomes, With, WaitForExit, NextRung, LooksOurs, Established, SerialControl,
         SerialKnows, Targeting, Busy, Consistent, Typed, SessionsOver, Rows,
         Servers
<1>13. CASE RestartChecked(s) \/ RestartConfirm(s) \/ RestartConfirmed(s)
  BY <1>13, <1>1, <1>2, <1>3, <1>5, <1>4
     DEF Writes, Becomes, With, Assigns, RestartChecked, RestartConfirmed,
         Established, SerialControl, SerialKnows, Targeting, Busy, Consistent,
         Typed, SessionsOver, Rows, Servers
<1>14. CASE Answer(s)
  BY <1>14, <1>1, <1>2, <1>3, <1>5
     DEF Answer, Final, IdleSession, Established, SerialControl,
         SerialKnows, Targeting, Busy, Consistent, Typed, SessionsOver, Rows,
         Servers
<1>15. CASE Load(s)
  BY <1>15, <1>1, <1>2, <1>3, <1>5
     DEF Load, Established, SerialControl, SerialKnows, Targeting, Busy,
         Consistent, Typed, SessionsOver, Rows, Servers
<1>16. CASE ClearRow(s) \/ MarkStopped(s)
  BY <1>16, <1>1, <1>2, <1>3, <1>5, <1>4
     DEF Writes, Becomes, With, ClearRow, MarkStopped, Flush, Established,
         SerialControl, SerialKnows, Targeting, Busy, Consistent, Typed,
         SessionsOver, Rows, Servers
<1>17. CASE Spawn(s)
  BY <1>17, <1>1, <1>2, <1>3, <1>5, <1>4
     DEF Writes, Becomes, With, Assigns, Established, SerialControl, SerialKnows, Targeting, Busy,
         Consistent, Typed, SessionsOver, Rows, Servers
<1>18. CASE RecordPid(s)
  BY <1>18, <1>1, <1>2, <1>3, <1>5, <1>4
     DEF Writes, Becomes, With, Assigns, Flush, Established, SerialControl, SerialKnows,
         Targeting, Busy, Consistent, Typed, SessionsOver, Rows, Servers
<1>19. ~MarkRunning(s)
  BY <1>2 DEF SerialControl, MarkRunning
<1> QED
  BY <1>6, <1>7, <1>8, <1>9, <1>10, <1>11, <1>12, <1>13, <1>14, <1>15, <1>16,
     <1>17, <1>18, <1>19 DEF Step

(* A request that arrives at rest knows what the rest keeps true.          *)
LEMMA SerialArrival ==
    ASSUME NEW CONSTANT More, NEW CONSTANT Others, Typed(More, Others), Consistent(db),
           Servers \subseteq {db.pid},
           NEW s \in Sessions, NEW r \in Requests, Arrive(s, r)
    PROVE  /\ Established(s)
           /\ sess'[s].pc \in {"persist", "refresh"} /\ sess'[s].req = r
           /\ sess'[s].after \in Labels
<1> DEFINE new == [IdleSession EXCEPT
          !.req = r, !.row = db,
          !.pc = IF r = "poll" THEN "persist" ELSE "refresh",
          !.after = IF r = "poll" THEN "view_ret" ELSE Entry[r]]
<1>1. SerialControl(new)
  BY DEF IdleSession, Entry, SerialControl, Targeting, Busy, Requests
<1>2. new.pc # "idle" /\ SerialKnows(new)
  BY DEF IdleSession, SerialKnows, Targeting
<1>3. new.pc \in {"persist", "refresh"} /\ new.req = r /\ new.after \in Labels
  BY DEF IdleSession, Entry, Labels, Requests
<1>4. sess' = [sess EXCEPT ![s] = new] /\ UNCHANGED <<db, proc>>
  BY DEF Arrive
<1> HIDE DEF new
<1>5. sess'[s] = new /\ \A t \in Sessions \ {s} : sess'[t] = sess[t]
  BY <1>4 DEF Typed
<1>6. Established(s)
  BY <1>1, <1>2, <1>4, <1>5 DEF Established, Consistent, SerialKnows, Servers
<1> QED BY <1>3, <1>5, <1>6

LEMMA SerialStep == ASSUME Serial PROVE SerialInv /\ [Next]_vars => SerialInv'
<1> SUFFICES ASSUME SerialInv, [Next]_vars PROVE SerialInv'
  OBVIOUS
<1> USE ConstantsAssumption
<1>1. TypeOK /\ TypeOK'
  BY TypeStep DEF SerialInv
<1>2. ASSUME NEW s \in Sessions, NEW r \in Requests, Arrive(s, r)
      PROVE  SerialInv'
  <2>1. Active = {} /\ Servers \subseteq {db.pid} /\ Consistent(db)
    BY <1>2, ArriveAlone DEF SerialInv, Arrive
  <2>2. Established(s)
    BY <1>1, <1>2, <2>1, TypedAlone, SerialArrival
  <2> QED BY <1>1, <2>1, <2>2, EstablishedSuffices
<1>3. ASSUME NEW s \in Sessions, Step(s) PROVE SerialInv'
  <2>1. CASE s \in Active
    <3>1. Established(s)
      BY <1>1, <1>3, <2>1, TypedAlone, SerialSessionStep DEF SerialInv
    <3> QED BY <1>1, <2>1, <3>1, EstablishedSuffices DEF SerialInv
  <2>2. s \in Active
    <3>1. CASE Answer(s)
      BY <3>1 DEF Answer, Final
    <3> QED
      BY <1>3, <3>1 DEF Step, Persist, Load, RefreshCheck, MarkRunning,
         ClearRow, StartChecked, Spawn, RecordPid, StopChecked, StopViaRcon,
         StopViaStdin, StopViaSigterm, KillChecked, KillViaSigkill,
         WaitForExit, MarkStopped, RestartChecked, RestartConfirm,
         RestartConfirmed
  <2> QED BY <2>1, <2>2
<1>4. CASE UnitRestart
  <2>1. Active' = {}
    BY <1>4 DEF UnitRestart, IdleSession
  <2>2. Servers' = {} /\ db' = db
    BY <1>4 DEF UnitRestart, Servers
  <2> QED BY <1>1, <2>1, <2>2 DEF SerialInv, Consistent
<1>5. CASE System
  <2>1. Servers' \subseteq Servers /\ UNCHANGED <<db, sess>>
    BY <1>1, <1>5 DEF System, Exit, Reap, Recycle, Servers, TypeOK
  <2>2. \A s \in Active : SerialKnows(sess[s])'
    BY <2>1 DEF SerialInv, SerialKnows
  <2> QED BY <1>1, <2>1, <2>2 DEF SerialInv, Consistent
<1>6. CASE UNCHANGED vars
  <2>1. Servers' = Servers /\ UNCHANGED <<db, sess>>
    BY <1>6 DEF vars, Servers
  <2>2. \A s \in Active : SerialKnows(sess[s])'
    BY <2>1 DEF SerialInv, SerialKnows
  <2> QED BY <1>1, <2>1, <2>2 DEF SerialInv, Consistent
<1>7. ~Crash /\ \A s \in Sessions : ~Locked(s)
  BY DEF Serial, Crash, Locked
<1> QED BY <1>2, <1>3, <1>4, <1>5, <1>6, <1>7 DEF Next, Running

LEMMA SerialAlways == ASSUME Serial PROVE Spec => []SerialInv
BY SerialInit, SerialStep, PTL DEF Spec

(* The sessions that may touch the server: a session that only deletes a   *)
(* backup (in BackupService) does not.                                     *)
Working == {s \in Active : sess[s].pc \notin {"del_files", "del_row"}}

(* What SerialInv says of process control, where other modules add labels  *)
(* and requests of their own: the lemmas that follow hold for these too.   *)
Serves(More, Others) ==
    /\ Typed(More, Others)
    /\ Consistent(db)
    /\ \A s, t \in Working : s = t
    /\ \A s \in Working : SerialControl(sess[s]) /\ SerialKnows(sess[s])
    /\ Working = {} => Servers \subseteq {db.pid}

LEMMA ServesAlone == SerialInv => Serves({}, {})
<1> SUFFICES ASSUME SerialInv PROVE Serves({}, {})
  OBVIOUS
<1>1. Working = Active
  BY DEF SerialInv, TypeOK, SessionStates, Working, Labels
<1> QED BY <1>1, TypedAlone DEF SerialInv, Serves

(* At any moment at most one server is alive, and it is the recorded one   *)
(* or the one about to be recorded.                                        *)
LEMMA SerialServers ==
    ASSUME NEW CONSTANT More, NEW CONSTANT Others, Serves(More, Others)
    PROVE  /\ Recording = {} => Servers \subseteq {db.pid}
           /\ \A s \in Recording : Servers \subseteq {sess[s].pid} /\ Working = {s}
<1>1. \A s \in Working : SerialKnows(sess[s])
  BY DEF Serves
<1>2. CASE Working = {}
  BY <1>2 DEF Serves, Recording, Working
<1>3. ASSUME NEW s \in Working PROVE Working = {s}
  BY DEF Serves
<1> QED BY <1>1, <1>2, <1>3 DEF SerialKnows, Recording, Working

LEMMA SerialControls ==
    ASSUME NEW CONSTANT More, NEW CONSTANT Others, Serves(More, Others)
    PROVE  NoOrphan /\ AtMostOneServer /\ RowConsistent
<1>1. NoOrphan /\ AtMostOneServer
  BY SerialServers DEF NoOrphan, AtMostOneServer, Recording
<1>2. RowConsistent
  BY DEF Serves, Consistent, RowConsistent
<1> QED BY <1>1, <1>2

(* Served one at a time, start_server, stop_server, kill_server and        *)
(* restart_server never lose sight of a running server.                    *)
THEOREM SerialNoOrphan == ASSUME Serial PROVE Spec => []NoOrphan
<1>1. SerialInv => NoOrphan
  BY ServesAlone, SerialControls
<1> QED BY <1>1, SerialAlways, PTL

(* Nor do they ever launch a second one, whatever the pids are recycled to. *)
THEOREM SerialAtMostOneServer == ASSUME Serial PROVE Spec => []AtMostOneServer
<1>1. SerialInv => AtMostOneServer
  BY ServesAlone, SerialControls
<1> QED BY <1>1, SerialAlways, PTL

(* And every commit leaves status and pid in agreement.                    *)
THEOREM SerialRowConsistent == ASSUME Serial PROVE Spec => []RowConsistent
<1>1. SerialInv => RowConsistent
  BY ServesAlone, SerialControls
<1> QED BY <1>1, SerialAlways, PTL

LEMMA LaunchedPid ==
    ASSUME NEW CONSTANT More, NEW CONSTANT Others, Serves(More, Others)
    PROVE  /\ Recording = {} => Launched = NoPid
           /\ \A s \in Recording : Launched = sess[s].pid
<1>1. ASSUME NEW s \in Recording PROVE (CHOOSE t \in Recording : TRUE) = s
  BY SerialServers DEF Recording
<1> QED BY <1>1 DEF Launched

(* The steps of a session other than the launch and its record are         *)
(* stutters of the abstract life cycle, or drop the record of a dead server. *)
LEMMA OtherSteps ==
    ASSUME NEW CONSTANT More, NEW CONSTANT Others, "record_pid" \notin More,
           Serves(More, Others), NEW s \in Working, Step(s), ~Spawn(s), ~RecordPid(s)
    PROVE  /\ Recording = {} /\ Recording' = {}
           /\ proc' = proc
           /\ db' = db \/ (Servers = {} /\ db'.pid = NoPid)
<1>1. /\ Typed(More, Others) /\ Working \subseteq {s} /\ s \in Sessions
      /\ SerialControl(sess[s]) /\ SerialKnows(sess[s])
  BY DEF Serves, Working
<1>2. Writes(s, sess[s]) /\ Assigns(s, sess[s])
  BY <1>1, Updates, Assignments
<1>3. \A t \in Sessions \ {s} : sess'[t].pc # "record_pid"
  <2>1. \A t \in Sessions \ {s} : sess'[t] = sess[t]
    BY <1>1, <1>2
       DEF Writes, Becomes, Assigns, Typed, Step, Persist, Answer, Load,
           RefreshCheck, MarkRunning, ClearRow, StartChecked, StopViaRcon,
           StopViaStdin, StopViaSigterm, KillViaSigkill, WaitForExit,
           MarkStopped, RestartChecked, RestartConfirmed
  <2> QED BY <1>1, <2>1 DEF Working
<1>4. sess[s].pc # "record_pid" /\ sess'[s].pc # "record_pid"
  <2>1. CASE Persist(s) \/ Load(s) \/ MarkRunning(s) \/ ClearRow(s) \/ RefreshCheck(s)
    BY <1>1, <1>2, <2>1
       DEF Writes, Becomes, With, Typed, SessionsOver, SerialControl, Busy,
           Persist, Load, MarkRunning, ClearRow, RefreshCheck
  <2>2. CASE Answer(s)
    BY <1>1, <2>2 DEF Typed, SessionsOver, Answer, Final, IdleSession
  <2>3. CASE StartChecked(s) \/ StopChecked(s) \/ KillChecked(s)
    BY <1>1, <1>2, <2>3
       DEF Writes, Assigns, Becomes, With, Typed, SessionsOver, StartChecked
  <2>4. CASE StopViaRcon(s) \/ StopViaStdin(s) \/ StopViaSigterm(s) \/ KillViaSigkill(s)
    BY <1>1, <1>2, <2>4
       DEF Writes, Becomes, With, Typed, SessionsOver, StopViaRcon,
           StopViaStdin, StopViaSigterm, KillViaSigkill, IdleSession
  <2>5. CASE WaitForExit(s) \/ MarkStopped(s)
    BY <1>1, <1>2, <2>5
       DEF Writes, Becomes, With, Typed, SessionsOver, SerialControl,
           Targeting, WaitForExit, NextRung, MarkStopped
  <2>6. CASE RestartChecked(s) \/ RestartConfirm(s) \/ RestartConfirmed(s)
    BY <1>1, <1>2, <2>6
       DEF Writes, Assigns, Becomes, With, Typed, SessionsOver,
           RestartChecked, RestartConfirmed
  <2> QED BY <2>1, <2>2, <2>3, <2>4, <2>5, <2>6 DEF Step
<1>5. proc' = proc
  BY DEF Step, Persist, Answer, Load, RefreshCheck, MarkRunning, ClearRow,
     StartChecked, StopChecked, StopViaRcon, StopViaStdin, StopViaSigterm,
     KillChecked, KillViaSigkill, WaitForExit, MarkStopped, RestartChecked,
     RestartConfirm, RestartConfirmed
<1>6. Recording = {} /\ Recording' = {}
  <2>1. \A t \in Sessions \ {s} : sess[t].pc # "record_pid"
    BY <1>1 DEF Working
  <2> QED BY <1>3, <1>4, <2>1 DEF Recording
<1>7. CASE ClearRow(s) \/ MarkStopped(s)
  BY <1>1, <1>5, <1>6, <1>7 DEF ClearRow, MarkStopped, Flush, SerialKnows, SerialControl
<1>8. CASE ~ClearRow(s) /\ ~MarkStopped(s)
  <2>1. db' = db
    BY <1>1, <1>8 DEF SerialControl, Step, Persist, Answer, Load,
       RefreshCheck, MarkRunning, StartChecked, StopChecked, StopViaRcon,
       StopViaStdin, StopViaSigterm, KillChecked, KillViaSigkill, WaitForExit,
       RestartChecked, RestartConfirm, RestartConfirmed
  <2> QED BY <1>5, <1>6, <2>1
<1> QED BY <1>7, <1>8

LEMMA LifecycleInit == Init => Lifecycle!Init
<1> SUFFICES ASSUME Init PROVE Lifecycle!Init
  OBVIOUS
<1>1. Launched = NoPid
  BY DEF Init, IdleSession, Recording, Launched
<1> QED BY <1>1, ConstantsAssumption DEF Init, Lifecycle!Init, Servers

LEMMA StepIsActive ==
    ASSUME NEW s \in Sessions, Step(s)
    PROVE  s \in Active
<1>1. CASE Answer(s)
  BY <1>1 DEF Answer, Final
<1> QED
  BY <1>1 DEF Step, Persist, Load, RefreshCheck, MarkRunning, ClearRow, StartChecked,
     Spawn, RecordPid, StopChecked, StopViaRcon, StopViaStdin, StopViaSigterm,
     KillChecked, KillViaSigkill, WaitForExit, MarkStopped, RestartChecked,
     RestartConfirm, RestartConfirmed

LEMMA OnlyLoad ==
    ASSUME NEW s \in Sessions, Step(s), sess[s].pc \notin Labels
    PROVE  Load(s)
<1>1. ~Answer(s)
  BY DEF Answer, Final, Labels
<1> QED
  BY <1>1 DEF Labels, Step, Persist, RefreshCheck, MarkRunning, ClearRow, StartChecked,
     Spawn, RecordPid, StopChecked, StopViaRcon, StopViaStdin, StopViaSigterm,
     KillChecked, KillViaSigkill, WaitForExit, MarkStopped, RestartChecked,
     RestartConfirm, RestartConfirmed

LEMMA LaunchedKept ==
    ASSUME Recording' = Recording, \A s \in Recording : sess'[s].pid = sess[s].pid
    PROVE  Launched' = Launched
<1> DEFINE t == CHOOSE u \in Recording : TRUE
<1>1. CASE Recording = {}
  BY <1>1 DEF Launched
<1>2. CASE Recording # {}
  <2>1. t \in Recording
    BY <1>2
  <2>2. Launched = sess[t].pid /\ Launched' = sess'[t].pid
    BY <1>2 DEF Launched
  <2> QED BY <2>1, <2>2
<1> QED BY <1>1, <1>2

(* Every step of process control is one of ServerLifecycle or a stutter,   *)
(* whatever else its sessions do between these.                            *)
LEMMA LifecycleStep ==
    ASSUME Faults \subseteq {"unit_restart"},
           NEW CONSTANT More, NEW CONSTANT Others, "record_pid" \notin More,
           Serves(More, Others), Serves(More, Others)', Next,
           \A s \in Sessions, r \in Requests : Arrive(s, r) => Working = {}
    PROVE  [Lifecycle!Next]_<<Servers, db.pid, Launched>>
<1> USE ConstantsAssumption
<1>1. Typed(More, Others) /\ Typed(More, Others)'
  BY DEF Serves
<1>2. /\ Recording = {} => Launched = NoPid
      /\ Recording' = {} => Launched' = NoPid
  BY LaunchedPid DEF Launched
<1>3. ASSUME NEW s \in Sessions, NEW r \in Requests, Arrive(s, r)
      PROVE  UNCHANGED <<Servers, db.pid, Launched>>
  <2>1. Recording = {}
    BY <1>3 DEF Recording, Working
  <2>2. Recording' = {}
    BY <1>1, <1>3, <2>1 DEF Recording, Arrive, IdleSession, Typed
  <2> QED BY <1>2, <1>3, <2>1, <2>2 DEF Arrive, Servers
<1>4. ASSUME NEW s \in Sessions, Spawn(s)
      PROVE  [Lifecycle!Next]_<<Servers, db.pid, Launched>>
  <2>1. s \in Working /\ SerialKnows(sess[s]) /\ sess[s].pc = "spawn"
    BY <1>4 DEF Serves, Spawn, Working
  <2>2. Recording = {} /\ Working = {s}
    BY <2>1 DEF Serves, Recording, Working
  <2>3. Servers = {} /\ db.pid = NoPid /\ db' = db
    BY <1>4, <2>1 DEF SerialKnows, Spawn, Servers
  <2>4. CASE proc' = proc /\ Goto(s, "start_ret")
    <3>1. Recording' = {}
      BY <1>1, <2>2, <2>4 DEF Goto, Recording, Typed
    <3> QED BY <1>2, <2>2, <2>3, <2>4, <3>1 DEF Servers
  <2>5. ASSUME NEW p \in Pids, proc' = [proc EXCEPT ![p] = "server"],
               sess' = [sess EXCEPT ![s] =
                           [@ EXCEPT !.pc = "record_pid", !.pid = p]]
        PROVE  Lifecycle!Launch(p)
    <3>1. sess[s] \in SessionsOver(More, Others)
      BY <1>1, <2>1 DEF Typed
    <3>2. s \in Recording' /\ sess'[s].pid = p
      BY <1>1, <2>5, <3>1 DEF Recording, Typed, SessionsOver
    <3>3. Launched' = p
      <4>1. Recording' = {s}
        BY <3>2 DEF Serves, Recording, Working
      <4>2. (CHOOSE t \in {s} : TRUE) = s
        OBVIOUS
      <4> QED BY <3>2, <4>1, <4>2 DEF Launched
    <3>4. Servers' = {p}
      BY <1>1, <2>3, <2>5 DEF Servers, Typed
    <3> QED BY <1>2, <2>2, <2>3, <3>3, <3>4 DEF Lifecycle!Launch
  <2> QED BY <1>4, <2>4, <2>5 DEF Spawn, Lifecycle!Next
<1>5. ASSUME NEW s \in Sessions, RecordPid(s)
      PROVE  Lifecycle!Record
  <2>1. s \in Recording
    BY <1>5 DEF RecordPid, Recording
  <2>2. Working = {s} /\ SerialKnows(sess[s]) /\ Launched = sess[s].pid
    BY <2>1, LaunchedPid, SerialServers DEF Serves, Recording
  <2>3. db.pid = NoPid /\ sess[s].pid \in Pids /\ sess[s].row = db
    BY <1>5, <2>1, <2>2 DEF SerialKnows, Serves, SerialControl, Recording
  <2>4. db'.pid = sess[s].pid
    BY <1>5, <2>3 DEF RecordPid, Flush
  <2>5. Recording' = {}
    BY <1>1, <1>5, <2>2 DEF RecordPid, Recording, Working, Typed
  <2> QED BY <1>2, <1>5, <2>2, <2>3, <2>4, <2>5
          DEF RecordPid, Servers, Lifecycle!Record
<1>6. ASSUME NEW s \in Sessions, Step(s), ~Spawn(s), ~RecordPid(s)
      PROVE  [Lifecycle!Next]_<<Servers, db.pid, Launched>>
  <2>1. CASE s \in Working
    <3>1. Launched = NoPid /\ Launched' = NoPid /\ Servers' = Servers
      BY <1>2, <1>6, <2>1, OtherSteps DEF Servers
    <3>2. CASE db' = db
      BY <3>1, <3>2
    <3>3. CASE Servers = {} /\ db'.pid = NoPid
      <4>1. db.pid = NoPid \/ db.pid \in Pids
        BY <1>1 DEF Typed, Rows
      <4> QED BY <3>1, <3>3, <4>1 DEF Lifecycle!Next, Lifecycle!Forget
    <3> QED BY <1>6, <2>1, <3>2, <3>3, OtherSteps
  <2>2. CASE s \notin Working
    <3>1. sess[s].pc \in {"del_files", "del_row"}
      BY <1>6, <2>2, StepIsActive DEF Working
    <3>2. Load(s)
      BY <1>6, <3>1, OnlyLoad DEF Labels
    <3>3. UNCHANGED <<db, proc>> /\ \A t \in Sessions : sess'[t].pc = sess[t].pc
                                                   /\ sess'[t].pid = sess[t].pid
      BY <1>1, <3>2 DEF Load, Typed, SessionsOver
    <3>4. Recording' = Recording
      BY <3>3 DEF Recording
    <3>5. Launched' = Launched
      BY <3>3, <3>4, LaunchedKept DEF Recording
    <3> QED BY <3>3, <3>5 DEF Servers
  <2> QED BY <2>1, <2>2
<1>7. CASE System
  <2>1. UNCHANGED <<db, sess>> /\ Launched' = Launched
    BY <1>7 DEF System, Launched, Recording
  <2>2. ASSUME NEW p \in Pids, Exit(p)
        PROVE  Lifecycle!Exit(p)
    BY <1>1, <2>1, <2>2 DEF Exit, Servers, Lifecycle!Exit, Typed
  <2>3. ASSUME NEW p \in Pids, Reap(p) \/ Recycle(p)
        PROVE  Servers' = Servers
    BY <1>1, <2>3, ConstantsAssumption DEF Reap, Recycle, Servers, Typed
  <2> QED BY <1>7, <2>1, <2>2, <2>3 DEF System, Lifecycle!Next
<1>8. CASE UnitRestart
  <2>1. Servers' = {} /\ Recording' = {} /\ db' = db
    BY <1>8 DEF UnitRestart, Servers, Recording, IdleSession
  <2> QED BY <1>2, <2>1 DEF Lifecycle!Next, Lifecycle!TakenDown
<1>9. ~Crash /\ \A s \in Sessions : ~Locked(s)
  BY DEF Crash, Locked
<1> QED
  BY <1>3, <1>4, <1>5, <1>6, <1>7, <1>8, <1>9 DEF Next, Running,
     Lifecycle!Next

(* The detailed process control implements the abstract life cycle of      *)
(* ServerLifecycle: the promise that start_server and restart_server make  *)
(* in their comments.                                                      *)
THEOREM SerialImplementsLifecycle == ASSUME Serial PROVE Spec => LifecycleSpec
<1>1. SerialInv /\ SerialInv' /\ [Next]_vars
          => [Lifecycle!Next]_<<Servers, db.pid, Launched>>
  <2>1. CASE UNCHANGED vars
    BY <2>1 DEF vars, Servers, Launched, Recording
  <2>2. SerialInv' => Serves({}, {})'
    BY ServesAlone, PTL
  <2>3. ASSUME NEW s \in Sessions, NEW r \in Requests, Arrive(s, r)
        PROVE  Working = {}
    BY <2>3, ArriveAlone DEF Arrive, Working
  <2> QED BY <2>1, <2>2, <2>3, ServesAlone, LifecycleStep DEF Serial
<1> QED BY <1>1, LifecycleInit, SerialAlways, PTL DEF Spec, LifecycleSpec, Lifecycle!Spec

----------------------------------------------------------------------------
(* The backups                                                             *)

USE DEF Active, Step1

----------------------------------------------------------------------------
(* The primary keys                                                        *)

LEMMA LeastNatural ==
    ASSUME NEW S, S \subseteq Nat, S # {}
    PROVE  \E x \in S : \A y \in S : x <= y
<1>1. PICK x \in S : \A y \in S : ~(<<y, x>> \in OpToRel(<, Nat))
  BY WFMin, NatLessThanWellFounded
<1>2. \A y \in S : ~(y < x)
  BY <1>1 DEF OpToRel
<1> QED BY <1>2

LEMMA GreatestId ==
    ASSUME NEW S, S \subseteq 1 .. MaxRow, S # {}
    PROVE  Max(S) \in S /\ \A y \in S : y <= Max(S)
<1> USE BackupAssumption
<1> DEFINE T == {MaxRow - y : y \in S}
<1>1. T \subseteq Nat /\ T # {}
  <2>1. \A y \in 1 .. MaxRow : MaxRow - y \in Nat
    OBVIOUS
  <2>2. T # {}
    OBVIOUS
  <2> QED BY <2>1, <2>2
<1>2. PICK t \in T : \A u \in T : t <= u
  BY <1>1, LeastNatural
<1>3. PICK x \in S : t = MaxRow - x
  OBVIOUS
<1>4. \A y \in S : MaxRow - x <= MaxRow - y
  BY <1>2, <1>3
<1>5. \A y \in S : x >= y
  BY <1>4
<1> QED BY <1>5 DEF Max

(* A new row gets an id that no row has, greater than every other.         *)
LEMMA NewIdFresh ==
    ASSUME DOMAIN rows \subseteq 1 .. MaxRow, NewId <= MaxRow
    PROVE  NewId \in 1 .. MaxRow /\ \A i \in DOMAIN rows : i < NewId
<1> USE BackupAssumption
<1>1. CASE DOMAIN rows = {}
  BY <1>1 DEF NewId
<1>2. CASE DOMAIN rows # {}
  <2>1. /\ Max(DOMAIN rows) \in DOMAIN rows
        /\ \A y \in DOMAIN rows : y <= Max(DOMAIN rows)
    BY <1>2, GreatestId
  <2>2. NewId = 1 + Max(DOMAIN rows)
    BY <1>2 DEF NewId
  <2> QED BY <2>1, <2>2
<1> QED BY <1>1, <1>2

----------------------------------------------------------------------------
(* Types                                                                   *)

(* How a step of process control moves a session whose program counter and *)
(* return label may be labels of this module.                              *)
Calls(x) == x.pc \in {"persist", "refresh", "clear_row"}

Moves(x, y) ==
    /\ y.pc \in Labels \cup {x.pc, x.after} /\ y.after \in Labels \cup {x.after}
    /\ y.pc = "idle" \/ y.req = x.req
    /\ SerialControl(x) =>
          /\ y.pc \notin Labels \cup {x.pc} => x.pc \in {"refresh", "clear_row"}
          /\ Calls(y) => y.after \in Labels \/ (y.after = x.after /\ Calls(x))

LEMMA StepMoves ==
    ASSUME NEW CONSTANT More, NEW CONSTANT Others, Typed(More, Others),
           NEW s \in Sessions, Step(s)
    PROVE  /\ Moves(sess[s], sess'[s])
           /\ \A t \in Sessions \ {s} : sess'[t] = sess[t]
<1>1. sess[s] \in SessionsOver(More, Others) /\ sess \in [Sessions -> SessionsOver(More, Others)]
  BY DEF Typed
<1>2. Writes(s, sess[s]) /\ Assigns(s, sess[s])
  BY Updates, Assignments
<1> USE <1>1 DEF SessionsOver, Labels, Moves, Calls
<1>3. CASE Persist(s) \/ Load(s)
  BY <1>2, <1>3 DEF Writes, Becomes, With, Persist, Load
<1>4. CASE RefreshCheck(s)
  BY <1>2, <1>4 DEF Writes, Becomes, With, RefreshCheck, SerialControl, Busy
<1>5. CASE MarkRunning(s) \/ ClearRow(s)
  BY <1>2, <1>5 DEF Writes, Becomes, With, MarkRunning, ClearRow, SerialControl, Busy
<1>6. CASE Answer(s)
  BY <1>6 DEF Answer, IdleSession
<1>7. CASE StartChecked(s) \/ StopViaRcon(s) \/ StopViaStdin(s)
  BY <1>2, <1>7 DEF Writes, Becomes, With, StartChecked, StopViaRcon, StopViaStdin
<1>8. CASE StopChecked(s) \/ KillChecked(s)
  BY <1>2, <1>8 DEF Writes, Assigns, Becomes, With
<1>9. CASE Spawn(s) \/ RecordPid(s)
  BY <1>2, <1>9 DEF Writes, Assigns, Becomes, With
<1>10. CASE StopViaSigterm(s) \/ KillViaSigkill(s)
  BY <1>2, <1>10 DEF Writes, Becomes, With, StopViaSigterm, KillViaSigkill, IdleSession
<1>11. CASE WaitForExit(s) \/ MarkStopped(s)
  BY <1>2, <1>11 DEF Writes, Becomes, With, WaitForExit, MarkStopped, NextRung,
     SerialControl, Targeting
<1>12. CASE RestartChecked(s) \/ RestartConfirm(s) \/ RestartConfirmed(s)
  BY <1>2, <1>12 DEF Writes, Assigns, Becomes, With, RestartChecked, RestartConfirmed
<1> QED
  BY <1>3, <1>4, <1>5, <1>6, <1>7, <1>8, <1>9, <1>10, <1>11, <1>12 DEF Step

(* A restore copies from a directory that is there, so the world it leaves *)
(* behind is one of Worlds or "mixed".                                     *)
Sourced(x, j) == x.after # "rs_copy" /\ (x.pc = "rs_copy" => j.seen # "absent")

BackupTypeInv == BackupTypeOK /\ \A s \in Sessions : Sourced(sess[s], job[s])

BackupSessions == SessionsOver(BackupLabels, BackupRequests)

LEMMA BackupTyped == BackupTypeOK => Typed(BackupLabels, BackupRequests)
BY DEF BackupTypeOK, Typed, SessionsOver

LEMMA IdleTyped ==
    /\ IdleSession \in BackupSessions /\ NoJob \in Jobs /\ Sourced(IdleSession, NoJob)
    /\ "idle" \in Labels /\ "refresh" \in Labels /\ "start_checked" \in Labels
    /\ "stop_checked" \in Labels /\ "rs_copy" \notin Labels
BY BackupAssumption
   DEF BackupSessions, SessionsOver, IdleSession, Labels, Requests, NoJob, Jobs,
       Sourced, Names, Contents

(* A session that goes on at another label, which is not "rs_copy".        *)
LEMMA GoesOn ==
    ASSUME BackupTypeInv, NEW s \in Sessions,
           NEW l \in (Labels \cup BackupLabels) \ {"rs_copy"},
           Goto(s, l) \/ GotoExpired(s, l) \/ Refresh(s, l)
    PROVE  /\ sess' \in [Sessions -> BackupSessions]
           /\ \A t \in Sessions \ {s} : sess'[t] = sess[t]
           /\ sess'[s].after # "rs_copy" /\ sess'[s].pc # "rs_copy"
<1>1. Typed(BackupLabels, BackupRequests)
  BY BackupTyped DEF BackupTypeInv
<1>2. Writes(s, sess[s])
  BY <1>1, Updates
<1>3. sess \in [Sessions -> BackupSessions] /\ sess[s].after # "rs_copy"
  BY <1>1 DEF Typed, BackupSessions, BackupTypeInv, Sourced
<1> QED
  BY <1>2, <1>3, IdleTyped DEF Writes, Becomes, With, BackupSessions, SessionsOver

(* The local variables that the steps write one at a time.                 *)
JobIs(s, j) == job' = [job EXCEPT ![s] = j]

LEMMA JobWrites ==
    ASSUME job \in [Sessions -> Jobs], NEW s \in Sessions
    PROVE  /\ \A v : Job(s, "own", v) => JobIs(s, [job[s] EXCEPT !.own = v])
           /\ \A v : Job(s, "name", v) => JobIs(s, [job[s] EXCEPT !.name = v])
           /\ \A v : Job(s, "victims", v) => JobIs(s, [job[s] EXCEPT !.victims = v])
           /\ \A v : Job(s, "was", v) => JobIs(s, [job[s] EXCEPT !.was = v])
           /\ \A v : Job(s, "ok", v) => JobIs(s, [job[s] EXCEPT !.ok = v])
BY DEF Job, Jobs, JobIs

LEMMA JobAfter ==
    ASSUME job \in [Sessions -> Jobs], NEW s \in Sessions, NEW j, JobIs(s, j)
    PROVE  job'[s] = j /\ \A t \in Sessions \ {s} : job'[t] = job[t]
BY DEF JobIs

LEMMA JobTypes ==
    ASSUME job \in [Sessions -> Jobs], NEW s \in Sessions,
           \/ \E v \in 0 .. MaxRow : Job(s, "own", v)
           \/ \E v \in Names : Job(s, "name", v)
           \/ \E v \in SUBSET (1 .. MaxRow) : Job(s, "victims", v)
           \/ \E v \in BOOLEAN : Job(s, "was", v) \/ Job(s, "ok", v)
           \/ JobIs(s, NoJob)
           \/ UNCHANGED job
    PROVE  job' \in [Sessions -> Jobs] /\ \A t \in Sessions \ {s} : job'[t] = job[t]
<1>1. ASSUME NEW j \in Jobs, JobIs(s, j)
      PROVE  job' \in [Sessions -> Jobs] /\ \A t \in Sessions \ {s} : job'[t] = job[t]
  BY <1>1 DEF JobIs
<1>2. job[s] \in Jobs
  OBVIOUS
<1>3. /\ \A v \in 0 .. MaxRow : [job[s] EXCEPT !.own = v] \in Jobs
      /\ \A v \in Names : [job[s] EXCEPT !.name = v] \in Jobs
      /\ \A v \in SUBSET (1 .. MaxRow) : [job[s] EXCEPT !.victims = v] \in Jobs
      /\ \A v \in BOOLEAN : [job[s] EXCEPT !.was = v] \in Jobs
      /\ \A v \in BOOLEAN : [job[s] EXCEPT !.ok = v] \in Jobs
  BY <1>2 DEF Jobs
<1> QED BY <1>1, <1>3, JobWrites, IdleTyped

LEMMA RaceTyped ==
    ASSUME job \in [Sessions -> Jobs], NEW others
    PROVE  /\ Race(others) \in [Sessions -> Jobs]
           /\ \A s \in Sessions : Race(others)[s].seen = job[s].seen
BY DEF Race, Jobs

LEMMA BackupTypeInit == BackupInit => BackupTypeInv
<1> SUFFICES ASSUME BackupInit PROVE BackupTypeInv
  OBVIOUS
<1>1. Typed({}, {})
  BY TypeInit, TypedAlone DEF BackupInit
<1>2. sess = [t \in Sessions |-> IdleSession]
  BY DEF BackupInit, Init
<1>3. /\ world \in Worlds /\ disk \in [Names -> Contents]
      /\ DOMAIN rows = {} /\ rows \in [DOMAIN rows -> BackupRows] /\ second = 0
      /\ job = [t \in Sessions |-> NoJob]
  BY DEF BackupInit, Contents
<1> HIDE DEF BackupInit
<1> QED
  BY <1>1, <1>2, <1>3, IdleTyped, BackupAssumption
     DEF BackupTypeInv, BackupTypeOK, Typed, BackupSessions, SessionsOver

(* What the typing of a step comes down to.                                *)
DataTyped ==
    /\ world \in Worlds \cup {"mixed"}
    /\ disk \in [Names -> Contents]
    /\ DOMAIN rows \subseteq 1 .. MaxRow /\ rows \in [DOMAIN rows -> BackupRows]
    /\ second \in 0 .. MaxSecond

LEMMA DataKept == BackupTypeInv /\ UNCHANGED bvars => DataTyped'
BY DEF BackupTypeInv, BackupTypeOK, DataTyped, bvars

LEMMA TypeSuffices ==
    ASSUME DataTyped', db' \in Rows, proc' \in [Pids -> ProcStates],
           sess' \in [Sessions -> BackupSessions], job' \in [Sessions -> Jobs],
           \A s \in Sessions : Sourced(sess'[s], job'[s])
    PROVE  BackupTypeInv'
BY DEF DataTyped, BackupTypeInv, BackupTypeOK, BackupSessions, SessionsOver

(* A step of one session that leaves the row and the processes alone, ends *)
(* the session or takes it to another label, and updates its locals.       *)
LEMMA TypeOfStep ==
    ASSUME BackupTypeInv, DataTyped', NEW s \in Sessions, UNCHANGED proc, db' \in Rows,
           job' \in [Sessions -> Jobs],
           \A t \in Sessions \ {s} : job'[t].seen = job[t].seen,
           \/ sess' = [sess EXCEPT ![s] = IdleSession]
           \/ \E l \in (Labels \cup BackupLabels) \ {"rs_copy"} :
                 Goto(s, l) \/ GotoExpired(s, l) \/ Refresh(s, l)
    PROVE  BackupTypeInv'
<1>1. Typed(BackupLabels, BackupRequests)
  BY BackupTyped DEF BackupTypeInv
<1>2. \A t \in Sessions : Sourced(sess[t], job[t])
  BY DEF BackupTypeInv
<1>3. /\ sess' \in [Sessions -> BackupSessions]
      /\ \A t \in Sessions \ {s} : sess'[t] = sess[t]
      /\ sess'[s].after # "rs_copy" /\ sess'[s].pc # "rs_copy"
  <2>1. CASE sess' = [sess EXCEPT ![s] = IdleSession]
    BY <1>1, <2>1, IdleTyped DEF Typed, BackupSessions, IdleSession
  <2> QED BY <2>1, GoesOn
<1>4. \A t \in Sessions : Sourced(sess'[t], job'[t])
  BY <1>2, <1>3 DEF Sourced
<1> QED BY <1>1, <1>3, <1>4, TypeSuffices DEF Typed

LEMMA NewRowTyped ==
    ASSUME DataTyped, NewId <= MaxRow, NEW r \in BackupRows,
           rows' = [i \in DOMAIN rows \cup {NewId} |-> IF i = NewId THEN r ELSE rows[i]]
    PROVE  /\ NewId \in 1 .. MaxRow
           /\ DOMAIN rows' \subseteq 1 .. MaxRow /\ rows' \in [DOMAIN rows' -> BackupRows]
BY NewIdFresh DEF DataTyped

LEMMA StatusTyped ==
    ASSUME DataTyped, NEW i \in DOMAIN rows, NEW v \in {"in_progress", "ok", "failed"},
           rows' = [rows EXCEPT ![i].status = v]
    PROVE  /\ DOMAIN rows' = DOMAIN rows /\ rows' \in [DOMAIN rows -> BackupRows]
           /\ \A k \in DOMAIN rows : /\ rows'[k].name = rows[k].name
                                     /\ rows'[k].type = rows[k].type
                                     /\ rows'[k].status = IF k = i THEN v ELSE rows[k].status
BY DEF DataTyped, BackupRows

LEMMA LaterTyped ==
    second \in 0 .. MaxSecond => Later \in 0 .. MaxSecond /\ second <= Later
BY BackupAssumption DEF Later

LEMMA BackupTypeStep == BackupTypeInv /\ [BackupNext]_allVars => BackupTypeInv'
<1> SUFFICES ASSUME BackupTypeInv, [BackupNext]_allVars PROVE BackupTypeInv'
  OBVIOUS
<1> USE BackupAssumption
<1>1. Typed(BackupLabels, BackupRequests) /\ DataTyped /\ job \in [Sessions -> Jobs]
  BY BackupTyped DEF BackupTypeInv, BackupTypeOK, DataTyped
<1>2. \A t \in Sessions : Sourced(sess[t], job[t])
  BY DEF BackupTypeInv
<1>3. sess \in [Sessions -> BackupSessions] /\ db \in Rows /\ proc \in [Pids -> ProcStates]
  BY <1>1 DEF Typed, BackupSessions
<1>4. ASSUME NEW s \in Sessions PROVE job[s] \in Jobs /\ sess[s] \in BackupSessions
  BY <1>1, <1>3
<1>5. CASE ProcessStep
  <2>1. Typed(BackupLabels, BackupRequests)'
    BY <1>1, <1>5, TypedStep DEF ProcessStep, Next
  <2> DEFINE Fits(t) == \/ sess'[t] = sess[t]
                        \/ Moves(sess[t], sess'[t])
                        \/ sess'[t].pc # "rs_copy" /\ sess'[t].after # "rs_copy"
  <2>2. \A t \in Sessions : Fits(t)
    <3>1. ASSUME NEW s \in Sessions, Step(s) PROVE \A t \in Sessions : Fits(t)
      BY <1>1, <3>1, StepMoves
    <3>2. ASSUME NEW s \in Sessions, NEW r \in Requests, Arrive(s, r)
          PROVE  \A t \in Sessions : Fits(t)
      BY <1>3, <3>2 DEF Arrive, Entry, IdleSession, Requests
    <3>3. ASSUME NEW s \in Sessions, Locked(s)
          PROVE  \A t \in Sessions : Fits(t)
      BY <1>3, <3>3 DEF Locked, IdleSession
    <3>4. ASSUME Crash PROVE \A t \in Sessions : Fits(t)
      BY <3>4 DEF Crash, IdleSession
    <3>5. ASSUME System PROVE \A t \in Sessions : Fits(t)
      BY <3>5 DEF System
    <3> HIDE DEF Fits
    <3> QED
      BY <1>5, <3>1, <3>2, <3>3, <3>4, <3>5 DEF ProcessStep, Running
  <2>3. job' = [t \in Sessions |-> IF sess'[t].pc = "idle" THEN NoJob ELSE job[t]]
    BY <1>5 DEF ProcessStep
  <2>4. \A t \in Sessions : Sourced(sess'[t], job'[t])
    BY <1>2, <2>2, <2>3, IdleTyped DEF Sourced, Moves
  <2>5. DataTyped'
    BY <1>5, DataKept DEF ProcessStep
  <2> QED
    BY <1>1, <2>1, <2>3, <2>4, <2>5, IdleTyped, TypeSuffices DEF Typed, BackupSessions
<1>6. CASE RestartStep
  <2>1. /\ sess' = [t \in Sessions |-> IdleSession] /\ job' = [t \in Sessions |-> NoJob]
        /\ db' = db /\ proc' \in [Pids -> ProcStates]
    BY <1>3, <1>6 DEF RestartStep, UnitRestart, ProcStates
  <2>2. DataTyped'
    BY <1>1, <1>6, LaterTyped DEF RestartStep, DataTyped
  <2> QED BY <1>3, <2>1, <2>2, IdleTyped, TypeSuffices
<1>7. CASE Play
  <2>1. DataTyped'
    BY <1>1, <1>7 DEF Play, DataTyped
  <2> QED
    BY <1>1, <1>2, <1>3, <1>7, <2>1, RaceTyped, TypeSuffices DEF Play, Sourced
<1>8. ASSUME NEW s \in Sessions, NEW r \in BackupRequests, NEW target \in 1 .. MaxRow,
             BackupArrive(s, r, target)
      PROVE  BackupTypeInv'
  <2> DEFINE new == [IdleSession EXCEPT
               !.req = r, !.row = db,
               !.pc = IF r = "delete" THEN "del_files" ELSE "refresh",
               !.after = CASE r = "backup"  -> "bk_checked"
                           [] r = "gated"   -> "gate_checked"
                           [] r = "restore" -> "rs_checked"
                           [] r = "delete"  -> "idle"]
  <2> DEFINE mine == [NoJob EXCEPT
               !.type = IF r = "restore" THEN "pre_restore" ELSE "normal",
               !.target = IF r \in {"restore", "delete"} THEN target ELSE 0,
               !.source = IF r = "delete" THEN rows[target].name ELSE @]
  <2>1. new \in BackupSessions /\ new.after # "rs_copy" /\ new.pc # "rs_copy"
    BY <1>3, IdleTyped
       DEF BackupSessions, SessionsOver, IdleSession, BackupLabels, BackupRequests
  <2>2. r = "delete" => rows[target] \in BackupRows
    BY <1>1, <1>8 DEF BackupArrive, DataTyped
  <2>3. mine \in Jobs
    <3> DEFINE source == IF r = "delete" THEN rows[target].name ELSE NoJob.source
    <3> DEFINE type == IF r = "restore" THEN "pre_restore" ELSE "normal"
    <3> DEFINE wanted == IF r \in {"restore", "delete"} THEN target ELSE 0
    <3>1. /\ source \in Names /\ NoJob \in Jobs
          /\ type \in {"normal", "pre_restore"} /\ wanted \in 0 .. MaxRow
      BY <2>2, IdleTyped DEF Jobs, BackupRows
    <3>2. mine = [NoJob EXCEPT !.type = type, !.target = wanted, !.source = source]
      OBVIOUS
    <3> HIDE DEF source, type, wanted, mine
    <3> QED BY <3>1, <3>2 DEF Jobs
  <2>4. /\ sess' = [sess EXCEPT ![s] = new] /\ job' = [job EXCEPT ![s] = mine]
        /\ UNCHANGED <<db, proc, bvars>>
    BY <1>8 DEF BackupArrive
  <2> HIDE DEF new, mine
  <2>5. \A t \in Sessions : Sourced(sess'[t], job'[t])
    BY <1>1, <1>2, <1>3, <2>1, <2>4 DEF Sourced
  <2> QED
    BY <1>1, <1>3, <2>1, <2>3, <2>4, <2>5, DataKept, TypeSuffices
<1>9. ASSUME NEW s \in Sessions, SnapshotName(s) PROVE BackupTypeInv'
  <2>1. \A k \in 0 .. MaxSuffix : <<second, k>> \in Names
    BY <1>1 DEF DataTyped, Names
  <2>2. job' \in [Sessions -> Jobs] /\ \A t \in Sessions \ {s} : job'[t] = job[t]
    BY <1>1, <1>9, <2>1, JobTypes DEF SnapshotName
  <2>3. \E l \in {"snap_failed", "snap_insert"} : Goto(s, l)
    BY <1>9 DEF SnapshotName
  <2> QED
    BY <1>3, <1>9, <2>2, <2>3, DataKept, TypeOfStep DEF SnapshotName, BackupLabels
<1>10. ASSUME NEW s \in Sessions, SnapshotInsert(s) PROVE BackupTypeInv'
  <2> DEFINE r == [name |-> job[s].name, type |-> job[s].type, status |-> "in_progress"]
  <2>1. r \in BackupRows
    BY <1>4 DEF Jobs, BackupRows
  <2>2. NewId \in 1 .. MaxRow /\ DataTyped'
    BY <1>1, <1>10, <2>1, NewRowTyped DEF SnapshotInsert, DataTyped
  <2>3. job' \in [Sessions -> Jobs] /\ \A t \in Sessions \ {s} : job'[t] = job[t]
    BY <1>1, <1>10, <2>2, JobTypes DEF SnapshotInsert
  <2> QED
    BY <1>3, <1>10, <2>2, <2>3, TypeOfStep DEF SnapshotInsert, BackupLabels
<1>11. ASSUME NEW s \in Sessions, SnapshotBegin(s) PROVE BackupTypeInv'
  <2>1. world \in Contents /\ job[s].name \in Names
    BY <1>1, <1>4 DEF DataTyped, Contents, Jobs
  <2>2. DataTyped'
    BY <1>1, <1>11, <2>1 DEF SnapshotBegin, DataTyped, Contents
  <2> DEFINE mine == [job[s] EXCEPT !.seen = world, !.raced = FALSE]
  <2>3. mine \in Jobs
    BY <1>4, <2>1 DEF Jobs
  <2>4. job' = [job EXCEPT ![s] = mine]
    BY <1>11 DEF SnapshotBegin
  <2> HIDE DEF mine
  <2>5. job' \in [Sessions -> Jobs] /\ \A t \in Sessions \ {s} : job'[t] = job[t]
    BY <1>1, <2>3, <2>4
  <2> QED
    BY <1>3, <1>11, <2>2, <2>5, TypeOfStep DEF SnapshotBegin, BackupLabels
<1>12. ASSUME NEW s \in Sessions, SnapshotCopy(s) PROVE BackupTypeInv'
  <2>1. DataTyped'
    BY <1>1, <1>4, <1>12, LaterTyped DEF SnapshotCopy, DataTyped, Jobs, Contents
  <2>2. PICK ok \in BOOLEAN : CopyEnded(s, ok)
    BY <1>4, <1>12 DEF SnapshotCopy, Jobs
  <2> DEFINE mine == [job[s] EXCEPT !.ok = ok, !.name = <<0, 0>>, !.seen = "absent",
                                    !.raced = FALSE]
  <2>3. mine \in Jobs
    <3>1. <<0, 0>> \in Names /\ "absent" \in Contents
      BY DEF Names, Contents
    <3> QED BY <1>4, <3>1 DEF Jobs
  <2>4. job' = [job EXCEPT ![s] = mine]
    BY <2>2 DEF CopyEnded
  <2> HIDE DEF mine
  <2>5. job' \in [Sessions -> Jobs] /\ \A t \in Sessions \ {s} : job'[t] = job[t]
    BY <1>1, <2>3, <2>4
  <2>6. \E l \in {"snap_commit", "snap_failed"} : Goto(s, l)
    BY <1>12 DEF SnapshotCopy
  <2> QED
    BY <1>3, <1>12, <2>1, <2>5, <2>6, TypeOfStep DEF SnapshotCopy, BackupLabels
<1>13. ASSUME NEW s \in Sessions, SnapshotCommit(s) PROVE BackupTypeInv'
  <2>1. DataTyped'
    BY <1>1, <1>13, StatusTyped DEF SnapshotCommit, DataTyped
  <2>2. job' \in [Sessions -> Jobs] /\ \A t \in Sessions \ {s} : job'[t] = job[t]
    BY <1>1, <1>13, JobTypes DEF SnapshotCommit, JobIs
  <2>3. \/ sess' = [sess EXCEPT ![s] = IdleSession]
        \/ \E l \in {"prune", "rs_begin", "bk_finally", "rs_ret"} : GotoExpired(s, l) \/ Goto(s, l)
    BY <1>13 DEF SnapshotCommit
  <2> QED
    BY <1>3, <1>13, <2>1, <2>2, <2>3, TypeOfStep DEF SnapshotCommit, BackupLabels
<1>14. ASSUME NEW s \in Sessions, PruneFiles(s) PROVE BackupTypeInv'
  <2>1. Outdated \in SUBSET (1 .. MaxRow)
    BY <1>1 DEF Outdated, Normals, OkRows, DataTyped
  <2>2. job' \in [Sessions -> Jobs] /\ \A t \in Sessions \ {s} : job'[t] = job[t]
    BY <1>1, <1>14, <2>1, JobTypes DEF PruneFiles
  <2>3. DataTyped'
    BY <1>1, <1>14 DEF PruneFiles, Erased, DataTyped, Contents
  <2> QED
    BY <1>3, <1>14, <2>2, <2>3, TypeOfStep DEF PruneFiles, BackupLabels
<1>15. ASSUME NEW s \in Sessions, PruneCommit(s) PROVE BackupTypeInv'
  <2>1. job' \in [Sessions -> Jobs] /\ \A t \in Sessions \ {s} : job'[t] = job[t]
    BY <1>1, <1>15, JobTypes DEF PruneCommit
  <2>2. DataTyped'
    BY <1>1, <1>15 DEF PruneCommit, Without, DataTyped
  <2> QED
    BY <1>3, <1>15, <2>1, <2>2, TypeOfStep DEF PruneCommit, BackupLabels
<1>16. ASSUME NEW s \in Sessions, BackupChecked(s) \/ BackupFinally(s) \/ GateStart(s)
       PROVE  BackupTypeInv'
  <2>1. job' \in [Sessions -> Jobs] /\ \A t \in Sessions \ {s} : job'[t] = job[t]
    <3>1. CASE BackupChecked(s)
      <4> DEFINE running == sess[s].row.status = "running"
      <4>1. Job(s, "was", running) /\ running \in BOOLEAN
        BY <3>1 DEF BackupChecked
      <4> HIDE DEF running
      <4> QED BY <1>1, <4>1, JobTypes
    <3>2. CASE BackupFinally(s) \/ GateStart(s)
      <4>1. Job(s, "own", 0) \/ Job(s, "was", FALSE)
        BY <3>2 DEF BackupFinally, GateStart
      <4>2. 0 \in 0 .. MaxRow /\ FALSE \in BOOLEAN
        OBVIOUS
      <4> QED BY <1>1, <4>1, <4>2, JobTypes
    <3> QED BY <1>16, <3>1, <3>2
  <2>2. \/ \E l \in {"stop_checked", "start_checked"} : Refresh(s, l)
        \/ \E l \in {"snap_name", "bk_ret"} : Goto(s, l)
    BY <1>16 DEF BackupChecked, BackupFinally, GateStart
  <2>3. UNCHANGED <<db, proc, bvars>>
    BY <1>16 DEF BackupChecked, BackupFinally, GateStart
  <2> QED
    BY <1>3, <2>1, <2>2, <2>3, DataKept, TypeOfStep, IdleTyped DEF BackupLabels
<1>17. ASSUME NEW s \in Sessions, BackupStopped(s) PROVE BackupTypeInv'
  <2> DEFINE new == [sess[s] EXCEPT !.pc = "refresh", !.pid = NoPid,
                                    !.after = "bk_confirmed", !.back = "idle"]
  <2>1. new \in BackupSessions /\ new.after # "rs_copy" /\ new.pc # "rs_copy"
    BY <1>4, IdleTyped DEF BackupSessions, SessionsOver, BackupLabels
  <2>2. sess' = [sess EXCEPT ![s] = new] /\ UNCHANGED <<db, proc, bvars, job>>
    BY <1>17 DEF BackupStopped
  <2> HIDE DEF new
  <2>3. \A t \in Sessions : Sourced(sess'[t], job'[t])
    BY <1>2, <1>3, <2>1, <2>2 DEF Sourced
  <2> QED
    BY <1>1, <1>3, <2>1, <2>2, <2>3, DataKept, TypeSuffices
<1>18. ASSUME NEW s \in Sessions, BackupConfirmed(s) PROVE BackupTypeInv'
  <2> DEFINE mine == [job[s] EXCEPT !.ok = FALSE, !.was = FALSE]
  <2>1. mine \in Jobs
    BY <1>4 DEF Jobs
  <2>2. job' = job \/ job' = [job EXCEPT ![s] = mine]
    BY <1>18 DEF BackupConfirmed
  <2> HIDE DEF mine
  <2>3. job' \in [Sessions -> Jobs] /\ \A t \in Sessions \ {s} : job'[t] = job[t]
    BY <1>1, <2>1, <2>2
  <2>4. \E l \in {"snap_name", "bk_ret"} : Goto(s, l)
    BY <1>18 DEF BackupConfirmed
  <2>5. UNCHANGED <<db, proc, bvars>>
    BY <1>18 DEF BackupConfirmed
  <2> QED
    BY <1>3, <2>3, <2>4, <2>5, DataKept, TypeOfStep DEF BackupLabels
<1>19. ASSUME NEW s \in Sessions, GateChecked(s) \/ RestoreChecked(s) PROVE BackupTypeInv'
  <2>1. \/ \E l \in {"start_checked", "bk_checked"} : Refresh(s, l)
        \/ \E l \in {"snap_name", "rs_ret"} : Goto(s, l)
    BY <1>19 DEF GateChecked, RestoreChecked
  <2>2. UNCHANGED <<db, proc, bvars, job>>
    BY <1>19 DEF GateChecked, RestoreChecked
  <2> QED
    BY <1>1, <1>3, <2>1, <2>2, DataKept, TypeOfStep, IdleTyped DEF BackupLabels
<1>20. ASSUME NEW s \in Sessions, RestoreBegin(s) PROVE BackupTypeInv'
  <2>1. CASE Goto(s, "rs_ret") /\ UNCHANGED <<job, world>>
    BY <1>1, <1>3, <1>20, <2>1, TypeOfStep DEF RestoreBegin, DataTyped, BackupLabels
  <2>2. ASSUME NEW i \in DOMAIN rows, disk[rows[i].name] # "absent", Goto(s, "rs_copy"),
               job' = [Race(Copiers) EXCEPT ![s] =
                        [@ EXCEPT !.source = rows[i].name, !.raced = FALSE,
                                  !.seen = disk[rows[i].name],
                                  !.before = world]],
               world' = "mixed"
        PROVE  BackupTypeInv'
    <3> DEFINE mine == [Race(Copiers)[s] EXCEPT !.source = rows[i].name, !.raced = FALSE,
                           !.seen = disk[rows[i].name], !.before = world]
    <3>1. rows[i].name \in Names /\ disk[rows[i].name] \in Contents /\ world \in Contents
      BY <1>1 DEF DataTyped, BackupRows, Contents
    <3>2. Race(Copiers)[s] \in Jobs
      BY <1>1, RaceTyped
    <3>3. mine \in Jobs /\ mine.seen # "absent"
      BY <2>2, <3>1, <3>2 DEF Jobs
    <3>4. job' = [Race(Copiers) EXCEPT ![s] = mine]
      BY <2>2
    <3> HIDE DEF mine
    <3>5. /\ job' \in [Sessions -> Jobs] /\ job'[s].seen # "absent"
          /\ \A t \in Sessions \ {s} : job'[t].seen = job[t].seen
      BY <1>1, <3>3, <3>4, RaceTyped
    <3>6. Becomes(s, With(sess[s], "rs_copy", sess[s].after, sess[s].back, sess[s].res,
                          sess[s].row, sess[s].pid))
      BY <1>1, <2>2, Updates DEF Writes
    <3>7. /\ sess' \in [Sessions -> BackupSessions] /\ sess'[s].after # "rs_copy"
          /\ \A t \in Sessions \ {s} : sess'[t] = sess[t]
      BY <1>2, <1>3, <3>6
         DEF Becomes, With, BackupSessions, SessionsOver, BackupLabels, Sourced
    <3>8. \A t \in Sessions : Sourced(sess'[t], job'[t])
      BY <1>2, <3>5, <3>7 DEF Sourced
    <3>9. DataTyped' /\ UNCHANGED <<db, proc>>
      BY <1>1, <1>20, <2>2 DEF RestoreBegin, DataTyped
    <3> QED BY <1>3, <3>5, <3>7, <3>8, <3>9, TypeSuffices
  <2> QED BY <1>20, <2>1, <2>2 DEF RestoreBegin
<1>21. ASSUME NEW s \in Sessions, RestoreCopy(s) PROVE BackupTypeInv'
  <2>1. job[s].seen \in Contents \ {"absent"}
    BY <1>2, <1>4, <1>21 DEF RestoreCopy, Jobs, Sourced
  <2>2. DataTyped'
    BY <1>1, <1>21, <2>1 DEF RestoreCopy, DataTyped, Contents
  <2>3. \E l \in {"rs_commit", "rs_ret"} : Goto(s, l)
    BY <1>21 DEF RestoreCopy
  <2>4. job' = Race(Copiers \ {s}) /\ UNCHANGED <<db, proc>>
    BY <1>21 DEF RestoreCopy
  <2> QED
    BY <1>1, <1>3, <2>2, <2>3, <2>4, RaceTyped, TypeOfStep DEF BackupLabels
<1>22. ASSUME NEW s \in Sessions, RestoreCommit(s) PROVE BackupTypeInv'
  <2>1. db' \in Rows
    BY <1>3, <1>22 DEF RestoreCommit, Flush, Rows
  <2> QED
    BY <1>1, <1>22, <2>1, DataKept, TypeOfStep DEF RestoreCommit, BackupLabels
<1>23. ASSUME NEW s \in Sessions, DeleteFiles(s) PROVE BackupTypeInv'
  <2>1. DataTyped'
    BY <1>1, <1>23 DEF DeleteFiles, Erased, DataTyped, Contents
  <2> QED
    BY <1>1, <1>3, <1>23, <2>1, TypeOfStep DEF DeleteFiles, BackupLabels
<1>24. ASSUME NEW s \in Sessions, DeleteRow(s) \/ BackupAnswer(s) PROVE BackupTypeInv'
  <2>1. DataTyped'
    BY <1>1, <1>24, DataKept DEF DeleteRow, BackupAnswer, Without, DataTyped
  <2> QED
    BY <1>1, <1>3, <1>24, <2>1, IdleTyped, TypeOfStep DEF DeleteRow, BackupAnswer
<1>25. CASE UNCHANGED allVars
  BY <1>1, <1>2, <1>3, <1>25, DataKept, TypeSuffices DEF allVars, vars
<1> QED
  BY <1>5, <1>6, <1>7, <1>8, <1>9, <1>10, <1>11, <1>12, <1>13, <1>14, <1>15, <1>16,
     <1>17, <1>18, <1>19, <1>20, <1>21, <1>22, <1>23, <1>24, <1>25
     DEF BackupNext, BackupStep

(* Sessions, local variables, table and directories keep their types in    *)
(* every run, for any requests beside each other, any faults and bounds.   *)
THEOREM BackupTypeCorrect == BackupSpec => []BackupTypeOK
<1>1. BackupSpec => []BackupTypeInv
  BY BackupTypeInit, BackupTypeStep, PTL DEF BackupSpec
<1>2. BackupTypeInv => BackupTypeOK
  BY DEF BackupTypeInv
<1> QED BY <1>1, <1>2, PTL

----------------------------------------------------------------------------
(* One request at a time: the invariant                                    *)

(* The labels of each request; refresh_status returns to one of Returns.   *)
Snapshotting == {"snap_name", "snap_insert", "snap_begin", "snap_copy",
                 "snap_commit", "snap_failed"}

BackingUp == Snapshotting \cup {"bk_checked", "bk_confirmed", "prune",
                                "prune_commit", "bk_finally", "bk_ret"}

Restoring == Snapshotting \cup {"rs_checked", "rs_begin", "rs_copy",
                                "rs_commit", "rs_ret"}

Of(r) == {l \in BackupLabels : \/ r \in {"backup", "gated"} /\ l \in BackingUp
                               \/ r = "gated" /\ l = "gate_checked"
                               \/ r = "restore" /\ l \in Restoring
                               \/ r = "delete" /\ l \in {"del_files", "del_row"}}

Returns == {"bk_checked", "bk_confirmed", "gate_checked", "rs_checked"}

JobControl(x, j) ==
    /\ x.pc \in Labels \cup Of(x.req)
    /\ Calls(x) => x.after \in Labels \cup (Of(x.req) \cap Returns)
    /\ x.pc \in {"rs_copy", "rs_commit"} => x.row # Expired
    /\ j.type = IF x.req = "restore" THEN "pre_restore" ELSE "normal"
    /\ j.was => x.req \in {"backup", "gated"} /\ x.pc # "bk_ret"

(* Nothing runs while a snapshot is taken, pruned or restored.             *)
Quiet == Snapshotting \cup {"prune", "prune_commit", "rs_begin", "rs_copy", "rs_commit"}

(* Ids are handed out upwards and nobody else inserts: the row a request   *)
(* writes is the newest.                                                   *)
Newest(i) == i \in DOMAIN rows /\ \A k \in DOMAIN rows : k <= i

Owning == {"snap_begin", "snap_copy", "snap_commit", "snap_failed", "prune",
           "prune_commit", "bk_finally", "rs_begin", "rs_copy", "rs_commit",
           "rs_ret"}

(* What a request knows of the row and the directory it writes, step by    *)
(* step: from the free name to the good snapshot and the pruned table.     *)
SnapshotKnows(x, j) ==
    /\ x.pc \notin Owning => j.own = 0
    /\ x.pc \in {"snap_insert", "snap_begin", "snap_copy"} =>
          j.name[1] = second /\ second < MaxSecond
    /\ x.pc \in {"snap_begin", "snap_copy", "snap_commit"} =>
          /\ Newest(j.own)
          /\ rows[j.own].status = "in_progress"
          /\ rows[j.own].type = j.type
    /\ x.pc \in {"snap_begin", "snap_copy"} => rows[j.own].name = j.name
    /\ x.pc = "snap_copy" => j.seen = world /\ ~j.raced
    /\ x.pc = "snap_commit" => disk[rows[j.own].name] = world
    /\ x.pc = "snap_failed" => j.own = 0 \/ (j.own \in DOMAIN rows /\ ~j.ok)

PruneKnows(x, j) ==
    /\ x.pc \in {"prune", "prune_commit"} => Newest(j.own) /\ j.own \in Normals
    /\ x.pc = "prune_commit" => j.victims = Outdated
    /\ x.pc = "bk_finally" /\ j.ok =>
          Cardinality(Normals) <= Keep /\ j.own \in Normals

RestoreKnows(x, j) ==
    /\ x.pc \in {"rs_begin", "rs_copy"} =>
          /\ j.own \in OkRows
          /\ rows[j.own].type = "pre_restore"
          /\ disk[rows[j.own].name] = IF x.pc = "rs_begin" THEN world ELSE j.before
    /\ x.pc = "del_files" =>
          j.target \in DOMAIN rows /\ j.source = rows[j.target].name

(* Every snapshot but the one being copied was named in an earlier second. *)
Past(ids) == \A i \in ids : rows[i].name[1] < second

Copied(x, j) == IF x.pc \in {"snap_begin", "snap_copy"} THEN {j.own} ELSE {}

JobKnows(x, j) ==
    /\ x.pc \in Quiet => db.pid = NoPid
    /\ SnapshotKnows(x, j)
    /\ PruneKnows(x, j)
    /\ RestoreKnows(x, j)
    /\ Past(DOMAIN rows \ Copied(x, j))

NamesDiffer == \A i, k \in DOMAIN rows : i # k => rows[i].name # rows[k].name

BackupInv ==
    /\ BackupTypeInv
    /\ Consistent(db)
    /\ \A s, t \in Active : s = t
    /\ \A s \in Active : /\ SerialControl(sess[s]) /\ SerialKnows(sess[s])
                        /\ JobControl(sess[s], job[s]) /\ JobKnows(sess[s], job[s])
    /\ \A s \in Sessions \ Active : job[s] = NoJob
    /\ Active = {} => Servers \subseteq {db.pid} /\ Past(DOMAIN rows)
    /\ NamesDiffer
    /\ OkMeansWhole

LEMMA BackupInvInit == BackupInit => BackupInv
<1> SUFFICES ASSUME BackupInit PROVE BackupInv
  OBVIOUS
<1>1. BackupTypeInv
  BY BackupTypeInit
<1>2. Init /\ job = [t \in Sessions |-> NoJob] /\ DOMAIN rows = {}
  BY DEF BackupInit
<1>3. SerialInv /\ Active = {}
  BY <1>2, SerialInit DEF Init, IdleSession
<1> QED
  BY <1>1, <1>2, <1>3
     DEF BackupInv, SerialInv, Past, NamesDiffer, OkMeansWhole, OkRows

(* What a step that touches one session has to establish.                  *)
Settled(s) ==
    /\ \A t \in Sessions \ {s} : sess'[t] = sess[t] /\ job'[t] = job[t]
    /\ Consistent(db)'
    /\ IF sess'[s].pc = "idle"
       THEN job'[s] = NoJob /\ Servers' \subseteq {db'.pid} /\ Past(DOMAIN rows)'
       ELSE /\ SerialControl(sess'[s]) /\ SerialKnows(sess[s])'
            /\ JobControl(sess'[s], job'[s]) /\ JobKnows(sess[s], job[s])'
    /\ NamesDiffer' /\ OkMeansWhole'

LEMMA SettledSuffices ==
    ASSUME BackupInv, BackupTypeInv', NEW s \in Sessions, Active \subseteq {s}, Settled(s)
    PROVE  BackupInv'
<1>1. Active' \subseteq {s}
  BY DEF Settled
<1>2. \A t \in Active' : /\ SerialControl(sess'[t]) /\ SerialKnows(sess[t])'
                         /\ JobControl(sess'[t], job'[t]) /\ JobKnows(sess[t], job[t])'
  BY <1>1 DEF Settled
<1>3. \A t \in Sessions \ Active' : job'[t] = NoJob
  <2> SUFFICES ASSUME NEW t \in Sessions \ Active' PROVE job'[t] = NoJob
    OBVIOUS
  <2>1. CASE t = s
    BY <2>1 DEF Settled
  <2>2. CASE t # s
    <3>1. sess'[t] = sess[t] /\ job'[t] = job[t]
      BY <2>2 DEF Settled
    <3>2. t \in Sessions \ Active
      BY <3>1
    <3> QED BY <3>1, <3>2 DEF BackupInv
  <2> QED BY <2>1, <2>2
<1>4. Active' = {} => Servers' \subseteq {db'.pid} /\ Past(DOMAIN rows)'
  BY DEF Settled
<1> QED BY <1>1, <1>2, <1>3, <1>4 DEF BackupInv, Settled

(* What is known while session s is served.                                *)
LEMMA OneActive ==
    ASSUME BackupInv, NEW s \in Active
    PROVE  /\ Typed(BackupLabels, BackupRequests) /\ DataTyped
           /\ job \in [Sessions -> Jobs] /\ sess \in [Sessions -> BackupSessions]
           /\ s \in Sessions /\ Active \subseteq {s}
           /\ SerialControl(sess[s]) /\ SerialKnows(sess[s])
           /\ JobControl(sess[s], job[s]) /\ JobKnows(sess[s], job[s])
           /\ \A t \in Sessions \ {s} : job[t] = NoJob /\ sess[t].pc = "idle"
           /\ Consistent(db) /\ NamesDiffer /\ OkMeansWhole
<1>1. BackupTypeOK
  BY DEF BackupInv, BackupTypeInv
<1>2. \A t \in Sessions \ {s} : t \notin Active
  BY DEF BackupInv
<1> QED
  BY <1>1, <1>2, BackupTyped
     DEF BackupInv, BackupTypeOK, DataTyped, BackupSessions, SessionsOver

LEMMA LabelSets ==
    /\ BackupLabels \cap Labels = {}
    /\ Quiet \subseteq BackupLabels /\ Owning \subseteq BackupLabels
    /\ \A r : Of(r) \subseteq BackupLabels
    /\ \A r \in Requests : Of(r) = {} /\ r \notin BackupRequests
    /\ Returns \subseteq BackupLabels /\ Returns \cap (Quiet \cup Owning) = {}
BY DEF Labels, BackupLabels, Quiet, Snapshotting, Owning, Of, Requests, BackupRequests,
       Returns

(* Outside its own labels a backup knows no more than that its snapshots   *)
(* lie in the past.                                                        *)
LEMMA PlainLabels ==
    ASSUME NEW l \in Labels \cup Returns
    PROVE  /\ l \notin Quiet \cup Owning /\ l \notin {"snap_insert", "del_files"}
           /\ l \notin {"snap_begin", "snap_copy", "snap_commit", "snap_failed", "prune",
                       "prune_commit", "bk_finally", "rs_begin", "rs_copy"}
BY LabelSets DEF Labels, Returns, Owning

LEMMA AtRest ==
    ASSUME NEW s, sess[s].pc \in Labels \cup Returns, JobKnows(sess[s], job[s])
    PROVE  job[s].own = 0 /\ Past(DOMAIN rows)
<1>1. Copied(sess[s], job[s]) = {}
  BY PlainLabels DEF Copied
<1> QED
  BY <1>1, PlainLabels DEF JobKnows, SnapshotKnows

LEMMA RestsThere ==
    ASSUME NEW s, sess'[s].pc \in Labels \cup Returns, job'[s].own = 0, Past(DOMAIN rows)'
    PROVE  JobKnows(sess[s], job[s])'
<1>1. Copied(sess[s], job[s])' = {}
  BY PlainLabels DEF Copied
<1> QED
  BY <1>1, PlainLabels DEF JobKnows, SnapshotKnows, PruneKnows, RestoreKnows

LEMMA SameData ==
    ASSUME UNCHANGED bvars
    PROVE  /\ world' = world /\ disk' = disk /\ rows' = rows /\ second' = second
           /\ OkRows' = OkRows /\ Normals' = Normals /\ Outdated' = Outdated
           /\ (NamesDiffer => NamesDiffer') /\ (OkMeansWhole => OkMeansWhole')
BY DEF bvars, OkRows, Normals, Outdated, NamesDiffer, OkMeansWhole

LEMMA KnowsSame ==
    ASSUME UNCHANGED bvars, db'.pid = db.pid, NEW s, sess'[s].pc = sess[s].pc,
           job'[s] = job[s], JobKnows(sess[s], job[s])
    PROVE  JobKnows(sess[s], job[s])'
BY SameData
   DEF JobKnows, SnapshotKnows, PruneKnows, RestoreKnows, Copied, Past, Newest

(* A step of process control in the session that is served.                *)
LEMMA ProcessSession ==
    ASSUME BackupInv, NEW s \in Active, Step(s), UNCHANGED bvars,
           job' = [t \in Sessions |-> IF sess'[t].pc = "idle" THEN NoJob ELSE job[t]]
    PROVE  Settled(s)
<1> DEFINE x == sess[s]
<1> DEFINE y == sess'[s]
<1>1. /\ Typed(BackupLabels, BackupRequests) /\ s \in Sessions /\ Active \subseteq {s}
      /\ SerialControl(x) /\ SerialKnows(x) /\ JobControl(x, job[s]) /\ JobKnows(x, job[s])
      /\ \A t \in Sessions \ {s} : job[t] = NoJob /\ sess[t].pc = "idle"
      /\ Consistent(db) /\ NamesDiffer /\ OkMeansWhole /\ sess \in [Sessions -> BackupSessions]
  BY OneActive
<1>2. Established(s)
  BY <1>1, SerialSessionStep
<1>3. Moves(x, y) /\ \A t \in Sessions \ {s} : sess'[t] = sess[t]
  BY <1>1, StepMoves
<1>4. \A t \in Sessions \ {s} : job'[t] = job[t]
  BY <1>1, <1>3
<1>5. job'[s] = IF y.pc = "idle" THEN NoJob ELSE job[s]
  BY <1>1
<1>6. CASE x.pc \notin Labels
  <2>1. sess' = [sess EXCEPT ![s].row = db] /\ UNCHANGED <<db, proc>> /\ x.row = Expired
    BY <1>1, <1>6, OnlyLoad DEF Load
  <2>2. /\ y.pc = x.pc /\ y.after = x.after /\ y.req = x.req /\ y.row = db
        /\ db \in Rows
    BY <1>1, <2>1 DEF BackupSessions, SessionsOver, Typed
  <2>3. y.pc # "idle"
    BY <1>6, <2>2 DEF Labels
  <2>4. JobControl(y, job'[s])
    BY <1>1, <1>5, <2>1, <2>2, <2>3 DEF JobControl, Calls
  <2>5. JobKnows(sess[s], job[s])'
    BY <1>1, <1>5, <2>1, <2>2, <2>3, KnowsSame
  <2> QED
    BY <1>1, <1>2, <1>3, <1>4, <2>3, <2>4, <2>5, SameData DEF Settled, Established
<1>7. CASE x.pc \in Labels
  <2>1. job[s].own = 0 /\ Past(DOMAIN rows)
    BY <1>1, <1>7, AtRest
  <2>2. Past(DOMAIN rows)'
    BY <2>1, SameData DEF Past
  <2>3. ASSUME y.pc # "idle"
        PROVE  JobControl(y, job'[s]) /\ JobKnows(sess[s], job[s])'
    <3>1. y.req = x.req /\ job'[s] = job[s] /\ x.pc \notin {"rs_copy", "rs_commit"}
      BY <1>3, <1>5, <1>7, <2>3 DEF Moves, Labels
    <3>2. y.pc \in Labels \cup (Of(x.req) \cap Returns)
      BY <1>1, <1>3, <1>7 DEF Moves, JobControl, Calls
    <3>3. Calls(y) => y.after \in Labels \cup (Of(x.req) \cap Returns)
      BY <1>1, <1>3 DEF Moves, JobControl
    <3>4. y.pc \notin {"rs_copy", "rs_commit", "bk_ret"}
      BY <3>2 DEF Labels, Returns
    <3>5. JobControl(y, job'[s])
      BY <1>1, <3>1, <3>2, <3>3, <3>4 DEF JobControl
    <3>6. JobKnows(sess[s], job[s])'
      BY <2>1, <2>2, <3>1, <3>2, RestsThere
    <3> QED BY <3>5, <3>6
  <2> QED
    BY <1>1, <1>2, <1>3, <1>4, <1>5, <2>2, <2>3, SameData DEF Settled, Established
<1> QED BY <1>6, <1>7

(* A step that leaves every session and all the data alone, and starts no  *)
(* server.                                                                 *)
LEMMA QuietStep ==
    ASSUME BackupInv, BackupTypeInv', UNCHANGED <<db, sess, bvars, job>>,
           Servers' \subseteq Servers
    PROVE  BackupInv'
<1>1. \A s \in Active : SerialKnows(sess[s])'
  BY DEF BackupInv, SerialKnows
<1>2. \A s \in Active : JobKnows(sess[s], job[s])'
  BY KnowsSame DEF BackupInv
<1>3. Past(DOMAIN rows) => Past(DOMAIN rows)'
  BY SameData DEF Past
<1> QED
  BY <1>1, <1>2, <1>3, SameData DEF BackupInv, Consistent

LEMMA ProcessInv ==
    ASSUME Serial, BackupInv, BackupTypeInv', ProcessStep
    PROVE  BackupInv'
<1> USE ConstantsAssumption
<1>1. /\ UNCHANGED bvars
      /\ job' = [t \in Sessions |-> IF sess'[t].pc = "idle" THEN NoJob ELSE job[t]]
  BY DEF ProcessStep
<1>2. Typed(BackupLabels, BackupRequests) /\ Consistent(db) /\ job \in [Sessions -> Jobs]
  BY BackupTyped DEF BackupInv, BackupTypeInv, BackupTypeOK
<1>3. ASSUME NEW s \in Sessions, NEW r \in Requests, Arrive(s, r)
      PROVE  BackupInv'
  <2>1. Active = {}
    BY <1>3, ArriveAlone DEF Arrive
  <2>2. Servers \subseteq {db.pid} /\ Past(DOMAIN rows) /\ \A t \in Sessions : job[t] = NoJob
    BY <2>1 DEF BackupInv
  <2>3. /\ Established(s) /\ sess'[s].pc \in {"persist", "refresh"}
        /\ sess'[s].req = r /\ sess'[s].after \in Labels
    BY <1>2, <1>3, <2>1, <2>2, SerialArrival
  <2>4. \A t \in Sessions \ {s} : sess'[t] = sess[t] /\ job'[t] = job[t]
    BY <1>1, <2>2, <2>3 DEF Established
  <2>5. job'[s] = NoJob /\ sess'[s].pc \in Labels /\ sess'[s].pc # "idle"
    BY <1>1, <2>2, <2>3 DEF Labels
  <2>6. JobControl(sess'[s], job'[s])
    BY <2>3, <2>5 DEF JobControl, NoJob, Requests
  <2>7. Past(DOMAIN rows)'
    BY <1>1, <2>2, SameData DEF Past
  <2>8. JobKnows(sess[s], job[s])'
    BY <2>5, <2>7, RestsThere DEF NoJob
  <2>9. Settled(s)
    BY <1>1, <2>3, <2>4, <2>5, <2>6, <2>8, SameData DEF Settled, Established, BackupInv
  <2> QED BY <2>1, <2>9, SettledSuffices
<1>4. ASSUME NEW s \in Sessions, Step(s) PROVE BackupInv'
  <2>1. s \in Active
    BY <1>4, StepIsActive
  <2> QED
    BY <1>1, <1>4, <2>1, OneActive, ProcessSession, SettledSuffices
<1>5. CASE System
  <2>1. Servers' \subseteq Servers /\ UNCHANGED <<db, sess>>
    BY <1>2, <1>5 DEF System, Exit, Reap, Recycle, Servers, Typed
  <2>2. \A t \in Sessions : sess[t].pc = "idle" => job[t] = NoJob
    BY DEF BackupInv
  <2>3. job' = job
    BY <1>1, <1>2, <2>1, <2>2
  <2> QED BY <1>1, <2>1, <2>3, QuietStep
<1>6. ~Crash /\ \A s \in Sessions : ~Locked(s)
  BY DEF Serial, Crash, Locked
<1> QED
  BY <1>3, <1>4, <1>5, <1>6 DEF ProcessStep, Running

LEMMA RestartInv ==
    ASSUME BackupInv, BackupTypeInv', RestartStep
    PROVE  BackupInv'
<1>1. /\ Active' = {} /\ \A t \in Sessions : job'[t] = NoJob
      /\ Servers' = {} /\ db' = db /\ rows' = rows /\ disk' = disk
  BY DEF RestartStep, UnitRestart, IdleSession, Servers
<1>2. second' = Later /\ second \in 0 .. MaxSecond
  BY DEF RestartStep, BackupInv, BackupTypeInv, BackupTypeOK
<1>3. Past(DOMAIN rows)'
  <2>1. CASE Active = {}
    <3>1. \A i \in DOMAIN rows : rows[i].name[1] < second /\ rows[i].name[1] \in Nat
      BY <2>1 DEF BackupInv, BackupTypeInv, BackupTypeOK, Past, BackupRows, Names
    <3> QED BY <1>1, <1>2, <3>1, LaterTyped DEF Past
  <2>2. ASSUME NEW s \in Active PROVE Past(DOMAIN rows)'
    <3>1. DataTyped /\ JobKnows(sess[s], job[s])
      BY OneActive
    <3>2. \A i \in DOMAIN rows : rows[i].name[1] \in Nat
      BY <3>1 DEF DataTyped, BackupRows, Names
    <3>3. \A i \in DOMAIN rows \ Copied(sess[s], job[s]) : rows[i].name[1] < second
      BY <3>1 DEF JobKnows, Past
    <3>4. CASE sess[s].pc \in {"snap_begin", "snap_copy"}
      <4>1. rows[job[s].own].name[1] = second /\ second < MaxSecond
        BY <3>1, <3>4 DEF JobKnows, SnapshotKnows
      <4>2. second' = second + 1
        BY <1>2, <4>1 DEF Later
      <4> QED
        BY <1>1, <1>2, <3>2, <3>3, <3>4, <4>1, <4>2 DEF Past, Copied
    <3>5. CASE sess[s].pc \notin {"snap_begin", "snap_copy"}
      BY <1>1, <1>2, <3>2, <3>3, <3>5, LaterTyped DEF Past, Copied
    <3> QED BY <3>4, <3>5
  <2> QED BY <2>1, <2>2
<1> QED
  BY <1>1, <1>3 DEF BackupInv, Consistent, NamesDiffer, OkMeansWhole, OkRows

LEMMA PlayInv ==
    ASSUME BackupInv, BackupTypeInv', Play
    PROVE  BackupInv'
<1>1. /\ Servers # {} /\ job' = Race(Copiers)
      /\ UNCHANGED <<db, proc, sess, disk, rows, second>>
  BY DEF Play
<1>2. BackupTypeOK /\ NoPid \notin Pids
  BY ConstantsAssumption DEF BackupInv, BackupTypeInv
<1>3. \A s \in Active : sess[s].pc \notin Quiet
  <2> SUFFICES ASSUME NEW s \in Active, sess[s].pc \in Quiet PROVE FALSE
    OBVIOUS
  <2>1. db.pid = NoPid /\ SerialKnows(sess[s])
    BY OneActive DEF JobKnows
  <2>2. sess[s].pc # "record_pid"
    BY DEF Quiet, Snapshotting
  <2> QED BY <1>1, <1>2, <2>1, <2>2 DEF SerialKnows, Servers
<1>4. Copiers = {}
  BY <1>3 DEF Copiers, Quiet, Snapshotting
<1>5. job' = job
  BY <1>1, <1>2, <1>4 DEF Race, BackupTypeOK
<1>6. \A s \in Active : SerialKnows(sess[s])'
  BY <1>1 DEF BackupInv, SerialKnows, Servers
<1>7. \A s \in Active : JobKnows(sess[s], job[s])'
  <2> SUFFICES ASSUME NEW s \in Active PROVE JobKnows(sess[s], job[s])'
    OBVIOUS
  <2>1. JobKnows(sess[s], job[s]) /\ sess[s].pc \notin Quiet
    BY <1>3, OneActive
  <2>2. sess[s].pc \notin {"snap_copy", "snap_commit", "rs_begin", "rs_copy"}
    BY <2>1 DEF Quiet, Snapshotting
  <2>3. Normals' = Normals /\ Outdated' = Outdated
    BY <1>1 DEF Outdated, Normals, OkRows
  <2> QED
    BY <1>1, <1>5, <2>1, <2>2, <2>3
       DEF JobKnows, SnapshotKnows, PruneKnows, RestoreKnows, Copied, Past, Newest
<1> QED
  BY <1>1, <1>5, <1>6, <1>7
     DEF BackupInv, Consistent, NamesDiffer, OkMeansWhole, OkRows, Past, Servers

LEMMA ArriveInv ==
    ASSUME Serial, BackupInv, BackupTypeInv', NEW s \in Sessions,
           NEW r \in BackupRequests, NEW target \in 1 .. MaxRow, BackupArrive(s, r, target)
    PROVE  BackupInv'
<1> DEFINE new == [IdleSession EXCEPT
               !.req = r, !.row = db,
               !.pc = IF r = "delete" THEN "del_files" ELSE "refresh",
               !.after = CASE r = "backup"  -> "bk_checked"
                           [] r = "gated"   -> "gate_checked"
                           [] r = "restore" -> "rs_checked"
                           [] r = "delete"  -> "idle"]
<1> DEFINE mine == [NoJob EXCEPT
               !.type = IF r = "restore" THEN "pre_restore" ELSE "normal",
               !.target = IF r \in {"restore", "delete"} THEN target ELSE 0,
               !.source = IF r = "delete" THEN rows[target].name ELSE @]
<1>1. /\ sess' = [sess EXCEPT ![s] = new] /\ job' = [job EXCEPT ![s] = mine]
      /\ db' = db /\ proc' = proc /\ bvars' = bvars
      /\ (r = "delete" => target \in DOMAIN rows)
  BY DEF BackupArrive
<1>2. Active = {}
  BY ArriveAlone DEF BackupArrive
<1>3. /\ sess \in [Sessions -> BackupSessions] /\ job \in [Sessions -> Jobs]
      /\ Servers \subseteq {db.pid} /\ Past(DOMAIN rows) /\ Consistent(db)
      /\ NamesDiffer /\ OkMeansWhole
  BY <1>2 DEF BackupInv, BackupTypeInv, BackupTypeOK, BackupSessions, SessionsOver
<1>4. /\ new.req = r /\ new.row = db
      /\ IF r = "delete" THEN new.pc = "del_files"
         ELSE new.pc = "refresh" /\ new.after \in Of(r) \cap Returns
  BY DEF IdleSession, Of, Returns, BackingUp, BackupRequests, BackupLabels, Restoring
<1>5. /\ mine.own = 0 /\ mine.was = FALSE
      /\ mine.type = IF r = "restore" THEN "pre_restore" ELSE "normal"
      /\ r = "delete" => mine.target = target /\ mine.source = rows[target].name
  BY DEF NoJob
<1> HIDE DEF new, mine
<1>6. /\ sess'[s] = new /\ job'[s] = mine
      /\ \A t \in Sessions \ {s} : sess'[t] = sess[t] /\ job'[t] = job[t]
  BY <1>1, <1>3
<1>7. SerialControl(new) /\ SerialKnows(sess[s])' /\ new.pc # "idle"
  <2>1. Servers' = Servers
    BY <1>1 DEF Servers
  <2>2. SerialControl(new) /\ new.pc # "idle"
    BY <1>4 DEF SerialControl, Targeting, Busy, Returns
  <2>3. new.pc \notin Targeting \cup {"clear_row", "mark_stopped", "start_checked",
                                    "spawn", "record_pid"}
    BY <1>4 DEF Targeting
  <2> QED BY <1>1, <1>3, <1>4, <1>6, <2>1, <2>2, <2>3 DEF SerialKnows
<1>8. JobControl(new, mine)
  BY <1>4, <1>5 DEF JobControl, Calls, Labels, Of, BackupLabels
<1>9. rows' = rows /\ second' = second /\ Past(DOMAIN rows)'
  BY <1>1, <1>3, SameData DEF Past
<1>10. JobKnows(sess[s], job[s])'
  <2>1. CASE r # "delete"
    BY <1>4, <1>5, <1>6, <1>9, <2>1, RestsThere DEF Labels
  <2>2. CASE r = "delete"
    <3>1. new.pc \notin Quiet \cup Owning
      BY <1>4, <2>2 DEF Quiet, Snapshotting, Owning
    <3> QED
      <4>1. Copied(sess[s], job[s])' = {}
        BY <1>4, <1>6, <2>2 DEF Copied
      <4> QED
        BY <1>1, <1>4, <1>5, <1>6, <1>9, <2>2, <3>1, <4>1
           DEF JobKnows, SnapshotKnows, PruneKnows, RestoreKnows
  <2> QED BY <2>1, <2>2
<1>11. Consistent(db)' /\ NamesDiffer' /\ OkMeansWhole'
  BY <1>1, <1>3, SameData DEF Consistent
<1>12. Settled(s)
  BY <1>6, <1>7, <1>8, <1>10, <1>11 DEF Settled
<1> QED BY <1>2, <1>12, SettledSuffices

----------------------------------------------------------------------------
(* One request at a time: the steps                                        *)

(* What a request of session s relies on at every label: whatever else is  *)
(* going on, the row and the server are its own.                           *)
Works(s) ==
    /\ Typed(BackupLabels, BackupRequests) /\ Consistent(db)
    /\ SerialControl(sess[s]) /\ SerialKnows(sess[s])
    /\ Calls(sess[s]) => sess[s].after \in Labels \cup Returns
    /\ sess[s].pc \in {"rs_copy", "rs_commit"} => Loaded(s)
    /\ sess[s].pc \in Quiet => db.pid = NoPid

LEMMA ActiveWorks == ASSUME BackupInv, NEW s \in Active PROVE Works(s)
BY OneActive DEF Works, JobControl, JobKnows

(* Where a session goes on that neither reads nor writes the server's row. *)
LEMMA WorksGoes ==
    ASSUME NEW s \in Sessions, Works(s), db' = db, proc' = proc,
           sess[s].pc \in BackupLabels \cup {"start_ret", "stop_ret"},
           NEW l,
           \/ l \in BackupLabels /\ (Goto(s, l) \/ GotoExpired(s, l))
           \/ l \in Returns \cup {"start_checked", "stop_checked"} /\ Refresh(s, l)
    PROVE  /\ \A t \in Sessions \ {s} : sess'[t] = sess[t]
           /\ sess'[s].req = sess[s].req /\ sess'[s].pc # "idle"
           /\ (Refresh(s, l) => sess'[s].pc = "refresh" /\ sess'[s].after = l)
           /\ (Goto(s, l) \/ GotoExpired(s, l) => sess'[s].pc = l)
           /\ Goto(s, l) => sess'[s].row = sess[s].row
           /\ SerialControl(sess'[s]) /\ SerialKnows(sess[s])' /\ Consistent(db)'
<1> DEFINE x == sess[s]
<1> DEFINE y == sess'[s]
<1>1. /\ Typed(BackupLabels, BackupRequests) /\ s \in Sessions
      /\ SerialControl(x) /\ SerialKnows(x) /\ Consistent(db)
      /\ sess \in [Sessions -> BackupSessions]
  BY DEF Works, Typed, BackupSessions
<1>2. Writes(s, x)
  BY <1>1, Updates
<1>3. /\ \A t \in Sessions \ {s} : sess'[t] = sess[t]
      /\ y.req = x.req /\ y.row \in {x.row, Expired}
      /\ y.pc \in BackupLabels \/ (y.pc = "refresh" /\ y.after = l)
      /\ (Refresh(s, l) => y.pc = "refresh" /\ y.after = l)
      /\ (Goto(s, l) \/ GotoExpired(s, l) => y.pc = l)
      /\ Goto(s, l) => y.row = x.row
  BY <1>1, <1>2 DEF Writes, Becomes, With
<1>4. y.pc \in BackupLabels \cup {"refresh"}
  BY <1>3
<1>5. y.pc # "idle" /\ x.pc # "record_pid"
  BY <1>4 DEF BackupLabels
<1>6. l \notin Busy
  BY LabelSets DEF Busy, Targeting, BackupLabels, Returns
<1>7. SerialControl(y)
  BY <1>3, <1>4, <1>6 DEF SerialControl, BackupLabels, Targeting
<1>8. y.pc \notin Targeting \cup {"clear_row", "mark_stopped", "start_checked",
                                  "spawn", "record_pid"}
  BY <1>4 DEF Targeting, BackupLabels
<1>9. Servers' = Servers
  BY DEF Servers
<1>10. SerialKnows(sess[s])'
  BY <1>1, <1>3, <1>5, <1>8, <1>9 DEF SerialKnows
<1> QED BY <1>1, <1>3, <1>5, <1>7, <1>10 DEF Consistent

LEMMA Goes ==
    ASSUME BackupInv, NEW s \in Active, db' = db, proc' = proc,
           sess[s].pc \in BackupLabels \cup {"start_ret", "stop_ret"},
           NEW l,
           \/ l \in BackupLabels /\ (Goto(s, l) \/ GotoExpired(s, l))
           \/ l \in Returns \cup {"start_checked", "stop_checked"} /\ Refresh(s, l)
    PROVE  /\ \A t \in Sessions \ {s} : sess'[t] = sess[t]
           /\ sess'[s].req = sess[s].req /\ sess'[s].pc # "idle"
           /\ (Refresh(s, l) => sess'[s].pc = "refresh" /\ sess'[s].after = l)
           /\ (Goto(s, l) \/ GotoExpired(s, l) => sess'[s].pc = l)
           /\ Goto(s, l) => sess'[s].row = sess[s].row
           /\ SerialControl(sess'[s]) /\ SerialKnows(sess[s])' /\ Consistent(db)'
BY ActiveWorks, WorksGoes

LEMMA SettledIf ==
    ASSUME BackupInv, NEW s \in Active, db' = db, proc' = proc,
           sess[s].pc \in BackupLabels \cup {"start_ret", "stop_ret"},
           NEW l,
           \/ l \in BackupLabels /\ (Goto(s, l) \/ GotoExpired(s, l))
           \/ l \in Returns \cup {"start_checked", "stop_checked"} /\ Refresh(s, l),
           \A t \in Sessions \ {s} : job'[t] = job[t],
           JobControl(sess'[s], job'[s]), JobKnows(sess[s], job[s])',
           NamesDiffer', OkMeansWhole'
    PROVE  Settled(s)
BY Goes DEF Settled

(* The labels of its own at which a backup knows nothing of its rows.      *)
LEMMA RestsHere ==
    ASSUME NEW s, sess'[s].pc \in {"snap_name", "bk_ret", "rs_ret", "del_row"},
           sess'[s].pc = "snap_name" => db'.pid = NoPid,
           sess'[s].pc # "rs_ret" => job'[s].own = 0,
           Past(DOMAIN rows)'
    PROVE  JobKnows(sess[s], job[s])'
<1>1. Copied(sess[s], job[s])' = {}
  BY DEF Copied
<1>2. sess'[s].pc \in Quiet => sess'[s].pc = "snap_name"
  BY DEF Quiet, Snapshotting
<1>3. sess'[s].pc \in Owning <=> sess'[s].pc = "rs_ret"
  BY DEF Owning
<1>4. sess'[s].pc \notin {"snap_insert", "snap_begin", "snap_copy", "snap_commit",
                          "snap_failed", "prune", "prune_commit", "bk_finally",
                          "rs_begin", "rs_copy", "del_files"}
  OBVIOUS
<1> QED
  BY <1>1, <1>2, <1>3, <1>4 DEF JobKnows, SnapshotKnows, PruneKnows, RestoreKnows

(* Outside a copy everything in the table is in the past.                  *)
LEMMA PastThen ==
    ASSUME BackupInv, NEW s \in Active, sess[s].pc \notin {"snap_begin", "snap_copy"}
    PROVE  Past(DOMAIN rows)
<1>1. Copied(sess[s], job[s]) = {}
  BY DEF Copied
<1> QED BY <1>1, OneActive DEF JobKnows

LEMMA PastStays ==
    ASSUME Past(DOMAIN rows), UNCHANGED bvars
    PROVE  Past(DOMAIN rows)'
BY SameData DEF Past

(* Which request a label belongs to.                                       *)
LEMMA Kinds ==
    ASSUME NEW r
    PROVE  /\ Snapshotting \cap Of(r) # {} => r \in {"backup", "gated", "restore"}
           /\ (BackingUp \ Snapshotting) \cap Of(r) # {} => r \in {"backup", "gated"}
           /\ (Restoring \ Snapshotting) \cap Of(r) # {} => r = "restore"
           /\ r \in {"backup", "gated"} => BackingUp \subseteq Of(r)
           /\ r = "restore" => Restoring \subseteq Of(r)
           /\ "gate_checked" \in Of(r) => r = "gated"
           /\ Of(r) \cap {"del_files", "del_row"} # {} =>
                 r = "delete" /\ {"del_files", "del_row"} \subseteq Of(r)
BY DEF Of, BackingUp, Restoring, Snapshotting, BackupLabels

(* A request stays on its own path.                                        *)
LEMMA StaysOn ==
    ASSUME NEW x, NEW y, NEW i, NEW j, JobControl(x, i),
           y.req = x.req, j.type = i.type,
           j.was => i.was \/ x.req \in {"backup", "gated"},
           \/ y.pc \in Of(x.req)
           \/ y.pc = "refresh" /\ y.after \in Labels \cup (Of(x.req) \cap Returns),
           y.pc \in {"rs_copy", "rs_commit"} => y.row # Expired,
           ~(j.was /\ y.pc = "bk_ret")
    PROVE  JobControl(y, j)
<1>1. y.pc \in Labels \cup Of(x.req)
  BY IdleTyped
<1>2. Calls(y) => y.pc = "refresh" /\ y.after \in Labels \cup (Of(x.req) \cap Returns)
  <2>1. CASE y.pc \in Of(x.req)
    <3>1. y.pc \notin Labels
      BY <2>1, LabelSets
    <3> QED BY <3>1 DEF Calls, Labels
  <2> QED BY <2>1 DEF Calls
<1> QED BY <1>1, <1>2 DEF JobControl

LEMMA SnapshotNameInv ==
    ASSUME BackupInv, NEW s \in Active, SnapshotName(s)
    PROVE  Settled(s)
<1> DEFINE x == sess[s]
<1>1. /\ job \in [Sessions -> Jobs] /\ JobControl(x, job[s]) /\ JobKnows(x, job[s])
      /\ NamesDiffer /\ OkMeansWhole
  BY OneActive
<1>2. x.pc = "snap_name" /\ db' = db /\ proc' = proc /\ bvars' = bvars
  BY DEF SnapshotName
<1>3. /\ job[s].own = 0 /\ db.pid = NoPid
      /\ x.req \in {"backup", "gated", "restore"} /\ Snapshotting \subseteq Of(x.req)
  <2>1. "snap_name" \in Snapshotting /\ "snap_name" \notin Owning \cup Labels
    BY DEF Snapshotting, Owning, Labels
  <2>2. Snapshotting \subseteq BackingUp \cap Restoring
    BY DEF BackingUp, Restoring
  <2> QED
    BY <1>1, <1>2, <2>1, <2>2, Kinds DEF JobControl, JobKnows, SnapshotKnows, Quiet
<1>4. /\ Past(DOMAIN rows)' /\ NamesDiffer' /\ OkMeansWhole' /\ second' = second
      /\ rows' = rows
  BY <1>1, <1>2, PastThen, PastStays, SameData
<1>5. CASE Goto(s, "snap_failed") /\ UNCHANGED job
  <2>1. /\ sess'[s].pc = "snap_failed" /\ sess'[s].req = x.req
        /\ \A t \in Sessions : job'[t] = job[t]
    BY <1>1, <1>2, <1>5, Goes, JobWrites, JobAfter DEF BackupLabels
  <2>2. JobControl(sess'[s], job'[s])
    BY <1>1, <1>3, <2>1, StaysOn DEF Snapshotting
  <2>3. JobKnows(sess[s], job[s])'
    BY <1>2, <1>3, <1>4, <2>1
       DEF JobKnows, SnapshotKnows, PruneKnows, RestoreKnows, Copied
  <2> QED BY <1>1, <1>2, <1>4, <1>5, <2>1, <2>2, <2>3, SettledIf DEF BackupLabels
<1>6. ASSUME NEW k \in 0 .. MaxSuffix, second < MaxSecond, Goto(s, "snap_insert"),
             Job(s, "name", <<second, k>>)
      PROVE  Settled(s)
  <2>1. sess'[s].pc = "snap_insert" /\ sess'[s].req = x.req
    BY <1>1, <1>2, <1>6, Goes DEF BackupLabels
  <2>2. /\ job'[s] = [job[s] EXCEPT !.name = <<second, k>>]
        /\ \A t \in Sessions \ {s} : job'[t] = job[t]
    BY <1>1, <1>6, JobWrites, JobAfter
  <2>3. /\ job'[s].name = <<second, k>> /\ job'[s].own = 0 /\ job'[s].type = job[s].type
        /\ job'[s].was = job[s].was
    BY <1>1, <1>3, <2>2 DEF Jobs
  <2>4. JobControl(sess'[s], job'[s])
    BY <1>1, <1>3, <2>1, <2>3, StaysOn DEF Snapshotting
  <2>5. JobKnows(sess[s], job[s])'
    BY <1>2, <1>3, <1>4, <1>6, <2>1, <2>3
       DEF JobKnows, SnapshotKnows, PruneKnows, RestoreKnows, Copied
  <2> QED BY <1>1, <1>2, <1>4, <1>6, <2>1, <2>2, <2>4, <2>5, SettledIf DEF BackupLabels
<1> QED
  BY <1>5, <1>6 DEF SnapshotName

(* A step that only moves on, to a label where nothing of the rows has to  *)
(* be known.                                                               *)
LEMMA MoveSettled ==
    ASSUME BackupInv, NEW s \in Active, db' = db, proc' = proc, bvars' = bvars,
           sess[s].pc \in BackupLabels \cup {"start_ret", "stop_ret"},
           sess[s].pc \notin {"snap_begin", "snap_copy"},
           NEW l,
           \/ l \in {"snap_name", "bk_ret", "rs_ret"} \cap Of(sess[s].req) /\ Goto(s, l)
           \/ /\ l \in (Of(sess[s].req) \cap Returns) \cup {"start_checked", "stop_checked"}
              /\ Refresh(s, l),
           l = "snap_name" => db.pid = NoPid,
           \A t \in Sessions \ {s} : job'[t] = job[t],
           l # "rs_ret" => job'[s].own = 0, job'[s].type = job[s].type,
           job'[s].was => job[s].was \/ sess[s].req \in {"backup", "gated"},
           ~(job'[s].was /\ l = "bk_ret")
    PROVE  Settled(s)
<1>1. JobControl(sess[s], job[s]) /\ NamesDiffer /\ OkMeansWhole
  BY OneActive
<1>2. Past(DOMAIN rows)' /\ NamesDiffer' /\ OkMeansWhole'
  BY <1>1, PastThen, PastStays, SameData
<1>3. CASE l \in {"snap_name", "bk_ret", "rs_ret"} \cap Of(sess[s].req) /\ Goto(s, l)
  <2>1. l \in BackupLabels /\ l \notin {"rs_copy", "rs_commit"}
    BY <1>3, LabelSets
  <2>2. sess'[s].pc = l /\ sess'[s].req = sess[s].req
    BY <1>3, <2>1, Goes
  <2>3. JobControl(sess'[s], job'[s])
    BY <1>1, <1>3, <2>1, <2>2, StaysOn
  <2>4. JobKnows(sess[s], job[s])'
    BY <1>2, <1>3, <2>2, RestsHere
  <2> QED BY <1>2, <1>3, <2>1, <2>3, <2>4, SettledIf
<1>4. CASE /\ l \in (Of(sess[s].req) \cap Returns) \cup {"start_checked", "stop_checked"}
           /\ Refresh(s, l)
  <2>1. l \in Returns \cup {"start_checked", "stop_checked"}
    BY <1>4
  <2>2. sess'[s].pc = "refresh" /\ sess'[s].after = l /\ sess'[s].req = sess[s].req
    BY <1>4, <2>1, Goes
  <2>3. l \in Labels \cup (Of(sess[s].req) \cap Returns) /\ l # "rs_ret"
    BY <1>4, IdleTyped DEF Labels, Returns
  <2>4. JobControl(sess'[s], job'[s])
    BY <1>1, <2>2, <2>3, StaysOn
  <2>5. JobKnows(sess[s], job[s])'
    BY <1>2, <2>2, <2>3, IdleTyped, RestsThere
  <2> QED BY <1>2, <1>4, <2>1, <2>4, <2>5, SettledIf
<1> QED BY <1>3, <1>4

(* Which request a session at a label of this module serves, and that it   *)
(* has no row of its own before it has inserted one.                       *)
LEMMA Serving ==
    ASSUME BackupInv, NEW s \in Active, sess[s].pc \in BackupLabels
    PROVE  /\ sess[s].pc \in Of(sess[s].req)
           /\ sess[s].pc \in BackingUp \ Snapshotting =>
                 sess[s].req \in {"backup", "gated"} /\ BackingUp \subseteq Of(sess[s].req)
           /\ sess[s].pc \in Restoring \ Snapshotting =>
                 sess[s].req = "restore" /\ Restoring \subseteq Of(sess[s].req)
           /\ sess[s].pc \notin Owning => job[s].own = 0
           /\ job[s] \in Jobs
           /\ Loaded(s) => sess[s].row = db
           /\ Loaded(s) /\ sess[s].row.status = "stopped" => db.pid = NoPid
           /\ db.pid \in Pids \cup {NoPid} /\ db.status \in {"stopped", "running"}
<1>1. /\ JobControl(sess[s], job[s]) /\ JobKnows(sess[s], job[s]) /\ SerialKnows(sess[s])
      /\ job[s] \in Jobs /\ Consistent(db) /\ Typed(BackupLabels, BackupRequests)
  BY OneActive
<1>2. sess[s].pc \in Of(sess[s].req)
  BY <1>1, LabelSets DEF JobControl
<1> QED
  BY <1>1, <1>2, Kinds
     DEF JobKnows, SnapshotKnows, SerialKnows, Consistent, Typed, Rows

LEMMA BackupCheckedInv ==
    ASSUME BackupInv, NEW s \in Active, BackupChecked(s)
    PROVE  Settled(s)
<1> DEFINE running == sess[s].row.status = "running"
<1>1. /\ sess[s].pc = "bk_checked" /\ db' = db /\ proc' = proc /\ bvars' = bvars
      /\ Loaded(s) /\ Job(s, "was", running)
      /\ IF running THEN Refresh(s, "stop_checked") ELSE Goto(s, "snap_name")
  BY DEF BackupChecked
<1>2. /\ sess[s].req \in {"backup", "gated"} /\ "snap_name" \in Of(sess[s].req)
      /\ job[s].own = 0 /\ job \in [Sessions -> Jobs]
      /\ (~running => db.pid = NoPid)
  <2>1. /\ "bk_checked" \in BackingUp \ Snapshotting /\ "bk_checked" \notin Owning
        /\ "bk_checked" \in BackupLabels /\ "snap_name" \in BackingUp
    BY DEF BackingUp, Snapshotting, Owning, BackupLabels
  <2> QED BY <1>1, <2>1, Serving, OneActive
<1> HIDE DEF running
<1>3. job'[s] = [job[s] EXCEPT !.was = running]
  BY <1>1, <1>2, JobWrites, JobAfter
<1>4. \A t \in Sessions \ {s} : job'[t] = job[t]
  BY <1>1, <1>2, JobWrites, JobAfter
<1>5. job'[s].own = 0 /\ job'[s].type = job[s].type
  BY <1>2, <1>3 DEF Jobs
<1>6. sess[s].pc \in BackupLabels
  BY <1>1 DEF BackupLabels
<1>7. CASE running
  BY <1>1, <1>2, <1>4, <1>5, <1>6, <1>7, MoveSettled
<1>8. CASE ~running
  BY <1>1, <1>2, <1>4, <1>5, <1>6, <1>8, MoveSettled
<1> QED BY <1>7, <1>8

LEMMA BackupConfirmedInv ==
    ASSUME BackupInv, NEW s \in Active, BackupConfirmed(s)
    PROVE  Settled(s)
<1>1. /\ sess[s].pc = "bk_confirmed" /\ db' = db /\ proc' = proc /\ bvars' = bvars
      /\ Loaded(s)
  BY DEF BackupConfirmed
<1>2. /\ sess[s].req \in {"backup", "gated"} /\ {"snap_name", "bk_ret"} \subseteq Of(sess[s].req)
      /\ job[s].own = 0 /\ job[s] \in Jobs /\ job \in [Sessions -> Jobs]
      /\ (sess[s].row.status = "stopped" => db.pid = NoPid)
  <2>1. /\ "bk_confirmed" \in BackingUp \ Snapshotting /\ "bk_confirmed" \notin Owning
        /\ "bk_confirmed" \in BackupLabels /\ {"snap_name", "bk_ret"} \subseteq BackingUp
    BY DEF BackingUp, Snapshotting, Owning, BackupLabels
  <2> QED BY <1>1, <2>1, Serving, OneActive
<1>3. sess[s].pc \in BackupLabels
  BY <1>1 DEF BackupLabels
<1>4. CASE sess[s].row.status = "stopped" /\ Goto(s, "snap_name") /\ UNCHANGED job
  BY <1>1, <1>2, <1>3, <1>4, MoveSettled
<1>5. CASE /\ Goto(s, "bk_ret")
           /\ job' = [job EXCEPT ![s] = [@ EXCEPT !.ok = FALSE, !.was = FALSE]]
  <2>1. /\ job'[s] = [job[s] EXCEPT !.ok = FALSE, !.was = FALSE]
        /\ \A t \in Sessions \ {s} : job'[t] = job[t]
    BY <1>2, <1>5
  <2>2. job'[s].own = 0 /\ job'[s].type = job[s].type /\ job'[s].was = FALSE
    BY <1>2, <2>1 DEF Jobs
  <2> QED BY <1>1, <1>2, <1>3, <1>5, <2>1, <2>2, MoveSettled
<1> QED BY <1>4, <1>5 DEF BackupConfirmed

LEMMA BackupFinallyInv ==
    ASSUME BackupInv, NEW s \in Active, BackupFinally(s)
    PROVE  Settled(s)
<1>1. /\ sess[s].pc = "bk_finally" /\ db' = db /\ proc' = proc /\ bvars' = bvars
      /\ Job(s, "own", 0)
      /\ IF job[s].was THEN Refresh(s, "start_checked") ELSE Goto(s, "bk_ret")
  BY DEF BackupFinally
<1>2. /\ sess[s].req \in {"backup", "gated"} /\ "bk_ret" \in Of(sess[s].req)
      /\ job[s] \in Jobs /\ job \in [Sessions -> Jobs]
  <2>1. /\ "bk_finally" \in BackingUp \ Snapshotting
        /\ "bk_finally" \in BackupLabels /\ "bk_ret" \in BackingUp
    BY DEF BackingUp, Snapshotting, BackupLabels
  <2> QED BY <1>1, <2>1, Serving, OneActive
<1>3. job'[s] = [job[s] EXCEPT !.own = 0]
  BY <1>1, <1>2, JobWrites, JobAfter
<1>4. \A t \in Sessions \ {s} : job'[t] = job[t]
  BY <1>1, <1>2, JobWrites, JobAfter
<1>5. job'[s].own = 0 /\ job'[s].type = job[s].type
  BY <1>2, <1>3 DEF Jobs
<1>6. job'[s].was => job[s].was
  BY <1>2, <1>3 DEF Jobs
<1>7. sess[s].pc \in BackupLabels
  BY <1>1 DEF BackupLabels
<1>8. CASE job[s].was
  BY <1>1, <1>2, <1>4, <1>5, <1>6, <1>7, <1>8, MoveSettled
<1>9. CASE ~job[s].was
  BY <1>1, <1>2, <1>4, <1>5, <1>6, <1>7, <1>9, MoveSettled
<1> QED BY <1>8, <1>9

LEMMA GateCheckedInv ==
    ASSUME BackupInv, NEW s \in Active, GateChecked(s)
    PROVE  Settled(s)
<1>1. /\ sess[s].pc = "gate_checked" /\ db' = db /\ proc' = proc /\ bvars' = bvars
      /\ job' = job
      /\ Refresh(s, "start_checked") \/ Refresh(s, "bk_checked")
  BY DEF GateChecked
<1>2. "gate_checked" \in BackupLabels /\ "gate_checked" \notin Owning
  BY DEF BackupLabels, Owning
<1>3. job[s].own = 0 /\ "bk_checked" \in Of(sess[s].req) \cap Returns
  BY <1>1, <1>2, Serving, Kinds DEF BackingUp, Returns
<1> QED BY <1>1, <1>2, <1>3, MoveSettled

LEMMA GateStartInv ==
    ASSUME BackupInv, NEW s \in Active, GateStart(s)
    PROVE  Settled(s)
<1>1. /\ sess[s].pc \in {"bk_ret", "start_ret"} /\ db' = db /\ proc' = proc
      /\ bvars' = bvars /\ Refresh(s, "start_checked") /\ Job(s, "was", FALSE)
  BY DEF GateStart
<1>2. job \in [Sessions -> Jobs] /\ JobKnows(sess[s], job[s])
  BY OneActive
<1>3. job[s].own = 0
  BY <1>1, <1>2 DEF JobKnows, SnapshotKnows, Owning
<1>4. job'[s] = [job[s] EXCEPT !.was = FALSE]
  BY <1>1, <1>2, JobWrites, JobAfter
<1>5. \A t \in Sessions \ {s} : job'[t] = job[t]
  BY <1>1, <1>2, JobWrites, JobAfter
<1>6. job'[s].own = 0 /\ job'[s].type = job[s].type /\ ~job'[s].was
  BY <1>2, <1>3, <1>4 DEF Jobs
<1>7. sess[s].pc \in BackupLabels \cup {"start_ret"}
  BY <1>1 DEF BackupLabels
<1> QED BY <1>1, <1>5, <1>6, <1>7, MoveSettled

LEMMA RestoreCheckedInv ==
    ASSUME BackupInv, NEW s \in Active, RestoreChecked(s)
    PROVE  Settled(s)
<1>1. /\ sess[s].pc = "rs_checked" /\ db' = db /\ proc' = proc /\ bvars' = bvars
      /\ job' = job /\ Loaded(s)
      /\ \/ sess[s].row.status = "stopped" /\ Goto(s, "snap_name")
         \/ Goto(s, "rs_ret")
  BY DEF RestoreChecked
<1>2. /\ "rs_checked" \in Restoring \ Snapshotting /\ "rs_checked" \notin Owning
      /\ "rs_checked" \in BackupLabels /\ {"snap_name", "rs_ret"} \subseteq Restoring
  BY DEF Restoring, Snapshotting, Owning, BackupLabels
<1>3. /\ {"snap_name", "rs_ret"} \subseteq Of(sess[s].req) /\ job[s].own = 0
      /\ (sess[s].row.status = "stopped" => db.pid = NoPid)
  BY <1>1, <1>2, Serving
<1> QED BY <1>1, <1>2, <1>3, MoveSettled

LEMMA BackupStoppedInv ==
    ASSUME BackupInv, NEW s \in Active, BackupStopped(s)
    PROVE  Settled(s)
<1> DEFINE x == sess[s]
<1> DEFINE y == [x EXCEPT !.pc = "refresh", !.pid = NoPid,
                          !.after = "bk_confirmed", !.back = "idle"]
<1>1. /\ x.pc = "stop_ret" /\ x.req \in {"backup", "gated"}
      /\ db' = db /\ proc' = proc /\ bvars' = bvars /\ job' = job
      /\ sess' = [sess EXCEPT ![s] = y]
  BY DEF BackupStopped
<1>2. /\ SerialControl(x) /\ SerialKnows(x) /\ JobControl(x, job[s]) /\ JobKnows(x, job[s])
      /\ Consistent(db) /\ NamesDiffer /\ OkMeansWhole
      /\ sess \in [Sessions -> BackupSessions] /\ s \in Sessions
  BY OneActive
<1>3. y.pc = "refresh" /\ y.after = "bk_confirmed" /\ y.req = x.req /\ y.row = x.row
  BY <1>2 DEF BackupSessions, SessionsOver
<1> HIDE DEF y
<1>4. sess'[s] = y /\ \A t \in Sessions \ {s} : sess'[t] = sess[t]
  BY <1>1, <1>2
<1>5. SerialControl(y) /\ SerialKnows(sess[s])' /\ y.pc # "idle"
  <2>1. Servers' = Servers
    BY <1>1 DEF Servers
  <2> QED
    BY <1>1, <1>2, <1>3, <1>4, <2>1 DEF SerialControl, SerialKnows, Targeting, Busy
<1>6. "bk_confirmed" \in Of(x.req) \cap Returns
  BY <1>1 DEF Of, Returns, BackingUp, BackupLabels
<1>7. JobControl(y, job[s])
  BY <1>2, <1>3, <1>6, StaysOn
<1>8. job[s].own = 0 /\ Past(DOMAIN rows)'
  BY <1>1, <1>2, AtRest, PastStays DEF Labels
<1>9. JobKnows(sess[s], job[s])'
  BY <1>1, <1>3, <1>4, <1>8, RestsThere DEF Labels
<1> QED
  BY <1>1, <1>2, <1>4, <1>5, <1>7, <1>9, SameData DEF Settled, Consistent

(* The end of a request.                                                   *)
LEMMA EndSettled ==
    ASSUME BackupInv, NEW s \in Active, sess' = [sess EXCEPT ![s] = IdleSession],
           job' = [job EXCEPT ![s] = NoJob], db' = db, proc' = proc,
           sess[s].pc # "record_pid", Past(DOMAIN rows)', NamesDiffer', OkMeansWhole'
    PROVE  Settled(s)
<1>1. /\ sess \in [Sessions -> BackupSessions] /\ job \in [Sessions -> Jobs]
      /\ s \in Sessions /\ SerialKnows(sess[s]) /\ Consistent(db)
  BY OneActive
<1>2. Servers' \subseteq {db'.pid}
  BY <1>1 DEF SerialKnows, Servers
<1>3. sess'[s].pc = "idle" /\ job'[s] = NoJob
  BY <1>1 DEF IdleSession
<1>4. \A t \in Sessions \ {s} : sess'[t] = sess[t] /\ job'[t] = job[t]
  BY <1>1
<1> QED BY <1>1, <1>2, <1>3, <1>4 DEF Settled, Consistent

LEMMA BackupAnswerInv ==
    ASSUME BackupInv, NEW s \in Active, BackupAnswer(s)
    PROVE  Settled(s)
<1>1. /\ sess' = [sess EXCEPT ![s] = IdleSession] /\ job' = [job EXCEPT ![s] = NoJob]
      /\ db' = db /\ proc' = proc /\ bvars' = bvars
      /\ sess[s].pc \in {"bk_ret", "start_ret", "rs_ret"}
  BY DEF BackupAnswer, Finished
<1>2. Past(DOMAIN rows)' /\ NamesDiffer' /\ OkMeansWhole'
  BY <1>1, PastThen, PastStays, SameData, OneActive
<1> QED BY <1>1, <1>2, EndSettled

LEMMA DeleteRowInv ==
    ASSUME BackupInv, NEW s \in Active, DeleteRow(s)
    PROVE  Settled(s)
<1>1. /\ sess' = [sess EXCEPT ![s] = IdleSession] /\ job' = [job EXCEPT ![s] = NoJob]
      /\ db' = db /\ proc' = proc /\ disk' = disk /\ second' = second
      /\ sess[s].pc = "del_row" /\ rows' = Without({job[s].target})
  BY DEF DeleteRow
<1>2. DOMAIN rows' \subseteq DOMAIN rows /\ \A i \in DOMAIN rows' : rows'[i] = rows[i]
  BY <1>1 DEF Without
<1>3. Past(DOMAIN rows) /\ NamesDiffer /\ OkMeansWhole
  BY <1>1, PastThen, OneActive
<1>4. Past(DOMAIN rows)'
  BY <1>1, <1>2, <1>3 DEF Past
<1>5. NamesDiffer'
  BY <1>2, <1>3 DEF NamesDiffer
<1>6. OkRows' \subseteq OkRows \cap DOMAIN rows'
  BY <1>2 DEF OkRows
<1>7. OkMeansWhole'
  BY <1>1, <1>2, <1>3, <1>6 DEF OkMeansWhole
<1> QED BY <1>1, <1>4, <1>5, <1>7, EndSettled

LEMMA DeleteFilesInv ==
    ASSUME BackupInv, NEW s \in Active, DeleteFiles(s)
    PROVE  Settled(s)
<1>1. /\ sess[s].pc = "del_files" /\ Goto(s, "del_row") /\ db' = db /\ proc' = proc
      /\ disk' = Erased({job[s].source}) /\ rows' = rows /\ second' = second
      /\ job' = job
  BY DEF DeleteFiles
<1>2. /\ "del_files" \in BackupLabels /\ "del_row" \in BackupLabels
      /\ "del_files" \notin Owning
  BY DEF BackupLabels, Owning
<1>3. job[s].own = 0 /\ "del_row" \in Of(sess[s].req)
  BY <1>1, <1>2, Serving, Kinds
<1>4. /\ JobControl(sess[s], job[s]) /\ NamesDiffer /\ OkMeansWhole /\ DataTyped
      /\ Past(DOMAIN rows)
  BY <1>1, OneActive, PastThen
<1>5. sess'[s].pc = "del_row" /\ sess'[s].req = sess[s].req
  BY <1>1, <1>2, Goes
<1>6. JobControl(sess'[s], job'[s])
  BY <1>1, <1>3, <1>4, <1>5, StaysOn
<1>7. Past(DOMAIN rows)'
  BY <1>1, <1>4 DEF Past
<1>8. JobKnows(sess[s], job[s])'
  BY <1>1, <1>3, <1>5, <1>7, RestsHere
<1>9. NamesDiffer'
  BY <1>1, <1>4 DEF NamesDiffer
<1>10. OkMeansWhole'
  BY <1>1, <1>4 DEF OkMeansWhole, OkRows, Erased, DataTyped, BackupRows
<1> QED BY <1>1, <1>2, <1>6, <1>8, <1>9, <1>10, SettledIf

(* What a session knows while it takes, prunes or restores a snapshot.     *)
LEMMA Snapshots ==
    ASSUME BackupInv, NEW s \in Active, sess[s].pc \in Snapshotting
    PROVE  /\ sess[s].pc \in BackupLabels /\ db.pid = NoPid
           /\ Snapshotting \subseteq Of(sess[s].req)
           /\ IF job[s].type = "normal" THEN BackingUp \subseteq Of(sess[s].req)
              ELSE job[s].type = "pre_restore" /\ Restoring \subseteq Of(sess[s].req)
<1>1. JobControl(sess[s], job[s]) /\ JobKnows(sess[s], job[s])
  BY OneActive
<1>2. sess[s].pc \in BackupLabels /\ sess[s].pc \in Quiet
  BY DEF Snapshotting, BackupLabels, Quiet
<1>3. sess[s].req \in {"backup", "gated", "restore"}
  BY <1>2, Serving, Kinds
<1>4. Snapshotting \subseteq BackingUp \cap Restoring
  BY DEF BackingUp, Restoring
<1> QED BY <1>1, <1>2, <1>3, <1>4, Kinds DEF JobControl, JobKnows

(* No row but its own names the directory that a snapshot is copied to.    *)
LEMMA OwnName ==
    ASSUME BackupInv, NEW s \in Active, sess[s].pc \in {"snap_begin", "snap_copy"}
    PROVE  /\ rows[job[s].own].name = job[s].name
           /\ job[s].own \in DOMAIN rows /\ job[s].own \notin OkRows
           /\ job[s].name \in Names
           /\ \A i \in DOMAIN rows \ {job[s].own} : rows[i].name # job[s].name
<1>1. DataTyped /\ JobKnows(sess[s], job[s]) /\ job[s] \in Jobs
  BY OneActive
<1>2. /\ rows[job[s].own].name = job[s].name /\ Newest(job[s].own)
      /\ rows[job[s].own].status = "in_progress" /\ job[s].name[1] = second
  BY <1>1 DEF JobKnows, SnapshotKnows
<1>3. \A i \in DOMAIN rows \ {job[s].own} : rows[i].name[1] < second
  BY <1>1 DEF JobKnows, Past, Copied
<1>4. \A n \in Names : n[1] \in Nat
  BY DEF Names
<1>5. second \in Nat /\ \A i \in DOMAIN rows : rows[i].name \in Names
  BY <1>1 DEF DataTyped, BackupRows
<1>6. \A i \in DOMAIN rows \ {job[s].own} : rows[i].name # job[s].name
  BY <1>2, <1>3, <1>4, <1>5
<1> QED BY <1>1, <1>2, <1>6 DEF Newest, OkRows, Jobs

LEMMA SnapshotBeginInv ==
    ASSUME BackupInv, NEW s \in Active, SnapshotBegin(s)
    PROVE  Settled(s)
<1> DEFINE x == sess[s]
<1> DEFINE j == job'[s]
<1>1. /\ x.pc = "snap_begin" /\ Goto(s, "snap_copy") /\ db' = db /\ proc' = proc
      /\ world' = world /\ rows' = rows /\ second' = second
      /\ disk' = [disk EXCEPT ![job[s].name] = IF @ = world THEN @ ELSE "torn"]
      /\ job' = [job EXCEPT ![s] = [@ EXCEPT !.seen = world, !.raced = FALSE]]
  BY DEF SnapshotBegin
<1>2. /\ JobControl(x, job[s]) /\ JobKnows(x, job[s]) /\ NamesDiffer /\ OkMeansWhole
      /\ job \in [Sessions -> Jobs] /\ DataTyped
  BY OneActive
<1>3. /\ x.pc \in BackupLabels /\ "snap_copy" \in Of(x.req) /\ db.pid = NoPid
  BY <1>1, Snapshots DEF Snapshotting
<1>4. \A t \in Sessions \ {s} : job'[t] = job[t]
  BY <1>1, <1>2
<1>5. /\ j.seen = world /\ j.own = job[s].own /\ j.type = job[s].type
      /\ j.name = job[s].name
  BY <1>1, <1>2 DEF Jobs
<1>6. (j.was => job[s].was) /\ ~j.raced
  BY <1>1, <1>2 DEF Jobs
<1>7. sess'[s].pc = "snap_copy" /\ sess'[s].req = x.req
  BY <1>1, <1>3, Goes DEF BackupLabels
<1>8. JobControl(sess'[s], j)
  BY <1>2, <1>3, <1>5, <1>6, <1>7, StaysOn
<1>9. JobKnows(sess[s], job[s])'
  BY <1>1, <1>2, <1>3, <1>5, <1>6, <1>7
     DEF JobKnows, SnapshotKnows, PruneKnows, RestoreKnows, Copied, Past, Newest, Owning
<1>10. NamesDiffer'
  BY <1>1, <1>2 DEF NamesDiffer
<1>11. OkMeansWhole'
  <2>1. OkRows' = OkRows /\ OkRows \subseteq DOMAIN rows
    BY <1>1 DEF OkRows
  <2>2. \A i \in OkRows : rows[i].name # job[s].name
    BY <1>1, <2>1, OwnName
  <2>3. \A i \in OkRows : disk'[rows[i].name] = disk[rows[i].name]
    BY <1>1, <1>2, <2>1, <2>2 DEF DataTyped, BackupRows
  <2> QED BY <1>1, <1>2, <2>1, <2>3 DEF OkMeansWhole
<1> QED
  BY <1>1, <1>3, <1>4, <1>8, <1>9, <1>10, <1>11, SettledIf DEF BackupLabels

LEMMA SnapshotCopyInv ==
    ASSUME BackupInv, NEW s \in Active, SnapshotCopy(s)
    PROVE  Settled(s)
<1> DEFINE x == sess[s]
<1> DEFINE j == job'[s]
<1>1. /\ x.pc = "snap_copy" /\ db' = db /\ proc' = proc
      /\ world' = world /\ rows' = rows /\ second' = Later
  BY DEF SnapshotCopy
<1>2. /\ JobControl(x, job[s]) /\ JobKnows(x, job[s]) /\ NamesDiffer /\ OkMeansWhole
      /\ job \in [Sessions -> Jobs] /\ DataTyped /\ BackupTypeOK
  BY OneActive DEF BackupInv, BackupTypeInv
<1>3. /\ x.pc \in BackupLabels /\ {"snap_commit", "snap_failed"} \subseteq Of(x.req)
      /\ db.pid = NoPid
  BY <1>1, Snapshots DEF Snapshotting
<1>4. /\ job[s].name[1] = second /\ second < MaxSecond /\ Newest(job[s].own)
      /\ rows[job[s].own].name = job[s].name
      /\ rows[job[s].own].status = "in_progress" /\ rows[job[s].own].type = job[s].type
      /\ job[s].seen = world /\ ~job[s].raced
  BY <1>1, <1>2 DEF JobKnows, SnapshotKnows
<1>5. Past(DOMAIN rows)'
  <2>1. second' = second + 1 /\ second \in Nat
    BY <1>1, <1>2, <1>4, BackupAssumption DEF Later, DataTyped
  <2>2. \A i \in DOMAIN rows : rows[i].name[1] \in Nat
    BY <1>2 DEF DataTyped, BackupRows, Names
  <2>3. \A i \in DOMAIN rows : rows[i].name[1] <= second
    BY <1>1, <1>2, <1>4, <2>1, <2>2 DEF JobKnows, Past, Copied
  <2> QED BY <1>1, <2>1, <2>2, <2>3 DEF Past
<1>6. NamesDiffer'
  BY <1>1, <1>2 DEF NamesDiffer
<1>7. /\ OkRows' = OkRows /\ OkRows \subseteq DOMAIN rows
      /\ \A i \in OkRows : rows[i].name # job[s].name
  <2>1. OkRows' = OkRows /\ OkRows \subseteq DOMAIN rows
    BY <1>1 DEF OkRows
  <2> QED BY <1>1, <2>1, OwnName
<1>8. ASSUME NEW ok \in BOOLEAN, CopyEnded(s, ok)
      PROVE  /\ \A t \in Sessions \ {s} : job'[t] = job[t]
             /\ j.own = job[s].own /\ j.type = job[s].type
             /\ (j.was => job[s].was) /\ (j.ok <=> ok)
  <2>1. j = [job[s] EXCEPT !.ok = ok, !.name = <<0, 0>>, !.seen = "absent", !.raced = FALSE]
    BY <1>2, <1>8 DEF CopyEnded
  <2>2. \A t \in Sessions \ {s} : job'[t] = job[t]
    BY <1>2, <1>8 DEF CopyEnded
  <2>3. j.own = job[s].own /\ j.type = job[s].type
    BY <1>2, <2>1 DEF Jobs
  <2>4. j.was => job[s].was
    BY <1>2, <2>1 DEF Jobs
  <2>5. j.ok <=> ok
    BY <1>2, <2>1 DEF Jobs
  <2> QED BY <2>2, <2>3, <2>4, <2>5
<1>9. CASE /\ Goto(s, "snap_commit")
           /\ disk' = [disk EXCEPT ![job[s].name] = IF job[s].raced THEN "torn" ELSE job[s].seen]
           /\ CopyEnded(s, job[s].ok)
  <2>1. job[s].ok \in BOOLEAN
    BY <1>2 DEF Jobs
  <2>2. /\ \A t \in Sessions \ {s} : job'[t] = job[t]
        /\ j.own = job[s].own /\ j.type = job[s].type /\ (j.was => job[s].was)
    BY <1>8, <1>9, <2>1
  <2>3. sess'[s].pc = "snap_commit" /\ sess'[s].req = x.req
    BY <1>1, <1>3, <1>9, Goes DEF BackupLabels
  <2>4. JobControl(sess'[s], j)
    BY <1>2, <1>3, <2>2, <2>3, StaysOn
  <2>5. disk' = [disk EXCEPT ![job[s].name] = world] /\ disk'[job[s].name] = world
    <3>1. job[s].name \in DOMAIN disk
      BY <1>1, <1>2, OwnName DEF DataTyped
    <3>2. disk' = [disk EXCEPT ![job[s].name] = world]
      BY <1>4, <1>9
    <3> QED BY <3>1, <3>2
  <2>6. JobKnows(sess[s], job[s])'
    <3>1. Copied(sess[s], job[s])' = {}
      BY <2>3 DEF Copied
    <3>2. Newest(job[s].own)'
      BY <1>1, <1>4, <2>2 DEF Newest
    <3> QED
      BY <1>1, <1>3, <1>4, <1>5, <2>2, <2>3, <2>5, <3>1, <3>2
         DEF JobKnows, SnapshotKnows, PruneKnows, RestoreKnows, Owning
  <2>7. OkMeansWhole'
    <3>1. \A i \in OkRows : disk'[rows[i].name] = disk[rows[i].name]
      BY <1>2, <1>7, <2>5 DEF DataTyped, BackupRows
    <3> QED BY <1>1, <1>2, <1>7, <3>1 DEF OkMeansWhole
  <2> QED
    BY <1>1, <1>3, <1>6, <1>9, <2>2, <2>4, <2>6, <2>7, SettledIf DEF BackupLabels
<1>10. CASE Goto(s, "snap_failed") /\ CopyEnded(s, FALSE) /\ UNCHANGED disk
  <2>1. /\ \A t \in Sessions \ {s} : job'[t] = job[t]
        /\ j.own = job[s].own /\ j.type = job[s].type /\ (j.was => job[s].was) /\ ~j.ok
    BY <1>8, <1>10
  <2>2. sess'[s].pc = "snap_failed" /\ sess'[s].req = x.req
    BY <1>1, <1>3, <1>10, Goes DEF BackupLabels
  <2>3. JobControl(sess'[s], j)
    BY <1>2, <1>3, <2>1, <2>2, StaysOn
  <2>4. JobKnows(sess[s], job[s])'
    <3>1. Copied(sess[s], job[s])' = {}
      BY <2>2 DEF Copied
    <3>2. j.own \in DOMAIN rows'
      BY <1>1, <1>4, <2>1 DEF Newest
    <3> QED
      BY <1>1, <1>3, <1>5, <2>1, <2>2, <3>1, <3>2
         DEF JobKnows, SnapshotKnows, PruneKnows, RestoreKnows, Owning
  <2>5. OkMeansWhole'
    BY <1>1, <1>2, <1>7, <1>10 DEF OkMeansWhole
  <2> QED
    BY <1>1, <1>3, <1>6, <1>10, <2>1, <2>3, <2>4, <2>5, SettledIf DEF BackupLabels
<1> QED BY <1>9, <1>10 DEF SnapshotCopy

LEMMA SnapshotInsertInv ==
    ASSUME BackupInv, NEW s \in Active, SnapshotInsert(s)
    PROVE  Settled(s)
<1> DEFINE x == sess[s]
<1> DEFINE j == job'[s]
<1> DEFINE r == [name |-> job[s].name, type |-> job[s].type, status |-> "in_progress"]
<1>1. /\ x.pc = "snap_insert" /\ GotoExpired(s, "snap_begin") /\ db' = db /\ proc' = proc
      /\ world' = world /\ disk' = disk /\ second' = second /\ NewId <= MaxRow
      /\ rows' = [i \in DOMAIN rows \cup {NewId} |-> IF i = NewId THEN r ELSE rows[i]]
      /\ Job(s, "own", NewId)
  BY DEF SnapshotInsert
<1>2. /\ JobControl(x, job[s]) /\ JobKnows(x, job[s]) /\ NamesDiffer /\ OkMeansWhole
      /\ job \in [Sessions -> Jobs] /\ DataTyped
  BY OneActive
<1>3. /\ x.pc \in BackupLabels /\ "snap_begin" \in Of(x.req) /\ db.pid = NoPid
  BY <1>1, Snapshots DEF Snapshotting
<1>4. NewId \in 1 .. MaxRow /\ \A i \in DOMAIN rows : i < NewId
  BY <1>1, <1>2, NewIdFresh DEF DataTyped
<1>5. j = [job[s] EXCEPT !.own = NewId]
  BY <1>1, <1>2, JobWrites, JobAfter
<1>6. \A t \in Sessions \ {s} : job'[t] = job[t]
  BY <1>1, <1>2, JobWrites, JobAfter
<1>7. j.own = NewId /\ j.type = job[s].type /\ j.name = job[s].name
  BY <1>2, <1>5 DEF Jobs
<1>8. j.was => job[s].was
  BY <1>2, <1>5 DEF Jobs
<1>9. sess'[s].pc = "snap_begin" /\ sess'[s].req = x.req
  BY <1>1, <1>3, Goes DEF BackupLabels
<1>10. JobControl(sess'[s], j)
  BY <1>2, <1>3, <1>7, <1>8, <1>9, StaysOn
<1> HIDE DEF r, j
<1>11. /\ DOMAIN rows' = DOMAIN rows \cup {NewId} /\ rows'[NewId] = r
       /\ NewId \notin DOMAIN rows /\ \A i \in DOMAIN rows : rows'[i] = rows[i]
  BY <1>1, <1>2, <1>4 DEF DataTyped
<1>12. r.name = job[s].name /\ r.type = job[s].type /\ r.status = "in_progress"
  BY DEF r
<1>13. job[s].name[1] = second /\ second < MaxSecond
  BY <1>1, <1>2 DEF JobKnows, SnapshotKnows
<1>14. \A i \in DOMAIN rows : rows[i].name[1] < second
  BY <1>1, PastThen DEF Past
<1>15. JobKnows(sess[s], job[s])'
  <2>1. Newest(job[s].own)'
    <3>1. \A i \in DOMAIN rows' : i <= NewId
      BY <1>2, <1>4, <1>11, BackupAssumption DEF DataTyped
    <3> QED BY <1>7, <1>11, <3>1 DEF Newest, j
  <2>2. Past(DOMAIN rows \ Copied(sess[s], job[s]))'
    BY <1>1, <1>7, <1>9, <1>11, <1>14 DEF Past, Copied, j
  <2>3. SnapshotKnows(sess[s], job[s])'
    BY <1>1, <1>7, <1>9, <1>11, <1>12, <1>13, <2>1 DEF SnapshotKnows, Owning, j
  <2> QED
    BY <1>1, <1>3, <1>9, <2>2, <2>3 DEF JobKnows, PruneKnows, RestoreKnows
<1>16. NamesDiffer'
  <2>1. second \in Nat /\ \A i \in DOMAIN rows : rows[i].name[1] \in Nat
    BY <1>2 DEF DataTyped, BackupRows, Names
  <2>2. \A i \in DOMAIN rows : rows[i].name # job[s].name
    BY <1>13, <1>14, <2>1
  <2> QED BY <1>2, <1>11, <1>12, <2>2 DEF NamesDiffer
<1>17. OkMeansWhole'
  <2>1. \A i \in OkRows' : i \in OkRows /\ rows'[i] = rows[i]
    BY <1>11, <1>12 DEF OkRows
  <2> QED BY <1>1, <1>2, <2>1 DEF OkMeansWhole
<1>18. "snap_begin" \in BackupLabels
  BY DEF BackupLabels
<1> QED
  BY <1>1, <1>3, <1>6, <1>10, <1>15, <1>16, <1>17, <1>18, SettledIf DEF j

(* The row of the snapshot becomes ok or failed.                           *)
LEMMA StatusKeeps ==
    ASSUME BackupInv, NEW s \in Active, NEW i \in DOMAIN rows, NEW v \in {"ok", "failed"},
           v = "ok" => disk[rows[i].name] # "torn",
           rows' = [rows EXCEPT ![i].status = v], disk' = disk, second' = second,
           sess[s].pc \notin {"snap_begin", "snap_copy"}
    PROVE  /\ DOMAIN rows' = DOMAIN rows
           /\ \A k \in DOMAIN rows : /\ rows'[k].name = rows[k].name
                                     /\ rows'[k].type = rows[k].type
                                     /\ rows'[k].status = IF k = i THEN v ELSE rows[k].status
           /\ Past(DOMAIN rows)' /\ NamesDiffer' /\ OkMeansWhole'
<1>1. DataTyped /\ NamesDiffer /\ OkMeansWhole /\ Past(DOMAIN rows)
  BY OneActive, PastThen
<1>2. /\ DOMAIN rows' = DOMAIN rows
      /\ \A k \in DOMAIN rows : /\ rows'[k].name = rows[k].name
                                /\ rows'[k].type = rows[k].type
                                /\ rows'[k].status = IF k = i THEN v ELSE rows[k].status
  BY <1>1, StatusTyped
<1>3. Past(DOMAIN rows)' /\ NamesDiffer'
  BY <1>1, <1>2 DEF Past, NamesDiffer
<1>4. OkMeansWhole'
  BY <1>1, <1>2 DEF OkMeansWhole, OkRows
<1> QED BY <1>2, <1>3, <1>4

LEMMA SnapshotCommitInv ==
    ASSUME BackupInv, NEW s \in Active, SnapshotCommit(s)
    PROVE  Settled(s)
<1> DEFINE x == sess[s]
<1> DEFINE own == job[s].own
<1>1. /\ x.pc \in {"snap_commit", "snap_failed"} /\ db' = db /\ proc' = proc
      /\ world' = world /\ disk' = disk /\ second' = second
  BY DEF SnapshotCommit
<1>2. /\ JobControl(x, job[s]) /\ JobKnows(x, job[s]) /\ NamesDiffer /\ OkMeansWhole
      /\ job \in [Sessions -> Jobs] /\ DataTyped /\ BackupTypeOK
  BY OneActive DEF BackupInv, BackupTypeInv
<1>3. /\ x.pc \in Snapshotting /\ x.pc \in BackupLabels
  BY <1>1 DEF Snapshotting, BackupLabels
<1>4. /\ db.pid = NoPid
      /\ IF job[s].type = "normal" THEN BackingUp \subseteq Of(x.req)
         ELSE job[s].type = "pre_restore" /\ Restoring \subseteq Of(x.req)
  BY <1>3, Snapshots
<1>5. CASE /\ x.pc = "snap_commit" /\ own \in DOMAIN rows
           /\ rows' = [rows EXCEPT ![own].status = "ok"]
           /\ GotoExpired(s, IF job[s].type = "normal" THEN "prune" ELSE "rs_begin")
           /\ UNCHANGED job
  <2>1. /\ Newest(own) /\ rows[own].type = job[s].type /\ disk[rows[own].name] = world
    BY <1>2, <1>5 DEF JobKnows, SnapshotKnows
  <2>2. disk[rows[own].name] # "torn"
    BY <1>2, <2>1, BackupAssumption DEF DataTyped
  <2>3. /\ DOMAIN rows' = DOMAIN rows
        /\ \A k \in DOMAIN rows : /\ rows'[k].name = rows[k].name
                                  /\ rows'[k].type = rows[k].type
                                  /\ rows'[k].status = IF k = own THEN "ok" ELSE rows[k].status
        /\ Past(DOMAIN rows)' /\ NamesDiffer' /\ OkMeansWhole'
    BY <1>1, <1>5, <2>2, StatusKeeps
  <2>4. /\ Newest(own)' /\ own \in OkRows' /\ rows'[own].type = job[s].type
        /\ disk'[rows'[own].name] = world'
    BY <1>1, <1>5, <2>1, <2>3 DEF Newest, OkRows
  <2>5. CASE job[s].type = "normal"
    <3>1. sess'[s].pc = "prune" /\ sess'[s].req = x.req
      BY <1>1, <1>3, <1>5, <2>5, Goes DEF BackupLabels
    <3>2. "prune" \in Of(x.req)
      BY <1>4, <2>5 DEF BackingUp
    <3>3. JobControl(sess'[s], job'[s])
      BY <1>2, <1>5, <3>1, <3>2, StaysOn
    <3>4. own \in Normals'
      BY <2>4, <2>5 DEF Normals
    <3>5. JobKnows(sess[s], job[s])'
      <4>1. Copied(sess[s], job[s])' = {}
        BY <3>1 DEF Copied
      <4> QED
        BY <1>1, <1>4, <1>5, <2>3, <2>4, <3>1, <3>4, <4>1
           DEF JobKnows, SnapshotKnows, PruneKnows, RestoreKnows, Owning
    <3> QED
      BY <1>1, <1>3, <1>5, <2>3, <2>5, <3>3, <3>5, SettledIf DEF BackupLabels
  <2>6. CASE job[s].type # "normal"
    <3>1. sess'[s].pc = "rs_begin" /\ sess'[s].req = x.req
      BY <1>1, <1>3, <1>5, <2>6, Goes DEF BackupLabels
    <3>2. "rs_begin" \in Of(x.req) /\ job[s].type = "pre_restore"
      BY <1>4, <2>6 DEF Restoring
    <3>3. JobControl(sess'[s], job'[s])
      BY <1>2, <1>5, <3>1, <3>2, StaysOn
    <3>4. JobKnows(sess[s], job[s])'
      <4>1. Copied(sess[s], job[s])' = {}
        BY <3>1 DEF Copied
      <4> QED
        BY <1>1, <1>4, <1>5, <2>3, <2>4, <3>1, <3>2, <4>1
           DEF JobKnows, SnapshotKnows, PruneKnows, RestoreKnows, Owning
    <3> QED
      BY <1>1, <1>3, <1>5, <2>3, <2>6, <3>3, <3>4, SettledIf DEF BackupLabels
  <2> QED BY <2>5, <2>6
<1>6. ASSUME x.pc = "snap_failed", job'[s].own = own, job'[s].type = job[s].type,
             job'[s].was => job[s].was, ~job'[s].ok,
             \A t \in Sessions \ {s} : job'[t] = job[t],
             NEW l, l = IF job[s].type = "normal" THEN "bk_finally" ELSE "rs_ret",
             Goto(s, l) \/ GotoExpired(s, l),
             Past(DOMAIN rows)', NamesDiffer', OkMeansWhole'
      PROVE  Settled(s)
  <2>1. l \in BackupLabels /\ l \in Of(x.req) /\ l \in {"bk_finally", "rs_ret"}
    BY <1>4, <1>6 DEF BackupLabels, BackingUp, Restoring
  <2>2. sess'[s].pc = l /\ sess'[s].req = x.req
    BY <1>1, <1>3, <1>6, <2>1, Goes
  <2>3. JobControl(sess'[s], job'[s])
    BY <1>2, <1>6, <2>1, <2>2, StaysOn
  <2>4. JobKnows(sess[s], job[s])'
    <3>1. Copied(sess[s], job[s])' = {}
      BY <2>1, <2>2 DEF Copied
    <3>2. l \notin Quiet /\ l \in Owning
      BY <2>1 DEF Quiet, Owning, Snapshotting
    <3> QED
      BY <1>6, <2>1, <2>2, <3>1, <3>2
         DEF JobKnows, SnapshotKnows, PruneKnows, RestoreKnows
  <2> QED BY <1>1, <1>3, <1>6, <2>1, <2>3, <2>4, SettledIf
<1>7. CASE /\ x.pc = "snap_failed" /\ own \in DOMAIN rows
           /\ rows' = [rows EXCEPT ![own].status = "failed"]
           /\ GotoExpired(s, IF job[s].type = "normal" THEN "bk_finally" ELSE "rs_ret")
           /\ UNCHANGED job
  <2>1. Past(DOMAIN rows)' /\ NamesDiffer' /\ OkMeansWhole'
    BY <1>1, <1>7, StatusKeeps
  <2>2. ~job[s].ok
    BY <1>2, <1>7, BackupAssumption DEF JobKnows, SnapshotKnows, DataTyped
  <2> QED BY <1>6, <1>7, <2>1, <2>2
<1>8. CASE /\ x.pc = "snap_failed" /\ own = 0
           /\ Goto(s, IF job[s].type = "normal" THEN "bk_finally" ELSE "rs_ret")
           /\ Job(s, "ok", FALSE) /\ UNCHANGED rows
  <2>1. bvars' = bvars
    BY <1>1, <1>8 DEF bvars
  <2>2. Past(DOMAIN rows)' /\ NamesDiffer' /\ OkMeansWhole'
    BY <1>1, <1>2, <2>1, PastThen, PastStays, SameData
  <2>3. job'[s] = [job[s] EXCEPT !.ok = FALSE]
    BY <1>2, <1>8, JobWrites, JobAfter
  <2>4. \A t \in Sessions \ {s} : job'[t] = job[t]
    BY <1>2, <1>8, JobWrites, JobAfter
  <2>5. job'[s].own = own /\ job'[s].type = job[s].type
    BY <1>2, <2>3 DEF Jobs
  <2>6. (job'[s].was => job[s].was) /\ ~job'[s].ok
    BY <1>2, <2>3 DEF Jobs
  <2> QED BY <1>6, <1>8, <2>2, <2>4, <2>5, <2>6
<1>9. own \in DOMAIN rows \cup {0}
  BY <1>1, <1>2 DEF JobKnows, SnapshotKnows, Newest
<1> QED BY <1>5, <1>7, <1>8, <1>9 DEF SnapshotCommit

(* Retention: whatever is not outdated is at most Keep generations, for    *)
(* above the oldest of them there are fewer than Keep.                     *)
LEMMA KeepsFew ==
    ASSUME DOMAIN rows \subseteq 1 .. MaxRow
    PROVE  Cardinality(Normals \ Outdated) <= Keep
<1> DEFINE R == Normals \ Outdated
<1>1. Normals \subseteq DOMAIN rows /\ IsFiniteSet(1 .. MaxRow)
  BY FS_Interval, BackupAssumption DEF Normals, OkRows
<1>2. IsFiniteSet(Normals) /\ IsFiniteSet(R)
  BY <1>1, FS_Subset
<1>3. CASE R = {}
  BY <1>3, FS_EmptySet, BackupAssumption
<1>4. CASE R # {}
  <2>1. R \subseteq Nat
    BY <1>1, BackupAssumption
  <2>2. PICK m \in R : \A i \in R : m <= i
    BY <1>4, <2>1, LeastNatural
  <2> DEFINE above == {j \in Normals : j > m}
  <2>3. IsFiniteSet(above) /\ Cardinality(above) \in Nat
    BY <1>2, FS_Subset, FS_CardinalityType
  <2>4. ~(Cardinality(above) >= Keep)
    BY <2>2 DEF Outdated
  <2>5. m \notin above
    BY <2>1, <2>2
  <2>6. /\ IsFiniteSet(above \cup {m})
        /\ Cardinality(above \cup {m}) = Cardinality(above) + 1
    BY <2>3, <2>5, FS_AddElement
  <2>7. R \subseteq above \cup {m}
    BY <2>1, <2>2
  <2>8. Cardinality(R) <= Cardinality(above \cup {m})
    BY <2>6, <2>7, FS_Subset
  <2>9. Cardinality(R) \in Nat
    BY <1>2, FS_CardinalityType
  <2> QED BY <2>3, <2>4, <2>6, <2>8, <2>9, BackupAssumption
<1> QED BY <1>3, <1>4

LEMMA NewestStays ==
    ASSUME DOMAIN rows \subseteq 1 .. MaxRow, NEW i \in Normals, Newest(i)
    PROVE  i \notin Outdated
<1>1. {j \in Normals : j > i} = {}
  BY BackupAssumption DEF Newest, Normals, OkRows
<1> QED BY <1>1, FS_EmptySet, BackupAssumption DEF Outdated

LEMMA PruneFilesInv ==
    ASSUME BackupInv, NEW s \in Active, PruneFiles(s)
    PROVE  Settled(s)
<1>1. /\ sess[s].pc = "prune" /\ Goto(s, "prune_commit") /\ db' = db /\ proc' = proc
      /\ world' = world /\ rows' = rows /\ second' = second
      /\ disk' = Erased({rows[i].name : i \in Outdated}) /\ Job(s, "victims", Outdated)
  BY DEF PruneFiles
<1>2. /\ JobControl(sess[s], job[s]) /\ JobKnows(sess[s], job[s])
      /\ NamesDiffer /\ OkMeansWhole /\ job \in [Sessions -> Jobs] /\ DataTyped
      /\ Past(DOMAIN rows)
  BY <1>1, OneActive, PastThen
<1>3. /\ sess[s].pc \in BackupLabels /\ "prune_commit" \in BackupLabels
      /\ sess[s].pc \in BackingUp \ Snapshotting
      /\ "prune_commit" \in BackingUp
  BY <1>1 DEF BackupLabels, BackingUp, Snapshotting
<1>4. "prune_commit" \in Of(sess[s].req)
  BY <1>3, Serving
<1>5. job'[s] = [job[s] EXCEPT !.victims = Outdated]
  BY <1>1, <1>2, JobWrites, JobAfter
<1>6. \A t \in Sessions \ {s} : job'[t] = job[t]
  BY <1>1, <1>2, JobWrites, JobAfter
<1>7. /\ job'[s].own = job[s].own /\ job'[s].type = job[s].type
      /\ job'[s].victims = Outdated
  BY <1>2, <1>5 DEF Jobs
<1>8. job'[s].was => job[s].was
  BY <1>2, <1>5 DEF Jobs
<1>9. sess'[s].pc = "prune_commit" /\ sess'[s].req = sess[s].req
  BY <1>1, <1>3, Goes
<1>10. JobControl(sess'[s], job'[s])
  BY <1>2, <1>4, <1>7, <1>8, <1>9, StaysOn
<1>11. Normals' = Normals /\ Outdated' = Outdated /\ OkRows' = OkRows
  BY <1>1 DEF Normals, Outdated, OkRows
<1>12. db.pid = NoPid /\ Newest(job[s].own) /\ job[s].own \in Normals
  BY <1>1, <1>2 DEF JobKnows, PruneKnows, Quiet
<1>13. JobKnows(sess[s], job[s])'
  <2>1. Copied(sess[s], job[s])' = {} /\ Past(DOMAIN rows)'
    BY <1>1, <1>2, <1>9 DEF Copied, Past
  <2>2. Newest(job[s].own)'
    BY <1>1, <1>7, <1>12 DEF Newest
  <2> QED
    BY <1>1, <1>7, <1>9, <1>11, <1>12, <2>1, <2>2
       DEF JobKnows, SnapshotKnows, PruneKnows, RestoreKnows, Owning
<1>14. NamesDiffer'
  BY <1>1, <1>2 DEF NamesDiffer
<1>15. OkMeansWhole'
  BY <1>1, <1>2, <1>11 DEF OkMeansWhole, OkRows, Erased, DataTyped, BackupRows
<1> QED BY <1>1, <1>3, <1>6, <1>10, <1>13, <1>14, <1>15, SettledIf

LEMMA PruneCommitInv ==
    ASSUME BackupInv, NEW s \in Active, PruneCommit(s)
    PROVE  Settled(s)
<1>1. /\ sess[s].pc = "prune_commit" /\ GotoExpired(s, "bk_finally")
      /\ db' = db /\ proc' = proc /\ world' = world /\ disk' = disk /\ second' = second
      /\ rows' = Without(job[s].victims) /\ Job(s, "victims", {})
  BY DEF PruneCommit
<1>2. /\ JobControl(sess[s], job[s]) /\ JobKnows(sess[s], job[s])
      /\ NamesDiffer /\ OkMeansWhole /\ job \in [Sessions -> Jobs] /\ DataTyped
      /\ Past(DOMAIN rows)
  BY <1>1, OneActive, PastThen
<1>3. /\ sess[s].pc \in BackupLabels /\ "bk_finally" \in BackupLabels
      /\ sess[s].pc \in BackingUp \ Snapshotting
      /\ "bk_finally" \in BackingUp
  BY <1>1 DEF BackupLabels, BackingUp, Snapshotting
<1>4. "bk_finally" \in Of(sess[s].req)
  BY <1>3, Serving
<1>5. job'[s] = [job[s] EXCEPT !.victims = {}]
  BY <1>1, <1>2, JobWrites, JobAfter
<1>6. \A t \in Sessions \ {s} : job'[t] = job[t]
  BY <1>1, <1>2, JobWrites, JobAfter
<1>7. job'[s].own = job[s].own /\ job'[s].type = job[s].type
  BY <1>2, <1>5 DEF Jobs
<1>8. job'[s].was => job[s].was
  BY <1>2, <1>5 DEF Jobs
<1>9. sess'[s].pc = "bk_finally" /\ sess'[s].req = sess[s].req
  BY <1>1, <1>3, Goes
<1>10. JobControl(sess'[s], job'[s])
  BY <1>2, <1>4, <1>7, <1>8, <1>9, StaysOn
<1>11. Newest(job[s].own) /\ job[s].own \in Normals /\ job[s].victims = Outdated
  BY <1>1, <1>2 DEF JobKnows, PruneKnows
<1>12. DOMAIN rows' = DOMAIN rows \ Outdated /\ \A i \in DOMAIN rows' : rows'[i] = rows[i]
  BY <1>1, <1>11 DEF Without
<1>13. OkRows' = OkRows \ Outdated
  BY <1>12 DEF OkRows
<1>14. Normals' = Normals \ Outdated
  BY <1>12, <1>13 DEF Normals, OkRows
<1>15. Cardinality(Normals') <= Keep /\ job[s].own \in Normals'
  BY <1>2, <1>11, <1>14, KeepsFew, NewestStays DEF DataTyped
<1>16. Past(DOMAIN rows)'
  BY <1>1, <1>2, <1>12 DEF Past
<1>17. JobKnows(sess[s], job[s])'
  <2>1. Copied(sess[s], job[s])' = {}
    BY <1>9 DEF Copied
  <2> QED
    BY <1>7, <1>9, <1>15, <1>16, <2>1
       DEF JobKnows, SnapshotKnows, PruneKnows, RestoreKnows, Owning, Quiet, Snapshotting
<1>18. NamesDiffer'
  BY <1>2, <1>12 DEF NamesDiffer
<1>19. OkMeansWhole'
  <2>1. \A i \in OkRows' : i \in OkRows /\ rows'[i] = rows[i]
    BY <1>12, <1>13 DEF OkRows
  <2> QED BY <1>1, <1>2, <2>1 DEF OkMeansWhole
<1> QED BY <1>1, <1>3, <1>6, <1>10, <1>17, <1>18, <1>19, SettledIf

(* Nobody copies beside a restore.                                         *)
LEMMA NobodyCopies ==
    ASSUME BackupInv, NEW s \in Active
    PROVE  /\ Copiers \ {s} = {} /\ Race({}) = job
           /\ sess[s].pc = "rs_begin" => Copiers = {}
<1>1. Active \subseteq {s} /\ job \in [Sessions -> Jobs]
  BY OneActive
<1>2. Copiers \subseteq {s}
  BY <1>1 DEF Copiers
<1> QED BY <1>1, <1>2 DEF Race, Copiers

LEMMA RestoreBeginInv ==
    ASSUME BackupInv, NEW s \in Active, RestoreBegin(s)
    PROVE  Settled(s)
<1> DEFINE i == job[s].target
<1> DEFINE j == [job[s] EXCEPT !.source = rows[i].name, !.raced = FALSE,
                               !.seen = disk[rows[i].name], !.before = world]
<1>1. /\ sess[s].pc = "rs_begin" /\ Loaded(s) /\ db' = db /\ proc' = proc
      /\ disk' = disk /\ rows' = rows /\ second' = second
  BY DEF RestoreBegin
<1>2. /\ JobControl(sess[s], job[s]) /\ JobKnows(sess[s], job[s])
      /\ NamesDiffer /\ OkMeansWhole /\ job \in [Sessions -> Jobs] /\ DataTyped
      /\ Past(DOMAIN rows)
  BY <1>1, OneActive, PastThen
<1>3. /\ sess[s].pc \in BackupLabels /\ sess[s].pc \in Restoring \ Snapshotting
      /\ {"rs_copy", "rs_ret"} \subseteq Restoring \cap BackupLabels
  BY <1>1 DEF BackupLabels, Restoring, Snapshotting
<1>4. {"rs_copy", "rs_ret"} \subseteq Of(sess[s].req)
  BY <1>3, Serving
<1>5. /\ db.pid = NoPid /\ job[s].own \in OkRows
      /\ rows[job[s].own].type = "pre_restore"
      /\ disk[rows[job[s].own].name] = world
  BY <1>1, <1>2 DEF JobKnows, RestoreKnows, Quiet
<1>6. CASE /\ Goto(s, "rs_copy") /\ world' = "mixed"
           /\ job' = [Race(Copiers) EXCEPT ![s] =
                        [@ EXCEPT !.source = rows[i].name, !.raced = FALSE,
                                  !.seen = disk[rows[i].name],
                                  !.before = world]]
  <2>1. Race(Copiers) = job
    BY <1>1, NobodyCopies
  <2>2. job' = [job EXCEPT ![s] = j]
    BY <1>6, <2>1
  <2>3. j.own = job[s].own /\ j.type = job[s].type /\ j.before = world
    BY <1>2 DEF Jobs
  <2>4. j.was => job[s].was
    BY <1>2 DEF Jobs
  <2> HIDE DEF j
  <2>5. job'[s] = j /\ \A t \in Sessions \ {s} : job'[t] = job[t]
    BY <1>2, <2>2
  <2>6. /\ sess'[s].pc = "rs_copy" /\ sess'[s].req = sess[s].req
        /\ sess'[s].row # Expired
    BY <1>1, <1>3, <1>6, Goes
  <2>7. JobControl(sess'[s], job'[s])
    BY <1>2, <1>4, <2>3, <2>4, <2>5, <2>6, StaysOn
  <2>8. OkRows' = OkRows /\ NamesDiffer' /\ OkMeansWhole' /\ Past(DOMAIN rows)'
    BY <1>1, <1>2 DEF OkRows, NamesDiffer, OkMeansWhole, Past
  <2>9. JobKnows(sess[s], job[s])'
    <3>1. Copied(sess[s], job[s])' = {}
      BY <2>6 DEF Copied
    <3> QED
      BY <1>1, <1>5, <2>3, <2>5, <2>6, <2>8, <3>1
         DEF JobKnows, SnapshotKnows, PruneKnows, RestoreKnows, Owning
  <2> QED BY <1>1, <1>3, <1>6, <2>5, <2>7, <2>8, <2>9, SettledIf
<1>7. CASE Goto(s, "rs_ret") /\ UNCHANGED <<job, world>>
  <2>1. bvars' = bvars
    BY <1>1, <1>7 DEF bvars
  <2> QED BY <1>1, <1>3, <1>4, <1>7, <2>1, MoveSettled
<1> QED BY <1>6, <1>7 DEF RestoreBegin

LEMMA RestoreCopyInv ==
    ASSUME BackupInv, NEW s \in Active, RestoreCopy(s)
    PROVE  Settled(s)
<1>1. /\ sess[s].pc = "rs_copy" /\ db' = db /\ proc' = proc
      /\ disk' = disk /\ rows' = rows /\ second' = second
      /\ job' = job
  BY NobodyCopies DEF RestoreCopy
<1>2. /\ JobControl(sess[s], job[s]) /\ JobKnows(sess[s], job[s])
      /\ NamesDiffer /\ OkMeansWhole /\ Past(DOMAIN rows)
  BY <1>1, OneActive, PastThen
<1>3. /\ sess[s].pc \in BackupLabels /\ sess[s].pc \in Restoring \ Snapshotting
      /\ {"rs_commit", "rs_ret"} \subseteq Restoring \cap BackupLabels
  BY <1>1 DEF BackupLabels, Restoring, Snapshotting
<1>4. {"rs_commit", "rs_ret"} \subseteq Of(sess[s].req)
  BY <1>3, Serving
<1>5. db.pid = NoPid /\ sess[s].row # Expired
  BY <1>1, <1>2 DEF JobKnows, Quiet, JobControl
<1>6. NamesDiffer' /\ OkMeansWhole' /\ Past(DOMAIN rows)'
  BY <1>1, <1>2 DEF OkRows, NamesDiffer, OkMeansWhole, Past
<1>7. ASSUME NEW l \in {"rs_commit", "rs_ret"}, Goto(s, l)
      PROVE  Settled(s)
  <2>1. /\ sess'[s].pc = l /\ sess'[s].req = sess[s].req
        /\ sess'[s].row # Expired
    BY <1>1, <1>3, <1>5, <1>7, Goes
  <2>2. JobControl(sess'[s], job'[s])
    BY <1>1, <1>2, <1>4, <2>1, StaysOn
  <2>3. JobKnows(sess[s], job[s])'
    <3>1. Copied(sess[s], job[s])' = {}
      BY <2>1 DEF Copied
    <3> QED
      BY <1>1, <1>5, <1>6, <2>1, <3>1
         DEF JobKnows, SnapshotKnows, PruneKnows, RestoreKnows, Owning
  <2> QED BY <1>1, <1>3, <1>6, <1>7, <2>2, <2>3, SettledIf
<1> QED BY <1>7 DEF RestoreCopy

LEMMA RestoreCommitInv ==
    ASSUME BackupInv, NEW s \in Active, RestoreCommit(s)
    PROVE  Settled(s)
<1>1. /\ sess[s].pc = "rs_commit" /\ GotoExpired(s, "rs_ret") /\ proc' = proc
      /\ bvars' = bvars /\ job' = job /\ Flush(s, [status |-> "stopped", pid |-> NoPid])
  BY DEF RestoreCommit
<1>2. /\ JobControl(sess[s], job[s]) /\ JobKnows(sess[s], job[s]) /\ SerialKnows(sess[s])
      /\ NamesDiffer /\ OkMeansWhole /\ Past(DOMAIN rows) /\ Consistent(db)
      /\ Typed(BackupLabels, BackupRequests)
  BY <1>1, OneActive, PastThen
<1>3. /\ sess[s].pc \in BackupLabels /\ sess[s].pc \in Restoring \ Snapshotting
      /\ "rs_ret" \in Restoring \cap BackupLabels
  BY <1>1 DEF BackupLabels, Restoring, Snapshotting
<1>4. "rs_ret" \in Of(sess[s].req)
  BY <1>3, Serving
<1>5. db.pid = NoPid /\ sess[s].row = db
  BY <1>1, <1>2 DEF JobKnows, Quiet, JobControl, SerialKnows
<1>6. db' = db
  BY <1>1, <1>2, <1>5 DEF Flush, Consistent, Typed, Rows
<1>7. sess'[s].pc = "rs_ret" /\ sess'[s].req = sess[s].req
  BY <1>1, <1>3, <1>6, Goes
<1>8. JobControl(sess'[s], job'[s])
  BY <1>1, <1>2, <1>4, <1>7, StaysOn
<1>9. NamesDiffer' /\ OkMeansWhole' /\ Past(DOMAIN rows)'
  BY <1>1, <1>2, PastStays, SameData
<1>10. JobKnows(sess[s], job[s])'
  BY <1>7, <1>9, RestsHere
<1> QED BY <1>1, <1>3, <1>6, <1>8, <1>9, <1>10, SettledIf

LEMMA BackupSessionStep ==
    ASSUME BackupInv, NEW s \in Active, BackupStep(s)
    PROVE  Settled(s)
BY SnapshotNameInv, SnapshotInsertInv, SnapshotBeginInv, SnapshotCopyInv, SnapshotCommitInv,
   PruneFilesInv, PruneCommitInv, BackupCheckedInv, BackupStoppedInv, BackupConfirmedInv,
   BackupFinallyInv, GateCheckedInv, GateStartInv, RestoreCheckedInv, RestoreBeginInv,
   RestoreCopyInv, RestoreCommitInv, DeleteFilesInv, DeleteRowInv, BackupAnswerInv
   DEF BackupStep

LEMMA BackupStepIsActive ==
    ASSUME NEW s \in Sessions, BackupStep(s)
    PROVE  s \in Active
BY DEF BackupStep, SnapshotName, SnapshotInsert, SnapshotBegin, SnapshotCopy,
   SnapshotCommit, PruneFiles, PruneCommit, BackupChecked, BackupStopped,
   BackupConfirmed, BackupFinally, GateChecked, GateStart, RestoreChecked, RestoreBegin,
   RestoreCopy, RestoreCommit, DeleteFiles, DeleteRow, BackupAnswer, Finished

LEMMA BackupInvStep ==
    ASSUME Serial PROVE BackupInv /\ [BackupNext]_allVars => BackupInv'
<1> SUFFICES ASSUME BackupInv, [BackupNext]_allVars PROVE BackupInv'
  OBVIOUS
<1>1. BackupTypeInv'
  BY BackupTypeStep DEF BackupInv
<1>2. CASE ProcessStep
  BY <1>1, <1>2, ProcessInv
<1>3. CASE RestartStep
  BY <1>1, <1>3, RestartInv
<1>4. CASE Play
  BY <1>1, <1>4, PlayInv
<1>5. ASSUME NEW s \in Sessions, NEW r \in BackupRequests, NEW target \in 1 .. MaxRow,
             BackupArrive(s, r, target)
      PROVE  BackupInv'
  BY <1>1, <1>5, ArriveInv
<1>6. ASSUME NEW s \in Sessions, BackupStep(s) PROVE BackupInv'
  <2>1. s \in Active
    BY <1>6, BackupStepIsActive
  <2> QED BY <1>1, <1>6, <2>1, BackupSessionStep, OneActive, SettledSuffices
<1>7. CASE UNCHANGED allVars
  <2>1. UNCHANGED <<db, sess, job, proc>> /\ bvars' = bvars
    BY <1>7 DEF allVars, vars
  <2>2. Servers' = Servers
    BY <2>1 DEF Servers
  <2> QED BY <1>1, <2>1, <2>2, QuietStep
<1> QED BY <1>2, <1>3, <1>4, <1>5, <1>6, <1>7 DEF BackupNext

LEMMA BackupAlways == ASSUME Serial PROVE BackupSpec => []BackupInv
BY BackupInvInit, BackupInvStep, PTL DEF BackupSpec

----------------------------------------------------------------------------
(* One request at a time: what the backups promise                         *)

(* A snapshot that the table calls ok is never torn: no server runs beside *)
(* the copy of a backup, and an error or a restart of the unit leaves its  *)
(* row in_progress or failed.                                              *)
THEOREM SerialOkMeansWhole == ASSUME Serial PROVE BackupSpec => []OkMeansWhole
<1>1. BackupInv => OkMeansWhole
  BY DEF BackupInv
<1> QED BY <1>1, BackupAlways, PTL

(* What Quiet says, of the process table.                                  *)
LEMMA QuietCopies ==
    ASSUME BackupInv, NEW s \in Sessions, At(s, "snap_copy") \/ At(s, "rs_copy")
    PROVE  Servers = {}
<1>1. s \in Active /\ sess[s].pc \in Quiet /\ sess[s].pc # "record_pid"
  BY DEF Quiet, Snapshotting
<1>2. db.pid = NoPid /\ SerialKnows(sess[s])
  BY <1>1, OneActive DEF JobKnows
<1> QED BY <1>1, <1>2, ConstantsAssumption DEF SerialKnows, Servers

(* No server runs in the directory that restore_backup is overwriting ...  *)
THEOREM SerialQuietRestore == ASSUME Serial PROVE BackupSpec => []QuietRestore
<1>1. BackupInv => QuietRestore
  BY QuietCopies DEF QuietRestore
<1> QED BY <1>1, BackupAlways, PTL

(* ... nor in the one that _perform_snapshot is reading.                   *)
THEOREM SerialQuietSnapshot == ASSUME Serial PROVE BackupSpec => []QuietSnapshot
<1>1. BackupInv => QuietSnapshot
  BY QuietCopies DEF QuietSnapshot
<1> QED BY <1>1, BackupAlways, PTL

(* Two good generations never share a directory: a copy takes longer than  *)
(* the second that names it, so that no later one gets its name.           *)
THEOREM SerialOwnDirectory == ASSUME Serial PROVE BackupSpec => []OwnDirectory
<1>1. BackupInv => OwnDirectory
  BY DEF BackupInv, NamesDiffer, OwnDirectory, OkRows
<1> QED BY <1>1, BackupAlways, PTL

(* While a restore overwrites the server directory, the world it replaces  *)
(* is whole in the pre-restore snapshot that it took first.                *)
THEOREM SerialSafetyNet == ASSUME Serial PROVE BackupSpec => []SafetyNet
<1>1. ASSUME BackupInv, NEW s \in Sessions, At(s, "rs_copy")
      PROVE  /\ job[s].own \in OkRows
             /\ rows[job[s].own].type = "pre_restore"
             /\ disk[rows[job[s].own].name] = job[s].before
  BY <1>1, OneActive DEF JobKnows, RestoreKnows
<1>2. BackupInv => SafetyNet
  BY <1>1 DEF SafetyNet
<1> QED BY <1>2, BackupAlways, PTL

(* _prune_generations leaves at most Keep normal generations, and the new  *)
(* one is among them.                                                      *)
THEOREM SerialRetention == ASSUME Serial PROVE BackupSpec => []Retention
<1>1. ASSUME BackupInv, NEW s \in Sessions, At(s, "bk_finally"), job[s].ok
      PROVE  Cardinality(Normals) <= Keep /\ job[s].own \in Normals
  BY <1>1, OneActive DEF JobKnows, PruneKnows
<1>2. BackupInv => Retention
  BY <1>1 DEF Retention
<1> QED BY <1>2, BackupAlways, PTL

(* What becomes of a row that nobody asked to delete, and that is neither  *)
(* a normal generation nor unfinished.                                     *)
LEMMA RowKept ==
    ASSUME BackupInv, BackupNext, NEW i \in DOMAIN rows,
           \A s \in Sessions : job[s].target # i \/ sess[s].req # "delete",
           i \notin Normals, rows[i].status # "in_progress"
    PROVE  i \in DOMAIN rows' /\ disk'[rows[i].name] = disk[rows[i].name]
<1>1. DataTyped /\ rows[i].name \in Names
  BY DEF BackupInv, BackupTypeInv, BackupTypeOK, DataTyped, BackupRows
<1>2. NamesDiffer /\ Outdated \subseteq Normals /\ Normals \subseteq DOMAIN rows
  BY DEF BackupInv, Outdated, Normals, OkRows
<1>3. CASE ProcessStep \/ RestartStep \/ Play
  BY <1>3 DEF ProcessStep, RestartStep, Play, bvars
<1>4. ASSUME NEW s \in Sessions, NEW r \in BackupRequests, NEW target \in 1 .. MaxRow,
             BackupArrive(s, r, target)
      PROVE  rows' = rows /\ disk' = disk
  BY <1>4 DEF BackupArrive, bvars
<1>5. ASSUME NEW s \in Sessions, BackupStep(s)
      PROVE  i \in DOMAIN rows' /\ disk'[rows[i].name] = disk[rows[i].name]
  <2>1. /\ s \in Active /\ JobControl(sess[s], job[s]) /\ JobKnows(sess[s], job[s])
        /\ job[s].target # i \/ sess[s].req # "delete"
    BY <1>5, BackupStepIsActive, OneActive
  <2>2. CASE SnapshotInsert(s)
    BY <2>2 DEF SnapshotInsert
  <2>3. CASE SnapshotBegin(s)
    <3>1. rows[i].name # job[s].name
      <4>1. sess[s].pc = "snap_begin"
        BY <2>3 DEF SnapshotBegin
      <4>2. i # job[s].own
        BY <2>1, <4>1 DEF JobKnows, SnapshotKnows
      <4> QED BY <2>1, <4>1, <4>2, OwnName
    <3> QED BY <1>1, <2>3, <3>1 DEF SnapshotBegin, DataTyped
  <2>4. CASE SnapshotCopy(s)
    <3>1. rows[i].name # job[s].name
      <4>1. sess[s].pc = "snap_copy"
        BY <2>4 DEF SnapshotCopy
      <4>2. i # job[s].own
        BY <2>1, <4>1 DEF JobKnows, SnapshotKnows
      <4> QED BY <2>1, <4>1, <4>2, OwnName
    <3> QED BY <1>1, <2>4, <3>1 DEF SnapshotCopy, DataTyped
  <2>5. CASE SnapshotCommit(s)
    BY <1>1, <2>5 DEF SnapshotCommit, DataTyped
  <2>6. CASE PruneFiles(s)
    <3>1. rows[i].name \notin {rows[k].name : k \in Outdated}
      BY <1>2 DEF NamesDiffer
    <3> QED BY <1>1, <2>6, <3>1 DEF PruneFiles, Erased
  <2>7. CASE PruneCommit(s)
    <3>1. job[s].victims = Outdated
      BY <2>1, <2>7 DEF PruneCommit, JobKnows, PruneKnows
    <3> QED BY <1>2, <2>7, <3>1 DEF PruneCommit, Without
  <2>8. CASE DeleteFiles(s) \/ DeleteRow(s)
    <3>1. sess[s].pc \in {"del_files", "del_row"} /\ sess[s].pc \in BackupLabels
      BY <2>8 DEF DeleteFiles, DeleteRow, BackupLabels
    <3>2. job[s].target # i
      BY <2>1, <3>1, Serving, Kinds
    <3>3. CASE DeleteFiles(s)
      <4>1. rows[i].name # job[s].source
        BY <1>2, <2>1, <3>2, <3>3 DEF DeleteFiles, JobKnows, RestoreKnows, NamesDiffer
      <4> QED BY <1>1, <3>3, <4>1 DEF DeleteFiles, Erased
    <3>4. CASE DeleteRow(s)
      BY <3>2, <3>4 DEF DeleteRow, Without
    <3> QED BY <2>8, <3>3, <3>4
  <2>9. CASE \/ SnapshotName(s) \/ BackupChecked(s) \/ BackupStopped(s)
             \/ BackupConfirmed(s) \/ BackupFinally(s) \/ GateChecked(s) \/ GateStart(s)
             \/ RestoreChecked(s) \/ RestoreBegin(s) \/ RestoreCopy(s)
             \/ RestoreCommit(s) \/ BackupAnswer(s)
    <3>1. rows' = rows /\ disk' = disk
      BY <2>9 DEF SnapshotName, BackupChecked, BackupStopped, BackupConfirmed,
         BackupFinally, GateChecked, GateStart, RestoreChecked, RestoreBegin,
         RestoreCopy, RestoreCommit, BackupAnswer, bvars
    <3> QED BY <3>1
  <2> QED
    BY <1>5, <2>2, <2>3, <2>4, <2>5, <2>6, <2>7, <2>8, <2>9 DEF BackupStep
<1> QED BY <1>3, <1>4, <1>5 DEF BackupNext

(* Backups and restores remove nothing but outdated normal generations:    *)
(* pre-restore and failed snapshots stay until somebody deletes them.      *)
THEOREM SerialOnlyNormalsPruned == ASSUME Serial PROVE BackupSpec => OnlyNormalsPruned
<1> DEFINE Pruned ==
      \A i \in DOMAIN rows :
          (\A s \in Sessions : job[s].target # i \/ sess[s].req # "delete") =>
              (i \in DOMAIN rows' /\ disk'[rows[i].name] = disk[rows[i].name])
                  \/ i \in Normals \/ rows[i].status = "in_progress"
<1>1. BackupInv /\ [BackupNext]_allVars => [Pruned]_allVars
  BY RowKept
<1> QED BY <1>1, BackupAlways, PTL DEF BackupSpec, OnlyNormalsPruned

(* A step of a backup that goes on does not end the request.               *)
(* Where a session is after it has gone on.                                *)
LEMMA GoesTo ==
    ASSUME BackupInv, NEW s \in Sessions, NEW l
    PROVE  /\ Goto(s, l) \/ GotoExpired(s, l) => sess'[s].pc = l
           /\ Refresh(s, l) => sess'[s].pc = "refresh"
<1>1. Typed(BackupLabels, BackupRequests)
  BY BackupTyped DEF BackupInv, BackupTypeInv
<1>2. Writes(s, sess[s]) /\ sess \in [Sessions -> BackupSessions]
  BY <1>1, Updates DEF Typed, BackupSessions
<1> QED BY <1>2 DEF Writes, Becomes, With

(* backup_now calls start_server again for every server it has stopped,    *)
(* whatever became of the snapshot: it is not over before that.            *)
THEOREM SerialBackupRestarts == ASSUME Serial PROVE BackupSpec => BackupRestarts
<1>1. ASSUME BackupInv, NEW s \in Sessions, BackupStep(s), job[s].was,
             sess'[s].pc = "idle"
      PROVE  At(s, "start_ret")
  <2>1. /\ s \in Active /\ JobControl(sess[s], job[s]) /\ JobKnows(sess[s], job[s])
        /\ sess \in [Sessions -> BackupSessions]
    BY <1>1, BackupStepIsActive, OneActive
  <2>2. ASSUME NEW l, l # "idle"
        PROVE  ~(Goto(s, l) \/ GotoExpired(s, l) \/ Refresh(s, l))
    BY <1>1, <2>2, GoesTo
  <2>3. ~(SnapshotName(s) \/ SnapshotInsert(s) \/ SnapshotBegin(s) \/ SnapshotCopy(s))
    BY <2>2 DEF SnapshotName, SnapshotInsert, SnapshotBegin, SnapshotCopy
  <2>4. ~SnapshotCommit(s)
    <3>1. CASE sess[s].pc \in {"snap_commit", "snap_failed"}
      <4>1. job[s].own \in DOMAIN rows \cup {0}
        BY <2>1, <3>1 DEF JobKnows, SnapshotKnows, Newest
      <4> QED BY <2>2, <4>1 DEF SnapshotCommit
    <3> QED BY <3>1 DEF SnapshotCommit
  <2>5. ~(PruneFiles(s) \/ PruneCommit(s) \/ BackupFinally(s) \/ GateChecked(s)
          \/ GateStart(s) \/ BackupChecked(s) \/ BackupConfirmed(s))
    BY <2>2 DEF PruneFiles, PruneCommit, BackupFinally, GateChecked, GateStart,
       BackupChecked, BackupConfirmed
  <2>6. ~BackupStopped(s)
    <3>1. BackupStopped(s) => sess'[s].pc = "refresh"
      <4>1. BackupStopped(s) =>
               sess'[s] = [sess[s] EXCEPT !.pc = "refresh", !.pid = NoPid,
                                          !.after = "bk_confirmed", !.back = "idle"]
        BY <2>1 DEF BackupStopped
      <4> QED BY <2>1, <4>1 DEF BackupSessions, SessionsOver
    <3> QED BY <1>1, <3>1
  <2>7. ~(RestoreChecked(s) \/ RestoreBegin(s) \/ RestoreCopy(s) \/ RestoreCommit(s)
          \/ DeleteFiles(s))
    BY <2>2 DEF RestoreChecked, RestoreBegin, RestoreCopy, RestoreCommit, DeleteFiles
  <2>8. ~DeleteRow(s)
    <3>1. CASE sess[s].pc = "del_row"
      <4>1. sess[s].pc \in BackupLabels
        BY <3>1 DEF BackupLabels
      <4>2. sess[s].req = "delete"
        BY <1>1, <2>1, <3>1, <4>1, Serving, Kinds
      <4> QED BY <1>1, <2>1, <4>2 DEF JobControl
    <3> QED BY <3>1 DEF DeleteRow
  <2>9. CASE BackupAnswer(s)
    <3>1. sess[s].req \in {"backup", "gated"} /\ sess[s].pc # "bk_ret"
      BY <1>1, <2>1 DEF JobControl
    <3> QED BY <2>9, <3>1 DEF BackupAnswer, Finished
  <2> QED
    BY <1>1, <2>3, <2>4, <2>5, <2>6, <2>7, <2>8, <2>9 DEF BackupStep
<1> DEFINE Restarted ==
      \A s \in Sessions :
          (BackupStep(s) /\ job[s].was /\ sess'[s].pc = "idle") => At(s, "start_ret")
<1>2. BackupInv => [Restarted]_allVars
  BY <1>1
<1> QED BY <1>2, BackupAlways, PTL DEF BackupSpec, BackupRestarts

----------------------------------------------------------------------------
(* Process control beside the backups: what a backup or a restore stops    *)
(* and starts is controlled as if pages had asked for it.                  *)

LEMMA BackupServes == BackupInv => Serves(BackupLabels, BackupRequests)
BY BackupTyped DEF BackupInv, BackupTypeInv, Serves, Working, SerialKnows

LEMMA BackupServesThen == BackupInv' => Serves(BackupLabels, BackupRequests)'
BY BackupServes, PTL

(* Whether Start, Stop, a backup, a restore or a restart of the unit is    *)
(* what moves the server: none is ever left running unrecorded.            *)
THEOREM BackupNoOrphan == ASSUME Serial PROVE BackupSpec => []NoOrphan
<1>1. BackupInv => NoOrphan
  BY BackupServes, SerialControls
<1> QED BY <1>1, BackupAlways, PTL

(* And the start in backup_now's finally block, or the one that follows a  *)
(* gated backup, never launches a second server.                           *)
THEOREM BackupAtMostOneServer == ASSUME Serial PROVE BackupSpec => []AtMostOneServer
<1>1. BackupInv => AtMostOneServer
  BY BackupServes, SerialControls
<1> QED BY <1>1, BackupAlways, PTL

(* The row that restore_backup writes agrees with itself as every other.   *)
THEOREM BackupRowConsistent == ASSUME Serial PROVE BackupSpec => []RowConsistent
<1>1. BackupInv => RowConsistent
  BY BackupServes, SerialControls
<1> QED BY <1>1, BackupAlways, PTL

LEMMA WorksOn ==
    ASSUME NEW s \in Sessions, Works(s), db' = db, proc' = proc,
           Typed(BackupLabels, BackupRequests)',
           sess[s].pc \in BackupLabels \cup {"start_ret", "stop_ret"},
           NEW l,
           \/ l \in BackupLabels /\ (Goto(s, l) \/ GotoExpired(s, l))
           \/ l \in Returns \cup {"start_checked", "stop_checked"} /\ Refresh(s, l),
           l \in Quiet => db.pid = NoPid,
           l \in {"rs_copy", "rs_commit"} => Goto(s, l) /\ Loaded(s)
    PROVE  /\ \A t \in Sessions \ {s} : sess'[t] = sess[t]
           /\ sess'[s].pc \notin {"idle", "record_pid"}
           /\ Works(s)'
<1>1. /\ \A t \in Sessions \ {s} : sess'[t] = sess[t]
      /\ Refresh(s, l) => sess'[s].pc = "refresh" /\ sess'[s].after = l
      /\ Goto(s, l) \/ GotoExpired(s, l) => sess'[s].pc = l
      /\ Goto(s, l) => sess'[s].row = sess[s].row
      /\ SerialControl(sess'[s]) /\ SerialKnows(sess[s])' /\ Consistent(db)'
      /\ sess'[s].pc # "idle"
  BY WorksGoes
<1>2. CASE l \in BackupLabels /\ (Goto(s, l) \/ GotoExpired(s, l))
  <2>1. sess'[s].pc = l /\ l \notin {"persist", "refresh", "clear_row", "record_pid"}
    BY <1>1, <1>2 DEF BackupLabels
  <2> QED BY <1>1, <2>1 DEF Works, Calls
<1>3. CASE l \in Returns \cup {"start_checked", "stop_checked"} /\ Refresh(s, l)
  <2>1. sess'[s].pc = "refresh" /\ sess'[s].after \in Labels \cup Returns
    BY <1>1, <1>3 DEF Labels
  <2>2. "refresh" \notin Quiet
    BY DEF Quiet, Snapshotting
  <2> QED BY <1>1, <2>1, <2>2 DEF Works
<1> QED BY <1>2, <1>3

(* A backup's own steps neither launch nor record, and the row that the    *)
(* restore writes was already so.                                          *)
LEMMA WorksSteps ==
    ASSUME NEW s \in Sessions, Works(s), BackupStep(s), Typed(BackupLabels, BackupRequests)'
    PROVE  /\ db' = db /\ proc' = proc
           /\ \A t \in Sessions \ {s} : sess'[t] = sess[t]
           /\ sess[s].pc # "record_pid" /\ sess'[s].pc # "record_pid"
           /\ sess'[s].pc # "idle" => Works(s)'
<1> DEFINE Goal == /\ \A t \in Sessions \ {s} : sess'[t] = sess[t]
                   /\ sess'[s].pc # "record_pid"
                   /\ sess'[s].pc # "idle" => Works(s)'
<1>1. /\ sess \in [Sessions -> BackupSessions] /\ Consistent(db) /\ db \in Rows
      /\ Loaded(s) => sess[s].row = db
      /\ sess[s].pc \in Quiet => db.pid = NoPid
  BY DEF Works, Typed, BackupSessions, SerialKnows
<1>2. Loaded(s) /\ sess[s].row.status # "running" => db.pid = NoPid
  BY <1>1 DEF Consistent
<1>3. proc' = proc
  BY DEF BackupStep, SnapshotName, SnapshotInsert, SnapshotBegin, SnapshotCopy,
     SnapshotCommit, PruneFiles, PruneCommit, BackupChecked, BackupStopped,
     BackupConfirmed, BackupFinally, GateChecked, GateStart, RestoreChecked,
     RestoreBegin, RestoreCopy, RestoreCommit, DeleteFiles, DeleteRow, BackupAnswer
<1>4. sess[s].pc \in BackupLabels \cup {"start_ret", "stop_ret"}
  BY DEF BackupStep, SnapshotName, SnapshotInsert, SnapshotBegin, SnapshotCopy,
     SnapshotCommit, PruneFiles, PruneCommit, BackupChecked, BackupStopped,
     BackupConfirmed, BackupFinally, GateChecked, GateStart, RestoreChecked,
     RestoreBegin, RestoreCopy, RestoreCommit, DeleteFiles, DeleteRow,
     BackupAnswer, Finished, BackupLabels
<1>5. db' = db
  <2>1. CASE RestoreCommit(s)
    <3>1. db.pid = NoPid /\ sess[s].row = db
      BY <1>1, <2>1 DEF Works, RestoreCommit, Quiet
    <3>2. db = [status |-> "stopped", pid |-> NoPid]
      BY <1>1, <3>1 DEF Consistent, Rows
    <3> QED BY <2>1, <3>1, <3>2 DEF RestoreCommit, Flush
  <2>2. CASE ~RestoreCommit(s)
    BY <2>2 DEF BackupStep, SnapshotName, SnapshotInsert, SnapshotBegin, SnapshotCopy,
       SnapshotCommit, PruneFiles, PruneCommit, BackupChecked, BackupStopped,
       BackupConfirmed, BackupFinally, GateChecked, GateStart, RestoreChecked,
       RestoreBegin, RestoreCopy, DeleteFiles, DeleteRow, BackupAnswer
  <2> QED BY <2>1, <2>2
<1>6. sess[s].pc # "record_pid"
  BY <1>4 DEF BackupLabels
<1> SUFFICES Goal
  BY <1>3, <1>5, <1>6
<1>7. ASSUME sess' = [sess EXCEPT ![s] = IdleSession] PROVE Goal
  BY <1>1, <1>7 DEF IdleSession
<1>8. ASSUME NEW l,
             \/ l \in BackupLabels /\ (Goto(s, l) \/ GotoExpired(s, l))
             \/ l \in Returns \cup {"start_checked", "stop_checked"} /\ Refresh(s, l),
             l \in Quiet => db.pid = NoPid,
             l \in {"rs_copy", "rs_commit"} => Goto(s, l) /\ Loaded(s)
      PROVE  Goal
  BY <1>3, <1>4, <1>5, <1>8, WorksOn
<1> HIDE DEF Goal
<1>9. CASE \/ SnapshotName(s) \/ SnapshotInsert(s) \/ SnapshotBegin(s) \/ SnapshotCopy(s)
           \/ PruneFiles(s) \/ PruneCommit(s)
  <2>1. /\ sess[s].pc \in Quiet
        /\ \E l \in (Snapshotting \cup {"prune_commit", "bk_finally"}) :
              Goto(s, l) \/ GotoExpired(s, l)
    BY <1>9 DEF SnapshotName, SnapshotInsert, SnapshotBegin, SnapshotCopy, PruneFiles,
       PruneCommit, Quiet, Snapshotting
  <2>2. (Snapshotting \cup {"prune_commit", "bk_finally"}) \subseteq BackupLabels
    BY DEF Snapshotting, BackupLabels
  <2>3. \A l \in (Snapshotting \cup {"prune_commit", "bk_finally"}) :
           l \notin {"rs_copy", "rs_commit"}
    BY DEF Snapshotting
  <2> QED BY <1>1, <1>8, <2>1, <2>2, <2>3
<1>10. CASE SnapshotCommit(s)
  <2>1. /\ sess[s].pc \in Quiet
        /\ \/ \E l \in {"prune", "rs_begin", "bk_finally", "rs_ret"} :
                 Goto(s, l) \/ GotoExpired(s, l)
           \/ sess' = [sess EXCEPT ![s] = IdleSession]
    BY <1>10 DEF SnapshotCommit, Quiet, Snapshotting
  <2>2. {"prune", "rs_begin", "bk_finally", "rs_ret"} \subseteq BackupLabels
    BY DEF BackupLabels
  <2> QED BY <1>1, <1>7, <1>8, <2>1, <2>2
<1>11. CASE BackupChecked(s) \/ BackupConfirmed(s) \/ RestoreChecked(s)
  <2>1. \/ Refresh(s, "stop_checked")
        \/ Goto(s, "snap_name") /\ Loaded(s) /\ sess[s].row.status # "running"
        \/ Goto(s, "bk_ret") \/ Goto(s, "rs_ret")
    BY <1>11 DEF BackupChecked, BackupConfirmed, RestoreChecked
  <2>2. /\ {"snap_name", "bk_ret", "rs_ret"} \subseteq BackupLabels
        /\ {"stop_checked", "bk_ret", "rs_ret"} \cap Quiet = {}
    BY DEF BackupLabels, Quiet, Snapshotting
  <2> QED BY <1>2, <1>8, <2>1, <2>2
<1>12. CASE BackupFinally(s) \/ GateChecked(s) \/ GateStart(s)
  <2>1. \/ Refresh(s, "start_checked") \/ Refresh(s, "bk_checked") \/ Goto(s, "bk_ret")
    BY <1>12 DEF BackupFinally, GateChecked, GateStart
  <2>2. /\ "bk_ret" \in BackupLabels /\ "bk_checked" \in Returns
        /\ {"start_checked", "bk_checked", "bk_ret"} \cap Quiet = {}
    BY DEF BackupLabels, Returns, Quiet, Snapshotting
  <2> QED BY <1>8, <2>1, <2>2
<1>13. CASE BackupStopped(s)
  <2> DEFINE y == [sess[s] EXCEPT !.pc = "refresh", !.pid = NoPid,
                                  !.after = "bk_confirmed", !.back = "idle"]
  <2>1. sess[s].pc = "stop_ret" /\ sess' = [sess EXCEPT ![s] = y]
    BY <1>13 DEF BackupStopped
  <2>2. y.pc = "refresh" /\ y.after = "bk_confirmed" /\ y.row = sess[s].row
    BY <1>1 DEF BackupSessions, SessionsOver
  <2> HIDE DEF y
  <2>3. sess'[s] = y /\ \A t \in Sessions \ {s} : sess'[t] = sess[t]
    BY <1>1, <2>1
  <2>4. SerialControl(y) /\ SerialKnows(sess[s])'
    <3>1. Servers' = Servers
      BY <1>3 DEF Servers
    <3> QED
      BY <1>5, <2>1, <2>2, <2>3, <3>1 DEF Works, SerialControl, SerialKnows, Targeting, Busy
  <2>5. "bk_confirmed" \in Returns /\ "refresh" \notin Quiet
    BY DEF Returns, Quiet, Snapshotting
  <2>6. Works(s)'
    BY <1>1, <1>5, <2>2, <2>3, <2>4, <2>5 DEF Works
  <2> QED BY <2>2, <2>3, <2>6 DEF Goal
<1>14. CASE RestoreBegin(s) \/ RestoreCopy(s) \/ RestoreCommit(s) \/ DeleteFiles(s)
  <2>1. /\ sess[s].pc \in Quiet \/ Goto(s, "del_row")
        /\ \/ \E l \in {"rs_copy", "rs_commit"} : Goto(s, l) /\ Loaded(s)
           \/ Goto(s, "rs_ret") \/ GotoExpired(s, "rs_ret")
           \/ Goto(s, "del_row")
    BY <1>14 DEF RestoreBegin, RestoreCopy, RestoreCommit, DeleteFiles, Works, Quiet
  <2>2. /\ {"rs_copy", "rs_commit", "rs_ret", "del_row"} \subseteq BackupLabels
        /\ {"rs_ret", "del_row"} \cap Quiet = {}
    BY DEF BackupLabels, Quiet, Snapshotting
  <2>3. CASE Goto(s, "del_row") \/ Goto(s, "rs_ret") \/ GotoExpired(s, "rs_ret")
    BY <1>8, <2>2, <2>3
  <2>4. ASSUME NEW l \in {"rs_copy", "rs_commit"}, Goto(s, l), Loaded(s), sess[s].pc \in Quiet
        PROVE  Goal
    BY <1>1, <1>8, <2>2, <2>4
  <2> QED BY <2>1, <2>3, <2>4
<1>15. CASE DeleteRow(s) \/ BackupAnswer(s)
  BY <1>7, <1>15 DEF DeleteRow, BackupAnswer
<1> QED
  BY <1>9, <1>10, <1>11, <1>12, <1>13, <1>14, <1>15 DEF BackupStep

LEMMA BackupStutters ==
    ASSUME BackupInv, BackupInv', NEW s \in Sessions, BackupStep(s)
    PROVE  UNCHANGED <<Servers, db.pid, Launched>>
<1>1. Works(s) /\ Active \subseteq {s}
  BY BackupStepIsActive, ActiveWorks, OneActive
<1>2. Typed(BackupLabels, BackupRequests)'
  BY BackupServesThen DEF Serves
<1>3. Recording = {} /\ Recording' = {} /\ db' = db /\ proc' = proc
  BY <1>1, <1>2, WorksSteps DEF Recording
<1> QED BY <1>3 DEF Servers, Launched

(* Process control with backups, restores and deletions in between still   *)
(* implements the life cycle of ServerLifecycle: a server is launched only *)
(* when none is alive or on record, and its record is dropped only once it *)
(* is gone.                                                                *)
THEOREM BackupImplementsLifecycle == ASSUME Serial PROVE BackupSpec => LifecycleSpec
<1>1. BackupInit => Lifecycle!Init
  BY LifecycleInit DEF BackupInit
<1>2. BackupInv /\ BackupInv' /\ [BackupNext]_allVars
          => [Lifecycle!Next]_<<Servers, db.pid, Launched>>
  <2> SUFFICES ASSUME BackupInv, BackupInv', [BackupNext]_allVars
               PROVE  [Lifecycle!Next]_<<Servers, db.pid, Launched>>
    OBVIOUS
  <2>1. Serves(BackupLabels, BackupRequests) /\ Serves(BackupLabels, BackupRequests)'
    BY BackupServes, BackupServesThen
  <2>2. CASE ProcessStep \/ RestartStep
    <3>1. Next /\ "record_pid" \notin BackupLabels
      BY <2>2 DEF ProcessStep, RestartStep, Next, BackupLabels
    <3>2. ASSUME NEW s \in Sessions, NEW r \in Requests, Arrive(s, r)
          PROVE  Working = {}
      BY <3>2, ArriveAlone DEF Arrive, Working
    <3> QED BY <2>1, <3>1, <3>2, LifecycleStep DEF Serial
  <2>3. ASSUME NEW s \in Sessions, NEW r \in BackupRequests, NEW target \in 1 .. MaxRow,
               BackupArrive(s, r, target)
        PROVE  UNCHANGED <<Servers, db.pid, Launched>>
    <3>1. Recording = {}
      BY <2>3, ArriveAlone DEF Recording, BackupArrive
    <3>2. Recording' = {}
      BY <2>1, <2>3, <3>1 DEF Recording, BackupArrive, IdleSession, Serves, Typed
    <3> QED BY <2>3, <3>1, <3>2 DEF BackupArrive, Servers, Launched
  <2>4. ASSUME NEW s \in Sessions, BackupStep(s)
        PROVE  UNCHANGED <<Servers, db.pid, Launched>>
    BY <2>4, BackupStutters
  <2>5. CASE Play \/ UNCHANGED allVars
    <3>1. UNCHANGED <<db, proc, sess>>
      BY <2>5 DEF Play, allVars, vars
    <3> QED BY <3>1 DEF Servers, Launched, Recording
  <2> QED BY <2>2, <2>3, <2>4, <2>5 DEF BackupNext
<1> QED BY <1>1, <1>2, BackupAlways, PTL DEF BackupSpec, LifecycleSpec, Lifecycle!Spec

----------------------------------------------------------------------------
(* One session does whatever it may, and all others delete backups at any  *)
(* time: the backup that is being written or restored among them. The row  *)
(* of a backup may vanish under a request, and its id be used again.       *)

Beside(w) ==
    /\ w \in Sessions /\ Faults \subseteq {"unit_restart"}
    /\ \A s \in Sessions \ {w} : Allowed[s] \subseteq {"delete"}

Deleting == {"idle", "del_files", "del_row"}

ControlBeside(w) ==
    /\ BackupTypeInv
    /\ \A s \in Sessions \ {w} : sess[s].pc \in Deleting
    /\ IF sess[w].pc = "idle" THEN Consistent(db) /\ Servers \subseteq {db.pid}
       ELSE Works(w)

(* The other sessions do not touch the server, nor each other.             *)
LEMMA OthersDelete ==
    ASSUME NEW CONSTANT w, Beside(w), ControlBeside(w), NEW s \in Sessions \ {w},
           \/ \E r \in Requests : Arrive(s, r)
           \/ Step(s)
           \/ \E r \in BackupRequests, target \in 1 .. MaxRow : BackupArrive(s, r, target)
           \/ BackupStep(s)
    PROVE  /\ BackupStep(s) => DeleteFiles(s) \/ DeleteRow(s)
           /\ UNCHANGED <<db, proc>>
           /\ \A t \in Sessions \ {s} : sess'[t] = sess[t]
           /\ sess'[s].pc \in Deleting
<1>1. /\ sess \in [Sessions -> BackupSessions] /\ sess[s].pc \in Deleting
      /\ Allowed[s] \subseteq {"delete"} /\ Typed(BackupLabels, BackupRequests)
  BY BackupTyped DEF ControlBeside, Beside, BackupTypeInv, Typed, BackupSessions
<1>2. ~\E r \in Requests : Arrive(s, r)
  BY <1>1 DEF Arrive, Requests
<1>3. ASSUME BackupStep(s) PROVE DeleteFiles(s) \/ DeleteRow(s)
  <2>1. ~(SnapshotName(s) \/ SnapshotInsert(s) \/ SnapshotBegin(s) \/ SnapshotCopy(s)
          \/ SnapshotCommit(s) \/ PruneFiles(s) \/ PruneCommit(s))
    BY <1>1 DEF Deleting, SnapshotName, SnapshotInsert, SnapshotBegin, SnapshotCopy,
       SnapshotCommit, PruneFiles, PruneCommit
  <2>2. ~(BackupChecked(s) \/ BackupStopped(s) \/ BackupConfirmed(s) \/ BackupFinally(s)
          \/ GateChecked(s) \/ GateStart(s))
    BY <1>1 DEF Deleting, BackupChecked, BackupStopped, BackupConfirmed, BackupFinally,
       GateChecked, GateStart
  <2>3. ~(RestoreChecked(s) \/ RestoreBegin(s) \/ RestoreCopy(s) \/ RestoreCommit(s)
          \/ BackupAnswer(s))
    BY <1>1 DEF Deleting, RestoreChecked, RestoreBegin, RestoreCopy, RestoreCommit,
       BackupAnswer, Finished
  <2> QED BY <1>3, <2>1, <2>2, <2>3 DEF BackupStep
<1>4. CASE Step(s)
  <2>1. sess[s].pc \in {"del_files", "del_row"}
    BY <1>1, <1>4, StepIsActive DEF Deleting
  <2>2. Load(s)
    BY <1>4, <2>1, OnlyLoad DEF Labels
  <2> QED BY <1>1, <1>3, <2>2 DEF Load, BackupSessions, SessionsOver
<1>5. ASSUME NEW r \in BackupRequests, NEW target \in 1 .. MaxRow, BackupArrive(s, r, target)
      PROVE  /\ UNCHANGED <<db, proc>>
             /\ \A t \in Sessions \ {s} : sess'[t] = sess[t]
             /\ sess'[s].pc \in Deleting
  <2>1. r = "delete"
    BY <1>1, <1>5 DEF BackupArrive
  <2> QED BY <1>1, <1>5, <2>1 DEF BackupArrive, IdleSession, Deleting
<1>6. CASE BackupStep(s)
  BY <1>1, <1>3, <1>6 DEF DeleteFiles, DeleteRow, Goto, IdleSession, Deleting,
     BackupSessions, SessionsOver
<1> QED BY <1>2, <1>3, <1>4, <1>5, <1>6

LEMMA ControlInit ==
    ASSUME NEW CONSTANT w, Beside(w) PROVE BackupInit => ControlBeside(w)
<1> SUFFICES ASSUME BackupInit PROVE ControlBeside(w)
  OBVIOUS
<1>1. BackupInv /\ \A s \in Sessions : sess[s].pc = "idle"
  BY BackupInvInit DEF BackupInit, Init, IdleSession
<1> QED BY <1>1 DEF ControlBeside, BackupInv, Beside, Deleting

(* The worker's own step: as when it was alone.                            *)
LEMMA ControlWorker ==
    ASSUME NEW CONSTANT w, Beside(w), ControlBeside(w), BackupTypeInv',
           \/ \E r \in Requests : Arrive(w, r)
           \/ Step(w)
           \/ \E r \in BackupRequests, target \in 1 .. MaxRow : BackupArrive(w, r, target)
           \/ BackupStep(w)
    PROVE  /\ ControlBeside(w)'
           /\ \A t \in Sessions \ {w} : sess'[t] = sess[t]
<1>1. /\ Typed(BackupLabels, BackupRequests) /\ Typed(BackupLabels, BackupRequests)'
      /\ sess \in [Sessions -> BackupSessions] /\ w \in Sessions
  <2>1. Typed(BackupLabels, BackupRequests)
    BY BackupTyped DEF ControlBeside, BackupTypeInv
  <2>2. BackupTypeOK' => Typed(BackupLabels, BackupRequests)'
    BY BackupTyped, PTL
  <2> QED BY <2>1, <2>2 DEF BackupTypeInv, Typed, BackupSessions, Beside
<1>2. SUFFICES /\ \A t \in Sessions \ {w} : sess'[t] = sess[t]
               /\ IF sess'[w].pc = "idle" THEN Consistent(db)' /\ Servers' \subseteq {db'.pid}
                  ELSE Works(w)'
  BY DEF ControlBeside
<1>3. ASSUME NEW r \in Requests, Arrive(w, r)
      PROVE  (\A t \in Sessions \ {w} : sess'[t] = sess[t]) /\ Works(w)' /\ sess'[w].pc # "idle"
  <2>1. Consistent(db) /\ Servers \subseteq {db.pid}
    BY <1>3 DEF ControlBeside, Arrive
  <2>2. /\ Established(w) /\ sess'[w].pc \in {"persist", "refresh"}
        /\ sess'[w].after \in Labels
    BY <1>1, <1>3, <2>1, SerialArrival
  <2>3. sess'[w].pc \notin Quiet \cup {"rs_copy", "rs_commit", "idle"}
    BY <2>2 DEF Quiet, Snapshotting
  <2> QED BY <1>1, <2>2, <2>3 DEF Works, Established
<1>4. CASE Step(w)
  <2> DEFINE x == sess[w]
  <2> DEFINE y == sess'[w]
  <2>1. Works(w)
    BY <1>1, <1>4, StepIsActive DEF ControlBeside
  <2>2. Established(w) /\ Moves(x, y) /\ \A t \in Sessions \ {w} : sess'[t] = sess[t]
    BY <1>1, <1>4, <2>1, SerialSessionStep, StepMoves DEF Works
  <2>3. CASE x.pc \notin Labels
    <3>1. sess' = [sess EXCEPT ![w].row = db] /\ UNCHANGED <<db, proc>>
      BY <1>1, <1>4, <2>3, OnlyLoad DEF Load
    <3>2. y.pc = x.pc /\ y.after = x.after /\ y.row = db /\ db \in Rows
      BY <1>1, <3>1 DEF BackupSessions, SessionsOver, Typed
    <3>3. y.pc # "idle" /\ y.row # Expired
      BY <2>3, <3>2, ConstantsAssumption DEF Labels
    <3> QED BY <1>1, <2>1, <2>2, <3>1, <3>2, <3>3 DEF Works, Established, Calls
  <2>4. CASE x.pc \in Labels
    <3>1. y.pc \in Labels \cup Returns
      BY <1>1, <2>1, <2>2, <2>4 DEF Works, Moves, Calls
    <3>2. Calls(y) => y.after \in Labels \cup Returns
      BY <2>1, <2>2 DEF Works, Moves
    <3>3. y.pc \notin Quiet \cup {"rs_copy", "rs_commit"}
      BY <3>1, PlainLabels DEF Labels, Returns
    <3> QED BY <1>1, <2>2, <3>2, <3>3 DEF Works, Established
  <2> QED BY <2>3, <2>4
<1>5. ASSUME NEW r \in BackupRequests, NEW target \in 1 .. MaxRow, BackupArrive(w, r, target)
      PROVE  (\A t \in Sessions \ {w} : sess'[t] = sess[t]) /\ Works(w)' /\ sess'[w].pc # "idle"
  <2> DEFINE new == [IdleSession EXCEPT
               !.req = r, !.row = db,
               !.pc = IF r = "delete" THEN "del_files" ELSE "refresh",
               !.after = CASE r = "backup"  -> "bk_checked"
                           [] r = "gated"   -> "gate_checked"
                           [] r = "restore" -> "rs_checked"
                           [] r = "delete"  -> "idle"]
  <2>1. Consistent(db) /\ Servers \subseteq {db.pid}
    BY <1>5 DEF ControlBeside, BackupArrive
  <2>2. /\ new.pc = IF r = "delete" THEN "del_files" ELSE "refresh"
        /\ new.row = db
        /\ new.after \in {"bk_checked", "gate_checked", "rs_checked", "idle"}
    BY DEF IdleSession, BackupRequests
  <2>3. sess' = [sess EXCEPT ![w] = new] /\ UNCHANGED <<db, proc>>
    BY <1>5 DEF BackupArrive
  <2> HIDE DEF new
  <2>4. sess'[w] = new /\ \A t \in Sessions \ {w} : sess'[t] = sess[t]
    BY <1>1, <2>3
  <2>5. SerialControl(new)
    BY <2>2 DEF SerialControl, Targeting, Busy
  <2>6. SerialKnows(sess[w])'
    BY <2>1, <2>2, <2>3, <2>4 DEF SerialKnows, Servers, Targeting
  <2>7. /\ new.pc \notin Quiet \cup {"rs_copy", "rs_commit", "idle"}
        /\ new.after \in Labels \cup Returns
    BY <2>2 DEF Quiet, Snapshotting, Labels, Returns
  <2> QED BY <1>1, <2>1, <2>3, <2>4, <2>5, <2>6, <2>7 DEF Works, Consistent
<1>6. CASE BackupStep(w)
  <2>1. Works(w)
    BY <1>1, <1>6, BackupStepIsActive DEF ControlBeside
  <2>2. /\ db' = db /\ proc' = proc /\ sess[w].pc # "record_pid"
        /\ \A t \in Sessions \ {w} : sess'[t] = sess[t]
        /\ sess'[w].pc # "idle" => Works(w)'
    BY <1>1, <1>6, <2>1, WorksSteps
  <2>3. Consistent(db)' /\ Servers' \subseteq {db'.pid}
    BY <2>1, <2>2 DEF Works, SerialKnows, Consistent, Servers
  <2> QED BY <2>2, <2>3
<1> QED BY <1>2, <1>3, <1>4, <1>5, <1>6

LEMMA ControlStays ==
    ASSUME NEW CONSTANT w, w \in Sessions, ControlBeside(w), BackupTypeInv',
           db' = db, Servers' \subseteq Servers, sess'[w] = sess[w],
           \A s \in Sessions \ {w} : sess'[s].pc \in Deleting
    PROVE  ControlBeside(w)'
<1>1. Typed(BackupLabels, BackupRequests)'
  <2>1. BackupTypeOK' => Typed(BackupLabels, BackupRequests)'
    BY BackupTyped, PTL
  <2> QED BY <2>1 DEF BackupTypeInv
<1>2. CASE sess[w].pc = "idle"
  BY <1>2 DEF ControlBeside, Consistent
<1>3. CASE sess[w].pc # "idle"
  <2>1. SerialKnows(sess[w])'
    BY <1>3 DEF ControlBeside, Works, SerialKnows
  <2>2. Works(w)'
    BY <1>1, <1>3, <2>1 DEF ControlBeside, Works, Consistent, Loaded
  <2> QED BY <1>3, <2>2 DEF ControlBeside
<1> QED BY <1>2, <1>3

LEMMA ControlStep ==
    ASSUME NEW CONSTANT w, Beside(w)
    PROVE  ControlBeside(w) /\ [BackupNext]_allVars => ControlBeside(w)'
<1> SUFFICES ASSUME ControlBeside(w), [BackupNext]_allVars PROVE ControlBeside(w)'
  OBVIOUS
<1>1. BackupTypeInv /\ BackupTypeInv' /\ w \in Sessions /\ db \in Rows
  BY BackupTypeStep DEF ControlBeside, Beside, BackupTypeInv, BackupTypeOK
<1>2. ASSUME NEW s \in Sessions,
             \/ \E r \in Requests : Arrive(s, r)
             \/ Step(s)
             \/ \E r \in BackupRequests, target \in 1 .. MaxRow : BackupArrive(s, r, target)
             \/ BackupStep(s)
      PROVE  ControlBeside(w)'
  <2>1. CASE s = w
    BY <1>1, <1>2, <2>1, ControlWorker
  <2>2. CASE s # w
    <3>1. /\ UNCHANGED <<db, proc>> /\ \A t \in Sessions \ {s} : sess'[t] = sess[t]
          /\ sess'[s].pc \in Deleting
      BY <1>2, <2>2, OthersDelete
    <3>2. sess'[w] = sess[w] /\ \A t \in Sessions \ {w} : sess'[t].pc \in Deleting
      BY <1>1, <2>2, <3>1 DEF ControlBeside
    <3>3. Servers' \subseteq Servers
      BY <3>1 DEF Servers
    <3> QED BY <1>1, <3>1, <3>2, <3>3, ControlStays
  <2> QED BY <2>1, <2>2
<1>3. CASE System
  <2>1. UNCHANGED <<db, sess>> /\ Servers' \subseteq Servers
    BY <1>1, <1>3, ConstantsAssumption
       DEF System, Exit, Reap, Recycle, Servers, BackupTypeInv, BackupTypeOK
  <2> QED BY <1>1, <2>1, ControlStays DEF ControlBeside
<1>4. CASE RestartStep
  <2>1. /\ \A s \in Sessions : sess'[s].pc = "idle"
        /\ Servers' = {} /\ db' = db
    BY <1>4 DEF RestartStep, UnitRestart, Servers, IdleSession
  <2> QED BY <1>1, <2>1 DEF ControlBeside, Works, Consistent, Deleting
<1>5. CASE Play \/ UNCHANGED allVars
  <2>1. UNCHANGED <<db, proc, sess>>
    BY <1>5 DEF Play, allVars, vars
  <2> QED BY <1>1, <2>1, ControlStays DEF ControlBeside, Servers
<1>6. ~Crash /\ \A s \in Sessions : ~Locked(s)
  BY DEF Beside, Crash, Locked
<1> QED
  BY <1>2, <1>3, <1>4, <1>5, <1>6 DEF BackupNext, ProcessStep, Running

LEMMA ControlAlways ==
    ASSUME NEW CONSTANT w, Beside(w) PROVE BackupSpec => []ControlBeside(w)
BY ControlInit, ControlStep, PTL DEF BackupSpec

(* The worker's session is the only one that serves.                       *)
LEMMA BesideServes ==
    ASSUME NEW CONSTANT w, Beside(w)
    PROVE  ControlBeside(w) => Serves(BackupLabels, BackupRequests)
<1> SUFFICES ASSUME ControlBeside(w) PROVE Serves(BackupLabels, BackupRequests)
  OBVIOUS
<1>1. Typed(BackupLabels, BackupRequests) /\ w \in Sessions
  BY BackupTyped DEF ControlBeside, Beside, BackupTypeInv
<1>2. Working \subseteq {w}
  BY DEF ControlBeside, Deleting, Working
<1>3. Consistent(db) /\ (w \in Working => SerialControl(sess[w]) /\ SerialKnows(sess[w]))
  BY DEF ControlBeside, Works, Working
<1>4. CASE Working = {}
  <2>1. sess[w].pc \in Deleting
    BY <1>1, <1>4 DEF Working, Deleting
  <2>2. Servers \subseteq {db.pid}
    BY <2>1 DEF ControlBeside, Works, SerialKnows, Deleting
  <2> QED BY <1>1, <1>3, <1>4, <2>2 DEF Serves
<1> QED BY <1>1, <1>2, <1>3, <1>4 DEF Serves

LEMMA BesideServesThen ==
    ASSUME NEW CONSTANT w, Beside(w)
    PROVE  ControlBeside(w)' => Serves(BackupLabels, BackupRequests)'
BY BesideServes, PTL

(* Deleting backups while a server is started, stopped, backed up or       *)
(* restored leaves no server unrecorded.                                   *)
THEOREM BesideNoOrphan ==
    ASSUME NEW CONSTANT w, Beside(w) PROVE BackupSpec => []NoOrphan
<1>1. ControlBeside(w) => NoOrphan
  BY BesideServes, SerialControls
<1> QED BY <1>1, ControlAlways, PTL

(* Nor does it let a second one be launched.                               *)
THEOREM BesideAtMostOneServer ==
    ASSUME NEW CONSTANT w, Beside(w) PROVE BackupSpec => []AtMostOneServer
<1>1. ControlBeside(w) => AtMostOneServer
  BY BesideServes, SerialControls
<1> QED BY <1>1, ControlAlways, PTL

(* Status and pid of the server's row agree all the while.                 *)
THEOREM BesideRowConsistent ==
    ASSUME NEW CONSTANT w, Beside(w) PROVE BackupSpec => []RowConsistent
<1>1. ControlBeside(w) => RowConsistent
  BY BesideServes, SerialControls
<1> QED BY <1>1, ControlAlways, PTL

(* Nobody runs while the worker is at a quiet label.                       *)
LEMMA QuietBeside ==
    ASSUME NEW CONSTANT w, Beside(w), ControlBeside(w), NEW s \in Sessions,
           sess[s].pc \in Quiet
    PROVE  s = w /\ Servers = {}
<1>1. Deleting \cap Quiet = {} /\ "record_pid" \notin Quiet /\ "idle" \notin Quiet
  BY DEF Deleting, Quiet, Snapshotting
<1>2. s = w
  BY <1>1 DEF ControlBeside
<1>3. Works(w) /\ sess[w].pc # "record_pid"
  BY <1>1, <1>2 DEF ControlBeside
<1>4. Servers \subseteq {NoPid}
  BY <1>2, <1>3 DEF Works, SerialKnows
<1> QED BY <1>2, <1>4, ConstantsAssumption DEF Servers

(* A snapshot beside deletions still reads a directory in which no server  *)
(* runs ...                                                                *)
THEOREM BesideQuietSnapshot ==
    ASSUME NEW CONSTANT w, Beside(w) PROVE BackupSpec => []QuietSnapshot
<1>1. ControlBeside(w) => QuietSnapshot
  BY QuietBeside DEF QuietSnapshot, Quiet, Snapshotting
<1> QED BY <1>1, ControlAlways, PTL

(* ... and a restore overwrites one.                                       *)
THEOREM BesideQuietRestore ==
    ASSUME NEW CONSTANT w, Beside(w) PROVE BackupSpec => []QuietRestore
<1>1. ControlBeside(w) => QuietRestore
  BY QuietBeside DEF QuietRestore, Quiet
<1> QED BY <1>1, ControlAlways, PTL

LEMMA BesideStutters ==
    ASSUME NEW CONSTANT w, Beside(w), ControlBeside(w), ControlBeside(w)',
           NEW s \in Sessions,
           \/ \E r \in BackupRequests, target \in 1 .. MaxRow : BackupArrive(s, r, target)
           \/ BackupStep(s)
    PROVE  UNCHANGED <<Servers, db.pid, Launched>>
<1>1. w \in Sessions /\ "record_pid" \notin Deleting
  BY DEF Beside, Deleting
<1>2. CASE s # w
  <2>1. /\ UNCHANGED <<db, proc>> /\ \A t \in Sessions \ {s} : sess'[t] = sess[t]
        /\ sess'[s].pc \in Deleting /\ sess[s].pc \in Deleting
    BY <1>2, OthersDelete DEF ControlBeside
  <2>2. Recording' = Recording /\ s \notin Recording
    BY <1>1, <2>1 DEF Recording
  <2>3. Launched' = Launched
    BY <2>1, <2>2, LaunchedKept DEF Recording
  <2> QED BY <2>1, <2>3 DEF Servers
<1>3. ASSUME Recording = {}, Recording' = {}, db' = db, proc' = proc
      PROVE  UNCHANGED <<Servers, db.pid, Launched>>
  BY <1>3 DEF Servers, Launched
<1>4. /\ \A t \in Sessions \ {w} : sess[t].pc # "record_pid"
      /\ \A t \in Sessions \ {w} : sess'[t].pc # "record_pid"
  BY <1>1 DEF ControlBeside
<1>5. ASSUME s = w, NEW r \in BackupRequests, NEW target \in 1 .. MaxRow,
             BackupArrive(s, r, target)
      PROVE  UNCHANGED <<Servers, db.pid, Launched>>
  <2>1. /\ UNCHANGED <<db, proc>> /\ sess[w].pc # "record_pid"
        /\ sess'[w].pc # "record_pid"
    <3>1. sess \in [Sessions -> BackupSessions]
      BY DEF ControlBeside, BackupTypeInv, BackupTypeOK, BackupSessions, SessionsOver
    <3> QED BY <1>1, <1>5, <3>1 DEF BackupArrive, IdleSession
  <2> QED BY <1>3, <1>4, <2>1 DEF Recording
<1>6. CASE s = w /\ BackupStep(s)
  <2>1. Works(w)
    BY <1>1, <1>6, BackupStepIsActive DEF ControlBeside
  <2>2. Typed(BackupLabels, BackupRequests)'
    BY BesideServesThen DEF Serves
  <2>3. /\ db' = db /\ proc' = proc
        /\ sess[w].pc # "record_pid" /\ sess'[w].pc # "record_pid"
    BY <1>1, <1>6, <2>1, <2>2, WorksSteps
  <2> QED BY <1>3, <1>4, <2>3 DEF Recording
<1> QED BY <1>2, <1>5, <1>6

(* With deletions at any moment, process control and the backups and       *)
(* restores of the worker's session implement the abstract life cycle.     *)
THEOREM BesideImplementsLifecycle ==
    ASSUME NEW CONSTANT w, Beside(w) PROVE BackupSpec => LifecycleSpec
<1>1. BackupInit => Lifecycle!Init
  BY LifecycleInit DEF BackupInit
<1>2. ControlBeside(w) /\ ControlBeside(w)' /\ [BackupNext]_allVars
          => [Lifecycle!Next]_<<Servers, db.pid, Launched>>
  <2> SUFFICES ASSUME ControlBeside(w), ControlBeside(w)', [BackupNext]_allVars
               PROVE  [Lifecycle!Next]_<<Servers, db.pid, Launched>>
    OBVIOUS
  <2>1. Serves(BackupLabels, BackupRequests) /\ Serves(BackupLabels, BackupRequests)'
    BY BesideServes, BesideServesThen
  <2>2. CASE ProcessStep \/ RestartStep
    <3>1. Next /\ "record_pid" \notin BackupLabels
      BY <2>2 DEF ProcessStep, RestartStep, Next, BackupLabels
    <3>2. ASSUME NEW s \in Sessions, NEW r \in Requests, Arrive(s, r)
          PROVE  Working = {}
      <4>1. s = w /\ sess[w].pc = "idle"
        BY <3>2 DEF Arrive, Beside, Requests
      <4> QED BY <4>1 DEF ControlBeside, Deleting, Working
    <3> QED BY <2>1, <3>1, <3>2, LifecycleStep DEF Beside
  <2>3. CASE Play \/ UNCHANGED allVars
    <3>1. UNCHANGED <<db, proc, sess>>
      BY <2>3 DEF Play, allVars, vars
    <3> QED BY <3>1 DEF Servers, Launched, Recording
  <2> QED BY <2>2, <2>3, BesideStutters DEF BackupNext
<1> QED BY <1>1, <1>2, ControlAlways, PTL DEF BackupSpec, LifecycleSpec, Lifecycle!Spec

(* What the worker knows of its row and its directory, when the row may be *)
(* deleted under it: it is the one it inserted for as long as it is there. *)
Writing == {"snap_insert", "snap_begin", "snap_copy", "snap_commit"}

WorkKnows(x, j) ==
    /\ x.pc \in Writing \ {"snap_commit"} => j.name[1] = second /\ second < MaxSecond
    /\ x.pc \in {"snap_begin", "snap_copy"} /\ j.own \in DOMAIN rows =>
          rows[j.own].name = j.name /\ rows[j.own].status = "in_progress"
    /\ x.pc = "snap_copy" => j.seen # "torn" /\ ~j.raced
    /\ x.pc = "snap_commit" /\ j.own \in DOMAIN rows => disk[rows[j.own].name] # "torn"
    /\ Past(DOMAIN rows \ Copied(x, j))

DataBeside(w) == WorkKnows(sess[w], job[w]) /\ NamesDiffer /\ OkMeansWhole

LEMMA DataInit ==
    ASSUME NEW CONSTANT w, Beside(w) PROVE BackupInit => DataBeside(w)
<1> SUFFICES ASSUME BackupInit PROVE DataBeside(w)
  OBVIOUS
<1>1. sess[w].pc = "idle" /\ DOMAIN rows = {}
  BY DEF BackupInit, Init, IdleSession, Beside
<1>2. WorkKnows(sess[w], job[w])
  BY <1>1 DEF WorkKnows, Writing, Past
<1> QED BY <1>1, <1>2 DEF DataBeside, NamesDiffer, OkMeansWhole, OkRows

(* A step that inserts and fills nothing, at which the worker stays where  *)
(* it is or neither leaves nor takes up a copy.                            *)
LEMMA DataStays ==
    ASSUME NEW CONSTANT w, DataBeside(w), second' = second,
           DOMAIN rows' \subseteq DOMAIN rows, \A i \in DOMAIN rows' : rows'[i] = rows[i],
           \A i \in DOMAIN rows' : disk'[rows[i].name] \in {disk[rows[i].name], "absent"},
           \/ sess'[w].pc = sess[w].pc /\ job'[w] = job[w]
           \/ sess[w].pc \notin {"snap_begin", "snap_copy"} /\ sess'[w].pc \notin Writing
    PROVE  DataBeside(w)'
<1>1. NamesDiffer'
  BY DEF DataBeside, NamesDiffer
<1>2. OkMeansWhole'
  <2>1. \A i \in OkRows' : i \in OkRows /\ i \in DOMAIN rows' /\ rows'[i] = rows[i]
    BY DEF OkRows
  <2> QED BY <2>1 DEF DataBeside, OkMeansWhole
<1>3. Past(DOMAIN rows \ Copied(sess[w], job[w]))'
  <2>1. Copied(sess[w], job[w]) \subseteq Copied(sess[w], job[w])'
    BY DEF Copied
  <2> QED BY <2>1 DEF DataBeside, WorkKnows, Past
<1>4. CASE sess'[w].pc = sess[w].pc /\ job'[w] = job[w]
  BY <1>1, <1>2, <1>3, <1>4 DEF DataBeside, WorkKnows
<1>5. CASE sess'[w].pc \notin Writing
  BY <1>1, <1>2, <1>3, <1>5 DEF DataBeside, WorkKnows, Writing
<1> QED BY <1>4, <1>5

(* No row but the worker's names the directory it copies to.               *)
LEMMA WorkerName ==
    ASSUME NEW CONSTANT w, w \in Sessions, BackupTypeInv, DataBeside(w),
           sess[w].pc \in {"snap_begin", "snap_copy"}
    PROVE  /\ job[w].name \in Names
           /\ \A i \in OkRows : i \in DOMAIN rows /\ rows[i].name \in Names
                               /\ rows[i].name # job[w].name
<1>1. job[w].name \in Names /\ \A i \in DOMAIN rows : rows[i].name \in Names
  BY DEF BackupTypeInv, BackupTypeOK, BackupRows, Jobs
<1>2. job[w].name[1] = second /\ second \in Nat
  BY DEF DataBeside, WorkKnows, Writing, BackupTypeInv, BackupTypeOK
<1>3. \A i \in DOMAIN rows \ {job[w].own} : rows[i].name[1] < second
  BY DEF DataBeside, WorkKnows, Past, Copied
<1>4. \A i \in DOMAIN rows : i = job[w].own => i \notin OkRows
  BY DEF DataBeside, WorkKnows, OkRows
<1> QED BY <1>1, <1>2, <1>3, <1>4 DEF OkRows

(* The worker ends its copy, or is killed: a second passes.                *)
LEMMA AllPast ==
    ASSUME NEW CONSTANT w, w \in Sessions, BackupTypeInv, DataBeside(w),
           rows' = rows, second' = Later
    PROVE  Past(DOMAIN rows)'
<1>1. /\ second \in 0 .. MaxSecond
      /\ \A i \in DOMAIN rows : rows[i].name[1] \in Nat
  BY DEF BackupTypeInv, BackupTypeOK, BackupRows, Names
<1>2. \A i \in DOMAIN rows \ Copied(sess[w], job[w]) : rows[i].name[1] < second
  BY DEF DataBeside, WorkKnows, Past
<1>3. second' \in Nat /\ second <= second'
  BY <1>1, LaterTyped, BackupAssumption
<1>4. ASSUME NEW i \in DOMAIN rows, i \in Copied(sess[w], job[w])
      PROVE  rows[i].name[1] < second'
  <2>1. sess[w].pc \in {"snap_begin", "snap_copy"} /\ i = job[w].own
    BY <1>4 DEF Copied
  <2>2. rows[i].name[1] = second /\ second < MaxSecond
    BY <1>4, <2>1 DEF DataBeside, WorkKnows, Writing
  <2> QED BY <1>1, <2>2, BackupAssumption DEF Later
<1> QED BY <1>1, <1>2, <1>3, <1>4 DEF Past

LEMMA DataRestart ==
    ASSUME NEW CONSTANT w, Beside(w), BackupTypeInv, DataBeside(w), RestartStep
    PROVE  DataBeside(w)'
<1>1. /\ w \in Sessions /\ sess'[w].pc = "idle"
      /\ rows' = rows /\ disk' = disk /\ second' = Later
  BY DEF Beside, RestartStep, UnitRestart, IdleSession
<1>2. Past(DOMAIN rows)'
  BY <1>1, AllPast
<1>3. WorkKnows(sess[w], job[w])'
  BY <1>1, <1>2 DEF WorkKnows, Writing, Past, Copied
<1> QED BY <1>1, <1>3 DEF DataBeside, NamesDiffer, OkMeansWhole, OkRows

LEMMA LandsAt ==
    ASSUME sess \in [Sessions -> BackupSessions], NEW s \in Sessions
    PROVE  /\ \A l : Goto(s, l) => sess'[s].pc = l
           /\ \A l : GotoExpired(s, l) => sess'[s].pc = l
           /\ \A l : Refresh(s, l) => sess'[s].pc = "refresh"
           /\ sess' = [sess EXCEPT ![s] = IdleSession] => sess'[s].pc = "idle"
<1>1. \A l : Goto(s, l) => sess'[s].pc = l
  BY DEF Goto, BackupSessions, SessionsOver
<1>2. \A l : GotoExpired(s, l) => sess'[s].pc = l
  BY DEF GotoExpired, BackupSessions, SessionsOver
<1>3. \A l : Refresh(s, l) => sess'[s].pc = "refresh"
  BY DEF Refresh, BackupSessions, SessionsOver
<1>4. sess' = [sess EXCEPT ![s] = IdleSession] => sess'[s].pc = "idle"
  BY DEF IdleSession
<1> QED BY <1>1, <1>2, <1>3, <1>4

(* The worker's snapshot, step by step.                                    *)
LEMMA DataInsert ==
    ASSUME NEW CONSTANT w, Beside(w), BackupTypeInv, DataBeside(w), SnapshotInsert(w)
    PROVE  DataBeside(w)'
<1> DEFINE r == [name |-> job[w].name, type |-> job[w].type, status |-> "in_progress"]
<1>1. /\ w \in Sessions /\ sess[w].pc = "snap_insert" /\ GotoExpired(w, "snap_begin")
      /\ disk' = disk /\ second' = second /\ NewId <= MaxRow
      /\ rows' = [i \in DOMAIN rows \cup {NewId} |-> IF i = NewId THEN r ELSE rows[i]]
      /\ Job(w, "own", NewId)
  BY DEF Beside, SnapshotInsert
<1>2. /\ DataTyped /\ job \in [Sessions -> Jobs] /\ sess \in [Sessions -> BackupSessions]
      /\ NamesDiffer /\ OkMeansWhole
  BY DEF BackupTypeInv, BackupTypeOK, DataTyped, DataBeside, BackupSessions, SessionsOver
<1>3. NewId \notin DOMAIN rows
  BY <1>1, <1>2, NewIdFresh DEF DataTyped
<1>4. job'[w] = [job[w] EXCEPT !.own = NewId]
  BY <1>1, <1>2, JobWrites, JobAfter
<1>5. job'[w].own = NewId /\ job'[w].name = job[w].name
  BY <1>1, <1>2, <1>4 DEF Jobs
<1>6. sess'[w].pc = "snap_begin"
  BY <1>1, <1>2, LandsAt
<1>7. r.name = job[w].name /\ r.status = "in_progress"
  OBVIOUS
<1> HIDE DEF r
<1>8. /\ DOMAIN rows' = DOMAIN rows \cup {NewId} /\ rows'[NewId] = r
      /\ \A i \in DOMAIN rows : rows'[i] = rows[i]
  BY <1>1, <1>3
<1>9. job[w].name[1] = second /\ second < MaxSecond /\ second \in Nat
  BY <1>1, <1>2 DEF DataBeside, WorkKnows, Writing, DataTyped
<1>10. \A i \in DOMAIN rows : rows[i].name[1] < second
  BY <1>1 DEF DataBeside, WorkKnows, Past, Copied
<1>11. WorkKnows(sess[w], job[w])'
  <2>1. Copied(sess[w], job[w])' = {NewId}
    BY <1>5, <1>6 DEF Copied
  <2>2. Past(DOMAIN rows \ Copied(sess[w], job[w]))'
    BY <1>1, <1>8, <1>10, <2>1 DEF Past
  <2> QED BY <1>1, <1>5, <1>6, <1>7, <1>8, <1>9, <2>2 DEF WorkKnows
<1>12. NamesDiffer'
  <2>1. \A i \in DOMAIN rows : rows[i].name[1] \in Nat
    BY <1>2 DEF DataTyped, BackupRows, Names
  <2>2. \A i \in DOMAIN rows : rows[i].name # job[w].name
    BY <1>9, <1>10, <2>1
  <2> QED BY <1>2, <1>7, <1>8, <2>2 DEF NamesDiffer
<1>13. OkMeansWhole'
  <2>1. \A i \in OkRows' : i \in OkRows /\ rows'[i] = rows[i]
    BY <1>7, <1>8 DEF OkRows
  <2> QED BY <1>1, <1>2, <2>1 DEF OkMeansWhole
<1> QED BY <1>11, <1>12, <1>13 DEF DataBeside

LEMMA DataBegin ==
    ASSUME NEW CONSTANT w, Beside(w), BackupTypeInv, DataBeside(w), SnapshotBegin(w)
    PROVE  DataBeside(w)'
<1>1. /\ w \in Sessions /\ sess[w].pc = "snap_begin" /\ Goto(w, "snap_copy")
      /\ disk' = [disk EXCEPT ![job[w].name] = IF @ = world THEN @ ELSE "torn"]
      /\ job' = [job EXCEPT ![w] = [@ EXCEPT !.seen = world, !.raced = FALSE]]
      /\ rows' = rows /\ second' = second
  BY DEF Beside, SnapshotBegin
<1>2. /\ disk \in [Names -> Contents] /\ job \in [Sessions -> Jobs] /\ world # "torn"
      /\ sess \in [Sessions -> BackupSessions] /\ NamesDiffer /\ OkMeansWhole
  BY BackupAssumption
     DEF BackupTypeInv, BackupTypeOK, DataBeside, BackupSessions, SessionsOver
<1>3. job'[w].seen = world /\ job'[w].own = job[w].own /\ job'[w].name = job[w].name
  BY <1>1, <1>2 DEF Jobs
<1>4. ~job'[w].raced
  BY <1>1, <1>2 DEF Jobs
<1>5. sess'[w].pc = "snap_copy"
  BY <1>1, <1>2, LandsAt
<1>6. WorkKnows(sess[w], job[w])'
  BY <1>1, <1>2, <1>3, <1>4, <1>5 DEF DataBeside, WorkKnows, Writing, Past, Copied
<1>7. NamesDiffer'
  BY <1>1, <1>2 DEF NamesDiffer
<1>8. OkMeansWhole'
  <2>1. OkRows' = OkRows
    BY <1>1 DEF OkRows
  <2>2. \A i \in OkRows : disk'[rows[i].name] = disk[rows[i].name]
    BY <1>1, <1>2, WorkerName
  <2> QED BY <1>1, <1>2, <2>1, <2>2 DEF OkMeansWhole
<1> QED BY <1>6, <1>7, <1>8 DEF DataBeside

LEMMA DataCopy ==
    ASSUME NEW CONSTANT w, Beside(w), BackupTypeInv, DataBeside(w), SnapshotCopy(w)
    PROVE  DataBeside(w)'
<1>1. /\ w \in Sessions /\ sess[w].pc = "snap_copy" /\ rows' = rows /\ second' = Later
      /\ Goto(w, "snap_commit") \/ Goto(w, "snap_failed")
  BY DEF Beside, SnapshotCopy
<1>2. /\ disk \in [Names -> Contents] /\ job \in [Sessions -> Jobs]
      /\ sess \in [Sessions -> BackupSessions] /\ NamesDiffer /\ OkMeansWhole
      /\ job[w].seen # "torn" /\ ~job[w].raced /\ job[w].name \in Names
  BY <1>1, WorkerName
     DEF BackupTypeInv, BackupTypeOK, DataBeside, WorkKnows, BackupSessions, SessionsOver
<1>3. /\ Goto(w, "snap_commit") => sess'[w].pc = "snap_commit"
      /\ Goto(w, "snap_failed") => sess'[w].pc = "snap_failed"
  BY <1>1, <1>2, LandsAt
<1>4. Past(DOMAIN rows)' /\ NamesDiffer'
  <2>1. Past(DOMAIN rows)'
    BY <1>1, AllPast
  <2> QED BY <1>1, <1>2, <2>1 DEF NamesDiffer
<1>5. OkRows' = OkRows /\ \A i \in OkRows : rows[i].name # job[w].name
                                        /\ rows[i].name \in Names
  BY <1>1, WorkerName DEF OkRows
<1>6. CASE /\ Goto(w, "snap_commit") /\ CopyEnded(w, job[w].ok)
           /\ disk' = [disk EXCEPT ![job[w].name] =
                           IF job[w].raced THEN "torn" ELSE job[w].seen]
  <2>1. job'[w].own = job[w].own
    BY <1>1, <1>2, <1>6 DEF CopyEnded, Jobs
  <2>2. job[w].own \in DOMAIN rows => rows[job[w].own].name = job[w].name
    BY <1>1 DEF DataBeside, WorkKnows
  <2>3. disk'[job[w].name] # "torn"
    BY <1>2, <1>6
  <2>4. WorkKnows(sess[w], job[w])'
    BY <1>1, <1>3, <1>4, <1>6, <2>1, <2>2, <2>3 DEF WorkKnows, Writing, Past, Copied
  <2>5. OkMeansWhole'
    BY <1>1, <1>2, <1>5, <1>6 DEF OkMeansWhole
  <2> QED BY <1>4, <2>4, <2>5 DEF DataBeside
<1>7. CASE Goto(w, "snap_failed") /\ UNCHANGED disk
  <2>1. WorkKnows(sess[w], job[w])'
    BY <1>3, <1>4, <1>7 DEF WorkKnows, Writing, Past, Copied
  <2>2. OkMeansWhole'
    BY <1>1, <1>2, <1>5, <1>7 DEF OkMeansWhole
  <2> QED BY <1>4, <2>1, <2>2 DEF DataBeside
<1> QED BY <1>6, <1>7 DEF SnapshotCopy

(* A deletion or a pruning only takes away.                                *)
LEMMA FewerData ==
    ASSUME DataTyped,
           \/ rows' = rows /\ \E names : disk' = Erased(names)
           \/ disk' = disk /\ \E ids : rows' = Without(ids)
    PROVE  /\ DOMAIN rows' \subseteq DOMAIN rows
           /\ \A i \in DOMAIN rows' : rows'[i] = rows[i]
           /\ \A i \in DOMAIN rows' : disk'[rows[i].name] \in {disk[rows[i].name], "absent"}
<1>1. \A i \in DOMAIN rows : rows[i].name \in Names
  BY DEF DataTyped, BackupRows
<1> QED BY <1>1 DEF Erased, Without

LEMMA DataCommit ==
    ASSUME NEW CONSTANT w, Beside(w), BackupTypeInv, DataBeside(w), SnapshotCommit(w)
    PROVE  DataBeside(w)'
<1> DEFINE own == job[w].own
<1>1. /\ w \in Sessions /\ sess[w].pc \in {"snap_commit", "snap_failed"}
      /\ disk' = disk /\ second' = second
  BY DEF Beside, SnapshotCommit
<1>2. /\ DataTyped /\ sess \in [Sessions -> BackupSessions]
      /\ NamesDiffer /\ OkMeansWhole /\ Past(DOMAIN rows)
  BY <1>1 DEF BackupTypeInv, BackupTypeOK, DataTyped, DataBeside, WorkKnows, Copied, Past,
     BackupSessions, SessionsOver
<1>3. sess'[w].pc \notin Writing
  <2>1. \/ \E l \in {"prune", "rs_begin", "bk_finally", "rs_ret"} :
              Goto(w, l) \/ GotoExpired(w, l)
        \/ sess' = [sess EXCEPT ![w] = IdleSession]
    BY DEF SnapshotCommit
  <2>2. sess'[w].pc \in {"prune", "rs_begin", "bk_finally", "rs_ret", "idle"}
    BY <1>1, <1>2, <2>1, LandsAt
  <2> QED BY <2>2 DEF Writing
<1>4. CASE rows' = rows
  BY <1>1, <1>3, <1>4, DataStays
<1>5. ASSUME own \in DOMAIN rows, NEW v \in {"ok", "failed"},
             rows' = [rows EXCEPT ![own].status = v],
             v = "ok" => sess[w].pc = "snap_commit"
      PROVE  DataBeside(w)'
  <2>1. /\ DOMAIN rows' = DOMAIN rows
        /\ \A k \in DOMAIN rows : /\ rows'[k].name = rows[k].name
                                  /\ rows'[k].type = rows[k].type
                                  /\ rows'[k].status = IF k = own THEN v ELSE rows[k].status
    BY <1>2, <1>5, StatusTyped
  <2>2. v = "ok" => disk[rows[own].name] # "torn"
    BY <1>5 DEF DataBeside, WorkKnows
  <2>3. OkMeansWhole'
    BY <1>1, <1>2, <2>1, <2>2 DEF OkMeansWhole, OkRows
  <2>4. NamesDiffer'
    BY <1>2, <2>1 DEF NamesDiffer
  <2>5. Past(DOMAIN rows \ Copied(sess[w], job[w]))'
    BY <1>1, <1>2, <2>1 DEF Past
  <2> QED BY <1>3, <2>3, <2>4, <2>5 DEF DataBeside, WorkKnows, Writing
<1> QED BY <1>4, <1>5 DEF SnapshotCommit

(* Every other step of the worker.                                         *)
LEMMA DataWorker ==
    ASSUME NEW CONSTANT w, Beside(w), BackupTypeInv, DataBeside(w), BackupStep(w)
    PROVE  DataBeside(w)'
<1>1. /\ Typed(BackupLabels, BackupRequests) /\ DataTyped /\ w \in Sessions
      /\ sess \in [Sessions -> BackupSessions]
  BY BackupTyped DEF BackupTypeInv, BackupTypeOK, DataTyped, Beside, BackupSessions, SessionsOver
<1>2. CASE \/ SnapshotInsert(w) \/ SnapshotBegin(w) \/ SnapshotCopy(w) \/ SnapshotCommit(w)
  BY <1>2, DataInsert, DataBegin, DataCopy, DataCommit
<1>3. CASE SnapshotName(w)
  <2>1. UNCHANGED bvars /\ sess[w].pc = "snap_name"
    BY <1>3 DEF SnapshotName
  <2>2. CASE Goto(w, "snap_failed")
    <3>1. sess'[w].pc = "snap_failed"
      BY <1>1, <2>2, LandsAt
    <3> QED BY <2>1, <3>1, DataStays, SameData DEF Writing
  <2>3. ASSUME NEW k \in 0 .. MaxSuffix, second < MaxSecond, Goto(w, "snap_insert"),
               Job(w, "name", <<second, k>>)
        PROVE  DataBeside(w)'
    <3>1. sess'[w].pc = "snap_insert"
      BY <1>1, <2>3, LandsAt
    <3>2. job'[w].name[1] = second
      BY <1>1, <2>3 DEF Job, Jobs, BackupTypeInv, BackupTypeOK
    <3>3. WorkKnows(sess[w], job[w])'
      BY <2>1, <2>3, <3>1, <3>2, SameData DEF DataBeside, WorkKnows, Writing, Past, Copied
    <3> QED BY <2>1, <3>3, SameData DEF DataBeside, NamesDiffer
  <2> QED BY <1>3, <2>2, <2>3 DEF SnapshotName
<1>4. CASE PruneFiles(w) \/ PruneCommit(w) \/ DeleteFiles(w) \/ DeleteRow(w)
  <2>1. /\ sess[w].pc \in {"prune", "prune_commit", "del_files", "del_row"}
        /\ second' = second
        /\ \/ rows' = rows /\ \E names : disk' = Erased(names)
           \/ disk' = disk /\ \E ids : rows' = Without(ids)
        /\ \/ Goto(w, "prune_commit") \/ GotoExpired(w, "bk_finally") \/ Goto(w, "del_row")
           \/ sess' = [sess EXCEPT ![w] = IdleSession]
    BY <1>4 DEF PruneFiles, PruneCommit, DeleteFiles, DeleteRow
  <2>2. sess'[w].pc \in {"prune_commit", "bk_finally", "del_row", "idle"}
    BY <1>1, <2>1, LandsAt
  <2>3. sess'[w].pc \notin Writing /\ sess[w].pc \notin {"snap_begin", "snap_copy"}
    BY <2>1, <2>2 DEF Writing
  <2> QED BY <1>1, <2>1, <2>3, FewerData, DataStays
<1>5. CASE /\ UNCHANGED <<disk, rows, second>>
           /\ sess[w].pc \notin {"snap_begin", "snap_copy"}
           /\ \E l : l \notin Writing /\ (Goto(w, l) \/ GotoExpired(w, l))
  <2>1. sess'[w].pc \notin Writing
    BY <1>1, <1>5, LandsAt
  <2> QED BY <1>5, <2>1, DataStays
<1>6. CASE /\ UNCHANGED <<disk, rows, second>>
           /\ sess[w].pc \notin {"snap_begin", "snap_copy"}
           /\ sess'[w].pc \in {"refresh", "idle"}
  BY <1>6, DataStays DEF Writing
<1>7. \A l : Refresh(w, l) => sess'[w].pc = "refresh"
  BY <1>1, LandsAt
<1>8. CASE BackupStopped(w) \/ BackupAnswer(w)
  <2>1. CASE BackupStopped(w)
    <3>1. sess'[w].pc = "refresh"
      BY <1>1, <2>1 DEF BackupStopped, BackupSessions, SessionsOver
    <3> QED BY <1>6, <2>1, <3>1 DEF BackupStopped, bvars
  <2>2. CASE BackupAnswer(w)
    BY <1>1, <1>6, <2>2, LandsAt DEF BackupAnswer, Finished, bvars
  <2> QED BY <1>8, <2>1, <2>2
<1>9. CASE \/ BackupChecked(w) \/ BackupConfirmed(w) \/ BackupFinally(w)
           \/ GateChecked(w) \/ GateStart(w) \/ RestoreChecked(w)
  BY <1>5, <1>6, <1>7, <1>9 DEF BackupChecked, BackupConfirmed, BackupFinally, GateChecked,
     GateStart, RestoreChecked, bvars, Writing
<1>10. CASE RestoreBegin(w) \/ RestoreCopy(w) \/ RestoreCommit(w)
  BY <1>5, <1>10 DEF RestoreBegin, RestoreCopy, RestoreCommit, bvars, Writing
<1> QED
  BY <1>2, <1>3, <1>4, <1>8, <1>9, <1>10 DEF BackupStep

(* The whole step: the worker's, another's deletion, or the system's.      *)
LEMMA DataStep ==
    ASSUME NEW CONSTANT w, Beside(w)
    PROVE  ControlBeside(w) /\ DataBeside(w) /\ [BackupNext]_allVars => DataBeside(w)'
<1> SUFFICES ASSUME ControlBeside(w), DataBeside(w), [BackupNext]_allVars
             PROVE  DataBeside(w)'
  OBVIOUS
<1>1. /\ BackupTypeInv /\ w \in Sessions /\ DataTyped
      /\ sess \in [Sessions -> BackupSessions] /\ job \in [Sessions -> Jobs]
  BY DEF ControlBeside, Beside, BackupTypeInv, BackupTypeOK, DataTyped, BackupSessions,
     SessionsOver
<1>2. ASSUME UNCHANGED bvars, sess'[w].pc = sess[w].pc, job'[w] = job[w]
      PROVE  DataBeside(w)'
  BY <1>2, DataStays DEF bvars
<1>3. ASSUME UNCHANGED bvars, sess[w].pc \notin {"snap_begin", "snap_copy"},
             sess'[w].pc \notin Writing
      PROVE  DataBeside(w)'
  BY <1>3, DataStays DEF bvars
<1>4. ASSUME ProcessStep, UNCHANGED sess[w] PROVE DataBeside(w)'
  <2>1. CASE sess[w].pc = "idle"
    BY <1>3, <1>4, <2>1 DEF ProcessStep, Writing
  <2>2. CASE sess[w].pc # "idle"
    <3>1. job'[w] = job[w]
      BY <1>1, <1>4, <2>2 DEF ProcessStep
    <3> QED BY <1>2, <1>4, <3>1 DEF ProcessStep
  <2> QED BY <2>1, <2>2
<1>5. ASSUME NEW s \in Sessions \ {w}, UNCHANGED sess[w], job'[w] = job[w],
             DeleteFiles(s) \/ DeleteRow(s)
      PROVE  DataBeside(w)'
  <2>1. /\ second' = second
        /\ \/ rows' = rows /\ \E names : disk' = Erased(names)
           \/ disk' = disk /\ \E ids : rows' = Without(ids)
    BY <1>5 DEF DeleteFiles, DeleteRow
  <2> QED BY <1>1, <1>5, <2>1, FewerData, DataStays
<1>6. ASSUME NEW s \in Sessions \ {w}, BackupStep(s) PROVE DataBeside(w)'
  <2>1. /\ DeleteFiles(s) \/ DeleteRow(s)
        /\ sess'[w] = sess[w]
    BY <1>1, <1>6, OthersDelete
  <2>2. job'[w] = job[w]
    BY <1>1, <2>1 DEF DeleteFiles, DeleteRow
  <2> QED BY <1>5, <2>1, <2>2
<1>7. ASSUME NEW s \in Sessions, NEW r \in BackupRequests, NEW target \in 1 .. MaxRow,
             BackupArrive(s, r, target)
      PROVE  DataBeside(w)'
  <2>1. CASE s = w
    <3>1. sess[w].pc = "idle" /\ sess'[w].pc \in {"del_files", "refresh"} /\ UNCHANGED bvars
      BY <1>1, <1>7, <2>1 DEF BackupArrive, IdleSession
    <3> QED BY <1>3, <3>1 DEF Writing
  <2>2. CASE s # w
    <3>1. sess'[w] = sess[w] /\ job'[w] = job[w] /\ UNCHANGED bvars
      BY <1>1, <1>7, <2>2 DEF BackupArrive
    <3> QED BY <1>2, <3>1
  <2> QED BY <2>1, <2>2
<1>8. CASE ProcessStep
  <2>1. ASSUME NEW s \in Sessions, NEW r \in Requests, Arrive(s, r) PROVE DataBeside(w)'
    <3>1. s = w /\ sess[w].pc = "idle"
      BY <2>1 DEF Arrive, Beside, Requests
    <3>2. sess'[w].pc \in {"persist", "refresh"}
      BY <1>1, <2>1, <3>1 DEF Arrive, IdleSession
    <3> QED BY <1>3, <1>8, <3>1, <3>2 DEF ProcessStep, Writing
  <2>2. ASSUME Step(w) PROVE DataBeside(w)'
    <3>1. Works(w) /\ sess[w].pc # "idle"
      BY <1>1, <2>2, StepIsActive DEF ControlBeside
    <3>2. CASE sess[w].pc \notin Labels
      <4>1. sess' = [sess EXCEPT ![w].row = db]
        BY <1>1, <2>2, <3>2, OnlyLoad DEF Load
      <4>2. sess'[w].pc = sess[w].pc
        BY <1>1, <4>1 DEF BackupSessions, SessionsOver
      <4>3. job'[w] = job[w]
        BY <1>1, <1>8, <3>1, <4>2 DEF ProcessStep
      <4> QED BY <1>2, <1>8, <4>2, <4>3 DEF ProcessStep
    <3>3. CASE sess[w].pc \in Labels
      <4>1. Moves(sess[w], sess'[w])
        BY <1>1, <2>2, <3>1, StepMoves DEF Works
      <4>2. sess'[w].pc \in Labels \cup Returns
        BY <1>1, <3>1, <3>3, <4>1 DEF Works, Moves, Calls
      <4>3. Writing \cap (Labels \cup Returns) = {}
        BY DEF Writing, Labels, Returns
      <4> QED BY <1>3, <1>8, <3>3, <4>2, <4>3 DEF ProcessStep, Writing
    <3> QED BY <3>2, <3>3
  <2>3. ASSUME NEW s \in Sessions \ {w}, Step(s) PROVE DataBeside(w)'
    <3>1. sess'[w] = sess[w]
      BY <1>1, <2>3, OthersDelete
    <3> QED BY <1>4, <1>8, <3>1
  <2>4. CASE System
    <3>1. sess' = sess
      BY <2>4 DEF System
    <3> QED BY <1>4, <1>8, <3>1
  <2>5. ~Crash /\ \A s \in Sessions : ~Locked(s)
    BY DEF Beside, Crash, Locked
  <2> QED
    BY <1>8, <2>1, <2>2, <2>3, <2>4, <2>5 DEF ProcessStep, Running
<1>9. CASE Play
  <2>1. /\ Servers # {} /\ job' = Race(Copiers)
        /\ UNCHANGED <<sess, disk, rows, second>>
    BY <1>9 DEF Play
  <2>2. sess[w].pc \notin Quiet
    BY <1>1, <2>1, QuietBeside
  <2>3. sess[w].pc \notin Writing
    BY <2>2 DEF Writing, Quiet, Snapshotting
  <2> QED BY <2>1, <2>3, DataStays DEF Writing
<1>10. CASE UNCHANGED allVars
  BY <1>2, <1>10 DEF allVars, vars, bvars
<1> QED
  BY <1>1, <1>6, <1>7, <1>8, <1>9, <1>10, DataRestart, DataWorker DEF BackupNext

LEMMA DataAlways ==
    ASSUME NEW CONSTANT w, Beside(w) PROVE BackupSpec => []DataBeside(w)
BY DataInit, DataStep, ControlAlways, PTL DEF BackupSpec

(* Whatever is deleted while a backup is written, retained or restored,    *)
(* one that the table calls "ok" is a complete tree, or is gone.           *)
THEOREM BesideOkMeansWhole ==
    ASSUME NEW CONSTANT w, Beside(w) PROVE BackupSpec => []OkMeansWhole
<1>1. DataBeside(w) => OkMeansWhole
  BY DEF DataBeside
<1> QED BY <1>1, DataAlways, PTL

(* And every good one has a directory to itself: a deletion takes no other *)
(* backup's files with it.                                                 *)
THEOREM BesideOwnDirectory ==
    ASSUME NEW CONSTANT w, Beside(w) PROVE BackupSpec => []OwnDirectory
<1>1. DataBeside(w) => OwnDirectory
  BY DEF DataBeside, NamesDiffer, OwnDirectory, OkRows
<1> QED BY <1>1, DataAlways, PTL

(* What a deletion is about to erase is the directory of its target and of *)
(* no other backup; the same holds of what the worker prunes, where a      *)
(* victim is already gone or still a normal one.                           *)
Copying(w) == sess[w].pc \in {"snap_begin", "snap_copy"}

Erases(w, x, j) ==
    /\ x.pc \in {"del_files", "del_row"} => x.req = "delete"
    /\ x.pc = "del_files" =>
          /\ \A i \in DOMAIN rows \ {j.target} : rows[i].name # j.source
          /\ j.source[1] <= second
          /\ ~Copying(w) => j.source[1] < second

Erasing(w) == \A s \in Sessions : Erases(w, sess[s], job[s])

Pruning(w) == sess[w].pc = "prune_commit" => job[w].victims \cap DOMAIN rows \subseteq Normals

LEMMA EraseInit ==
    ASSUME NEW CONSTANT w, Beside(w) PROVE BackupInit => Erasing(w) /\ Pruning(w)
<1> SUFFICES ASSUME BackupInit PROVE Erasing(w) /\ Pruning(w)
  OBVIOUS
<1>1. \A s \in Sessions : sess[s].pc = "idle"
  BY DEF BackupInit, Init, IdleSession
<1> QED BY <1>1 DEF Beside, Erasing, Erases, Pruning

(* A session that is deleting after a step was so before it, of the same   *)
(* backup.                                                                 *)
DeletesOn(s) ==
    sess'[s].pc \in {"del_files", "del_row"} =>
        /\ sess[s].pc \in {"del_files", sess'[s].pc} /\ sess'[s].req = sess[s].req
        /\ job'[s].target = job[s].target /\ job'[s].source = job[s].source

(* Rows go, or one comes with a name of this second.                       *)
LEMMA EraseStays ==
    ASSUME NEW CONSTANT w, w \in Sessions, BackupTypeInv, BackupTypeInv', Erasing(w),
           second' = second, Copying(w) => sess'[w].pc \in {"snap_begin", "snap_copy"},
           \A i \in DOMAIN rows' : \/ i \in DOMAIN rows /\ rows'[i].name = rows[i].name
                                   \/ rows'[i].name[1] = second /\ ~Copying(w),
           \A s \in Sessions : DeletesOn(s)
    PROVE  Erasing(w)'
<1> SUFFICES ASSUME NEW s \in Sessions, sess'[s].pc \in {"del_files", "del_row"}
             PROVE  Erases(w, sess[s], job[s])'
  BY DEF Erasing, Erases
<1>4. Copying(w) => Copying(w)'
  BY DEF Copying
<1>1. /\ Erases(w, sess[s], job[s]) /\ sess'[s].req = sess[s].req
      /\ sess[s].pc \in {"del_files", sess'[s].pc}
      /\ job'[s].target = job[s].target /\ job'[s].source = job[s].source
  BY DEF Erasing, DeletesOn
<1>2. second \in Nat /\ job[s].source[1] \in Nat
  BY DEF BackupTypeInv, BackupTypeOK, Jobs, Names
<1>3. ASSUME sess'[s].pc = "del_files", NEW i \in DOMAIN rows', i # job[s].target
      PROVE  rows'[i].name # job[s].source
  <2>1. CASE i \in DOMAIN rows /\ rows'[i].name = rows[i].name
    BY <1>1, <1>3, <2>1 DEF Erases
  <2>2. CASE rows'[i].name[1] = second /\ ~Copying(w)
    BY <1>1, <1>2, <1>3, <2>2 DEF Erases
  <2> QED BY <2>1, <2>2
<1> QED BY <1>1, <1>2, <1>3, <1>4 DEF Erases

(* A deletion that arrives finds the names apart.                          *)
LEMMA EraseArrive ==
    ASSUME NEW CONSTANT w, Beside(w), BackupTypeInv, BackupTypeInv', DataBeside(w),
           Erasing(w), NEW s \in Sessions, NEW r \in BackupRequests,
           NEW target \in 1 .. MaxRow, BackupArrive(s, r, target)
    PROVE  Erasing(w)'
<1>1. /\ w \in Sessions /\ DataTyped /\ UNCHANGED bvars
      /\ sess \in [Sessions -> BackupSessions] /\ job \in [Sessions -> Jobs]
      /\ sess[s].pc = "idle" /\ rows' = rows /\ second' = second
  BY SameData DEF Beside, BackupTypeInv, BackupTypeOK, DataTyped, BackupSessions, SessionsOver,
     BackupArrive
<1>2. \A t \in Sessions \ {s} : sess'[t] = sess[t] /\ job'[t] = job[t]
  BY <1>1 DEF BackupArrive
<1>3. Copying(w)' = Copying(w)
  <2>1. sess'[s].pc \in {"del_files", "refresh"}
    BY <1>1 DEF BackupArrive, IdleSession
  <2> QED BY <1>1, <1>2, <2>1 DEF Copying
<1>4. Erases(w, sess[s], job[s])'
  <2>1. CASE r = "delete"
    <3>1. target \in DOMAIN rows /\ sess'[s].pc = "del_files" /\ sess'[s].req = "delete"
      BY <1>1, <2>1 DEF BackupArrive, IdleSession
    <3>2. job'[s].target = target /\ job'[s].source = rows[target].name
      <4>1. job'[s] = [NoJob EXCEPT !.type = "normal", !.target = target,
                                    !.source = rows[target].name]
        BY <1>1, <2>1 DEF BackupArrive
      <4> QED BY <4>1 DEF NoJob
    <3>3. \A i \in DOMAIN rows \ {target} : rows[i].name # rows[target].name
      BY <3>1 DEF DataBeside, NamesDiffer
    <3>4. second \in Nat /\ rows[target].name[1] \in Nat
      BY <1>1, <3>1 DEF DataTyped, BackupRows, Names
    <3>5. CASE target \in Copied(sess[w], job[w])
      <4>1. Copying(w) /\ rows[target].name[1] = second
        BY <3>1, <3>5 DEF Copied, Copying, DataBeside, WorkKnows, Writing
      <4> QED BY <1>1, <1>3, <3>1, <3>2, <3>3, <3>4, <4>1 DEF Erases
    <3>6. CASE target \notin Copied(sess[w], job[w])
      <4>1. rows[target].name[1] < second
        BY <3>1, <3>6 DEF DataBeside, WorkKnows, Past
      <4> QED BY <1>1, <1>3, <3>1, <3>2, <3>3, <3>4, <4>1 DEF Erases
    <3> QED BY <3>5, <3>6
  <2>2. CASE r # "delete"
    <3>1. sess'[s].pc = "refresh"
      BY <1>1, <2>2 DEF BackupArrive, IdleSession
    <3> QED BY <3>1 DEF Erases
  <2> QED BY <2>1, <2>2
<1> QED BY <1>1, <1>2, <1>3, <1>4 DEF Erasing, Erases

(* The jobs of the others: a copy may be marked as raced, nothing else.    *)
LEMMA OthersJobs ==
    ASSUME job \in [Sessions -> Jobs], NEW s \in Sessions, BackupStep(s),
           NEW t \in Sessions \ {s}
    PROVE  job'[t].target = job[t].target /\ job'[t].source = job[t].source
<1>1. CASE RestoreBegin(s)
  <2>1. job' = job \/ job'[t] = Race(Copiers)[t]
    <3>1. Race(Copiers) \in [Sessions -> Jobs]
      BY RaceTyped
    <3> QED BY <1>1, <3>1 DEF RestoreBegin
  <2> QED BY <2>1 DEF Race, Jobs
<1>2. CASE RestoreCopy(s)
  BY <1>2 DEF RestoreCopy, Race, Jobs
<1>3. CASE ~RestoreBegin(s) /\ ~RestoreCopy(s)
  <2>1. job'[t] = job[t]
    BY <1>3 DEF BackupStep, SnapshotName, SnapshotInsert, SnapshotBegin, SnapshotCopy,
       CopyEnded, SnapshotCommit, PruneFiles, PruneCommit, BackupChecked, BackupStopped,
       BackupConfirmed, BackupFinally, GateChecked, GateStart, RestoreChecked,
       RestoreCommit, DeleteFiles, DeleteRow, BackupAnswer, Job
  <2> QED BY <2>1
<1> QED BY <1>1, <1>2, <1>3

LEMMA OwnDeletion ==
    ASSUME sess \in [Sessions -> BackupSessions], NEW s \in Sessions, BackupStep(s)
    PROVE  DeletesOn(s) /\ (sess'[s].pc = "prune_commit" => PruneFiles(s))
<1>1. CASE DeleteFiles(s)
  BY <1>1 DEF DeleteFiles, Goto, DeletesOn, BackupSessions, SessionsOver
<1>3. CASE PruneFiles(s)
  <2>1. sess'[s].pc = "prune_commit"
    BY <1>3, LandsAt DEF PruneFiles, Step1
  <2> QED BY <1>3, <2>1 DEF DeletesOn
<1>2. CASE ~DeleteFiles(s) /\ ~PruneFiles(s)
  <2>1. \/ \E l : l \notin {"del_files", "del_row", "prune_commit"} /\ (Goto(s, l) \/ GotoExpired(s, l))
        \/ \E l : Refresh(s, l)
        \/ sess' = [sess EXCEPT ![s] = IdleSession]
        \/ BackupStopped(s)
    BY <1>2 DEF BackupStep, SnapshotName, SnapshotInsert, SnapshotBegin, SnapshotCopy,
       SnapshotCommit, PruneCommit, BackupChecked, BackupConfirmed, BackupFinally,
       GateChecked, GateStart, RestoreChecked, RestoreBegin, RestoreCopy, RestoreCommit,
       DeleteRow, BackupAnswer, Step1
  <2>2. BackupStopped(s) => sess'[s].pc = "refresh"
    BY DEF BackupStopped, BackupSessions, SessionsOver
  <2>3. sess'[s].pc \notin {"del_files", "del_row", "prune_commit"}
    BY <2>1, <2>2, LandsAt
  <2> QED BY <2>3 DEF DeletesOn
<1> QED BY <1>1, <1>2, <1>3

LEMMA BackupDeletesOn ==
    ASSUME NEW CONSTANT w, Beside(w), ControlBeside(w), NEW s \in Sessions, BackupStep(s),
           NEW t \in Sessions
    PROVE  DeletesOn(t)
<1>1. /\ sess \in [Sessions -> BackupSessions] /\ job \in [Sessions -> Jobs]
      /\ w \in Sessions
  BY DEF ControlBeside, Beside, BackupTypeInv, BackupTypeOK, BackupSessions, SessionsOver
<1>2. ASSUME t # s PROVE sess'[t] = sess[t]
  <2>1. CASE s = w
    <3>1. Works(w)
      BY <1>1, <2>1, BackupStepIsActive DEF ControlBeside
    <3>2. ControlBeside(w)'
      BY ControlStep DEF BackupNext
    <3>3. BackupTypeInv'
      BY <3>2 DEF ControlBeside
    <3> QED BY <1>1, <1>2, <2>1, <3>3, ControlWorker
  <2>2. CASE s # w
    BY <1>2, <2>2, OthersDelete
  <2> QED BY <2>1, <2>2
<1>3. CASE t = s
  BY <1>1, <1>3, OwnDeletion
<1>4. CASE t # s
  BY <1>1, <1>2, <1>4, OthersJobs DEF DeletesOn
<1> QED BY <1>3, <1>4

(* Process control takes the worker neither into its own work nor out.     *)
Same(w) == \/ sess'[w].pc = sess[w].pc
           \/ {sess[w].pc, sess'[w].pc} \cap {"snap_begin", "snap_copy", "prune_commit"} = {}

LEMMA ProcessDeletesOn ==
    ASSUME NEW CONSTANT w, Beside(w), ControlBeside(w), ProcessStep, NEW t \in Sessions
    PROVE  DeletesOn(t) /\ Same(w)
<1>1. /\ BackupTypeInv /\ w \in Sessions /\ Typed(BackupLabels, BackupRequests)
      /\ sess \in [Sessions -> BackupSessions] /\ job \in [Sessions -> Jobs]
  BY BackupTyped DEF ControlBeside, Beside, BackupTypeInv, BackupTypeOK, BackupSessions,
     SessionsOver
<1>2. ControlBeside(w)' /\ BackupTypeInv'
  BY ControlStep DEF ControlBeside, BackupNext
<1>3. ASSUME sess'[t] = sess[t] PROVE DeletesOn(t)
  BY <1>3 DEF ProcessStep, DeletesOn
<1>4. ASSUME NEW r \in Requests, Arrive(w, r)
      PROVE  DeletesOn(t) /\ Same(w)
  <2>1. /\ \A s \in Sessions \ {w} : sess'[s] = sess[s]
        /\ sess[w].pc = "idle" /\ sess'[w].pc \in {"persist", "refresh"}
    BY <1>1, <1>4 DEF Arrive, IdleSession
  <2> QED BY <1>3, <2>1 DEF DeletesOn, Same
<1>5. ASSUME Step(w) PROVE DeletesOn(t) /\ Same(w)
  <2>1. Works(w) /\ \A s \in Sessions \ {w} : sess'[s] = sess[s]
    BY <1>1, <1>2, <1>5, StepIsActive, StepMoves DEF ControlBeside
  <2>2. CASE sess[w].pc \notin Labels
    <3>1. sess' = [sess EXCEPT ![w].row = db]
      BY <1>1, <1>5, <2>2, OnlyLoad DEF Load
    <3>2. sess'[w].pc = sess[w].pc /\ sess'[w].req = sess[w].req
      BY <1>1, <3>1 DEF BackupSessions, SessionsOver
    <3>3. t = w => DeletesOn(t)
      BY <3>2 DEF ProcessStep, DeletesOn
    <3> QED BY <1>3, <2>1, <3>2, <3>3 DEF Same
  <2>3. CASE sess[w].pc \in Labels
    <3>1. Moves(sess[w], sess'[w])
      BY <1>1, <1>5, StepMoves
    <3>2. sess'[w].pc \in Labels \cup Returns
      BY <1>1, <2>1, <2>3, <3>1 DEF Works, Moves, Calls
    <3>3. {"del_files", "del_row", "snap_begin", "snap_copy", "prune_commit"} \cap (Labels \cup Returns) = {}
      BY DEF Labels, Returns
    <3> QED BY <1>3, <2>1, <2>3, <3>2, <3>3 DEF DeletesOn, Same
  <2> QED BY <2>2, <2>3
<1>6. ASSUME NEW s \in Sessions \ {w}, Step(s)
      PROVE  DeletesOn(t) /\ Same(w)
  <2>1. Load(s) /\ sess[s].pc \in Deleting
    <3>1. sess[s].pc \in {"del_files", "del_row"}
      BY <1>6, StepIsActive DEF ControlBeside, Deleting
    <3> QED BY <1>6, <3>1, OnlyLoad DEF Labels, Deleting
  <2>2. sess' = [sess EXCEPT ![s].row = db]
    BY <2>1 DEF Load
  <2>3. /\ sess'[s].pc = sess[s].pc /\ sess'[s].req = sess[s].req
        /\ \A x \in Sessions \ {s} : sess'[x] = sess[x]
    BY <1>1, <2>2 DEF BackupSessions, SessionsOver
  <2>4. t = s => DeletesOn(t)
    BY <2>3 DEF ProcessStep, DeletesOn
  <2> QED BY <1>1, <1>3, <2>3, <2>4 DEF Same
<1>7. CASE System
  BY <1>3, <1>7 DEF System, Same
<1>8. ASSUME NEW s \in Sessions, NEW r \in Requests, Arrive(s, r) PROVE s = w
  BY <1>8 DEF Arrive, Beside, Requests
<1>9. ~Crash /\ \A s \in Sessions : ~Locked(s)
  BY DEF Beside, Crash, Locked
<1> QED
  BY <1>4, <1>5, <1>6, <1>7, <1>8, <1>9 DEF ProcessStep, Running

(* The worker's own step.                                                  *)
LEMMA EraseWorker ==
    ASSUME NEW CONSTANT w, Beside(w), ControlBeside(w), DataBeside(w), Erasing(w),
           BackupTypeInv', BackupStep(w)
    PROVE  Erasing(w)'
<1>1. /\ BackupTypeInv /\ DataTyped /\ w \in Sessions
      /\ sess \in [Sessions -> BackupSessions] /\ job \in [Sessions -> Jobs]
  BY DEF ControlBeside, Beside, BackupTypeInv, BackupTypeOK, DataTyped, BackupSessions,
     SessionsOver
<1>2. \A s \in Sessions : DeletesOn(s)
  BY BackupDeletesOn, <1>1
<1>3. ASSUME second' = second, ~Copying(w),
             \A i \in DOMAIN rows' : i \in DOMAIN rows /\ rows'[i].name = rows[i].name
      PROVE  Erasing(w)'
  BY <1>1, <1>2, <1>3, EraseStays
<1>4. CASE SnapshotInsert(w)
  <2>1. /\ sess[w].pc = "snap_insert" /\ second' = second
        /\ rows' = [i \in DOMAIN rows \cup {NewId} |->
                       IF i = NewId
                       THEN [name |-> job[w].name, type |-> job[w].type,
                             status |-> "in_progress"]
                       ELSE rows[i]]
    BY <1>4 DEF SnapshotInsert
  <2>2. ~Copying(w) /\ job[w].name[1] = second
    BY <2>1 DEF Copying, DataBeside, WorkKnows, Writing
  <2>3. \A i \in DOMAIN rows' : \/ i \in DOMAIN rows /\ rows'[i].name = rows[i].name
                                \/ rows'[i].name[1] = second /\ ~Copying(w)
    BY <2>1, <2>2
  <2> QED BY <1>1, <1>2, <2>1, <2>2, <2>3, EraseStays
<1>5. CASE SnapshotBegin(w)
  <2>1. Goto(w, "snap_copy") /\ rows' = rows /\ second' = second
    BY <1>5 DEF SnapshotBegin
  <2>2. sess'[w].pc = "snap_copy"
    BY <1>1, <2>1, LandsAt
  <2>3. \A i \in DOMAIN rows' : \/ i \in DOMAIN rows /\ rows'[i].name = rows[i].name
                                \/ rows'[i].name[1] = second /\ ~Copying(w)
    BY <2>1
  <2> QED BY <1>1, <1>2, <2>1, <2>2, <2>3, EraseStays
<1>6. CASE SnapshotCopy(w)
  <2>1. sess[w].pc = "snap_copy" /\ rows' = rows /\ second' = Later
    BY <1>6 DEF SnapshotCopy
  <2>2. second \in Nat /\ second' = second + 1
    BY <1>1, <2>1 DEF DataBeside, WorkKnows, Writing, DataTyped, Later
  <2>3. ASSUME NEW s \in Sessions, sess'[s].pc \in {"del_files", "del_row"}
        PROVE  Erases(w, sess[s], job[s])'
    <3>1. /\ Erases(w, sess[s], job[s]) /\ sess'[s].req = sess[s].req
          /\ sess[s].pc \in {"del_files", sess'[s].pc}
          /\ job'[s].target = job[s].target /\ job'[s].source = job[s].source
      BY <1>2, <2>3 DEF Erasing, DeletesOn
    <3>2. job[s].source[1] \in Nat
      BY <1>1 DEF Jobs, Names
    <3> QED BY <2>1, <2>2, <3>1, <3>2 DEF Erases
  <2> QED BY <2>3 DEF Erasing, Erases
<1>7. CASE SnapshotCommit(w)
  <2>1. /\ sess[w].pc \in {"snap_commit", "snap_failed"} /\ second' = second
        /\ \/ rows' = rows
           \/ /\ job[w].own \in DOMAIN rows
              /\ \E v \in {"ok", "failed"} : rows' = [rows EXCEPT ![job[w].own].status = v]
    BY <1>7 DEF SnapshotCommit
  <2>2. \A i \in DOMAIN rows' : i \in DOMAIN rows /\ rows'[i].name = rows[i].name
    BY <1>1, <2>1, StatusTyped
  <2> QED BY <1>3, <2>1, <2>2 DEF Copying
<1>8. CASE PruneFiles(w) \/ PruneCommit(w) \/ DeleteFiles(w) \/ DeleteRow(w)
  <2>1. /\ sess[w].pc \in {"prune", "prune_commit", "del_files", "del_row"}
        /\ second' = second
        /\ rows' = rows \/ \E ids : rows' = Without(ids)
    BY <1>8 DEF PruneFiles, PruneCommit, DeleteFiles, DeleteRow
  <2> QED BY <1>3, <2>1 DEF Copying, Without
<1>9. CASE \/ SnapshotName(w) \/ BackupChecked(w) \/ BackupStopped(w)
           \/ BackupConfirmed(w) \/ BackupFinally(w) \/ GateChecked(w) \/ GateStart(w)
           \/ RestoreChecked(w) \/ RestoreBegin(w) \/ RestoreCopy(w)
           \/ RestoreCommit(w) \/ BackupAnswer(w)
  <2>1. rows' = rows /\ second' = second /\ sess[w].pc \notin {"snap_begin", "snap_copy"}
    BY <1>9 DEF SnapshotName, BackupChecked, BackupStopped, BackupConfirmed, BackupFinally,
       GateChecked, GateStart, RestoreChecked, RestoreBegin, RestoreCopy, RestoreCommit,
       BackupAnswer, Finished, bvars
  <2> QED BY <1>3, <2>1 DEF Copying
<1> QED BY <1>4, <1>5, <1>6, <1>7, <1>8, <1>9 DEF BackupStep

LEMMA EraseStep ==
    ASSUME NEW CONSTANT w, Beside(w)
    PROVE  ControlBeside(w) /\ DataBeside(w) /\ Erasing(w) /\ [BackupNext]_allVars
               => Erasing(w)'
<1> SUFFICES ASSUME ControlBeside(w), DataBeside(w), Erasing(w), [BackupNext]_allVars
             PROVE  Erasing(w)'
  OBVIOUS
<1>1. /\ BackupTypeInv /\ BackupTypeInv' /\ w \in Sessions /\ DataTyped
      /\ job \in [Sessions -> Jobs]
  BY ControlStep DEF ControlBeside, Beside, BackupTypeInv, BackupTypeOK, DataTyped
<1>2. ASSUME second' = second, Copying(w) => Copying(w)', \A s \in Sessions : DeletesOn(s),
             rows' = rows \/ \E ids : rows' = Without(ids)
      PROVE  Erasing(w)'
  <2>1. \A i \in DOMAIN rows' : i \in DOMAIN rows /\ rows'[i].name = rows[i].name
    BY <1>2 DEF Without
  <2>2. Copying(w) => sess'[w].pc \in {"snap_begin", "snap_copy"}
    BY <1>2 DEF Copying
  <2>3. \A i \in DOMAIN rows' : \/ i \in DOMAIN rows /\ rows'[i].name = rows[i].name
                                \/ rows'[i].name[1] = second /\ ~Copying(w)
    BY <2>1
  <2> QED BY <1>1, <1>2, <2>2, <2>3, EraseStays
<1>3. CASE ProcessStep
  <2>1. \A s \in Sessions : DeletesOn(s) /\ Same(w)
    BY <1>3, ProcessDeletesOn
  <2>2. second' = second /\ rows' = rows
    BY <1>3 DEF ProcessStep, bvars
  <2> QED BY <1>1, <1>2, <2>1, <2>2 DEF Same, Copying
<1>4. CASE RestartStep
  <2>1. \A s \in Sessions : sess'[s].pc = "idle"
    BY <1>4 DEF RestartStep, UnitRestart, IdleSession
  <2> QED BY <2>1 DEF Erasing, Erases
<1>5. ASSUME NEW s \in Sessions \ {w}, BackupStep(s) PROVE Erasing(w)'
  <2>1. DeleteFiles(s) \/ DeleteRow(s)
    BY <1>5, OthersDelete
  <2>2. sess'[w] = sess[w]
    BY <1>1, <1>5, OthersDelete
  <2>3. second' = second /\ (rows' = rows \/ \E ids : rows' = Without(ids))
    BY <2>1 DEF DeleteFiles, DeleteRow
  <2>4. \A t \in Sessions : DeletesOn(t)
    BY <1>5, BackupDeletesOn
  <2> QED BY <1>2, <2>2, <2>3, <2>4 DEF Copying
<1>6. CASE Play \/ UNCHANGED allVars
  <2>1. /\ sess' = sess /\ rows' = rows /\ second' = second
        /\ job' = job \/ job' = Race(Copiers)
    BY <1>6 DEF Play, allVars, vars, bvars
  <2>2. \A s \in Sessions : /\ job'[s].target = job[s].target
                            /\ job'[s].source = job[s].source
    BY <1>1, <2>1 DEF Race, Jobs
  <2> QED BY <1>2, <2>1, <2>2 DEF DeletesOn, Copying
<1>7. ASSUME NEW s \in Sessions, NEW r \in BackupRequests, NEW target \in 1 .. MaxRow,
             BackupArrive(s, r, target)
      PROVE  Erasing(w)'
  BY <1>1, <1>7, EraseArrive
<1> QED BY <1>1, <1>3, <1>4, <1>5, <1>6, <1>7, EraseWorker DEF BackupNext

LEMMA PruneStep ==
    ASSUME NEW CONSTANT w, Beside(w)
    PROVE  ControlBeside(w) /\ Pruning(w) /\ [BackupNext]_allVars => Pruning(w)'
<1> SUFFICES ASSUME ControlBeside(w), Pruning(w), [BackupNext]_allVars,
                    sess'[w].pc = "prune_commit"
             PROVE  (job[w].victims \cap DOMAIN rows \subseteq Normals)'
  BY DEF Pruning
<1>1. /\ BackupTypeInv /\ w \in Sessions /\ sess \in [Sessions -> BackupSessions]
      /\ job \in [Sessions -> Jobs]
  BY DEF ControlBeside, Beside, BackupTypeInv, BackupTypeOK, BackupSessions, SessionsOver
<1>2. ASSUME sess[w].pc = "prune_commit", job'[w].victims = job[w].victims,
             rows' = rows \/ \E ids : rows' = Without(ids)
      PROVE  (job[w].victims \cap DOMAIN rows \subseteq Normals)'
  <2>1. \A i \in DOMAIN rows' : i \in DOMAIN rows /\ rows'[i] = rows[i]
    BY <1>2 DEF Without
  <2>2. \A i \in Normals : i \in DOMAIN rows' => i \in Normals'
    BY <2>1 DEF Normals, OkRows
  <2> QED BY <1>2, <2>1, <2>2 DEF Pruning
<1>3. CASE ProcessStep
  <2>1. sess[w].pc = "prune_commit"
    BY <1>1, <1>3, ProcessDeletesOn DEF Same
  <2>2. job'[w] = job[w] /\ rows' = rows
    BY <1>1, <1>3 DEF ProcessStep, bvars
  <2> QED BY <1>2, <2>1, <2>2
<1>4. ~RestartStep
  BY <1>1 DEF RestartStep, UnitRestart, IdleSession
<1>5. ASSUME NEW s \in Sessions \ {w}, BackupStep(s)
      PROVE  (job[w].victims \cap DOMAIN rows \subseteq Normals)'
  <2>1. DeleteFiles(s) \/ DeleteRow(s)
    BY <1>5, OthersDelete
  <2>2. sess'[w] = sess[w]
    BY <1>1, <1>5, OthersDelete
  <2>3. job'[w] = job[w] /\ (rows' = rows \/ \E ids : rows' = Without(ids))
    BY <1>1, <2>1 DEF DeleteFiles, DeleteRow
  <2> QED BY <1>2, <2>2, <2>3
<1>6. CASE BackupStep(w)
  <2>1. PruneFiles(w)
    BY <1>1, <1>6, OwnDeletion
  <2>2. /\ Job(w, "victims", Outdated) /\ rows' = rows
        /\ Outdated \subseteq Normals /\ Normals' = Normals
    BY <2>1 DEF PruneFiles, Outdated, Normals, OkRows
  <2>3. job'[w].victims = Outdated
    BY <1>1, <2>2 DEF Job, Jobs
  <2> QED BY <2>2, <2>3
<1>7. CASE Play \/ UNCHANGED allVars
  <2>1. /\ sess' = sess /\ rows' = rows
        /\ job' = job \/ job' = Race(Copiers)
    BY <1>7 DEF Play, allVars, vars, bvars
  <2>2. job'[w].victims = job[w].victims
    BY <1>1, <2>1 DEF Race, Jobs
  <2> QED BY <1>2, <2>1, <2>2
<1>8. ASSUME NEW s \in Sessions, NEW r \in BackupRequests, NEW target \in 1 .. MaxRow,
             BackupArrive(s, r, target)
      PROVE  (job[w].victims \cap DOMAIN rows \subseteq Normals)'
  <2>1. s # w
    BY <1>1, <1>8 DEF BackupArrive, IdleSession
  <2>2. sess'[w] = sess[w] /\ job'[w] = job[w] /\ rows' = rows
    BY <1>1, <1>8, <2>1 DEF BackupArrive, bvars
  <2> QED BY <1>2, <2>2
<1> QED BY <1>3, <1>4, <1>5, <1>6, <1>7, <1>8 DEF BackupNext

LEMMA EraseAlways ==
    ASSUME NEW CONSTANT w, Beside(w) PROVE BackupSpec => [](Erasing(w) /\ Pruning(w))
BY EraseInit, EraseStep, PruneStep, ControlAlways, DataAlways, PTL DEF BackupSpec

(* What becomes of a row that nobody is deleting.                          *)
LEMMA RowKeptBeside ==
    ASSUME NEW CONSTANT w, Beside(w), ControlBeside(w), DataBeside(w), Erasing(w),
           Pruning(w), BackupNext, NEW i \in DOMAIN rows,
           \A s \in Sessions : job[s].target # i \/ sess[s].req # "delete",
           i \notin Normals, rows[i].status # "in_progress"
    PROVE  i \in DOMAIN rows' /\ disk'[rows[i].name] = disk[rows[i].name]
<1>1. /\ BackupTypeInv /\ DataTyped /\ rows[i].name \in Names /\ w \in Sessions
  BY DEF ControlBeside, Beside, BackupTypeInv, BackupTypeOK, DataTyped, BackupRows
<1>2. NamesDiffer /\ Outdated \subseteq Normals /\ Normals \subseteq DOMAIN rows
  BY DEF DataBeside, Outdated, Normals, OkRows
<1>3. CASE ProcessStep \/ RestartStep \/ Play
  BY <1>3 DEF ProcessStep, RestartStep, Play, bvars
<1>4. ASSUME NEW s \in Sessions, NEW r \in BackupRequests, NEW target \in 1 .. MaxRow,
             BackupArrive(s, r, target)
      PROVE  rows' = rows /\ disk' = disk
  BY <1>4 DEF BackupArrive, bvars
<1>5. ASSUME NEW s \in Sessions, DeleteFiles(s) \/ DeleteRow(s)
      PROVE  i \in DOMAIN rows' /\ disk'[rows[i].name] = disk[rows[i].name]
  <2>1. sess[s].pc \in {"del_files", "del_row"} /\ Erases(w, sess[s], job[s])
    BY <1>5 DEF DeleteFiles, DeleteRow, Erasing
  <2>2. job[s].target # i
    BY <2>1 DEF Erases
  <2>3. CASE DeleteFiles(s)
    <3>1. rows[i].name # job[s].source
      BY <2>1, <2>2, <2>3 DEF DeleteFiles, Erases
    <3> QED BY <1>1, <2>3, <3>1 DEF DeleteFiles, Erased
  <2>4. CASE DeleteRow(s)
    BY <2>2, <2>4 DEF DeleteRow, Without
  <2> QED BY <1>5, <2>3, <2>4
<1>6. CASE SnapshotInsert(w)
  BY <1>6 DEF SnapshotInsert
<1>7. CASE SnapshotBegin(w) \/ SnapshotCopy(w)
  <2>1. /\ sess[w].pc \in {"snap_begin", "snap_copy"} /\ rows' = rows
        /\ \A n \in Names : n # job[w].name => disk'[n] = disk[n]
    BY <1>1, <1>7 DEF SnapshotBegin, SnapshotCopy, DataTyped
  <2>2. job[w].name[1] = second /\ i # job[w].own
    BY <2>1 DEF DataBeside, WorkKnows, Writing
  <2>3. rows[i].name[1] < second
    BY <2>2 DEF DataBeside, WorkKnows, Past, Copied
  <2>4. rows[i].name # job[w].name
    BY <1>1, <2>2, <2>3 DEF DataTyped
  <2> QED BY <1>1, <2>1, <2>4
<1>8. CASE SnapshotCommit(w)
  BY <1>1, <1>8 DEF SnapshotCommit, DataTyped
<1>9. CASE PruneFiles(w)
  <2>1. rows[i].name \notin {rows[k].name : k \in Outdated}
    BY <1>2 DEF NamesDiffer
  <2> QED BY <1>1, <1>9, <2>1 DEF PruneFiles, Erased
<1>10. CASE PruneCommit(w)
  <2>1. i \notin job[w].victims
    BY <1>10 DEF PruneCommit, Pruning
  <2> QED BY <1>10, <2>1 DEF PruneCommit, Without
<1>11. CASE \/ SnapshotName(w) \/ BackupChecked(w) \/ BackupStopped(w)
            \/ BackupConfirmed(w) \/ BackupFinally(w) \/ GateChecked(w) \/ GateStart(w)
            \/ RestoreChecked(w) \/ RestoreBegin(w) \/ RestoreCopy(w)
            \/ RestoreCommit(w) \/ BackupAnswer(w)
  <2>1. rows' = rows /\ disk' = disk
    BY <1>11 DEF SnapshotName, BackupChecked, BackupStopped, BackupConfirmed,
       BackupFinally, GateChecked, GateStart, RestoreChecked, RestoreBegin,
       RestoreCopy, RestoreCommit, BackupAnswer, bvars
  <2> QED BY <2>1
<1>12. ASSUME NEW s \in Sessions \ {w}, BackupStep(s) PROVE DeleteFiles(s) \/ DeleteRow(s)
  BY <1>12, OthersDelete
<1>13. CASE BackupStep(w)
  BY <1>1, <1>5, <1>6, <1>7, <1>8, <1>9, <1>10, <1>11, <1>13 DEF BackupStep
<1> QED BY <1>3, <1>4, <1>5, <1>12, <1>13 DEF BackupNext

(* Beside deletions too, what nobody asked to delete stays: retention      *)
(* prunes normal generations only, and a deletion erases the files of its  *)
(* own target and of no backup made meanwhile.                             *)
THEOREM BesideOnlyNormalsPruned ==
    ASSUME NEW CONSTANT w, Beside(w) PROVE BackupSpec => OnlyNormalsPruned
<1> DEFINE Pruned ==
      \A i \in DOMAIN rows :
          (\A s \in Sessions : job[s].target # i \/ sess[s].req # "delete") =>
              (i \in DOMAIN rows' /\ disk'[rows[i].name] = disk[rows[i].name])
                  \/ i \in Normals \/ rows[i].status = "in_progress"
<1>1. ControlBeside(w) /\ DataBeside(w) /\ Erasing(w) /\ Pruning(w) /\ [BackupNext]_allVars
          => [Pruned]_allVars
  BY RowKeptBeside
<1> QED
  BY <1>1, ControlAlways, DataAlways, EraseAlways, PTL DEF BackupSpec, OnlyNormalsPruned

=============================================================================

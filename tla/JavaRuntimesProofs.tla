------------------------- MODULE JavaRuntimesProofs -------------------------
(* Theorems about JavaRuntimes: any number of requests, any set of Java    *)
(* majors and Minecraft versions, any changes of the host.                 *)
EXTENDS JavaRuntimes, TLAPS

USE JavaAssumption DEF At, Goto, End, None

----------------------------------------------------------------------------
(* Paths and the version table                                             *)

(* What a path is: the alternatives link, a name of a major, or a build.   *)
LEMMA PathKinds ==
    ASSUME NEW p \in Paths
    PROVE  /\ p.kind \in {"link", "named", "built"}
           /\ p.kind = "link" => p = Link
           /\ p.kind = "named" => p.major \in Allowed /\ p = Named(p.major)
           /\ p.kind = "built" => /\ p.major \in Allowed /\ p.build \in 1 .. MaxBuild
                                  /\ p = Built(p.major, p.build)
BY DEF Paths, Link, Named, Built

Hosted == host \in [Allowed -> 0 .. MaxBuild] /\ link \in Present \cup {None}

(* The binary of a major that is there runs as that major, by any path.    *)
LEMMA MajorOfBuild ==
    ASSUME NEW p, NEW m \in Present, Real(p) = Built(m, host[m])
    PROVE  MajorAt(p) = m
BY DEF MajorAt, Built, Present

LEMMA BuildOfMajor ==
    ASSUME NEW p, MajorAt(p) # None
    PROVE  MajorAt(p) \in Present /\ Real(p) = Built(MajorAt(p), host[MajorAt(p)])
BY DEF MajorAt, Built, Present

(* A name or a build of a major runs as no other one.                      *)
LEMMA MajorOfPath ==
    ASSUME Hosted, NEW p \in Paths
    PROVE  /\ p.kind # "link" => MajorAt(p) \in {None, p.major}
           /\ p.kind = "link" => MajorAt(p) = link
<1>1. CASE p.kind = "link"
  <2>1. p = Link
    BY <1>1, PathKinds
  <2>2. CASE link = None
    BY <1>1, <2>1, <2>2 DEF MajorAt, Real, Link, Built, Present
  <2>3. CASE link \in Present
    <3>1. Real(p) = Built(link, host[link])
      BY <1>1, <2>3 DEF Real, Present
    <3> QED
      BY <1>1, <2>3, <3>1, MajorOfBuild
  <2> QED
    BY <1>1, <2>2, <2>3 DEF Hosted
<1>2. CASE p.kind = "named"
  BY <1>2, PathKinds DEF MajorAt, Real, Named, Built, Present
<1>3. CASE p.kind = "built"
  BY <1>3, PathKinds DEF MajorAt, Real, Named, Built, Present
<1> QED
  BY <1>1, <1>2, <1>3, PathKinds

LEMMA TableOfVersion ==
    ASSUME NEW v \in VersionShapes
    PROVE  Documented(v) = {JavaFor(v)} \ {None}
<1>1. CASE v.line = "legacy"
  BY <1>1 DEF VersionShapes, Documented, JavaFor, Upto
<1>2. CASE v.line = "numbered"
  BY <1>2 DEF VersionShapes, Documented, JavaFor, Upto
<1>3. CASE v.line = "unknown"
  BY <1>3 DEF VersionShapes, Documented, JavaFor, Upto
<1> QED
  BY <1>1, <1>2, <1>3 DEF VersionShapes

(* The runtimes of a detection are told for what they run as.              *)
LEMMA DetectedMajors ==
    ASSUME Hosted, NEW first \in Orders, NEW probe \in [Present -> ProbeOutcomes],
           NEW rt \in DetectRuntimes(first, probe)
    PROVE  /\ rt.major \in Majors
           /\ rt.major # None => /\ rt.major \in Present
                                 /\ Real(rt.path) = Built(rt.major, host[rt.major])
<1>1. PICK m \in Present : rt = [path |-> IF m = link THEN Link ELSE first[m],
                                 major |-> IF probe[m] = "read" THEN m ELSE None]
  BY DEF DetectRuntimes
<1>2. m \in Allowed /\ rt.major \in {m, None}
  BY <1>1 DEF Present
<1>3. CASE m = link
  BY <1>1, <1>2, <1>3 DEF Real, Link, Built, Majors, Present
<1>4. CASE m # link
  <2>1. first[m] \in {Named(m), Built(m, host[m])}
    BY DEF Orders
  <2> QED
    BY <1>1, <1>2, <1>4, <2>1 DEF Real, Named, Built, Majors, Present
<1> QED
  BY <1>3, <1>4

(* A build whose probe was read is among the runtimes.                     *)
LEMMA ReadIsDetected ==
    ASSUME Hosted, NEW first \in Orders, NEW probe \in [Present -> ProbeOutcomes],
           NEW m \in Present, probe[m] = "read"
    PROVE  \E rt \in DetectRuntimes(first, probe) :
              rt.major = m /\ Real(rt.path) = Built(m, host[m])
<1> DEFINE rt == [path |-> IF m = link THEN Link ELSE first[m], major |-> m]
<1>1. rt \in DetectRuntimes(first, probe)
  BY DEF DetectRuntimes
<1>2. first[m] \in {Named(m), Built(m, host[m])}
  BY DEF Orders
<1>3. Real(rt.path) = Built(m, host[m])
  BY <1>2 DEF Real, Link, Named, Built, Present
<1> QED
  BY <1>1, <1>3

----------------------------------------------------------------------------
(* Types                                                                   *)

LEMMA TypeHosted == TypeOK => Hosted
BY DEF TypeOK, Hosted

LEMMA NothingTypes ==
    /\ Link \in Paths /\ Unregistered \in Rows /\ NoPromise \in Promises
    /\ Idle \in RequestStates /\ Idle.pc = "idle" /\ NoHelper \in HelperStates
BY DEF Paths, Unregistered, Rows, NoPromise, Promises, Majors, Idle, RequestStates,
       NoHelper, HelperStates

LEMMA TypeInit == Init => TypeOK
<1> SUFFICES ASSUME Init PROVE TypeOK
  OBVIOUS
<1>1. host \in [Allowed -> 0 .. MaxBuild]
  BY DEF Init
<1> QED
  BY <1>1, NothingTypes DEF Init, TypeOK, Majors

LEMMA WrittenTypes ==
    ASSUME TypeOK, NEW a \in Rows, NEW b \in Rows
    PROVE  Written(a, b) \in Rows
BY DEF TypeOK, Written, Rows

(* A package that comes leaves the host and the link well typed.           *)
LEMMA PackageTypes ==
    ASSUME TypeOK, NEW m \in Allowed, InstallPackage(m)
    PROVE  /\ host' \in [Allowed -> 0 .. MaxBuild] /\ link' \in Present' \cup {None}
           /\ promise' \in Promises
<1>1. PICK b \in (host[m] .. host[m] + 1) \cap 1 .. MaxBuild : host' = [host EXCEPT ![m] = b]
  BY DEF InstallPackage
<1>2. host' \in [Allowed -> 0 .. MaxBuild]
  BY <1>1 DEF TypeOK
<1>3. link' \in {m} \cup ({link} \ {None}) /\ promise' \in {promise, NoPromise}
  BY DEF InstallPackage, LinkLeads
<1>4. m \in Present' /\ Present \subseteq Present'
  BY <1>1, <1>2 DEF TypeOK, Present
<1> QED
  BY <1>2, <1>3, <1>4, NothingTypes DEF TypeOK

LEMMA TypeStep == TypeOK /\ [Next]_vars => TypeOK'
<1> SUFFICES ASSUME TypeOK, [Next]_vars PROVE TypeOK'
  OBVIOUS
<1> USE NothingTypes DEF TypeOK
<1>1. ASSUME NEW p \in Paths, NewServer(p) PROVE TypeOK'
  BY <1>1 DEF NewServer, Rows, Present
<1>2. CASE CreateServer \/ RegisterServer
  <2>1. PICK p \in Paths : NewServer(p)
    BY <1>2 DEF CreateServer, RegisterServer
  <2> QED
    BY <1>1, <2>1
<1>3. CASE ServerDown
  BY <1>3 DEF ServerDown, Majors, Present
<1>4. ASSUME NEW r \in Requests, NEW p \in Forms, SetJava(r, p) PROVE TypeOK'
  <2>1. spent' \in [requests : 0 .. MaxRequests, changes : 0 .. MaxChanges]
    <3>1. Begin(r)
      BY <1>4 DEF SetJava
    <3> QED
      BY <3>1 DEF Begin
  <2>2. req' \in [Requests -> RequestStates]
    BY <1>4 DEF SetJava, Idle, RequestStates, Rows
  <2> QED
    BY <1>4, <2>1, <2>2 DEF SetJava, Present
<1>5. ASSUME NEW r \in Requests, SetDetect(r) PROVE TypeOK'
  <2>1. \A runtimes \in Detections : \A rt \in runtimes : rt.major \in Majors
    BY TypeHosted, DetectedMajors DEF Detections
  <2>2. CASE End(r)
    BY <1>5, <2>2 DEF SetDetect, Present
  <2>3. ASSUME NEW m \in Majors,
               req' = [req EXCEPT ![r] = [@ EXCEPT !.pc = "commit", !.major = m]]
        PROVE  req' \in [Requests -> RequestStates]
    <3> DEFINE new == [req[r] EXCEPT !.pc = "commit", !.major = m]
    <3>1. new \in RequestStates
      BY DEF RequestStates
    <3> HIDE DEF new
    <3>2. req' = [req EXCEPT ![r] = new]
      BY <2>3 DEF new
    <3> QED
      BY <3>1, <3>2
  <2>4. End(r) \/ req' \in [Requests -> RequestStates]
    BY <1>5, <2>1, <2>3 DEF SetDetect, FindRuntime
  <2> QED
    BY <1>5, <2>2, <2>4 DEF SetDetect, Present
<1>6. ASSUME NEW r \in Requests, SetCommit(r) PROVE TypeOK'
  <2> DEFINE me == req[r]
  <2>1. me.row \in Rows /\ me.path \in Paths /\ me.major \in Majors
    BY DEF RequestStates
  <2>2. [me.row EXCEPT !.path = me.path, !.command = me.path] \in Rows
    BY <2>1 DEF Rows
  <2>3. row' \in Rows
    BY <1>6, <2>1, <2>2, WrittenTypes DEF SetCommit
  <2>4. promise' \in Promises
    BY <1>6, <2>1 DEF SetCommit, Promises
  <2>5. req' \in [Requests -> RequestStates]
    BY <1>6 DEF SetCommit
  <2> QED
    BY <1>6, <2>3, <2>4, <2>5 DEF SetCommit, Present
<1>7. ASSUME NEW r \in Requests, StartServer(r) PROVE TypeOK'
  <2>1. spent' \in [requests : 0 .. MaxRequests, changes : 0 .. MaxChanges]
    BY <1>7 DEF StartServer, Begin
  <2>2. req' \in [Requests -> RequestStates]
    BY <1>7 DEF StartServer, Idle, RequestStates
  <2> QED
    BY <1>7, <2>1, <2>2 DEF StartServer, Present
<1>8. ASSUME NEW r \in Requests, StartRefreshed(r) PROVE TypeOK'
  BY <1>8 DEF StartRefreshed, RequestStates, Present
<1>9. ASSUME NEW r \in Requests, StartLaunch(r) PROVE TypeOK'
  <2>1. MajorAt(req[r].row.path) \in Majors
    BY BuildOfMajor DEF Majors, Present
  <2>2. req' \in [Requests -> RequestStates]
    <3> DEFINE new == [req[r] EXCEPT !.pc = "record", !.promise = NoPromise]
    <3>1. new \in RequestStates
      BY DEF RequestStates
    <3> HIDE DEF new
    <3>2. End(r) \/ req' = [req EXCEPT ![r] = new]
      BY <1>9 DEF StartLaunch, new
    <3> QED
      BY <3>1, <3>2
  <2> QED
    BY <1>9, <2>1, <2>2 DEF StartLaunch, Present
<1>10. ASSUME NEW r \in Requests, StartRecord(r) PROVE TypeOK'
  <2> DEFINE cached == req[r].row
  <2>1. cached \in Rows /\ [cached EXCEPT !.command = cached.path] \in Rows
    BY DEF RequestStates, Rows
  <2>2. row' \in Rows
    BY <1>10, <2>1, WrittenTypes DEF StartRecord
  <2> QED
    BY <1>10, <2>2 DEF StartRecord, Present
<1>11. ASSUME NEW r \in Requests, InstallJava(r) PROVE TypeOK'
  <2>1. spent' \in [requests : 0 .. MaxRequests, changes : 0 .. MaxChanges]
    BY <1>11 DEF InstallJava, Begin
  <2>2. req' \in [Requests -> RequestStates]
    BY <1>11 DEF InstallJava, RequestStates
  <2>3. helper' \in [Requests -> HelperStates]
    BY <1>11 DEF InstallJava, CanInstall, HelperStates
  <2> QED
    BY <1>11, <2>1, <2>2, <2>3 DEF InstallJava, Present
<1>12. ASSUME NEW r \in Requests, InstallEnded(r) \/ InstallKillFailed(r) PROVE TypeOK'
  BY <1>12 DEF InstallEnded, InstallKillFailed, Answered, Present
<1>13. ASSUME NEW r \in Requests, InstallTimeout(r) PROVE TypeOK'
  BY <1>13 DEF InstallTimeout, RequestStates, Present
<1>14. ASSUME NEW r \in Requests, HelperBegins(r) PROVE TypeOK'
  BY <1>14 DEF HelperBegins, HelperStates, NoHelper, Present
<1>15. ASSUME NEW r \in Requests, HelperEnds(r) PROVE TypeOK'
  <2>1. helper[r].version \in Permitted
    BY <1>15 DEF HelperEnds, HelperStates
  <2>2. helper' \in [Requests -> HelperStates]
    BY <1>15, <2>1 DEF HelperEnds, HelperStates
  <2>3. CASE InstallPackage(helper[r].version)
    BY <1>15, <2>1, <2>2, <2>3, PackageTypes DEF HelperEnds
  <2>4. CASE UNCHANGED <<host, link, promise>>
    BY <1>15, <2>2, <2>4 DEF HelperEnds, Present
  <2> QED
    BY <1>15, <2>3, <2>4 DEF HelperEnds
<1>16. CASE HostChange
  <2>1. spent' \in [requests : 0 .. MaxRequests, changes : 0 .. MaxChanges]
    BY <1>16 DEF HostChange, Change
  <2>2. UNCHANGED <<row, proc, req, helper>>
    BY <1>16 DEF HostChange
  <2>3. ASSUME NEW m \in Allowed, InstallPackage(m) PROVE TypeOK'
    BY <2>1, <2>2, <2>3, PackageTypes
  <2>4. ASSUME NEW m \in Present, host' = [host EXCEPT ![m] = None],
               NEW t \in IF link = m THEN (Present \ {m}) \cup {None} ELSE {link},
               LinkLeads(t)
        PROVE TypeOK'
    <3>1. Present' = Present \ {m}
      BY <2>4 DEF Present
    <3>2. link' \in Present' \cup {None} /\ promise' \in Promises
      BY <2>4, <3>1 DEF LinkLeads
    <3>3. host' \in [Allowed -> 0 .. MaxBuild]
      BY <2>4 DEF Present
    <3> QED
      BY <2>1, <2>2, <3>2, <3>3
  <2>5. ASSUME NEW m \in Present, LinkLeads(m), UNCHANGED host PROVE TypeOK'
    BY <2>1, <2>2, <2>5 DEF LinkLeads, Present
  <2> QED
    BY <1>16, <2>3, <2>4, <2>5 DEF HostChange
<1>17. CASE Crash
  <2>1. spent' \in [requests : 0 .. MaxRequests, changes : 0 .. MaxChanges]
    BY <1>17 DEF Crash, Change
  <2>2. helper' \in [Requests -> HelperStates]
    BY <1>17 DEF Crash, Ended, HelperStates, NoHelper
  <2> QED
    BY <1>17, <2>1, <2>2 DEF Crash, Present
<1>18. CASE UNCHANGED vars
  BY <1>18 DEF vars, Present
<1> QED
  BY <1>1, <1>2, <1>3, <1>4, <1>5, <1>6, <1>7, <1>8, <1>9, <1>10, <1>11, <1>12, <1>13,
     <1>14, <1>15, <1>16, <1>17, <1>18 DEF Next, Proceed

(* Whatever requests overlap, and whatever becomes of the host, the rows,  *)
(* the requests and the helpers are of their types; no helper is started   *)
(* for a version the sudoers rules do not name (install_java).             *)
THEOREM TypeCorrect == Spec => []TypeOK
BY TypeInit, TypeStep, PTL DEF Spec

----------------------------------------------------------------------------
(* The warning of the page                                                 *)

LEMMA WarningTells == TypeOK => PageTruthful
<1> SUFFICES ASSUME TypeOK, NEW v \in Versions, NEW first \in Orders,
                    NEW probe \in [Present -> ProbeOutcomes]
             PROVE  LET fine == NoMismatch(row.path, v, DetectRuntimes(first, probe)) IN
                    /\ fine => Fits(row.path, v)
                    /\ Fits(row.path, v) => fine \/ probe[MajorAt(row.path)] # "read"
  BY DEF PageTruthful
<1> DEFINE runtimes == DetectRuntimes(first, probe)
<1>1. Hosted /\ v \in VersionShapes
  BY TypeHosted
<1>2. Documented(v) = {JavaFor(v)} \ {None}
  BY <1>1, TableOfVersion
<1>3. ASSUME NoMismatch(row.path, v, runtimes) PROVE Fits(row.path, v)
  <2>1. PICK rt \in FindRuntime(row.path, runtimes) :
            rt.major # None /\ (JavaFor(v) = None \/ rt.major >= JavaFor(v))
    BY <1>3 DEF NoMismatch
  <2>2. rt \in runtimes /\ Real(rt.path) = Real(row.path)
    BY <2>1 DEF FindRuntime
  <2>3. rt.major \in Present /\ Real(row.path) = Built(rt.major, host[rt.major])
    BY <1>1, <2>1, <2>2, DetectedMajors
  <2>4. MajorAt(row.path) = rt.major
    BY <2>3, MajorOfBuild
  <2> QED
    BY <1>2, <2>1, <2>4 DEF Fits
<1>4. ASSUME Fits(row.path, v), probe[MajorAt(row.path)] = "read"
      PROVE  NoMismatch(row.path, v, runtimes)
  <2> DEFINE m == MajorAt(row.path)
  <2>1. m # None /\ \A j \in Documented(v) : m >= j
    BY <1>4 DEF Fits
  <2>2. m \in Present /\ Real(row.path) = Built(m, host[m])
    BY <2>1, BuildOfMajor
  <2> HIDE DEF m
  <2>3. PICK rt \in runtimes : rt.major = m /\ Real(rt.path) = Built(m, host[m])
    BY <1>1, <1>4, <2>2, ReadIsDetected DEF m
  <2>4. rt \in FindRuntime(row.path, runtimes)
    BY <2>2, <2>3 DEF FindRuntime
  <2> QED
    BY <1>2, <2>1, <2>3, <2>4 DEF NoMismatch
<1> QED
  BY <1>3, <1>4

(* For every Minecraft version, host and outcome of the probes, the page   *)
(* warns when the server could not run as it stands, and needlessly only   *)
(* when its binary gave no good answer (server_java_info).                 *)
THEOREM PageTells == Spec => []PageTruthful
BY TypeCorrect, WarningTells, PTL

----------------------------------------------------------------------------
(* The displayed command                                                   *)

(* A request holds a row as it was committed once.                         *)
CommandInv ==
    /\ TypeOK /\ row.command = row.path
    /\ \A r \in Requests : req[r].row.command = req[r].row.path

LEMMA CommandInit == Init => CommandInv
BY TypeInit DEF Init, CommandInv, Unregistered, Idle

(* The steps that follow a detection or a launch leave the copy of the row. *)
LEMMA KeepsRow ==
    ASSUME req \in [Requests -> RequestStates], NEW r \in Requests, NEW m, NEW t,
           \/ req' = [req EXCEPT ![r] = [@ EXCEPT !.pc = "commit", !.major = m]]
           \/ req' = [req EXCEPT ![r] = [@ EXCEPT !.pc = "record", !.promise = t]]
    PROVE  \A q \in Requests : req'[q].row = req[q].row
<1> DEFINE detected == [req[r] EXCEPT !.pc = "commit", !.major = m]
<1> DEFINE launched == [req[r] EXCEPT !.pc = "record", !.promise = t]
<1>1. detected.row = req[r].row /\ launched.row = req[r].row
  BY DEF RequestStates
<1> HIDE DEF detected, launched
<1>2. req' = [req EXCEPT ![r] = detected] \/ req' = [req EXCEPT ![r] = launched]
  BY DEF detected, launched
<1> QED
  BY <1>1, <1>2

LEMMA CommandStep == CommandInv /\ [Next]_vars => CommandInv'
<1> SUFFICES ASSUME CommandInv, [Next]_vars PROVE CommandInv'
  OBVIOUS
<1>1. TypeOK /\ TypeOK'
  BY TypeStep DEF CommandInv
<1>2. req \in [Requests -> RequestStates]
  BY <1>1 DEF TypeOK
<1> SUFFICES /\ row'.command = row'.path
             /\ \A r \in Requests : req'[r].row.command = req'[r].row.path
  BY <1>1 DEF CommandInv
<1> USE <1>2 DEF CommandInv, Idle, Unregistered, RequestStates
<1>3. CASE CreateServer \/ RegisterServer
  BY <1>3 DEF CreateServer, RegisterServer, NewServer
<1>4. CASE ServerDown \/ HostChange \/ Crash \/ UNCHANGED vars
  BY <1>4 DEF ServerDown, HostChange, Crash, vars
<1>5. ASSUME NEW r \in Requests, NEW p \in Forms, SetJava(r, p)
      PROVE  row' = row /\ \A q \in Requests : req'[q].row \in {req[q].row, row}
  BY <1>5 DEF SetJava
<1>6. ASSUME NEW r \in Requests, SetCommit(r)
      PROVE  /\ row'.command = row'.path
             /\ \A q \in Requests : req'[q].row \in {req[q].row, Unregistered}
  <2>1. req[r].row \in Rows /\ row \in Rows
    BY <1>1 DEF TypeOK
  <2>2. row'.command = row'.path
    BY <1>6, <2>1 DEF SetCommit, Written, Rows
  <2> QED
    BY <1>6, <2>2 DEF SetCommit
<1>7. ASSUME NEW r \in Requests, StartRecord(r)
      PROVE  /\ row'.command = row'.path
             /\ \A q \in Requests : req'[q].row \in {req[q].row, Unregistered}
  <2>1. req[r].row \in Rows /\ row \in Rows
    BY <1>1 DEF TypeOK
  <2>2. row'.command = row'.path
    BY <1>7, <2>1 DEF StartRecord, Written, Rows
  <2> QED
    BY <1>7, <2>2 DEF StartRecord
<1>8. ASSUME NEW r \in Requests,
             SetDetect(r) \/ StartServer(r) \/ StartRefreshed(r) \/ StartLaunch(r)
      PROVE  row' = row /\ \A q \in Requests : req'[q].row \in {req[q].row, row, Unregistered}
  <2>1. CASE SetDetect(r)
    <3>1. ASSUME NEW m,
                 req' = [req EXCEPT ![r] = [@ EXCEPT !.pc = "commit", !.major = m]]
          PROVE  \A q \in Requests : req'[q].row = req[q].row
      BY <3>1, KeepsRow
    <3>2. \/ End(r)
          \/ \A q \in Requests : req'[q].row = req[q].row
      BY <2>1, <3>1 DEF SetDetect
    <3>3. row' = row
      BY <2>1 DEF SetDetect
    <3> QED
      BY <3>2, <3>3
  <2>2. CASE StartServer(r)
    BY <2>2 DEF StartServer
  <2>3. CASE StartRefreshed(r)
    BY <2>3 DEF StartRefreshed
  <2>4. CASE StartLaunch(r)
    <3>1. ASSUME req' = [req EXCEPT ![r] =
                            [@ EXCEPT !.pc = "record", !.promise = NoPromise]]
          PROVE  \A q \in Requests : req'[q].row = req[q].row
      BY <3>1, KeepsRow
    <3>2. \/ End(r)
          \/ \A q \in Requests : req'[q].row = req[q].row
      BY <2>4, <3>1 DEF StartLaunch
    <3>3. row' = row
      BY <2>4 DEF StartLaunch
    <3> QED
      BY <3>2, <3>3
  <2> QED
    BY <1>8, <2>1, <2>2, <2>3, <2>4
<1>9. ASSUME NEW r \in Requests,
             \/ InstallJava(r) \/ InstallEnded(r) \/ InstallKillFailed(r)
             \/ InstallTimeout(r) \/ HelperBegins(r) \/ HelperEnds(r)
      PROVE  row' = row /\ \A q \in Requests : req'[q].row \in {req[q].row, Unregistered}
  BY <1>9 DEF InstallJava, InstallEnded, InstallKillFailed, Answered, InstallTimeout,
             HelperBegins, HelperEnds
<1>10. Unregistered.command = Unregistered.path
  OBVIOUS
<1> HIDE DEF Unregistered, Idle, RequestStates
<1>11. ASSUME row'.command = row'.path,
              \A q \in Requests : req'[q].row \in {req[q].row, row, Unregistered}
       PROVE  \A q \in Requests : req'[q].row.command = req'[q].row.path
  <2> TAKE q \in Requests
  <2> QED
    BY <1>10, <1>11
<1>12. ASSUME NEW r \in Requests, NEW p \in Forms, SetJava(r, p)
       PROVE  /\ row'.command = row'.path
              /\ \A q \in Requests : req'[q].row.command = req'[q].row.path
  BY <1>5, <1>11, <1>12
<1>13. ASSUME NEW r \in Requests, Proceed(r) \/ StartServer(r) \/ InstallJava(r)
                  \/ HelperBegins(r) \/ HelperEnds(r) \/ InstallTimeout(r)
       PROVE  /\ row'.command = row'.path
              /\ \A q \in Requests : req'[q].row.command = req'[q].row.path
  BY <1>6, <1>7, <1>8, <1>9, <1>11, <1>13 DEF Proceed
<1> QED
  BY <1>3, <1>4, <1>12, <1>13 DEF Next

(* Whatever requests set the runtime and start the server at once, the     *)
(* displayed command is that of the row's runtime (servers.py:749-752).    *)
THEOREM CommandFollows == Spec => []CommandMatches
<1>1. Spec => []CommandInv
  BY CommandInit, CommandStep, PTL DEF Spec
<1>2. CommandInv => CommandMatches
  BY DEF CommandInv, CommandMatches
<1> QED
  BY <1>1, <1>2, PTL

----------------------------------------------------------------------------
(* The runtime that was chosen                                             *)

(* What a path was chosen for is what it is for: a name or a build is of   *)
(* that major for ever, and /usr/bin/java leads to it.                     *)
For(major, path) == IF path.kind = "link" THEN link = major ELSE path.major = major

PromiseKept ==
    promise.major # None =>
        row.there /\ promise.path = row.path /\ For(promise.major, promise.path)

(* A change that is alone has read the path that the row still has.        *)
ChangeAlone(x, r) ==
    x.pc \in {"detect", "commit"} =>
        /\ row.there
        /\ x.alone => Changing = {r} /\ x.row.path = row.path

(* What a request knows of the path it is about to write, or to run.       *)
Knows(x) ==
    /\ x.pc = "commit" /\ x.major # None /\ x.path.kind # "link" => x.path.major = x.major
    /\ x.pc = "launch" /\ x.promise.major # None => x.row.path = x.promise.path

ChoiceInv ==
    /\ TypeOK /\ PromiseKept
    /\ \A r \in Requests : ChangeAlone(req[r], r) /\ Knows(req[r])

LEMMA ChoiceInit == Init => ChoiceInv
BY TypeInit DEF Init, ChoiceInv, PromiseKept, ChangeAlone, Knows, NoPromise, Idle

(* A step that leaves row and promise, and moves one request, keeps the    *)
(* invariant if that request's new state does.                             *)
LEMMA ChoiceOfOne ==
    ASSUME ChoiceInv, TypeOK', NEW r \in Requests, NEW x,
           req' = [req EXCEPT ![r] = x], row' = row, PromiseKept',
           x.pc \in {"detect", "commit"} =>
               req[r].pc \in {"detect", "commit"} /\ x.alone = req[r].alone
                   /\ x.row = req[r].row,
           Knows(x)
    PROVE  ChoiceInv'
<1>1. req \in [Requests -> RequestStates]
  BY DEF ChoiceInv, TypeOK
<1>2. req'[r] = x /\ \A q \in Requests \ {r} : req'[q] = req[q]
  BY <1>1
<1>3. Changing' \subseteq Changing
  BY <1>2 DEF Changing
<1>4. ASSUME NEW q \in Requests PROVE ChangeAlone(req[q], q)' /\ Knows(req[q])'
  <2>1. ChangeAlone(req[q], q) /\ Knows(req[q])
    BY DEF ChoiceInv
  <2>2. Knows(req[q])'
    BY <1>2, <2>1 DEF Knows
  <2>3. ASSUME req'[q].pc \in {"detect", "commit"}
        PROVE  /\ req[q].pc \in {"detect", "commit"} /\ req'[q].alone = req[q].alone
               /\ req'[q].row = req[q].row /\ q \in Changing'
    BY <1>2, <2>3 DEF Changing
  <2>4. ChangeAlone(req[q], q)'
    BY <1>3, <2>1, <2>3 DEF ChangeAlone
  <2> QED
    BY <2>2, <2>4
<1> QED
  BY <1>4 DEF ChoiceInv

(* When the link leads elsewhere a promise of it lapses.                   *)
LEMMA LinkKeepsPromise ==
    ASSUME TypeOK, PromiseKept, NEW m, LinkLeads(m), UNCHANGED row
    PROVE  PromiseKept'
<1>1. promise.path \in Paths
  BY DEF TypeOK, Promises
<1>2. promise.path.kind = "link" => promise.path = Link
  BY <1>1, PathKinds
<1> QED
  BY <1>2 DEF PromiseKept, LinkLeads, For, NoPromise

LEMMA ChoiceStep == ChoiceInv /\ [Next]_vars => ChoiceInv'
<1> SUFFICES ASSUME ChoiceInv, [Next]_vars PROVE ChoiceInv'
  OBVIOUS
<1>1. TypeOK /\ TypeOK' /\ PromiseKept /\ req \in [Requests -> RequestStates]
  BY TypeStep DEF ChoiceInv, TypeOK
<1>2. Idle.pc = "idle"
  BY DEF Idle
<1>3. ASSUME UNCHANGED <<row, req, promise, link>> PROVE ChoiceInv'
  BY <1>1, <1>3 DEF ChoiceInv, PromiseKept, For, ChangeAlone, Knows, Changing
<1>4. ASSUME UNCHANGED <<row, promise, link>> PROVE PromiseKept'
  BY <1>1, <1>4 DEF PromiseKept, For
<1>5. CASE CreateServer \/ RegisterServer
  <2>1. ~row.there /\ UNCHANGED <<req, promise, link>>
    BY <1>5 DEF CreateServer, RegisterServer, NewServer
  <2>2. promise.major = None /\ Changing = {}
    BY <1>1, <2>1 DEF ChoiceInv, PromiseKept, ChangeAlone, Changing
  <2>3. PromiseKept'
    BY <2>1, <2>2 DEF PromiseKept
  <2> QED
    BY <1>1, <2>1, <2>2, <2>3 DEF ChoiceInv, ChangeAlone, Knows, Changing
<1>6. CASE ServerDown \/ UNCHANGED vars
  BY <1>3, <1>6 DEF ServerDown, vars
<1>7. CASE HostChange
  <2>1. UNCHANGED <<row, req>>
    BY <1>7 DEF HostChange
  <2>2. PICK m : LinkLeads(m)
    BY <1>7 DEF HostChange, InstallPackage
  <2>3. PromiseKept'
    BY <1>1, <2>1, <2>2, LinkKeepsPromise
  <2> QED
    BY <1>1, <2>1, <2>3 DEF ChoiceInv, ChangeAlone, Knows, Changing
<1>8. CASE Crash
  BY <1>1, <1>2, <1>4, <1>8 DEF Crash, ChoiceInv, ChangeAlone, Knows
<1>9. ASSUME NEW r \in Requests, NEW p \in Forms, SetJava(r, p) PROVE ChoiceInv'
  <2>1. row.there /\ At(r, "idle") /\ UNCHANGED <<row, promise, link>>
    BY <1>9 DEF SetJava, Begin
  <2>2. /\ req'[r].pc = "detect" /\ req'[r].row = row
        /\ req'[r].alone => Changing = {}
    BY <1>9 DEF SetJava, Idle
  <2>3. \A q \in Requests \ {r} :
            /\ req'[q].pc = req[q].pc /\ req'[q].major = req[q].major
            /\ req'[q].path = req[q].path /\ req'[q].row = req[q].row
            /\ req'[q].promise = req[q].promise
            /\ req'[q].alone => q \notin Changing
    BY <1>1, <1>9 DEF SetJava, RequestStates
  <2>4. Changing' = Changing \cup {r}
    BY <2>2, <2>3 DEF Changing
  <2>5. ASSUME NEW q \in Requests PROVE ChangeAlone(req[q], q)' /\ Knows(req[q])'
    <3>1. CASE q = r
      BY <2>1, <2>2, <2>4, <3>1 DEF ChangeAlone, Knows
    <3>2. CASE q # r
      BY <2>1, <2>3, <3>2 DEF ChoiceInv, ChangeAlone, Knows, Changing
    <3> QED
      BY <3>1, <3>2
  <2> QED
    BY <1>1, <1>4, <2>1, <2>5 DEF ChoiceInv
<1>10. ASSUME NEW r \in Requests, SetDetect(r) PROVE ChoiceInv'
  <2>1. At(r, "detect") /\ UNCHANGED <<row, promise, link>>
    BY <1>10 DEF SetDetect
  <2>2. PromiseKept'
    BY <1>4, <2>1
  <2>3. CASE End(r)
    BY <1>1, <1>2, <2>1, <2>2, <2>3, ChoiceOfOne DEF Knows
  <2>4. ASSUME NEW runtimes \in Detections,
               NEW rt \in FindRuntime(req[r].path, runtimes),
               req' = [req EXCEPT ![r] =
                          [@ EXCEPT !.pc = "commit", !.major = rt.major]]
        PROVE  ChoiceInv'
    <3> DEFINE x == [req[r] EXCEPT !.pc = "commit", !.major = rt.major]
    <3>1. req' = [req EXCEPT ![r] = x] /\ req[r].path \in Paths
      BY <1>1, <2>4 DEF RequestStates
    <3>2. /\ x.pc = "commit" /\ x.major = rt.major /\ x.path = req[r].path
          /\ x.alone = req[r].alone /\ x.row = req[r].row
      BY <1>1 DEF RequestStates
    <3>3. rt \in runtimes /\ Real(rt.path) = Real(req[r].path)
      BY <2>4 DEF FindRuntime
    <3>4. rt.major # None => /\ rt.major \in Present
                             /\ Real(req[r].path) = Built(rt.major, host[rt.major])
      BY <1>1, <2>4, <3>3, TypeHosted, DetectedMajors DEF Detections
    <3>5. rt.major # None => MajorAt(req[r].path) = rt.major
      BY <3>4, MajorOfBuild
    <3>6. Knows(x)
      BY <1>1, <3>1, <3>2, <3>5, TypeHosted, MajorOfPath DEF Knows
    <3> HIDE DEF x
    <3> QED
      BY <1>1, <2>1, <2>2, <3>1, <3>2, <3>6, ChoiceOfOne
  <2> QED
    BY <1>10, <2>3, <2>4 DEF SetDetect
<1>11. ASSUME NEW r \in Requests, SetCommit(r) PROVE ChoiceInv'
  <2> DEFINE me == req[r]
  <2>1. /\ At(r, "commit") /\ End(r) /\ UNCHANGED link
        /\ row' = Written(me.row, [me.row EXCEPT !.path = me.path, !.command = me.path])
    BY <1>11 DEF SetCommit
  <2>2. me.row \in Rows /\ row \in Rows /\ me.path \in Paths
    BY <1>1 DEF TypeOK, RequestStates
  <2>3. /\ row'.there = row.there
        /\ row'.path = IF me.path # me.row.path THEN me.path ELSE row.path
    BY <2>1, <2>2 DEF Written, Rows
  <2>4. ChangeAlone(me, r) /\ Knows(me) /\ r \in Changing
    BY <2>1 DEF ChoiceInv, Changing
  <2>5. ASSUME promise' = NoPromise PROVE PromiseKept'
    BY <2>5 DEF PromiseKept, NoPromise
  <2>6. ASSUME me.alone, me.major # None, me.path = Link => link = me.major,
               promise' = [major |-> me.major, path |-> me.path]
        PROVE  PromiseKept'
    <3>1. row'.there /\ row'.path = me.path
      BY <2>1, <2>3, <2>4, <2>6 DEF ChangeAlone
    <3>2. me.path.kind = "link" => me.path = Link
      BY <2>2, PathKinds
    <3> QED
      BY <2>1, <2>4, <2>6, <3>1, <3>2 DEF PromiseKept, For, Knows
  <2>7. PromiseKept'
    BY <1>11, <2>5, <2>6 DEF SetCommit
  <2>8. ASSUME NEW q \in Requests PROVE ChangeAlone(req[q], q)' /\ Knows(req[q])'
    <3>1. CASE q = r
      BY <1>1, <1>2, <2>1, <3>1 DEF ChangeAlone, Knows
    <3>2. CASE q # r
      <4>1. req'[q] = req[q] /\ ChangeAlone(req[q], q) /\ Knows(req[q])
        BY <1>1, <2>1, <3>2 DEF ChoiceInv
      <4>2. req[q].pc \in {"detect", "commit"} => ~req[q].alone
        BY <2>4, <3>2, <4>1 DEF ChangeAlone
      <4> QED
        BY <2>3, <4>1, <4>2 DEF ChangeAlone, Knows
    <3> QED
      BY <3>1, <3>2
  <2> QED
    BY <1>1, <2>7, <2>8 DEF ChoiceInv
<1>12. ASSUME NEW r \in Requests, StartServer(r) PROVE ChoiceInv'
  <2> DEFINE x == [Idle EXCEPT !.pc = "launch", !.row = row, !.promise = promise]
  <2>1. req' = [req EXCEPT ![r] = x] /\ UNCHANGED <<row, promise, link>>
    BY <1>12 DEF StartServer
  <2>2. x.pc = "launch" /\ x.row = row /\ x.promise = promise
    BY DEF Idle
  <2>3. Knows(x)
    BY <1>1, <2>2 DEF Knows, PromiseKept
  <2> HIDE DEF x
  <2> QED
    BY <1>1, <1>4, <2>1, <2>2, <2>3, ChoiceOfOne
<1>13. ASSUME NEW r \in Requests, StartRefreshed(r) PROVE ChoiceInv'
  <2> DEFINE x == [req[r] EXCEPT !.row = row, !.promise = promise]
  <2>1. /\ req' = [req EXCEPT ![r] = x] /\ UNCHANGED <<row, promise, link>>
        /\ x.pc = "launch" /\ x.row = row /\ x.promise = promise
    BY <1>1, <1>13 DEF StartRefreshed, RequestStates
  <2>2. Knows(x)
    BY <1>1, <2>1 DEF Knows, PromiseKept
  <2> HIDE DEF x
  <2> QED
    BY <1>1, <1>4, <2>1, <2>2, ChoiceOfOne
<1>14. ASSUME NEW r \in Requests, StartLaunch(r) PROVE ChoiceInv'
  <2>1. UNCHANGED <<row, promise, link>>
    BY <1>14 DEF StartLaunch
  <2>2. CASE End(r)
    BY <1>1, <1>2, <1>4, <2>1, <2>2, ChoiceOfOne DEF Knows
  <2>3. CASE req' = [req EXCEPT ![r] =
                        [@ EXCEPT !.pc = "record", !.promise = NoPromise]]
    <3> DEFINE x == [req[r] EXCEPT !.pc = "record", !.promise = NoPromise]
    <3>1. req' = [req EXCEPT ![r] = x] /\ x.pc = "record"
      BY <1>1, <2>3 DEF RequestStates
    <3> HIDE DEF x
    <3> QED
      BY <1>1, <1>4, <2>1, <3>1, ChoiceOfOne DEF Knows
  <2> QED
    BY <1>14, <2>2, <2>3 DEF StartLaunch
<1>15. ASSUME NEW r \in Requests, StartRecord(r) PROVE ChoiceInv'
  <2>1. req[r].row \in Rows /\ row \in Rows
    BY <1>1 DEF TypeOK, RequestStates
  <2>2. End(r) /\ UNCHANGED <<promise, link>> /\ row'.there = row.there /\ row'.path = row.path
    BY <1>15, <2>1 DEF StartRecord, Written, Rows
  <2>3. PromiseKept'
    BY <1>1, <2>2 DEF PromiseKept, For
  <2>4. req'[r] = Idle /\ \A q \in Requests \ {r} : req'[q] = req[q]
    BY <1>1, <2>2
  <2>5. Changing' = Changing
    BY <1>2, <1>15, <2>4 DEF Changing, StartRecord
  <2> QED
    BY <1>1, <1>2, <2>2, <2>3, <2>4, <2>5 DEF ChoiceInv, ChangeAlone, Knows
<1>16. ASSUME NEW r \in Requests, NEW l \in {"run", "killing"}, Goto(r, l),
              UNCHANGED <<row, promise, link>>
       PROVE  ChoiceInv'
  <2> DEFINE x == [req[r] EXCEPT !.pc = l]
  <2>1. req' = [req EXCEPT ![r] = x] /\ x.pc = l
    BY <1>1, <1>16 DEF RequestStates
  <2> HIDE DEF x
  <2> QED
    BY <1>1, <1>4, <1>16, <2>1, ChoiceOfOne DEF Knows
<1>17. ASSUME NEW r \in Requests, InstallJava(r) \/ InstallTimeout(r) PROVE ChoiceInv'
  BY <1>16, <1>17 DEF InstallJava, InstallTimeout
<1>18. ASSUME NEW r \in Requests, InstallEnded(r) \/ InstallKillFailed(r) PROVE ChoiceInv'
  <2>1. End(r) /\ UNCHANGED <<row, promise, link>>
    BY <1>18 DEF InstallEnded, InstallKillFailed, Answered
  <2> QED
    BY <1>1, <1>2, <1>4, <2>1, ChoiceOfOne DEF Knows
<1>19. ASSUME NEW r \in Requests, HelperBegins(r) PROVE ChoiceInv'
  BY <1>3, <1>19 DEF HelperBegins
<1>20. ASSUME NEW r \in Requests, HelperEnds(r) PROVE ChoiceInv'
  <2>1. UNCHANGED <<row, req>>
    BY <1>20 DEF HelperEnds
  <2>2. CASE UNCHANGED <<promise, link>>
    BY <1>3, <2>1, <2>2
  <2>3. CASE InstallPackage(helper[r].version)
    <3>1. PICK m : LinkLeads(m)
      BY <2>3 DEF InstallPackage
    <3>2. PromiseKept'
      BY <1>1, <2>1, <3>1, LinkKeepsPromise
    <3> QED
      BY <1>1, <2>1, <3>2 DEF ChoiceInv, ChangeAlone, Knows, Changing
  <2> QED
    BY <1>20, <2>2, <2>3 DEF HelperEnds
<1> QED
  BY <1>5, <1>6, <1>7, <1>8, <1>9, <1>10, <1>11, <1>12, <1>13, <1>14, <1>15, <1>17,
     <1>18, <1>19, <1>20 DEF Next, Proceed

(* A launch is a step of start_server and of nothing else.                 *)
LEMMA OnlyStartLaunches ==
    ASSUME TypeOK, [Next]_vars, NEW r \in Requests, Launches(r)
    PROVE  StartLaunch(r)
<1>1. req \in [Requests -> RequestStates] /\ At(r, "launch") /\ req'[r].pc = "record"
  BY DEF TypeOK, Launches
<1>2. Idle.pc = "idle"
  BY DEF Idle
<1>3. ASSUME UNCHANGED req PROVE FALSE
  BY <1>1, <1>3
<1>4. ASSUME NEW q \in Requests, NEW x, req' = [req EXCEPT ![q] = x], x.pc # "record"
      PROVE  FALSE
  BY <1>1, <1>4
<1>5. ~(CreateServer \/ RegisterServer \/ ServerDown \/ HostChange \/ UNCHANGED vars)
  BY <1>3 DEF CreateServer, RegisterServer, NewServer, ServerDown, HostChange, vars
<1>6. ~Crash
  BY <1>1, <1>2 DEF Crash
<1>7. ASSUME NEW q \in Requests, NEW p \in Forms, SetJava(q, p) PROVE FALSE
  BY <1>1, <1>7 DEF SetJava, Idle, RequestStates
<1>8. ASSUME NEW q \in Requests, SetDetect(q) PROVE FALSE
  BY <1>1, <1>2, <1>8 DEF SetDetect, RequestStates
<1>9. ASSUME NEW q \in Requests,
             SetCommit(q) \/ StartRecord(q) \/ InstallEnded(q) \/ InstallKillFailed(q)
      PROVE  FALSE
  BY <1>2, <1>4, <1>9 DEF SetCommit, StartRecord, InstallEnded, InstallKillFailed, Answered
<1>10. ASSUME NEW q \in Requests, StartServer(q) PROVE FALSE
  BY <1>1, <1>10 DEF StartServer, Idle
<1>11. ASSUME NEW q \in Requests, StartRefreshed(q) PROVE FALSE
  BY <1>1, <1>11 DEF StartRefreshed, RequestStates
<1>12. ASSUME NEW q \in Requests, InstallJava(q) \/ InstallTimeout(q) PROVE FALSE
  BY <1>1, <1>12 DEF InstallJava, InstallTimeout, RequestStates
<1>13. ASSUME NEW q \in Requests, HelperBegins(q) \/ HelperEnds(q) PROVE FALSE
  BY <1>3, <1>13 DEF HelperBegins, HelperEnds
<1>14. ASSUME NEW q \in Requests, StartLaunch(q) PROVE q = r
  BY <1>1, <1>2, <1>14 DEF StartLaunch
<1> QED
  BY <1>5, <1>6, <1>7, <1>8, <1>9, <1>10, <1>11, <1>12, <1>13, <1>14 DEF Next, Proceed

(* For any number of requests and any changes of the host: a server that   *)
(* is started from the row a choice has left runs on the Java that was     *)
(* named in the answer (action_set_java, start_server).                    *)
THEOREM ChoiceKept == Spec => ChoiceHeld
<1>1. ASSUME ChoiceInv, [Next]_vars
      PROVE  \A r \in Requests :
                Launches(r) /\ req[r].promise = promise /\ promise.major # None
                    => proc' = promise.major
  <2>1. SUFFICES ASSUME NEW r \in Requests, Launches(r), req[r].promise = promise,
                        promise.major # None
                 PROVE  proc' = promise.major
    OBVIOUS
  <2> DEFINE path == req[r].row.path
  <2>2. TypeOK /\ PromiseKept /\ Knows(req[r])
    BY <1>1 DEF ChoiceInv
  <2>3. StartLaunch(r) /\ At(r, "launch") /\ req'[r].pc = "record"
    BY <1>1, <2>1, <2>2, OnlyStartLaunches DEF Launches
  <2>4. Idle.pc = "idle" /\ req \in [Requests -> RequestStates]
    BY <2>2 DEF Idle, TypeOK
  <2>5. MajorAt(path) # None /\ proc' = MajorAt(path)
    BY <2>3, <2>4 DEF StartLaunch
  <2>6. path = promise.path /\ For(promise.major, promise.path) /\ path \in Paths
    BY <2>1, <2>2, <2>3, <2>4 DEF Knows, PromiseKept, RequestStates, Rows
  <2> HIDE DEF path
  <2>7. MajorAt(path) = promise.major
    BY <2>2, <2>5, <2>6, TypeHosted, MajorOfPath DEF For
  <2> QED
    BY <2>5, <2>7
<1>2. ChoiceInv /\ [Next]_vars =>
        [\A r \in Requests :
            Launches(r) /\ req[r].promise = promise /\ promise.major # None
                => proc' = promise.major]_vars
  BY <1>1
<1> QED
  BY <1>2, ChoiceInit, ChoiceStep, PTL DEF Spec, ChoiceHeld

=============================================================================

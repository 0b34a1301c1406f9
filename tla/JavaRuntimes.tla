---------------------------- MODULE JavaRuntimes ----------------------------
(***************************************************************************)
(* The Java runtimes of the host and the one a server is started with:     *)
(* app/services/java_runtime.py, action_set_java of app/routers/servers.py *)
(* and the installer of app/routers/system.py with its root helper         *)
(* scripts/install_java_runtime.sh. One server, one row of table servers.  *)
(***************************************************************************)
EXTENDS Naturals, FiniteSets

CONSTANTS
    Requests,     \* requests that may be in progress at once
    Allowed,      \* ALLOWED_JAVA_VERSIONS, Java majors
    Permitted,    \* those of them the sudoers rules name
    Versions,     \* Minecraft versions the server may have
    Forms,        \* paths the forms may name
    MaxBuild,     \* bound: builds of one major, one after the other
    MaxRequests,  \* bound: requests that begin
    MaxChanges    \* bound: changes made to the host beside the appliance

None == 0         \* no major, no build

(* A version is "1.<minor>.<patch>" (legacy), another number (minor is the *)
(* one that leads it) or nothing that begins with a number.                *)
VersionShapes ==
    [line : {"legacy", "numbered", "unknown"}, minor : Nat, patch : Nat]

(* A build has a directory of its own, and a name that stays the same from *)
(* build to build also leads there.                                        *)
Link == [kind |-> "link", major |-> None, build |-> None]
Named(m) == [kind |-> "named", major |-> m, build |-> None]
Built(m, b) == [kind |-> "built", major |-> m, build |-> b]
Paths == {Link} \cup {Named(m) : m \in Allowed}
                \cup {Built(m, b) : m \in Allowed, b \in 1 .. MaxBuild}

ASSUME JavaAssumption ==
    /\ Allowed \subseteq Nat \ {None} /\ Permitted \subseteq Allowed
    /\ Versions \subseteq VersionShapes
    /\ Forms \subseteq Paths
    /\ MaxBuild \in Nat \ {0} /\ MaxRequests \in Nat /\ MaxChanges \in Nat

VARIABLES
    host,     \* which build of each major is installed
    link,     \* the major /usr/bin/java leads to
    row,      \* the server's row, committed
    proc,     \* the major the server process runs, None while it is down
    req,      \* the requests in progress
    helper,   \* the root helper each install request has started
    promise,  \* what "Server Java runtime set to ..." said last (history)
    spent     \* requests begun and changes made (bounds)

vars == <<host, link, row, proc, req, helper, promise, spent>>

(* Of the displayed start command, the path it begins with.                *)
Rows == [there : BOOLEAN, path : Paths, command : Paths]
Unregistered == [there |-> FALSE, path |-> Link, command |-> Link]

Majors == Allowed \cup {None}
Promises == [major : Majors, path : Paths]
NoPromise == [major |-> None, path |-> Link]

(* row is the copy the request's session holds. History: alone, no other   *)
(* change of the runtime overlaps; promise, the one in force at the read.  *)
RequestStates ==
    [pc : {"idle", "detect", "commit", "launch", "record", "run", "killing"},
     row : Rows, path : Paths, major : Majors,
     alone : BOOLEAN, promise : Promises]
Idle == [pc |-> "idle", row |-> Unregistered, path |-> Link, major |-> None,
         alone |-> FALSE, promise |-> NoPromise]

HelperStates == [version : Permitted, step : {"queued", "works", "ok", "failed"}]
                \cup {[version |-> None, step |-> "none"]}
NoHelper == [version |-> None, step |-> "none"]

Present == {m \in Allowed : host[m] # None}

TypeOK ==
    /\ host \in [Allowed -> 0 .. MaxBuild] /\ link \in Present \cup {None}
    /\ row \in Rows
    /\ proc \in Majors
    /\ req \in [Requests -> RequestStates]
    /\ helper \in [Requests -> HelperStates]
    /\ promise \in Promises
    /\ spent \in [requests : 0 .. MaxRequests, changes : 0 .. MaxChanges]

Init ==
    /\ host \in [Allowed -> {None, 1}] /\ link \in Present \cup {None}
    /\ row = Unregistered
    /\ proc = None
    /\ req = [r \in Requests |-> Idle]
    /\ helper = [r \in Requests |-> NoHelper]
    /\ promise = NoPromise
    /\ spent = [requests |-> 0, changes |-> 0]

----------------------------------------------------------------------------
(* Paths and detection                                                     *)

(* os.path.realpath: a path that leads nowhere stays as it is.             *)
Real(p) ==
    IF p.kind = "link" /\ link # None THEN Built(link, host[link])
    ELSE IF p.kind = "named" /\ p.major \in Present THEN Built(p.major, host[p.major])
    ELSE p

(* The major of the binary a path leads to, None where there is none.      *)
MajorAt(p) ==
    LET real == Real(p) IN
    IF \E m \in Present : real = Built(m, host[m]) THEN real.major ELSE None

(* What `java -version` makes of a binary: its major, a banner that does   *)
(* not show it, no answer in time.                                         *)
ProbeOutcomes == {"read", "odd", "silent"}

(* detect_runtimes. /usr/bin/java comes first and hides the other paths of *)
(* its binary; which of those the glob lists first is the file system's    *)
(* choice. A silent binary is left out.                                    *)
DetectRuntimes(first, probe) ==
    {[path |-> IF m = link THEN Link ELSE first[m],
      major |-> IF probe[m] = "read" THEN m ELSE None]
        : m \in {n \in Present : probe[n] # "silent"}}

Orders == {[m \in Present |-> IF m \in named THEN Named(m) ELSE Built(m, host[m])]
              : named \in SUBSET Present}
Detections ==
    {DetectRuntimes(first, probe) : first \in Orders, probe \in [Present -> ProbeOutcomes]}

(* Mutant: the paths are compared as they are written.                     *)
FindRuntimeLiteral(p, runtimes) == {rt \in runtimes : rt.path = p}

(* find_runtime: the detected runtime that p leads to.                     *)
FindRuntime(p, runtimes) == {rt \in runtimes : Real(rt.path) = Real(p)}

(* minecraft_version_to_java                                               *)
JavaFor(v) ==
    IF v.line = "legacy"
    THEN IF v.minor <= 16 THEN 8
         ELSE IF v.minor < 20 \/ (v.minor = 20 /\ v.patch < 5) THEN 17 ELSE 21
    ELSE IF v.line = "numbered" /\ v.minor >= 2 THEN 25 ELSE None

(* server_java_info: the page shows no mismatch.                           *)
NoMismatch(path, version, runtimes) ==
    \E rt \in FindRuntime(path, runtimes) :
        rt.major # None /\ (JavaFor(version) = None \/ rt.major >= JavaFor(version))

----------------------------------------------------------------------------
(* Requests                                                                *)

At(r, label) == req[r].pc = label
Goto(r, label) == req' = [req EXCEPT ![r].pc = label]
End(r) == req' = [req EXCEPT ![r] = Idle]

Begin(r) == /\ At(r, "idle") /\ spent.requests < MaxRequests
            /\ spent' = [spent EXCEPT !.requests = @ + 1]

NewServer(p) ==
    /\ ~row.there /\ row' = [there |-> TRUE, path |-> p, command |-> p]
    /\ UNCHANGED <<host, link, proc, req, helper, promise, spent>>

(* create_server keeps a path it detects, or else takes the default;       *)
(* register_server keeps what it is given.                                 *)
CreateServer ==
    \E p \in Forms, runtimes \in Detections :
        NewServer(IF FindRuntime(p, runtimes) # {} THEN p ELSE Link)

RegisterServer == \E p \in Forms : NewServer(p)

(* action_set_java: the row is read, the host probed, the row written. The *)
(* form may have been open for long, so it may name any path.              *)
Changing == {r \in Requests : req[r].pc \in {"detect", "commit"}}

SetJava(r, p) ==
    /\ row.there /\ Begin(r)
    /\ req' = [q \in Requests |->
                 IF q = r THEN [Idle EXCEPT !.pc = "detect", !.row = row, !.path = p,
                                            !.alone = (Changing = {})]
                 ELSE [req[q] EXCEPT !.alone = @ /\ q \notin Changing]]
    /\ UNCHANGED <<host, link, row, proc, helper, promise>>

SetDetect(r) ==
    /\ At(r, "detect")
    /\ \E runtimes \in Detections :
          LET found == FindRuntime(req[r].path, runtimes) IN
          \/ found = {} /\ End(r)
          \/ \E rt \in found :
                req' = [req EXCEPT ![r] =
                           [@ EXCEPT !.pc = "commit", !.major = rt.major]]
    /\ UNCHANGED <<host, link, row, proc, helper, promise, spent>>

(* Mutant: the command is written whether or not it has changed.           *)
WrittenAlways(cached, new) ==
    [row EXCEPT !.path = IF new.path # cached.path THEN new.path ELSE @,
                !.command = new.command]

(* A session's commit writes the columns it has changed.                   *)
Written(cached, new) ==
    [row EXCEPT !.path = IF new.path # cached.path THEN new.path ELSE @,
                !.command = IF new.command # cached.command THEN new.command ELSE @]

SetCommit(r) ==
    /\ At(r, "commit") /\ End(r)
    /\ LET me == req[r] IN
       /\ row' = Written(me.row, [me.row EXCEPT !.path = me.path, !.command = me.path])
       /\ promise' = IF me.alone /\ me.major # None /\ (me.path = Link => link = me.major)
                     THEN [major |-> me.major, path |-> me.path] ELSE NoPromise
    /\ UNCHANGED <<host, link, proc, helper, spent>>

----------------------------------------------------------------------------
(* start_server, as far as the runtime goes                                *)

StartServer(r) ==
    /\ row.there /\ proc = None /\ Begin(r)
    /\ req' = [req EXCEPT ![r] = [Idle EXCEPT !.pc = "launch", !.row = row,
                                              !.promise = promise]]
    /\ UNCHANGED <<host, link, row, proc, helper, promise>>

(* A commit on the way, of the status or of the snapshot on start, has the *)
(* row read again.                                                         *)
StartRefreshed(r) ==
    /\ At(r, "launch")
    /\ <<req[r].row, req[r].promise>> # <<row, promise>>
    /\ req' = [req EXCEPT ![r] = [@ EXCEPT !.row = row, !.promise = promise]]
    /\ UNCHANGED <<host, link, row, proc, helper, promise, spent>>

(* Mutant: the row's path is not resolved, the java on PATH is run.        *)
StartLaunchDefault(r) ==
    /\ At(r, "launch")
    /\ \/ link = None /\ End(r) /\ UNCHANGED proc
       \/ /\ link # None /\ proc' = link
          /\ req' = [req EXCEPT ![r] =
                        [@ EXCEPT !.pc = "record", !.promise = NoPromise]]
    /\ UNCHANGED <<host, link, row, helper, promise, spent>>

(* Popen; where no binary is, it raises.                                   *)
StartLaunch(r) ==
    /\ At(r, "launch")
    /\ LET major == MajorAt(req[r].row.path) IN
       \/ major = None /\ End(r) /\ UNCHANGED proc
       \/ /\ major # None /\ proc' = major
          /\ req' = [req EXCEPT ![r] =
                        [@ EXCEPT !.pc = "record", !.promise = NoPromise]]
    /\ UNCHANGED <<host, link, row, helper, promise, spent>>

StartRecord(r) ==
    /\ At(r, "record") /\ End(r)
    /\ LET cached == req[r].row IN
       row' = Written(cached, [cached EXCEPT !.command = cached.path])
    /\ UNCHANGED <<host, link, proc, helper, promise, spent>>

(* Every way the server goes down; ServerProcess tells them apart.         *)
ServerDown ==
    /\ proc # None /\ proc' = None
    /\ UNCHANGED <<host, link, row, req, helper, promise, spent>>

----------------------------------------------------------------------------
(* install_java and the helper                                             *)

Ended(r) == helper[r].step \in {"none", "ok", "failed"}

(* Mutant: the sudoers rules are not asked for the version.                *)
CanInstallUnasked(v) == TRUE

(* `sudo -n -l` tells what the rules grant without running it.             *)
CanInstall(v) == v \in Permitted

(* A version off the list, or one the rules do not grant, is refused with  *)
(* nothing run and nothing changed.                                        *)
InstallJava(r) ==
    /\ Ended(r) /\ Begin(r) /\ Goto(r, "run")
    /\ \E v \in Allowed :
          CanInstall(v) /\ helper' = [helper EXCEPT ![r] = [version |-> v, step |-> "queued"]]
    /\ UNCHANGED <<host, link, row, proc, promise>>

(* One package manager works at a time. Without its lock dnf waits, which  *)
(* is no step, and apt gives up.                                           *)
HelperBegins(r) ==
    /\ helper[r].step = "queued"
    /\ LET taken == \E q \in Requests : helper[q].step = "works" IN
       helper' = [helper EXCEPT ![r].step = IF taken THEN "failed" ELSE "works"]
    /\ UNCHANGED <<host, link, row, proc, req, promise, spent>>

(* A promise of what /usr/bin/java leads to lapses when it leads elsewhere. *)
LinkLeads(m) ==
    /\ link' = m
    /\ promise' = IF m # link /\ promise.path = Link THEN NoPromise ELSE promise

(* The package is new, or is there and is brought to its next build. A new *)
(* one may become what /usr/bin/java leads to.                             *)
InstallPackage(m) ==
    /\ \E b \in (host[m] .. host[m] + 1) \cap 1 .. MaxBuild : host' = [host EXCEPT ![m] = b]
    /\ \E target \in {m} \cup ({link} \ {None}) : LinkLeads(target)

HelperEnds(r) ==
    /\ helper[r].step = "works"
    /\ \/ /\ InstallPackage(helper[r].version)
          /\ helper' = [helper EXCEPT ![r].step = "ok"]
       \/ /\ helper' = [helper EXCEPT ![r].step = "failed"]
          /\ UNCHANGED <<host, link, promise>>
    /\ UNCHANGED <<row, proc, req, spent>>

Answered(r) == End(r) /\ helper' = [helper EXCEPT ![r] = NoHelper]

(* The answer tells the helper's exit and what a new detection finds.      *)
InstallEnded(r) ==
    /\ At(r, "run") /\ Ended(r) /\ Answered(r)
    /\ UNCHANGED <<host, link, row, proc, promise, spent>>

(* The wait runs out. subprocess.run then kills the helper, which is       *)
(* root's: the kill is refused, and the request waits for its end.         *)
InstallTimeout(r) ==
    /\ At(r, "run") /\ ~Ended(r) /\ Goto(r, "killing")
    /\ UNCHANGED <<host, link, row, proc, helper, promise, spent>>

(* "Could not start the installer"                                         *)
InstallKillFailed(r) ==
    /\ At(r, "killing") /\ Ended(r) /\ Answered(r)
    /\ UNCHANGED <<host, link, row, proc, promise, spent>>

----------------------------------------------------------------------------
(* The host, and the end of the application                                *)

Change == /\ spent.changes < MaxChanges
          /\ spent' = [spent EXCEPT !.changes = @ + 1]

(* An administrator, or an update of the system: a package is installed or *)
(* brought to its next build, removed, or the alternatives are switched.   *)
HostChange ==
    /\ Change
    /\ \/ \E m \in Allowed : InstallPackage(m)
       \/ \E m \in Present :
             /\ host' = [host EXCEPT ![m] = None]
             /\ \E target \in IF link = m THEN (Present \ {m}) \cup {None} ELSE {link} :
                   LinkLeads(target)
       \/ \E m \in Present \ {link} : LinkLeads(m) /\ UNCHANGED host
    /\ UNCHANGED <<row, proc, req, helper>>

(* The application dies; a helper at work is killed with it or goes on.    *)
Crash ==
    /\ Change /\ \E r \in Requests : ~At(r, "idle")
    /\ req' = [r \in Requests |-> Idle]
    /\ \E killed \in {{}, {r \in Requests : ~Ended(r)}} :
          helper' = [r \in Requests |->
                       IF r \in killed THEN [helper[r] EXCEPT !.step = "failed"] ELSE helper[r]]
    /\ UNCHANGED <<host, link, row, proc, promise>>

----------------------------------------------------------------------------
Proceed(r) ==
    \/ SetDetect(r) \/ SetCommit(r)
    \/ StartRefreshed(r) \/ StartLaunch(r) \/ StartRecord(r)
    \/ InstallEnded(r) \/ InstallKillFailed(r)

Next ==
    \/ CreateServer \/ RegisterServer \/ ServerDown
    \/ \E r \in Requests : \E p \in Forms : SetJava(r, p)
    \/ \E r \in Requests : StartServer(r) \/ InstallJava(r) \/ Proceed(r)
    \/ \E r \in Requests : HelperBegins(r) \/ HelperEnds(r) \/ InstallTimeout(r)
    \/ HostChange \/ Crash

Spec == Init /\ [][Next]_vars

(* The threads of the requests go on; the package manager owes nothing.    *)
FairSpec == Spec /\ \A r \in Requests :
               WF_vars(SetDetect(r) \/ SetCommit(r) \/ StartLaunch(r) \/ StartRecord(r)
                       \/ InstallEnded(r) \/ InstallTimeout(r) \/ InstallKillFailed(r))

----------------------------------------------------------------------------
(* Properties                                                              *)

(* What the version table of docs/17_server_runtime_controls.md asks for,  *)
(* told by the order of versions.                                          *)
Upto(v, minor, patch) == v.minor < minor \/ (v.minor = minor /\ v.patch <= patch)
Documented(v) ==
    IF v.line = "legacy"
    THEN {j \in {8, 17, 21} : /\ j = 8 <=> v.minor < 17
                              /\ j = 21 <=> ~Upto(v, 20, 4)}
    ELSE IF v.line = "numbered" /\ v.minor >= 2 THEN {25} ELSE {}

Fits(path, v) ==
    MajorAt(path) # None /\ \A j \in Documented(v) : MajorAt(path) >= j

(* The detail page warns of a mismatch if the server could not be started  *)
(* as it stands, or would run on a Java older than the documented table    *)
(* asks for; it warns without need only when a probe got no good answer.   *)
(* Detection hides a JVM's own path behind /usr/bin/java, the row may name *)
(* any path to it, and the answer must be the same (server_java_info).     *)
PageTruthful ==
    \A v \in Versions, first \in Orders, probe \in [Present -> ProbeOutcomes] :
        LET fine == NoMismatch(row.path, v, DetectRuntimes(first, probe)) IN
        /\ fine => Fits(row.path, v)
        /\ Fits(row.path, v) => fine \/ probe[MajorAt(row.path)] # "read"

(* The row's start command begins with the row's java_path, whichever      *)
(* requests have written the two columns in whichever order: action_set_   *)
(* java writes both, start_server only the command, from a row it has read *)
(* before (servers.py:749-752, server_process.py:205).                     *)
CommandMatches == row.command = row.path

Launches(r) == At(r, "launch") /\ req'[r].pc = "record"

(* "Server Java runtime set to Java N": started from the row written then, *)
(* the server runs on Java N, whatever is installed, updated or removed    *)
(* meanwhile, as long as /usr/bin/java is not led elsewhere where that is  *)
(* the path chosen, and no two changes of the runtime have overlapped.     *)
ChoiceHeld ==
    [][\A r \in Requests :
          Launches(r) /\ req[r].promise = promise /\ promise.major # None
              => proc' = promise.major]_vars

(* Stated by the documents, and not kept; see the README.                  *)

(* docs/17: only this server's java_path decides; the path that was chosen *)
(* as Java N does not lead to another Java later.                          *)
ChoiceStays ==
    [][\A p \in Paths :
          promise.path = p /\ promise.major # None /\ MajorAt(p) = promise.major
              => MajorAt(p)' \in {None, promise.major}]_vars

(* The path action_set_java names in its answer is the row's by then       *)
(* (servers.py:758-760).                                                   *)
SetTold ==
    [][\A r \in Requests : At(r, "commit") /\ SetCommit(r) => row'.path = req[r].path]_vars

(* config.py:326: a hard cap on how long an install is waited for.         *)
GivesUp == \A r \in Requests : At(r, "run") ~> At(r, "idle")
=============================================================================

--------------------------- MODULE ServerRegistry ---------------------------
(***************************************************************************)
(* How servers come into the system: create_server builds a directory      *)
(* under SERVERS_DIR (app/services/server_creator.py), register_server     *)
(* adopts one that is there. Creations are coroutines: they share the      *)
(* event loop, which they give up only while an upload is read.            *)
(* Registrations run in threads, beside whatever holds the loop.           *)
(***************************************************************************)
EXTENDS Naturals, FiniteSets

CONSTANTS
    Sessions,    \* requests that may be in progress at once
    Names,       \* server names; the directory of that name stands below it
    Faults       \* what may go wrong: "disk", "cached", "locked", "crash"

Operator == "operator"
Nobody == "nobody"
Nowhere == "nowhere"

JarSources == {"none", "upload", "cached"}

ASSUME RegistryAssumption ==
    /\ IsFiniteSet(Sessions) /\ Sessions \cap {Operator, Nobody} = {}
    /\ Nowhere \notin Names
    /\ Faults \subseteq {"disk", "cached", "locked", "crash"}

VARIABLES
    dirs,      \* the directories of SERVERS_DIR
    rows,      \* table servers, committed
    loop,      \* the coroutine that holds the event loop
    sess,      \* the requests
    excused    \* names whose creation met a fault or a duplicate (history)

vars == <<dirs, rows, loop, sess, excused>>

Parts == {"eula", "properties", "collections"}

(* maker: who made the directory (history), Nobody if it does not exist.   *)
Directories ==
    [maker : Sessions \cup {Operator, Nobody}, parts : SUBSET Parts,
     jar : {"absent", "part", "whole"}]

Missing == [maker |-> Nobody, parts |-> {}, jar |-> "absent"]
Adopted == [maker |-> Operator, parts |-> Parts, jar |-> "whole"]

(* from and jar say how the row came about (history).                      *)
ServerRows ==
    [name : Names, dir : Names, from : {"create", "register"}, jar : JarSources]

SessionStates ==
    [pc : {"idle", "validate", "buffer", "make", "lay", "jar", "copy", "commit",
           "detect", "insert"},
     name : Names \cup {Nowhere}, dir : Names \cup {Nowhere}, jar : JarSources]

Idle == [pc |-> "idle", name |-> Nowhere, dir |-> Nowhere, jar |-> "none"]

TypeOK ==
    /\ dirs \in [Names -> Directories]
    /\ rows \in SUBSET ServerRows
    /\ loop \in Sessions \cup {Nobody}
    /\ sess \in [Sessions -> SessionStates]
    /\ excused \subseteq Names

(* The operator may have put directories there, and registered none yet.   *)
Init ==
    /\ dirs \in [Names -> {Missing, Adopted}]
    /\ rows = {} /\ loop = Nobody
    /\ sess = [s \in Sessions |-> Idle]
    /\ excused = {}

----------------------------------------------------------------------------
(* Helpers                                                                 *)

At(s, label) == sess[s].pc = label
Goto(s, label) == sess' = [sess EXCEPT ![s].pc = label]

(* The response is sent and the coroutine, if it is one, leaves the loop.  *)
End(s) ==
    /\ sess' = [sess EXCEPT ![s] = Idle]
    /\ loop' = IF loop = s THEN Nobody ELSE loop

Exists(d) == d \in Names /\ dirs[d].maker # Nobody

NameTaken(n) == \E r \in rows : r.name = n

(* The coroutine may run its next piece.                                   *)
MayRun(s) == loop \in {Nobody, s}

(* The request fails after it has made the directory.                      *)
Abandon(s) == End(s) /\ excused' = excused \cup {sess[s].name}

----------------------------------------------------------------------------
(* create_server                                                           *)

(* Mutant: the directory is made before the upload is read.                *)
CreateCheckedEarly(s) ==
    /\ At(s, "validate") /\ MayRun(s)
    /\ ~NameTaken(sess[s].name) /\ ~Exists(sess[s].name)
    /\ dirs' = [dirs EXCEPT ![sess[s].name].maker = s]
    /\ \/ sess[s].jar = "upload" /\ Goto(s, "buffer") /\ UNCHANGED loop
       \/ sess[s].jar # "upload" /\ Goto(s, "lay") /\ loop' = s
    /\ UNCHANGED <<rows, excused>>

(* The form is validated and the cached jar looked up. Without an upload   *)
(* the coroutine then runs to its end in one piece.                        *)
CreateChecked(s) ==
    /\ At(s, "validate") /\ MayRun(s)
    /\ \/ End(s)
       \/ /\ ~NameTaken(sess[s].name)
          /\ \/ sess[s].jar = "upload" /\ Goto(s, "buffer") /\ UNCHANGED loop
             \/ sess[s].jar # "upload" /\ Goto(s, "make") /\ loop' = s
    /\ UNCHANGED <<dirs, rows, excused>>

(* buffer_jar_upload: the upload is whole, or it is refused.               *)
Buffered(s) ==
    /\ At(s, "buffer") /\ MayRun(s)
    /\ \/ Goto(s, "make") /\ loop' = s
       \/ End(s)
    /\ UNCHANGED <<dirs, rows, excused>>

(* Mutant: mkdir(exist_ok=True) and no look before it.                     *)
CreateDirectoryExistOk(s) ==
    /\ At(s, "make")
    /\ dirs' = [dirs EXCEPT ![sess[s].name].maker = IF @ = Nobody THEN s ELSE @]
    /\ Goto(s, "lay") /\ UNCHANGED loop
    /\ UNCHANGED <<rows, excused>>

CreateDirectory(s) ==
    /\ At(s, "make")
    /\ \/ /\ ~Exists(sess[s].name)
          /\ dirs' = [dirs EXCEPT ![sess[s].name].maker = s]
          /\ Goto(s, "lay") /\ UNCHANGED loop
       \/ /\ Exists(sess[s].name) \/ "disk" \in Faults
          /\ End(s) /\ UNCHANGED dirs
    /\ UNCHANGED <<rows, excused>>

(* write_eula, write_properties and ensure_mod_plugin_dirs, in this order. *)
NextPart(d) ==
    CASE "eula" \notin d.parts -> "eula"
      [] "properties" \notin d.parts -> "properties"
      [] OTHER -> "collections"

Lay(s) ==
    /\ At(s, "lay")
    /\ LET n == sess[s].name
           laid == dirs[n].parts \cup {NextPart(dirs[n])} IN
       \/ /\ dirs' = [dirs EXCEPT ![n].parts = laid]
          /\ Goto(s, IF laid # Parts THEN "lay"
                     ELSE IF sess[s].jar = "none" THEN "commit" ELSE "jar")
          /\ UNCHANGED <<loop, excused>>
       \/ "disk" \in Faults /\ Abandon(s) /\ UNCHANGED dirs
    /\ UNCHANGED rows

(* save_jar and place_cached_jar: server.jar is opened, which empties it.  *)
(* A cached jar may be gone by now.                                        *)
OpenJar(s) ==
    /\ At(s, "jar")
    /\ \/ /\ dirs' = [dirs EXCEPT ![sess[s].name].jar = "part"]
          /\ Goto(s, "copy") /\ UNCHANGED <<loop, excused>>
       \/ /\ "disk" \in Faults \/ (sess[s].jar = "cached" /\ "cached" \in Faults)
          /\ Abandon(s) /\ UNCHANGED dirs
    /\ UNCHANGED rows

(* Mutant: a copy that failed does not end the creation.                   *)
CopyJarRegardless(s) ==
    /\ At(s, "copy")
    /\ \/ dirs' = [dirs EXCEPT ![sess[s].name].jar = "whole"]
       \/ UNCHANGED dirs
    /\ Goto(s, "commit")
    /\ UNCHANGED <<rows, loop, excused>>

(* ... and filled.                                                         *)
CopyJar(s) ==
    /\ At(s, "copy")
    /\ \/ /\ dirs' = [dirs EXCEPT ![sess[s].name].jar = "whole"]
          /\ Goto(s, "commit") /\ UNCHANGED <<loop, excused>>
       \/ "disk" \in Faults /\ Abandon(s) /\ UNCHANGED dirs
    /\ UNCHANGED rows

(* INSERT: the name is unique. A thread may have registered it since it    *)
(* was checked.                                                            *)
CreateCommit(s) ==
    /\ At(s, "commit")
    /\ \/ /\ ~NameTaken(sess[s].name)
          /\ rows' = rows \cup {[name |-> sess[s].name, dir |-> sess[s].name,
                                 from |-> "create", jar |-> sess[s].jar]}
          /\ End(s) /\ UNCHANGED excused
       \/ /\ NameTaken(sess[s].name) \/ "locked" \in Faults
          /\ Abandon(s) /\ UNCHANGED rows
    /\ UNCHANGED dirs

----------------------------------------------------------------------------
(* register_server                                                         *)

(* Mutant: only a path below SERVERS_DIR is looked at.                     *)
RegisterAnywhere(s) ==
    /\ At(s, "detect")
    /\ sess[s].dir \in Names => dirs[sess[s].dir].jar # "absent"
    /\ ~NameTaken(sess[s].name) /\ Goto(s, "insert")
    /\ UNCHANGED <<dirs, rows, loop, excused>>

(* The directory exists, the name is free and detect_server finds a jar,   *)
(* of which it sees only the file name.                                    *)
RegisterChecked(s) ==
    /\ At(s, "detect")
    /\ \/ /\ Exists(sess[s].dir) /\ dirs[sess[s].dir].jar # "absent"
          /\ ~NameTaken(sess[s].name)
          /\ Goto(s, "insert") /\ UNCHANGED loop
       \/ End(s)
    /\ UNCHANGED <<dirs, rows, excused>>

RegisterCommit(s) ==
    /\ At(s, "insert")
    /\ \/ /\ ~NameTaken(sess[s].name)
          /\ rows' = rows \cup {[name |-> sess[s].name, dir |-> sess[s].dir,
                                 from |-> "register", jar |-> "none"]}
       \/ NameTaken(sess[s].name) /\ UNCHANGED rows
       \/ "locked" \in Faults /\ UNCHANGED rows
    /\ End(s)
    /\ UNCHANGED <<dirs, excused>>

----------------------------------------------------------------------------
(* Requests and their surroundings                                         *)

Create(s) ==
    /\ At(s, "idle")
    /\ \E n \in Names, j \in JarSources :
          sess' = [sess EXCEPT ![s] =
              [pc |-> "validate", name |-> n, dir |-> n, jar |-> j]]
    /\ UNCHANGED <<dirs, rows, loop, excused>>

Register(s) ==
    /\ At(s, "idle")
    /\ \E n \in Names, d \in Names \cup {Nowhere} :
          sess' = [sess EXCEPT ![s] =
              [pc |-> "detect", name |-> n, dir |-> d, jar |-> "none"]]
    /\ UNCHANGED <<dirs, rows, loop, excused>>

(* A creation is building the directory of this name.                      *)
Building(s, n) ==
    sess[s].pc \in {"lay", "jar", "copy", "commit"} /\ sess[s].name = n

Crash ==
    /\ "crash" \in Faults
    /\ excused' = excused \cup {n \in Names : \E s \in Sessions : Building(s, n)}
    /\ sess' = [s \in Sessions |-> Idle] /\ loop' = Nobody
    /\ UNCHANGED <<dirs, rows>>

Next ==
    \/ \E s \in Sessions :
          \/ Create(s) \/ CreateChecked(s) \/ Buffered(s) \/ CreateDirectory(s)
          \/ Lay(s) \/ OpenJar(s) \/ CopyJar(s) \/ CreateCommit(s)
          \/ Register(s) \/ RegisterChecked(s) \/ RegisterCommit(s)
    \/ Crash

Spec == Init /\ [][Next]_vars

----------------------------------------------------------------------------
(* Properties                                                              *)

(* The row of a created server is committed only over a directory that is  *)
(* complete, and the row of a registered one over a directory with a jar,  *)
(* whatever fails or crashes on the way (create_server, register_server).  *)
RowsWhole ==
    \A r \in rows :
        /\ r.from = "create" =>
              /\ dirs[r.dir].parts = Parts
              /\ r.jar # "none" => dirs[r.dir].jar = "whole"
        /\ r.from = "register" => dirs[r.dir].jar # "absent"

(* A creation writes only into a directory it has made itself: neither     *)
(* another creation of the same name nor a directory of the operator is    *)
(* ever built over, although the name was checked before the upload was    *)
(* awaited (create_directory).                                             *)
OwnTree ==
    \A s \in Sessions, n \in Names : Building(s, n) => dirs[n].maker = s

(* A creation that was refused leaves no directory behind: only a fault of *)
(* the disk, the database or the application, a cached jar that vanished   *)
(* or a name registered meanwhile does. In particular a bad upload leaves  *)
(* nothing (buffer_jar_upload).                                            *)
RefusedLeavesNothing ==
    \A n \in Names :
        \/ dirs[n].maker \notin Sessions
        \/ \E s \in Sessions : Building(s, n)
        \/ \E r \in rows : r.from = "create" /\ r.name = n
        \/ n \in excused

(* Stronger, and false: a duplicate name is rejected before anything is    *)
(* built (docs/10_server_creation.md). A thread may register the name      *)
(* while the upload is awaited.                                            *)
DuplicateLeavesNothing == excused = {}

(* False as well: every directory is managed by one row. The path of a     *)
(* registration is compared with no other.                                 *)
OneRowPerDirectory ==
    \A r, t \in rows : r.dir = t.dir => r = t
=============================================================================

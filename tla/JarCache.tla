------------------------------ MODULE JarCache ------------------------------
(***************************************************************************)
(* The cache of Vanilla server jars: app/services/vanilla_downloader.py    *)
(* and app/routers/jars.py. Requests run in threads of their own: each has *)
(* a database session, and SQLite lets one of them write at a time. Mojang *)
(* may be out of reach, and may publish a release, at any moment.          *)
(***************************************************************************)
EXTENDS Naturals, FiniteSets

CONSTANTS
    Sessions,     \* worker threads of the web server
    MaxVersion,   \* the releases are 1, 2, ..., MaxVersion, in this order
    MaxCrashes,   \* bound on the crashes of the application
    Allowed       \* the requests a session may make

Versions == 1 .. MaxVersion
Requests == {"page", "check", "download"}
Nobody == "nobody"
Unknown == 0

(* Table server_jar_cache: one id more than there are versions suffices.   *)
Ids == 1 .. MaxVersion + 1
JarRows == [id : Ids, version : Versions, latest : BOOLEAN]

ASSUME JarAssumption ==
    /\ IsFiniteSet(Sessions) /\ Nobody \notin Sessions
    /\ MaxVersion \in Nat \ {0} /\ MaxCrashes \in Nat
    /\ Allowed \in [Sessions -> SUBSET Requests]

VARIABLES
    release,  \* latest.release of Mojang's manifest
    files,    \* vanilla/<version>/server.jar under JAR_CACHE_DIR
    rows,     \* table server_jar_cache, committed
    lock,     \* the session that holds SQLite's write lock
    sess,     \* the requests
    crashes   \* counts the crashes

vars == <<release, files, rows, lock, sess, crashes>>

(* seen: the rows in the session's identity map, with the values they were *)
(* loaded with; mine: the row it has written but not committed; know: the  *)
(* release it was told; quiet: nothing else has happened since it began    *)
(* (history).                                                              *)
SessionStates ==
    [pc : {"idle", "list", "info", "fetch", "upsert", "flush", "learn", "mark",
           "commit"},
     req : Requests, version : Versions, seen : SUBSET JarRows,
     mine : SUBSET JarRows, know : Versions \cup {Unknown}, quiet : BOOLEAN]

Idle == [pc |-> "idle", req |-> "page", version |-> 1, seen |-> {}, mine |-> {},
         know |-> Unknown, quiet |-> FALSE]

TypeOK ==
    /\ release \in Versions
    /\ files \in [Versions -> {"absent", "broken", "whole"}]
    /\ rows \in SUBSET JarRows
    /\ lock \in Sessions \cup {Nobody}
    /\ sess \in [Sessions -> SessionStates]
    /\ crashes \in 0 .. MaxCrashes

(* The first release may be cached, and may have been marked as the latest *)
(* (the manifest may have been out of reach when it was to be marked).     *)
Init ==
    /\ release = 1
    /\ \/ rows = {} /\ files = [v \in Versions |-> "absent"]
       \/ /\ \E mark \in BOOLEAN : rows = {[id |-> 1, version |-> 1, latest |-> mark]}
          /\ files = [v \in Versions |-> IF v = 1 THEN "whole" ELSE "absent"]
    /\ lock = Nobody
    /\ sess = [s \in Sessions |-> Idle]
    /\ crashes = 0

----------------------------------------------------------------------------
(* Helpers                                                                 *)

At(s, label) == sess[s].pc = label
Goto(s, label) == sess' = [sess EXCEPT ![s].pc = label]

(* Whatever s does, the others are no longer alone.                        *)
Disturbed(s) == [o \in Sessions |-> IF o = s THEN sess[o]
                                    ELSE [sess[o] EXCEPT !.quiet = FALSE]]

(* The session is closed: its transaction is committed or rolled back.     *)
Released(s) == IF lock = s THEN Nobody ELSE lock

End(s) == sess' = [sess EXCEPT ![s] = Idle] /\ lock' = Released(s)

MayWrite(s) == lock \in {Nobody, s}

RowsOf(v) == {r \in rows : r.version = v}

(* A query adds to the identity map the rows that are not in it yet; the   *)
(* others keep the values they have.                                       *)
Loaded(s) ==
    sess[s].seen \cup {r \in rows : \A o \in sess[s].seen \cup sess[s].mine : o.id # r.id}

----------------------------------------------------------------------------
(* download_server_jar                                                     *)

(* get_server_download_info: the manifest lists what has been released.    *)
ResolveDownload(s) ==
    /\ At(s, "info")
    /\ \/ sess[s].version <= release /\ Goto(s, "fetch") /\ UNCHANGED lock
       \/ End(s)
    /\ UNCHANGED <<release, files, rows, crashes>>

(* Mutant: the digest is not compared.                                     *)
DownloadUnverified(s) ==
    /\ At(s, "fetch")
    /\ \/ /\ \E body \in {"whole", "broken"} :
                files' = [files EXCEPT ![sess[s].version] = body]
          /\ Goto(s, "upsert") /\ UNCHANGED lock
       \/ End(s) /\ UNCHANGED files
    /\ UNCHANGED <<release, rows, crashes>>

(* _download_to: the verified body replaces the old file in one step; a    *)
(* body that is cut short, too long or corrupt is discarded.               *)
DownloadTo(s) ==
    /\ At(s, "fetch")
    /\ \/ /\ files' = [files EXCEPT ![sess[s].version] = "whole"]
          /\ Goto(s, "upsert") /\ UNCHANGED lock
       \/ End(s) /\ UNCHANGED files
    /\ UNCHANGED <<release, rows, crashes>>

FindRow(s) ==
    /\ At(s, "upsert")
    /\ sess' = [sess EXCEPT ![s] =
                   [@ EXCEPT !.pc = "flush",
                             !.seen = RowsOf(sess[s].version)]]
    /\ UNCHANGED <<release, files, rows, lock, crashes>>

NewRow(v) == [id |-> 1 + Cardinality(rows), version |-> v, latest |-> FALSE]

(* INSERT or UPDATE: from here to the commit the session holds the lock.   *)
(* A row that another request has inserted meanwhile is an error.          *)
Flush(s) ==
    /\ At(s, "flush") /\ MayWrite(s)
    /\ \/ /\ sess[s].seen # {} \/ RowsOf(sess[s].version) = {}
          /\ lock' = s
          /\ sess' = [sess EXCEPT ![s] =
                         [@ EXCEPT !.pc = "learn",
                                   !.mine = IF sess[s].seen = {} THEN {NewRow(sess[s].version)} ELSE {}]]
       \/ sess[s].seen = {} /\ RowsOf(sess[s].version) # {} /\ End(s)
    /\ UNCHANGED <<release, files, rows, crashes>>

----------------------------------------------------------------------------
(* get_latest_release, _mark_latest and the commit: the end of a download  *)
(* and the whole of ensure_latest_vanilla_cached(download=False)           *)

(* The page has listed the rows before it asks for the latest release.     *)
ListRows(s) ==
    /\ At(s, "list")
    /\ sess' = [sess EXCEPT ![s] =
                   [@ EXCEPT !.pc = "learn", !.seen = Loaded(s)]]
    /\ UNCHANGED <<release, files, rows, lock, crashes>>

(* Mutant: a manifest without a latest release is not refused.             *)
LearnAnything(s) ==
    /\ At(s, "learn")
    /\ \E told \in {release, MaxVersion + 1} :
          sess' = [sess EXCEPT ![s] = [@ EXCEPT !.pc = "mark", !.know = told]]
    /\ UNCHANGED <<release, files, rows, lock, crashes>>

(* A download goes on without the answer; a check ends.                    *)
LearnLatest(s) ==
    /\ At(s, "learn")
    /\ \/ /\ sess' = [sess EXCEPT ![s] =
                         [@ EXCEPT !.pc = "mark", !.know = release]]
          /\ UNCHANGED lock
       \/ sess[s].req = "download" /\ Goto(s, "commit") /\ UNCHANGED lock
       \/ sess[s].req # "download" /\ End(s)
    /\ UNCHANGED <<release, files, rows, crashes>>

MarkLatest(s) ==
    /\ At(s, "mark")
    /\ sess' = [sess EXCEPT ![s] =
                   [@ EXCEPT !.pc = "commit", !.seen = Loaded(s)]]
    /\ UNCHANGED <<release, files, rows, lock, crashes>>

IsLatest(s, r) == r.version = sess[s].know

(* Mutant: the flag is set on the latest and cleared nowhere.              *)
ChangedSetOnly(s) ==
    {r \in sess[s].seen \cup sess[s].mine :
        sess[s].know # Unknown /\ IsLatest(s, r) /\ ~r.latest}

(* The ORM writes the rows whose flag differs from the one it has loaded.  *)
Changed(s) ==
    {r \in sess[s].seen \cup sess[s].mine :
        sess[s].know # Unknown /\ r.latest # IsLatest(s, r)}

AfterCommit(s) ==
    {[r EXCEPT !.latest = IF \E c \in Changed(s) : c.id = r.id THEN IsLatest(s, r)
                          ELSE @] : r \in rows \cup sess[s].mine}

Commit(s) ==
    /\ At(s, "commit")
    /\ Changed(s) # {} => MayWrite(s)
    /\ rows' = AfterCommit(s)
    /\ sess' = [Disturbed(s) EXCEPT ![s] = Idle]
    /\ lock' = Released(s)
    /\ UNCHANGED <<release, files, crashes>>

----------------------------------------------------------------------------
(* Requests and their surroundings                                         *)

First == [page |-> "list", check |-> "learn", download |-> "info"]

(* vanilla_page and the dashboard, check_latest, download_latest and       *)
(* download_version.                                                       *)
Arrive(s, r, v) ==
    /\ At(s, "idle") /\ r \in Allowed[s]
    /\ r # "download" => v = 1
    /\ sess' = [Disturbed(s) EXCEPT ![s] =
           [Idle EXCEPT !.req = r, !.version = v,
                        !.pc = First[r],
                        !.quiet = \A o \in Sessions : At(o, "idle")]]
    /\ UNCHANGED <<release, files, rows, lock, crashes>>

(* "database is locked": another writer has kept the lock for too long.    *)
Locked(s) ==
    /\ sess[s].pc \in {"flush", "commit"}
    /\ lock \notin {Nobody, s}
    /\ End(s)
    /\ UNCHANGED <<release, files, rows, crashes>>

Publish ==
    /\ release < MaxVersion
    /\ release' = release + 1
    /\ sess' = Disturbed(Nobody)
    /\ UNCHANGED <<files, rows, lock, crashes>>

Crash ==
    /\ crashes < MaxCrashes
    /\ crashes' = crashes + 1
    /\ sess' = [s \in Sessions |-> Idle]
    /\ lock' = Nobody
    /\ UNCHANGED <<release, files, rows>>

Step(s) ==
    \/ ResolveDownload(s) \/ DownloadTo(s) \/ FindRow(s) \/ Flush(s)
    \/ ListRows(s) \/ LearnLatest(s) \/ MarkLatest(s) \/ Commit(s) \/ Locked(s)

Next ==
    \/ \E s \in Sessions :
          \/ Step(s)
          \/ \E r \in Requests, v \in Versions : Arrive(s, r, v)
    \/ Publish \/ Crash

Spec == Init /\ [][Next]_vars

----------------------------------------------------------------------------
(* Properties                                                              *)

(* Every committed row is a complete, verified jar on the disk and the     *)
(* only row of its version, whatever downloads of it fail, are cut off or  *)
(* run beside one another (_download_to, download_server_jar).             *)
UsableJars ==
    \A r \in rows :
        files[r.version] = "whole" /\ \A q \in rows : q.version = r.version => q = r

Flagged == {r \in rows : r.latest}

(* Whatever earlier requests made of the flags, a page, a check or a       *)
(* download that runs alone and hears from Mojang sets them right: the row *)
(* of the latest release, if there is one, and no other.                   *)
CheckRepairs ==
    [][\A s \in Sessions :
          (At(s, "commit") /\ sess[s].quiet /\ sess[s].know # Unknown /\ Commit(s))
              => {r \in rows' : r.latest} = {r \in rows' : r.version = release}]_vars

(* vanilla_downloader.py: is_latest is set "only on the row matching".     *)
OneLatest == Cardinality(Flagged) <= 1

=============================================================================

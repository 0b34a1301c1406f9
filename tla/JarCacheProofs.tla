--------------------------- MODULE JarCacheProofs ---------------------------
(* Theorems about JarCache: any number of sessions and of versions.        *)
EXTENDS JarCache, FiniteSetTheorems, TLAPS

USE JarAssumption DEF At, Goto

----------------------------------------------------------------------------
(* The invariant                                                           *)

(* A version has one row, and ids tell the rows apart.                     *)
OneEach(set) ==
    \A r, q \in set : r.version = q.version \/ r.id = q.id => r = q

(* The ids are given out without gaps.                                     *)
Dense == \A r \in rows : r.id <= Cardinality(rows)

(* The file of a download is there from its verification on.               *)
Fetched(x) ==
    x.pc \in {"upsert", "flush"} \/ x.mine # {} => files[x.version] = "whole"

(* A row that is not committed yet: its session has the lock, and the row  *)
(* is the only one of its version.                                         *)
Inserting(s, x) ==
    x.mine # {} =>
        /\ lock = s /\ x.pc \in {"learn", "mark", "commit"}
        /\ x.mine = {NewRow(x.version)}
        /\ RowsOf(x.version) = {}

(* What a request that is alone has loaded and been told is so.            *)
Alone(s, x) ==
    x.quiet =>
        /\ x.pc # "idle" /\ \A o \in Sessions \ {s} : At(o, "idle")
        /\ x.seen \subseteq rows /\ x.know \in {Unknown, release}
        /\ x.pc \notin {"mark", "commit"} => x.know = Unknown
        /\ x.pc = "commit" /\ x.know # Unknown => rows \subseteq x.seen

Knows(s, x) == Fetched(x) /\ Inserting(s, x) /\ Alone(s, x)

JarInv ==
    /\ TypeOK /\ OneEach(rows) /\ Dense
    /\ \A r \in rows : files[r.version] = "whole"
    /\ \A s \in Sessions : Knows(s, sess[s])

----------------------------------------------------------------------------
(* Rows                                                                    *)

LEMMA VersionsFinite ==
    IsFiniteSet(Versions) /\ Cardinality(Versions) = MaxVersion
BY FS_Interval DEF Versions

(* There are no more rows than versions.                                   *)
LEMMA RowsFit ==
    ASSUME NEW set \in SUBSET JarRows, OneEach(set)
    PROVE  IsFiniteSet(set) /\ Cardinality(set) \in 0 .. MaxVersion
<1> DEFINE f == [r \in set |-> r.version]
<1>1. f \in Injection(set, Versions)
  BY DEF OneEach, JarRows, Injection, IsInjective
<1>2. IsFiniteSet(set) /\ Cardinality(set) <= MaxVersion
  BY <1>1, VersionsFinite, FS_Injection
<1> QED
  BY <1>2, FS_CardinalityType

LEMMA NewRowFits ==
    ASSUME rows \in SUBSET JarRows, OneEach(rows), Dense, NEW v \in Versions
    PROVE  /\ NewRow(v) \in JarRows /\ NewRow(v).version = v
           /\ \A r \in rows : r.id # NewRow(v).id
           /\ RowsOf(v) = {} => OneEach(rows \cup {NewRow(v)})
<1>1. Cardinality(rows) \in 0 .. MaxVersion
  BY RowsFit
<1>2. NewRow(v) = [id |-> 1 + Cardinality(rows), version |-> v, latest |-> FALSE]
  BY DEF NewRow
<1>3. NewRow(v) \in JarRows /\ NewRow(v).version = v /\ NewRow(v).id = 1 + Cardinality(rows)
  BY <1>1, <1>2 DEF JarRows, Ids
<1>4. \A r \in rows : r.id # NewRow(v).id
  BY <1>1, <1>3 DEF Dense, JarRows, Ids
<1>5. ASSUME RowsOf(v) = {}
      PROVE  OneEach(rows \cup {NewRow(v)})
  BY <1>3, <1>4, <1>5 DEF OneEach, RowsOf
<1> QED
  BY <1>3, <1>4, <1>5

----------------------------------------------------------------------------
(* Steps of one session                                                    *)

LEMMA IdleTyped ==
    /\ Idle \in SessionStates /\ Idle.pc = "idle" /\ Idle.mine = {} /\ Idle.quiet = FALSE
BY DEF Idle, SessionStates, Requests, Versions, Unknown

LEMMA InitInv == Init => JarInv
<1> SUFFICES ASSUME Init PROVE JarInv
  OBVIOUS
<1>1. 1 \in Versions /\ 1 \in Ids /\ release = 1
  BY DEF Init, Versions, Ids
<1>2. CASE rows = {} /\ files = [v \in Versions |-> "absent"]
  BY <1>1, <1>2, IdleTyped DEF Init, JarInv, TypeOK, OneEach, Dense, Knows, Fetched, Inserting, Alone
<1>3. ASSUME NEW mark \in BOOLEAN, rows = {[id |-> 1, version |-> 1, latest |-> mark]},
             files = [v \in Versions |-> IF v = 1 THEN "whole" ELSE "absent"]
      PROVE  JarInv
  <2>1. rows \in SUBSET JarRows /\ \A r \in rows : r.id = 1 /\ r.version = 1
    BY <1>1, <1>3 DEF JarRows
  <2>2. Cardinality(rows) = 1
    BY <1>3, FS_Singleton
  <2>3. OneEach(rows) /\ Dense
    BY <1>3, <2>1, <2>2 DEF OneEach, Dense
  <2> QED
    BY <1>1, <1>3, <2>1, <2>3, IdleTyped DEF Init, JarInv, TypeOK, Knows, Fetched, Inserting, Alone
<1> QED
  BY <1>2, <1>3 DEF Init

(* A step that touches no row keeps the invariant if the session knows     *)
(* what it has to know after it.                                           *)
LEMMA StepInv ==
    ASSUME JarInv, NEW s \in Sessions, NEW x \in SessionStates,
           sess[s].pc # "idle", sess' = [sess EXCEPT ![s] = x],
           UNCHANGED <<release, rows, crashes>>,
           files' \in [Versions -> {"absent", "broken", "whole"}],
           \A v \in Versions : files[v] = "whole" => files'[v] = "whole",
           lock' \in Sessions \cup {Nobody}, \A o \in Sessions \ {s} : lock = o => lock' = o,
           x.pc \in {"upsert", "flush"} \/ x.mine # {} => files'[x.version] = "whole",
           x.mine # {} => /\ lock' = s /\ x.pc \in {"learn", "mark", "commit"}
                          /\ x.mine = {NewRow(x.version)} /\ RowsOf(x.version) = {},
           Alone(s, x)
    PROVE  JarInv'
<1>1. /\ sess \in [Sessions -> SessionStates] /\ sess'[s] = x
      /\ \A o \in Sessions \ {s} : sess'[o] = sess[o]
  BY DEF JarInv, TypeOK
<1>2. TypeOK'
  BY DEF JarInv, TypeOK
<1>3. OneEach(rows)' /\ Dense' /\ \A r \in rows' : files'[r.version] = "whole"
  BY DEF JarInv, TypeOK, OneEach, Dense, JarRows
<1>4. Knows(s, sess[s])'
  BY <1>1 DEF Knows, Fetched, Inserting, Alone, NewRow, RowsOf
<1>5. ASSUME NEW o \in Sessions \ {s}
      PROVE  Knows(o, sess[o])'
  <2>1. Knows(o, sess[o]) /\ sess[o] \in SessionStates /\ sess'[o] = sess[o]
    BY <1>1 DEF JarInv
  <2>2. Fetched(sess[o])'
    BY <2>1 DEF Knows, Fetched, SessionStates
  <2>3. Inserting(o, sess[o])'
    BY <2>1 DEF Knows, Inserting, NewRow, RowsOf
  <2>4. Alone(o, sess[o])'
    BY <2>1 DEF Knows, Alone
  <2> QED
    BY <2>2, <2>3, <2>4 DEF Knows
<1> QED
  BY <1>2, <1>3, <1>4, <1>5 DEF JarInv

LEMMA EndInv ==
    ASSUME JarInv, NEW s \in Sessions, ~At(s, "idle"), End(s),
           UNCHANGED <<release, files, rows, crashes>>
    PROVE  JarInv'
<1>1. lock' = Released(s) /\ sess' = [sess EXCEPT ![s] = Idle]
  BY DEF End
<1>2. lock' \in Sessions \cup {Nobody} /\ \A o \in Sessions \ {s} : lock = o => lock' = o
  BY <1>1 DEF Released, JarInv, TypeOK
<1>3. Alone(s, Idle)
  BY IdleTyped DEF Alone
<1>4. files' \in [Versions -> {"absent", "broken", "whole"}]
  BY DEF JarInv, TypeOK
<1> QED
  BY <1>1, <1>2, <1>3, <1>4, IdleTyped, StepInv

LEMMA SessionOf ==
    ASSUME JarInv, NEW s \in Sessions
    PROVE  /\ sess[s] \in SessionStates /\ Knows(s, sess[s])
           /\ sess[s].version \in Versions /\ sess[s].seen \subseteq JarRows
           /\ sess[s].mine \subseteq JarRows /\ sess[s].know \in Versions \cup {Unknown}
           /\ rows \subseteq JarRows /\ OneEach(rows) /\ Dense
           /\ lock \in Sessions \cup {Nobody} /\ release \in Versions
           /\ files \in [Versions -> {"absent", "broken", "whole"}]
BY DEF JarInv, TypeOK, SessionStates

LEMMA ResolveDownloadInv ==
    ASSUME JarInv, NEW s \in Sessions, ResolveDownload(s) PROVE JarInv'
<1>1. At(s, "info") /\ UNCHANGED <<release, files, rows, crashes>>
  BY DEF ResolveDownload
<1>2. CASE End(s)
  BY <1>1, <1>2, EndInv
<1>3. CASE Goto(s, "fetch") /\ UNCHANGED lock
  <2> DEFINE x == [sess[s] EXCEPT !.pc = "fetch"]
  <2>1. /\ x \in SessionStates /\ x.pc = "fetch" /\ x.mine = sess[s].mine /\ x.seen = sess[s].seen
        /\ x.know = sess[s].know /\ x.quiet = sess[s].quiet /\ sess' = [sess EXCEPT ![s] = x]
    BY <1>3, SessionOf DEF SessionStates
  <2>2. x.mine = {}
    BY <1>1, <2>1, SessionOf DEF Knows, Inserting
  <2>3. Alone(s, x)
    BY <1>1, <2>1, SessionOf DEF Knows, Alone
  <2> HIDE DEF x
  <2> QED
    BY <1>1, <1>3, <2>1, <2>2, <2>3, SessionOf, StepInv
<1> QED
  BY <1>2, <1>3 DEF ResolveDownload

LEMMA DownloadToInv ==
    ASSUME JarInv, NEW s \in Sessions, DownloadTo(s) PROVE JarInv'
<1>1. At(s, "fetch") /\ UNCHANGED <<release, rows, crashes>>
  BY DEF DownloadTo
<1>2. CASE End(s) /\ UNCHANGED files
  BY <1>1, <1>2, EndInv
<1>3. CASE /\ files' = [files EXCEPT ![sess[s].version] = "whole"]
           /\ Goto(s, "upsert") /\ UNCHANGED lock
  <2> DEFINE x == [sess[s] EXCEPT !.pc = "upsert"]
  <2>1. /\ x \in SessionStates /\ x.pc = "upsert" /\ x.mine = sess[s].mine /\ x.seen = sess[s].seen
        /\ x.know = sess[s].know /\ x.quiet = sess[s].quiet /\ x.version = sess[s].version
        /\ sess' = [sess EXCEPT ![s] = x]
    BY <1>3, SessionOf DEF SessionStates
  <2>2. x.mine = {}
    BY <1>1, <2>1, SessionOf DEF Knows, Inserting
  <2>3. Alone(s, x)
    BY <1>1, <2>1, SessionOf DEF Knows, Alone
  <2> HIDE DEF x
  <2>4. /\ files' \in [Versions -> {"absent", "broken", "whole"}]
        /\ files'[x.version] = "whole"
        /\ \A v \in Versions : files[v] = "whole" => files'[v] = "whole"
    BY <1>3, <2>1, SessionOf
  <2> QED
    BY <1>1, <1>3, <2>1, <2>2, <2>3, <2>4, SessionOf, StepInv
<1> QED
  BY <1>2, <1>3 DEF DownloadTo

LEMMA FindRowInv ==
    ASSUME JarInv, NEW s \in Sessions, FindRow(s) PROVE JarInv'
<1> DEFINE x == [sess[s] EXCEPT !.pc = "flush", !.seen = RowsOf(sess[s].version)]
<1>1. /\ At(s, "upsert") /\ UNCHANGED <<release, files, rows, lock, crashes>>
      /\ sess' = [sess EXCEPT ![s] = x]
  BY DEF FindRow
<1>2. RowsOf(sess[s].version) \subseteq rows
  BY DEF RowsOf
<1>3. /\ x \in SessionStates /\ x.pc = "flush" /\ x.mine = sess[s].mine
      /\ x.seen = RowsOf(sess[s].version) /\ x.version = sess[s].version
      /\ x.know = sess[s].know /\ x.quiet = sess[s].quiet
  BY <1>2, SessionOf DEF SessionStates
<1> HIDE DEF x
<1>4. x.mine = {} /\ files[x.version] = "whole"
  BY <1>1, <1>3, SessionOf DEF Knows, Inserting, Fetched
<1>5. Alone(s, x)
  BY <1>1, <1>2, <1>3, SessionOf DEF Knows, Alone
<1> QED
  BY <1>1, <1>3, <1>4, <1>5, SessionOf, StepInv

LEMMA FlushInv ==
    ASSUME JarInv, NEW s \in Sessions, Flush(s) PROVE JarInv'
<1>1. At(s, "flush") /\ MayWrite(s) /\ UNCHANGED <<release, files, rows, crashes>>
  BY DEF Flush
<1>2. CASE End(s)
  BY <1>1, <1>2, EndInv
<1>3. CASE /\ sess[s].seen # {} \/ RowsOf(sess[s].version) = {}
           /\ lock' = s
           /\ sess' = [sess EXCEPT ![s] =
                          [@ EXCEPT !.pc = "learn",
                                    !.mine = IF sess[s].seen = {} THEN {NewRow(sess[s].version)} ELSE {}]]
  <2> DEFINE new == IF sess[s].seen = {} THEN {NewRow(sess[s].version)} ELSE {}
  <2>1. new \subseteq JarRows
    BY SessionOf, NewRowFits
  <2>2. new # {} => new = {NewRow(sess[s].version)} /\ RowsOf(sess[s].version) = {}
    BY <1>3
  <2> HIDE DEF new
  <2> DEFINE x == [sess[s] EXCEPT !.pc = "learn", !.mine = new]
  <2>3. /\ x \in SessionStates /\ x.pc = "learn" /\ x.mine = new /\ x.version = sess[s].version
        /\ x.seen = sess[s].seen /\ x.know = sess[s].know /\ x.quiet = sess[s].quiet
    BY <2>1, SessionOf DEF SessionStates
  <2>4. sess' = [sess EXCEPT ![s] = x]
    BY <1>3 DEF new
  <2>5. files[sess[s].version] = "whole"
    BY <1>1, SessionOf DEF Knows, Fetched
  <2>6. Alone(s, x)
    BY <1>1, <2>3, SessionOf DEF Knows, Alone
  <2>7. lock' \in Sessions \cup {Nobody} /\ \A o \in Sessions \ {s} : lock # o
    BY <1>1, <1>3 DEF MayWrite
  <2> HIDE DEF x
  <2> QED
    BY <1>1, <1>3, <2>2, <2>3, <2>4, <2>5, <2>6, <2>7, SessionOf, StepInv
<1> QED
  BY <1>2, <1>3 DEF Flush

LEMMA LoadedFits ==
    ASSUME JarInv, NEW s \in Sessions
    PROVE  /\ Loaded(s) \subseteq JarRows
           /\ sess[s].quiet => Loaded(s) = rows
<1>1. Loaded(s) \subseteq JarRows
  BY SessionOf DEF Loaded
<1>2. ASSUME sess[s].quiet
      PROVE  Loaded(s) = rows
  <2>1. sess[s].seen \subseteq rows
    BY <1>2, SessionOf DEF Knows, Alone
  <2>2. ASSUME NEW r \in rows, r \notin sess[s].seen
        PROVE  \A o \in sess[s].seen \cup sess[s].mine : o.id # r.id
    <3>1. \A o \in sess[s].seen : o.id # r.id
      BY <2>1, <2>2, SessionOf DEF OneEach
    <3>2. \A o \in sess[s].mine : o.id # r.id
      <4>1. \A q \in rows : q.id # NewRow(sess[s].version).id
        BY SessionOf, NewRowFits
      <4>2. sess[s].mine \subseteq {NewRow(sess[s].version)}
        BY SessionOf DEF Knows, Inserting
      <4> QED
        BY <4>1, <4>2
    <3> QED
      BY <3>1, <3>2
  <2> QED
    BY <2>1, <2>2 DEF Loaded
<1> QED
  BY <1>1, <1>2

LEMMA ListRowsInv ==
    ASSUME JarInv, NEW s \in Sessions, ListRows(s) PROVE JarInv'
<1> DEFINE x == [sess[s] EXCEPT !.pc = "learn", !.seen = Loaded(s)]
<1>1. /\ At(s, "list") /\ UNCHANGED <<release, files, rows, lock, crashes>>
      /\ sess' = [sess EXCEPT ![s] = x]
  BY DEF ListRows
<1>2. /\ x \in SessionStates /\ x.pc = "learn" /\ x.mine = sess[s].mine
      /\ x.seen = Loaded(s) /\ x.version = sess[s].version
      /\ x.know = sess[s].know /\ x.quiet = sess[s].quiet
  BY LoadedFits, SessionOf DEF SessionStates
<1> HIDE DEF x
<1>3. x.mine = {}
  BY <1>1, <1>2, SessionOf DEF Knows, Inserting
<1>4. Alone(s, x)
  BY <1>1, <1>2, LoadedFits, SessionOf DEF Knows, Alone
<1> QED
  BY <1>1, <1>2, <1>3, <1>4, SessionOf, StepInv

(* From the flush to the commit a session keeps what it has inserted.      *)
LEMMA MineKept ==
    ASSUME JarInv, NEW s \in Sessions, NEW x \in SessionStates,
           x.mine = sess[s].mine, x.version = sess[s].version, x.pc \in {"learn", "mark", "commit"},
           lock' = lock
    PROVE  /\ x.mine # {} => /\ files[x.version] = "whole"
                              /\ lock' = s /\ x.mine = {NewRow(x.version)} /\ RowsOf(x.version) = {}
BY SessionOf DEF Knows, Inserting, Fetched

LEMMA LearnLatestInv ==
    ASSUME JarInv, NEW s \in Sessions, LearnLatest(s) PROVE JarInv'
<1>1. At(s, "learn") /\ UNCHANGED <<release, files, rows, crashes>>
  BY DEF LearnLatest
<1>2. CASE End(s)
  BY <1>1, <1>2, EndInv
<1>3. CASE sess' = [sess EXCEPT ![s] =
                       [@ EXCEPT !.pc = "mark", !.know = release]] /\ UNCHANGED lock
  <2> DEFINE x == [sess[s] EXCEPT !.pc = "mark", !.know = release]
  <2>1. /\ x \in SessionStates /\ x.pc = "mark" /\ x.mine = sess[s].mine /\ x.seen = sess[s].seen
        /\ x.know = release /\ x.quiet = sess[s].quiet /\ x.version = sess[s].version
        /\ sess' = [sess EXCEPT ![s] = x]
    BY <1>3, SessionOf DEF SessionStates
  <2> HIDE DEF x
  <2>2. Alone(s, x)
    BY <1>1, <2>1, SessionOf DEF Knows, Alone
  <2> QED
    BY <1>1, <1>3, <2>1, <2>2, MineKept, SessionOf, StepInv
<1>4. CASE Goto(s, "commit") /\ UNCHANGED lock
  <2> DEFINE x == [sess[s] EXCEPT !.pc = "commit"]
  <2>1. /\ x \in SessionStates /\ x.pc = "commit" /\ x.mine = sess[s].mine /\ x.seen = sess[s].seen
        /\ x.know = sess[s].know /\ x.quiet = sess[s].quiet /\ x.version = sess[s].version
        /\ sess' = [sess EXCEPT ![s] = x]
    BY <1>4, SessionOf DEF SessionStates
  <2> HIDE DEF x
  <2>2. sess[s].quiet => sess[s].know = Unknown
    BY <1>1, SessionOf DEF Knows, Alone
  <2>3. Alone(s, x)
    BY <2>1, <2>2, SessionOf DEF Knows, Alone
  <2> QED
    BY <1>1, <1>4, <2>1, <2>3, MineKept, SessionOf, StepInv
<1> QED
  BY <1>2, <1>3, <1>4 DEF LearnLatest

LEMMA MarkLatestInv ==
    ASSUME JarInv, NEW s \in Sessions, MarkLatest(s) PROVE JarInv'
<1> DEFINE x == [sess[s] EXCEPT !.pc = "commit", !.seen = Loaded(s)]
<1>1. /\ At(s, "mark") /\ UNCHANGED <<release, files, rows, lock, crashes>>
      /\ sess' = [sess EXCEPT ![s] = x]
  BY DEF MarkLatest
<1>2. /\ x \in SessionStates /\ x.pc = "commit" /\ x.mine = sess[s].mine
      /\ x.seen = Loaded(s) /\ x.version = sess[s].version
      /\ x.know = sess[s].know /\ x.quiet = sess[s].quiet
  BY LoadedFits, SessionOf DEF SessionStates
<1> HIDE DEF x
<1>3. Alone(s, x)
  BY <1>1, <1>2, LoadedFits, SessionOf DEF Knows, Alone
<1> QED
  BY <1>1, <1>2, <1>3, MineKept, SessionOf, StepInv

----------------------------------------------------------------------------
(* The commit                                                              *)

(* The row that a row becomes.                                             *)
Stored(s, r) ==
    [r EXCEPT !.latest = IF \E c \in Changed(s) : c.id = r.id THEN IsLatest(s, r) ELSE @]

LEMMA StoredFits ==
    ASSUME NEW s, NEW r \in JarRows
    PROVE  /\ Stored(s, r) \in JarRows
           /\ Stored(s, r).id = r.id /\ Stored(s, r).version = r.version
           /\ Stored(s, r).latest = IF \E c \in Changed(s) : c.id = r.id
                                    THEN r.version = sess[s].know ELSE r.latest
<1> DEFINE flag == IF \E c \in Changed(s) : c.id = r.id THEN r.version = sess[s].know ELSE r.latest
<1>1. flag \in BOOLEAN
  BY DEF JarRows
<1>2. Stored(s, r) = [r EXCEPT !.latest = flag]
  BY DEF Stored, IsLatest
<1> HIDE DEF flag
<1>3. Stored(s, r) \in JarRows /\ Stored(s, r).id = r.id /\ Stored(s, r).version = r.version
        /\ Stored(s, r).latest = flag
  BY <1>1, <1>2 DEF JarRows
<1> QED
  BY <1>3 DEF flag

(* What is committed: every row and the new one, as unlike as before.      *)
LEMMA CommitRows ==
    ASSUME JarInv, NEW s \in Sessions, Commit(s)
    PROVE  /\ rows' = {Stored(s, r) : r \in rows \cup sess[s].mine}
           /\ rows' \subseteq JarRows /\ OneEach(rows') /\ Dense'
           /\ \A r \in rows' : files[r.version] = "whole"
<1> DEFINE all == rows \cup sess[s].mine
<1>1. rows' = {Stored(s, r) : r \in all}
  BY DEF Commit, AfterCommit, Stored
<1>2. /\ all \in SUBSET JarRows /\ OneEach(all) /\ \A r \in all : files[r.version] = "whole"
      /\ \A r \in all : r.id <= Cardinality(all)
  <2>1. Cardinality(rows) \in 0 .. MaxVersion /\ IsFiniteSet(rows)
    BY SessionOf, RowsFit
  <2>2. CASE sess[s].mine = {}
    BY <2>2, SessionOf DEF JarInv, Dense
  <2>3. CASE sess[s].mine # {}
    <3> DEFINE new == NewRow(sess[s].version)
    <3>1. /\ sess[s].mine = {new} /\ RowsOf(sess[s].version) = {}
          /\ files[sess[s].version] = "whole"
      BY <2>3, SessionOf DEF Knows, Inserting, Fetched
    <3>2. /\ new \in JarRows /\ new.version = sess[s].version
          /\ \A r \in rows : r.id # new.id
          /\ OneEach(rows \cup {new})
      BY <3>1, SessionOf, NewRowFits
    <3>3. new.id = 1 + Cardinality(rows)
      BY DEF NewRow
    <3>4. new \notin rows
      BY <3>2
    <3> HIDE DEF new
    <3>5. Cardinality(rows \cup {new}) = Cardinality(rows) + 1
      BY <2>1, <3>4, FS_AddElement
    <3>6. \A r \in rows : r.id \in Nat /\ r.id <= Cardinality(rows)
      BY SessionOf DEF Dense, JarRows, Ids
    <3>7. \A r \in rows \cup {new} : r.id <= Cardinality(rows) + 1
      BY <2>1, <3>3, <3>6
    <3> QED
      BY <3>1, <3>2, <3>5, <3>7, SessionOf DEF JarInv
  <2> QED
    BY <2>2, <2>3
<1> HIDE DEF all
<1>3. rows' \subseteq JarRows /\ \A r \in rows' : files[r.version] = "whole"
  BY <1>1, <1>2, StoredFits
<1>4. OneEach(rows')
  BY <1>1, <1>2, StoredFits DEF OneEach
<1>5. Cardinality(all) <= Cardinality(rows') /\ Cardinality(rows') \in Nat
                                            /\ Cardinality(all) \in Nat
  <2> DEFINE f == [r \in all |-> Stored(s, r)]
  <2>1. \A r, q \in all : Stored(s, r) = Stored(s, q) => r = q
    BY <1>2, StoredFits DEF OneEach
  <2>2. f \in Injection(all, rows')
    BY <1>1, <2>1 DEF Injection, IsInjective
  <2>3. IsFiniteSet(rows') /\ Cardinality(rows') \in Nat /\ Cardinality(all) \in Nat
    BY <1>2, <1>3, <1>4, RowsFit
  <2> QED
    BY <2>2, <2>3, FS_Injection
<1>6. Dense'
  <2>1. ASSUME NEW q \in rows' PROVE q.id <= Cardinality(rows')
    <3>1. PICK r \in all : q = Stored(s, r)
      BY <1>1
    <3>2. q.id = r.id /\ r.id \in Nat /\ r.id <= Cardinality(all)
      BY <1>2, <3>1, StoredFits DEF JarRows, Ids
    <3> QED
      BY <1>5, <3>2
  <2> QED
    BY <2>1 DEF Dense
<1> QED
  BY <1>1, <1>3, <1>4, <1>6 DEF all

(* A session that does not have the lock changes no row.                   *)
LEMMA CommitLocked ==
    ASSUME JarInv, NEW s \in Sessions, Commit(s), NEW o \in Sessions \ {s}, lock = o
    PROVE  rows' = rows
<1>1. Changed(s) = {} /\ sess[s].mine = {}
  BY SessionOf DEF Commit, MayWrite, Knows, Inserting
<1>2. ASSUME NEW r \in rows
      PROVE  Stored(s, r) = r
  <2>1. r \in JarRows /\ [r EXCEPT !.latest = r.latest] = r
    BY SessionOf DEF JarRows
  <2> QED
    BY <1>1, <2>1 DEF Stored
<1>3. rows' = {Stored(s, r) : r \in rows}
  <2>1. rows \cup sess[s].mine = rows
    BY <1>1
  <2> QED
    BY <2>1, CommitRows
<1> QED
  BY <1>2, <1>3

(* The sessions that s disturbs are as they were but for their quiet.      *)
LEMMA DisturbedOne ==
    ASSUME JarInv, NEW s, NEW o \in Sessions, o # s
    PROVE  /\ Disturbed(s)[o] \in SessionStates /\ ~Disturbed(s)[o].quiet
           /\ Disturbed(s)[o].pc = sess[o].pc /\ Disturbed(s)[o].version = sess[o].version
           /\ Disturbed(s)[o].mine = sess[o].mine /\ Disturbed(s)[o].seen = sess[o].seen
<1>1. Disturbed(s)[o] = [sess[o] EXCEPT !.quiet = FALSE]
  BY DEF Disturbed
<1> QED
  BY <1>1, SessionOf DEF SessionStates

LEMMA DisturbedAll ==
    ASSUME JarInv, NEW s
    PROVE  Disturbed(s) \in [Sessions -> SessionStates]
<1>1. \A o \in Sessions : Disturbed(s)[o] \in SessionStates
  <2>1. ASSUME NEW o \in Sessions PROVE Disturbed(s)[o] \in SessionStates
    <3>1. CASE o = s
      BY <3>1, SessionOf DEF Disturbed
    <3>2. CASE o # s
      BY <3>2, DisturbedOne
    <3> QED
      BY <3>1, <3>2
  <2> QED
    BY <2>1
<1>2. Disturbed(s) = [o \in Sessions |-> Disturbed(s)[o]]
  BY DEF Disturbed
<1> HIDE DEF Disturbed
<1> QED
  BY <1>1, <1>2

(* A session that has been disturbed knows what it has to know, if its     *)
(* lock and what it has inserted stay.                                     *)
LEMMA DisturbedKnows ==
    ASSUME JarInv, NEW s, NEW o \in Sessions, o # s,
           sess'[o] = Disturbed(s)[o], files' = files,
           lock = o => lock' = o /\ rows' = rows
    PROVE  Knows(o, sess[o])'
<1>1. /\ ~sess'[o].quiet /\ sess'[o].pc = sess[o].pc /\ sess'[o].version = sess[o].version
      /\ sess'[o].mine = sess[o].mine
  BY DisturbedOne
<1>2. Fetched(sess[o])'
  BY <1>1, SessionOf DEF Knows, Fetched
<1>3. Inserting(o, sess[o])'
  BY <1>1, SessionOf DEF Knows, Inserting, NewRow, RowsOf
<1>4. Alone(o, sess[o])'
  BY <1>1 DEF Alone
<1> QED
  BY <1>2, <1>3, <1>4 DEF Knows

LEMMA CommitInv ==
    ASSUME JarInv, NEW s \in Sessions, Commit(s) PROVE JarInv'
<1>1. /\ UNCHANGED <<release, files, crashes>> /\ lock' = Released(s)
      /\ sess' = [Disturbed(s) EXCEPT ![s] = Idle]
  BY DEF Commit
<1>2. sess' \in [Sessions -> SessionStates] /\ sess'[s] = Idle
        /\ \A o \in Sessions \ {s} : sess'[o] = Disturbed(s)[o]
  BY <1>1, IdleTyped, DisturbedAll
<1>3. TypeOK'
  BY <1>1, <1>2, CommitRows DEF JarInv, TypeOK, Released
<1>4. Knows(s, sess[s])'
  BY <1>2, IdleTyped DEF Knows, Fetched, Inserting, Alone
<1>5. ASSUME NEW o \in Sessions \ {s}
      PROVE  Knows(o, sess[o])'
  <2>1. lock = o => lock' = o /\ rows' = rows
    BY <1>1, CommitLocked DEF Released
  <2> QED
    BY <1>1, <1>2, <2>1, DisturbedKnows
<1> QED
  BY <1>1, <1>3, <1>4, <1>5, CommitRows DEF JarInv

----------------------------------------------------------------------------
(* The other steps                                                         *)

LEMMA ArriveInv ==
    ASSUME JarInv, NEW s \in Sessions, NEW r \in Requests, NEW v \in Versions, Arrive(s, r, v)
    PROVE  JarInv'
<1> DEFINE alone == \A o \in Sessions : At(o, "idle")
           x == [Idle EXCEPT !.req = r, !.version = v, !.pc = First[r], !.quiet = alone]
<1>1. /\ UNCHANGED <<release, files, rows, lock, crashes>> /\ At(s, "idle")
      /\ sess' = [Disturbed(s) EXCEPT ![s] = x]
  BY DEF Arrive
<1>2. First[r] \in {"list", "learn", "info"}
  BY DEF First, Requests
<1>3. alone \in BOOLEAN
  OBVIOUS
<1> HIDE DEF alone
<1>4. /\ x \in SessionStates /\ x.pc \in {"list", "learn", "info"} /\ x.mine = {}
      /\ x.seen = {} /\ x.know = Unknown /\ x.quiet = alone
  BY <1>2, <1>3 DEF Idle, SessionStates, Unknown
<1> HIDE DEF x
<1>5. sess' \in [Sessions -> SessionStates] /\ sess'[s] = x
        /\ \A o \in Sessions \ {s} : sess'[o] = Disturbed(s)[o]
  BY <1>1, <1>4, DisturbedAll
<1>6. TypeOK'
  BY <1>1, <1>5 DEF JarInv, TypeOK
<1>7. Knows(s, sess[s])'
  <2>1. alone => \A o \in Sessions \ {s} : sess'[o].pc = "idle"
    BY <1>5, DisturbedOne DEF alone
  <2> QED
    BY <1>4, <1>5, <2>1 DEF Knows, Fetched, Inserting, Alone
<1>8. ASSUME NEW o \in Sessions \ {s}
      PROVE  Knows(o, sess[o])'
  BY <1>1, <1>5, DisturbedKnows
<1>9. OneEach(rows)' /\ Dense' /\ \A q \in rows' : files'[q.version] = "whole"
  BY <1>1 DEF JarInv, OneEach, Dense
<1> QED
  BY <1>6, <1>7, <1>8, <1>9 DEF JarInv

LEMMA PublishInv ==
    ASSUME JarInv, Publish PROVE JarInv'
<1>1. /\ UNCHANGED <<files, rows, lock, crashes>> /\ release' = release + 1
      /\ release < MaxVersion /\ sess' = Disturbed(Nobody)
  BY DEF Publish
<1>2. release' \in Versions
  BY <1>1 DEF JarInv, TypeOK, Versions
<1>3. TypeOK'
  BY <1>1, <1>2, DisturbedAll DEF JarInv, TypeOK
<1>4. ASSUME NEW o \in Sessions
      PROVE  Knows(o, sess[o])'
  BY <1>1, DisturbedKnows
<1>5. OneEach(rows)' /\ Dense' /\ \A q \in rows' : files'[q.version] = "whole"
  BY <1>1 DEF JarInv, OneEach, Dense
<1> QED
  BY <1>3, <1>4, <1>5 DEF JarInv

LEMMA CrashInv ==
    ASSUME JarInv, Crash PROVE JarInv'
<1>1. /\ UNCHANGED <<release, files, rows>> /\ lock' = Nobody /\ crashes' = crashes + 1
      /\ crashes < MaxCrashes /\ sess' = [s \in Sessions |-> Idle]
  BY DEF Crash
<1>2. TypeOK'
  BY <1>1, IdleTyped DEF JarInv, TypeOK
<1>3. ASSUME NEW o \in Sessions
      PROVE  Knows(o, sess[o])'
  BY <1>1, IdleTyped DEF Knows, Fetched, Inserting, Alone
<1>4. OneEach(rows)' /\ Dense' /\ \A q \in rows' : files'[q.version] = "whole"
  BY <1>1 DEF JarInv, OneEach, Dense
<1> QED
  BY <1>2, <1>3, <1>4 DEF JarInv

LEMMA NextInv == JarInv /\ [Next]_vars => JarInv'
<1> SUFFICES ASSUME JarInv, [Next]_vars PROVE JarInv'
  OBVIOUS
<1>1. CASE UNCHANGED vars
  BY <1>1 DEF vars, JarInv, TypeOK, OneEach, Dense, Knows, Fetched, Inserting, Alone, NewRow, RowsOf
<1>2. ASSUME NEW s \in Sessions, Step(s)
      PROVE  JarInv'
  <2>1. Locked(s) => ~At(s, "idle") /\ End(s) /\ UNCHANGED <<release, files, rows, crashes>>
    BY DEF Locked
  <2> QED
    BY <1>2, <2>1, EndInv, ResolveDownloadInv, DownloadToInv, FindRowInv, FlushInv,
       ListRowsInv, LearnLatestInv, MarkLatestInv, CommitInv DEF Step
<1>3. ASSUME NEW s \in Sessions, NEW r \in Requests, NEW v \in Versions, Arrive(s, r, v)
      PROVE  JarInv'
  BY <1>3, ArriveInv
<1>4. CASE Publish
  BY <1>4, PublishInv
<1>5. CASE Crash
  BY <1>5, CrashInv
<1> QED
  BY <1>1, <1>2, <1>3, <1>4, <1>5 DEF Next

LEMMA Invariance == Spec => []JarInv
BY InitInv, NextInv, PTL DEF Spec

----------------------------------------------------------------------------
(* Theorems                                                                *)

(* The variables of the jar cache keep their types, however many requests  *)
(* (vanilla_downloader.py, routers/jars.py) run beside one another: ids    *)
(* never run out and nobody else's lock is released.                       *)
THEOREM TypeCorrect == Spec => []TypeOK
<1>1. JarInv => TypeOK
  BY DEF JarInv
<1> QED
  BY <1>1, Invariance, PTL

(* Every row that download_server_jar has committed is of a jar that is    *)
(* whole on the disk, and the only one of its version, for any number of   *)
(* concurrent downloads, failures and crashes.                             *)
THEOREM CachedUsable == Spec => []UsableJars
<1>1. JarInv => UsableJars
  BY DEF JarInv, OneEach, UsableJars
<1> QED
  BY <1>1, Invariance, PTL

(* Whatever was flagged before, a request that runs alone and hears from   *)
(* Mojang leaves the flag on the row of the latest release and on no other *)
(* (_mark_latest), for any number of versions.                             *)
THEOREM ChecksRepair == Spec => CheckRepairs
<1> DEFINE Repairs ==
      \A s \in Sessions :
         (At(s, "commit") /\ sess[s].quiet /\ sess[s].know # Unknown /\ Commit(s))
            => {r \in rows' : r.latest} = {r \in rows' : r.version = release}
<1>1. ASSUME JarInv, NEW s \in Sessions, At(s, "commit"), sess[s].quiet,
             sess[s].know # Unknown, Commit(s)
      PROVE  {r \in rows' : r.latest} = {r \in rows' : r.version = release}
  <2> DEFINE all == rows \cup sess[s].mine
  <2>1. sess[s].know = release /\ sess[s].seen = rows
    BY <1>1, SessionOf DEF Knows, Alone
  <2>2. Changed(s) = {r \in all : r.latest # (r.version = release)}
    BY <1>1, <2>1 DEF Changed, IsLatest
  <2>3. all \subseteq JarRows /\ rows' = {Stored(s, r) : r \in all}
    BY <1>1, SessionOf, CommitRows
  <2>4. ASSUME NEW r \in all
        PROVE  Stored(s, r).latest = (r.version = release) /\ Stored(s, r).version = r.version
    <3>1. /\ Stored(s, r).version = r.version /\ r.latest \in BOOLEAN
          /\ Stored(s, r).latest = IF \E c \in Changed(s) : c.id = r.id
                                   THEN r.version = sess[s].know ELSE r.latest
      BY <2>3, StoredFits DEF JarRows
    <3>2. r \in Changed(s) \/ r.latest = (r.version = release)
      BY <2>2
    <3> QED
      BY <2>1, <3>1, <3>2
  <2> HIDE DEF all
  <2>5. ASSUME NEW q \in rows'
        PROVE  q.latest = (q.version = release)
    <3>1. PICK r \in all : q = Stored(s, r)
      BY <2>3
    <3> QED
      BY <2>4, <3>1
  <2> QED
    BY <2>5
<1>2. JarInv => Repairs
  BY <1>1
<1>3. JarInv /\ [Next]_vars => [Repairs]_vars
  BY <1>2
<1> QED
  BY <1>3, Invariance, PTL DEF Spec, CheckRepairs

=============================================================================

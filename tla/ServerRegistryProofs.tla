------------------------ MODULE ServerRegistryProofs ------------------------
(* Theorems about ServerRegistry: any number of requests, any names, every *)
(* fault.                                                                  *)
EXTENDS ServerRegistry, TLAPS

USE RegistryAssumption DEF At, Goto

LEMMA TypeInit == Init => TypeOK
BY DEF Init, TypeOK, Directories, Missing, Adopted, Parts, SessionStates,
   Idle, JarSources

LEMMA IdleState == Idle \in SessionStates
BY DEF Idle, SessionStates, JarSources

LEMMA EndTypes ==
    ASSUME TypeOK, NEW s \in Sessions, End(s)
    PROVE  sess' \in [Sessions -> SessionStates] /\ loop' \in Sessions \cup {Nobody}
BY IdleState DEF End, TypeOK

LEMMA GotoTypes ==
    ASSUME TypeOK, NEW s \in Sessions,
           NEW p \in {"idle", "validate", "buffer", "make", "lay", "jar", "copy",
                      "commit", "detect", "insert"},
           Goto(s, p)
    PROVE  sess' \in [Sessions -> SessionStates]
BY DEF TypeOK, SessionStates

----------------------------------------------------------------------------
(* The strengthening                                                       *)

(* What a request has established when it stands at a label.               *)
Established(x, s) ==
    /\ x.pc \in {"validate", "buffer", "make", "lay", "jar", "copy", "commit"} =>
          x.name \in Names
    /\ x.pc \in {"detect", "insert"} => x.name \in Names
    /\ x.pc \in {"lay", "jar", "copy", "commit"} => dirs[x.name].maker = s
    /\ x.pc \in {"jar", "copy", "commit"} => dirs[x.name].parts = Parts
    /\ x.pc = "commit" /\ x.jar # "none" => dirs[x.name].jar = "whole"
    /\ x.pc = "insert" =>
          /\ x.dir \in Names
          /\ dirs[x.dir].maker # Nobody /\ dirs[x.dir].jar # "absent"

(* A row stands over a directory that exists, and the row of a creation    *)
(* over one that nobody builds any more.                                   *)
Settled(r) ==
    /\ dirs[r.dir].maker # Nobody
    /\ r.from = "create" =>
          /\ dirs[r.dir].parts = Parts
          /\ r.jar # "none" => dirs[r.dir].jar = "whole"
          /\ \A s \in Sessions : ~Building(s, r.dir)
    /\ r.from = "register" => dirs[r.dir].jar # "absent"

IInv ==
    /\ TypeOK
    /\ \A s \in Sessions : Established(sess[s], s)
    /\ \A r \in rows : Settled(r)

(* What a step of a request may do to the directories: they only grow, and *)
(* it touches only what did not exist and what it has made itself.         *)
Grown(s) ==
    \A n \in Names :
        \/ dirs'[n] = dirs[n]
        \/ dirs[n].maker = Nobody
        \/ /\ dirs[n].maker = s /\ dirs'[n].maker = s
           /\ dirs[n].parts \subseteq dirs'[n].parts
           /\ dirs[n].jar # "absent" => dirs'[n].jar # "absent"

(* The other requests keep what they had established.                      *)
LEMMA OthersKeep ==
    ASSUME IInv, NEW s \in Sessions, Grown(s),
           NEW t \in Sessions, t # s, sess'[t] = sess[t]
    PROVE  Established(sess[t], t)'
<1> DEFINE x == sess[t]
<1>1. Established(x, t) /\ x \in SessionStates
  BY DEF IInv, TypeOK
<1>2. ASSUME x.pc \in {"lay", "jar", "copy", "commit"}
      PROVE  dirs'[x.name] = dirs[x.name]
  <2>1. x.name \in Names /\ dirs[x.name].maker = t /\ t # Nobody
    BY <1>1, <1>2 DEF Established
  <2> QED BY <2>1 DEF Grown
<1>3. ASSUME x.pc = "insert"
      PROVE  dirs'[x.dir].maker # Nobody /\ dirs'[x.dir].jar # "absent"
  <2>1. /\ x.dir \in Names
        /\ dirs[x.dir].maker # Nobody /\ dirs[x.dir].jar # "absent"
    BY <1>1, <1>3 DEF Established
  <2>2. s # Nobody
    OBVIOUS
  <2> QED BY <2>1, <2>2 DEF Grown
<1> QED BY <1>1, <1>2, <1>3 DEF Established

(* The rows that were there stay settled, when nobody begins to build over *)
(* a directory that existed.                                               *)
LEMMA RowsKeep ==
    ASSUME IInv, NEW s \in Sessions, Grown(s),
           \A t \in Sessions, n \in Names :
               Building(t, n)' => Building(t, n) \/ dirs[n].maker = Nobody,
           \A n \in Names : dirs'[n] # dirs[n] =>
               dirs[n].maker = Nobody \/ Building(s, n),
           NEW r \in rows
    PROVE  Settled(r)'
<1>1. Settled(r) /\ r \in ServerRows /\ r.dir \in Names
  BY DEF IInv, TypeOK, ServerRows
<1>2. CASE r.from = "create"
  <2>1. dirs'[r.dir] = dirs[r.dir]
    BY <1>1, <1>2 DEF Settled
  <2>2. \A t \in Sessions : ~Building(t, r.dir)'
    BY <1>1, <1>2 DEF Settled
  <2> QED BY <1>1, <1>2, <2>1, <2>2 DEF Settled
<1>3. CASE r.from = "register"
  <2>1. s # Nobody
    OBVIOUS
  <2>2. dirs'[r.dir].maker # Nobody /\ dirs'[r.dir].jar # "absent"
    BY <1>1, <1>3, <2>1 DEF Settled, Grown
  <2> QED BY <1>3, <2>2 DEF Settled
<1> QED BY <1>1, <1>2, <1>3 DEF ServerRows

(* A step that leaves the directories and the rows alone.                  *)
LEMMA ControlStep ==
    ASSUME IInv, NEW s \in Sessions, UNCHANGED <<dirs, rows>>, TypeOK',
           \A t \in Sessions \ {s} : sess'[t] = sess[t],
           Established(sess[s], s)',
           \A n \in Names : Building(s, n)' => Building(s, n)
    PROVE  IInv'
<1>1. Grown(s)
  BY DEF Grown
<1>2. \A t \in Sessions : Established(sess[t], t)'
  BY <1>1, OthersKeep
<1>3. \A t \in Sessions, n \in Names : Building(t, n)' => Building(t, n)
  BY DEF Building
<1>4. \A r \in rows : Settled(r)'
  BY <1>1, <1>3, RowsKeep
<1> QED BY <1>2, <1>4 DEF IInv

(* A response: the request is over.                                        *)
LEMMA EndStep ==
    ASSUME IInv, NEW s \in Sessions, End(s), UNCHANGED <<dirs, rows>>,
           excused' \subseteq Names
    PROVE  IInv'
<1>1. TypeOK'
  BY EndTypes DEF IInv, TypeOK
<1>2. sess'[s] = Idle /\ \A t \in Sessions \ {s} : sess'[t] = sess[t]
  BY DEF End, IInv, TypeOK
<1>3. Established(sess[s], s)' /\ \A n \in Names : ~Building(s, n)'
  BY <1>2 DEF Established, Building, Idle
<1> QED BY <1>1, <1>2, <1>3, ControlStep

----------------------------------------------------------------------------
(* The steps                                                               *)

LEMMA CreationSteps ==
    ASSUME IInv, NEW s \in Sessions,
           Create(s) \/ CreateChecked(s) \/ Buffered(s)
    PROVE  IInv'
<1> USE DEF IInv
<1>1. CASE Create(s)
  <2>1. PICK n \in Names, j \in JarSources :
           sess' = [sess EXCEPT ![s] =
               [pc |-> "validate", name |-> n, dir |-> n, jar |-> j]]
    BY <1>1 DEF Create
  <2>2. TypeOK'
    BY <1>1, <2>1 DEF Create, TypeOK, SessionStates
  <2>3. Established(sess[s], s)' /\ \A m \in Names : ~Building(s, m)'
    BY <2>1 DEF Established, Building, TypeOK
  <2>4. \A t \in Sessions \ {s} : sess'[t] = sess[t]
    BY <2>1 DEF TypeOK
  <2> QED BY <1>1, <2>2, <2>3, <2>4, ControlStep DEF Create
<1>2. ASSUME NEW p \in {"buffer", "make"}, Goto(s, p),
             UNCHANGED <<dirs, rows, excused>>, loop' \in {loop, s},
             sess[s].pc \in {"validate", "buffer"}
      PROVE  IInv'
  <2>1. TypeOK'
    <3>1. sess' \in [Sessions -> SessionStates]
      BY <1>2, GotoTypes
    <3> QED BY <1>2, <3>1 DEF TypeOK
  <2>2. sess[s] \in SessionStates /\ sess'[s] = [sess[s] EXCEPT !.pc = p]
    BY <1>2 DEF TypeOK
  <2>3. sess'[s].pc = p /\ sess'[s].name = sess[s].name
    BY <2>2 DEF SessionStates
  <2>4. Established(sess[s], s)' /\ \A m \in Names : ~Building(s, m)'
    BY <1>2, <2>3 DEF Established, Building
  <2>5. \A t \in Sessions \ {s} : sess'[t] = sess[t]
    BY <1>2 DEF TypeOK
  <2> QED BY <1>2, <2>1, <2>4, <2>5, ControlStep
<1>3. CASE CreateChecked(s)
  <2>1. CASE End(s)
    BY <1>3, <2>1, EndStep DEF CreateChecked, TypeOK
  <2>2. CASE ~End(s)
    BY <1>2, <1>3, <2>2 DEF CreateChecked
  <2> QED BY <2>1, <2>2
<1>4. CASE Buffered(s)
  <2>1. CASE End(s)
    BY <1>4, <2>1, EndStep DEF Buffered, TypeOK
  <2>2. CASE ~End(s)
    BY <1>2, <1>4, <2>2 DEF Buffered
  <2> QED BY <2>1, <2>2
<1> QED BY <1>1, <1>3, <1>4

(* A request that fails after it has made the directory.                   *)
LEMMA AbandonStep ==
    ASSUME IInv, NEW s \in Sessions, Abandon(s), UNCHANGED <<dirs, rows>>,
           sess[s].name \in Names
    PROVE  IInv'
BY EndStep DEF Abandon, IInv, TypeOK

(* A step that changes only the directory the request builds or makes.     *)
LEMMA BuildStep ==
    ASSUME IInv, NEW s \in Sessions, NEW p \in {"lay", "jar", "copy", "commit"},
           Goto(s, p), UNCHANGED <<rows, loop, excused>>,
           NEW d \in Directories, sess[s].name \in Names,
           dirs' = [dirs EXCEPT ![sess[s].name] = d],
           d.maker = s, p \in {"jar", "copy", "commit"} => d.parts = Parts,
           p = "commit" /\ sess[s].jar # "none" => d.jar = "whole",
           \/ dirs[sess[s].name].maker = Nobody
           \/ /\ Building(s, sess[s].name)
              /\ dirs[sess[s].name].maker = s
              /\ dirs[sess[s].name].parts \subseteq d.parts
              /\ dirs[sess[s].name].jar # "absent" => d.jar # "absent"
    PROVE  IInv'
<1> DEFINE n == sess[s].name
<1>1. /\ sess'[s].pc = p /\ sess'[s].name = n /\ sess'[s].jar = sess[s].jar
      /\ sess' \in [Sessions -> SessionStates]
      /\ \A t \in Sessions \ {s} : sess'[t] = sess[t]
  <2>1. sess' \in [Sessions -> SessionStates]
    BY GotoTypes DEF IInv
  <2>2. sess[s] \in SessionStates /\ sess'[s] = [sess[s] EXCEPT !.pc = p]
    BY DEF IInv, TypeOK
  <2>3. \A t \in Sessions \ {s} : sess'[t] = sess[t]
    BY DEF IInv, TypeOK
  <2> QED BY <2>1, <2>2, <2>3 DEF SessionStates
<1>2. dirs'[n] = d /\ \A m \in Names \ {n} : dirs'[m] = dirs[m]
  BY DEF IInv, TypeOK
<1>3. TypeOK'
  BY <1>1 DEF IInv, TypeOK
<1>4. Grown(s)
  BY <1>2 DEF Grown
<1>5. Established(sess[s], s)'
  BY <1>1, <1>2 DEF Established
<1>6. \A t \in Sessions : Established(sess[t], t)'
  BY <1>1, <1>4, <1>5, OthersKeep
<1>7. \A t \in Sessions, m \in Names :
         Building(t, m)' => Building(t, m) \/ dirs[m].maker = Nobody
  BY <1>1 DEF Building
<1>8. \A m \in Names : dirs'[m] # dirs[m] =>
         dirs[m].maker = Nobody \/ Building(s, m)
  BY <1>2
<1>9. \A r \in rows : Settled(r)'
  BY <1>4, <1>7, <1>8, RowsKeep
<1> QED BY <1>3, <1>6, <1>9 DEF IInv

(* What a request that builds may count on.                                *)
LEMMA BuilderFacts ==
    ASSUME IInv, NEW s \in Sessions,
           sess[s].pc \in {"lay", "jar", "copy", "commit"}
    PROVE  /\ sess[s].name \in Names /\ Building(s, sess[s].name)
           /\ dirs[sess[s].name] \in Directories
           /\ dirs[sess[s].name].maker = s
           /\ sess[s].pc # "lay" => dirs[sess[s].name].parts = Parts
           /\ sess[s].pc = "commit" /\ sess[s].jar # "none" =>
                 dirs[sess[s].name].jar = "whole"
<1>1. Established(sess[s], s) /\ dirs \in [Names -> Directories]
  BY DEF IInv, TypeOK
<1> QED BY <1>1 DEF Established, Building

LEMMA MakeStep ==
    ASSUME IInv, NEW s \in Sessions, CreateDirectory(s)
    PROVE  IInv'
<1> DEFINE n == sess[s].name
<1>1. n \in Names /\ dirs[n] \in Directories
  <2>1. Established(sess[s], s) /\ dirs \in [Names -> Directories]
    BY DEF IInv, TypeOK
  <2> QED BY <2>1 DEF Established, CreateDirectory
<1>2. CASE End(s) /\ UNCHANGED <<dirs, rows, excused>>
  BY <1>2, EndStep DEF IInv, TypeOK
<1>3. CASE /\ ~Exists(n) /\ dirs' = [dirs EXCEPT ![n].maker = s]
           /\ Goto(s, "lay") /\ UNCHANGED <<rows, loop, excused>>
  <2> DEFINE d == [dirs[n] EXCEPT !.maker = s]
  <2>1. d \in Directories /\ d.maker = s
    BY <1>1 DEF Directories
  <2>2. dirs[n].maker = Nobody
    BY <1>1, <1>3 DEF Exists
  <2>3. dirs' = [dirs EXCEPT ![n] = d]
    BY <1>3
  <2> HIDE DEF d
  <2> QED BY <1>1, <1>3, <2>1, <2>2, <2>3, BuildStep
<1> QED BY <1>2, <1>3 DEF CreateDirectory

LEMMA LayStep ==
    ASSUME IInv, NEW s \in Sessions, Lay(s)
    PROVE  IInv'
<1> DEFINE n == sess[s].name
           laid == dirs[n].parts \cup {NextPart(dirs[n])}
           p == IF laid # Parts THEN "lay"
                ELSE IF sess[s].jar = "none" THEN "commit" ELSE "jar"
<1>1. /\ n \in Names /\ dirs[n] \in Directories /\ dirs[n].maker = s
      /\ Building(s, n)
  BY BuilderFacts DEF Lay
<1>2. CASE Abandon(s) /\ UNCHANGED <<dirs, rows>>
  BY <1>1, <1>2, AbandonStep
<1>3. CASE /\ dirs' = [dirs EXCEPT ![n].parts = laid]
           /\ Goto(s, p) /\ UNCHANGED <<rows, loop, excused>>
  <2> DEFINE d == [dirs[n] EXCEPT !.parts = laid]
  <2>1. NextPart(dirs[n]) \in Parts
    BY DEF NextPart, Parts
  <2>2. laid \in SUBSET Parts
    BY <1>1, <2>1 DEF Directories
  <2>3. d \in Directories /\ d.maker = s /\ d.parts = laid /\ d.jar = dirs[n].jar
    BY <1>1, <2>2 DEF Directories
  <2>4. dirs' = [dirs EXCEPT ![n] = d]
    BY <1>3
  <2>5. p \in {"lay", "jar", "copy", "commit"}
    OBVIOUS
  <2>6. p \in {"jar", "copy", "commit"} => laid = Parts
    OBVIOUS
  <2>7. ~(p = "commit" /\ sess[s].jar # "none")
    OBVIOUS
  <2>8. dirs[n].parts \subseteq laid
    OBVIOUS
  <2> HIDE DEF d, p, laid
  <2> QED BY <1>1, <1>3, <2>3, <2>4, <2>5, <2>6, <2>7, <2>8, BuildStep
<1> QED BY <1>2, <1>3 DEF Lay

LEMMA JarSteps ==
    ASSUME IInv, NEW s \in Sessions, OpenJar(s) \/ CopyJar(s)
    PROVE  IInv'
<1> DEFINE n == sess[s].name
<1>1. /\ n \in Names /\ dirs[n] \in Directories /\ dirs[n].maker = s
      /\ dirs[n].parts = Parts /\ Building(s, n)
  BY BuilderFacts DEF OpenJar, CopyJar
<1>2. CASE Abandon(s) /\ UNCHANGED <<dirs, rows>>
  BY <1>1, <1>2, AbandonStep
<1>3. ASSUME NEW j \in {"part", "whole"}, NEW p \in {"copy", "commit"},
             p = "commit" => j = "whole",
             dirs' = [dirs EXCEPT ![n].jar = j], Goto(s, p),
             UNCHANGED <<rows, loop, excused>>
      PROVE  IInv'
  <2> DEFINE d == [dirs[n] EXCEPT !.jar = j]
  <2>1. d \in Directories /\ d.maker = s /\ d.parts = Parts /\ d.jar = j
    BY <1>1, <1>3 DEF Directories
  <2>2. dirs' = [dirs EXCEPT ![n] = d]
    BY <1>3
  <2> HIDE DEF d
  <2> QED BY <1>1, <1>3, <2>1, <2>2, BuildStep
<1>4. CASE OpenJar(s)
  BY <1>2, <1>3, <1>4 DEF OpenJar
<1>5. CASE CopyJar(s)
  BY <1>2, <1>3, <1>5 DEF CopyJar
<1> QED BY <1>4, <1>5

(* A committed row: the request is over and its row is settled.            *)
LEMMA CommitStep ==
    ASSUME IInv, NEW s \in Sessions, End(s), UNCHANGED <<dirs, excused>>,
           NEW r \in ServerRows, rows' = rows \cup {r},
           dirs[r.dir].maker # Nobody,
           r.from = "create" =>
              /\ dirs[r.dir].parts = Parts
              /\ r.jar # "none" => dirs[r.dir].jar = "whole"
              /\ \A t \in Sessions \ {s} : ~Building(t, r.dir),
           r.from = "register" => dirs[r.dir].jar # "absent"
    PROVE  IInv'
<1>1. TypeOK'
  BY EndTypes DEF IInv, TypeOK
<1>2. sess'[s] = Idle /\ \A t \in Sessions \ {s} : sess'[t] = sess[t]
  BY DEF End, IInv, TypeOK
<1>3. Grown(s)
  BY DEF Grown
<1>4. Established(sess[s], s)' /\ \A n : ~Building(s, n)'
  BY <1>2 DEF Established, Building, Idle
<1>5. \A t \in Sessions : Established(sess[t], t)'
  BY <1>2, <1>3, <1>4, OthersKeep
<1>6. \A t \in Sessions, n \in Names : Building(t, n)' => Building(t, n)
  BY <1>2, <1>4 DEF Building
<1>7. \A q \in rows : Settled(q)'
  BY <1>3, <1>6, RowsKeep
<1>8. Settled(r)'
  <2>1. \A t \in Sessions \ {s} : Building(t, r.dir)' => Building(t, r.dir)
    BY <1>2 DEF Building
  <2> QED BY <1>4, <2>1 DEF Settled
<1> QED BY <1>1, <1>5, <1>7, <1>8 DEF IInv

LEMMA CreateCommitStep ==
    ASSUME IInv, NEW s \in Sessions, CreateCommit(s)
    PROVE  IInv'
<1> DEFINE n == sess[s].name
           r == [name |-> n, dir |-> n, from |-> "create", jar |-> sess[s].jar]
<1>1. /\ n \in Names /\ dirs[n].maker = s /\ dirs[n].parts = Parts
      /\ sess[s].jar # "none" => dirs[n].jar = "whole"
  BY BuilderFacts DEF CreateCommit
<1>2. CASE Abandon(s) /\ UNCHANGED <<dirs, rows>>
  BY <1>1, <1>2, AbandonStep
<1>3. CASE End(s) /\ rows' = rows \cup {r} /\ UNCHANGED <<dirs, excused>>
  <2>1. sess[s].jar \in JarSources
    BY DEF IInv, TypeOK, SessionStates
  <2>2. r \in ServerRows
    BY <1>1, <2>1 DEF ServerRows
  <2>3. \A t \in Sessions \ {s} : ~Building(t, n)
    BY <1>1, BuilderFacts DEF Building
  <2>4. s # Nobody
    OBVIOUS
  <2>5. r.dir = n /\ r.from = "create" /\ r.jar = sess[s].jar
    OBVIOUS
  <2> HIDE DEF r
  <2> QED BY <1>1, <1>3, <2>2, <2>3, <2>4, <2>5, CommitStep
<1> QED BY <1>2, <1>3 DEF CreateCommit

LEMMA RegistrationSteps ==
    ASSUME IInv, NEW s \in Sessions,
           Register(s) \/ RegisterChecked(s) \/ RegisterCommit(s)
    PROVE  IInv'
<1>1. CASE Register(s)
  <2>1. PICK n \in Names, d \in Names \cup {Nowhere} :
           sess' = [sess EXCEPT ![s] =
               [pc |-> "detect", name |-> n, dir |-> d, jar |-> "none"]]
    BY <1>1 DEF Register
  <2>2. TypeOK'
    BY <1>1, <2>1 DEF Register, IInv, TypeOK, SessionStates, JarSources
  <2>3. Established(sess[s], s)' /\ \A m \in Names : ~Building(s, m)'
    BY <2>1 DEF Established, Building, IInv, TypeOK
  <2>4. \A t \in Sessions \ {s} : sess'[t] = sess[t]
    BY <2>1 DEF IInv, TypeOK
  <2> QED BY <1>1, <2>2, <2>3, <2>4, ControlStep DEF Register
<1>2. CASE RegisterChecked(s)
  <2>1. CASE End(s)
    BY <1>2, <2>1, EndStep DEF RegisterChecked, IInv, TypeOK
  <2>2. CASE /\ Exists(sess[s].dir) /\ dirs[sess[s].dir].jar # "absent"
             /\ Goto(s, "insert") /\ UNCHANGED loop
    <3>1. TypeOK'
      <4>1. sess' \in [Sessions -> SessionStates]
        BY <2>2, GotoTypes DEF IInv
      <4> QED BY <1>2, <2>2, <4>1 DEF RegisterChecked, IInv, TypeOK
    <3>2. sess[s] \in SessionStates /\ sess'[s] = [sess[s] EXCEPT !.pc = "insert"]
      BY <2>2 DEF IInv, TypeOK
    <3>3. /\ sess'[s].pc = "insert" /\ sess'[s].name = sess[s].name
          /\ sess'[s].dir = sess[s].dir
      BY <3>2 DEF SessionStates
    <3>4. sess[s].name \in Names
      BY <1>2 DEF RegisterChecked, IInv, Established
    <3>5. Established(sess[s], s)' /\ \A m \in Names : ~Building(s, m)'
      BY <1>2, <2>2, <3>3, <3>4 DEF RegisterChecked, Established, Building, Exists
    <3>6. \A t \in Sessions \ {s} : sess'[t] = sess[t]
      BY <2>2 DEF IInv, TypeOK
    <3> QED BY <1>2, <3>1, <3>5, <3>6, ControlStep DEF RegisterChecked
  <2> QED BY <1>2, <2>1, <2>2 DEF RegisterChecked
<1>3. CASE RegisterCommit(s)
  <2> DEFINE r == [name |-> sess[s].name, dir |-> sess[s].dir,
                   from |-> "register", jar |-> "none"]
  <2>1. /\ sess[s].name \in Names /\ sess[s].dir \in Names
        /\ dirs[sess[s].dir].maker # Nobody /\ dirs[sess[s].dir].jar # "absent"
    BY <1>3 DEF RegisterCommit, IInv, Established
  <2>2. r \in ServerRows /\ r.dir = sess[s].dir /\ r.from = "register"
    BY <2>1 DEF ServerRows, JarSources
  <2>3. CASE UNCHANGED rows
    BY <1>3, <2>3, EndStep DEF RegisterCommit, IInv, TypeOK
  <2>4. CASE rows' = rows \cup {r}
    <3>1. End(s) /\ UNCHANGED <<dirs, excused>>
      BY <1>3 DEF RegisterCommit
    <3> HIDE DEF r
    <3> QED BY <2>1, <2>2, <2>4, <3>1, CommitStep
  <2> QED BY <1>3, <2>3, <2>4 DEF RegisterCommit
<1> QED BY <1>1, <1>2, <1>3

LEMMA CrashStep == IInv /\ Crash => IInv'
<1> SUFFICES ASSUME IInv, Crash PROVE IInv'
  OBVIOUS
<1>1. \A s \in Sessions : sess'[s] = Idle
  BY DEF Crash
<1>2. TypeOK'
  BY IdleState DEF Crash, IInv, TypeOK
<1>3. \A s \in Sessions : Established(sess[s], s)' /\ \A n : ~Building(s, n)'
  BY <1>1 DEF Established, Building, Idle
<1>4. \A r \in rows : Settled(r)'
  BY <1>3 DEF IInv, Settled, Crash
<1> QED BY <1>2, <1>3, <1>4 DEF IInv, Crash

LEMMA Inductive == IInv /\ [Next]_vars => IInv'
<1> SUFFICES ASSUME IInv, [Next]_vars PROVE IInv'
  OBVIOUS
<1>1. CASE UNCHANGED vars
  BY <1>1 DEF vars, IInv, TypeOK, Established, Settled, Building
<1>2. CASE Crash
  BY <1>2, CrashStep
<1>3. ASSUME NEW s \in Sessions,
             Create(s) \/ CreateChecked(s) \/ Buffered(s) \/ CreateDirectory(s)
      PROVE  IInv'
  BY <1>3, CreationSteps, MakeStep
<1>4. ASSUME NEW s \in Sessions,
             Lay(s) \/ OpenJar(s) \/ CopyJar(s) \/ CreateCommit(s)
      PROVE  IInv'
  BY <1>4, LayStep, JarSteps, CreateCommitStep
<1>5. ASSUME NEW s \in Sessions,
             Register(s) \/ RegisterChecked(s) \/ RegisterCommit(s)
      PROVE  IInv'
  BY <1>5, RegistrationSteps
<1> QED BY <1>1, <1>2, <1>3, <1>4, <1>5 DEF Next

LEMMA Initial == Init => IInv
<1> SUFFICES ASSUME Init PROVE IInv
  OBVIOUS
<1>1. \A s \in Sessions : Established(sess[s], s)
  BY DEF Init, Idle, Established
<1> QED BY <1>1, TypeInit DEF Init, IInv

LEMMA Invariant == Spec => []IInv
BY Initial, Inductive, PTL DEF Spec

----------------------------------------------------------------------------
(* Refusals                                                                *)

(* What a step must not do: make a directory without building in it, give  *)
(* up a directory without an excuse or a row, or take back either.         *)
Accounted(n) ==
    \/ \E s \in Sessions : Building(s, n)
    \/ \E r \in rows : r.from = "create" /\ r.name = n
    \/ n \in excused

LEMMA RefusedFrame ==
    ASSUME RefusedLeavesNothing,
           \A n \in Names : dirs'[n].maker = dirs[n].maker \/ Accounted(n)',
           \A n \in Names : Accounted(n) => Accounted(n)'
    PROVE  RefusedLeavesNothing'
BY DEF RefusedLeavesNothing, Accounted

(* A request that builds nothing ends or moves on.                         *)
LEMMA RefusedQuiet ==
    ASSUME IInv, RefusedLeavesNothing, NEW s \in Sessions,
           sess[s].pc \notin {"lay", "jar", "copy", "commit"},
           UNCHANGED <<dirs, excused>>, rows \subseteq rows',
           \A t \in Sessions \ {s} : sess'[t] = sess[t]
    PROVE  RefusedLeavesNothing'
<1>1. \A t \in Sessions, n \in Names : Building(t, n) => Building(t, n)'
  BY DEF Building
<1>2. \A n \in Names : Accounted(n) => Accounted(n)'
  BY <1>1 DEF Accounted
<1> QED BY <1>2, RefusedFrame

(* A request that builds goes on building in the same directory.           *)
LEMMA RefusedBuilding ==
    ASSUME IInv, RefusedLeavesNothing, NEW s \in Sessions,
           NEW p \in {"lay", "jar", "copy", "commit"}, Goto(s, p),
           UNCHANGED <<rows, excused>>,
           sess[s].name \in Names,
           \A n \in Names \ {sess[s].name} : dirs'[n] = dirs[n]
    PROVE  RefusedLeavesNothing'
<1>1. sess'[s].pc = p /\ sess'[s].name = sess[s].name
  <2>1. sess[s] \in SessionStates /\ sess'[s] = [sess[s] EXCEPT !.pc = p]
    BY DEF IInv, TypeOK
  <2> QED BY <2>1 DEF SessionStates
<1>2. \A t \in Sessions \ {s} : sess'[t] = sess[t]
  BY DEF IInv, TypeOK
<1>3. Building(s, sess[s].name)'
  BY <1>1 DEF Building
<1>4. \A t \in Sessions, n \in Names : Building(t, n) => Building(t, n)'
  BY <1>1, <1>2 DEF Building
<1>5. \A n \in Names : Accounted(n) => Accounted(n)'
  BY <1>4 DEF Accounted
<1>6. Accounted(sess[s].name)'
  BY <1>3 DEF Accounted
<1> QED BY <1>5, <1>6, RefusedFrame

(* A request that builds ends, with an excuse or with its row.             *)
LEMMA RefusedEnd ==
    ASSUME IInv, RefusedLeavesNothing, NEW s \in Sessions, End(s),
           UNCHANGED dirs, rows \subseteq rows', excused \subseteq excused',
           \/ sess[s].name \in excused'
           \/ \E r \in rows' : r.from = "create" /\ r.name = sess[s].name
    PROVE  RefusedLeavesNothing'
<1>1. \A t \in Sessions \ {s} : sess'[t] = sess[t]
  BY DEF End, IInv, TypeOK
<1>2. \A t \in Sessions \ {s}, n \in Names : Building(t, n) => Building(t, n)'
  BY <1>1 DEF Building
<1>3. \A n \in Names : Building(s, n) => Accounted(n)'
  BY DEF Building, Accounted
<1>4. \A n \in Names : Accounted(n) => Accounted(n)'
  BY <1>2, <1>3 DEF Accounted
<1> QED BY <1>4, RefusedFrame

LEMMA RefusedStep ==
    IInv /\ RefusedLeavesNothing /\ [Next]_vars => RefusedLeavesNothing'
<1> SUFFICES ASSUME IInv, RefusedLeavesNothing, [Next]_vars
             PROVE  RefusedLeavesNothing'
  OBVIOUS
<1>1. CASE UNCHANGED vars
  BY <1>1 DEF vars, RefusedLeavesNothing, Building
<1>2. CASE Crash
  <2>1. \A n \in Names : Accounted(n) => Accounted(n)'
    BY <1>2 DEF Crash, Accounted
  <2> QED BY <1>2, <2>1, RefusedFrame DEF Crash
<1>3. ASSUME NEW s \in Sessions,
             \/ Create(s) \/ CreateChecked(s) \/ Buffered(s)
             \/ Register(s) \/ RegisterChecked(s) \/ RegisterCommit(s)
      PROVE  RefusedLeavesNothing'
  <2>1. sess[s].pc \notin {"lay", "jar", "copy", "commit"}
    BY <1>3 DEF Create, CreateChecked, Buffered, Register, RegisterChecked,
       RegisterCommit
  <2>2. UNCHANGED <<dirs, excused>> /\ rows \subseteq rows'
    BY <1>3 DEF Create, CreateChecked, Buffered, Register, RegisterChecked,
       RegisterCommit
  <2>3. \A t \in Sessions \ {s} : sess'[t] = sess[t]
    BY <1>3 DEF Create, CreateChecked, Buffered, Register, RegisterChecked,
       RegisterCommit, End, IInv, TypeOK
  <2> QED BY <2>1, <2>2, <2>3, RefusedQuiet
<1>4. ASSUME NEW s \in Sessions, CreateDirectory(s)
      PROVE  RefusedLeavesNothing'
  <2>1. sess[s].name \in Names /\ sess[s].pc = "make"
    BY <1>4 DEF CreateDirectory, IInv, Established
  <2>2. CASE End(s) /\ UNCHANGED dirs
    <3>1. \A t \in Sessions \ {s} : sess'[t] = sess[t]
      BY <2>2 DEF End, IInv, TypeOK
    <3> QED BY <1>4, <2>1, <2>2, <3>1, RefusedQuiet DEF CreateDirectory
  <2>3. CASE Goto(s, "lay") /\ dirs' = [dirs EXCEPT ![sess[s].name].maker = s]
    BY <1>4, <2>1, <2>3, RefusedBuilding DEF CreateDirectory, IInv, TypeOK
  <2> QED BY <1>4, <2>2, <2>3 DEF CreateDirectory
<1>5. ASSUME NEW s \in Sessions,
             Lay(s) \/ OpenJar(s) \/ CopyJar(s) \/ CreateCommit(s)
      PROVE  RefusedLeavesNothing'
  <2>1. sess[s].name \in Names
    BY <1>5, BuilderFacts DEF Lay, OpenJar, CopyJar, CreateCommit
  <2> DEFINE Gave == Abandon(s) /\ UNCHANGED <<dirs, rows>>
  <2>2. CASE Gave
    BY <2>1, <2>2, RefusedEnd DEF Abandon
  <2>3. CASE CreateCommit(s) /\ ~Gave
    <3> DEFINE r == [name |-> sess[s].name, dir |-> sess[s].name,
                     from |-> "create", jar |-> sess[s].jar]
    <3>1. End(s) /\ UNCHANGED <<dirs, excused>> /\ rows' = rows \cup {r}
      BY <2>3 DEF CreateCommit
    <3>2. r.from = "create" /\ r.name = sess[s].name
      OBVIOUS
    <3> HIDE DEF r
    <3> QED BY <3>1, <3>2, RefusedEnd
  <2>4. CASE (Lay(s) \/ OpenJar(s) \/ CopyJar(s)) /\ ~Gave
    <3>1. /\ UNCHANGED <<rows, excused>>
          /\ \A n \in Names \ {sess[s].name} : dirs'[n] = dirs[n]
      BY <2>4 DEF Lay, OpenJar, CopyJar, IInv, TypeOK
    <3>2. \E p \in {"lay", "jar", "copy", "commit"} : Goto(s, p)
      <4>1. CASE Lay(s)
        BY <2>4, <4>1 DEF Lay
      <4>2. CASE OpenJar(s) \/ CopyJar(s)
        BY <2>4, <4>2 DEF OpenJar, CopyJar
      <4> QED BY <2>4, <4>1, <4>2
    <3> QED BY <2>1, <3>1, <3>2, RefusedBuilding
  <2> QED BY <1>5, <2>2, <2>3, <2>4
<1> QED BY <1>1, <1>2, <1>3, <1>4, <1>5 DEF Next

----------------------------------------------------------------------------
(* The theorems                                                            *)

(* A row always names a directory below SERVERS_DIR and a way in, whatever *)
(* path a registration gives and whatever fails (register_server).         *)
THEOREM TypeCorrect == Spec => []TypeOK
<1>1. IInv => TypeOK
  BY DEF IInv
<1> QED BY <1>1, Invariant, PTL

(* create_server writes only into a directory it has made itself, however  *)
(* many creations of one name are in progress and wait for their uploads.  *)
THEOREM OnlyOwnTree == Spec => []OwnTree
<1>1. IInv => OwnTree
  BY BuilderFacts DEF OwnTree, Building
<1> QED BY <1>1, Invariant, PTL

(* Rows stand over complete directories: the commit of create_server comes *)
(* last, and no fault and no crash leaves a row without its files.         *)
THEOREM RowsAreWhole == Spec => []RowsWhole
<1>1. IInv => RowsWhole
  BY DEF IInv, Settled, RowsWhole
<1> QED BY <1>1, Invariant, PTL

(* A refused creation leaves nothing, whatever was in its way: only faults *)
(* and a name that was registered meanwhile leave a directory behind       *)
(* (create_server, buffer_jar_upload).                                     *)
THEOREM RefusalsLeaveNothing == Spec => []RefusedLeavesNothing
<1>1. Init => RefusedLeavesNothing
  <2>1. ASSUME Init PROVE \A n \in Names : dirs[n].maker \notin Sessions
    BY <2>1 DEF Init, Missing, Adopted
  <2> QED BY <2>1 DEF RefusedLeavesNothing
<1> QED BY <1>1, RefusedStep, Invariant, PTL DEF Spec
=============================================================================

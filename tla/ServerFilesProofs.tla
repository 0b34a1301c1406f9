-------------------------- MODULE ServerFilesProofs --------------------------
(* Theorems about ServerFiles: any number of requests, any values of the   *)
(* keys and every fault.                                                   *)
EXTENDS ServerFiles, TLAPS

USE FilesAssumption DEF At, Goto, props, jars

----------------------------------------------------------------------------
(* The invariant                                                           *)

(* The labels at which a coroutine has not awaited anything.               *)
Holding == {"save", "copy", "open", "write", "commit", "stream"}

LoopInv ==
    \A s \in Sessions :
        /\ sess[s].pc \in Holding <=> loop = s
        /\ At(s, "idle") => sess[s] = Idle

ValueIn(c, k) == IF c = NoFile THEN None ELSE c[k]

(* What the request x is about to write loses no key of c, and changes     *)
(* only what was posted if it is the RCON form's.                          *)
Keeps(x, c) ==
    /\ \A k \in Keys : ValueIn(c, k) # None => x.new[k] # None
    /\ x.posted # NoValues =>
          \A k \in Keys : (k \in RconKeys => x.posted[k] = None) => x.new[k] = ValueIn(c, k)
    /\ x.posted = NoValues => c # NoFile

(* What a save has established at each of its labels.                      *)
SaveKnows(x) ==
    /\ x.pc = "save" => Keeps(x, file)
    /\ x.pc \in {"copy", "open", "write"} => hist.saved = Spoiled \/ Keeps(x, hist.saved)
    /\ x.pc = "copy" => file # NoFile /\ hist.saved \in {file, Spoiled}
    /\ x.pc \in {"open", "write"} => hist.saved \in {bak, Spoiled}
    /\ x.pc = "write" => file = Empty
    /\ x.pc = "commit" => x.posted # NoValues
    /\ (x.pc \in Holding \ {"stream"} /\ x.posted # NoValues) =>
          /\ x.posted["port"] # None
          /\ \A k \in RconKeys : x.posted[k] # None => x.new[k] = x.posted[k]

(* A file that is not what was saved last is empty, and counted as apart   *)
(* from the mirror in every key until the RCON form has filled it.         *)
Damage ==
    /\ file \in {hist.saved, Empty} /\ hist.saved \in {file, bak, Spoiled}
    /\ file = NoFile => bak = NoFile
    /\ hist.saved \in {Empty, Spoiled} => hist.apart = RconKeys
    /\ file = Empty => hist.apart = RconKeys \/ \E s \in Sessions : At(s, "write")

(* The other keys agree, but for those of a form that has not committed.   *)
Agreement ==
    \A k \in RconKeys \ hist.apart :
        \/ ValueIn(hist.saved, k) = mirror[k]
        \/ \E s \in Sessions : At(s, "commit") /\ k \in Posted(s)

PropsInv == Damage /\ Agreement /\ \A s \in Sessions : SaveKnows(sess[s])

Other(n) == IF n = "enabled" THEN "disabled" ELSE "enabled"

(* Until an upload fails or finds a twin there is one jar at most: none, a *)
(* part that is being written, or a whole one.                             *)
JarInv ==
    /\ \A s \in Sessions : At(s, "stream") => target # Nobody
    /\ target # Nobody => \E s \in Sessions : At(s, "stream")
    /\ hist.jar = "none" =>
          \/ target = Nobody /\ \A n \in Slots : mods[n] = "absent"
          \/ target \in Slots /\ mods[target] = "part" /\ mods[Other(target)] = "absent"
    /\ hist.jar = "stored" =>
          \E n \in Slots :
             /\ mods[Other(n)] = "absent"
             /\ \/ target = Nobody /\ mods[n] = "whole"
                \/ target = n /\ mods[n] = "part"

FilesInv == TypeOK /\ LoopInv /\ PropsInv /\ JarInv

----------------------------------------------------------------------------
(* Values and records                                                      *)

LEMMA Distinct ==
    /\ NoFile \notin Contents /\ Spoiled \notin Contents /\ NoFile # Spoiled
    /\ Empty \in Contents /\ \A c \in Contents : c \in [Keys -> (UNION {Values[k] : k \in Keys}) \cup {None}]
    /\ \A c \in Contents : \A k \in Keys : c[k] \in Values[k] \cup {None}
<1>1. "motd" \in Keys /\ "spoiled" \notin Keys
  BY DEF Keys, RconKeys
<1>2. \A c \in Contents : DOMAIN c = Keys
  BY DEF Contents
<1>3. DOMAIN NoFile = {} /\ DOMAIN Spoiled = {"spoiled"}
  BY DEF NoFile, Spoiled
<1>4. Empty \in Contents
  BY DEF Empty, Contents
<1> QED
  BY <1>1, <1>2, <1>3, <1>4 DEF Contents

LEMMA SessionOf ==
    ASSUME FilesInv, NEW s \in Sessions
    PROVE  /\ sess[s] \in SessionStates /\ sess[s].new \in Contents
           /\ sess[s].posted \in RconValues /\ sess[s].row \in RconValues
           /\ SaveKnows(sess[s])
           /\ sess[s].pc \in Holding <=> loop = s
           /\ At(s, "idle") => sess[s] = Idle
BY DEF FilesInv, TypeOK, LoopInv, PropsInv, SessionStates

LEMMA IdleTyped ==
    Idle \in SessionStates /\ Idle.pc = "idle" /\ Idle.posted = NoValues
BY Distinct DEF Idle, SessionStates, RconValues, NoValues

LEMMA Free == ASSUME NEW x, x.pc \notin Holding PROVE SaveKnows(x)
BY DEF SaveKnows, Holding

LEMMA InitInv == Init => FilesInv
<1> SUFFICES ASSUME Init PROVE FilesInv
  OBVIOUS
<1>1. \A k \in Keys : SomeValue(k) \in Values[k]
  BY DEF SomeValue
<1>2. file \in Contents \cup {NoFile}
  BY <1>1, Distinct DEF Init, Contents, Empty
<1>3. mirror \in RconValues /\ mirror["password"] = InFile("password")
  <2>1. InFile("password") \in (UNION {Values[k] : k \in RconKeys}) \cup {None}
    BY <1>2, Distinct DEF InFile, RconKeys, Keys
  <2>2. SomeValue("port") \in (UNION {Values[k] : k \in RconKeys}) \cup {None}
    BY <1>1 DEF RconKeys, Keys
  <2>3. mirror = [k \in RconKeys |-> IF k = "port" THEN SomeValue("port") ELSE InFile("password")]
    BY DEF Init, RconKeys
  <2> QED
    BY <2>1, <2>2, <2>3 DEF RconValues, RconKeys
<1>4. hist = [saved |-> file, apart |-> {k \in RconKeys : InFile(k) # mirror[k]}, jar |-> "none"]
  BY DEF Init
<1>5. TypeOK
  BY <1>2, <1>3, <1>4, IdleTyped DEF Init, TypeOK, Histories, Slots
<1>6. LoopInv
  BY IdleTyped DEF Init, LoopInv, Holding
<1>7. file # Empty
  <2>1. SomeValue("motd") # None /\ SomeValue("motd") \in Values["motd"] /\ "motd" \in Keys
    BY <1>1 DEF Keys
  <2>2. Empty["motd"] = None /\ DOMAIN Empty = Keys
    BY <2>1 DEF Empty
  <2>3. NoFile # Empty
    BY Distinct
  <2> QED
    BY <2>1, <2>2, <2>3 DEF Init, Empty
<1>8. PropsInv
  <2>1. Damage
    BY <1>2, <1>4, <1>7, Distinct DEF Init, Damage
  <2>2. Agreement
    BY <1>4 DEF Agreement, ValueIn, InFile
  <2>3. \A s \in Sessions : SaveKnows(sess[s])
    BY IdleTyped, Free DEF Init, Holding
  <2> QED
    BY <2>1, <2>2, <2>3 DEF PropsInv
<1>9. JarInv
  BY <1>4, IdleTyped DEF Init, JarInv
<1> QED
  BY <1>5, <1>6, <1>8, <1>9 DEF FilesInv

----------------------------------------------------------------------------
(* Steps                                                                   *)

DataOK ==
    /\ file \in Contents \cup {NoFile} /\ bak \in Contents \cup {NoFile}
    /\ mirror \in RconValues /\ page \in Contents \cup {NoFile}
    /\ mods \in [Slots -> {"absent", "part", "whole"}]
    /\ target \in Slots \cup {"gone", Nobody}
    /\ hist \in Histories

LEMMA DataTyped == FilesInv => DataOK /\ hist.saved \in Contents \cup {NoFile, Spoiled}
                                      /\ hist.apart \subseteq RconKeys
BY DEF FilesInv, TypeOK, DataOK, Histories

(* A step of s establishes the rest of the invariant if it keeps the loop. *)
LEMMA StepInv ==
    ASSUME FilesInv, NEW s \in Sessions, NEW x \in SessionStates,
           sess' = [sess EXCEPT ![s] = x], x.pc = "idle" => x = Idle,
           \/ x.pc \in Holding /\ loop' = s /\ loop \in {Nobody, s}
           \/ x.pc \notin Holding /\ loop' = IF loop = s THEN Nobody ELSE loop,
           DataOK', PropsInv', JarInv'
    PROVE  FilesInv'
<1>1. sess \in [Sessions -> SessionStates] /\ loop \in Sessions \cup {Nobody}
  BY DEF FilesInv, TypeOK
<1>2. /\ sess' \in [Sessions -> SessionStates] /\ loop' \in Sessions \cup {Nobody}
      /\ sess'[s] = x /\ \A o \in Sessions \ {s} : sess'[o] = sess[o]
      /\ \A o \in Sessions \ {s} : loop' = o <=> loop = o
      /\ x.pc \in Holding <=> loop' = s
  BY <1>1
<1>3. TypeOK'
  BY <1>2 DEF DataOK, TypeOK
<1>4. LoopInv'
  <2>1. \A o \in Sessions : (sess'[o].pc \in Holding <=> loop' = o)
                            /\ (sess'[o].pc = "idle" => sess'[o] = Idle)
    BY <1>2, SessionOf
  <2> QED
    BY <2>1 DEF LoopInv
<1> QED
  BY <1>3, <1>4 DEF FilesInv

(* Whoever does not hold the loop leaves the properties alone.             *)
LEMMA PropsKept ==
    ASSUME FilesInv, UNCHANGED <<file, bak, mirror>>,
           hist'.saved = hist.saved, hist'.apart = hist.apart,
           \A o \in Sessions :
              \/ sess'[o] = sess[o]
              \/ sess'[o].pc \notin Holding /\ sess[o].pc \notin {"write", "commit"}
    PROVE  PropsInv'
<1>1. \A o \in Sessions : sess[o].pc \in {"write", "commit"} => sess'[o] = sess[o]
  OBVIOUS
<1>2. Damage'
  BY <1>1 DEF FilesInv, PropsInv, Damage
<1>3. Agreement'
  BY <1>1 DEF FilesInv, PropsInv, Agreement, ValueIn, Posted
<1>4. ASSUME NEW o \in Sessions PROVE SaveKnows(sess[o])'
  <2>1. CASE sess'[o] = sess[o]
    BY <2>1, SessionOf DEF SaveKnows, Keeps, ValueIn
  <2>2. CASE sess'[o].pc \notin Holding
    BY <2>2 DEF SaveKnows, Holding
  <2> QED
    BY <2>1, <2>2
<1> QED
  BY <1>2, <1>3, <1>4 DEF PropsInv

LEMMA JarKept ==
    ASSUME FilesInv, UNCHANGED jars, hist'.jar = hist.jar,
           \A o \in Sessions : sess'[o].pc = "stream" <=> sess[o].pc = "stream"
    PROVE  JarInv'
BY DEF FilesInv, JarInv, Other

(* While one coroutine holds the loop, no other one does.                  *)
LEMMA OneHolds ==
    ASSUME FilesInv
    PROVE  /\ LoopFree => \A o \in Sessions : sess[o].pc \notin Holding
           /\ \A s \in Sessions : sess[s].pc \in Holding =>
                 loop = s /\ \A o \in Sessions \ {s} : sess[o].pc \notin Holding
<1>1. loop \in Sessions \cup {Nobody}
  BY DEF FilesInv, TypeOK
<1> QED
  BY <1>1, SessionOf DEF LoopFree

(* A coroutine that has written the properties: what it has to establish.  *)
LEMMA SaveKept ==
    ASSUME FilesInv, NEW s \in Sessions, LoopFree \/ sess[s].pc \in Holding,
           \A o \in Sessions \ {s} : sess'[o] = sess[o],
           Damage', Agreement', SaveKnows(sess[s])'
    PROVE  PropsInv'
<1>1. ASSUME NEW o \in Sessions \ {s} PROVE SaveKnows(sess[o])'
  <2>1. sess'[o].pc \notin Holding
    BY OneHolds
  <2> QED
    BY <2>1 DEF SaveKnows, Holding
<1> QED
  BY <1>1 DEF PropsInv

----------------------------------------------------------------------------
(* Requests that are not saving                                            *)

(* The end of a request that has changed nothing.                          *)
LEMMA EndInv ==
    ASSUME FilesInv, NEW s \in Sessions, End(s),
           sess[s].pc \notin {"write", "commit", "stream"}, UNCHANGED <<props, jars, hist>>
    PROVE  FilesInv'
<1>1. sess' = [sess EXCEPT ![s] = Idle] /\ loop' = IF loop = s THEN Nobody ELSE loop
  BY DEF End
<1>2. sess'[s] = Idle /\ \A o \in Sessions \ {s} : sess'[o] = sess[o]
  BY <1>1 DEF FilesInv, TypeOK
<1>3. PropsInv'
  BY <1>2, IdleTyped, PropsKept DEF Holding
<1>4. JarInv'
  BY <1>2, IdleTyped, JarKept
<1>5. DataOK'
  BY DataTyped DEF DataOK
<1> QED
  BY <1>1, <1>3, <1>4, <1>5, IdleTyped, StepInv DEF Holding

(* A step from one label to another at neither of which the loop is held.  *)
LEMMA GotoInv ==
    ASSUME FilesInv, NEW s \in Sessions, NEW x \in SessionStates,
           sess' = [sess EXCEPT ![s] = x], x.pc \notin Holding \cup {"idle"},
           sess[s].pc \notin Holding, UNCHANGED <<props, jars, loop, hist>>
    PROVE  FilesInv'
<1>1. sess'[s] = x /\ \A o \in Sessions \ {s} : sess'[o] = sess[o]
  BY DEF FilesInv, TypeOK
<1>2. PropsInv'
  BY <1>1, PropsKept DEF Holding
<1>3. JarInv'
  BY <1>1, JarKept DEF Holding
<1>4. DataOK' /\ loop # s
  BY DataTyped, SessionOf DEF DataOK
<1> QED
  BY <1>2, <1>3, <1>4, StepInv

LEMMA PropertiesFormInv == ASSUME FilesInv, PropertiesForm PROVE FilesInv'
<1>1. UNCHANGED <<file, bak, mirror, mods, target, loop, sess, hist>> /\ page' = file
  BY DEF PropertiesForm
<1>2. PropsInv' /\ JarInv'
  BY <1>1, PropsKept, JarKept
<1>3. TypeOK' /\ LoopInv'
  BY <1>1 DEF FilesInv, TypeOK, LoopInv
<1> QED
  BY <1>2, <1>3 DEF FilesInv

LEMMA RconArriveInv ==
    ASSUME FilesInv, NEW s \in Sessions, RconArrive(s) PROVE FilesInv'
<1> DEFINE x == [sess[s] EXCEPT !.pc = "form", !.row = mirror]
<1>1. At(s, "idle") /\ sess' = [sess EXCEPT ![s] = x] /\ UNCHANGED <<props, jars, loop, hist>>
  BY DEF RconArrive, Idles
<1>2. x \in SessionStates /\ x.pc = "form"
  BY SessionOf, DataTyped DEF SessionStates, DataOK
<1> HIDE DEF x
<1> QED
  BY <1>1, <1>2, GotoInv DEF Holding

LEMMA MovesInv ==
    ASSUME FilesInv, NEW s \in Sessions, Upload(s) \/ Toggle(s) \/ ToggleLooked(s)
    PROVE  FilesInv'
<1>1. ASSUME NEW label \in {"spool", "disable", "look", "enable"}, Goto(s, label),
             sess[s].pc \notin Holding, UNCHANGED <<props, jars, loop, hist>>
      PROVE  FilesInv'
  <2> DEFINE x == [sess[s] EXCEPT !.pc = label]
  <2>1. x \in SessionStates /\ x.pc = label /\ sess' = [sess EXCEPT ![s] = x]
    BY <1>1, SessionOf DEF SessionStates
  <2> HIDE DEF x
  <2> QED
    BY <1>1, <2>1, GotoInv DEF Holding
<1>2. CASE Upload(s)
  BY <1>1, <1>2 DEF Upload, Idles, Holding
<1>3. CASE Toggle(s)
  BY <1>1, <1>3 DEF Toggle, Idles, Holding
<1>4. CASE ToggleLooked(s)
  <2>1. At(s, "look") /\ UNCHANGED <<props, jars, hist>>
    BY <1>4 DEF ToggleLooked
  <2>2. CASE Goto(s, "enable") /\ UNCHANGED loop
    BY <1>1, <2>1, <2>2 DEF Holding
  <2>3. CASE End(s)
    BY <2>1, <2>3, EndInv
  <2> QED
    BY <1>4, <2>2, <2>3 DEF ToggleLooked
<1> QED
  BY <1>2, <1>3, <1>4

----------------------------------------------------------------------------
(* Jars                                                                    *)

LEMMA UploadReadInv ==
    ASSUME FilesInv, NEW s \in Sessions, UploadRead(s) PROVE FilesInv'
<1>1. At(s, "spool") /\ LoopFree /\ UNCHANGED props
  BY DEF UploadRead
<1>2. CASE End(s) /\ UNCHANGED <<jars, hist>>
  BY <1>1, <1>2, EndInv
<1>3. CASE /\ mods' = [mods EXCEPT !["enabled"] = "part"]
           /\ target' = "enabled" /\ loop' = s /\ Goto(s, "stream")
           /\ hist' = [hist EXCEPT !.jar =
                 IF mods["disabled"] # "absent" THEN "disturbed" ELSE @]
  <2> DEFINE x == [sess[s] EXCEPT !.pc = "stream"]
  <2>1. /\ x \in SessionStates /\ x.pc = "stream" /\ sess' = [sess EXCEPT ![s] = x]
        /\ x.posted = sess[s].posted /\ x.new = sess[s].new
    BY <1>3, SessionOf DEF SessionStates
  <2> HIDE DEF x
  <2>2. sess'[s] = x /\ \A o \in Sessions \ {s} : sess'[o] = sess[o]
    BY <2>1 DEF FilesInv, TypeOK
  <2>3. /\ hist' \in Histories /\ hist'.saved = hist.saved /\ hist'.apart = hist.apart
        /\ hist'.jar = IF mods["disabled"] # "absent" THEN "disturbed" ELSE hist.jar
    BY <1>3, DataTyped DEF DataOK, Histories
  <2>4. /\ mods \in [Slots -> {"absent", "part", "whole"}]
        /\ mods' \in [Slots -> {"absent", "part", "whole"}]
        /\ mods'["enabled"] = "part" /\ mods'["disabled"] = mods["disabled"]
    BY <1>3, DataTyped DEF DataOK, Slots
  <2>5. DataOK'
    BY <1>1, <1>3, <2>3, <2>4, DataTyped DEF DataOK, Slots
  <2>6. JarInv'
    <3>1. "enabled" \in Slots /\ "enabled" # Nobody /\ Other("enabled") = "disabled"
      BY DEF Slots, Nobody, Other
    <3>2. \E o \in Sessions : sess'[o].pc = "stream"
      BY <2>1, <2>2
    <3>3. mods["disabled"] = "absent" => /\ mods'[target'] = "part"
                                         /\ mods'[Other(target')] = "absent"
                                         /\ target' = "enabled"
      BY <1>3, <2>4, <3>1
    <3> QED
      BY <1>3, <2>3, <3>1, <3>2, <3>3 DEF JarInv
  <2>7. PropsInv'
    <3>1. Damage'
      BY <1>1, <2>2, <2>3, OneHolds DEF FilesInv, PropsInv, Damage, Holding
    <3>2. Agreement'
      BY <1>1, <2>2, <2>3, OneHolds DEF FilesInv, PropsInv, Agreement, ValueIn, Holding, Posted
    <3>3. SaveKnows(sess[s])'
      BY <2>1, <2>2 DEF SaveKnows
    <3> QED
      BY <1>1, <2>2, <3>1, <3>2, <3>3, SaveKept
  <2> QED
    BY <1>1, <1>3, <2>1, <2>5, <2>6, <2>7, StepInv DEF LoopFree, Holding
<1> QED
  BY <1>1, <1>2, <1>3 DEF UploadRead

LEMMA UploadStoredInv ==
    ASSUME FilesInv, NEW s \in Sessions, UploadStored(s) PROVE FilesInv'
<1>1. /\ At(s, "stream") /\ target' = Nobody /\ UNCHANGED props
      /\ sess' = [sess EXCEPT ![s] = Idle] /\ loop' = IF loop = s THEN Nobody ELSE loop
  BY DEF UploadStored, End
<1>2. sess'[s] = Idle /\ \A o \in Sessions \ {s} : sess'[o] = sess[o]
  BY <1>1 DEF FilesInv, TypeOK
<1>3. \A o \in Sessions : sess'[o].pc \notin Holding
  BY <1>1, <1>2, OneHolds, IdleTyped DEF Holding
<1>4. target # Nobody
  BY <1>1 DEF FilesInv, JarInv
<1>5. /\ hist' \in Histories /\ hist'.saved = hist.saved /\ hist'.apart = hist.apart
      /\ mods' \in [Slots -> {"absent", "part", "whole"}]
  BY DataTyped DEF UploadStored, DataOK, Histories
<1>6. DataOK'
  BY <1>1, <1>5, DataTyped DEF DataOK
<1>7. PropsInv'
  <2>1. Damage' /\ Agreement'
    BY <1>1, <1>2, <1>5, OneHolds
    DEF FilesInv, PropsInv, Damage, Agreement, ValueIn, Posted, Holding
  <2>2. SaveKnows(sess[s])'
    BY <1>2, IdleTyped DEF SaveKnows, Holding
  <2> QED
    BY <1>1, <1>2, <2>1, <2>2, SaveKept DEF Holding
<1>8. JarInv'
  <2>1. CASE /\ mods' = [n \in Slots |-> IF n = target THEN "whole" ELSE mods[n]]
             /\ hist' = [hist EXCEPT !.jar = IF @ = "none" THEN "stored" ELSE @]
    <3>1. hist'.jar = "stored" => hist.jar \in {"none", "stored"}
      BY <2>1, DataTyped DEF DataOK, Histories
    <3>2. hist'.jar # "none"
      BY <2>1, DataTyped DEF DataOK, Histories
    <3>3. hist.jar \in {"none", "stored"} =>
              target \in Slots /\ mods[Other(target)] = "absent"
      BY <1>4 DEF FilesInv, JarInv
    <3>4. target \in Slots => Other(target) \in Slots \ {target}
      BY DEF Slots, Other
    <3> QED
      BY <1>1, <1>3, <2>1, <3>1, <3>2, <3>3, <3>4 DEF JarInv, Holding
  <2>2. CASE hist' = [hist EXCEPT !.jar = "disturbed"]
    BY <1>1, <1>3, <2>2, DataTyped DEF JarInv, DataOK, Histories, Holding
  <2> QED
    BY <2>1, <2>2 DEF UploadStored
<1> QED
  BY <1>1, <1>6, <1>7, <1>8, IdleTyped, StepInv DEF Holding

(* A rename moves the only jar, and the upload that writes it with it.     *)
LEMMA RenameKeeps ==
    ASSUME FilesInv, NEW a \in Slots, mods[a] # "absent", Renamed(a, Other(a)),
           hist' = hist, \A o \in Sessions : sess'[o].pc = "stream" <=> sess[o].pc = "stream"
    PROVE  JarInv' /\ mods' \in [Slots -> {"absent", "part", "whole"}]
           /\ target' \in Slots \cup {"gone", Nobody}
<1> DEFINE b == Other(a)
<1>1. /\ b \in Slots \ {a} /\ Other(b) = a /\ \A n \in Slots : n \in {a, b}
  BY DEF Slots, Other
<1>2. Nobody \notin Slots \cup {"gone"}
  BY DEF Slots, Nobody
<1>3. mods \in [Slots -> {"absent", "part", "whole"}] /\ target \in Slots \cup {"gone", Nobody}
  BY DataTyped DEF DataOK
<1>4. /\ mods' \in [Slots -> {"absent", "part", "whole"}]
      /\ mods'[a] = "absent" /\ mods'[b] = mods[a]
  BY <1>1, <1>3 DEF Renamed
<1>5. target' = CASE target = a -> b [] target = b -> "gone" [] OTHER -> target
  BY DEF Renamed
<1>6. target' \in Slots \cup {"gone", Nobody} /\ (target' = Nobody <=> target = Nobody)
      /\ (target = a => target' = b)
  BY <1>1, <1>2, <1>3, <1>5
<1> HIDE DEF b
<1>7. /\ \A s \in Sessions : sess'[s].pc = "stream" => target' # Nobody
      /\ target' # Nobody => \E s \in Sessions : sess'[s].pc = "stream"
  BY <1>6 DEF FilesInv, JarInv
<1>8. hist.jar = "none" => target' \in Slots /\ mods'[target'] = "part"
                           /\ mods'[Other(target')] = "absent"
  BY <1>1, <1>4, <1>6 DEF FilesInv, JarInv
<1>9. hist.jar = "stored" => /\ mods'[Other(b)] = "absent"
                             /\ \/ target' = Nobody /\ mods'[b] = "whole"
                                \/ target' = b /\ mods'[b] = "part"
  BY <1>1, <1>4, <1>6 DEF FilesInv, JarInv
<1> QED
  BY <1>1, <1>4, <1>6, <1>7, <1>8, <1>9 DEF JarInv

LEMMA ToggleRenameInv ==
    ASSUME FilesInv, NEW s \in Sessions, ToggleRename(s) PROVE FilesInv'
<1>1. /\ sess[s].pc \in {"disable", "enable"} /\ UNCHANGED <<props, hist>>
      /\ sess' = [sess EXCEPT ![s] = Idle] /\ loop' = IF loop = s THEN Nobody ELSE loop
  BY DEF ToggleRename, End
<1>2. sess'[s] = Idle /\ \A o \in Sessions \ {s} : sess'[o] = sess[o]
  BY <1>1 DEF FilesInv, TypeOK
<1>3. \A o \in Sessions : sess'[o].pc = "stream" <=> sess[o].pc = "stream"
  BY <1>1, <1>2, IdleTyped
<1>4. PropsInv'
  BY <1>1, <1>2, IdleTyped, PropsKept DEF Holding
<1>5. UNCHANGED jars \/ \E a \in Slots : mods[a] # "absent" /\ Renamed(a, Other(a))
  BY <1>1 DEF ToggleRename, Slots, Other
<1>6. JarInv' /\ DataOK'
  <2>1. CASE UNCHANGED jars
    BY <1>1, <1>3, <2>1, JarKept, DataTyped DEF DataOK
  <2>2. ASSUME NEW a \in Slots, mods[a] # "absent", Renamed(a, Other(a)) PROVE JarInv' /\ DataOK'
    BY <1>1, <1>3, <2>2, RenameKeeps, DataTyped DEF DataOK
  <2> QED
    BY <1>5, <2>1, <2>2
<1> QED
  BY <1>1, <1>4, <1>6, IdleTyped, StepInv DEF Holding

----------------------------------------------------------------------------
(* Saves begin                                                             *)

LEMMA PropertiesSaveInv ==
    ASSUME FilesInv, NEW s \in Sessions, PropertiesSave(s) PROVE FilesInv'
<1>1. /\ At(s, "idle") /\ LoopFree /\ page \in Contents /\ file \in Contents
      /\ page' = NoFile /\ loop' = s /\ UNCHANGED <<file, bak, mirror, jars, hist>>
  BY DataTyped DEF PropertiesSave, Idles, DataOK
<1>2. PICK form \in Forms :
          sess' = [sess EXCEPT ![s] =
                      [@ EXCEPT !.pc = "save", !.new = FormOver(form)]]
  BY DEF PropertiesSave
<1>3. form \in Contents
  <2>1. CASE form = page
    BY <1>1, <2>1
  <2>2. ASSUME NEW k \in Edits, NEW v \in Values[k], form = [page EXCEPT ![k] = v]
        PROVE  form \in Contents
    BY <1>1, <2>2 DEF Contents
  <2> QED
    BY <1>2, <2>1, <2>2 DEF Forms
<1> DEFINE new == FormOver(form)
<1>4. new \in Contents /\ \A k \in Keys : file[k] # None => new[k] # None
  BY <1>1, <1>3 DEF FormOver, Contents
<1> HIDE DEF new
<1> DEFINE x == [Idle EXCEPT !.pc = "save", !.new = new]
<1>5. /\ x \in SessionStates /\ x.pc = "save" /\ x.posted = NoValues /\ x.new = new
      /\ sess' = [sess EXCEPT ![s] = x]
  BY <1>1, <1>2, <1>4, IdleTyped, SessionOf DEF SessionStates, new
<1> HIDE DEF x
<1>6. sess'[s] = x /\ \A o \in Sessions \ {s} : sess'[o] = sess[o]
  BY <1>5 DEF FilesInv, TypeOK
<1>7. DataOK'
  BY <1>1, DataTyped DEF DataOK
<1>8. JarInv'
  BY <1>1, <1>5, <1>6, JarKept
<1>9. PropsInv'
  <2>1. Damage' /\ Agreement'
    BY <1>1, <1>5, <1>6
    DEF FilesInv, PropsInv, Damage, Agreement, ValueIn, Posted
  <2>2. SaveKnows(sess[s])'
    BY <1>1, <1>4, <1>5, <1>6, Distinct DEF SaveKnows, Keeps, ValueIn
  <2> QED
    BY <1>1, <1>6, <2>1, <2>2, SaveKept
<1> QED
  BY <1>1, <1>5, <1>7, <1>8, <1>9, StepInv DEF LoopFree, Holding

LEMMA RconSettingsInv ==
    ASSUME FilesInv, NEW s \in Sessions, RconSettings(s) PROVE FilesInv'
<1>1. /\ At(s, "form") /\ LoopFree /\ loop' = s /\ UNCHANGED <<props, jars, hist>>
      /\ file \in Contents \cup {NoFile}
  BY DataTyped DEF RconSettings, DataOK
<1>2. PICK port \in Values["port"], password \in Values["password"] \cup {None} :
          LET posted == [port |-> port, password |-> password] IN
          sess' = [sess EXCEPT ![s] =
                      [@ EXCEPT !.pc = "save", !.new = Merged(posted),
                                !.posted = posted]]
  BY DEF RconSettings, Ports
<1> DEFINE posted == [port |-> port, password |-> password]
           new == Merged(posted)
<1>3. /\ \A k \in RconKeys : posted[k] \in Values[k] \cup {None}
      /\ posted["port"] # None /\ "port" \in RconKeys /\ RconKeys \subseteq Keys
  BY DEF RconKeys, Keys
<1>4. posted \in RconValues /\ posted # NoValues
  <2>1. posted = [k \in RconKeys |-> IF k = "port" THEN port ELSE password]
    BY DEF RconKeys
  <2>2. \A k \in RconKeys : (IF k = "port" THEN port ELSE password)
                               \in (UNION {Values[l] : l \in RconKeys}) \cup {None}
    BY DEF RconKeys
  <2>3. NoValues["port"] = None
    BY <1>3 DEF NoValues
  <2> QED
    BY <1>3, <2>1, <2>2, <2>3 DEF RconValues
<1> HIDE DEF posted
<1>5. \A k \in Keys : InFile(k) \in Values[k] \cup {None} /\ InFile(k) = ValueIn(file, k)
  BY <1>1, Distinct DEF InFile, ValueIn
<1>6. /\ new \in Contents
      /\ \A k \in Keys : new[k] = IF k \in RconKeys /\ posted[k] # None THEN posted[k]
                                     ELSE InFile(k)
  BY <1>3, <1>5 DEF Merged, Contents
<1> HIDE DEF new
<1> DEFINE x == [sess[s] EXCEPT !.pc = "save", !.new = new, !.posted = posted]
<1>7. /\ x \in SessionStates /\ x.pc = "save" /\ x.posted = posted /\ x.new = new
      /\ sess' = [sess EXCEPT ![s] = x]
  <2>1. sess' = [sess EXCEPT ![s] =
                    [@ EXCEPT !.pc = "save", !.new = new, !.posted = posted]]
    BY <1>2 DEF new, posted
  <2>2. sess \in [Sessions -> SessionStates]
    BY DEF FilesInv, TypeOK
  <2>3. sess' = [sess EXCEPT ![s] = x]
    BY <2>1, <2>2
  <2> QED
    BY <1>4, <1>6, <2>3, SessionOf DEF SessionStates
<1> HIDE DEF x
<1>8. sess'[s] = x /\ \A o \in Sessions \ {s} : sess'[o] = sess[o]
  BY <1>7 DEF FilesInv, TypeOK
<1>9. DataOK' /\ JarInv'
  BY <1>1, <1>7, <1>8, DataTyped, JarKept DEF DataOK
<1>10. PropsInv'
  <2>1. Damage' /\ Agreement'
    BY <1>1, <1>7, <1>8
    DEF FilesInv, PropsInv, Damage, Agreement, ValueIn, Posted
  <2>2. Keeps(x, file)
    BY <1>3, <1>4, <1>5, <1>6, <1>7 DEF Keeps
  <2>3. SaveKnows(sess[s])'
    BY <1>1, <1>3, <1>4, <1>6, <1>7, <1>8, <2>2 DEF SaveKnows, Keeps, ValueIn
  <2> QED
    BY <1>1, <1>8, <2>1, <2>3, SaveKept
<1> QED
  BY <1>1, <1>7, <1>9, <1>10, StepInv DEF LoopFree, Holding

----------------------------------------------------------------------------
(* write_properties                                                        *)

(* A step of a save from one label to another.                             *)
LEMMA SaveStep ==
    ASSUME FilesInv, NEW s \in Sessions,
           NEW label \in {"copy", "open", "write", "commit"}, Goto(s, label),
           sess[s].pc \in Holding \ {"stream"}, UNCHANGED <<mirror, page, jars, loop>>,
           file' \in Contents \cup {NoFile}, bak' \in Contents \cup {NoFile},
           hist' \in Histories, hist'.jar = hist.jar,
           Damage', Agreement', SaveKnows(sess[s])'
    PROVE  FilesInv'
<1> DEFINE x == [sess[s] EXCEPT !.pc = label]
<1>1. x \in SessionStates /\ x.pc = label /\ sess' = [sess EXCEPT ![s] = x]
  BY SessionOf DEF SessionStates
<1>2. sess'[s] = x /\ \A o \in Sessions \ {s} : sess'[o] = sess[o]
  BY <1>1 DEF FilesInv, TypeOK
<1> HIDE DEF x
<1>3. DataOK' /\ JarInv'
  BY <1>1, <1>2, DataTyped, JarKept DEF DataOK
<1>4. PropsInv'
  BY <1>2, SaveKept
<1>5. loop = s
  BY SessionOf
<1> QED
  BY <1>1, <1>3, <1>4, <1>5, StepInv DEF Holding

(* The same, for the last step.                                            *)
LEMMA SaveEnd ==
    ASSUME FilesInv, NEW s \in Sessions, End(s), sess[s].pc \in Holding \ {"stream"},
           UNCHANGED <<bak, page, jars>>, mirror' \in RconValues,
           file' \in Contents \cup {NoFile}, hist' \in Histories, hist'.jar = hist.jar,
           Damage', Agreement'
    PROVE  FilesInv'
<1>1. sess' = [sess EXCEPT ![s] = Idle] /\ loop' = IF loop = s THEN Nobody ELSE loop
  BY DEF End
<1>2. sess'[s] = Idle /\ \A o \in Sessions \ {s} : sess'[o] = sess[o]
  BY <1>1 DEF FilesInv, TypeOK
<1>3. SaveKnows(sess[s])'
  BY <1>2, IdleTyped DEF SaveKnows, Holding
<1>4. DataOK' /\ JarInv'
  BY <1>2, IdleTyped, DataTyped, JarKept DEF DataOK
<1>5. PropsInv'
  BY <1>2, <1>3, SaveKept
<1> QED
  BY <1>1, <1>4, <1>5, IdleTyped, StepInv DEF Holding

LEMMA AfterStep ==
    ASSUME FilesInv, NEW s \in Sessions, sess[s].pc \in Holding, NEW label, Goto(s, label)
    PROVE  /\ sess'[s] = [sess[s] EXCEPT !.pc = label] /\ sess'[s].pc = label
           /\ sess'[s].new = sess[s].new /\ sess'[s].posted = sess[s].posted
           /\ \A o \in Sessions \ {s} : sess'[o].pc \notin Holding /\ sess[o].pc \notin Holding
BY OneHolds, SessionOf DEF FilesInv, TypeOK, SessionStates

LEMMA WriteBeginInv ==
    ASSUME FilesInv, NEW s \in Sessions, WriteBegin(s) PROVE FilesInv'
<1> DEFINE label == IF file = NoFile THEN "open" ELSE "copy"
           x == sess[s]
<1>1. /\ At(s, "save") /\ Goto(s, label) /\ UNCHANGED <<file, mirror, page, jars, loop>>
      /\ bak' = IF file = NoFile THEN bak ELSE Empty
      /\ label \in {"open", "copy"}
  BY DEF WriteBegin
<1>2. /\ hist' \in Histories /\ hist'.jar = hist.jar /\ hist'.apart = hist.apart
      /\ hist'.saved = IF hist.saved = file THEN hist.saved ELSE Spoiled
  BY DataTyped DEF WriteBegin, DataOK, Histories
<1>3. file \in Contents \cup {NoFile} /\ bak \in Contents \cup {NoFile}
  BY DataTyped DEF DataOK
<1>4. Damage /\ Agreement /\ Keeps(x, file) /\ SaveKnows(x)
  BY <1>1, SessionOf DEF FilesInv, PropsInv, SaveKnows
<1>5. \A o \in Sessions : sess[o].pc \notin {"write", "commit"}
  BY <1>1, OneHolds DEF Holding
<1>6. hist'.saved = Spoiled => hist.apart = RconKeys
  BY <1>2, <1>4, <1>5 DEF Damage
<1>7. Damage'
  BY <1>1, <1>2, <1>3, <1>4, <1>5, <1>6, Distinct DEF Damage
<1>8. Agreement'
  BY <1>1, <1>2, <1>4, <1>5, <1>6 DEF Agreement, ValueIn
<1>9. SaveKnows(sess[s])'
  <2>1. sess'[s].pc = label /\ sess'[s].new = x.new /\ sess'[s].posted = x.posted
    BY <1>1, AfterStep DEF Holding
  <2>2. hist'.saved \in {file, Spoiled} /\ (file = NoFile => bak' = file)
    BY <1>1, <1>2, <1>4 DEF Damage
  <2> HIDE DEF x
  <2>3. hist'.saved = file => Keeps(sess[s], hist.saved)'
    BY <1>1, <1>4, <2>1 DEF Keeps, ValueIn
  <2>4. label = IF file = NoFile THEN "open" ELSE "copy"
    OBVIOUS
  <2> HIDE DEF label
  <2>5. x.posted # NoValues => /\ x.posted["port"] # None
                              /\ \A k \in RconKeys : x.posted[k] # None => x.new[k] = x.posted[k]
    BY <1>1, <1>4 DEF SaveKnows, Holding, x
  <2> QED
    BY <1>1, <2>1, <2>2, <2>3, <2>4, <2>5 DEF SaveKnows, Holding
<1> QED
  BY <1>1, <1>2, <1>3, <1>7, <1>8, <1>9, SaveStep, Distinct DEF Holding

LEMMA WriteBackupInv ==
    ASSUME FilesInv, NEW s \in Sessions, WriteBackup(s) PROVE FilesInv'
<1>1. /\ At(s, "copy") /\ Goto(s, "open") /\ bak' = file
      /\ UNCHANGED <<file, mirror, page, jars, loop, hist>>
  BY DEF WriteBackup
<1>2. Damage /\ Agreement /\ SaveKnows(sess[s])
  BY SessionOf DEF FilesInv, PropsInv
<1>3. \A o \in Sessions : sess[o].pc \notin {"write", "commit"}
  BY <1>1, OneHolds DEF Holding
<1>4. Damage'
  BY <1>1, <1>2, <1>3 DEF Damage, SaveKnows
<1>5. Agreement'
  BY <1>1, <1>2, <1>3 DEF Agreement, ValueIn
<1>6. SaveKnows(sess[s])'
  <2>1. sess'[s].pc = "open" /\ sess'[s].new = sess[s].new /\ sess'[s].posted = sess[s].posted
    BY <1>1, AfterStep DEF Holding
  <2> QED
    BY <1>1, <1>2, <2>1 DEF SaveKnows, Holding, Keeps, ValueIn
<1> QED
  BY <1>1, <1>4, <1>5, <1>6, DataTyped, SaveStep DEF DataOK, Holding

LEMMA WriteOpenInv ==
    ASSUME FilesInv, NEW s \in Sessions, WriteOpen(s) PROVE FilesInv'
<1>1. /\ At(s, "open") /\ Goto(s, "write") /\ file' = Empty
      /\ UNCHANGED <<bak, mirror, page, jars, loop, hist>>
  BY DEF WriteOpen
<1>2. Damage /\ Agreement /\ SaveKnows(sess[s])
  BY SessionOf DEF FilesInv, PropsInv
<1>3. \A o \in Sessions : sess[o].pc # "commit"
  BY <1>1, OneHolds DEF Holding
<1>4. sess'[s].pc = "write" /\ sess'[s].new = sess[s].new /\ sess'[s].posted = sess[s].posted
  BY <1>1, AfterStep DEF Holding
<1>5. Damage'
  BY <1>1, <1>2, <1>4, Distinct DEF Damage, SaveKnows
<1>6. Agreement'
  BY <1>1, <1>2, <1>3 DEF Agreement, ValueIn
<1>7. SaveKnows(sess[s])'
  BY <1>1, <1>2, <1>4 DEF SaveKnows, Holding, Keeps, ValueIn
<1> QED
  BY <1>1, <1>5, <1>6, <1>7, Distinct, DataTyped, SaveStep DEF DataOK, Holding

LEMMA WriteValuesInv ==
    ASSUME FilesInv, NEW s \in Sessions, WriteValues(s) PROVE FilesInv'
<1> DEFINE x == sess[s]
           written == IF IsRconSave(s) \/ hist.saved = Spoiled THEN hist.apart
                      ELSE hist.apart \cup {k \in RconKeys : hist.saved[k] # x.new[k]}
<1>1. /\ At(s, "write") /\ file' = x.new /\ UNCHANGED <<bak, mirror, page, jars>>
      /\ IF IsRconSave(s) THEN Goto(s, "commit") /\ UNCHANGED loop ELSE End(s)
  BY DEF WriteValues
<1>2. /\ hist' \in Histories /\ hist'.jar = hist.jar /\ hist'.saved = x.new
      /\ hist'.apart = written
  BY DataTyped, SessionOf DEF WriteValues, DataOK, Histories
<1>3. Damage /\ Agreement /\ SaveKnows(x) /\ x.new \in Contents /\ "port" \in RconKeys
  BY SessionOf DEF FilesInv, PropsInv, RconKeys
<1>4. hist.saved = Spoiled \/ Keeps(x, hist.saved)
  BY <1>1, <1>3 DEF SaveKnows
<1>5. \A o \in Sessions : sess[o].pc # "commit"
  BY <1>1, OneHolds DEF Holding
<1>6. IsRconSave(s) => /\ x.posted["port"] # None
                       /\ \A k \in RconKeys : x.posted[k] # None => x.new[k] = x.posted[k]
  BY <1>1, <1>3 DEF IsRconSave, SaveKnows, Holding
<1>7. hist.saved = Spoiled => hist.apart = RconKeys
  BY <1>3 DEF Damage
<1>8. x.new = Empty => written = RconKeys
  <2>1. SUFFICES ASSUME x.new = Empty PROVE written = RconKeys
    OBVIOUS
  <2>2. \A k \in Keys : x.new[k] = None
    BY <2>1 DEF Empty
  <2>3. ~IsRconSave(s)
    BY <1>3, <1>6, <2>2 DEF Keys
  <2>4. hist.saved # Spoiled => hist.saved = Empty
    <3>1. SUFFICES ASSUME hist.saved # Spoiled PROVE hist.saved = Empty
      OBVIOUS
    <3>2. hist.saved \in Contents
      BY <1>4, <2>3, <3>1, DataTyped DEF Keeps, IsRconSave
    <3>3. \A k \in Keys : hist.saved[k] = None
      BY <1>4, <2>2, <3>1, <3>2, Distinct DEF Keeps, ValueIn
    <3> QED
      BY <3>2, <3>3, Distinct DEF Empty
  <2>5. hist.apart = RconKeys
    BY <1>3, <2>4 DEF Damage
  <2> QED
    BY <2>3, <2>5
<1>9. ASSUME NEW k \in RconKeys \ written
      PROVE  ValueIn(x.new, k) = mirror[k] \/ (IsRconSave(s) /\ k \in Posted(s))
  <2>1. hist.saved # Spoiled /\ Keeps(x, hist.saved) /\ k \in RconKeys \ hist.apart
    BY <1>4, <1>7
  <2>2. ValueIn(hist.saved, k) = mirror[k] /\ ValueIn(x.new, k) = x.new[k]
    BY <1>3, <1>5, <2>1, Distinct DEF Agreement, ValueIn
  <2>3. CASE IsRconSave(s)
    BY <2>1, <2>2, <2>3 DEF Keeps, IsRconSave, Posted, Keys
  <2>4. CASE ~IsRconSave(s)
    <3>1. hist.saved # NoFile /\ hist.saved[k] = x.new[k]
      BY <2>1, <2>4 DEF Keeps, IsRconSave
    <3> QED
      BY <2>2, <3>1 DEF ValueIn
  <2> QED
    BY <2>3, <2>4
<1>10. Damage'
  BY <1>1, <1>2, <1>3, <1>8, Distinct DEF Damage
<1>11. CASE IsRconSave(s)
  <2>1. Goto(s, "commit") /\ UNCHANGED loop
    BY <1>1, <1>11
  <2>2. sess'[s].pc = "commit" /\ sess'[s].new = x.new /\ sess'[s].posted = x.posted
    BY <1>1, <2>1, AfterStep DEF Holding
  <2> HIDE DEF x, written
  <2>3. Agreement'
    BY <1>1, <1>2, <1>9, <2>2 DEF Agreement, ValueIn, Posted, x
  <2>4. SaveKnows(sess[s])'
    BY <1>6, <1>11, <2>2 DEF SaveKnows, IsRconSave, Holding, x
  <2> QED
    BY <1>1, <1>2, <1>3, <1>10, <2>1, <2>3, <2>4, DataTyped, SaveStep DEF DataOK, Holding
<1>12. CASE ~IsRconSave(s)
  <2>1. End(s)
    BY <1>1, <1>12
  <2> HIDE DEF x, written
  <2>2. Agreement'
    BY <1>1, <1>2, <1>9, <1>12 DEF Agreement, ValueIn
  <2> QED
    BY <1>1, <1>2, <1>3, <1>10, <2>1, <2>2, DataTyped, SaveEnd DEF DataOK, Holding
<1> QED
  BY <1>11, <1>12

LEMMA WriteFailsInv ==
    ASSUME FilesInv, NEW s \in Sessions, WriteFails(s) PROVE FilesInv'
<1>1. /\ sess[s].pc \in {"save", "copy", "open", "write"} /\ UNCHANGED <<props, jars>>
      /\ IF IsRconSave(s) THEN Goto(s, "commit") /\ UNCHANGED loop ELSE End(s)
  BY DEF WriteFails
<1>2. /\ hist' \in Histories /\ hist'.jar = hist.jar /\ hist'.saved = hist.saved
      /\ hist'.apart = IF At(s, "write") THEN RconKeys ELSE hist.apart
  BY DataTyped DEF WriteFails, DataOK, Histories
<1>3. Damage /\ Agreement /\ SaveKnows(sess[s])
  BY SessionOf DEF FilesInv, PropsInv
<1>4. \A o \in Sessions : sess[o].pc # "commit" /\ (sess[o].pc = "write" => o = s)
  BY <1>1, OneHolds DEF Holding
<1>5. Damage'
  BY <1>1, <1>2, <1>3, <1>4 DEF Damage
<1>6. Agreement'
  BY <1>1, <1>2, <1>3, <1>4 DEF Agreement, ValueIn
<1>7. CASE IsRconSave(s)
  <2>1. Goto(s, "commit") /\ UNCHANGED loop
    BY <1>1, <1>7
  <2>2. sess'[s].pc = "commit" /\ sess'[s].new = sess[s].new /\ sess'[s].posted = sess[s].posted
    BY <1>1, <2>1, AfterStep DEF Holding
  <2>3. SaveKnows(sess[s])'
    BY <1>1, <1>3, <1>7, <2>2 DEF SaveKnows, IsRconSave, Holding
  <2> QED
    BY <1>1, <1>2, <1>5, <1>6, <2>1, <2>3, DataTyped, SaveStep DEF DataOK, Holding
<1>8. CASE ~IsRconSave(s)
  BY <1>1, <1>2, <1>5, <1>6, <1>8, DataTyped, SaveEnd DEF DataOK, Holding
<1> QED
  BY <1>7, <1>8

LEMMA RconCommitInv ==
    ASSUME FilesInv, NEW s \in Sessions, RconCommit(s) PROVE FilesInv'
<1> DEFINE x == sess[s]
<1>1. At(s, "commit") /\ End(s) /\ UNCHANGED <<file, bak, page, jars>>
  BY DEF RconCommit
<1>2. \/ mirror' = MirrorPosted(s) /\ file = x.new /\ mirror = x.row
         /\ hist' = [hist EXCEPT !.apart = @ \ Posted(s)]
      \/ hist' = Apart(s) /\ mirror' \in {mirror, MirrorPosted(s)}
  BY DEF RconCommit
<1>3. Damage /\ Agreement /\ SaveKnows(x) /\ x.new \in Contents
  BY SessionOf DEF FilesInv, PropsInv
<1>4. \A o \in Sessions : sess[o].pc # "write" /\ (sess[o].pc = "commit" => o = s)
  BY <1>1, OneHolds DEF Holding
<1>5. Posted(s) \subseteq RconKeys /\ \A k \in RconKeys : k \in Posted(s) <=> x.posted[k] # None
  BY DEF Posted
<1>6. /\ hist' \in Histories /\ hist'.jar = hist.jar /\ hist'.saved = hist.saved
      /\ hist'.apart \in {hist.apart \ Posted(s), hist.apart \cup Posted(s)}
  BY <1>2, <1>5, DataTyped DEF Apart, DataOK, Histories
<1>7. mirror \in RconValues /\ x.posted \in RconValues
  BY DataTyped, SessionOf DEF DataOK
<1>8. mirror' \in RconValues
  BY <1>2, <1>7 DEF MirrorPosted, RconValues
<1>9. \A k \in RconKeys :
         MirrorPosted(s)[k] = IF k \in Posted(s) /\ x.posted[k] # x.row[k]
                              THEN x.posted[k] ELSE mirror[k]
  BY DEF MirrorPosted
<1>10. \A k \in Posted(s) : x.new[k] = x.posted[k] /\ x.posted[k] # None
  BY <1>1, <1>3, <1>5 DEF SaveKnows, Holding, RconKeys, NoValues
<1>11. x.new # Empty
  <2>1. "port" \in Posted(s) /\ "port" \in Keys
    BY <1>1, <1>3, <1>5 DEF SaveKnows, Holding, RconKeys, Keys
  <2> QED
    BY <1>10, <2>1 DEF Empty
<1> HIDE DEF x
<1>12. CASE /\ mirror' = MirrorPosted(s) /\ file = x.new /\ mirror = x.row
            /\ hist' = [hist EXCEPT !.apart = @ \ Posted(s)]
  <2>1. hist'.apart = hist.apart \ Posted(s)
    BY <1>12, DataTyped DEF DataOK, Histories
  <2>2. hist.saved = x.new
    BY <1>3, <1>11, <1>12 DEF Damage
  <2>3. Damage'
    BY <1>1, <1>3, <1>6, <1>11, <1>12, <2>2, Distinct DEF Damage
  <2>4. Agreement'
    <3>1. ASSUME NEW k \in RconKeys \ hist'.apart PROVE ValueIn(hist'.saved, k) = mirror'[k]
      <4>1. ValueIn(hist'.saved, k) = x.new[k] /\ ValueIn(hist.saved, k) = x.new[k]
        BY <1>3, <1>6, <2>2, Distinct DEF ValueIn
      <4>2. CASE k \in Posted(s)
        BY <1>9, <1>10, <1>12, <4>1, <4>2
      <4>3. CASE k \notin Posted(s)
        <5>1. k \in RconKeys \ hist.apart
          BY <2>1, <3>1, <4>3
        <5>2. ValueIn(hist.saved, k) = mirror[k]
          BY <1>3, <1>4, <4>3, <5>1 DEF Agreement
        <5> QED
          BY <1>9, <1>12, <4>1, <4>3, <5>2
      <4> QED
        BY <4>2, <4>3
    <3> QED
      BY <3>1 DEF Agreement, ValueIn
  <2> QED
    BY <1>1, <1>6, <1>8, <2>3, <2>4, DataTyped, SaveEnd DEF DataOK, Holding
<1>13. CASE hist' = Apart(s) /\ mirror' \in {mirror, MirrorPosted(s)}
  <2>1. hist'.apart = hist.apart \cup Posted(s)
    BY <1>13, DataTyped DEF DataOK, Histories, Apart
  <2>2. Damage'
    BY <1>1, <1>3, <1>4, <1>5, <1>6, <2>1 DEF Damage
  <2>3. Agreement'
    BY <1>3, <1>4, <1>6, <1>9, <1>13, <2>1 DEF Agreement, ValueIn
  <2> QED
    BY <1>1, <1>6, <1>8, <2>2, <2>3, DataTyped, SaveEnd DEF DataOK, Holding
<1> QED
  BY <1>2, <1>12, <1>13

----------------------------------------------------------------------------
(* Every step                                                              *)

LEMMA CrashInv == ASSUME FilesInv, Crash PROVE FilesInv'
<1> DEFINE lost(s) == IF At(s, "write") THEN RconKeys
                      ELSE IF At(s, "commit") THEN Posted(s) ELSE {}
<1>1. /\ sess' = [s \in Sessions |-> Idle] /\ target' = Nobody /\ loop' = Nobody
      /\ UNCHANGED <<props, mods>>
      /\ hist' = [hist EXCEPT !.apart = @ \cup UNION {lost(s) : s \in Sessions},
                              !.jar = IF target # Nobody THEN "disturbed" ELSE @]
  BY DEF Crash
<1>2. \A s \in Sessions : lost(s) \subseteq RconKeys
  BY DEF Posted
<1> DEFINE all == UNION {lost(s) : s \in Sessions}
<1>3. all \subseteq RconKeys /\ \A s \in Sessions : lost(s) \subseteq all
  BY <1>2
<1>4. \A s \in Sessions : (At(s, "write") => RconKeys \subseteq all)
                           /\ (At(s, "commit") => Posted(s) \subseteq all)
  BY <1>3
<1> HIDE DEF all
<1>5. /\ hist' \in Histories /\ hist'.saved = hist.saved /\ hist'.apart = hist.apart \cup all
      /\ hist'.jar = IF target # Nobody THEN "disturbed" ELSE hist.jar
  BY <1>1, <1>3, DataTyped DEF DataOK, Histories, all
<1>6. Damage /\ Agreement /\ hist.apart \subseteq RconKeys
  BY DataTyped DEF FilesInv, PropsInv
<1>7. Damage'
  BY <1>1, <1>3, <1>4, <1>5, <1>6 DEF Damage
<1>8. Agreement'
  BY <1>1, <1>4, <1>5, <1>6 DEF Agreement, ValueIn
<1>9. \A s \in Sessions : SaveKnows(sess[s])'
  BY <1>1, IdleTyped DEF SaveKnows, Holding
<1>10. JarInv'
  BY <1>1, <1>5, IdleTyped DEF FilesInv, JarInv
<1>11. TypeOK' /\ LoopInv'
  BY <1>1, <1>5, IdleTyped, DataTyped DEF TypeOK, LoopInv, DataOK, Holding, Nobody
<1> QED
  BY <1>7, <1>8, <1>9, <1>10, <1>11 DEF FilesInv, PropsInv

LEMMA NextInv == ASSUME FilesInv, [Next]_vars PROVE FilesInv'
<1>1. CASE Crash
  BY <1>1, CrashInv
<1>2. CASE PropertiesForm
  BY <1>2, PropertiesFormInv
<1>3. ASSUME NEW s \in Sessions, PropertiesSave(s) \/ RconArrive(s) \/ RconSettings(s)
                                 \/ RconCommit(s)
      PROVE  FilesInv'
  BY <1>3, PropertiesSaveInv, RconArriveInv, RconSettingsInv, RconCommitInv
<1>4. ASSUME NEW s \in Sessions, \/ WriteBegin(s) \/ WriteBackup(s) \/ WriteOpen(s)
                                 \/ WriteValues(s) \/ WriteFails(s)
      PROVE  FilesInv'
  BY <1>4, WriteBeginInv, WriteBackupInv, WriteOpenInv, WriteValuesInv, WriteFailsInv
<1>5. ASSUME NEW s \in Sessions, \/ Upload(s) \/ Toggle(s) \/ ToggleLooked(s)
                                 \/ UploadRead(s) \/ UploadStored(s) \/ ToggleRename(s)
      PROVE  FilesInv'
  BY <1>5, MovesInv, UploadReadInv, UploadStoredInv, ToggleRenameInv
<1>6. CASE UNCHANGED vars
  BY <1>6 DEF vars, FilesInv, TypeOK, LoopInv, PropsInv, JarInv, Damage, Agreement,
              SaveKnows, Keeps, ValueIn, Posted
<1> QED
  BY <1>1, <1>2, <1>3, <1>4, <1>5, <1>6 DEF Next

LEMMA Invariance == Spec => []FilesInv
BY InitInv, NextInv, PTL DEF Spec

----------------------------------------------------------------------------
(* Theorems                                                                *)

(* The files, the row, the page and every request keep their types.        *)
THEOREM TypeCorrect == Spec => []TypeOK
BY Invariance, PTL DEF FilesInv

(* What the last complete save wrote is in server.properties or in its     *)
(* .bak copy at every moment, until a save begins over a damaged file      *)
(* (write_properties makes its copy before it opens the file).             *)
THEOREM SavesSurvive == Spec => []SavedSurvives
<1>1. FilesInv => SavedSurvives
  BY DEF FilesInv, PropsInv, Damage, SavedSurvives
<1> QED
  BY <1>1, Invariance, PTL

(* With nobody on the event loop the file and the row have the same RCON   *)
(* values, but in keys that a fault, the editor or simultaneous forms set  *)
(* apart (update_rcon_settings).                                           *)
THEOREM FormsKeepInSync == Spec => []MirrorAgrees
<1>1. ASSUME FilesInv, loop = Nobody, file \notin {NoFile, Empty},
             NEW k \in RconKeys \ hist.apart
      PROVE  file[k] = mirror[k]
  <2>1. file = hist.saved /\ Agreement
    BY <1>1 DEF FilesInv, PropsInv, Damage
  <2>2. \A s \in Sessions : ~At(s, "commit")
    BY <1>1, OneHolds DEF LoopFree, Holding
  <2> QED
    BY <1>1, <2>1, <2>2 DEF Agreement, ValueIn
<1>2. FilesInv => MirrorAgrees
  BY <1>1 DEF MirrorAgrees
<1> QED
  BY <1>2, Invariance, PTL

(* An uploaded jar stays in the collection under one of its two names,     *)
(* whatever toggles and uploads meet it (save_upload, toggle).             *)
THEOREM UploadsKept == Spec => []UploadKept
<1>1. FilesInv => UploadKept
  BY DEF FilesInv, JarInv, UploadKept
<1> QED
  BY <1>1, Invariance, PTL

(* What was saved is replaced by the write of a save only.                 *)
LEMMA SavedChanges ==
    ASSUME FilesInv, [Next]_vars, hist'.saved # hist.saved
    PROVE  hist'.saved = Spoiled \/ \E s \in Sessions : WriteValues(s)
<1>1. hist \in Histories
  BY DataTyped DEF DataOK
<1>2. ~Crash /\ ~UNCHANGED hist
  BY <1>1 DEF Crash, Histories
<1>3. ASSUME NEW s \in Sessions, UploadRead(s) \/ UploadStored(s) PROVE FALSE
  BY <1>1, <1>3 DEF UploadRead, UploadStored, Histories
<1>4. ASSUME NEW s \in Sessions, WriteFails(s) \/ RconCommit(s) PROVE FALSE
  BY <1>1, <1>4 DEF WriteFails, RconCommit, Apart, Histories
<1>5. ASSUME NEW s \in Sessions, WriteBegin(s) PROVE hist'.saved = Spoiled
  BY <1>1, <1>5 DEF WriteBegin, Histories
<1>6. ~PropertiesForm /\ ~UNCHANGED vars
  BY <1>2 DEF PropertiesForm, vars
<1>7. ASSUME NEW s \in Sessions, \/ PropertiesSave(s) \/ RconArrive(s) \/ RconSettings(s)
                                 \/ WriteBackup(s) \/ WriteOpen(s) \/ Upload(s)
                                 \/ Toggle(s) \/ ToggleLooked(s) \/ ToggleRename(s)
      PROVE  FALSE
  BY <1>2, <1>7 DEF PropertiesSave, RconArrive, RconSettings, WriteBackup, WriteOpen,
                    Upload, Toggle, ToggleLooked, ToggleRename
<1> QED
  BY <1>2, <1>3, <1>4, <1>5, <1>6, <1>7 DEF Next

(* No save loses a key that another has stored, and the RCON form changes  *)
(* only what it was posted, even when the page or the form was rendered    *)
(* before other saves (properties_save, _merge_properties).                *)
THEOREM SavesLoseNoKey == Spec => KeysKept
<1>1. ASSUME FilesInv, [Next]_vars, hist'.saved # hist.saved,
             Spoiled \notin {hist.saved, hist'.saved}, NEW k \in DOMAIN hist.saved
      PROVE  /\ hist.saved[k] # None => hist'.saved[k] # None
             /\ \A s \in Sessions :
                   (At(s, "write") /\ IsRconSave(s) /\ k \notin Posted(s)) =>
                       hist'.saved[k] = hist.saved[k]
  <2>1. PICK s \in Sessions : WriteValues(s)
    BY <1>1, SavedChanges
  <2>2. At(s, "write") /\ hist'.saved = sess[s].new
    BY <1>1, <2>1, DataTyped DEF WriteValues, DataOK, Histories
  <2>3. Keeps(sess[s], hist.saved)
    BY <1>1, <2>2, SessionOf DEF SaveKnows
  <2>4. k \in Keys /\ ValueIn(hist.saved, k) = hist.saved[k]
    BY <1>1, DataTyped, Distinct DEF ValueIn, NoFile
  <2>5. \A o \in Sessions : At(o, "write") => o = s
    BY <1>1, <2>2, OneHolds DEF Holding
  <2>6. hist.saved[k] # None => sess[s].new[k] # None
    BY <2>3, <2>4 DEF Keeps
  <2>7. (IsRconSave(s) /\ k \notin Posted(s)) => sess[s].new[k] = hist.saved[k]
    BY <2>3, <2>4 DEF Keeps, IsRconSave, Posted
  <2> QED
    BY <2>2, <2>5, <2>6, <2>7
<1> DEFINE Step ==
      (hist'.saved # hist.saved /\ Spoiled \notin {hist.saved, hist'.saved}) =>
          \A k \in DOMAIN hist.saved :
              /\ hist.saved[k] # None => hist'.saved[k] # None
              /\ \A s \in Sessions :
                    (At(s, "write") /\ IsRconSave(s) /\ k \notin Posted(s)) =>
                        hist'.saved[k] = hist.saved[k]
<1>2. FilesInv /\ [Next]_vars => [Step]_vars
  BY <1>1
<1> QED
  BY <1>2, Invariance, PTL DEF Spec, KeysKept

=============================================================================

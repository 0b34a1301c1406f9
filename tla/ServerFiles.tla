----------------------------- MODULE ServerFiles -----------------------------
(***************************************************************************)
(* The files of one server that the pages change: server.properties, by    *)
(* the properties editor and the RCON form (app/routers/servers.py over    *)
(* app/services/properties_service.py), and one jar of mods/ or plugins/   *)
(* (app/services/mod_service.py). Saves and uploads are coroutines and     *)
(* share the event loop; the editor's page and the toggles run in threads. *)
(***************************************************************************)
EXTENDS Naturals, FiniteSets

CONSTANTS
    Sessions,    \* requests that may be in progress at once
    Values,      \* the values of each key, a function on Keys
    Kinds,       \* how the server may begin: "rcon", "plain", "nofile"
    Allowed,     \* the requests a session may make
    Edits,       \* keys whose value the operator changes in the editor
    Faults       \* what may go wrong: "disk", "locked", "crash"

RconKeys == {"port", "password"}
Keys == {"motd"} \cup RconKeys

None == "none"
Nobody == "nobody"

ASSUME FilesAssumption ==
    /\ IsFiniteSet(Sessions) /\ Nobody \notin Sessions
    /\ DOMAIN Values = Keys
    /\ \A k \in Keys : Values[k] # {} /\ None \notin Values[k]
    /\ Kinds \subseteq {"rcon", "plain", "nofile"}
    /\ Allowed \in [Sessions -> SUBSET {"editor", "rcon", "upload", "toggle"}]
    /\ Edits \subseteq Keys
    /\ Faults \subseteq {"disk", "locked", "crash"}

VARIABLES
    file,      \* server.properties
    bak,       \* server.properties.bak
    mirror,    \* the columns rcon_port and rcon_password, committed
    page,      \* the keys and values of an open editor page
    mods,      \* the jar under its enabled and its disabled name
    target,    \* the name the file an upload writes goes by
    loop,      \* the coroutine that holds the event loop
    sess,      \* the requests
    hist       \* what the properties compare with (history)

props == <<file, bak, mirror, page>>
jars == <<mods, target>>
vars == <<file, bak, mirror, page, mods, target, loop, sess, hist>>

(* A key without a line has the value None. Opened for writing the file is *)
(* empty, and one call of the system fills it.                             *)
Contents == {c \in [Keys -> (UNION {Values[k] : k \in Keys}) \cup {None}] :
                \A k \in Keys : c[k] \in Values[k] \cup {None}}
Empty == [k \in Keys |-> None]
NoFile == [k \in {} |-> None]

RconValues == [RconKeys -> (UNION {Values[k] : k \in RconKeys}) \cup {None}]
NoValues == [k \in RconKeys |-> None]

Slots == {"enabled", "disabled"}

SessionStates ==
    [pc : {"idle", "form", "save", "copy", "open", "write", "commit", "spool", "stream",
           "look", "disable", "enable"},
     new : Contents,                      \* what write_properties was given
     posted : RconValues,
     row : RconValues]                    \* the columns as the session loaded them

Idle == [pc |-> "idle", new |-> Empty, posted |-> NoValues, row |-> NoValues]

(* saved: the last contents that a save completed, or Spoiled since a save *)
(* was begun over anything else; apart: RCON keys on which something has   *)
(* set file and mirror apart; jar: what became of the uploads.             *)
Spoiled == [k \in {"spoiled"} |-> None]
Histories ==
    [saved : Contents \cup {NoFile, Spoiled}, apart : SUBSET RconKeys,
     jar : {"none", "stored", "disturbed"}]

TypeOK ==
    /\ file \in Contents \cup {NoFile}
    /\ bak \in Contents \cup {NoFile}
    /\ mirror \in RconValues
    /\ page \in Contents \cup {NoFile}
    /\ mods \in [Slots -> {"absent", "part", "whole"}]
    /\ target \in Slots \cup {"gone", Nobody}
    /\ loop \in Sessions \cup {Nobody}
    /\ sess \in [Sessions -> SessionStates]
    /\ hist \in Histories

SomeValue(k) == CHOOSE v \in Values[k] : TRUE
InFile(k) == IF file = NoFile THEN None ELSE file[k]

(* A server created with RCON has the same values in both places; without  *)
(* it the row has a port all the same, and so has a registered one,        *)
(* whatever its file says.                                                 *)
Init ==
    /\ \/ "rcon" \in Kinds /\ file = [k \in Keys |-> SomeValue(k)]
       \/ "plain" \in Kinds /\ file = [Empty EXCEPT !["motd"] = SomeValue("motd")]
       \/ "nofile" \in Kinds /\ file = NoFile
    /\ bak = NoFile /\ page = NoFile
    /\ mirror = [port |-> SomeValue("port"), password |-> InFile("password")]
    /\ mods = [n \in Slots |-> "absent"] /\ target = Nobody /\ loop = Nobody
    /\ sess = [s \in Sessions |-> Idle]
    /\ hist = [saved |-> file,
               apart |-> {k \in RconKeys : InFile(k) # mirror[k]}, jar |-> "none"]

----------------------------------------------------------------------------
(* Helpers                                                                 *)

At(s, label) == sess[s].pc = label
Goto(s, label) == sess' = [sess EXCEPT ![s].pc = label]

Idles(s, request) == At(s, "idle") /\ request \in Allowed[s]

(* Mutant: the handlers are threads, like most of the others.              *)
LoopIgnored == TRUE

(* The event loop runs one coroutine up to its next await.                 *)
LoopFree == loop = Nobody

End(s) ==
    /\ sess' = [sess EXCEPT ![s] = Idle]
    /\ loop' = IF loop = s THEN Nobody ELSE loop

IsRconSave(s) == sess[s].posted # NoValues

Posted(s) == {k \in RconKeys : sess[s].posted[k] # None}

(* A save of s ends before the mirror and the file agree.                  *)
Apart(s) == [hist EXCEPT !.apart = @ \cup Posted(s)]

----------------------------------------------------------------------------
(* The properties editor                                                   *)

(* properties_form renders the file as it is at this moment.               *)
PropertiesForm ==
    /\ page' = file
    /\ UNCHANGED <<file, bak, mirror, mods, target, loop, sess, hist>>

(* Only keys that are in the file are taken from the form, which posts     *)
(* every key its page was rendered with.                                   *)
FormOver(form) ==
    [k \in Keys |-> IF k \in DOMAIN form /\ form[k] # None /\ file[k] # None
                    THEN form[k] ELSE file[k]]

(* The form as it was rendered, and with one value changed. The answer     *)
(* leads to a new page.                                                    *)
Forms ==
    {page} \cup UNION {{[page EXCEPT ![k] = v] : v \in Values[k]} :
                        k \in {e \in Edits : page[e] # None}}

PropertiesSave(s) ==
    /\ Idles(s, "editor") /\ LoopFree
    /\ page # NoFile /\ file # NoFile
    /\ \E form \in Forms :
          sess' = [sess EXCEPT ![s] =
                      [@ EXCEPT !.pc = "save", !.new = FormOver(form)]]
    /\ page' = NoFile /\ loop' = s
    /\ UNCHANGED <<file, bak, mirror, jars, hist>>

----------------------------------------------------------------------------
(* The RCON form                                                           *)

(* The row is loaded before the form is awaited.                           *)
RconArrive(s) ==
    /\ Idles(s, "rcon") /\ LoopFree
    /\ sess' = [sess EXCEPT ![s] = [@ EXCEPT !.pc = "form", !.row = mirror]]
    /\ UNCHANGED <<props, jars, loop, hist>>

Merged(posted) ==
    [k \in Keys |-> IF k \in RconKeys /\ posted[k] # None THEN posted[k]
                    ELSE InFile(k)]

(* Mutant: the port is not checked to be a number from 1 to 65535.         *)
PortsUnchecked == Values["port"] \cup {"out of range"}

Ports == Values["port"]

(* The port is always posted; a blank password means "keep the old one".   *)
RconSettings(s) ==
    /\ At(s, "form") /\ LoopFree
    /\ \E port \in Ports, password \in Values["password"] \cup {None} :
          LET posted == [port |-> port, password |-> password] IN
          sess' = [sess EXCEPT ![s] =
                      [@ EXCEPT !.pc = "save", !.new = Merged(posted),
                                !.posted = posted]]
    /\ loop' = s
    /\ UNCHANGED <<props, jars, hist>>

(* Mutant: a blank password is stored.                                     *)
MirrorAll(s) == sess[s].posted

(* The ORM writes the columns that were given another value than the one   *)
(* they were loaded with.                                                  *)
MirrorPosted(s) ==
    [k \in RconKeys |->
        IF k \in Posted(s) /\ sess[s].posted[k] # sess[s].row[k]
        THEN sess[s].posted[k] ELSE mirror[k]]

(* The file is written, or could not be; either way the row is committed.  *)
(* For the history a save over a row that has changed since it was loaded  *)
(* does not count as one that mends.                                       *)
RconCommit(s) ==
    /\ At(s, "commit")
    /\ \/ /\ mirror' = MirrorPosted(s)
          /\ hist' = IF file = sess[s].new /\ mirror = sess[s].row
                     THEN [hist EXCEPT !.apart = @ \ Posted(s)] ELSE Apart(s)
       \/ "locked" \in Faults /\ hist' = Apart(s) /\ UNCHANGED mirror
    /\ End(s)
    /\ UNCHANGED <<file, bak, page, jars>>

----------------------------------------------------------------------------
(* write_properties                                                        *)

(* Mutant: the file is opened before the copy is made of it.               *)
WriteBeginOpened(s) ==
    /\ At(s, "save")
    /\ bak' = IF file = NoFile THEN bak ELSE Empty
    /\ file' = Empty
    /\ Goto(s, IF file = NoFile THEN "open" ELSE "copy")
    /\ hist' = [hist EXCEPT !.saved = IF @ = file THEN @ ELSE Spoiled]
    /\ UNCHANGED <<mirror, page, jars, loop>>

(* copy2 opens the backup, which empties it ...                            *)
WriteBegin(s) ==
    /\ At(s, "save")
    /\ bak' = IF file = NoFile THEN bak ELSE Empty
    /\ Goto(s, IF file = NoFile THEN "open" ELSE "copy")
    /\ hist' = [hist EXCEPT !.saved = IF @ = file THEN @ ELSE Spoiled]
    /\ UNCHANGED <<file, mirror, page, jars, loop>>

(* ... and fills it.                                                       *)
WriteBackup(s) ==
    /\ At(s, "copy")
    /\ bak' = file /\ Goto(s, "open")
    /\ UNCHANGED <<file, mirror, page, jars, loop, hist>>

WriteOpen(s) ==
    /\ At(s, "open")
    /\ file' = Empty /\ Goto(s, "write")
    /\ UNCHANGED <<bak, mirror, page, jars, loop, hist>>

(* The RCON form goes on to its commit; the editor answers, and has never  *)
(* touched the mirror.                                                     *)
WriteValues(s) ==
    /\ At(s, "write")
    /\ file' = sess[s].new
    /\ hist' = [hist EXCEPT !.saved = sess[s].new,
          !.apart = IF IsRconSave(s) \/ hist.saved = Spoiled THEN @
                    ELSE @ \cup {k \in RconKeys : hist.saved[k] # sess[s].new[k]}]
    /\ IF IsRconSave(s) THEN Goto(s, "commit") /\ UNCHANGED loop ELSE End(s)
    /\ UNCHANGED <<bak, mirror, page, jars>>

(* An OSError at any of these steps: the RCON form only warns of it.       *)
WriteFails(s) ==
    /\ "disk" \in Faults
    /\ sess[s].pc \in {"save", "copy", "open", "write"}
    /\ IF IsRconSave(s) THEN Goto(s, "commit") /\ UNCHANGED loop ELSE End(s)
    /\ hist' = IF At(s, "write") THEN [hist EXCEPT !.apart = RconKeys] ELSE hist
    /\ UNCHANGED <<props, jars>>

----------------------------------------------------------------------------
(* Mods and plugins                                                        *)

(* save_upload first awaits the whole upload ...                           *)
Upload(s) ==
    /\ Idles(s, "upload") /\ Goto(s, "spool")
    /\ UNCHANGED <<props, jars, loop, hist>>

(* ... refuses one that is empty or too large, or opens the enabled name,  *)
(* which empties a file that is there, and fills it.                       *)
UploadRead(s) ==
    /\ At(s, "spool") /\ LoopFree
    /\ \/ /\ mods' = [mods EXCEPT !["enabled"] = "part"]
          /\ target' = "enabled" /\ loop' = s /\ Goto(s, "stream")
          /\ hist' = [hist EXCEPT !.jar =
                IF mods["disabled"] # "absent" THEN "disturbed" ELSE @]
       \/ End(s) /\ UNCHANGED <<jars, hist>>
    /\ UNCHANGED props

UploadStored(s) ==
    /\ At(s, "stream")
    /\ \/ /\ mods' = [n \in Slots |-> IF n = target THEN "whole" ELSE mods[n]]
          /\ hist' = [hist EXCEPT !.jar = IF @ = "none" THEN "stored" ELSE @]
       \/ /\ "disk" \in Faults /\ UNCHANGED mods
          /\ hist' = [hist EXCEPT !.jar = "disturbed"]
    /\ target' = Nobody /\ End(s)
    /\ UNCHANGED props

(* toggle: is there an enabled file, else is there a disabled one?         *)
Toggle(s) ==
    /\ Idles(s, "toggle")
    /\ Goto(s, IF mods["enabled"] # "absent" THEN "disable" ELSE "look")
    /\ UNCHANGED <<props, jars, loop, hist>>

ToggleLooked(s) ==
    /\ At(s, "look")
    /\ IF mods["disabled"] # "absent"
       THEN Goto(s, "enable") /\ UNCHANGED loop ELSE End(s)
    /\ UNCHANGED <<props, jars, hist>>

(* Mutant: the file is copied, and then the old name removed.              *)
CopiedAndRemoved(a, b) ==
    /\ mods' = [mods EXCEPT ![b] = mods[a], ![a] = "absent"]
    /\ target' = IF target \in Slots THEN "gone" ELSE target

(* rename moves the file, even while an upload writes it, and replaces     *)
(* whatever had the other name.                                            *)
Renamed(a, b) ==
    /\ mods' = [mods EXCEPT ![b] = mods[a], ![a] = "absent"]
    /\ target' = CASE target = a -> b [] target = b -> "gone" [] OTHER -> target

ToggleRename(s) ==
    /\ sess[s].pc \in {"disable", "enable"}
    /\ LET a == IF At(s, "disable") THEN "enabled" ELSE "disabled"
           b == IF At(s, "disable") THEN "disabled" ELSE "enabled" IN
       IF mods[a] # "absent" THEN Renamed(a, b) ELSE UNCHANGED jars
    /\ End(s)
    /\ UNCHANGED <<props, hist>>

----------------------------------------------------------------------------
Crash ==
    /\ "crash" \in Faults
    /\ hist' = [hist EXCEPT
          !.apart = @ \cup UNION {IF At(s, "write") THEN RconKeys
                                  ELSE IF At(s, "commit") THEN Posted(s) ELSE {} :
                                  s \in Sessions},
          !.jar = IF target # Nobody THEN "disturbed" ELSE @]
    /\ sess' = [s \in Sessions |-> Idle]
    /\ target' = Nobody /\ loop' = Nobody
    /\ UNCHANGED <<props, mods>>

Next ==
    \/ PropertiesForm
    \/ \E s \in Sessions :
          \/ PropertiesSave(s)
          \/ RconArrive(s) \/ RconSettings(s) \/ RconCommit(s)
          \/ WriteBegin(s) \/ WriteBackup(s) \/ WriteOpen(s) \/ WriteValues(s)
          \/ WriteFails(s)
          \/ Upload(s) \/ UploadRead(s) \/ UploadStored(s)
          \/ Toggle(s) \/ ToggleLooked(s) \/ ToggleRename(s)
    \/ Crash

Spec == Init /\ [][Next]_vars

----------------------------------------------------------------------------
(* Properties                                                              *)

(* What the last complete save wrote is in the file or in the .bak copy,   *)
(* wherever the next save fails or the application dies; it is at risk     *)
(* only when a further save begins over the damaged file                   *)
(* (write_properties makes the copy first).                                *)
SavedSurvives == hist.saved \in {file, bak, Spoiled}

(* No save loses a key that another has stored, and the RCON form changes  *)
(* only what it was posted: read, merge and write are one piece between    *)
(* two awaits (properties_save, _merge_properties).                        *)
KeysKept ==
    [][(hist'.saved # hist.saved /\ Spoiled \notin {hist.saved, hist'.saved}) =>
          \A k \in DOMAIN hist.saved :
              /\ hist.saved[k] # None => hist'.saved[k] # None
              /\ \A s \in Sessions :
                    (At(s, "write") /\ IsRconSave(s) /\ k \notin Posted(s)) =>
                        hist'.saved[k] = hist.saved[k]]_vars

(* The RCON values are in the file and in the row, and the form keeps them *)
(* in sync (docs/09_rcon.md): they differ only in keys that a fault, the   *)
(* properties editor or two forms sent at the same time have set apart,    *)
(* and that no later save of the form has mended.                          *)
MirrorAgrees ==
    (loop = Nobody /\ file \notin {NoFile, Empty}) =>
        \A k \in RconKeys \ hist.apart : file[k] = mirror[k]

(* A jar that was uploaded stays in the collection, whole but for an       *)
(* upload of the same name in progress, however toggles and uploads        *)
(* interleave; unless an upload failed or found a disabled twin. Nothing   *)
(* is ever deleted (mod_service).                                          *)
UploadKept ==
    hist.jar = "stored" =>
        \E n \in Slots : mods[n] = "whole" \/ (n = target /\ mods[n] = "part")

(* Stronger than MirrorAgrees, and false: an editor page that was opened   *)
(* before the RCON form was saved posts the old port with it; and of two   *)
(* forms sent at the same time the second may restore in the file a value  *)
(* that its session believes to be in the row still.                       *)
InSync ==
    (loop = Nobody /\ file \notin {NoFile, Empty}) =>
        \A k \in RconKeys : file[k] = mirror[k]

(* False as well: a toggle never destroys a jar. With an enabled file      *)
(* beside a disabled one it renames the first over the second.             *)
NeverOverwritten ==
    [][\A n \in Slots : mods[n] = "whole" =>
          \E m \in Slots : mods'[m] # "absent" /\ (m = n \/ mods[m] = "absent")]_vars
=============================================================================

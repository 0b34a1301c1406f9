----------------------------- MODULE RconService -----------------------------
(***************************************************************************)
(* The RCON client of app/services/rcon_service.py, and what it talks to:  *)
(* one Minecraft server with the world it holds in memory and on disk. The *)
(* server is external and modelled from what the client and the backup     *)
(* code expect of it.                                                      *)
(***************************************************************************)
EXTENDS Naturals, Sequences

CONSTANTS
    Requests,   \* requests that may be in progress at once
    Files,      \* the files of the world
    MaxWorld    \* bound: changes of the world

(* Of ALLOWED_COMMANDS, "list" stands for every one that does not touch    *)
(* the world.                                                              *)
Commands == {"list", "save-all", "save-all flush", "stop"}

(* What lasts when a command runs after its client has gone.               *)
Lasting == {"save-all flush", "stop"}

(* RconError: the password is missing or wrong, or the connection was      *)
(* refused, timed out or broke off.                                        *)
Failures == {"credentials", "connection"}

ASSUME RconAssumption ==
    /\ Files # {} /\ MaxWorld \in Nat

VARIABLES
    life,      \* of the server process
    endpoint,  \* RCON as the server has read it at its boot
    world,     \* the world in memory, as the number of its last change
    disk,      \* the change each file of the world has on disk
    late,      \* commands whose client has stopped waiting
    call       \* the exchange each request is in

rcon_vars == <<life, endpoint, world, disk, late, call>>

(* todo: the commands to run, each on a connection of its own. cut: the    *)
(* process the command was sent to is gone. base is history: the world the *)
(* server saved when it carried out the last command, as far as the client *)
(* has heard; 0 promises nothing.                                          *)
Calls == [step : {"idle", "dial", "sent", "executed", "cut", "answered"},
          todo : UNION {[1 .. n -> Commands] : n \in 0 .. 2},
          base : 0 .. MaxWorld, result : {"none", "ok"} \cup Failures]
NoCall == [step |-> "idle", todo |-> <<>>, base |-> 0, result |-> "none"]

RconTypeOK ==
    /\ life \in {"down", "booting", "up", "closing"}
    /\ endpoint \in {"off", "same", "other"}
    /\ world \in 0 .. MaxWorld /\ disk \in [Files -> 0 .. MaxWorld]
    /\ late \subseteq Lasting
    /\ call \in [Requests -> Calls]

RconInit ==
    /\ life = "down" /\ endpoint = "off"
    /\ world = 0 /\ disk = [f \in Files |-> 0]
    /\ late = {} /\ call = [r \in Requests |-> NoCall]

----------------------------------------------------------------------------
(* The server                                                              *)

Saved(w) == [f \in Files |-> w]

(* What a command does, once the server's main thread gets to it. A plain  *)
(* save-all leaves the writing to the server's own time.                   *)
Effect(command) ==
    /\ disk' = IF command = "save-all flush" THEN Saved(world) ELSE disk
    /\ life' = IF command = "stop" THEN "closing" ELSE life

(* The process is gone, with what it had in memory and had not run.        *)
Gone ==
    /\ life' = "down" /\ endpoint' = "off" /\ world' = 0 /\ late' = {}
    /\ call' = [r \in Requests |-> IF call[r].step = "sent" THEN [call[r] EXCEPT !.step = "cut"]
                                   ELSE call[r]]

Boot ==
    /\ life = "down" /\ life' = "booting"
    /\ endpoint' \in {"off", "same", "other"}
    /\ \E newest \in Files : /\ world' = disk[newest]
                           /\ \A f \in Files : disk[f] <= disk[newest]
    /\ UNCHANGED <<disk, late, call>>

Ready == life = "booting" /\ life' = "up" /\ UNCHANGED <<endpoint, world, disk, late, call>>

Play == /\ life = "up" /\ world < MaxWorld /\ world' = world + 1
        /\ UNCHANGED <<life, endpoint, disk, late, call>>

(* The server writes a file when it sees fit.                              *)
Autosave(f) ==
    /\ life = "up" /\ disk[f] # world /\ disk' = [disk EXCEPT ![f] = world]
    /\ UNCHANGED <<life, endpoint, world, late, call>>

(* "stop" from elsewhere, or SIGTERM.                                      *)
Closing == /\ life \in {"booting", "up"} /\ life' = "closing"
           /\ UNCHANGED <<endpoint, world, disk, late, call>>

Closed == life = "closing" /\ disk' = Saved(world) /\ Gone

Killed == life # "down" /\ Gone /\ UNCHANGED disk

Game == Boot \/ Ready \/ Play \/ Closing \/ Closed \/ Killed \/ \E f \in Files : Autosave(f)

----------------------------------------------------------------------------
(* _run_commands                                                           *)

Command(r) == Head(call[r].todo)

CallIn(r, commands) == [NoCall EXCEPT !.step = "dial", !.todo = commands]

Fail(r, why) ==
    call' = [call EXCEPT ![r] =
                [@ EXCEPT !.step = "answered", !.result = why, !.base = 0]]

(* Connect and log in. A missing password is one of the wrong ones.        *)
Dial(r) ==
    /\ call[r].step = "dial"
    /\ \/ life = "up" /\ endpoint = "same" /\ call' = [call EXCEPT ![r].step = "sent"]
       \/ endpoint = "other" /\ Fail(r, "credentials")
       \/ Fail(r, "connection")
    /\ UNCHANGED <<life, endpoint, world, disk, late>>

Execute(r) ==
    /\ call[r].step = "sent" /\ life = "up"
    /\ Effect(Command(r))
    /\ call' = [call EXCEPT ![r] =
                   [@ EXCEPT !.step = "executed",
                             !.base = IF Command(r) \in {"list", "stop"} THEN 0 ELSE world]]
    /\ UNCHANGED <<endpoint, world, late>>

ExecuteLate(c) ==
    /\ c \in late /\ life = "up" /\ Effect(c) /\ late' = late \ {c}
    /\ UNCHANGED <<endpoint, world, call>>

(* The response comes in; the next command has a connection of its own.    *)
Respond(r) ==
    /\ call[r].step = "executed"
    /\ \/ /\ Len(call[r].todo) > 1
          /\ call' = [call EXCEPT ![r] =
                         [@ EXCEPT !.step = "dial", !.todo = Tail(call[r].todo)]]
       \/ /\ Len(call[r].todo) = 1
          /\ call' = [call EXCEPT ![r] =
                         [@ EXCEPT !.step = "answered", !.result = "ok"]]
    /\ UNCHANGED <<life, endpoint, world, disk, late>>

(* It does not, although the command may have been run, or may be yet.     *)
NoResponse(r) ==
    /\ call[r].step \in {"sent", "executed", "cut"}
    /\ Fail(r, "connection")
    /\ late' = IF call[r].step = "sent" THEN late \cup (Lasting \cap {Command(r)}) ELSE late
    /\ UNCHANGED <<life, endpoint, world, disk>>

Exchange(r) == Dial(r) \/ Execute(r) \/ Respond(r) \/ NoResponse(r)

----------------------------------------------------------------------------
(* The operations, and what they answer                                    *)

Raw == Commands \cup {"anything else"}

(* Mutant: the command goes out as it was typed.                           *)
ValidNot(raw) == TRUE

(* validate_command keeps the commands of the list.                        *)
Valid(raw) == raw \in Commands

TestConnection == <<"list">>
RunCommand(raw) == <<raw>>

(* Mutant: the save is not waited for.                                     *)
SaveAllUnflushed == <<"save-all">>

SaveAll == <<"save-all flush">>
StopViaRcon == <<"save-all flush", "stop">>

(* A 'stop' that meets no server, or no answer, passes for one that was    *)
(* carried out (run_command, stop_via_rcon).                               *)
ToldOk(r) ==
    \/ call[r].result = "ok"
    \/ Command(r) = "stop" /\ call[r].result = "connection"
=============================================================================

-------------------------- MODULE ServerLifecycle --------------------------
(***************************************************************************)
(* What process control promises about one server directory: a server is   *)
(* launched only when none is alive and none is on record, a launched      *)
(* server is put on record unless the whole unit goes down, and a record   *)
(* is dropped only once the process it names is gone.                      *)
(***************************************************************************)
CONSTANTS Pids, NoPid

VARIABLES
    alive,      \* the servers running in the directory
    recorded,   \* the pid on record
    launched    \* the pid of a server launched but not yet on record

Init ==
    /\ launched = NoPid
    /\ \/ recorded = NoPid /\ alive = {}
       \/ recorded \in Pids /\ alive = {recorded}

Launch(p) ==
    /\ alive = {} /\ recorded = NoPid /\ launched = NoPid
    /\ alive' = {p} /\ launched' = p
    /\ UNCHANGED recorded

Record ==
    /\ launched # NoPid
    /\ recorded' = launched /\ launched' = NoPid
    /\ UNCHANGED alive

Exit(p) ==
    /\ p \in alive
    /\ alive' = alive \ {p}
    /\ UNCHANGED <<recorded, launched>>

Forget ==
    /\ recorded \in Pids \ alive
    /\ recorded' = NoPid
    /\ UNCHANGED <<alive, launched>>

TakenDown ==
    /\ alive' = {} /\ launched' = NoPid
    /\ UNCHANGED recorded

Next == (\E p \in Pids : Launch(p) \/ Exit(p)) \/ Record \/ Forget \/ TakenDown

Spec == Init /\ [][Next]_<<alive, recorded, launched>>
=============================================================================

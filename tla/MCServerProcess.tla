------------------------- MODULE MCServerProcess -------------------------
(* Instances of ServerProcess for TLC.                                     *)
EXTENDS ServerProcess, TLC

CONSTANTS s1, s2, s3, p1, p2

(* Every session may carry every request.                                  *)
AllowAll == [s \in Sessions |-> Requests]

(* Nobody launches: pages, the poll, Stop and Kill.                        *)
AllowClosers == [s \in Sessions |-> {"view", "poll", "stop", "kill"}]

(* An operator, and an open console page that polls and has a Start button. *)
AllowOperatorAndConsole ==
    [s \in Sessions |-> IF s = s1 THEN {"start", "stop", "kill", "restart"}
                                  ELSE {"poll", "start"}]

(* Restart clicked twice.                                                  *)
AllowRestart == [s \in Sessions |-> {"restart"}]

(* One operator who starts the server, one page that refreshes.            *)
AllowStartAndView ==
    [s \in Sessions |-> IF s = s1 THEN {"start"} ELSE {"view"}]

Symmetric == Permutations(Sessions) \cup Permutations(Pids)
=============================================================================

--------------------------- MODULE MCJavaRuntimes ---------------------------
(* Instances of JavaRuntimes for TLC.                                      *)
EXTENDS JavaRuntimes, TLC

CONSTANTS r1, r2

Symmetric == Permutations(Requests)

Legacy(minor, patch) == [line |-> "legacy", minor |-> minor, patch |-> patch]
Numbered(lead) == [line |-> "numbered", minor |-> lead, patch |-> 0]
Unknown == [line |-> "unknown", minor |-> 0, patch |-> 0]

(* The versions on either side of a row's edge in the table.               *)
Edge == {Legacy(20, 4), Legacy(20, 5), Unknown}

(* Both names of one JVM's binary, and the link, which may hide either.     *)
Some == {Link, Named(21), Built(21, 1)}

(* Over every version up to 1.25.9 and of the numbered line, the code's    *)
(* inference is the documented table.                                      *)
ASSUME TableAgrees ==
    \A v \in {Legacy(i, j) : i \in 0 .. 25, j \in 0 .. 9}
             \cup {Numbered(i) : i \in 0 .. 30} \cup {Unknown} :
        Documented(v) = {JavaFor(v)} \ {None}
=============================================================================

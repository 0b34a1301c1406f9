----------------------------- MODULE MCJarCache -----------------------------
(* Instances of JarCache for TLC.                                          *)
EXTENDS JarCache, TLC

CONSTANTS s1, s2, s3

AllowAll == [s \in Sessions |-> Requests]

(* A download while another session only checks.                           *)
AllowCheckAndDownload ==
    [s \in Sessions |-> IF s = s1 THEN {"check"} ELSE {"download"}]

Symmetric == Permutations(Sessions)
=============================================================================

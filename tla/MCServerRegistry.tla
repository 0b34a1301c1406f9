-------------------------- MODULE MCServerRegistry --------------------------
(* Instances of ServerRegistry for TLC.                                    *)
EXTENDS ServerRegistry, TLC

CONSTANTS s1, s2, s3, n1, n2

Symmetric == Permutations(Sessions) \cup Permutations(Names)
=============================================================================

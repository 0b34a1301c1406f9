---------------------------- MODULE MCZipBackup ----------------------------
(* Instances of ZipBackup for TLC.                                         *)
EXTENDS ZipBackup, TLC

CONSTANTS r1, r2, f1, f2

Symmetric == Permutations(Requests) \cup Permutations(Files)
=============================================================================

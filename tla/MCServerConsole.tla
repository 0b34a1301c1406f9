-------------------------- MODULE MCServerConsole --------------------------
(* Instances of ServerConsole for TLC.                                     *)
EXTENDS ServerConsole, TLC

CONSTANTS c1, c2

Symmetric == Permutations(Consoles)
=============================================================================

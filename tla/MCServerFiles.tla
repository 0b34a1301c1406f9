---------------------------- MODULE MCServerFiles ----------------------------
(* Instances of ServerFiles for TLC.                                       *)
EXTENDS ServerFiles, TLC

CONSTANTS s1, s2, s3

TwoPorts == [motd |-> {"a"}, port |-> {"p", "q"}, password |-> {"x"}]

AllowAll == [s \in Sessions |-> {"editor", "rcon", "upload", "toggle"}]
AllowPages == [s \in Sessions |-> {"editor", "rcon"}]
AllowForms == [s \in Sessions |-> {"rcon"}]
AllowJars == [s \in Sessions |-> {"upload", "toggle"}]

Symmetric == Permutations(Sessions)
=============================================================================

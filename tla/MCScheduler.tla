---------------------------- MODULE MCScheduler ----------------------------
(* Instances of Scheduler for TLC: days of a few minutes.                   *)
EXTENDS Scheduler, TLC

CONSTANTS s1, s2

(* A daily zip, a periodical one, and neither; the snapshot of a server    *)
(* that is enabled may be stored without its leading zero.                 *)
ZipPlans ==
    {[enabled |-> TRUE, type |-> "daily", minute |-> 1],
     [enabled |-> TRUE, type |-> "interval", minute |-> 2],
     [enabled |-> FALSE, type |-> "daily", minute |-> 1]}

SnapshotTimes ==
    {[enabled |-> TRUE, minute |-> 1, padded |-> TRUE],
     [enabled |-> TRUE, minute |-> 1, padded |-> FALSE]}

(* Daily snapshots only, at two times of the day.                          *)
NoPlans == {[enabled |-> FALSE, type |-> "daily", minute |-> 2]}

TwoTimes ==
    {[enabled |-> TRUE, minute |-> m, padded |-> TRUE] : m \in {2, 3}}

Symmetric == Permutations(Servers)
=============================================================================

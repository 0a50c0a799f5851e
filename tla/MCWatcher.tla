------------------------------ MODULE MCWatcher ------------------------------
(* The watcher's instances: two clusters, one of them the hub itself; and    *)
(* the hub alone, with interchangeable contents.                             *)
EXTENDS Watcher, TLC
Symmetry == Permutations(Values)
=============================================================================

-------------------------- MODULE MCStackResources --------------------------
(* Two placements, one of them global; one object of each kind.            *)
EXTENDS StackResources
=============================================================================

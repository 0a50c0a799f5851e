---------------------------- MODULE MCRightSizing ----------------------------
(* Two clusters and the two features; one feature where time is short.      *)
EXTENDS RightSizing

CONSTANTS a, b, namespace, virtualization, custom, broken

MCFirst(S) == IF namespace \in S THEN namespace ELSE virtualization

\* A user's customization is for one cluster only.
MCSelected(c) == IF c = custom THEN {a} ELSE Clusters
=============================================================================

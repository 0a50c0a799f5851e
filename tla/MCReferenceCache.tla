-------------------------- MODULE MCReferenceCache --------------------------
(* Two clusters, the first with two ManifestWorks.                         *)
EXTENDS ReferenceCache

CONSTANTS n1, n2, w1, w2, w3

MCNsOf(w) == IF w = w3 THEN n2 ELSE n1
=============================================================================

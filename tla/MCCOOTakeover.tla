---------------------------- MODULE MCCOOTakeover ----------------------------
\* Small instances of COOTakeover for TLC.
EXTENDS COOTakeover
=============================================================================

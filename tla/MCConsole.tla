----------------------------- MODULE MCConsole -----------------------------
EXTENDS Console

\* Everything on.
MCInitial == {AllFeatures}

=============================================================================

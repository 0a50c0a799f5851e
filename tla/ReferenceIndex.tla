--------------------------- MODULE ReferenceIndex ---------------------------
(***************************************************************************)
(* What the watcher's reference cache promises to its callers, with no     *)
(* lock and no second map: a table from ManifestWorks to the configuration *)
(* resources they carry, whose calls take effect at one instant between    *)
(* call and return, and whose queries answer with exactly the namespaces   *)
(* of the works that carry the configuration at that instant.              *)
(* ReferenceCache.tla is shown to implement this module.                   *)
(***************************************************************************)
CONSTANTS
  Works,      \* ManifestWork keys (namespace/name)
  NsOf(_),    \* the namespace of a ManifestWork
  Configs,    \* configuration resource keys (group/kind/namespace/name)
  Writers,    \* goroutines that report ManifestWork events
  Readers,    \* goroutines that look configurations up
  NoEntry,    \* the value of a key a Go map does not hold
  NoCall      \* no call is pending

VARIABLES
  table,      \* [Works -> SUBSET Configs \cup {NoEntry}]
  pending,    \* the write call of each writer that has not taken effect
  asked,      \* the lookup of each reader that has not been answered
  answer      \* the answer each reader last received, {} while it waits

vars == <<table, pending, asked, answer>>

\* A write call replaces the entry of one work; removing it writes NoEntry.
WriteCall == [work : Works, configs : {NoEntry} \cup SUBSET Configs]

Carries(w, c) == table[w] # NoEntry /\ c \in table[w]

\* The namespaces holding a work that carries c.
Users(c) == {NsOf(w) : w \in {v \in Works : Carries(v, c)}}

Init ==
  /\ table = [w \in Works |-> NoEntry]
  /\ pending = [t \in Writers |-> NoCall]
  /\ asked = [r \in Readers |-> NoCall]
  /\ answer = [r \in Readers |-> {}]

Call(t) ==
  /\ pending[t] = NoCall
  /\ \E k \in WriteCall : pending' = [pending EXCEPT ![t] = k]
  /\ UNCHANGED <<table, asked, answer>>

Effect(t) ==
  /\ pending[t] # NoCall
  /\ table' = [table EXCEPT ![pending[t].work] = pending[t].configs]
  /\ pending' = [pending EXCEPT ![t] = NoCall]
  /\ UNCHANGED <<asked, answer>>

Ask(r) ==
  /\ asked[r] = NoCall
  /\ \E c \in Configs : asked' = [asked EXCEPT ![r] = c]
  /\ answer' = [answer EXCEPT ![r] = {}]
  /\ UNCHANGED <<table, pending>>

Answer(r) ==
  /\ asked[r] # NoCall
  /\ answer' = [answer EXCEPT ![r] = Users(asked[r])]
  /\ asked' = [asked EXCEPT ![r] = NoCall]
  /\ UNCHANGED <<table, pending>>

Next ==
  \/ \E t \in Writers : Call(t) \/ Effect(t)
  \/ \E r \in Readers : Ask(r) \/ Answer(r)

Spec == Init /\ [][Next]_vars
=============================================================================

------------------------ MODULE ReferenceCacheProofs ------------------------
(***************************************************************************)
(* Proofs about the watcher's reference cache, for any works, namespaces,  *)
(* configurations, writers and readers.                                    *)
(***************************************************************************)
EXTENDS ReferenceCache, TLAPS

USE CacheAssumption DEF WriteCall

\* The steps of Next one by one, so that each proof below has one case each.
LEMMA NextCases ==
  ASSUME NEW ACTION P,
    \A t \in Writers, w \in Works, S \in SUBSET Configs : Add(t, w, S) => P,
    \A t \in Writers, w \in Works : Remove(t, w) => P,
    \A t \in Writers : LockForCheck(t) => P,
    \A t \in Writers : Compare(t) => P,
    \A t \in Writers : Announce(t) => P,
    \A t \in Writers : Lock(t) => P,
    \A t \in Writers : Recheck(t) => P,
    \A t \in Writers, c \in Configs : Unref(t, c) => P,
    \A t \in Writers, c \in Configs : Ref(t, c) => P,
    \A t \in Writers : Store(t) => P,
    \A t \in Writers : Unlock(t) => P,
    \A r \in Readers, c \in Configs : GetNamespaces(r, c) => P,
    \A r \in Readers : LockForRead(r) => P,
    \A r \in Readers, ns \in Namespaces : Collect(r, ns) => P,
    \A r \in Readers : Return(r) => P
  PROVE  Next => P
BY Zenon DEF Next, WriterStep, ReaderStep

LEMMA InitType == Init => TypeOK
BY DEF Init, TypeOK, WriterPC, ReaderPC, Locked

\* What the two maps hold, given the type invariant.
LEMMA MapTypes ==
  ASSUME TypeOK
  PROVE  /\ \A w \in Works : Entry(w) \in SUBSET Configs
         /\ \A c \in Configs : Referrers(c) \in SUBSET Namespaces
         /\ \A k \in WriteCall : Dropped(k) \in SUBSET Configs
<1>1. \A w \in Works : Entry(w) \in SUBSET Configs
  BY DEF TypeOK, Entry
<1>2. \A c \in Configs : Referrers(c) \in SUBSET Namespaces
  BY DEF TypeOK, Referrers
<1>3. \A k \in WriteCall : k.work \in Works
  OBVIOUS
<1> QED BY <1>1, <1>2, <1>3 DEF Dropped

\* The write call of a busy writer.
LEMMA CallTypes ==
  ASSUME TypeOK, NEW t \in Writers, pc[t] # "idle"
  PROVE  /\ call[t] \in WriteCall
         /\ call[t].work \in Works
         /\ NsOf(call[t].work) \in Namespaces
         /\ call[t].configs # NoEntry => call[t].configs \in SUBSET Configs
BY DEF TypeOK

LEMMA StepType == TypeOK /\ [Next]_vars => TypeOK'
<1> SUFFICES ASSUME TypeOK, [Next]_vars PROVE TypeOK'
  OBVIOUS
<1> USE DEF mapVars, lockVars, readerVars, Goto
<1>1. CASE UNCHANGED vars
  BY <1>1 DEF vars, TypeOK
<1>2. \A t \in Writers, w \in Works, S \in SUBSET Configs : Add(t, w, S) => TypeOK'
  BY DEF Add, Begin, TypeOK, WriterPC, ReaderPC, Locked
<1>3. \A t \in Writers, w \in Works : Remove(t, w) => TypeOK'
  BY DEF Remove, Begin, TypeOK, WriterPC, ReaderPC, Locked
<1>4. \A t \in Writers : LockForCheck(t) => TypeOK'
  BY DEF LockForCheck, RLock, TypeOK, WriterPC, ReaderPC, Locked
<1>5. \A t \in Writers : Compare(t) => TypeOK'
  BY DEF Compare, RUnlock, Finish, TypeOK, WriterPC, ReaderPC, Locked
<1>6. \A t \in Writers : Announce(t) => TypeOK'
  BY DEF Announce, TypeOK, WriterPC, ReaderPC, Locked
<1>7. \A t \in Writers : Lock(t) => TypeOK'
  BY DEF Lock, TypeOK, WriterPC, ReaderPC, Locked
<1>8. \A t \in Writers : Recheck(t) => TypeOK'
  BY CallTypes, MapTypes DEF Recheck, Finish, TypeOK, WriterPC, ReaderPC, Locked
<1>9. \A t \in Writers, c \in Configs : Unref(t, c) => TypeOK'
  BY MapTypes DEF Unref, Without, TypeOK, WriterPC, ReaderPC, Locked
<1>10. \A t \in Writers, c \in Configs : Ref(t, c) => TypeOK'
  BY CallTypes, MapTypes DEF Ref, With, TypeOK, WriterPC, ReaderPC, Locked
<1>11. \A t \in Writers : Store(t) => TypeOK'
  BY CallTypes DEF Store, Finish, TypeOK, WriterPC, ReaderPC, Locked
<1>12. \A t \in Writers : Unlock(t) => TypeOK'
  BY DEF Unlock, Finish, TypeOK, WriterPC, ReaderPC, Locked
<1>13. \A r \in Readers, c \in Configs : GetNamespaces(r, c) => TypeOK'
  BY DEF GetNamespaces, TypeOK, WriterPC, ReaderPC, Locked
<1>14. \A r \in Readers : LockForRead(r) => TypeOK'
  BY DEF LockForRead, RLock, TypeOK, WriterPC, ReaderPC, Locked
<1>15. \A r \in Readers, ns \in Namespaces : Collect(r, ns) => TypeOK'
  BY DEF Collect, TypeOK, WriterPC, ReaderPC, Locked
<1>16. \A r \in Readers : Return(r) => TypeOK'
  BY DEF Return, RUnlock, TypeOK, WriterPC, ReaderPC, Locked
<1> QED
  BY <1>1, <1>2, <1>3, <1>4, <1>5, <1>6, <1>7, <1>8, <1>9, <1>10, <1>11,
     <1>12, <1>13, <1>14, <1>15, <1>16, NextCases, Zenon

\* Type correctness of the cache (cache.go:9-21).
THEOREM TypeCorrect == Spec => []TypeOK
<1>1. Init => TypeOK
  BY InitType
<1>2. TypeOK /\ [Next]_vars => TypeOK'
  BY StepType
<1> QED BY <1>1, <1>2, PTL DEF Spec
-----------------------------------------------------------------------------
(* The lock.  The write lock has one owner from the moment it is announced,  *)
(* and a thread is among the holders of the read lock exactly while it reads. *)

LockInv ==
  /\ \A t \in Writers : pc[t] \in Locked \cup {"wait"} <=> writer = t
  /\ \A t \in Writers : pc[t] \in Locked => holders = {}
  /\ \A x \in Writers \cup Readers : x \in holders <=> pc[x] \in {"compare", "collect"}

LEMMA InitLock == Init => LockInv
BY DEF Init, LockInv, Locked

LEMMA StepLock == TypeOK /\ LockInv /\ [Next]_vars => LockInv'
<1> SUFFICES ASSUME TypeOK, LockInv, [Next]_vars PROVE LockInv'
  OBVIOUS
<1> USE DEF mapVars, lockVars, readerVars, Goto, LockInv, TypeOK, Locked
<1>1. CASE UNCHANGED vars
  BY <1>1 DEF vars
<1>2. \A t \in Writers, w \in Works, S \in SUBSET Configs : Add(t, w, S) => LockInv'
  BY DEF Add, Begin
<1>3. \A t \in Writers, w \in Works : Remove(t, w) => LockInv'
  BY DEF Remove, Begin
<1>4. \A t \in Writers : LockForCheck(t) => LockInv'
  BY DEF LockForCheck, RLock
<1>5. \A t \in Writers : Compare(t) => LockInv'
  BY DEF Compare, RUnlock, Finish
<1>6. \A t \in Writers : Announce(t) => LockInv'
  BY DEF Announce
<1>7. \A t \in Writers : Lock(t) => LockInv'
  BY DEF Lock
<1>8. \A t \in Writers : Recheck(t) => LockInv'
  BY DEF Recheck, Finish
<1>9. \A t \in Writers, c \in Configs : Unref(t, c) => LockInv'
  BY DEF Unref
<1>10. \A t \in Writers, c \in Configs : Ref(t, c) => LockInv'
  BY DEF Ref
<1>11. \A t \in Writers : Store(t) => LockInv'
  BY DEF Store, Finish
<1>12. \A t \in Writers : Unlock(t) => LockInv'
  BY DEF Unlock, Finish
<1>13. \A r \in Readers, c \in Configs : GetNamespaces(r, c) => LockInv'
  BY DEF GetNamespaces
<1>14. \A r \in Readers : LockForRead(r) => LockInv'
  BY DEF LockForRead, RLock
<1>15. \A r \in Readers, ns \in Namespaces : Collect(r, ns) => LockInv'
  BY DEF Collect
<1>16. \A r \in Readers : Return(r) => LockInv'
  BY DEF Return, RUnlock
<1> QED
  BY <1>1, <1>2, <1>3, <1>4, <1>5, <1>6, <1>7, <1>8, <1>9, <1>10, <1>11,
     <1>12, <1>13, <1>14, <1>15, <1>16, NextCases, Zenon

\* At most one thread is inside the write lock, and then no reader is.
LEMMA LockedAlone ==
  ASSUME TypeOK, LockInv, NEW t \in Writers, pc[t] \in Locked
  PROVE  /\ \A u \in Writers : pc[u] \in Locked => u = t
         /\ \A x \in Writers \cup Readers : pc[x] \notin {"compare", "collect"}
BY DEF LockInv

\* The loops of Add and Remove exclude each other and every reader
\* (cache.go:41, 80, 101).
THEOREM Exclusion == Spec => []LockExclusion
<1>1. Init => TypeOK /\ LockInv
  BY InitType, InitLock
<1>2. TypeOK /\ LockInv /\ [Next]_vars => (TypeOK /\ LockInv)'
  BY StepType, StepLock
<1>3. TypeOK /\ LockInv => LockExclusion
  BY DEF LockInv, LockExclusion
<1> QED BY <1>1, <1>2, <1>3, PTL DEF Spec
-----------------------------------------------------------------------------
(* The loops.  What a thread inside the write lock has done so far, and     *)
(* what is left: this is what makes NoStaleReference inductive.             *)

LoopInv ==
  \A t \in Writers :
    /\ pc[t] = "unref" =>
         /\ todo[t] \subseteq Dropped(call[t])
         /\ \A c \in Dropped(call[t]) \ todo[t] :
              NsOf(call[t].work) \notin Referrers(c)
    /\ pc[t] = "ref" => /\ call[t].configs # NoEntry
                        /\ mwKeyToConfigs[call[t].work] = call[t].configs
                        /\ todo[t] \subseteq call[t].configs

LEMMA InitLoop == Init => LoopInv /\ NoStaleReference /\ NoEmptySet
BY DEF Init, LoopInv, NoStaleReference, NoEmptySet, Referrers

\* A step that leaves the maps and the threads inside the lock alone.
LEMMA LoopUntouched ==
  ASSUME LoopInv, UNCHANGED mapVars,
         \A t \in Writers : pc'[t] \in {"unref", "ref"} =>
           pc'[t] = pc[t] /\ call'[t] = call[t] /\ todo'[t] = todo[t]
  PROVE  LoopInv'
BY DEF LoopInv, Dropped, Entry, Referrers, mapVars

LEMMA MapsUntouched ==
  ASSUME NoStaleReference, NoEmptySet, UNCHANGED mapVars
  PROVE  NoStaleReference' /\ NoEmptySet'
BY DEF NoStaleReference, NoEmptySet, Entry, Referrers, mapVars

LEMMA StepLoop ==
  TypeOK /\ LockInv /\ LoopInv /\ NoStaleReference /\ NoEmptySet /\ [Next]_vars
    => (LoopInv /\ NoStaleReference /\ NoEmptySet)'
<1> DEFINE Inv == LoopInv /\ NoStaleReference /\ NoEmptySet
<1> SUFFICES ASSUME TypeOK, LockInv, LoopInv, NoStaleReference, NoEmptySet,
                    [Next]_vars
             PROVE  Inv'
  OBVIOUS
<1>a. TypeOK'
  BY StepType
<1>1. CASE UNCHANGED vars
  BY <1>1, LoopUntouched, MapsUntouched DEF vars, mapVars
<1>2. \A t \in Writers, w \in Works, S \in SUBSET Configs : Add(t, w, S) => Inv'
  BY LoopUntouched, MapsUntouched DEF Add, Begin, Goto, TypeOK
<1>3. \A t \in Writers, w \in Works : Remove(t, w) => Inv'
  BY LoopUntouched, MapsUntouched DEF Remove, Begin, Goto, TypeOK
<1>4. \A t \in Writers : LockForCheck(t) => Inv'
  BY LoopUntouched, MapsUntouched DEF LockForCheck, Goto, TypeOK
<1>5. \A t \in Writers : Compare(t) => Inv'
  BY LoopUntouched, MapsUntouched DEF Compare, Finish, Goto, TypeOK
<1>6. \A t \in Writers : Announce(t) => Inv'
  BY LoopUntouched, MapsUntouched DEF Announce, Goto, TypeOK
<1>7. \A t \in Writers : Lock(t) => Inv'
  BY LoopUntouched, MapsUntouched DEF Lock, Goto, TypeOK
<1>8. \A t \in Writers : Recheck(t) => Inv'
  <2> SUFFICES ASSUME NEW t \in Writers, Recheck(t) PROVE Inv'
    OBVIOUS
  <2>1. NoStaleReference' /\ NoEmptySet'
    BY MapsUntouched DEF Recheck
  <2>2. \A u \in Writers : pc[u] \in Locked => u = t
    BY LockedAlone DEF Recheck, Locked
  <2>3. LoopInv'
    BY <2>2 DEF Recheck, Finish, Goto, TypeOK, LoopInv, Dropped, Entry,
                Referrers, mapVars, Locked
  <2> QED BY <2>1, <2>3
<1>9. \A t \in Writers, c \in Configs : Unref(t, c) => Inv'
  <2> SUFFICES ASSUME NEW t \in Writers, NEW c \in Configs, Unref(t, c) PROVE Inv'
    OBVIOUS
  <2> DEFINE ns == NsOf(call[t].work)
  <2>1. \A d \in Configs :
          Referrers(d)' = IF d = c THEN Referrers(d) \ {ns} ELSE Referrers(d)
    BY DEF Unref, Without, Referrers, TypeOK
  <2>2. \A w \in Works : Entry(w)' = Entry(w)
    BY DEF Unref, Entry
  <2>3. NoStaleReference'
    BY <2>1, <2>2 DEF NoStaleReference
  <2>4. NoEmptySet'
    BY DEF NoEmptySet, Unref, Without, TypeOK
  <2>5. \A u \in Writers : pc[u] \in Locked => u = t
    BY LockedAlone DEF Unref, Locked
  <2>6. Dropped(call[t])' = Dropped(call[t]) /\ Dropped(call[t]) \in SUBSET Configs
    <3>1. call[t] \in WriteCall
      BY CallTypes DEF Unref
    <3> QED BY <2>2, <3>1, MapTypes DEF Dropped, Unref
  <2>7. LoopInv'
    BY <2>1, <2>5, <2>6 DEF LoopInv, Unref, TypeOK, Locked
  <2> QED BY <2>3, <2>4, <2>7
<1>10. \A t \in Writers, c \in Configs : Ref(t, c) => Inv'
  <2> SUFFICES ASSUME NEW t \in Writers, NEW c \in Configs, Ref(t, c) PROVE Inv'
    OBVIOUS
  <2> DEFINE ns == NsOf(call[t].work)
  <2>0. call[t].work \in Works /\ ns \in Namespaces
    BY CallTypes DEF Ref
  <2>1. \A d \in Configs :
          Referrers(d)' = IF d = c THEN Referrers(d) \cup {ns} ELSE Referrers(d)
    <3>1. configToMWNs'[c] = Referrers(c) \cup {ns} /\ configToMWNs'[c] \in SUBSET Namespaces
      BY <2>0, MapTypes DEF Ref, With, TypeOK
    <3>2. configToMWNs'[c] # NoEntry
      BY <3>1
    <3> QED BY <3>1, <3>2 DEF Ref, Referrers, TypeOK
  <2>2. \A w \in Works : Entry(w)' = Entry(w)
    BY DEF Ref, Entry
  <2>3. c \in Entry(call[t].work)
    BY DEF Ref, LoopInv, Entry
  <2>4. NoStaleReference'
    BY <2>0, <2>1, <2>2, <2>3 DEF NoStaleReference
  <2>5. NoEmptySet'
    BY DEF NoEmptySet, Ref, With, TypeOK
  <2>6. \A u \in Writers : pc[u] \in Locked => u = t
    BY LockedAlone DEF Ref, Locked
  <2>7. LoopInv'
    BY <2>6 DEF LoopInv, Ref, TypeOK, Locked
  <2> QED BY <2>4, <2>5, <2>7
<1>11. \A t \in Writers : Store(t) => Inv'
  <2> SUFFICES ASSUME NEW t \in Writers, Store(t) PROVE Inv'
    OBVIOUS
  <2>a. call[t] \in WriteCall
    BY CallTypes DEF Store
  <2>b. PICK w \in Works : w = call[t].work
    BY <2>a
  <2>c. PICK S \in {NoEntry} \cup SUBSET Configs : S = call[t].configs
    BY <2>a
  <2> DEFINE ns == NsOf(w)
  <2>1. \A d \in Configs : Referrers(d)' = Referrers(d)
    BY DEF Store, Referrers
  <2>2. \A v \in Works : v # w => Entry(v)' = Entry(v)
    BY <2>b DEF Store, Entry, TypeOK
  <2>3. Entry(w)' = IF S = NoEntry THEN {} ELSE S
    BY <2>b, <2>c DEF Store, Entry, TypeOK
  <2>4. \A d \in Configs : d \in Entry(w) /\ d \notin Entry(w)' => ns \notin Referrers(d)
    BY <2>b, <2>c, <2>3 DEF LoopInv, Store, Dropped
  <2>5. NoStaleReference'
    <3> SUFFICES ASSUME NEW c \in Configs, NEW n \in Referrers(c)'
                 PROVE  \E v \in Works : NsOf(v) = n /\ c \in Entry(v)'
      BY DEF NoStaleReference
    <3>1. PICK v \in Works : NsOf(v) = n /\ c \in Entry(v)
      BY <2>1 DEF NoStaleReference
    <3> QED BY <2>1, <2>2, <2>4, <3>1
  <2>6. NoEmptySet'
    BY DEF NoEmptySet, Store
  <2>7. \A u \in Writers : pc[u] \in Locked => u = t
    BY LockedAlone DEF Store, Locked
  <2>8. LoopInv'
    BY <2>a, <2>7 DEF LoopInv, Store, Finish, Goto, TypeOK, Locked
  <2> QED BY <2>5, <2>6, <2>8
<1>12. \A t \in Writers : Unlock(t) => Inv'
  BY LoopUntouched, MapsUntouched DEF Unlock, Finish, Goto, TypeOK
<1>13. \A r \in Readers, c \in Configs : GetNamespaces(r, c) => Inv'
  BY LoopUntouched, MapsUntouched DEF GetNamespaces, Goto, TypeOK
<1>14. \A r \in Readers : LockForRead(r) => Inv'
  BY LoopUntouched, MapsUntouched DEF LockForRead, Goto, TypeOK
<1>15. \A r \in Readers, ns \in Namespaces : Collect(r, ns) => Inv'
  BY LoopUntouched, MapsUntouched DEF Collect
<1>16. \A r \in Readers : Return(r) => Inv'
  BY LoopUntouched, MapsUntouched DEF Return, Goto, TypeOK
<1> QED
  <2> HIDE DEF Inv
  <2> QED
    BY <1>1, <1>2, <1>3, <1>4, <1>5, <1>6, <1>7, <1>8, <1>9, <1>10, <1>11,
       <1>12, <1>13, <1>14, <1>15, <1>16, NextCases, Zenon

\* The part of the inductive invariant that holds whatever the callers do.
SafeInv == TypeOK /\ LockInv /\ LoopInv /\ NoStaleReference /\ NoEmptySet

LEMMA SafeInvariant == Spec => []SafeInv
<1>1. Init => SafeInv
  BY InitType, InitLock, InitLoop DEF SafeInv
<1>2. SafeInv /\ [Next]_vars => SafeInv'
  BY StepType, StepLock, StepLoop DEF SafeInv
<1> QED BY <1>1, <1>2, PTL DEF Spec

\* A change of a configuration never wakes a cluster none of whose works
\* carries it (cache.go:51-57, 83-87), even if callers break the NOTE.
THEOREM NeverStale == Spec => []NoStaleReference
<1>1. SafeInv => NoStaleReference
  BY DEF SafeInv
<1> QED BY <1>1, SafeInvariant, PTL

\* The map holds no empty set (cache.go:94-96).
THEOREM NeverEmpty == Spec => []NoEmptySet
<1>1. SafeInv => NoEmptySet
  BY DEF SafeInv
<1> QED BY <1>1, SafeInvariant, PTL
-----------------------------------------------------------------------------
(* Callers that keep to the NOTE.  Works of a namespace claim disjoint sets *)
(* of configurations, so what the first loop of a call drops is referenced  *)
(* by no other work; each configuration a work carries is referenced, or    *)
(* the thread inside the lock is still to drop it or to add it.             *)

ClaimsInv ==
  \A v, w \in Works : v # w /\ NsOf(v) = NsOf(w) => Claims(v) \cap Claims(w) = {}

InLoop(t, w, c) ==
  /\ call[t] # NoCall /\ call[t].work = w
  /\ \/ pc[t] = "unref" /\ c \in Dropped(call[t])
     \/ pc[t] = "ref" /\ c \in todo[t]

FoundInv ==
  \A w \in Works : \A c \in Entry(w) :
    NsOf(w) \in Referrers(c) \/ \E t \in Writers : InLoop(t, w, c)

LEMMA InitFound == Init => ClaimsInv /\ FoundInv
BY DEF Init, ClaimsInv, FoundInv, Claims, Entry

\* Only the start of an Add adds to what a work claims.
LEMMA ClaimsShrink ==
  ASSUME ClaimsInv, \A w \in Works : Claims(w)' \subseteq Claims(w)
  PROVE  ClaimsInv'
BY DEF ClaimsInv

\* A step that ends calls, or leaves them, and the work table alone.
LEMMA ClaimsKept ==
  ASSUME ClaimsInv, UNCHANGED mwKeyToConfigs,
         \A t \in Writers : call'[t] = call[t] \/ call'[t] = NoCall
  PROVE  ClaimsInv'
<1>1. ASSUME NEW w \in Works PROVE Claims(w)' \subseteq Claims(w)
  BY DEF Claims, Entry
<1> QED BY <1>1, ClaimsShrink

LEMMA StepClaims ==
  Exclusive /\ TypeOK /\ ClaimsInv /\ [Next]_vars => ClaimsInv'
<1> SUFFICES ASSUME Exclusive, TypeOK, ClaimsInv, [Next]_vars PROVE ClaimsInv'
  OBVIOUS
<1> USE DEF mapVars
<1>1. CASE UNCHANGED vars
  BY <1>1, ClaimsKept DEF vars
<1>2. \A t \in Writers, w \in Works, S \in SUBSET Configs : Add(t, w, S) => ClaimsInv'
  <2> SUFFICES ASSUME NEW t \in Writers, NEW w \in Works, NEW S \in SUBSET Configs,
                      Add(t, w, S)
               PROVE  ClaimsInv'
    OBVIOUS
  <2>1. call[t] = NoCall /\ call' = [call EXCEPT ![t] = [work |-> w, configs |-> S]]
    BY DEF Add, Begin, TypeOK
  <2>2. \A v \in Works : Entry(v)' = Entry(v)
    BY DEF Add, Begin, Entry
  <2>3. \A v \in Works : Claims(v)' \subseteq Claims(v) \cup (IF v = w THEN S ELSE {})
    BY <2>1, <2>2 DEF Claims, TypeOK
  <2>4. \A v \in Works : v # w /\ NsOf(v) = NsOf(w) => Claims(v) \cap S = {}
    BY DEF Add, OneWorkPerNamespace
  <2> QED BY <2>3, <2>4 DEF ClaimsInv
<1>3. \A t \in Writers, w \in Works : Remove(t, w) => ClaimsInv'
  <2> SUFFICES ASSUME NEW t \in Writers, NEW w \in Works, Remove(t, w)
               PROVE  ClaimsInv'
    OBVIOUS
  <2>1. call' = [call EXCEPT ![t] = [work |-> w, configs |-> NoEntry]]
    BY DEF Remove, Begin
  <2>2. \A v \in Works : Claims(v)' \subseteq Claims(v)
    BY <2>1 DEF Claims, Entry, TypeOK, Remove, Begin
  <2> QED BY <2>2, ClaimsShrink
<1>4. \A t \in Writers : LockForCheck(t) => ClaimsInv'
  BY ClaimsKept DEF LockForCheck
<1>5. \A t \in Writers : Compare(t) => ClaimsInv'
  BY ClaimsKept DEF Compare, Finish, TypeOK
<1>6. \A t \in Writers : Announce(t) => ClaimsInv'
  BY ClaimsKept DEF Announce
<1>7. \A t \in Writers : Lock(t) => ClaimsInv'
  BY ClaimsKept DEF Lock
<1>8. \A t \in Writers : Recheck(t) => ClaimsInv'
  BY ClaimsKept DEF Recheck, Finish, TypeOK
<1>9. \A t \in Writers, c \in Configs : Unref(t, c) => ClaimsInv'
  BY ClaimsKept DEF Unref
<1>10. \A t \in Writers, c \in Configs : Ref(t, c) => ClaimsInv'
  BY ClaimsKept DEF Ref
<1>11. \A t \in Writers : Store(t) => ClaimsInv'
  <2> SUFFICES ASSUME NEW t \in Writers, Store(t) PROVE ClaimsInv'
    OBVIOUS
  <2>1. call[t] \in WriteCall /\ call[t] # NoCall
    BY CallTypes DEF Store, TypeOK
  <2>2. PICK w \in Works, S \in {NoEntry} \cup SUBSET Configs :
          call[t] = [work |-> w, configs |-> S]
    BY <2>1
  <2>3. \A v \in Works :
          Entry(v)' = IF v = w THEN (IF S = NoEntry THEN {} ELSE S) ELSE Entry(v)
    BY <2>2 DEF Store, Entry, TypeOK
  <2>4. \A u \in Writers : call'[u] = call[u] \/ call'[u] = NoCall
    BY DEF Store, Finish, TypeOK
  <2>5. ASSUME NEW v \in Works, NEW c \in Claims(v)' PROVE c \in Claims(v)
    <3>1. CASE c \in Entry(v)'
      BY <2>1, <2>2, <2>3, <3>1 DEF Claims
    <3>2. CASE c \notin Entry(v)'
      BY <2>4, <3>2 DEF Claims
    <3> QED BY <3>1, <3>2
  <2> QED BY <2>5, ClaimsShrink
<1>12. \A t \in Writers : Unlock(t) => ClaimsInv'
  BY ClaimsKept DEF Unlock, Finish, TypeOK
<1>13. \A r \in Readers, c \in Configs : GetNamespaces(r, c) => ClaimsInv'
  BY ClaimsKept DEF GetNamespaces
<1>14. \A r \in Readers : LockForRead(r) => ClaimsInv'
  BY ClaimsKept DEF LockForRead
<1>15. \A r \in Readers, ns \in Namespaces : Collect(r, ns) => ClaimsInv'
  BY ClaimsKept DEF Collect
<1>16. \A r \in Readers : Return(r) => ClaimsInv'
  BY ClaimsKept DEF Return
<1> QED
  BY <1>1, <1>2, <1>3, <1>4, <1>5, <1>6, <1>7, <1>8, <1>9, <1>10, <1>11,
     <1>12, <1>13, <1>14, <1>15, <1>16, NextCases, Zenon

\* A step that changes neither the maps nor what a loop has left to do.
LEMMA FoundUntouched ==
  ASSUME FoundInv, UNCHANGED mapVars,
         \A t \in Writers : pc[t] \in {"unref", "ref"} =>
           pc'[t] = pc[t] /\ call'[t] = call[t] /\ todo'[t] = todo[t]
  PROVE  FoundInv'
<1>1. \A w \in Works : Entry(w)' = Entry(w)
  BY DEF Entry, mapVars
<1>2. \A t \in Writers, w \in Works : \A c : InLoop(t, w, c) => InLoop(t, w, c)'
  BY DEF InLoop, Dropped, Entry, mapVars
<1> QED
  BY <1>1, <1>2 DEF FoundInv, Referrers, mapVars

LEMMA StepFound ==
  /\ TypeOK /\ LockInv /\ LoopInv
  /\ ClaimsInv /\ FoundInv /\ [Next]_vars
  => FoundInv'
<1> SUFFICES ASSUME TypeOK, LockInv, LoopInv, ClaimsInv, FoundInv, [Next]_vars
             PROVE  FoundInv'
  OBVIOUS
<1>1. CASE UNCHANGED vars
  BY <1>1, FoundUntouched DEF vars, mapVars
<1>2. \A t \in Writers, w \in Works, S \in SUBSET Configs : Add(t, w, S) => FoundInv'
  BY FoundUntouched DEF Add, Begin, Goto, TypeOK
<1>3. \A t \in Writers, w \in Works : Remove(t, w) => FoundInv'
  BY FoundUntouched DEF Remove, Begin, Goto, TypeOK
<1>4. \A t \in Writers : LockForCheck(t) => FoundInv'
  BY FoundUntouched DEF LockForCheck, Goto, TypeOK
<1>5. \A t \in Writers : Compare(t) => FoundInv'
  BY FoundUntouched DEF Compare, Finish, Goto, TypeOK
<1>6. \A t \in Writers : Announce(t) => FoundInv'
  BY FoundUntouched DEF Announce, Goto, TypeOK
<1>7. \A t \in Writers : Lock(t) => FoundInv'
  BY FoundUntouched DEF Lock, Goto, TypeOK
<1>8. \A t \in Writers : Recheck(t) => FoundInv'
  BY FoundUntouched DEF Recheck, Finish, Goto, TypeOK
<1>9. \A t \in Writers, c \in Configs : Unref(t, c) => FoundInv'
  <2> SUFFICES ASSUME NEW t \in Writers, NEW c \in Configs, Unref(t, c),
                      NEW w \in Works, NEW d \in Entry(w)'
               PROVE  NsOf(w) \in Referrers(d)' \/ \E u \in Writers : InLoop(u, w, d)'
    BY DEF FoundInv
  <2>1. /\ call[t] \in WriteCall /\ call[t] # NoCall /\ call'[t] = call[t]
        /\ c \in Dropped(call[t]) /\ Dropped(call[t])' = Dropped(call[t])
        /\ d \in Entry(w) /\ d \in Configs
        /\ c \in Entry(call[t].work)
    <3>1. call[t] \in WriteCall /\ call[t] # NoCall
      BY CallTypes DEF Unref, TypeOK
    <3>2. \A v \in Works : Entry(v)' = Entry(v)
      BY DEF Unref, Entry
    <3> QED BY <3>1, <3>2, MapTypes DEF Unref, LoopInv, Dropped
  <2>2. CASE \E u \in Writers : InLoop(u, w, d)
    <3>1. PICK u \in Writers : InLoop(u, w, d)
      BY <2>2
    <3>2. u = t
      BY <3>1, LockedAlone DEF InLoop, Unref, Locked
    <3>3. InLoop(t, w, d)'
      BY <2>1, <3>1, <3>2 DEF InLoop, Unref
    <3> QED BY <3>3
  <2>3. CASE NsOf(w) \in Referrers(d) /\ w = call[t].work /\ d = c
    BY <2>1, <2>3 DEF InLoop, Unref
  <2>4. CASE NsOf(w) \in Referrers(d) /\ w # call[t].work /\ d = c
    <3>1. NsOf(w) # NsOf(call[t].work)
      BY <2>1, <2>4 DEF ClaimsInv, Claims
    <3> QED BY <2>4, <3>1 DEF Unref, Without, Referrers, TypeOK
  <2>5. CASE NsOf(w) \in Referrers(d) /\ d # c
    BY <2>1, <2>5 DEF Unref, Referrers, TypeOK
  <2> QED BY <2>1, <2>2, <2>3, <2>4, <2>5 DEF FoundInv
<1>10. \A t \in Writers, c \in Configs : Ref(t, c) => FoundInv'
  <2> SUFFICES ASSUME NEW t \in Writers, NEW c \in Configs, Ref(t, c),
                      NEW w \in Works, NEW d \in Entry(w)'
               PROVE  NsOf(w) \in Referrers(d)' \/ \E u \in Writers : InLoop(u, w, d)'
    BY DEF FoundInv
  <2>1. /\ call[t] \in WriteCall /\ call[t] # NoCall /\ call'[t] = call[t]
        /\ d \in Entry(w) /\ d \in Configs
    <3>1. call[t] \in WriteCall /\ call[t] # NoCall
      BY CallTypes DEF Ref, TypeOK
    <3>2. \A v \in Works : Entry(v)' = Entry(v)
      BY DEF Ref, Entry
    <3> QED BY <3>1, <3>2, MapTypes DEF Ref
  <2>2. /\ Referrers(c)' = Referrers(c) \cup {NsOf(call[t].work)}
        /\ \A e \in Configs : e # c => Referrers(e)' = Referrers(e)
    <3>1. /\ configToMWNs'[c] = Referrers(c) \cup {NsOf(call[t].work)}
          /\ configToMWNs'[c] \in SUBSET Namespaces
      BY <2>1, MapTypes DEF Ref, With, TypeOK
    <3>2. configToMWNs'[c] # NoEntry
      BY <3>1
    <3> QED BY <3>1, <3>2 DEF Ref, Referrers, TypeOK
  <2>3. CASE \E u \in Writers : InLoop(u, w, d)
    <3>1. PICK u \in Writers : InLoop(u, w, d)
      BY <2>3
    <3>2. u = t
      BY <3>1, LockedAlone DEF InLoop, Ref, Locked
    <3>3. call[t].work = w /\ d \in todo[t]
      BY <3>1, <3>2 DEF InLoop, Ref
    <3>4. CASE d = c
      BY <2>2, <3>3, <3>4
    <3>5. CASE d # c
      BY <2>1, <3>3, <3>5 DEF InLoop, Ref, TypeOK
    <3> QED BY <3>4, <3>5
  <2>4. CASE NsOf(w) \in Referrers(d)
    BY <2>1, <2>2, <2>4
  <2> QED BY <2>1, <2>3, <2>4 DEF FoundInv
<1>11. \A t \in Writers : Store(t) => FoundInv'
  <2> SUFFICES ASSUME NEW t \in Writers, Store(t),
                      NEW w \in Works, NEW d \in Entry(w)'
               PROVE  NsOf(w) \in Referrers(d)' \/ \E u \in Writers : InLoop(u, w, d)'
    BY DEF FoundInv
  <2>1. call[t] \in WriteCall /\ call[t] # NoCall
    BY CallTypes DEF Store, TypeOK
  <2>2. CASE w = call[t].work
    BY <2>1, <2>2 DEF InLoop, Store, Entry, TypeOK, Goto, Finish
  <2>3. CASE w # call[t].work
    <3>1. d \in Entry(w)
      BY <2>1, <2>3 DEF Store, Entry, TypeOK
    <3>2. \A u \in Writers : ~InLoop(u, w, d)
      BY <2>3, LockedAlone DEF InLoop, Store, Locked
    <3>3. Referrers(d)' = Referrers(d)
      BY DEF Store, Referrers
    <3> QED BY <3>1, <3>2, <3>3 DEF FoundInv
  <2> QED BY <2>2, <2>3
<1>12. \A t \in Writers : Unlock(t) => FoundInv'
  <2> SUFFICES ASSUME NEW t \in Writers, Unlock(t) PROVE FoundInv'
    OBVIOUS
  <2>1. \A u \in Writers, w \in Works : \A c : ~InLoop(u, w, c)
    BY LockedAlone DEF InLoop, Unlock, Locked
  <2> QED BY <2>1 DEF FoundInv, Unlock, Entry, Referrers, mapVars
<1>13. \A r \in Readers, c \in Configs : GetNamespaces(r, c) => FoundInv'
  BY FoundUntouched DEF GetNamespaces, Goto, TypeOK
<1>14. \A r \in Readers : LockForRead(r) => FoundInv'
  BY FoundUntouched DEF LockForRead, Goto, TypeOK
<1>15. \A r \in Readers, ns \in Namespaces : Collect(r, ns) => FoundInv'
  BY FoundUntouched DEF Collect
<1>16. \A r \in Readers : Return(r) => FoundInv'
  BY FoundUntouched DEF Return, Goto, TypeOK
<1> QED
  BY <1>1, <1>2, <1>3, <1>4, <1>5, <1>6, <1>7, <1>8, <1>9, <1>10, <1>11,
     <1>12, <1>13, <1>14, <1>15, <1>16, NextCases, Zenon

\* What a reader has collected is what the map still says: no writer gets in
\* while it reads.
ReadInv ==
  \A r \in Readers :
    /\ pc[r] = "check" => result[r] = {}
    /\ pc[r] = "collect" => result[r] \subseteq Referrers(lookup[r])

LEMMA InitRead == Init => ReadInv
BY DEF Init, ReadInv

\* A step of a writer that does not touch the map readers read.
LEMMA ReadUntouched ==
  ASSUME ReadInv, UNCHANGED <<configToMWNs, lookup, result>>,
         \A r \in Readers : pc'[r] = pc[r]
  PROVE  ReadInv'
BY DEF ReadInv, Referrers

LEMMA StepRead == TypeOK /\ LockInv /\ ReadInv /\ [Next]_vars => ReadInv'
<1> SUFFICES ASSUME TypeOK, LockInv, ReadInv, [Next]_vars PROVE ReadInv'
  OBVIOUS
<1> USE DEF mapVars, readerVars, Goto
<1>1. CASE UNCHANGED vars
  BY <1>1, ReadUntouched DEF vars
<1>2. \A t \in Writers, w \in Works, S \in SUBSET Configs : Add(t, w, S) => ReadInv'
  BY ReadUntouched DEF Add, Begin, TypeOK
<1>3. \A t \in Writers, w \in Works : Remove(t, w) => ReadInv'
  BY ReadUntouched DEF Remove, Begin, TypeOK
<1>4. \A t \in Writers : LockForCheck(t) => ReadInv'
  BY ReadUntouched DEF LockForCheck, TypeOK
<1>5. \A t \in Writers : Compare(t) => ReadInv'
  BY ReadUntouched DEF Compare, Finish, TypeOK
<1>6. \A t \in Writers : Announce(t) => ReadInv'
  BY ReadUntouched DEF Announce, TypeOK
<1>7. \A t \in Writers : Lock(t) => ReadInv'
  BY ReadUntouched DEF Lock, TypeOK
<1>8. \A t \in Writers : Recheck(t) => ReadInv'
  BY ReadUntouched DEF Recheck, Finish, TypeOK
<1>9. \A t \in Writers, c \in Configs : Unref(t, c) => ReadInv'
  BY LockedAlone DEF Unref, ReadInv, Locked
<1>10. \A t \in Writers, c \in Configs : Ref(t, c) => ReadInv'
  BY LockedAlone DEF Ref, ReadInv, Locked
<1>11. \A t \in Writers : Store(t) => ReadInv'
  BY ReadUntouched DEF Store, Finish, TypeOK
<1>12. \A t \in Writers : Unlock(t) => ReadInv'
  BY ReadUntouched DEF Unlock, Finish, TypeOK
<1>13. \A r \in Readers, c \in Configs : GetNamespaces(r, c) => ReadInv'
  BY DEF GetNamespaces, ReadInv, Referrers, TypeOK
<1>14. \A r \in Readers : LockForRead(r) => ReadInv'
  BY DEF LockForRead, ReadInv, Referrers, TypeOK
<1>15. \A r \in Readers, ns \in Namespaces : Collect(r, ns) => ReadInv'
  BY DEF Collect, ReadInv, Referrers, TypeOK
<1>16. \A r \in Readers : Return(r) => ReadInv'
  BY DEF Return, ReadInv, Referrers, TypeOK
<1> QED
  BY <1>1, <1>2, <1>3, <1>4, <1>5, <1>6, <1>7, <1>8, <1>9, <1>10, <1>11,
     <1>12, <1>13, <1>14, <1>15, <1>16, NextCases, Zenon

\* The inductive invariant under the NOTE.
ExclusiveInv == SafeInv /\ ClaimsInv /\ FoundInv /\ ReadInv

LEMMA StepExclusive ==
  Exclusive /\ ExclusiveInv /\ [Next]_vars => ExclusiveInv'
BY StepType, StepLock, StepLoop, StepClaims, StepFound, StepRead
   DEF ExclusiveInv, SafeInv

LEMMA ExclusiveInvariant == Exclusive /\ Spec => []ExclusiveInv
<1>1. Init => ExclusiveInv
  BY InitType, InitLock, InitLoop, InitFound, InitRead DEF ExclusiveInv, SafeInv
<1>2. CASE Exclusive
  <2>1. ExclusiveInv /\ [Next]_vars => ExclusiveInv'
    BY <1>2, StepExclusive
  <2> QED BY <1>1, <2>1, PTL DEF Spec
<1>3. CASE ~Exclusive
  BY <1>3
<1> QED BY <1>2, <1>3

LEMMA FoundWhenUnlocked == FoundInv => NoLostReference
BY DEF FoundInv, NoLostReference, InLoop, Locked

\* Under the NOTE of cache.go:13-16 no work is lost: outside the write lock
\* each configuration a work carries leads to its namespace.
THEOREM NeverLost == Exclusive /\ Spec => []NoLostReference
<1>1. ExclusiveInv => NoLostReference
  BY FoundWhenUnlocked DEF ExclusiveInv
<1>2. CASE Exclusive
  BY <1>1, <1>2, ExclusiveInvariant, PTL
<1>3. CASE ~Exclusive
  BY <1>3
<1> QED BY <1>2, <1>3
-----------------------------------------------------------------------------
(* The cache implements ReferenceIndex: a write takes effect where it stores *)
(* the work's entry, or where it finds that there is nothing to do; a lookup *)
(* is answered where it releases the read lock.                              *)

\* Outside the write lock the two maps say the same.
LEMMA ReferrersAreUsers ==
  ASSUME SafeInv, NoLostReference, \A t \in Writers : pc[t] \notin Locked,
         NEW c \in Configs
  PROVE  Referrers(c) = Index!Users(c)
<1>1. \A w \in Works : Index!Carries(w, c) <=> c \in Entry(w)
  BY DEF Index!Carries, Entry
<1>2. ASSUME NEW n \in Referrers(c) PROVE n \in Index!Users(c)
  BY <1>1 DEF SafeInv, NoStaleReference, Index!Users
<1>3. ASSUME NEW n \in Index!Users(c) PROVE n \in Referrers(c)
  BY <1>1 DEF NoLostReference, Index!Users
<1> QED BY <1>2, <1>3

LEMMA InitRefines == Init => Index!Init
BY DEF Init, Index!Init, Unapplied, Answered

\* A step in which no call takes effect and no lookup is answered.
LEMMA Stutter ==
  ASSUME UNCHANGED <<mwKeyToConfigs, Unapplied, lookup, Answered>>
  PROVE  UNCHANGED Index!vars
BY DEF Index!vars

\* A writer's call takes effect when it leaves the entry it asked for.
LEMMA TakesEffect ==
  ASSUME NEW t \in Writers, Unapplied[t] # NoCall,
         mwKeyToConfigs' =
           [mwKeyToConfigs EXCEPT ![Unapplied[t].work] = Unapplied[t].configs],
         Unapplied' = [Unapplied EXCEPT ![t] = NoCall],
         UNCHANGED <<lookup, Answered>>
  PROVE  Index!Next
BY DEF Index!Effect, Index!Next

\* Finding nothing to do is the effect of a call that changes nothing.
LEMMA EarlyReturnTakesEffect ==
  ASSUME TypeOK, NEW t \in Writers, pc[t] \in {"compare", "recheck"},
         NothingToDo(call[t]), Finish(t), UNCHANGED <<mapVars, readerVars>>
  PROVE  Index!Next
<1>1. Unapplied[t] = call[t] /\ call[t] # NoCall
  BY DEF Unapplied, TypeOK
<1>2. mwKeyToConfigs' = [mwKeyToConfigs EXCEPT ![call[t].work] = call[t].configs]
  BY DEF NothingToDo, TypeOK, mapVars
<1>3. Unapplied' = [Unapplied EXCEPT ![t] = NoCall]
  BY DEF Unapplied, Finish, Goto, TypeOK
<1>4. UNCHANGED <<lookup, Answered>>
  BY DEF readerVars, Answered
<1> QED BY <1>1, <1>2, <1>3, <1>4, TakesEffect

\* A writer between the start of its call and its effect, or past its effect.
LEMMA WriterStutter ==
  ASSUME TypeOK, NEW t \in Writers,
         pc'[t] \in {"idle", "ref"} <=> pc[t] \in {"idle", "ref"},
         pc[t] \in {"idle", "ref"} \/ call'[t] = call[t],
         \A x \in Writers : x # t => pc'[x] = pc[x] /\ call'[x] = call[x],
         UNCHANGED <<mwKeyToConfigs, readerVars>>
  PROVE  UNCHANGED Index!vars
<1>1. UNCHANGED Unapplied
  BY DEF Unapplied
<1>2. UNCHANGED <<lookup, Answered>>
  BY DEF readerVars, Answered
<1> QED BY <1>1, <1>2, Stutter

LEMMA StepRefines ==
  ExclusiveInv /\ [Next]_vars => [Index!Next]_(Index!vars)
<1> DEFINE Step == Index!Next \/ UNCHANGED Index!vars
<1> SUFFICES ASSUME ExclusiveInv, [Next]_vars PROVE Step
  OBVIOUS
<1>a. TypeOK /\ LockInv /\ LoopInv /\ ReadInv /\ SafeInv /\ NoLostReference
  BY FoundWhenUnlocked DEF ExclusiveInv, SafeInv
<1>b. ASSUME NEW t \in Writers, NEW k \in WriteCall, Begin(t, k) PROVE Index!Next
  <2>1. Unapplied[t] = NoCall
    BY <1>b DEF Begin, Unapplied
  <2>2. Unapplied' = [Unapplied EXCEPT ![t] = k]
    BY <1>a, <1>b DEF Begin, Goto, Unapplied, TypeOK
  <2>3. UNCHANGED <<mwKeyToConfigs, lookup, Answered>>
    BY <1>b DEF Begin, mapVars, readerVars, Answered
  <2>4. k \in Index!WriteCall
    BY DEF Index!WriteCall
  <2> QED BY <2>1, <2>2, <2>3, <2>4 DEF Index!Call, Index!Next
<1>1. CASE UNCHANGED vars
  BY <1>1, Stutter DEF vars, mapVars, readerVars, Unapplied, Answered
<1>2. \A t \in Writers, w \in Works, S \in SUBSET Configs : Add(t, w, S) => Step
  BY <1>b DEF Add
<1>3. \A t \in Writers, w \in Works : Remove(t, w) => Step
  BY <1>b DEF Remove
<1>4. \A t \in Writers : LockForCheck(t) => Step
  BY <1>a, WriterStutter DEF LockForCheck, Goto, TypeOK, mapVars
<1>5. \A t \in Writers : Compare(t) => Step
  <2> SUFFICES ASSUME NEW t \in Writers, Compare(t) PROVE Step
    OBVIOUS
  <2>1. CASE NothingToDo(call[t])
    BY <1>a, <2>1, EarlyReturnTakesEffect DEF Compare
  <2>2. CASE ~NothingToDo(call[t])
    BY <1>a, <2>2, WriterStutter DEF Compare, Goto, TypeOK, mapVars
  <2> QED BY <2>1, <2>2
<1>6. \A t \in Writers : Announce(t) => Step
  BY <1>a, WriterStutter DEF Announce, Goto, TypeOK, mapVars
<1>7. \A t \in Writers : Lock(t) => Step
  BY <1>a, WriterStutter DEF Lock, Goto, TypeOK, mapVars
<1>8. \A t \in Writers : Recheck(t) => Step
  <2> SUFFICES ASSUME NEW t \in Writers, Recheck(t) PROVE Step
    OBVIOUS
  <2>1. CASE NothingToDo(call[t])
    BY <1>a, <2>1, EarlyReturnTakesEffect DEF Recheck
  <2>2. CASE ~NothingToDo(call[t])
    BY <1>a, <2>2, WriterStutter DEF Recheck, Goto, TypeOK, mapVars
  <2> QED BY <2>1, <2>2
<1>9. \A t \in Writers, c \in Configs : Unref(t, c) => Step
  BY <1>a, WriterStutter DEF Unref
<1>10. \A t \in Writers, c \in Configs : Ref(t, c) => Step
  BY <1>a, WriterStutter DEF Ref
<1>11. \A t \in Writers : Store(t) => Step
  <2> SUFFICES ASSUME NEW t \in Writers, Store(t) PROVE Step
    OBVIOUS
  <2>1. Unapplied[t] = call[t] /\ call[t] # NoCall
    BY <1>a DEF Store, Unapplied, TypeOK
  <2>2. Unapplied' = [Unapplied EXCEPT ![t] = NoCall]
    BY <1>a DEF Store, Finish, Goto, Unapplied, TypeOK
  <2>3. UNCHANGED <<lookup, Answered>>
    BY DEF Store, readerVars, Answered
  <2> QED BY <2>1, <2>2, <2>3, TakesEffect DEF Store
<1>12. \A t \in Writers : Unlock(t) => Step
  BY <1>a, WriterStutter DEF Unlock, Finish, Goto, TypeOK, mapVars
<1>13. \A r \in Readers, c \in Configs : GetNamespaces(r, c) => Step
  <2> SUFFICES ASSUME NEW r \in Readers, NEW c \in Configs, GetNamespaces(r, c)
               PROVE  Index!Ask(r)
    BY DEF Index!Next
  <2>1. lookup[r] = NoCall
    BY <1>a DEF GetNamespaces, TypeOK
  <2>2. Answered' = [Answered EXCEPT ![r] = {}]
    BY <1>a DEF GetNamespaces, Answered, TypeOK
  <2>3. UNCHANGED Unapplied
    BY <1>a DEF GetNamespaces, Goto, Unapplied, TypeOK
  <2> QED BY <2>1, <2>2, <2>3 DEF GetNamespaces, mapVars, Index!Ask
<1>14. \A r \in Readers : LockForRead(r) => Step
  <2> SUFFICES ASSUME NEW r \in Readers, LockForRead(r) PROVE Step
    OBVIOUS
  <2>1. UNCHANGED <<Unapplied, Answered>>
    BY <1>a DEF LockForRead, Goto, Unapplied, Answered, TypeOK, readerVars
  <2> QED BY <2>1, Stutter DEF LockForRead, mapVars, readerVars
<1>15. \A r \in Readers, ns \in Namespaces : Collect(r, ns) => Step
  <2> SUFFICES ASSUME NEW r \in Readers, NEW ns \in Namespaces, Collect(r, ns) PROVE Step
    OBVIOUS
  <2>1. UNCHANGED <<Unapplied, Answered>>
    BY <1>a DEF Collect, Unapplied, Answered, TypeOK
  <2> QED BY <2>1, Stutter DEF Collect, mapVars
<1>16. \A r \in Readers : Return(r) => Step
  <2> SUFFICES ASSUME NEW r \in Readers, Return(r) PROVE Index!Answer(r)
    BY DEF Index!Next
  <2>1. lookup[r] \in Configs /\ lookup[r] # NoCall
    BY <1>a DEF Return, TypeOK
  <2>2. result[r] = Referrers(lookup[r])
    BY <1>a DEF Return, ReadInv
  <2>3. \A t \in Writers : pc[t] \notin Locked
    BY <1>a DEF Return, LockInv
  <2>4. result[r] = Index!Users(lookup[r])
    BY <1>a, <2>1, <2>2, <2>3, ReferrersAreUsers
  <2>5. Answered' = [Answered EXCEPT ![r] = result[r]]
    BY <1>a DEF Return, Answered, TypeOK
  <2>6. UNCHANGED Unapplied
    BY <1>a DEF Return, Goto, Unapplied, TypeOK
  <2> QED BY <2>1, <2>4, <2>5, <2>6 DEF Return, mapVars, Index!Answer
<1> QED
  <2> HIDE DEF Step
  <2> QED
    BY <1>1, <1>2, <1>3, <1>4, <1>5, <1>6, <1>7, <1>8, <1>9, <1>10, <1>11,
       <1>12, <1>13, <1>14, <1>15, <1>16, NextCases, Zenon

\* Under the NOTE the two maps behind their lock are one table of atomic
\* calls (cache.go:11-12): every lookup returns the namespaces of exactly the
\* works that carry the configuration at one instant of the lookup.
THEOREM Refinement == Exclusive /\ Spec => ImplementsIndex
<1>1. CASE Exclusive
  BY <1>1, InitRefines, StepRefines, ExclusiveInvariant, PTL
     DEF Spec, ImplementsIndex, Index!Spec
<1>2. CASE ~Exclusive
  BY <1>2
<1> QED BY <1>1, <1>2
=============================================================================

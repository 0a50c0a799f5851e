---------------------------- MODULE WatcherProofs ----------------------------
(***************************************************************************)
(* Proofs about the watcher, for any clusters, objects and contents, and   *)
(* any number of changes from outside.                                     *)
(***************************************************************************)
EXTENDS Watcher, SequenceTheorems, TLAPS

KeysOf(w) == IF w = NoWork THEN NoWork ELSE TrackedKeys(w)

\* Once all events of its work are handled, the cache has what a work carries.
Latest(es, known) == IF es = <<>> THEN known ELSE es[Len(es)]
KnownInv == \A n \in Clusters : KeysOf(work[n]) = Latest(workEvents[n], table[n])

\* Unless the cluster is to be rendered again, what it needs has been read, or
\* will be, and has been copied.
CopyInv ==
  \A n \in attached \ triggered : \A c \in Needs(n) \ Optional :
    IF render[n] = Idle
    THEN work[n] # NoWork => work[n][c] # Absent
    ELSE c \in render[n].todo \/ render[n].read[c] # Absent

\* An outdated copy: a rendering is pending, the watcher has still to hear of
\* the object, or it could not pass the change on.
Followed(n, c) == Pending(n, c) \/ configEvents[c] > 0 \/ c \in missed[n]
FreshInv == \A n \in Clusters, c \in Configs : Outdated(n, c) => Followed(n, c)

IInv == TypeOK /\ KnownInv /\ CopyInv /\ FreshInv
-----------------------------------------------------------------------------
USE WatcherAssumption

\* The steps of Next one by one, so that each proof below has one case each.
LEMMA NextCases ==
  ASSUME NEW ACTION P,
    \A c \in Configs, v \in Content : ChangeConfig(c, v) => P,
    \A c \in Flags : DeleteFlag(c) => P,
    \A n \in Clusters, S \in SUBSET Tracked : Configure(n, S) => P,
    \A n \in Clusters : Detach(n) => P,
    Restart => P,
    \A c \in Configs : HandleConfigEvent(c) => P,
    \A n \in Clusters : Observe(n) => P,
    \A n \in Clusters : HandleWorkEvent(n) => P,
    \A n \in Clusters : Reconcile(n) => P,
    \A n \in Clusters : StartRender(n) => P,
    \A n \in Clusters : Undeploy(n) => P,
    \A n \in Clusters, c \in Configs : Read(n, c) => P,
    \A n \in Clusters, c \in Configs : ReadMissing(n, c) => P,
    \A n \in Clusters : Apply(n) => P,
    \A n \in Clusters : ReportStatus(n) => P
  PROVE  Next => P
BY Zenon DEF Next, Outside, WatcherStep, ManagerStep

LEMMA NeedsType == ASSUME NEW n \in Clusters, TypeOK PROVE Needs(n) \subseteq Configs
BY DEF Needs, TypeOK

LEMMA KeysType == ASSUME NEW w \in {NoWork} \cup Copies PROVE KeysOf(w) \in Known
BY DEF KeysOf, TrackedKeys, Known

LEMMA InitType == Init => TypeOK
<1> SUFFICES ASSUME Init PROVE TypeOK
  OBVIOUS
<1> USE DEF Init
<1>1. source \in Copies
  OBVIOUS
<1>2. work \in [Clusters -> {NoWork} \cup Copies] /\ table \in [Clusters -> Known]
  BY DEF Known
<1>3. workEvents \in [Clusters -> Seq(Known)]
  OBVIOUS
<1>4. observed \in [Clusters -> Nat] /\ \A n \in Clusters : observed[n] <= Len(workEvents[n])
  OBVIOUS
<1>5. render \in [Clusters -> {Idle} \cup Rendering]
  OBVIOUS
<1>6. wants \in [Clusters -> SUBSET Tracked] /\ configEvents \in [Configs -> Nat]
  OBVIOUS
<1>7. /\ attached \subseteq Clusters /\ queue \subseteq Clusters
      /\ triggered \subseteq Clusters /\ reporting \subseteq Clusters
      /\ events \in 0..MaxEvents
      /\ missed \in [Clusters -> SUBSET Configs]
  OBVIOUS
<1> QED BY <1>1, <1>2, <1>3, <1>4, <1>5, <1>6, <1>7 DEF TypeOK


LEMMA StepType == TypeOK /\ [Next]_vars => TypeOK'
<1> SUFFICES ASSUME TypeOK, [Next]_vars PROVE TypeOK'
  OBVIOUS
<1> USE DEF External, hubVars, watcherVars, renderVars
<1>1. CASE UNCHANGED vars
  BY <1>1 DEF vars, TypeOK
<1>2. \A c \in Configs, v \in Content : ChangeConfig(c, v) => TypeOK'
  BY DEF ChangeConfig, TypeOK, Copies
<1>17. \A c \in Flags : DeleteFlag(c) => TypeOK'
  BY DEF DeleteFlag, TypeOK, Copies, Content
<1>3. \A n \in Clusters, S \in SUBSET Tracked : Configure(n, S) => TypeOK'
  BY DEF Configure, TypeOK
<1>4. \A n \in Clusters : Detach(n) => TypeOK'
  BY DEF Detach, TypeOK
<1>5. Restart => TypeOK'
  <2> SUFFICES ASSUME Restart PROVE TypeOK'
    OBVIOUS
  <2>1. UNCHANGED <<source, attached, wants, work, reporting>>
    BY DEF Restart
  <2>2. workEvents' \in [Clusters -> Seq(Known)]
    <3>1. \A n \in Clusters : work[n] # NoWork => TrackedKeys(work[n]) \in Known
      BY DEF TrackedKeys, Known
    <3> QED BY <3>1 DEF Restart
  <2>3. observed' \in [Clusters -> Nat] /\ \A n \in Clusters : observed'[n] <= Len(workEvents'[n])
    BY DEF Restart
  <2>4. table' \in [Clusters -> Known]
    BY DEF Restart, Known
  <2>5. configEvents' \in [Configs -> Nat]
    BY DEF Restart
  <2>6. render' \in [Clusters -> {Idle} \cup Rendering]
    BY DEF Restart
  <2>7. /\ queue' \subseteq Clusters /\ triggered' \subseteq Clusters
        /\ events' \in 0..MaxEvents /\ missed' \in [Clusters -> SUBSET Configs]
    BY DEF Restart, TypeOK
  <2> QED BY <2>1, <2>2, <2>3, <2>4, <2>5, <2>6, <2>7 DEF TypeOK
<1>6. \A c \in Configs : HandleConfigEvent(c) => TypeOK'
  <2> SUFFICES ASSUME NEW c \in Configs, HandleConfigEvent(c) PROVE TypeOK'
    OBVIOUS
  <2>1. Requests(c) \subseteq Clusters
    BY DEF Requests
  <2>2. UNCHANGED <<hubVars, workEvents, observed, table, renderVars, events>>
        /\ queue' = queue \cup Requests(c)
        /\ configEvents' \in [Configs -> Nat]
        /\ missed' \in [Clusters -> SUBSET Configs]
    BY DEF HandleConfigEvent, TypeOK
  <2> QED BY <2>1, <2>2 DEF TypeOK
<1>7. \A n \in Clusters : Observe(n) => TypeOK'
  BY DEF Observe, TypeOK
<1>8. \A n \in Clusters : HandleWorkEvent(n) => TypeOK'
  <2> SUFFICES ASSUME NEW n \in Clusters, HandleWorkEvent(n) PROVE TypeOK'
    OBVIOUS
  <2>1. UNCHANGED <<hubVars, configEvents, queue, missed, renderVars, events>>
    BY DEF HandleWorkEvent
  <2>2. workEvents[n] \in Seq(Known) /\ workEvents[n] # <<>>
    BY DEF HandleWorkEvent, TypeOK
  <2>3. Head(workEvents[n]) \in Known /\ Tail(workEvents[n]) \in Seq(Known)
        /\ Len(Tail(workEvents[n])) = Len(workEvents[n]) - 1
    BY <2>2
  <2>4. workEvents' \in [Clusters -> Seq(Known)] /\ table' \in [Clusters -> Known]
    BY <2>3 DEF HandleWorkEvent, TypeOK
  <2>5. observed' \in [Clusters -> Nat] /\ \A m \in Clusters : observed'[m] <= Len(workEvents'[m])
    BY <2>2, <2>3 DEF HandleWorkEvent, TypeOK
  <2> QED BY <2>1, <2>4, <2>5 DEF TypeOK
<1>9. \A n \in Clusters : Reconcile(n) => TypeOK'
  BY DEF Reconcile, TypeOK
<1>10. \A n \in Clusters : StartRender(n) => TypeOK'
  <2> SUFFICES ASSUME NEW n \in Clusters, StartRender(n) PROVE TypeOK'
    OBVIOUS
  <2>1. [todo |-> Needs(n), read |-> [c \in Configs |-> Absent]] \in Rendering
    BY NeedsType DEF Rendering, Copies, Content
  <2>2. render' \in [Clusters -> {Idle} \cup Rendering]
    BY <2>1 DEF StartRender, TypeOK
  <2> QED BY <2>2 DEF StartRender, TypeOK
<1>11. \A n \in Clusters : Undeploy(n) => TypeOK'
  <2> SUFFICES ASSUME NEW n \in Clusters, Undeploy(n) PROVE TypeOK'
    OBVIOUS
  <2>1. UNCHANGED <<hubVars, configEvents, observed, table, queue, missed, render, events>>
    BY DEF Undeploy
  <2>2. Append(workEvents[n], NoWork) \in Seq(Known)
        /\ Len(Append(workEvents[n], NoWork)) = Len(workEvents[n]) + 1
    BY DEF TypeOK, Known
  <2>3. workEvents' \in [Clusters -> Seq(Known)]
        /\ \A m \in Clusters : Len(workEvents[m]) <= Len(workEvents'[m])
    BY <2>2 DEF Undeploy, TypeOK
  <2>4. work' \in [Clusters -> {NoWork} \cup Copies]
    BY DEF Undeploy, TypeOK
  <2>5. triggered' \subseteq Clusters /\ reporting' \subseteq Clusters
    BY DEF Undeploy, TypeOK
  <2> QED BY <2>1, <2>3, <2>4, <2>5 DEF TypeOK
<1>12. \A n \in Clusters, c \in Configs : Read(n, c) => TypeOK'
  <2> SUFFICES ASSUME NEW n \in Clusters, NEW c \in Configs, Read(n, c) PROVE TypeOK'
    OBVIOUS
  <2>1. render[n] \in Rendering /\ source[c] \in Content
    BY DEF Read, TypeOK, Copies
  <2> DEFINE r == [todo |-> render[n].todo \ {c},
                    read |-> [render[n].read EXCEPT ![c] = source[c]]]
  <2>2. r \in Rendering
    BY <2>1 DEF Rendering, Copies
  <2>3. render' = [render EXCEPT ![n] = r]
    BY <2>1 DEF Read, TypeOK, Rendering, Copies
  <2>4. render' \in [Clusters -> {Idle} \cup Rendering]
    BY <2>2, <2>3 DEF TypeOK
  <2>5. missed' \in [Clusters -> SUBSET Configs]
    BY DEF Read, TypeOK
  <2> QED BY <2>4, <2>5 DEF Read, TypeOK
<1>13. \A n \in Clusters, c \in Configs : ReadMissing(n, c) => TypeOK'
  BY DEF ReadMissing, TypeOK
<1>14. \A n \in Clusters : Apply(n) => TypeOK'
  <2> SUFFICES ASSUME NEW n \in Clusters, Apply(n) PROVE TypeOK'
    OBVIOUS
  <2>1. UNCHANGED <<hubVars, configEvents, observed, table, queue, missed, triggered, events>>
        /\ render' \in [Clusters -> {Idle} \cup Rendering]
    BY DEF Apply, TypeOK
  <2>2. render[n].read \in Copies
    BY DEF Apply, TypeOK, Rendering
  <2>3. TrackedKeys(render[n].read) \in Known /\ workEvents[n] \in Seq(Known)
    BY DEF TypeOK, Known, TrackedKeys
  <2>4. workEvents' \in [Clusters -> Seq(Known)]
        /\ \A m \in Clusters : Len(workEvents[m]) <= Len(workEvents'[m])
    <3>1. CASE UNCHANGED workEvents
      BY <3>1 DEF TypeOK
    <3>2. CASE workEvents' =
            [workEvents EXCEPT ![n] = Append(@, TrackedKeys(render[n].read))]
      BY <2>3, <3>2 DEF TypeOK
    <3> QED BY <3>1, <3>2 DEF Apply
  <2>5. work' \in [Clusters -> {NoWork} \cup Copies] /\ reporting' \subseteq Clusters
    BY <2>2 DEF Apply, TypeOK
  <2> QED BY <2>1, <2>4, <2>5 DEF TypeOK
<1>15. \A n \in Clusters : ReportStatus(n) => TypeOK'
  BY DEF ReportStatus, TypeOK
<1>16. CASE Next
  BY <1>16, <1>2, <1>3, <1>4, <1>5, <1>6, <1>7, <1>8, <1>9, <1>10, <1>11, <1>12,
     <1>13, <1>14, <1>15, <1>17, NextCases
<1> QED BY <1>1, <1>16

\* What a rendering has read, and has still to read, after the read of c.
LEMMA ReadEffect ==
  ASSUME TypeOK, NEW n \in Clusters, NEW c \in Configs, Read(n, c)
  PROVE  /\ render[n] # Idle /\ render'[n] # Idle
         /\ render'[n].todo = render[n].todo \ {c}
         /\ \A d \in Configs :
              render'[n].read[d] = IF d = c THEN source[c] ELSE render[n].read[d]
         /\ \A m \in Clusters \ {n} : render'[m] = render[m]
<1>1. render[n] \in Rendering /\ render[n].read \in Copies /\ source[c] \in Content
  BY DEF Read, TypeOK, Copies, Rendering
<1> DEFINE r == [todo |-> render[n].todo \ {c}, read |-> [render[n].read EXCEPT ![c] = source[c]]]
<1>2. r \in Rendering
  BY <1>1 DEF Rendering, Copies
<1>3. r # Idle
  BY <1>2 DEF Rendering, Copies, Content
<1>4. render' = [render EXCEPT ![n] = r]
  BY <1>1 DEF Read, TypeOK
<1>5. render'[n] = r /\ \A m \in Clusters \ {n} : render'[m] = render[m]
  BY <1>4 DEF TypeOK
<1>6. \A d \in Configs : r.read[d] = IF d = c THEN source[c] ELSE render[n].read[d]
  BY <1>1 DEF Copies
<1>7. render[n] # Idle
  BY DEF Read
<1> QED BY <1>3, <1>5, <1>6, <1>7

\* Every reachable state is well typed.
THEOREM TypeCorrect == Spec => []TypeOK
BY InitType, StepType, PTL DEF Spec
-----------------------------------------------------------------------------
(* What the watcher knows of the works. *)

LEMMA LatestOfTail ==
  ASSUME NEW es \in Seq(Known), es # <<>>, NEW known
  PROVE  Latest(Tail(es), Head(es)) = Latest(es, known)
<1>1. Len(es) \in Nat /\ Len(es) > 0 /\ Head(es) = es[1]
  OBVIOUS
<1>2. Tail(es) \in Seq(Known) /\ Len(Tail(es)) = Len(es) - 1
      /\ \A i \in 1..Len(Tail(es)) : Tail(es)[i] = es[i + 1]
  BY HeadTailProperties
<1>3. CASE Tail(es) = <<>>
  <2>1. Len(es) = 1
    <3>1. Len(Tail(es)) = 0
      BY <1>3, EmptySeq, Zenon
    <3>2. Len(es) \in Nat /\ Len(Tail(es)) = Len(es) - 1
      BY <1>1, <1>2, Zenon
    <3>3. \A k \in Nat : 0 = k - 1 => k = 1
      OBVIOUS
    <3> QED BY <3>1, <3>2, <3>3, Zenon
  <2> QED BY <1>1, <1>3, <2>1 DEF Latest
<1>4. CASE Tail(es) # <<>>
  <2>1. Len(Tail(es)) > 0
    BY <1>2, <1>4, EmptySeq
  <2>2. Tail(es)[Len(Tail(es))] = es[Len(es)]
    BY <1>1, <1>2, <2>1
  <2> QED BY <1>4, <2>2 DEF Latest
<1> QED BY <1>3, <1>4

LEMMA LatestOfAppend ==
  ASSUME NEW es \in Seq(Known), NEW e \in Known, NEW known
  PROVE  Latest(Append(es, e), known) = e
BY DEF Latest

LEMMA InitKnown == Init => KnownInv
BY DEF Init, KnownInv, KeysOf, Latest

LEMMA StepKnown == TypeOK /\ KnownInv /\ [Next]_vars => KnownInv'
<1> SUFFICES ASSUME TypeOK, KnownInv, [Next]_vars PROVE KnownInv'
  OBVIOUS
<1>1. CASE UNCHANGED <<work, workEvents, table>>
  BY <1>1 DEF KnownInv
<1>2. CASE Restart
  BY <1>2 DEF Restart, KnownInv, KeysOf, Latest
<1>3. ASSUME NEW n \in Clusters, HandleWorkEvent(n) PROVE KnownInv'
  <2>1. workEvents[n] \in Seq(Known) /\ workEvents[n] # <<>>
    BY <1>3 DEF HandleWorkEvent, TypeOK
  <2>2. workEvents' = [workEvents EXCEPT ![n] = Tail(@)]
        /\ table' = [table EXCEPT ![n] = Head(workEvents[n])]
        /\ UNCHANGED work
    BY <1>3 DEF HandleWorkEvent, renderVars
  <2>3. workEvents'[n] = Tail(workEvents[n]) /\ table'[n] = Head(workEvents[n])
    BY <2>2 DEF TypeOK
  <2>4. Latest(workEvents'[n], table'[n]) = Latest(workEvents[n], table[n])
    BY <2>1, <2>3, LatestOfTail
  <2>5. \A m \in Clusters \ {n} : workEvents'[m] = workEvents[m] /\ table'[m] = table[m]
    BY <2>2 DEF TypeOK
  <2> QED BY <2>2, <2>4, <2>5 DEF KnownInv
<1>4. ASSUME NEW n \in Clusters, NEW w \in {NoWork} \cup Copies,
             work' = [work EXCEPT ![n] = w],
             workEvents' = [workEvents EXCEPT ![n] = Append(@, KeysOf(w))],
             UNCHANGED table
      PROVE  KnownInv'
  <2>1. workEvents[n] \in Seq(Known) /\ KeysOf(w) \in Known
    BY KeysType DEF TypeOK
  <2>2. Latest(workEvents'[n], table[n]) = KeysOf(w)
    BY <1>4, <2>1, LatestOfAppend DEF TypeOK
  <2>3. work'[n] = w /\ \A m \in Clusters \ {n} :
          work'[m] = work[m] /\ workEvents'[m] = workEvents[m] /\ table'[m] = table[m]
    BY <1>4 DEF TypeOK
  <2> QED BY <1>4, <2>2, <2>3 DEF KnownInv
<1>5. ASSUME NEW n \in Clusters, Undeploy(n) PROVE KnownInv'
  <2>1. CASE work[n] = NoWork
    <3>1. UNCHANGED <<work, workEvents, table>>
      BY <1>5, <2>1 DEF Undeploy, TypeOK
    <3> QED BY <3>1, <1>1
  <2>2. CASE work[n] # NoWork
    BY <1>5, <2>2, <1>4 DEF Undeploy, KeysOf
  <2> QED BY <2>1, <2>2
<1>6. ASSUME NEW n \in Clusters, Apply(n) PROVE KnownInv'
  <2>1. CASE UNCHANGED <<work, workEvents>>
    BY <1>6, <2>1, <1>1 DEF Apply
  <2>2. CASE /\ work' = [work EXCEPT ![n] = render[n].read]
             /\ workEvents' = [workEvents EXCEPT ![n] = Append(@, TrackedKeys(render[n].read))]
    <3>1. render[n].read \in Copies /\ render[n].read # NoWork
      BY <1>6 DEF Apply, TypeOK, Rendering, Copies, Content
    <3>2. UNCHANGED table
      BY <1>6 DEF Apply
    <3> QED BY <2>2, <3>1, <3>2, <1>4 DEF KeysOf
  <2> QED BY <1>6, <2>1, <2>2 DEF Apply
<1> QED
  BY <1>1, <1>2, <1>3, <1>5, <1>6
  DEF Next, Outside, WatcherStep, ManagerStep, vars, watcherVars, renderVars, ChangeConfig,
      DeleteFlag, Configure, Detach, HandleConfigEvent, Observe, Reconcile, StartRender, Read,
      ReadMissing, ReportStatus
-----------------------------------------------------------------------------
(* A work has what the cluster needs. *)

LEMMA InitCopy == Init => CopyInv
BY DEF Init, CopyInv

LEMMA StepCopy == TypeOK /\ CopyInv /\ [Next]_vars => CopyInv'
<1> SUFFICES ASSUME TypeOK, CopyInv, [Next]_vars PROVE CopyInv'
  OBVIOUS
<1> USE DEF hubVars, watcherVars, renderVars
<1>1. CASE /\ UNCHANGED <<attached, wants, work, render>>
           /\ triggered \subseteq triggered'
  BY <1>1 DEF CopyInv, Needs
<1>2. ASSUME NEW n \in Clusters, NEW S \in SUBSET Tracked, Configure(n, S) PROVE CopyInv'
  BY <1>2 DEF Configure, CopyInv, Needs, TypeOK
<1>3. ASSUME NEW n \in Clusters, Detach(n) PROVE CopyInv'
  BY <1>3 DEF Detach, CopyInv, Needs, TypeOK
<1>4. CASE Restart
  BY <1>4 DEF Restart, CopyInv
<1>5. ASSUME NEW n \in Clusters, StartRender(n) PROVE CopyInv'
  <2>1. UNCHANGED <<attached, wants, work>> /\ triggered' = triggered \ {n}
    BY <1>5 DEF StartRender
  <2>2. render'[n] # Idle /\ render'[n].todo = Needs(n)
        /\ \A m \in Clusters \ {n} : render'[m] = render[m]
    <3>1. [todo |-> Needs(n), read |-> [c \in Configs |-> Absent]] \in Rendering
      BY NeedsType DEF Rendering, Copies, Content
    <3> QED BY <1>5, <3>1 DEF StartRender, TypeOK, Rendering, Copies, Content
  <2> QED BY <2>1, <2>2 DEF CopyInv, Needs, TypeOK
<1>6. ASSUME NEW n \in Clusters, Undeploy(n) PROVE CopyInv'
  BY <1>6 DEF Undeploy, CopyInv, Needs, TypeOK
<1>7. ASSUME NEW n \in Clusters, NEW c \in Configs, Read(n, c) PROVE CopyInv'
  <2>1. UNCHANGED <<attached, wants, work, triggered>>
        /\ (source[c] # Absent \/ c \in Optional)
    BY <1>7 DEF Read
  <2>2. \A m \in Clusters : Needs(m)' = Needs(m) /\ Needs(m) \subseteq Configs
    BY <2>1, NeedsType DEF Needs
  <2>3. \A m \in attached' \ triggered' : \A d \in Needs(m) \ Optional :
          IF render'[m] = Idle THEN work[m] # NoWork => work[m][d] # Absent
          ELSE d \in render'[m].todo \/ render'[m].read[d] # Absent
    <3> SUFFICES ASSUME NEW m \in attached \ triggered, NEW d \in Needs(m) \ Optional
                 PROVE  IF render'[m] = Idle THEN work[m] # NoWork => work[m][d] # Absent
                        ELSE d \in render'[m].todo \/ render'[m].read[d] # Absent
      BY <2>1
    <3>1. m \in Clusters /\ d \in Configs
      BY <2>2 DEF TypeOK
    <3>2. CASE m = n
      BY <2>1, <3>1, <3>2, <1>7, ReadEffect DEF CopyInv
    <3>3. CASE m # n
      BY <3>1, <3>3, <1>7, ReadEffect DEF CopyInv
    <3> QED BY <3>2, <3>3
  <2> QED BY <2>1, <2>2, <2>3 DEF CopyInv, TypeOK
<1>8. ASSUME NEW n \in Clusters, NEW c \in Configs, ReadMissing(n, c) PROVE CopyInv'
  BY <1>8 DEF ReadMissing, CopyInv, Needs, TypeOK
<1>9. ASSUME NEW n \in Clusters, Apply(n) PROVE CopyInv'
  <2>1. UNCHANGED <<attached, wants, triggered>>
        /\ render[n] # Idle /\ render[n].todo = {}
        /\ render' = [render EXCEPT ![n] = Idle]
    BY <1>9 DEF Apply
  <2>2. work'[n] = render[n].read /\ \A m \in Clusters \ {n} : work'[m] = work[m]
    BY <1>9 DEF Apply, TypeOK
  <2> QED BY <2>1, <2>2 DEF CopyInv, Needs, TypeOK
<1> QED
  BY <1>1, <1>2, <1>3, <1>4, <1>5, <1>6, <1>7, <1>8, <1>9
  DEF Next, Outside, WatcherStep, ManagerStep, vars, ChangeConfig, DeleteFlag,
      HandleConfigEvent, Observe, HandleWorkEvent, Reconcile, ReportStatus
-----------------------------------------------------------------------------
(* An outdated copy is never forgotten but for changes that could not be    *)
(* passed on.                                                              *)

\* A cluster that is waiting to be rendered.
Due(n) == n \in triggered \cup queue \cup reporting

LEMMA InitFresh == Init => FreshInv
BY DEF Init, FreshInv, Outdated

\* What is pending stays so as long as the rendering does not move.
LEMMA PendingKept ==
  ASSUME NEW n \in Clusters, NEW c \in Configs, Pending(n, c), Due(n) => Due(n)',
         source'[c] = source[c], work'[n] = work[n], render'[n] = render[n]
  PROVE  Pending(n, c)'
BY DEF Pending, Due

\* The watcher, hearing of an object that is outdated in a work, has the
\* cluster queued, unless a rendering is pending already or it has not heard of
\* the work.
LEMMA HeardOf ==
  ASSUME IInv, NEW n \in Clusters, NEW c \in Configs, Outdated(n, c)
  PROVE  Pending(n, c) \/ n \in Requests(c) \/ n \in Unaware(c)
<1>1. work[n] \in Copies /\ work[n] # NoWork /\ n \in attached
  BY DEF IInv, TypeOK, Outdated
<1>2. c \in Tracked \cup Shared \cup LocalOnly /\ (c \in LocalOnly => n = LocalCluster)
  BY DEF Outdated, Needs, IInv, TypeOK
<1>3. CASE c \in Tracked /\ work[n][c] = Absent
  <2>1. c \in Needs(n) \ Optional
    BY <1>3 DEF Outdated, Optional
  <2>2. CASE n \in triggered
    BY <2>2 DEF Pending
  <2>3. CASE n \notin triggered
    BY <1>1, <1>3, <2>1, <2>3 DEF IInv, CopyInv, Pending
  <2> QED BY <2>2, <2>3
<1>4. CASE workEvents[n] # <<>> /\ (c \in Tracked => work[n][c] # Absent)
  BY <1>1, <1>4 DEF Unaware
<1>5. CASE workEvents[n] = <<>> /\ (c \in Tracked => work[n][c] # Absent)
  <2>1. table[n] = TrackedKeys(work[n])
    BY <1>1, <1>5 DEF IInv, KnownInv, KeysOf, Latest
  <2>2. table[n] # NoWork
    BY <2>1 DEF TrackedKeys
  <2>3. observed[n] = 0
    BY <1>5 DEF IInv, TypeOK
  <2>4. CASE c \in Tracked
    BY <1>5, <2>1, <2>2, <2>4 DEF Requests, TrackedKeys
  <2>5. CASE c \in Shared
    BY <2>2, <2>3, <2>5 DEF Requests, Listed
  <2>6. CASE c \in LocalOnly
    BY <1>2, <2>6 DEF Requests
  <2> QED BY <1>2, <2>4, <2>5, <2>6
<1> QED BY <1>3, <1>4, <1>5

LEMMA StepFresh == IInv /\ [Next]_vars => FreshInv'
<1> SUFFICES ASSUME IInv, [Next]_vars, NEW n \in Clusters, NEW c \in Configs, Outdated(n, c)'
             PROVE  Followed(n, c)'
  BY DEF FreshInv
<1>a. TypeOK /\ (Outdated(n, c) => Followed(n, c))
  BY DEF IInv, FreshInv
<1>b. TypeOK'
  BY <1>a, StepType
<1> USE DEF hubVars, watcherVars, renderVars
<1>1. CASE /\ UNCHANGED <<source, attached, wants, work, render, configEvents, missed>>
           /\ Due(n) => Due(n)'
  BY <1>1, <1>a, PendingKept DEF Outdated, Needs, Followed
<1>2. ASSUME NEW d \in Configs, NEW v \in Content, ChangeConfig(d, v) PROVE Followed(n, c)'
  <2>1. UNCHANGED <<attached, wants, work, render, missed, triggered, queue, reporting>>
        /\ source' = [source EXCEPT ![d] = v]
        /\ configEvents' = [configEvents EXCEPT ![d] = @ + 1]
    BY <1>2 DEF ChangeConfig
  <2>2. CASE c = d
    BY <2>1, <2>2, <1>a DEF Followed, TypeOK
  <2>3. CASE c # d
    <3>1. source'[c] = source[c] /\ configEvents'[c] = configEvents[c]
      BY <2>1, <2>3, <1>a DEF TypeOK
    <3> QED BY <2>1, <3>1, <1>a, PendingKept DEF Outdated, Needs, Followed, Due
  <2> QED BY <2>2, <2>3
<1>13. ASSUME NEW d \in Flags, DeleteFlag(d) PROVE Followed(n, c)'
  <2>1. UNCHANGED <<attached, wants, work, render, configEvents, triggered, queue, reporting>>
        /\ source' = [source EXCEPT ![d] = Absent]
        /\ missed' = [m \in Clusters |-> IF m \in attached THEN missed[m] \cup {d} ELSE missed[m]]
    BY <1>13 DEF DeleteFlag
  <2>2. n \in attached
    BY <2>1 DEF Outdated
  <2>3. CASE c = d
    BY <2>1, <2>2, <2>3 DEF Followed
  <2>4. CASE c # d
    <3>1. source'[c] = source[c]
      BY <2>1, <2>4, <1>a DEF TypeOK
    <3>2. Outdated(n, c)
      BY <2>1, <3>1 DEF Outdated, Needs
    <3> QED BY <2>1, <2>2, <3>1, <3>2, <1>a, PendingKept DEF Followed, Due
  <2> QED BY <2>3, <2>4
<1>3. ASSUME NEW m \in Clusters, NEW S \in SUBSET Tracked, Configure(m, S) PROVE Followed(n, c)'
  <2>1. CASE m = n
    BY <1>3, <2>1 DEF Configure, Followed, Pending
  <2>2. CASE m # n
    <3>1. UNCHANGED <<source, work, render, configEvents, queue, reporting>>
          /\ triggered \subseteq triggered' /\ missed'[n] = missed[n]
      BY <1>3, <2>2, <1>a DEF Configure, TypeOK
    <3>2. Outdated(n, c)
      BY <1>3, <2>2, <1>a DEF Configure, Outdated, Needs, TypeOK
    <3> QED BY <3>1, <3>2, <1>a, PendingKept DEF Followed, Due
  <2> QED BY <2>1, <2>2
<1>4. ASSUME NEW m \in Clusters, Detach(m) PROVE Followed(n, c)'
  <2>0. m # n
    BY <1>4, <1>a DEF Detach, Outdated, TypeOK
  <2>1. UNCHANGED <<source, work, render, configEvents, queue, reporting>>
        /\ triggered \subseteq triggered' /\ missed'[n] = missed[n]
    BY <1>4, <2>0, <1>a DEF Detach, TypeOK
  <2>2. Outdated(n, c)
    BY <1>4, <1>a DEF Detach, Outdated, Needs, TypeOK
  <2> QED BY <2>1, <2>2, <1>a, PendingKept DEF Followed, Due
<1>5. CASE Restart
  BY <1>5 DEF Restart, Outdated, Followed, Pending
<1>6. ASSUME NEW d \in Configs, HandleConfigEvent(d) PROVE Followed(n, c)'
  <2>1. UNCHANGED <<source, attached, wants, work, render, triggered, reporting>>
        /\ queue' = queue \cup Requests(d)
        /\ configEvents' = [configEvents EXCEPT ![d] = @ - 1]
        /\ missed' = [m \in Clusters |-> IF m \in Unaware(d) THEN missed[m] \cup {d} ELSE missed[m]]
    BY <1>6 DEF HandleConfigEvent
  <2>2. Outdated(n, c)
    BY <2>1 DEF Outdated, Needs
  <2>3. CASE Pending(n, c)
    BY <2>1, <2>3, PendingKept DEF Followed, Due
  <2>4. CASE ~Pending(n, c) /\ c = d
    BY <2>1, <2>2, <2>4, <1>a, HeardOf DEF Followed, Pending
  <2>5. CASE ~Pending(n, c) /\ c # d
    BY <2>1, <2>2, <2>5, <1>a DEF Followed, TypeOK
  <2> QED BY <2>3, <2>4, <2>5
<1>7. ASSUME NEW m \in Clusters, HandleWorkEvent(m) PROVE Followed(n, c)'
  <2>1. UNCHANGED <<source, attached, wants, work, render, configEvents, missed, triggered, queue, reporting>>
    BY <1>7 DEF HandleWorkEvent
  <2>2. Outdated(n, c)
    BY <2>1 DEF Outdated, Needs
  <2>3. CASE Pending(n, c)
    BY <2>1, <2>3, PendingKept DEF Followed, Due
  <2>4. CASE configEvents[c] > 0 \/ c \in missed[n]
    BY <2>1, <2>4 DEF Followed
  <2> QED BY <2>2, <2>3, <2>4, <1>a DEF Followed
<1>8. ASSUME NEW m \in Clusters, StartRender(m) PROVE Followed(n, c)'
  <2>1. UNCHANGED <<source, attached, wants, work, configEvents, missed, queue, reporting>>
        /\ triggered' = triggered \ {m}
    BY <1>8 DEF StartRender
  <2>2. Outdated(n, c)
    BY <2>1 DEF Outdated, Needs
  <2>3. CASE m = n
    <3>1. render'[n].todo = Needs(n)
      BY <1>8, <2>3, <1>a DEF StartRender, TypeOK
    <3>2. [todo |-> Needs(n), read |-> [d \in Configs |-> Absent]] \in Rendering
      BY <1>a, NeedsType DEF Rendering, Copies, Content
    <3>3. render'[n] # Idle
      BY <1>8, <2>3, <3>2, <1>a DEF StartRender, TypeOK, Rendering, Copies, Content
    <3> QED BY <2>2, <3>1, <3>3 DEF Outdated, Followed, Pending
  <2>4. CASE m # n
    <3>1. render'[n] = render[n] /\ (Due(n) => Due(n)')
      BY <1>8, <2>1, <2>4, <1>a DEF StartRender, TypeOK, Due
    <3> QED BY <2>1, <2>2, <3>1, <1>a, PendingKept DEF Followed
  <2> QED BY <2>3, <2>4
<1>9. ASSUME NEW m \in Clusters, Undeploy(m) PROVE Followed(n, c)'
  <2>1. m # n
    BY <1>9, <1>a DEF Undeploy, Outdated, TypeOK
  <2>2. UNCHANGED <<source, attached, wants, render, configEvents, missed>>
        /\ work'[n] = work[n]
        /\ (Due(n) => Due(n)')
    BY <1>9, <2>1, <1>a DEF Undeploy, TypeOK, Due
  <2>3. Outdated(n, c)
    BY <2>2 DEF Outdated, Needs
  <2> QED BY <2>2, <2>3, <1>a, PendingKept DEF Followed
<1>10. ASSUME NEW m \in Clusters, NEW d \in Configs, Read(m, d) PROVE Followed(n, c)'
  <2>1. UNCHANGED <<source, attached, wants, work, configEvents, triggered, queue, reporting>>
        /\ d \in render[m].todo
        /\ missed' = [missed EXCEPT ![m] = @ \ {d}]
    BY <1>10 DEF Read
  <2>2. Outdated(n, c)
    BY <2>1 DEF Outdated, Needs
  <2>3. CASE m = n
    <3>1. CASE c = d
      BY <2>1, <2>3, <3>1, <1>10, <1>a, ReadEffect DEF Followed, Pending
    <3>2. CASE c # d
      <4>1. c \in missed[n] => c \in missed'[n]
        BY <2>1, <2>3, <3>2, <1>a DEF TypeOK
      <4> QED BY <2>1, <2>2, <2>3, <3>2, <4>1, <1>10, <1>a, ReadEffect DEF Followed, Pending
    <3> QED BY <3>1, <3>2
  <2>4. CASE m # n
    <3>1. render'[n] = render[n] /\ missed'[n] = missed[n]
      BY <2>1, <2>4, <1>10, <1>a, ReadEffect DEF TypeOK
    <3> QED BY <2>1, <2>2, <3>1, <1>a, PendingKept DEF Followed, Due
  <2> QED BY <2>3, <2>4
<1>11. ASSUME NEW m \in Clusters, NEW d \in Configs, ReadMissing(m, d) PROVE Followed(n, c)'
  <2>1. UNCHANGED <<source, attached, wants, work, configEvents, missed, queue, reporting>>
        /\ triggered' = triggered \cup {m}
    BY <1>11 DEF ReadMissing
  <2>2. Outdated(n, c)
    BY <2>1 DEF Outdated, Needs
  <2>3. CASE m = n
    BY <2>1, <2>3 DEF Followed, Pending
  <2>4. CASE m # n
    <3>1. render'[n] = render[n]
      BY <2>4, <1>11, <1>a DEF ReadMissing, TypeOK
    <3> QED BY <2>1, <2>2, <3>1, <1>a, PendingKept DEF Followed, Due
  <2> QED BY <2>3, <2>4
<1>12. ASSUME NEW m \in Clusters, Apply(m) PROVE Followed(n, c)'
  <2>1. UNCHANGED <<source, attached, wants, configEvents, missed, triggered, queue>>
        /\ reporting \subseteq reporting'
    BY <1>12 DEF Apply
  <2>2. CASE m # n
    <3>1. render'[n] = render[n] /\ work'[n] = work[n]
      BY <1>12, <2>2, <1>a DEF Apply, TypeOK
    <3>2. Outdated(n, c)
      BY <2>1, <3>1 DEF Outdated, Needs
    <3> QED BY <2>1, <3>1, <3>2, <1>a, PendingKept DEF Followed, Due
  <2>3. CASE m = n /\ work[n] # render[n].read
    BY <1>12, <2>3 DEF Apply, Followed, Pending
  <2>4. CASE m = n /\ work[n] = render[n].read
    <3>1. UNCHANGED <<work, reporting>> /\ render[n].todo = {}
      BY <1>12, <2>4 DEF Apply
    <3>2. Outdated(n, c)
      BY <2>1, <3>1 DEF Outdated, Needs
    <3>3. Pending(n, c) => n \in triggered \cup queue \cup reporting
      BY <2>4, <3>1, <3>2 DEF Pending, Outdated
    <3> QED BY <2>1, <3>1, <3>2, <3>3, <1>a DEF Followed, Pending
  <2> QED BY <2>2, <2>3, <2>4
<1> QED
  BY <1>1, <1>2, <1>3, <1>4, <1>5, <1>6, <1>7, <1>8, <1>9, <1>10, <1>11, <1>12, <1>13
  DEF Next, Outside, WatcherStep, ManagerStep, vars, Observe, Reconcile, ReportStatus, Due

\* What is outdated is followed up, or recorded as not passed on.
THEOREM Invariant == Spec => []IInv
<1>1. Init => IInv
  BY InitType, InitKnown, InitCopy, InitFresh DEF IInv
<1>2. IInv /\ [Next]_vars => IInv'
  <2>1. IInv => TypeOK /\ KnownInv /\ CopyInv
    BY DEF IInv
  <2>2. TypeOK' /\ KnownInv' /\ CopyInv' /\ FreshInv' => IInv'
    BY DEF IInv
  <2> QED BY <2>1, <2>2, StepType, StepKnown, StepCopy, StepFresh
<1> QED BY <1>1, <1>2, PTL DEF Spec

\* An outdated copy of what a cluster needs is never forgotten, whatever the
\* order of events, except for an event handled before that of the work with the
\* copy and the deletion of a switch.
THEOREM NeverForgotten == Spec => []NothingForgotten
<1>1. IInv => NothingForgotten
  BY DEF IInv, FreshInv, Followed, NothingForgotten
<1> QED BY <1>1, Invariant, PTL
=============================================================================

--------------------------- MODULE ReferenceCache ---------------------------
(***************************************************************************)
(* internal/controllers/watcher/cache.go: the two maps that tell the       *)
(* watcher which clusters' ManifestWorks carry a copy of a Secret or       *)
(* ConfigMap of the hub, and the read-write lock around them.              *)
(*                                                                         *)
(* Each call runs at the grain of its lock operations and of its loops:    *)
(* the check under the read lock, the wait for the write lock, the         *)
(* re-check, one map update per loop iteration.  A Go map without a key is *)
(* a total function whose value there is NoEntry.                          *)
(***************************************************************************)
EXTENDS FiniteSets

CONSTANTS
  Works,      \* ManifestWork keys
  Namespaces, \* managed cluster namespaces
  NsOf(_),    \* the namespace of a ManifestWork
  Configs,    \* configuration resource keys
  Writers,    \* goroutines calling Add and Remove (ManifestWork events)
  Readers,    \* goroutines calling GetNamespaces (Secret, ConfigMap events)
  NoEntry,    \* absent from a map
  NoThread,   \* nobody holds, or waits for, the write lock
  NoCall,     \* no call is pending
  Exclusive   \* whether callers keep to the NOTE of cache.go:13-16

\* A writer's arguments; NoEntry in place of the configurations is Remove.
WriteCall == [work : Works, configs : {NoEntry} \cup SUBSET Configs]

ASSUME CacheAssumption ==
  /\ \A w \in Works : NsOf(w) \in Namespaces
  /\ Writers \cap Readers = {}
  /\ NoThread \notin Writers
  /\ \A S \in (SUBSET Configs) \cup (SUBSET Namespaces) : NoEntry # S
  /\ NoCall \notin Configs
  /\ \A k \in WriteCall : NoCall # k
  /\ Exclusive \in BOOLEAN

VARIABLES
  configToMWNs,   \* [Configs -> SUBSET Namespaces or NoEntry]
  mwKeyToConfigs, \* [Works -> SUBSET Configs or NoEntry]
  holders,        \* threads holding the read lock
  writer,         \* thread holding, or first in line for, the write lock
  pc,             \* where each thread is in its call
  call,           \* the arguments of a writer's call
  todo,           \* what is left of the loop a thread is in
  lookup,         \* the configuration a reader asks for
  result          \* what a reader has collected, then returned

lockVars == <<holders, writer>>
mapVars == <<configToMWNs, mwKeyToConfigs>>
readerVars == <<lookup, result>>
vars == <<mapVars, lockVars, pc, call, todo, readerVars>>

Locked == {"recheck", "unref", "ref"}  \* the write lock is held
WriterPC == {"idle", "check", "compare", "want", "wait"} \cup Locked
ReaderPC == {"idle", "check", "collect"}

TypeOK ==
  /\ configToMWNs \in [Configs -> {NoEntry} \cup SUBSET Namespaces]
  /\ mwKeyToConfigs \in [Works -> {NoEntry} \cup SUBSET Configs]
  /\ holders \subseteq Writers \cup Readers
  /\ writer \in Writers \cup {NoThread}
  /\ pc \in [Writers \cup Readers -> WriterPC \cup ReaderPC]
  /\ \A t \in Writers : pc[t] \in WriterPC
  /\ \A r \in Readers : pc[r] \in ReaderPC
  /\ call \in [Writers -> {NoCall} \cup WriteCall]
  /\ \A t \in Writers : (call[t] = NoCall) <=> (pc[t] = "idle")
  /\ todo \in [Writers -> SUBSET Configs]
  /\ lookup \in [Readers -> {NoCall} \cup Configs]
  /\ \A r \in Readers : (lookup[r] = NoCall) <=> (pc[r] = "idle")
  /\ result \in [Readers -> SUBSET Namespaces]
-----------------------------------------------------------------------------
(* What the maps say. *)

Entry(w) == IF mwKeyToConfigs[w] = NoEntry THEN {} ELSE mwKeyToConfigs[w]
Referrers(c) == IF configToMWNs[c] = NoEntry THEN {} ELSE configToMWNs[c]

\* Slip: any known work is taken as up to date, whatever it carries now.
NothingToDoIfKnown(k) ==
  IF k.configs = NoEntry THEN mwKeyToConfigs[k.work] = NoEntry
                         ELSE mwKeyToConfigs[k.work] # NoEntry

\* A write call that would leave the entry of its work as it is: the
\* `exists && maps.Equal` of Add, the `!exists` of Remove.
NothingToDo(k) == mwKeyToConfigs[k.work] = k.configs

\* Slip: Add forgets the references an update of the work no longer has.
DroppedByRemoveOnly(k) == IF k.configs = NoEntry THEN Entry(k.work) ELSE {}

\* The references the first loop of a call drops: those Add does not keep,
\* all of them for Remove.
Dropped(k) ==
  Entry(k.work) \ (IF k.configs = NoEntry THEN {} ELSE k.configs)

\* Slip: an emptied set stays under its key.
WithoutKeepingKey(c, ns) == Referrers(c) \ {ns}

\* removeRef: the namespace leaves the set, an emptied set leaves the map.
Without(c, ns) ==
  IF Referrers(c) \ {ns} = {} THEN NoEntry ELSE Referrers(c) \ {ns}

\* Slip: only the work that creates the set is put in it.
WithFirstOnly(c, ns) == IF configToMWNs[c] = NoEntry THEN {ns} ELSE configToMWNs[c]

\* The body of the second loop of Add.
With(c, ns) == Referrers(c) \cup {ns}

\* The configurations a work has, or will have once the calls in flight end.
Claims(w) ==
  Entry(w) \cup UNION {call[t].configs : t \in
    {u \in Writers : /\ call[u] # NoCall
                     /\ call[u].work = w
                     /\ call[u].configs # NoEntry}}

\* The NOTE of cache.go:13-16: "a given configuration resource is referenced
\* by at most one ManifestWork in a given namespace".
OneWorkPerNamespace(w, S) ==
  \A v \in Works : v # w /\ NsOf(v) = NsOf(w) => Claims(v) \cap S = {}
-----------------------------------------------------------------------------
Init ==
  /\ configToMWNs = [c \in Configs |-> NoEntry]
  /\ mwKeyToConfigs = [w \in Works |-> NoEntry]
  /\ holders = {}
  /\ writer = NoThread
  /\ pc = [t \in Writers \cup Readers |-> "idle"]
  /\ call = [t \in Writers |-> NoCall]
  /\ todo = [t \in Writers |-> {}]
  /\ lookup = [r \in Readers |-> NoCall]
  /\ result = [r \in Readers |-> {}]

Goto(t, l) == pc' = [pc EXCEPT ![t] = l]

\* sync.RWMutex: a thread waiting for the write lock keeps new readers out.
RLock(t) == writer = NoThread /\ holders' = holders \cup {t}
RUnlock(t) == holders' = holders \ {t}

\* Slip: the arguments outlive the call.
FinishKeepingCall(t) ==
  /\ Goto(t, "idle")
  /\ todo' = [todo EXCEPT ![t] = {}]
  /\ UNCHANGED call

\* A writer is back from its call.
Finish(t) ==
  /\ Goto(t, "idle")
  /\ call' = [call EXCEPT ![t] = NoCall]
  /\ todo' = [todo EXCEPT ![t] = {}]

Begin(t, k) ==
  /\ pc[t] = "idle"
  /\ call' = [call EXCEPT ![t] = k]
  /\ Goto(t, "check")
  /\ UNCHANGED <<mapVars, lockVars, todo, readerVars>>

Add(t, w, S) ==
  /\ Exclusive => OneWorkPerNamespace(w, S)
  /\ Begin(t, [work |-> w, configs |-> S])

Remove(t, w) == Begin(t, [work |-> w, configs |-> NoEntry])

LockForCheck(t) ==
  /\ pc[t] = "check"
  /\ RLock(t)
  /\ Goto(t, "compare")
  /\ UNCHANGED <<mapVars, writer, call, todo, readerVars>>

\* Slip: the read lock is released on the early return only.
CompareKeepingLock(t) ==
  /\ pc[t] = "compare"
  /\ \/ NothingToDo(call[t]) /\ RUnlock(t) /\ Finish(t)
     \/ /\ ~NothingToDo(call[t])
        /\ Goto(t, "want")
        /\ UNCHANGED <<holders, call, todo>>
  /\ UNCHANGED <<mapVars, writer, readerVars>>

\* Both calls return early, from under the read lock, when they have
\* nothing to do.
Compare(t) ==
  /\ pc[t] = "compare"
  /\ RUnlock(t)
  /\ \/ NothingToDo(call[t]) /\ Finish(t)
     \/ ~NothingToDo(call[t]) /\ Goto(t, "want") /\ UNCHANGED <<call, todo>>
  /\ UNCHANGED <<mapVars, writer, readerVars>>

\* Lock() is first served among writers, then waits for the readers to leave.
Announce(t) ==
  /\ pc[t] = "want"
  /\ writer = NoThread
  /\ writer' = t
  /\ Goto(t, "wait")
  /\ UNCHANGED <<mapVars, holders, call, todo, readerVars>>

\* Slip: the write lock does not wait for the readers already inside.
LockAmongReaders(t) ==
  /\ pc[t] = "wait"
  /\ Goto(t, "recheck")
  /\ UNCHANGED <<mapVars, lockVars, call, todo, readerVars>>

Lock(t) ==
  /\ pc[t] = "wait"
  /\ holders = {}
  /\ Goto(t, "recheck")
  /\ UNCHANGED <<mapVars, lockVars, call, todo, readerVars>>

\* "Re-check after acquiring write lock to handle potential race conditions"
Recheck(t) ==
  /\ pc[t] = "recheck"
  /\ \/ /\ NothingToDo(call[t])
        /\ writer' = NoThread
        /\ Finish(t)
     \/ /\ ~NothingToDo(call[t])
        /\ todo' = [todo EXCEPT ![t] = Dropped(call[t])]
        /\ Goto(t, "unref")
        /\ UNCHANGED <<writer, call>>
  /\ UNCHANGED <<mapVars, holders, readerVars>>

Unref(t, c) ==
  /\ pc[t] = "unref"
  /\ c \in todo[t]
  /\ configToMWNs' =
       [configToMWNs EXCEPT ![c] = Without(c, NsOf(call[t].work))]
  /\ todo' = [todo EXCEPT ![t] = @ \ {c}]
  /\ UNCHANGED <<mwKeyToConfigs, lockVars, pc, call, readerVars>>

\* Add stores the new set and goes on to reference it; Remove deletes the
\* key and returns.
Store(t) ==
  /\ pc[t] = "unref"
  /\ todo[t] = {}
  /\ mwKeyToConfigs' = [mwKeyToConfigs EXCEPT ![call[t].work] = call[t].configs]
  /\ \/ /\ call[t].configs = NoEntry
        /\ writer' = NoThread
        /\ Finish(t)
     \/ /\ call[t].configs # NoEntry
        /\ todo' = [todo EXCEPT ![t] = call[t].configs]
        /\ Goto(t, "ref")
        /\ UNCHANGED <<writer, call>>
  /\ UNCHANGED <<configToMWNs, holders, readerVars>>

Ref(t, c) ==
  /\ pc[t] = "ref"
  /\ c \in todo[t]
  /\ configToMWNs' = [configToMWNs EXCEPT ![c] = With(c, NsOf(call[t].work))]
  /\ todo' = [todo EXCEPT ![t] = @ \ {c}]
  /\ UNCHANGED <<mwKeyToConfigs, lockVars, pc, call, readerVars>>

Unlock(t) ==
  /\ pc[t] = "ref"
  /\ todo[t] = {}
  /\ writer' = NoThread
  /\ Finish(t)
  /\ UNCHANGED <<mapVars, holders, readerVars>>

GetNamespaces(r, c) ==
  /\ pc[r] = "idle"
  /\ lookup' = [lookup EXCEPT ![r] = c]
  /\ result' = [result EXCEPT ![r] = {}]
  /\ Goto(r, "check")
  /\ UNCHANGED <<mapVars, lockVars, call, todo>>

LockForRead(r) ==
  /\ pc[r] = "check"
  /\ RLock(r)
  /\ Goto(r, "collect")
  /\ UNCHANGED <<mapVars, writer, call, todo, readerVars>>

Collect(r, ns) ==
  /\ pc[r] = "collect"
  /\ ns \in Referrers(lookup[r]) \ result[r]
  /\ result' = [result EXCEPT ![r] = @ \cup {ns}]
  /\ UNCHANGED <<mapVars, lockVars, pc, call, todo, lookup>>

Return(r) ==
  /\ pc[r] = "collect"
  /\ Referrers(lookup[r]) \subseteq result[r]
  /\ RUnlock(r)
  /\ lookup' = [lookup EXCEPT ![r] = NoCall]
  /\ Goto(r, "idle")
  /\ UNCHANGED <<mapVars, writer, call, todo, result>>

WriterStep(t) ==
  \/ LockForCheck(t) \/ Compare(t) \/ Announce(t) \/ Lock(t) \/ Recheck(t)
  \/ \E c \in Configs : Unref(t, c) \/ Ref(t, c)
  \/ Store(t) \/ Unlock(t)

ReaderStep(r) ==
  \/ LockForRead(r)
  \/ \E ns \in Namespaces : Collect(r, ns)
  \/ Return(r)

Next ==
  \/ \E t \in Writers, w \in Works, S \in SUBSET Configs : Add(t, w, S)
  \/ \E t \in Writers, w \in Works : Remove(t, w)
  \/ \E t \in Writers : WriterStep(t)
  \/ \E r \in Readers, c \in Configs : GetNamespaces(r, c)
  \/ \E r \in Readers : ReaderStep(r)

\* The Go scheduler runs every goroutine; a sync.RWMutex starves neither its
\* readers nor its writers, so waiting for it is strongly fair.  Every other step
\* of a call stays possible until it is taken, and needs no more than weak
\* fairness, which strong fairness is for it.
Fairness ==
  /\ \A t \in Writers : SF_vars(WriterStep(t))
  /\ \A r \in Readers : SF_vars(ReaderStep(r))

Spec == Init /\ [][Next]_vars
FairSpec == Spec /\ Fairness
-----------------------------------------------------------------------------
(* Safety. *)

\* No thread touches the maps under the write lock while another holds
\* either lock (cache.go:41, 80): the loops of Add and Remove are seen by
\* nobody half done.
LockExclusion ==
  \A t \in Writers : pc[t] \in Locked =>
    /\ writer = t
    /\ holders = {}
    /\ \A u \in Writers : pc[u] \in Locked => u = t

\* Whatever the callers do, a namespace is recorded for a configuration only
\* while a work of that namespace carries it (cache.go:51-57, 83-87): a
\* change of a configuration never wakes a cluster that does not use it.
NoStaleReference ==
  \A c \in Configs : \A ns \in Referrers(c) :
    \E w \in Works : NsOf(w) = ns /\ c \in Entry(w)

\* An emptied set is deleted with its key (cache.go:94-96): configurations
\* that come and go do not pile up in the map.
NoEmptySet == \A c \in Configs : configToMWNs[c] # {}

\* When callers keep to the NOTE of cache.go:13-16 and no call holds the
\* write lock, every work is found through each configuration it carries:
\* no change of a configuration misses a cluster that uses it.
NoLostReference ==
  (\A t \in Writers : pc[t] \notin Locked) =>
    \A w \in Works : \A c \in Entry(w) : NsOf(w) \in Referrers(c)

\* The call of each writer that has still to take effect, and what each
\* reader was last told.
Unapplied ==
  [t \in Writers |-> IF pc[t] \in {"idle", "ref"} THEN NoCall ELSE call[t]]
Answered == [r \in Readers |-> IF lookup[r] = NoCall THEN result[r] ELSE {}]

\* The same, with the reader's answer in place of the maps: what a lookup
\* returns is the abstract table's answer at one instant of the lookup, and
\* each write takes effect at one instant of its call (cache.go:11-12, "maps
\* a Configuration Resource Key to a set of ManifestWork Namespaces that
\* reference it").
Index == INSTANCE ReferenceIndex WITH
  table <- mwKeyToConfigs, pending <- Unapplied, asked <- lookup, answer <- Answered

ImplementsIndex == Index!Spec

(* Liveness. *)

\* Every call of an event handler ends (cache.go:33-41, 72-80): no path keeps
\* the read lock while it waits for the write lock, and nobody is starved.
EveryCallEnds ==
  \A t \in Writers \cup Readers : pc[t] # "idle" ~> pc[t] = "idle"
=============================================================================

------------------------ MODULE StackResourcesProofs ------------------------
(***************************************************************************)
(* Proofs about the resourcecreator, for any placements, agents, configs   *)
(* and rules, and any number of changes from outside, failures, restarts.  *)
(***************************************************************************)
EXTENDS StackResources, TLAPS

ApiType ==
  /\ objects \in Store /\ cmao \in Listing
  /\ waking \subseteq unseen /\ unseen \subseteq Objects /\ cmaoUnseen \in BOOLEAN
CacheType == seen \in Store /\ seenCmao \in Listing
WorkerType ==
  /\ phase \in Phases /\ declared \subseteq Placements
  /\ todo \in Store /\ desired \subseteq Refs \X Objects
  /\ phase = "Idle" => todo = Nothing /\ desired = {} /\ declared = {}
  /\ triggered \in BOOLEAN
RestType == enabled \in BOOLEAN /\ changes \in 0..MaxChanges

USE StackAssumption

LEMMA TypeParts == TypeOK <=> ApiType /\ CacheType /\ WorkerType /\ RestType
BY DEF TypeOK, ApiType, CacheType, WorkerType, RestType

\* The steps of Next one by one, so that each proof below has one case each.
LEMMA NextCases ==
  ASSUME NEW ACTION P,
    \A p \in Placements : Declare(p) => P,
    \A p \in Placements : Withdraw(p) => P,
    \A p \in Placements, x \in UserAgents \cup UserConfigs : List(p, x) => P,
    \A x \in UserAgents \cup UserConfigs, targets \in SUBSET Placements :
      CreateObject(x, targets) => P,
    \A x \in UserAgents \cup UserConfigs, targets \in SUBSET Placements :
      Retarget(x, targets) => P,
    \A x \in Objects : DeleteObject(x) => P,
    \A x \in Objects : Drift(x) => P,
    Toggle => P, ApiError => P, Restart => P,
    SyncCmao => P, \A x \in Objects : SyncObject(x) => P,
    Start => P, CreateDefaultAgent => P, RefetchAgent => P,
    ListAgents => P, AgentsDone => P, \A a \in Agents : ReconcileAgent(a) => P,
    ListConfigs => P, ConfigsDone => P,
    \A x \in StackConfigs \cup UserConfigs : ReconcileConfig(x) => P,
    EnsureAddonConfig => P, ListOrphans => P,
    \A a \in Agents : DeleteOrphan(a) => P, Finish => P
  PROVE  Next => P
BY Zenon DEF Next, Outside, Informer, Worker

-----------------------------------------------------------------------------
(* Types. *)

LEMMA ObjectsType ==
  /\ Agents \subseteq Objects /\ StackConfigs \subseteq Objects /\ UserConfigs \subseteq Objects
  /\ UserAgents \subseteq Agents /\ DefaultAgent \in Agents /\ DummyAgent \in Agents
BY DEF Agents, Objects

LEMMA NoObjectType == \A object \in Object : object # NoObject
BY DEF Object

LEMMA NothingType == Nothing \in Store
BY DEF Nothing, Store

LEMMA WriteType ==
  ASSUME ApiType, NEW x \in Objects, NEW object \in {NoObject} \cup Object, Write(x, object)
  PROVE  /\ ApiType'
         /\ objects'[x] = object /\ \A y \in Objects \ {x} : objects'[y] = objects[y]
BY DEF ApiType, Write, Store

LEMMA WriteCmaoType ==
  ASSUME ApiType, NEW listing \in Listing, WriteCmao(listing)
  PROVE  ApiType'
BY DEF ApiType, WriteCmao

LEMMA GiveUpType == GiveUp => WorkerType'
BY NothingType DEF GiveUp, WorkerType, Phases

LEMMA ChangeType == ASSUME RestType, NEW kind, Change(kind) PROVE changes' \in 0..MaxChanges
BY DEF RestType, Change

LEMMA InitType == Init => TypeOK
<1> SUFFICES ASSUME Init PROVE TypeOK
  OBVIOUS
<1>1. objects \in Store
  BY DEF Init, Store, Object
<1>2. cmao \in Listing
  BY DEF Init, Listing
<1>3. CacheType
  BY <1>1, <1>2 DEF Init, CacheType
<1>4. ApiType
  BY <1>1, <1>2 DEF Init, ApiType
<1>5. WorkerType
  BY NothingType DEF Init, WorkerType, Phases
<1>6. RestType
  BY DEF Init, RestType
<1> QED BY <1>3, <1>4, <1>5, <1>6, TypeParts

LEMMA AfterApplyType ==
  ASSUME NEW object \in {NoObject} \cup Object PROVE AfterApply(object) \in Object
BY DEF AfterApply, Object

LEMMA EditType ==
  ASSUME NEW object \in Object, NEW targets \in SUBSET Refs, NEW b \in BOOLEAN
  PROVE  /\ [object EXCEPT !.targets = targets] \in Object
         /\ [object EXCEPT !.enforced = b] \in Object
BY DEF Object

LEMMA WithConfigsType == ASSUME NEW listing \in Listing PROVE WithConfigs(listing) \in Listing
BY DEF WithConfigs, Listing, Exists

LEMMA StepType == TypeOK /\ [Next]_vars => TypeOK'
<1> SUFFICES ASSUME ApiType, CacheType, WorkerType, RestType, [Next]_vars PROVE TypeOK'
  BY TypeParts
<1> SUFFICES ApiType' /\ CacheType' /\ WorkerType' /\ RestType'
  BY DEF TypeOK, ApiType, CacheType, WorkerType, RestType
<1> DEFINE Goal == ApiType' /\ CacheType' /\ WorkerType' /\ RestType'
<1> USE DEF api, events, caches, worker
<1>a. UNCHANGED <<objects, cmao, unseen, waking, cmaoUnseen>> => ApiType'
  BY DEF ApiType
<1>b. UNCHANGED caches => CacheType'
  BY DEF CacheType
<1>c. UNCHANGED worker /\ triggered' \in BOOLEAN => WorkerType'
  BY DEF WorkerType
<1>d. UNCHANGED <<enabled, changes>> => RestType'
  BY DEF RestType
<1>e. enabled' = enabled /\ changes' \in 0..MaxChanges => RestType'
  BY DEF RestType
<1>t. triggered \in BOOLEAN
  BY DEF WorkerType
<1>1. CASE UNCHANGED vars
  BY <1>1, <1>a, <1>b, <1>c, <1>d, <1>t DEF vars
<1>2. \A p \in Placements : Declare(p) => Goal
  <2> SUFFICES ASSUME NEW p \in Placements, Declare(p) PROVE Goal
    OBVIOUS
  <2>1. [cmao EXCEPT ![p] = {}] \in Listing
    BY DEF ApiType, Listing
  <2> QED BY <2>1, <1>b, <1>c, <1>e, <1>t, WriteCmaoType, ChangeType DEF Declare
<1>3. \A p \in Placements : Withdraw(p) => Goal
  <2> SUFFICES ASSUME NEW p \in Placements, Withdraw(p) PROVE Goal
    OBVIOUS
  <2>1. [cmao EXCEPT ![p] = NotDeclared] \in Listing
    BY DEF ApiType, Listing
  <2> QED BY <2>1, <1>b, <1>c, <1>e, <1>t, WriteCmaoType, ChangeType DEF Withdraw
<1>4. \A p \in Placements, x \in UserAgents \cup UserConfigs : List(p, x) => Goal
  <2> SUFFICES ASSUME NEW p \in Placements, NEW x \in UserAgents \cup UserConfigs, List(p, x)
               PROVE  Goal
    OBVIOUS
  <2>1. [cmao EXCEPT ![p] = @ \cup {x}] \in Listing
    <3>1. cmao[p] \in SUBSET Objects /\ x \in Objects
      BY ObjectsType DEF List, ApiType, Listing
    <3> QED BY <3>1 DEF ApiType, Listing
  <2> QED BY <2>1, <1>b, <1>c, <1>e, <1>t, WriteCmaoType, ChangeType DEF List
<1>5. \A x \in UserAgents \cup UserConfigs, targets \in SUBSET Placements :
        CreateObject(x, targets) => Goal
  <2> SUFFICES ASSUME NEW x \in UserAgents \cup UserConfigs, NEW targets \in SUBSET Placements,
                      CreateObject(x, targets)
               PROVE  Goal
    OBVIOUS
  <2>1. [targets |-> targets, owned |-> FALSE, labelled |-> TRUE, enforced |-> FALSE] \in Object
    BY DEF Object, Refs
  <2>2. x \in Objects
    BY ObjectsType
  <2> QED BY <2>1, <2>2, <1>b, <1>c, <1>e, <1>t, WriteType, ChangeType DEF CreateObject
<1>6. \A x \in UserAgents \cup UserConfigs, targets \in SUBSET Placements :
        Retarget(x, targets) => Goal
  <2> SUFFICES ASSUME NEW x \in UserAgents \cup UserConfigs, NEW targets \in SUBSET Placements,
                      Retarget(x, targets)
               PROVE  Goal
    OBVIOUS
  <2>1. x \in Objects /\ objects[x] \in Object /\ targets \in SUBSET Refs
    BY ObjectsType DEF Retarget, ApiType, Store, Refs
  <2>2. [objects[x] EXCEPT !.targets = targets] \in Object
    BY <2>1, EditType
  <2> QED BY <2>1, <2>2, <1>b, <1>c, <1>e, <1>t, WriteType, ChangeType DEF Retarget
<1>7. \A x \in Objects : DeleteObject(x) => Goal
  BY <1>b, <1>c, <1>e, <1>t, WriteType, ChangeType DEF DeleteObject
<1>8. \A x \in Objects : Drift(x) => Goal
  <2> SUFFICES ASSUME NEW x \in Objects, Drift(x) PROVE Goal
    OBVIOUS
  <2>1. objects[x] \in Object
    BY DEF Drift, ApiType, Store
  <2>2. [objects[x] EXCEPT !.enforced = FALSE] \in Object
    BY <2>1 DEF Object
  <2> QED BY <2>1, <2>2, <1>b, <1>c, <1>e, <1>t, WriteType, ChangeType DEF Drift
<1>9. Toggle => Goal
  BY <1>a, <1>b, <1>c, ChangeType DEF Toggle, RestType
<1>10. ApiError => Goal
  BY <1>a, <1>b, <1>e, ChangeType, GiveUpType DEF ApiError
<1>11. Restart => Goal
  BY <1>e, ChangeType, GiveUpType DEF Restart, ApiType, CacheType
<1>12. SyncCmao => Goal
  BY <1>c, <1>d DEF SyncCmao, ApiType, CacheType
<1>13. \A x \in Objects : SyncObject(x) => Goal
  <2> SUFFICES ASSUME NEW x \in Objects, SyncObject(x) PROVE Goal
    OBVIOUS
  <2>1. ApiType'
    BY DEF SyncObject, ApiType
  <2>2. CacheType'
    BY DEF SyncObject, ApiType, CacheType, Store
  <2>3. triggered' \in BOOLEAN
    BY DEF SyncObject
  <2> QED BY <2>1, <2>2, <2>3, <1>c, <1>d DEF SyncObject
<1>14. Start => Goal
  <2> SUFFICES ASSUME Start PROVE Goal
    OBVIOUS
  <2>1. WorkerType'
    BY DEF Start, WorkerType, Phases, Declares
  <2> QED BY <2>1, <1>a, <1>b, <1>d DEF Start
<1>15. CreateDefaultAgent => Goal
  <2> SUFFICES ASSUME CreateDefaultAgent PROVE Goal
    OBVIOUS
  <2> DEFINE globals == declared \cap GlobalRefs
             name == DefaultName(Recognized(seen), globals)
             ref == DefaultRef(name, globals)
  <2>1. UNCHANGED <<enabled, caches, changes>>
    BY DEF CreateDefaultAgent
  <2>2. CASE Goto("ListAgents") /\ UNCHANGED <<api, events>>
    BY <2>1, <2>2, <1>a, <1>b, <1>d DEF Goto, WorkerType, CreateDefaultAgent, Phases
  <2>3. CASE /\ Write(name, NewDefaultAgent(ref))
             /\ todo' = [todo EXCEPT ![name] = objects'[name]]
             /\ phase' = "Refetch"
             /\ UNCHANGED <<declared, desired, triggered>>
    <3>1. name \in Objects
      BY ObjectsType DEF DefaultName
    <3>2. ref \in Refs
      BY DEF DefaultRef, DefaultName, Refs
    <3>3. NewDefaultAgent(ref) \in Object
      BY <3>2 DEF NewDefaultAgent, Object
    <3>4. ApiType' /\ objects'[name] \in Object
      BY <2>3, <3>1, <3>3, WriteType
    <3>5. WorkerType'
      BY <2>3, <3>1, <3>4 DEF WorkerType, Phases, Store
    <3> QED BY <2>1, <3>4, <3>5, <1>b, <1>d
  <2>4. CASE GiveUp /\ UNCHANGED <<api, events>>
    BY <2>1, <2>4, <1>a, <1>b, <1>d, GiveUpType
  <2> QED BY <2>2, <2>3, <2>4 DEF CreateDefaultAgent
<1>16. RefetchAgent => Goal
  <2> SUFFICES ASSUME RefetchAgent PROVE Goal
    OBVIOUS
  <2>1. WorkerType'
    BY GiveUpType, NothingType DEF RefetchAgent, WorkerType, Phases
  <2> QED BY <2>1, <1>a, <1>b, <1>d DEF RefetchAgent
<1>17. ListAgents => Goal
  <2> SUFFICES ASSUME ListAgents PROVE Goal
    OBVIOUS
  <2>1. todo' \in Store
    BY DEF ListAgents, CacheType, Store
  <2>2. WorkerType'
    BY <2>1 DEF ListAgents, WorkerType, Phases
  <2> QED BY <2>2, <1>a, <1>b, <1>d DEF ListAgents
<1>18. AgentsDone => Goal
  BY <1>a, <1>b, <1>d DEF AgentsDone, Goto, WorkerType, Phases
<1>19. \A a \in Agents : ReconcileAgent(a) => Goal
  <2> SUFFICES ASSUME NEW a \in Agents, ReconcileAgent(a) PROVE Goal
    OBVIOUS
  <2>1. a \in Objects /\ todo[a] \in Object /\ objects[a] \in {NoObject} \cup Object
    BY ObjectsType DEF ReconcileAgent, WorkerType, ApiType, Store
  <2>2. (IF todo[a].enforced THEN objects[a] ELSE AfterApply(objects[a])) \in {NoObject} \cup Object
    BY <2>1, AfterApplyType
  <2>3. ApiType'
    BY <2>1, <2>2, WriteType DEF ReconcileAgent
  <2>4. todo' \in Store
    BY DEF ReconcileAgent, WorkerType, Store
  <2>5. todo[a].targets \X {a} \subseteq Refs \X Objects
    BY <2>1 DEF Object
  <2>6. WorkerType'
    BY <2>4, <2>5 DEF ReconcileAgent, WorkerType
  <2> QED BY <2>3, <2>6, <1>b, <1>d DEF ReconcileAgent
<1>20. ListConfigs => Goal
  <2> SUFFICES ASSUME ListConfigs PROVE Goal
    OBVIOUS
  <2>1. todo' \in Store
    BY DEF ListConfigs, CacheType, Store
  <2>2. WorkerType'
    BY <2>1 DEF ListConfigs, WorkerType, Phases
  <2> QED BY <2>2, <1>a, <1>b, <1>d DEF ListConfigs
<1>21. ConfigsDone => Goal
  BY <1>a, <1>b, <1>d DEF ConfigsDone, Goto, WorkerType, Phases
<1>22. \A x \in StackConfigs \cup UserConfigs : ReconcileConfig(x) => Goal
  <2> SUFFICES ASSUME NEW x \in StackConfigs \cup UserConfigs, ReconcileConfig(x) PROVE Goal
    OBVIOUS
  <2>1. x \in Objects /\ todo[x] \in Object /\ objects[x] \in {NoObject} \cup Object
    BY ObjectsType DEF ReconcileConfig, WorkerType, ApiType, Store
  <2>2. UNCHANGED <<enabled, caches, changes>>
    BY DEF ReconcileConfig
  <2>3. CASE GiveUp /\ UNCHANGED <<api, events>>
    BY <2>2, <2>3, <1>a, <1>b, <1>d, GiveUpType
  <2>4. CASE ~(GiveUp /\ UNCHANGED <<api, events>>)
    <3>1. (IF todo[x].enforced THEN objects[x] ELSE [objects[x] EXCEPT !.enforced = TRUE])
             \in {NoObject} \cup Object
      BY <2>1, <2>4 DEF ReconcileConfig, Object
    <3>2. ApiType'
      BY <2>1, <2>4, <3>1, WriteType DEF ReconcileConfig
    <3>3. ((IF x \in StackConfigs THEN declared ELSE todo[x].targets) \X {x}) \subseteq Refs \X Objects
      BY <2>1 DEF Object, WorkerType, Refs
    <3>4. todo' \in Store
      BY <2>4 DEF ReconcileConfig, WorkerType, Store
    <3>5. WorkerType'
      BY <2>4, <3>3, <3>4 DEF ReconcileConfig, WorkerType
    <3> QED BY <2>2, <3>2, <3>5, <1>b, <1>d
  <2> QED BY <2>3, <2>4
<1>23. EnsureAddonConfig => Goal
  <2> SUFFICES ASSUME EnsureAddonConfig PROVE Goal
    OBVIOUS
  <2>1. ApiType'
    BY <1>a, WriteCmaoType, WithConfigsType DEF EnsureAddonConfig, CacheType
  <2>2. WorkerType'
    BY GiveUpType DEF EnsureAddonConfig, Goto, WorkerType, Phases
  <2> QED BY <2>1, <2>2, <1>b, <1>d DEF EnsureAddonConfig
<1>24. ListOrphans => Goal
  <2> SUFFICES ASSUME ListOrphans PROVE Goal
    OBVIOUS
  <2>1. todo' \in Store
    BY DEF ListOrphans, CacheType, Store
  <2>2. WorkerType'
    BY <2>1 DEF ListOrphans, WorkerType, Phases
  <2> QED BY <2>2, <1>a, <1>b, <1>d DEF ListOrphans
<1>25. \A a \in Agents : DeleteOrphan(a) => Goal
  <2> SUFFICES ASSUME NEW a \in Agents, DeleteOrphan(a) PROVE Goal
    OBVIOUS
  <2>1. ApiType'
    BY <1>a, ObjectsType, WriteType DEF DeleteOrphan
  <2>2. WorkerType'
    BY GiveUpType DEF DeleteOrphan, WorkerType, Store
  <2> QED BY <2>1, <2>2, <1>b, <1>d DEF DeleteOrphan
<1>26. Finish => Goal
  BY <1>a, <1>b, <1>d DEF Finish, WorkerType, Phases
<1>27. CASE Next
  <2> HIDE DEF Goal
  <2> QED
    BY <1>27, <1>2, <1>3, <1>4, <1>5, <1>6, <1>7, <1>8, <1>9, <1>10, <1>11, <1>12, <1>13,
       <1>14, <1>15, <1>16, <1>17, <1>18, <1>19, <1>20, <1>21, <1>22, <1>23, <1>24, <1>25,
       <1>26, NextCases DEF Goal
<1> QED BY <1>1, <1>27

\* Every reachable state is well typed.
THEOREM TypeCorrect == Spec => []TypeOK
BY InitType, StepType, PTL DEF Spec
-----------------------------------------------------------------------------
(* What the caches have, and what the watches let through. *)

\* The objects none of whose changes is kept from the controller.
Watched(x) ==
  \/ x \in StackConfigs \cup {DefaultAgent, DummyAgent}
  \/ x \in Agents /\ objects[x] # NoObject /\ objects[x].owned

OwnInv == \A x \in {DefaultAgent, DummyAgent} : objects[x] # NoObject => objects[x].owned
SeenInv == /\ \A x \in Objects \ unseen : seen[x] = objects[x]
           /\ ~cmaoUnseen => seenCmao = cmao
WakeInv == \A x \in unseen : Watched(x) => x \in waking

LEMMA InitWatch == Init => OwnInv /\ SeenInv /\ WakeInv
<1> SUFFICES ASSUME Init PROVE OwnInv /\ SeenInv /\ WakeInv
  OBVIOUS
<1>1. \A x \in {DefaultAgent, DummyAgent} : x \in Objects /\ x \notin StackConfigs
  BY ObjectsType
<1> QED BY <1>1 DEF Init, OwnInv, SeenInv, WakeInv

LEMMA StepOwn == TypeOK /\ OwnInv /\ [Next]_vars => OwnInv'
<1> SUFFICES ASSUME TypeOK, OwnInv, [Next]_vars, NEW d \in {DefaultAgent, DummyAgent},
                    objects'[d] # NoObject
             PROVE  objects'[d].owned
  BY DEF OwnInv
<1>t. ApiType /\ d \in Agents /\ d \in Objects
  BY TypeParts, ObjectsType
<1>k. d \notin UserAgents \cup UserConfigs \cup StackConfigs
  OBVIOUS
<1>1. CASE objects'[d] = objects[d]
  BY <1>1 DEF OwnInv
<1>2. ASSUME NEW x \in Objects, NEW object \in {NoObject} \cup Object, Write(x, object),
             x = d => object = NoObject \/ object.owned
      PROVE  objects'[d].owned
  BY <1>2, <1>1, <1>t, WriteType
<1>3. ASSUME NEW p \in Placements, NEW x \in UserAgents \cup UserConfigs, List(p, x)
      PROVE  objects'[d].owned
  BY <1>3, <1>1 DEF List, WriteCmao
<1>4. ASSUME NEW x \in UserAgents \cup UserConfigs, NEW targets \in SUBSET Placements,
             CreateObject(x, targets) \/ Retarget(x, targets)
      PROVE  objects'[d].owned
  BY <1>4, <1>t, <1>k, <1>1 DEF CreateObject, Retarget, Write, ApiType, Store
<1>5. ASSUME NEW x \in Objects, DeleteObject(x) PROVE objects'[d].owned
  BY <1>5, <1>t, <1>1 DEF DeleteObject, Write, ApiType, Store
<1>6. ASSUME NEW x \in Objects, Drift(x) PROVE objects'[d].owned
  <2>1. objects[x] \in Object
    BY <1>6, <1>t DEF Drift, ApiType, Store
  <2>2. [objects[x] EXCEPT !.enforced = FALSE] \in Object
        /\ [objects[x] EXCEPT !.enforced = FALSE].owned = objects[x].owned
    BY <2>1 DEF Object
  <2> QED BY <1>6, <2>1, <2>2, <1>2, NoObjectType DEF Drift, OwnInv
<1>7. CASE CreateDefaultAgent
  <2> DEFINE globals == declared \cap GlobalRefs
             name == DefaultName(Recognized(seen), globals)
             ref == DefaultRef(name, globals)
  <2>1. CASE UNCHANGED objects
    BY <2>1, <1>1
  <2>2. CASE Write(name, NewDefaultAgent(ref))
    <3>1. name \in Objects /\ ref \in Refs
      BY ObjectsType DEF DefaultName, DefaultRef, Refs
    <3>2. NewDefaultAgent(ref) \in Object /\ NewDefaultAgent(ref).owned
      BY <3>1 DEF NewDefaultAgent, Object
    <3> HIDE DEF name, ref
    <3> QED BY <2>2, <3>1, <3>2, <1>2
  <2> QED BY <1>7, <2>1, <2>2 DEF CreateDefaultAgent, api
<1>8. ASSUME NEW a \in Agents, ReconcileAgent(a) PROVE objects'[d].owned
  <2>1. a \in Objects /\ objects[a] \in {NoObject} \cup Object
    BY <1>t, ObjectsType DEF ApiType, Store
  <2>2. AfterApply(objects[a]) \in Object /\ AfterApply(objects[a]).owned
    BY <2>1, AfterApplyType DEF AfterApply, Object
  <2>3. a = d => objects[a] = NoObject \/ objects[a].owned
    BY DEF OwnInv
  <2> QED BY <1>8, <2>1, <2>2, <2>3, <1>2 DEF ReconcileAgent
<1>9. ASSUME NEW x \in StackConfigs \cup UserConfigs, ReconcileConfig(x) PROVE objects'[d].owned
  <2>1. x # d /\ x \in Objects
    BY <1>k, ObjectsType
  <2> QED BY <1>9, <2>1, <1>1, <1>t DEF ReconcileConfig, Write, ApiType, Store, api
<1>10. ASSUME NEW a \in Agents, DeleteOrphan(a) PROVE objects'[d].owned
  BY <1>10, <1>t, <1>1 DEF DeleteOrphan, Write, ApiType, Store, api
<1>11. CASE UNCHANGED objects
  BY <1>11, <1>1
<1>12. CASE \/ UNCHANGED vars \/ Toggle \/ ApiError \/ Restart \/ Informer \/ EnsureAddonConfig
            \/ Start \/ RefetchAgent \/ ListAgents \/ AgentsDone \/ ListConfigs \/ ConfigsDone
            \/ ListOrphans \/ Finish \/ \E p \in Placements : Declare(p) \/ Withdraw(p)
  BY <1>12, <1>11 DEF Toggle, ApiError, Restart, Informer, SyncCmao, SyncObject,
     EnsureAddonConfig, WriteCmao, Start, RefetchAgent, ListAgents, AgentsDone, ListConfigs,
     ConfigsDone, ListOrphans, Finish, Declare, Withdraw, api, vars
<1> QED
  BY <1>3, <1>4, <1>5, <1>6, <1>7, <1>8, <1>9, <1>10, <1>12 DEF Next, Outside, Worker

LEMMA WriteWatch ==
  ASSUME ApiType, SeenInv, WakeInv, OwnInv, OwnInv',
         NEW y \in Objects, NEW object \in {NoObject} \cup Object, Write(y, object),
         UNCHANGED caches
  PROVE  SeenInv' /\ WakeInv'
<1>1. objects'[y] = object /\ \A x \in Objects \ {y} : objects'[x] = objects[x]
  BY WriteType
<1>2. SeenInv'
  BY <1>1 DEF SeenInv, Write, caches, ApiType, Store
<1>3. ASSUME NEW x \in unseen', Watched(x)' PROVE x \in waking'
  <2>1. x \in Objects
    BY WriteType, <1>3 DEF ApiType
  <2>2. CASE objects'[x] = objects[x]
    BY <1>1, <1>3, <2>1, <2>2 DEF Watched, WakeInv, Write
  <2>3. CASE objects'[x] # objects[x]
    <3>1. x = y /\ object # objects[x]
      BY <1>1, <2>1, <2>3
    <3>2. Wakes(x, objects[x]) \/ Wakes(x, object)
      <4>1. CASE x \in {DefaultAgent, DummyAgent}
        BY <4>1, <3>1, <1>1, <2>3, ObjectsType DEF Wakes, OwnInv
      <4>2. CASE x \notin {DefaultAgent, DummyAgent}
        BY <4>2, <3>1, <1>1, <1>3 DEF Wakes, Watched
      <4> QED BY <4>1, <4>2
    <3> QED BY <3>1, <3>2 DEF Write
  <2> QED BY <2>2, <2>3
<1> QED BY <1>2, <1>3 DEF WakeInv

\* What a step does to the API server and the caches.
WriteStep ==
  \E y \in Objects, object \in {NoObject} \cup Object :
    Write(y, object) /\ UNCHANGED <<caches, enabled, triggered>>
CmaoStep ==
  \E listing \in Listing : WriteCmao(listing) /\ UNCHANGED <<caches, enabled, triggered>>
SilentStep ==
  /\ UNCHANGED <<api, events, caches>>
  /\ triggered' \/ (enabled' = enabled /\ (triggered' = triggered \/ Start))

ApiStep ==
  \/ SilentStep \/ WriteStep \/ CmaoStep
  \/ SyncCmao \/ Restart \/ \E x \in Objects : SyncObject(x)

LEMMA ApiCases == ASSUME TypeOK, [Next]_vars PROVE ApiStep
<1>t. ApiType /\ CacheType /\ WorkerType
  BY TypeParts
<1>u. \A y \in Objects : objects[y] \in {NoObject} \cup Object
  BY <1>t DEF ApiType, Store
<1> USE DEF worker, api, events, ApiStep
<1>1. CASE UNCHANGED vars
  BY <1>1 DEF vars, SilentStep
<1>2. \A p \in Placements : Declare(p) => ApiStep
  <2> SUFFICES ASSUME NEW p \in Placements, Declare(p) PROVE CmaoStep
    OBVIOUS
  <2>1. [cmao EXCEPT ![p] = {}] \in Listing
    BY <1>t DEF ApiType, Listing
  <2> QED BY <2>1 DEF Declare, CmaoStep
<1>3. \A p \in Placements : Withdraw(p) => ApiStep
  <2> SUFFICES ASSUME NEW p \in Placements, Withdraw(p) PROVE CmaoStep
    OBVIOUS
  <2>1. [cmao EXCEPT ![p] = NotDeclared] \in Listing
    BY <1>t DEF ApiType, Listing
  <2> QED BY <2>1 DEF Withdraw, CmaoStep
<1>4. \A p \in Placements, x \in UserAgents \cup UserConfigs : List(p, x) => ApiStep
  <2> SUFFICES ASSUME NEW p \in Placements, NEW x \in UserAgents \cup UserConfigs, List(p, x)
               PROVE  CmaoStep
    OBVIOUS
  <2>1. cmao[p] \in SUBSET Objects /\ x \in Objects
    BY <1>t, ObjectsType DEF List, ApiType, Listing
  <2>2. [cmao EXCEPT ![p] = @ \cup {x}] \in Listing
    BY <2>1, <1>t DEF ApiType, Listing
  <2> QED BY <2>2 DEF List, CmaoStep
<1>5. \A x \in UserAgents \cup UserConfigs, targets \in SUBSET Placements :
        CreateObject(x, targets) => ApiStep
  <2> SUFFICES ASSUME NEW x \in UserAgents \cup UserConfigs, NEW targets \in SUBSET Placements,
                      CreateObject(x, targets)
               PROVE  WriteStep
    OBVIOUS
  <2>1. [targets |-> targets, owned |-> FALSE, labelled |-> TRUE, enforced |-> FALSE] \in Object
    BY DEF Object, Refs
  <2> QED BY <2>1, ObjectsType DEF CreateObject, WriteStep
<1>6. \A x \in UserAgents \cup UserConfigs, targets \in SUBSET Placements :
        Retarget(x, targets) => ApiStep
  <2> SUFFICES ASSUME NEW x \in UserAgents \cup UserConfigs, NEW targets \in SUBSET Placements,
                      Retarget(x, targets)
               PROVE  WriteStep
    OBVIOUS
  <2>1. x \in Objects /\ objects[x] \in Object /\ targets \in SUBSET Refs
    BY <1>u, ObjectsType DEF Retarget, Refs
  <2>2. [objects[x] EXCEPT !.targets = targets] \in Object
    BY <2>1, EditType
  <2> QED BY <2>1, <2>2 DEF Retarget, WriteStep
<1>7. \A x \in Objects : DeleteObject(x) => ApiStep
  BY DEF DeleteObject, WriteStep
<1>8. \A x \in Objects : Drift(x) => ApiStep
  <2> SUFFICES ASSUME NEW x \in Objects, Drift(x) PROVE WriteStep
    OBVIOUS
  <2>1. [objects[x] EXCEPT !.enforced = FALSE] \in Object
    BY <1>u DEF Drift, Object
  <2> QED BY <2>1 DEF Drift, WriteStep
<1>9. Toggle => ApiStep
  BY DEF Toggle, SilentStep
<1>10. ApiError => ApiStep
  BY DEF ApiError, GiveUp, SilentStep
<1>11. Start => ApiStep
  BY DEF Start, SilentStep
<1>12. CreateDefaultAgent => ApiStep
  <2> SUFFICES ASSUME CreateDefaultAgent PROVE ApiStep
    OBVIOUS
  <2> DEFINE globals == declared \cap GlobalRefs
             name == DefaultName(Recognized(seen), globals)
             ref == DefaultRef(name, globals)
  <2>1. CASE Goto("ListAgents") /\ UNCHANGED <<api, events>>
    BY <2>1 DEF CreateDefaultAgent, Goto, SilentStep
  <2>2. CASE /\ Write(name, NewDefaultAgent(ref)) /\ UNCHANGED <<declared, desired, triggered>>
    <3>1. name \in Objects /\ ref \in Refs
      BY ObjectsType DEF DefaultName, DefaultRef, Refs
    <3>2. NewDefaultAgent(ref) \in Object
      BY <3>1 DEF NewDefaultAgent, Object
    <3>3. UNCHANGED <<caches, enabled, triggered>>
      BY <2>2 DEF CreateDefaultAgent
    <3> HIDE DEF name, ref
    <3> QED BY <2>2, <3>1, <3>2, <3>3 DEF WriteStep
  <2>3. CASE GiveUp /\ UNCHANGED <<api, events>>
    BY <2>3 DEF CreateDefaultAgent, GiveUp, SilentStep
  <2> QED BY <2>1, <2>2, <2>3 DEF CreateDefaultAgent
<1>13. RefetchAgent \/ ListAgents \/ AgentsDone \/ ListConfigs \/ ConfigsDone
         \/ ListOrphans \/ Finish => ApiStep
  BY DEF RefetchAgent, ListAgents, AgentsDone, ListConfigs, ConfigsDone, ListOrphans, Finish,
     GiveUp, Goto, SilentStep
<1>14. \A a \in Agents : ReconcileAgent(a) => ApiStep
  <2> SUFFICES ASSUME NEW a \in Agents, ReconcileAgent(a) PROVE WriteStep
    OBVIOUS
  <2>1. (IF todo[a].enforced THEN objects[a] ELSE AfterApply(objects[a])) \in {NoObject} \cup Object
    BY <1>u, AfterApplyType, ObjectsType
  <2> QED BY <2>1, ObjectsType DEF ReconcileAgent, WriteStep
<1>15. \A x \in StackConfigs \cup UserConfigs : ReconcileConfig(x) => ApiStep
  <2> SUFFICES ASSUME NEW x \in StackConfigs \cup UserConfigs, ReconcileConfig(x) PROVE ApiStep
    OBVIOUS
  <2>1. CASE GiveUp /\ UNCHANGED <<api, events>>
    BY <2>1 DEF ReconcileConfig, GiveUp, SilentStep
  <2>2. CASE ~(GiveUp /\ UNCHANGED <<api, events>>)
    <3>1. x \in Objects /\ todo[x] \in Object
      BY <1>t, ObjectsType DEF ReconcileConfig, WorkerType, Store
    <3>2. (IF todo[x].enforced THEN objects[x] ELSE [objects[x] EXCEPT !.enforced = TRUE])
             \in {NoObject} \cup Object
      BY <1>u, <2>2, <3>1 DEF ReconcileConfig, Object
    <3> QED BY <2>2, <3>1, <3>2 DEF ReconcileConfig, WriteStep
  <2> QED BY <2>1, <2>2
<1>16. EnsureAddonConfig => ApiStep
  <2>1. WithConfigs(seenCmao) \in Listing
    BY <1>t, WithConfigsType DEF CacheType
  <2> QED BY <2>1 DEF EnsureAddonConfig, Goto, GiveUp, SilentStep, CmaoStep
<1>17. \A a \in Agents : DeleteOrphan(a) => ApiStep
  BY ObjectsType DEF DeleteOrphan, GiveUp, SilentStep, WriteStep
<1> HIDE DEF ApiStep
<1>18. CASE Next
  <2>1. /\ SyncCmao => ApiStep
        /\ Restart => ApiStep
        /\ RefetchAgent => ApiStep
        /\ ListAgents => ApiStep
        /\ AgentsDone => ApiStep
        /\ ListConfigs => ApiStep
        /\ ConfigsDone => ApiStep
        /\ ListOrphans => ApiStep
        /\ Finish => ApiStep
        /\ \A x \in Objects : SyncObject(x) => ApiStep
    BY <1>13 DEF ApiStep
  <2> QED
    BY <1>18, <1>2, <1>3, <1>4, <1>5, <1>6, <1>7, <1>8, <1>9, <1>10, <1>11, <1>12, <1>14,
       <1>15, <1>16, <1>17, <2>1, NextCases
<1> QED BY <1>1, <1>18

LEMMA StepWatch ==
  TypeOK /\ OwnInv /\ SeenInv /\ WakeInv /\ [Next]_vars => OwnInv' /\ SeenInv' /\ WakeInv'
<1> SUFFICES ASSUME TypeOK, OwnInv, SeenInv, WakeInv, [Next]_vars PROVE SeenInv' /\ WakeInv'
  BY StepOwn
<1>t. ApiType /\ CacheType /\ OwnInv'
  BY TypeParts, StepOwn
<1>1. CASE SilentStep
  BY <1>1 DEF SilentStep, SeenInv, WakeInv, Watched, api, events, caches
<1>2. CASE WriteStep
  BY <1>2, <1>t, WriteWatch DEF WriteStep
<1>3. CASE CmaoStep
  BY <1>3, <1>t DEF CmaoStep, WriteCmao, SeenInv, WakeInv, Watched, caches, ApiType
<1>4. CASE SyncCmao
  BY <1>4 DEF SyncCmao, SeenInv, WakeInv, Watched, api
<1>5. CASE Restart
  BY <1>5 DEF Restart, SeenInv, WakeInv, api
<1>6. ASSUME NEW x \in Objects, SyncObject(x) PROVE SeenInv' /\ WakeInv'
  BY <1>6, <1>t DEF SyncObject, SeenInv, WakeInv, Watched, api, CacheType, Store
<1> QED BY <1>1, <1>2, <1>3, <1>4, <1>5, <1>6, ApiCases DEF ApiStep

\* The worker writes the CMAO only if nobody did since it was read, and then
\* keeps what it does not know to be gone.
LEMMA WorkerKeeps ==
  ASSUME TypeOK, SeenInv, Worker
  PROVE  /\ Declares(cmao') = Declares(cmao)
         /\ \A p \in Declares(cmao) : cmao[p] \cap Exists(seen) \subseteq cmao'[p]
<1>1. CASE UNCHANGED cmao
  BY <1>1 DEF Declares
<1>2. CASE EnsureAddonConfig /\ cmao' # cmao
  <2>1. cmao' = WithConfigs(cmao)
    BY <1>2 DEF EnsureAddonConfig, WriteCmao, SeenInv, api
  <2>2. cmao \in Listing /\ seen \in Store
    BY DEF TypeOK
  <2>3. \A p \in Placements : cmao'[p] = NotDeclared <=> cmao[p] = NotDeclared
    BY <2>1, <2>2 DEF WithConfigs, Listing, Exists
  <2>4. \A p \in Declares(cmao) : cmao[p] \cap Exists(seen) \subseteq cmao'[p]
    BY <2>1, <2>2 DEF WithConfigs, Listing, Declares
  <2> QED BY <2>3, <2>4 DEF Declares
<1> QED
  BY <1>1, <1>2 DEF Worker, Start, CreateDefaultAgent, RefetchAgent, ListAgents, AgentsDone,
     ReconcileAgent, ListConfigs, ConfigsDone, ReconcileConfig, ListOrphans, DeleteOrphan, Finish,
     Write, api

\* The caches lag only on what is still to be delivered, and of an object whose
\* changes the watches let through, what is to be delivered wakes the worker.
THEOREM WatchInvariant == Spec => [](TypeOK /\ OwnInv /\ SeenInv /\ WakeInv)
BY InitType, InitWatch, StepType, StepWatch, PTL DEF Spec

\* A placement declared or withdrawn, and a reference listed to an object the
\* cache has, by a user while the worker is at work is not undone by it.
THEOREM UserEditsSurvive == Spec => UserEditsKept
<1>1. TypeOK /\ SeenInv /\ [Next]_vars =>
        [Worker => /\ Declares(cmao') = Declares(cmao)
                   /\ \A p \in Declares(cmao) : cmao[p] \cap Exists(seen) \subseteq cmao'[p]]_vars
  BY WorkerKeeps
<1> QED BY <1>1, WatchInvariant, PTL DEF Spec, UserEditsKept
-----------------------------------------------------------------------------
(* What is wrong on the API server is still ahead of the worker. *)

\* Nothing that concerns x is about to start another pass.
Undisturbed(x) == ~triggered /\ ~cmaoUnseen /\ x \notin waking

BeforeConfigs == {"Default", "Refetch", "ListAgents", "Agents", "ListConfigs"}
UntilEnsure == BeforeConfigs \cup {"Configs", "Ensure"}

\* A listing of what is gone is removed by EnsureAddonConfig.
StaleAt(p, x) ==
  /\ Undisturbed(x)
  /\ p \in Declares(cmao) /\ x \in cmao[p] /\ objects[x] = NoObject
StaleInv ==
  \A p \in Placements, x \in StackConfigs \cup {DefaultAgent, DummyAgent} :
    StaleAt(p, x) => phase \in UntilEnsure

\* An orphan is listed and deleted.
OrphanAt(a) ==
  /\ Undisturbed(a) /\ objects[a] # NoObject /\ objects[a].owned
  /\ ~HasExistingPlacementRef(objects[a], Declares(cmao))
OrphanInv ==
  \A a \in Agents : OrphanAt(a) =>
    phase \in UntilEnsure \cup {"Orphans"} \/ (phase = "Delete" /\ todo[a] # NoObject)

\* An object of the operator that a placement lacks is gathered, then listed.
UnplacedAt(p, x) ==
  /\ Undisturbed(x) /\ enabled /\ objects[x] # NoObject
  /\ p \in Declares(cmao) /\ x \notin cmao[p]
PlaceInv ==
  \A p \in Placements, x \in StackConfigs : UnplacedAt(p, x) =>
    /\ p \in declared
    /\ \/ phase \in BeforeConfigs
       \/ phase = "Configs" /\ todo[x] # NoObject
       \/ phase \in {"Configs", "Ensure"} /\ <<p, x>> \in desired

\* So is an owned agent, from its own annotation.
ToGather(a) ==
  phase \in {"Default", "Refetch", "ListAgents"} \/ (phase = "Agents" /\ todo[a] = objects[a])
OwnedAt(a) ==
  /\ Undisturbed(a) /\ enabled
  /\ objects[a] # NoObject /\ objects[a].owned /\ objects[a].labelled
AgentInv ==
  \A a \in Agents, p \in Placements :
    OwnedAt(a) /\ p \in Declares(cmao) /\ p \in objects[a].targets /\ a \notin cmao[p] =>
      ToGather(a) \/ (phase \in UntilEnsure /\ <<p, a>> \in desired)

\* The settings of an owned agent are restored.
EnforceInv == \A a \in Agents : OwnedAt(a) => objects[a].enforced \/ ToGather(a)

\* What the worker does in a step that does not wake it.
AgentGathered(b) ==
  /\ phase = "Agents" /\ todo[b] # NoObject
  /\ ~todo[b].enforced => objects'[b] = AfterApply(objects[b])
  /\ todo' = [todo EXCEPT ![b] = NoObject]
  /\ desired' = desired \cup (todo[b].targets \X {b})
  /\ UNCHANGED <<phase, declared>>
ConfigGathered(y) ==
  /\ phase = "Configs"
  /\ todo' = [todo EXCEPT ![y] = NoObject]
  /\ desired' = desired \cup ((IF y \in StackConfigs THEN declared ELSE todo[y].targets) \X {y})
  /\ UNCHANGED <<phase, declared>>
OrphanDeleted(b) ==
  /\ phase = "Delete" /\ objects[b] # NoObject /\ objects'[b] = NoObject
  /\ todo' = [todo EXCEPT ![b] = NoObject]
  /\ UNCHANGED <<phase, declared, desired>>
Ensured ==
  /\ phase = "Ensure" /\ phase' = "Orphans"
  /\ WithConfigs(seenCmao) = seenCmao \/ WithConfigs(seenCmao) = cmao'
DefaultStep ==
  /\ phase \in {"Default", "Refetch"} /\ phase' \in {"Refetch", "ListAgents"}
  /\ UNCHANGED <<declared, desired>>
Move ==
  \/ UNCHANGED worker
  \/ Start \/ DefaultStep
  \/ ListAgents \/ AgentsDone \/ (\E b \in Agents : AgentGathered(b))
  \/ ListConfigs \/ ConfigsDone \/ (\E y \in StackConfigs \cup UserConfigs : ConfigGathered(y))
  \/ Ensured \/ ListOrphans \/ (\E b \in Agents : OrphanDeleted(b)) \/ Finish

LEMMA Moves == ASSUME TypeOK, [Next]_vars, ~triggered' PROVE Move
<1>t. ApiType /\ CacheType /\ WorkerType
  BY TypeParts
<1>1. CASE UNCHANGED vars \/ Outside \/ Informer
  BY <1>1 DEF vars, worker, Outside, Informer, Declare, Withdraw, List, CreateObject, Retarget,
     DeleteObject, Drift, Toggle, ApiError, Restart, GiveUp, SyncCmao, SyncObject, Move
<1>2. CASE Start \/ ListAgents \/ AgentsDone \/ ListConfigs \/ ConfigsDone \/ ListOrphans \/ Finish
  BY <1>2 DEF Move
<1>3. CASE CreateDefaultAgent \/ RefetchAgent
  BY <1>3 DEF CreateDefaultAgent, RefetchAgent, GiveUp, Goto, DefaultStep, Move
<1>4. ASSUME NEW b \in Agents, ReconcileAgent(b) PROVE AgentGathered(b)
  <2>1. b \in Objects /\ objects \in Store
    BY <1>t, ObjectsType DEF ApiType
  <2>2. objects' = [objects EXCEPT ![b] =
                      IF todo[b].enforced THEN objects[b] ELSE AfterApply(objects[b])]
    BY <1>4 DEF ReconcileAgent, Write
  <2>3. ~todo[b].enforced => objects'[b] = AfterApply(objects[b])
    BY <2>1, <2>2 DEF Store
  <2> QED BY <1>4, <2>3 DEF ReconcileAgent, AgentGathered
<1>5. ASSUME NEW y \in StackConfigs \cup UserConfigs, ReconcileConfig(y) PROVE ConfigGathered(y)
  BY <1>5 DEF ReconcileConfig, GiveUp, ConfigGathered
<1>6. CASE EnsureAddonConfig
  BY <1>6 DEF EnsureAddonConfig, GiveUp, Goto, WriteCmao, Ensured, Move
<1>7. ASSUME NEW b \in Agents, DeleteOrphan(b) PROVE OrphanDeleted(b)
  <2>1. b \in Objects /\ objects \in Store
    BY <1>t, ObjectsType DEF ApiType
  <2> QED BY <1>7, <2>1 DEF DeleteOrphan, GiveUp, Write, OrphanDeleted, Store
<1> QED
  BY <1>1, <1>2, <1>3, <1>4, <1>5, <1>6, <1>7 DEF Next, Worker, Move

\* A step after which x is undisturbed changed nothing that concerns it, and
\* the worker saw x and the CMAO as they are.
LEMMA Untouched ==
  ASSUME TypeOK, OwnInv, SeenInv, WakeInv, [Next]_vars,
         NEW x \in Objects, Watched(x)', Undisturbed(x)'
  PROVE  /\ objects'[x] = objects[x] /\ cmao' = cmao /\ enabled' = enabled
         /\ seen[x] = objects[x] /\ seenCmao = cmao
         /\ Undisturbed(x) \/ Start
<1>t. ApiType /\ CacheType /\ WakeInv'
  BY TypeParts, StepWatch
<1> DEFINE Same == /\ objects'[x] = objects[x] /\ cmao' = cmao /\ enabled' = enabled
                   /\ ~cmaoUnseen /\ x \notin waking
                   /\ ~triggered \/ Start
<1>1. ASSUME SilentStep PROVE Same
  BY <1>1 DEF SilentStep, Undisturbed, api, events
<1>2. ASSUME WriteStep PROVE Same
  <2>1. PICK y \in Objects, object \in {NoObject} \cup Object :
          Write(y, object) /\ UNCHANGED <<caches, enabled, triggered>>
    BY <1>2 DEF WriteStep
  <2>2. objects'[x] = objects[x]
    <3>1. CASE x # y
      BY <2>1, <3>1, <1>t, WriteType
    <3>2. CASE x = y /\ object # objects[x]
      <4>1. x \in unseen'
        BY <2>1, <3>2 DEF Write
      <4>2. x \in waking'
        BY <4>1, <1>t DEF WakeInv, Watched
      <4> QED BY <4>2 DEF Undisturbed
    <3>3. CASE x = y /\ object = objects[x]
      BY <2>1, <3>3, <1>t, WriteType
    <3> QED BY <3>1, <3>2, <3>3
  <2> QED BY <2>1, <2>2 DEF Write, Undisturbed
<1>3. ASSUME CmaoStep PROVE Same
  <2>1. PICK listing \in Listing : WriteCmao(listing) /\ UNCHANGED <<caches, enabled, triggered>>
    BY <1>3 DEF CmaoStep
  <2>2. listing = cmao /\ ~cmaoUnseen
    BY <2>1 DEF WriteCmao, Undisturbed
  <2> QED BY <2>1, <2>2 DEF WriteCmao, Undisturbed
<1>4. ASSUME NEW y \in Objects, SyncObject(y) PROVE Same
  BY <1>4 DEF SyncObject, Undisturbed, api
<1>5. ~SyncCmao /\ ~Restart
  BY DEF SyncCmao, Restart, GiveUp, Undisturbed
<1>6. Same
  BY <1>1, <1>2, <1>3, <1>4, <1>5, ApiCases DEF ApiStep
<1>7. Watched(x)
  BY <1>6 DEF Watched
<1>8. seen[x] = objects[x] /\ seenCmao = cmao
  BY <1>6, <1>7 DEF SeenInv, WakeInv
<1> QED BY <1>6, <1>8 DEF Undisturbed

\* What follows if the step also finds x wrong: x was wrong, or a pass starts.
LEMMA StaleStep ==
  ASSUME TypeOK, OwnInv, SeenInv, WakeInv, StaleInv, [Next]_vars
  PROVE  StaleInv'
<1> SUFFICES ASSUME NEW p \in Placements, NEW x \in StackConfigs \cup {DefaultAgent, DummyAgent},
                    StaleAt(p, x)'
             PROVE  phase' \in UntilEnsure
  BY DEF StaleInv
<1>1. x \in Objects /\ Watched(x)' /\ Undisturbed(x)'
  BY ObjectsType DEF Watched, StaleAt
<1>2. /\ objects'[x] = objects[x] /\ cmao' = cmao
      /\ seen[x] = objects[x] /\ seenCmao = cmao
      /\ Undisturbed(x) \/ Start
  BY <1>1, Untouched
<1>3. CASE Start
  BY <1>3 DEF Start, UntilEnsure, BeforeConfigs
<1>4. CASE ~Start
  <2>1. StaleAt(p, x) /\ phase \in UntilEnsure
    BY <1>2, <1>4 DEF StaleAt, StaleInv, Declares
  <2>2. ~Ensured
    <3>1. cmao \in Listing /\ cmao[p] # NotDeclared
      BY <2>1 DEF StaleAt, TypeOK, Declares
    <3>2. x \notin WithConfigs(seenCmao)[p]
      BY <1>2, <2>1, <3>1 DEF WithConfigs, StaleAt, Exists
    <3> QED BY <1>2, <2>1, <3>2 DEF Ensured, StaleAt
  <2>3. Move
    BY <1>1, Moves DEF Undisturbed
  <2> QED
    BY <2>1, <2>2, <2>3, <1>4 DEF Move, UntilEnsure, BeforeConfigs, worker, DefaultStep,
       ListAgents, AgentsDone, AgentGathered, ListConfigs, ConfigsDone, ConfigGathered,
       ListOrphans, OrphanDeleted, Finish, Goto
<1> QED BY <1>3, <1>4

LEMMA OrphanStep ==
  ASSUME TypeOK, OwnInv, SeenInv, WakeInv, OrphanInv, [Next]_vars
  PROVE  OrphanInv'
<1> SUFFICES ASSUME NEW a \in Agents, OrphanAt(a)'
             PROVE  \/ phase' \in UntilEnsure \cup {"Orphans"}
                    \/ phase' = "Delete" /\ todo'[a] # NoObject
  BY DEF OrphanInv
<1>1. a \in Objects /\ Watched(a)' /\ Undisturbed(a)'
  BY ObjectsType DEF Watched, OrphanAt
<1>2. /\ objects'[a] = objects[a] /\ cmao' = cmao
      /\ seen[a] = objects[a] /\ seenCmao = cmao
      /\ Undisturbed(a) \/ Start
  BY <1>1, Untouched
<1>3. CASE Start
  BY <1>3 DEF Start, UntilEnsure, BeforeConfigs
<1>4. CASE ~Start
  <2>1. OrphanAt(a)
    BY <1>2, <1>4 DEF OrphanAt, Declares, HasExistingPlacementRef
  <2>2. \/ phase \in UntilEnsure \cup {"Orphans"}
        \/ phase = "Delete" /\ todo[a] # NoObject
    BY <2>1 DEF OrphanInv
  <2>3. Move
    BY <1>1, Moves DEF Undisturbed
  <2>4. CASE ListOrphans
    <3>1. a \in Orphans(seen, Declares(seenCmao))
      BY <1>1, <1>2, <2>1 DEF Orphans, Deletable, Exists, OrphanAt, HasExistingPlacementRef
    <3> QED BY <1>1, <1>2, <2>1, <2>4, <3>1 DEF ListOrphans, OrphanAt
  <2>5. ASSUME NEW b \in Agents, OrphanDeleted(b)
        PROVE  phase' = "Delete" /\ todo'[a] # NoObject
    <3>1. a # b
      BY <1>2, <2>5 DEF OrphanDeleted
    <3> QED BY <2>2, <2>5, <3>1, <1>1 DEF OrphanDeleted, UntilEnsure, BeforeConfigs, TypeOK, Store
  <2>6. ~Finish
    BY <2>2, <1>1 DEF Finish, UntilEnsure, BeforeConfigs, Nothing
  <2> QED
    BY <2>2, <2>3, <2>4, <2>5, <2>6, <1>4 DEF Move, UntilEnsure, BeforeConfigs, worker,
       DefaultStep, ListAgents, AgentsDone, AgentGathered, ListConfigs, ConfigsDone,
       ConfigGathered, Ensured, Goto
<1> QED BY <1>3, <1>4

LEMMA PlaceStep ==
  ASSUME TypeOK, OwnInv, SeenInv, WakeInv, PlaceInv, [Next]_vars
  PROVE  PlaceInv'
<1> SUFFICES ASSUME NEW p \in Placements, NEW x \in StackConfigs, UnplacedAt(p, x)'
             PROVE  /\ p \in declared'
                    /\ \/ phase' \in BeforeConfigs
                       \/ phase' = "Configs" /\ todo'[x] # NoObject
                       \/ phase' \in {"Configs", "Ensure"} /\ <<p, x>> \in desired'
  BY DEF PlaceInv
<1>1. x \in Objects /\ Watched(x)' /\ Undisturbed(x)'
  BY ObjectsType DEF Watched, UnplacedAt
<1>2. /\ objects'[x] = objects[x] /\ cmao' = cmao /\ enabled' = enabled
      /\ seen[x] = objects[x] /\ seenCmao = cmao
      /\ Undisturbed(x) \/ Start
  BY <1>1, Untouched
<1>3. enabled /\ objects[x] # NoObject /\ p \in Declares(cmao) /\ x \notin cmao[p]
  BY <1>2 DEF UnplacedAt, Declares
<1>4. CASE Start
  BY <1>2, <1>3, <1>4 DEF Start, BeforeConfigs
<1>5. CASE ~Start
  <2>1. UnplacedAt(p, x)
    BY <1>2, <1>3, <1>5 DEF UnplacedAt
  <2>2. /\ p \in declared
        /\ \/ phase \in BeforeConfigs
           \/ phase = "Configs" /\ todo[x] # NoObject
           \/ phase \in {"Configs", "Ensure"} /\ <<p, x>> \in desired
    BY <2>1 DEF PlaceInv
  <2>3. Move
    BY <1>1, Moves DEF Undisturbed
  <2>4. CASE ListConfigs
    BY <1>1, <1>2, <1>3, <2>2, <2>4 DEF ListConfigs
  <2>5. ASSUME NEW y \in StackConfigs \cup UserConfigs, ConfigGathered(y)
        PROVE  phase' = "Configs" /\ (todo'[x] # NoObject \/ <<p, x>> \in desired')
    <3>1. CASE y = x
      BY <2>2, <2>5, <3>1 DEF ConfigGathered
    <3>2. CASE y # x
      BY <1>1, <2>2, <2>5, <3>2 DEF ConfigGathered, BeforeConfigs, TypeOK, Store
    <3> QED BY <3>1, <3>2
  <2>6. CASE ConfigsDone
    BY <1>1, <2>2, <2>6 DEF ConfigsDone, Goto, BeforeConfigs, Nothing
  <2>7. ~Ensured
    <3>1. ASSUME Ensured PROVE x \in WithConfigs(seenCmao)[p]
      BY <1>1, <1>2, <1>3, <2>2, <3>1 DEF Ensured, WithConfigs, Declares, Exists, BeforeConfigs
    <3> QED BY <1>2, <1>3, <3>1 DEF Ensured
  <2>8. ASSUME NEW b \in Agents, AgentGathered(b)
        PROVE  phase' = "Agents" /\ declared' = declared
    BY <2>8 DEF AgentGathered
  <2> QED
    BY <2>2, <2>3, <2>4, <2>5, <2>6, <2>7, <2>8, <1>5 DEF Move, BeforeConfigs, worker,
       DefaultStep, ListAgents, AgentsDone, ListOrphans, OrphanDeleted, Finish, Goto,
       ConfigGathered
<1> QED BY <1>4, <1>5

\* An agent that is still to be gathered is so after the step, or it was just
\* gathered.
LEMMA GatherStep ==
  ASSUME TypeOK, OwnInv, SeenInv, WakeInv, [Next]_vars, NEW a \in Agents, OwnedAt(a)'
  PROVE  /\ OwnedAt(a) \/ Start
         /\ objects'[a] = objects[a] /\ cmao' = cmao
         /\ seen[a] = objects[a] /\ seenCmao = cmao
         /\ Start => ToGather(a)'
         /\ ~Start /\ ToGather(a) =>
              ToGather(a)' \/ (AgentGathered(a) /\ todo[a] = objects[a])
<1>1. a \in Objects /\ Watched(a)' /\ Undisturbed(a)'
  BY ObjectsType DEF Watched, OwnedAt
<1>2. /\ objects'[a] = objects[a] /\ cmao' = cmao /\ enabled' = enabled
      /\ seen[a] = objects[a] /\ seenCmao = cmao
      /\ Undisturbed(a) \/ Start
  BY <1>1, Untouched
<1>3. enabled /\ objects[a] # NoObject /\ objects[a].owned /\ objects[a].labelled
  BY <1>2 DEF OwnedAt
<1>4. ASSUME Start PROVE ToGather(a)'
  BY <1>3, <1>4 DEF Start, ToGather
<1>5. ASSUME ~Start, ToGather(a), ~AgentGathered(a) PROVE ToGather(a)'
  <2>1. Move
    BY <1>1, Moves DEF Undisturbed
  <2>2. CASE ListAgents
    <3>1. a \in Recognized(seen)
      BY <1>1, <1>2, <1>3 DEF Recognized, Exists
    <3> QED BY <1>1, <1>2, <2>2, <3>1 DEF ListAgents, ToGather
  <2>3. ASSUME NEW b \in Agents, AgentGathered(b) PROVE ToGather(a)'
    BY <1>1, <1>2, <1>5, <2>3 DEF AgentGathered, ToGather, TypeOK, Store
  <2>4. ~AgentsDone
    BY <1>1, <1>3, <1>5 DEF AgentsDone, ToGather, Nothing
  <2> QED
    BY <1>2, <1>5, <2>1, <2>2, <2>3, <2>4 DEF Move, worker, DefaultStep, ToGather, ListConfigs,
       ConfigsDone, ConfigGathered, Ensured, ListOrphans, OrphanDeleted, Finish, Goto
<1>6. ASSUME ~Start, ToGather(a), AgentGathered(a), todo[a] # objects[a] PROVE FALSE
  BY <1>6 DEF ToGather, AgentGathered
<1>7. OwnedAt(a) \/ Start
  BY <1>2, <1>3 DEF OwnedAt
<1> QED BY <1>2, <1>4, <1>5, <1>6, <1>7

LEMMA EnforceStep ==
  ASSUME TypeOK, OwnInv, SeenInv, WakeInv, EnforceInv, [Next]_vars
  PROVE  EnforceInv'
<1> SUFFICES ASSUME NEW a \in Agents, OwnedAt(a)', ~objects'[a].enforced
             PROVE  ToGather(a)'
  BY DEF EnforceInv
<1>1. /\ OwnedAt(a) \/ Start
      /\ objects'[a] = objects[a]
      /\ Start => ToGather(a)'
      /\ ~Start /\ ToGather(a) => ToGather(a)' \/ (AgentGathered(a) /\ todo[a] = objects[a])
  BY GatherStep
<1>2. ASSUME AgentGathered(a), todo[a] = objects[a] PROVE FALSE
  <2>1. objects[a] \in Object /\ objects'[a] = AfterApply(objects[a])
    BY <1>1, <1>2, ObjectsType DEF AgentGathered, TypeOK, Store
  <2>2. AfterApply(objects[a]).enforced
    BY <2>1, NoObjectType DEF AfterApply, Object
  <2> QED BY <1>1, <2>1, <2>2
<1> QED BY <1>1, <1>2 DEF EnforceInv

LEMMA AgentStep ==
  ASSUME TypeOK, OwnInv, SeenInv, WakeInv, AgentInv, [Next]_vars
  PROVE  AgentInv'
<1> SUFFICES ASSUME NEW a \in Agents, NEW p \in Placements, OwnedAt(a)',
                    p \in Declares(cmao'), p \in objects'[a].targets, a \notin cmao'[p]
             PROVE  ToGather(a)' \/ (phase' \in UntilEnsure /\ <<p, a>> \in desired')
  BY DEF AgentInv, Declares
<1>1. /\ OwnedAt(a) \/ Start
      /\ objects'[a] = objects[a] /\ cmao' = cmao
      /\ seen[a] = objects[a] /\ seenCmao = cmao
      /\ Start => ToGather(a)'
      /\ ~Start /\ ToGather(a) => ToGather(a)' \/ (AgentGathered(a) /\ todo[a] = objects[a])
  BY GatherStep
<1>2. ASSUME AgentGathered(a), todo[a] = objects[a]
      PROVE  phase' \in UntilEnsure /\ <<p, a>> \in desired'
  BY <1>1, <1>2 DEF AgentGathered, UntilEnsure, BeforeConfigs
<1>3. CASE ~Start /\ phase \in UntilEnsure /\ <<p, a>> \in desired
  <2>1. a \in Objects /\ objects[a] # NoObject /\ Undisturbed(a)'
    BY <1>1, ObjectsType DEF OwnedAt
  <2>2. Move
    BY <2>1, Moves DEF Undisturbed
  <2>3. ~Ensured
    <3>1. a \in WithConfigs(seenCmao)[p]
      BY <1>1, <1>3, <2>1 DEF WithConfigs, Declares, Exists
    <3> QED BY <1>1, <3>1 DEF Ensured
  <2> QED
    BY <1>3, <2>2, <2>3 DEF Move, worker, DefaultStep, UntilEnsure, BeforeConfigs, ListAgents,
       AgentsDone, AgentGathered, ListConfigs, ConfigsDone, ConfigGathered, ListOrphans,
       OrphanDeleted, Finish, Goto
<1> QED BY <1>1, <1>2, <1>3 DEF AgentInv
-----------------------------------------------------------------------------
(* The theorems about the resting controller. *)

IInv == /\ TypeOK /\ OwnInv /\ SeenInv /\ WakeInv
        /\ StaleInv /\ OrphanInv /\ PlaceInv /\ AgentInv /\ EnforceInv

LEMMA InitIInv == Init => IInv
<1> SUFFICES ASSUME Init PROVE StaleInv /\ OrphanInv /\ PlaceInv /\ AgentInv /\ EnforceInv
  BY InitType, InitWatch DEF IInv
<1> QED
  BY DEF Init, StaleInv, StaleAt, OrphanInv, OrphanAt, PlaceInv, UnplacedAt, AgentInv, EnforceInv,
     OwnedAt, Undisturbed

LEMMA StepIInv == IInv /\ [Next]_vars => IInv'
BY StepType, StepWatch, StaleStep, OrphanStep, PlaceStep, AgentStep, EnforceStep DEF IInv

\* Whatever the interleaving, what is wrong on the API server is either about
\* to wake the worker or ahead of it in the pass under way.
THEOREM WrongIsAhead == Spec => []IInv
BY InitIInv, StepIInv, PTL DEF Spec

LEMMA QuietUndisturbed ==
  ASSUME IInv, Quiet
  PROVE  /\ phase = "Idle"
         /\ \A x \in Objects : Undisturbed(x)
BY DEF IInv, Quiet, Undisturbed, TypeOK

\* When the controller rests no placement lists an object of the operator or
\* the addon that is gone.
THEOREM NoStaleListing == Spec => []NoStaleListingWhenQuiet
<1>1. IInv => NoStaleListingWhenQuiet
  BY QuietUndisturbed, ObjectsType
     DEF IInv, StaleInv, StaleAt, NoStaleListingWhenQuiet, Declares, Exists, UntilEnsure, BeforeConfigs
<1> QED BY <1>1, WrongIsAhead, PTL

\* When the controller rests no agent the CMAO owns is left without a placement.
THEOREM NoOrphan == Spec => []NoOrphanWhenQuiet
<1>1. IInv => NoOrphanWhenQuiet
  BY QuietUndisturbed, ObjectsType
     DEF IInv, OrphanInv, OrphanAt, NoOrphanWhenQuiet, Exists, UntilEnsure, BeforeConfigs
<1> QED BY <1>1, WrongIsAhead, PTL

\* When the controller rests every placement lists the operator's configs and
\* the owned agents that target it, with the addon's settings in force.
THEOREM InPlace == Spec => []InPlaceWhenQuiet
<1>1. ASSUME IInv, Quiet, enabled PROVE InPlaceWhenQuiet
  <2>1. phase = "Idle" /\ \A x \in Objects : Undisturbed(x)
    BY <1>1, QuietUndisturbed
  <2>2. \A a \in Owned : a \in Agents /\ OwnedAt(a) /\ ~ToGather(a)
    BY <1>1, <2>1, ObjectsType DEF Owned, Recognized, Exists, OwnedAt, ToGather
  <2>3. ASSUME NEW p \in Declares(cmao), NEW x \in StackConfigs \cap Exists(objects)
        PROVE  x \in cmao[p]
    BY <1>1, <2>1 DEF IInv, PlaceInv, UnplacedAt, Declares, Exists, BeforeConfigs
  <2>4. ASSUME NEW p \in Declares(cmao), NEW a \in Owned, p \in objects[a].targets
        PROVE  a \in cmao[p]
    BY <1>1, <2>1, <2>2, <2>4 DEF IInv, AgentInv, Declares, UntilEnsure, BeforeConfigs
  <2>5. \A a \in Owned : objects[a].enforced
    BY <1>1, <2>2 DEF IInv, EnforceInv
  <2> QED BY <2>3, <2>4, <2>5 DEF InPlaceWhenQuiet
<1>2. IInv => InPlaceWhenQuiet
  BY <1>1 DEF InPlaceWhenQuiet
<1> QED BY <1>2, WrongIsAhead, PTL
=============================================================================

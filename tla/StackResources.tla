--------------------------- MODULE StackResources ---------------------------
(***************************************************************************)
(* The resourcecreator controller (controllers/resourcecreator) with the   *)
(* default metrics stack it maintains (metrics/resource/resource.go) and   *)
(* the two helpers that write for it (common/clustermanagementaddon.go,    *)
(* common/cleanup_resources.go).                                           *)
(*                                                                         *)
(* One worker reconciles the configuration objects of the hub with the     *)
(* ClusterManagementAddOn (the CMAO), which declares placements and lists, *)
(* for each, the objects its clusters are to use.  Users and the           *)
(* MultiClusterObservability operator change both sides meanwhile.  The    *)
(* worker reads from informer caches, each object's on its own time,       *)
(* writes to the API server, and any of its calls may fail and leave the   *)
(* rest of the pass undone.                                                *)
(*                                                                         *)
(* Platform and user-workload agents are handled by the same code under    *)
(* two labels; one of the two is modelled.  The Prometheus spec of an      *)
(* agent and the fields of a scrape config are reduced to whether the      *)
(* addon's own settings are in force.                                      *)
(***************************************************************************)
EXTENDS Naturals, FiniteSets

CONSTANTS
  Placements,    \* what the CMAO may declare, as namespace/name references
  GlobalRefs,    \* those whose name is "global", each in another namespace
  Dummy,         \* the sentinel reference no placement has
  DefaultAgent,  \* the name of the default agent of the global placement
  DummyAgent,    \* the name of the agent that targets Dummy
  UserAgents,    \* user-defined agents, with the part-of label
  StackConfigs,  \* scrape configs and rules the observability operator owns
  UserConfigs,   \* user-defined scrape configs and rules
  NoObject,      \* the object does not exist
  NotDeclared,   \* the CMAO does not declare the placement
  UserMay,       \* the kinds of change made from outside in this model
  MaxChanges     \* bound: changes from outside, failed calls and restarts

Agents == {DefaultAgent, DummyAgent} \cup UserAgents
Objects == Agents \cup StackConfigs \cup UserConfigs
Refs == Placements \cup {Dummy}

ChangeKinds == {"declare", "withdraw", "list", "create", "retarget", "delete", "drift",
                "toggle", "fail", "restart"}

ASSUME StackAssumption ==
  /\ GlobalRefs \subseteq Placements
  /\ Dummy \notin Placements
  /\ DefaultAgent # DummyAgent
  /\ {DefaultAgent, DummyAgent} \cap (UserAgents \cup StackConfigs \cup UserConfigs) = {}
  /\ UserAgents \cap (StackConfigs \cup UserConfigs) = {}
  /\ StackConfigs \cap UserConfigs = {}
  /\ NoObject \notin [targets : SUBSET Refs, owned : BOOLEAN, labelled : BOOLEAN, enforced : BOOLEAN]
  /\ \A S \in SUBSET Objects : NotDeclared # S
  /\ UserMay \subseteq ChangeKinds
  /\ MaxChanges \in Nat

VARIABLES
  objects,    \* the configuration objects on the API server
  cmao,       \* what the CMAO lists for each placement it declares
  enabled,    \* metrics collection, from the AddOnDeploymentConfig
  seen,       \* objects, as the informer caches have them
  seenCmao,   \* the CMAO, as its informer cache has it
  unseen,     \* the objects written since their cache caught up
  waking,     \* those with a version the controller's watches let through
  cmaoUnseen, \* the CMAO was written since its cache caught up
  triggered,  \* the request is in the workqueue
  phase,      \* where the worker is in Reconcile
  declared,   \* the placements it has read
  todo,       \* the objects it has listed and still has to go through
  desired,    \* the references it has gathered: <<placement, object>>
  changes     \* changes from outside so far

api == <<objects, cmao>>
events == <<unseen, waking, cmaoUnseen>>
caches == <<seen, seenCmao>>
worker == <<phase, declared, todo, desired>>
vars == <<api, events, enabled, caches, triggered, worker, changes>>

\* targets: the placements its annotation names; owned: the CMAO is its owner;
\* labelled: it has the labels that make it listed and recognized;
\* enforced: the addon's own settings are in force.
Object == [targets : SUBSET Refs, owned : BOOLEAN, labelled : BOOLEAN, enforced : BOOLEAN]
Store == [Objects -> {NoObject} \cup Object]
Listing == [Placements -> {NotDeclared} \cup SUBSET Objects]

Phases == {"Idle", "Default", "Refetch", "ListAgents", "Agents", "ListConfigs",
           "Configs", "Ensure", "Orphans", "Delete"}

\* No object.
Nothing == [x \in Objects |-> NoObject]

TypeOK ==
  /\ objects \in Store /\ seen \in Store
  /\ cmao \in Listing /\ seenCmao \in Listing
  /\ waking \subseteq unseen /\ unseen \subseteq Objects /\ cmaoUnseen \in BOOLEAN
  /\ enabled \in BOOLEAN /\ triggered \in BOOLEAN
  /\ phase \in Phases
  /\ declared \subseteq Placements
  /\ todo \in Store
  /\ desired \subseteq Refs \X Objects
  /\ phase = "Idle" => todo = Nothing /\ desired = {} /\ declared = {}
  /\ changes \in 0..MaxChanges
-----------------------------------------------------------------------------
Exists(store) == {x \in Objects : store[x] # NoObject}
Declares(listing) == {p \in Placements : listing[p] # NotDeclared}

\* The agents a list by component label returns that isRecognizedAgent accepts.
Recognized(store) ==
  {a \in Agents \cap Exists(store) :
     store[a].labelled /\ (store[a].owned \/ a \in UserAgents)}

\* Slip: the orphans are looked for among the labelled agents only.
DeletableByLabel(store) == Recognized(store)

\* The owned and user-defined agents DeleteOrphanResources looks at: it lists
\* the namespace, whatever the component label.
Deletable(store) ==
  {a \in Agents \cap Exists(store) :
     store[a].owned \/ (a \in UserAgents /\ store[a].labelled)}

\* Slip: the sentinel is taken for a placement that is gone.
ExistingPlacementOnly(object, places) == object.targets \cap places # {}

\* hasExistingPlacementRef.
HasExistingPlacementRef(object, places) == object.targets \cap (places \cup {Dummy}) # {}

Orphans(store, places) ==
  {a \in Deletable(store) : ~HasExistingPlacementRef(store[a], places)}

\* NewDefaultPrometheusAgent with the annotation and the owner.
NewDefaultAgent(ref) ==
  [targets |-> {ref}, owned |-> TRUE, labelled |-> TRUE, enforced |-> FALSE]

\* What server-side apply makes of an agent: it creates the object if there is
\* none, with no annotation and without the labels that get it listed.
AfterApply(object) ==
  IF object = NoObject
  THEN [targets |-> {}, owned |-> TRUE, labelled |-> FALSE, enforced |-> TRUE]
  ELSE [object EXCEPT !.owned = TRUE, !.enforced = TRUE]
-----------------------------------------------------------------------------
\* After installation: the operator's configs are there, the CMAO declares
\* some placements, nothing was reconciled yet.
Init ==
  /\ objects = [x \in Objects |->
       IF x \in StackConfigs
       THEN [targets |-> {}, owned |-> FALSE, labelled |-> TRUE, enforced |-> FALSE]
       ELSE NoObject]
  /\ \E places \in SUBSET Placements :
       /\ Cardinality(places \cap GlobalRefs) <= 1
       /\ cmao = [p \in Placements |-> IF p \in places THEN {} ELSE NotDeclared]
  /\ enabled = TRUE
  /\ seen = objects
  /\ seenCmao = cmao
  /\ unseen = {} /\ waking = {} /\ cmaoUnseen = FALSE
  /\ triggered = TRUE
  /\ phase = "Idle"
  /\ declared = {}
  /\ todo = Nothing
  /\ desired = {}
  /\ changes = 0

(* Writes to the API server. *)

\* Slip: the operator's scrape configs and rules are not watched.
WakesOnAgents(x, object) == x \in Agents /\ object # NoObject /\ object.owned

\* enqueueForMCOAOwnedResources looks for the owner in an object's old and new
\* form; enqueueForMCOControlledResources lets the operator's own through.
Wakes(x, object) ==
  x \in StackConfigs \/ (x \in Agents /\ object # NoObject /\ object.owned)

\* A write that changes nothing makes no new version.
Write(x, object) ==
  /\ objects' = [objects EXCEPT ![x] = object]
  /\ unseen' = IF object = objects[x] THEN unseen ELSE unseen \cup {x}
  /\ waking' = IF object # objects[x] /\ (Wakes(x, objects[x]) \/ Wakes(x, object))
               THEN waking \cup {x} ELSE waking
  /\ UNCHANGED <<cmao, cmaoUnseen>>

WriteCmao(listing) ==
  /\ cmao' = listing
  /\ cmaoUnseen' = (cmaoUnseen \/ listing # cmao)
  /\ UNCHANGED <<objects, unseen, waking>>

(* Changes from outside. *)

Change(kind) ==
  /\ kind \in UserMay
  /\ changes < MaxChanges
  /\ changes' = changes + 1

\* A user declares a placement in the CMAO, or withdraws it.
Declare(p) ==
  /\ Change("declare")
  /\ cmao[p] = NotDeclared
  /\ p \in GlobalRefs => Declares(cmao) \cap GlobalRefs = {}
  /\ WriteCmao([cmao EXCEPT ![p] = {}])
  /\ UNCHANGED <<enabled, caches, triggered, worker>>

Withdraw(p) ==
  /\ Change("withdraw")
  /\ cmao[p] # NotDeclared
  /\ WriteCmao([cmao EXCEPT ![p] = NotDeclared])
  /\ UNCHANGED <<enabled, caches, triggered, worker>>

\* A user lists an existing object for a placement by hand.
List(p, x) ==
  /\ Change("list")
  /\ cmao[p] # NotDeclared
  /\ objects[x] # NoObject
  /\ x \notin cmao[p]
  /\ WriteCmao([cmao EXCEPT ![p] = @ \cup {x}])
  /\ UNCHANGED <<enabled, caches, triggered, worker>>

\* A user creates an object of their own.
CreateObject(x, targets) ==
  /\ Change("create")
  /\ objects[x] = NoObject
  /\ Write(x, [targets |-> targets, owned |-> FALSE, labelled |-> TRUE, enforced |-> FALSE])
  /\ UNCHANGED <<enabled, caches, triggered, worker>>

\* A user edits the placements an object of their own names.
Retarget(x, targets) ==
  /\ Change("retarget")
  /\ objects[x] # NoObject
  /\ objects[x].targets # targets
  /\ Write(x, [objects[x] EXCEPT !.targets = targets])
  /\ UNCHANGED <<enabled, caches, triggered, worker>>

\* A user deletes an object, or the operator one of its own.
DeleteObject(x) ==
  /\ Change("delete")
  /\ objects[x] # NoObject
  /\ Write(x, NoObject)
  /\ UNCHANGED <<enabled, caches, triggered, worker>>

\* A user overrides a setting of the addon in an object.
Drift(x) ==
  /\ Change("drift")
  /\ objects[x] # NoObject
  /\ objects[x].enforced
  /\ Write(x, [objects[x] EXCEPT !.enforced = FALSE])
  /\ UNCHANGED <<enabled, caches, triggered, worker>>

\* Metrics collection is switched on or off, as the informer reports it.
Toggle ==
  /\ Change("toggle")
  /\ enabled' = ~enabled
  /\ triggered' = TRUE
  /\ UNCHANGED <<api, events, caches, worker>>

(* Informers. *)

\* The cache of an object catches up, and the watches see what was written.
SyncObject(x) ==
  /\ x \in unseen
  /\ seen' = [seen EXCEPT ![x] = objects[x]]
  /\ unseen' = unseen \ {x}
  /\ waking' = waking \ {x}
  /\ triggered' = (triggered \/ x \in waking)
  /\ UNCHANGED <<api, cmaoUnseen, enabled, seenCmao, worker, changes>>

SyncCmao ==
  /\ cmaoUnseen
  /\ seenCmao' = cmao
  /\ cmaoUnseen' = FALSE
  /\ triggered' = TRUE
  /\ UNCHANGED <<api, unseen, waking, enabled, seen, worker, changes>>

(* The worker. *)

\* A call returns an error: Reconcile returns it, the request is retried.
GiveUp ==
  /\ phase' = "Idle"
  /\ declared' = {}
  /\ todo' = Nothing
  /\ desired' = {}
  /\ triggered' = TRUE

Goto(next) == phase' = next /\ UNCHANGED <<declared, todo, desired, triggered>>

ApiError ==
  /\ phase # "Idle"
  /\ Change("fail")
  /\ GiveUp
  /\ UNCHANGED <<api, events, enabled, caches>>

\* The process restarts; informers list everything anew.
Restart ==
  /\ Change("restart")
  /\ seen' = objects
  /\ seenCmao' = cmao
  /\ unseen' = {} /\ waking' = {} /\ cmaoUnseen' = FALSE
  /\ GiveUp
  /\ UNCHANGED <<api, enabled>>

\* The AddOnDeploymentConfig and the CMAO are read.
Start ==
  /\ phase = "Idle"
  /\ triggered
  /\ triggered' = FALSE
  /\ declared' = Declares(seenCmao)
  /\ phase' = IF enabled THEN "Default" ELSE "Ensure"
  /\ UNCHANGED <<api, events, enabled, caches, todo, desired, changes>>

\* CreateDefaultAgent has nothing to create for the agents it listed.
DefaultInPlace(agents, globals) ==
  \E a \in agents : \/ Dummy \in seen[a].targets
                    \/ a = DefaultAgent /\ seen[a].targets \cap globals # {}

\* The agent CreateDefaultAgent creates otherwise, with the reference it names.
DefaultName(agents, globals) ==
  IF globals = {} \/ \E a \in agents : seen[a].targets \cap globals # {}
  THEN DummyAgent ELSE DefaultAgent
DefaultRef(name, globals) == IF name = DummyAgent THEN Dummy ELSE CHOOSE g \in globals : TRUE

CreateDefaultAgent ==
  /\ phase = "Default"
  /\ LET agents == Recognized(seen)
         globals == declared \cap GlobalRefs
         name == DefaultName(agents, globals)
     IN \/ /\ DefaultInPlace(agents, globals)
           /\ Goto("ListAgents")
           /\ UNCHANGED <<api, events>>
        \/ /\ ~DefaultInPlace(agents, globals)
           /\ objects[name] = NoObject
           /\ Write(name, NewDefaultAgent(DefaultRef(name, globals)))
           /\ todo' = [todo EXCEPT ![name] = objects'[name]]
           /\ phase' = "Refetch"
           /\ UNCHANGED <<declared, desired, triggered>>
        \/ /\ ~DefaultInPlace(agents, globals)
           /\ objects[name] # NoObject    \* AlreadyExists
           /\ GiveUp
           /\ UNCHANGED <<api, events>>
  /\ UNCHANGED <<enabled, caches, changes>>

\* The created agent is read back, from the cache.
RefetchAgent ==
  /\ phase = "Refetch"
  /\ \/ /\ Exists(todo) \subseteq Exists(seen)
        /\ phase' = "ListAgents"
        /\ todo' = Nothing
        /\ UNCHANGED <<declared, desired, triggered>>
     \/ /\ ~(Exists(todo) \subseteq Exists(seen))
        /\ GiveUp
  /\ UNCHANGED <<api, events, enabled, caches, changes>>

\* reconcileAgents lists the agents and goes through those it recognizes.
ListAgents ==
  /\ phase = "ListAgents"
  /\ todo' = [x \in Objects |-> IF x \in Recognized(seen) THEN seen[x] ELSE NoObject]
  /\ phase' = "Agents"
  /\ UNCHANGED <<api, events, enabled, caches, declared, desired, triggered, changes>>

\* Slip: an agent that needs no apply is skipped.
ReconcileAgentIfChanged(a) ==
  /\ phase = "Agents"
  /\ todo[a] # NoObject
  /\ Write(a, IF todo[a].enforced THEN objects[a] ELSE AfterApply(objects[a]))
  /\ desired' = IF todo[a].enforced THEN desired ELSE desired \cup (todo[a].targets \X {a})
  /\ todo' = [todo EXCEPT ![a] = NoObject]
  /\ UNCHANGED <<enabled, caches, phase, declared, triggered, changes>>

ReconcileAgent(a) ==
  /\ phase = "Agents"
  /\ todo[a] # NoObject
  /\ Write(a, IF todo[a].enforced THEN objects[a] ELSE AfterApply(objects[a]))
  /\ desired' = desired \cup (todo[a].targets \X {a})
  /\ todo' = [todo EXCEPT ![a] = NoObject]
  /\ UNCHANGED <<enabled, caches, phase, declared, triggered, changes>>

AgentsDone ==
  /\ phase = "Agents"
  /\ todo = Nothing
  /\ Goto("ListConfigs")
  /\ UNCHANGED <<api, events, enabled, caches, changes>>

\* reconcileScrapeConfigs and getPrometheusRules list theirs.
ListConfigs ==
  /\ phase = "ListConfigs"
  /\ todo' = [x \in Objects |-> IF x \in StackConfigs \cup UserConfigs THEN seen[x] ELSE NoObject]
  /\ phase' = "Configs"
  /\ UNCHANGED <<api, events, enabled, caches, declared, desired, triggered, changes>>

\* The apply carries the resource version it read: a stale one is refused.
ReconcileConfig(x) ==
  /\ phase = "Configs"
  /\ todo[x] # NoObject
  /\ \/ /\ todo[x].enforced \/ objects[x] = todo[x]
        /\ Write(x, IF todo[x].enforced THEN objects[x]
                    ELSE [objects[x] EXCEPT !.enforced = TRUE])
        /\ desired' = desired \cup
             ((IF x \in StackConfigs THEN declared ELSE todo[x].targets) \X {x})
        /\ todo' = [todo EXCEPT ![x] = NoObject]
        /\ UNCHANGED <<phase, declared, triggered>>
     \/ /\ ~todo[x].enforced /\ objects[x] # todo[x]
        /\ GiveUp
        /\ UNCHANGED <<api, events>>
  /\ UNCHANGED <<enabled, caches, changes>>

ConfigsDone ==
  /\ phase = "Configs"
  /\ todo = Nothing
  /\ Goto("Ensure")
  /\ UNCHANGED <<api, events, enabled, caches, changes>>

\* ensureConfigsInAddon, then removeStaleConfigs.
WithConfigs(listing) ==
  [p \in Placements |->
     IF listing[p] = NotDeclared THEN NotDeclared
     ELSE (listing[p] \cup {x \in Objects : <<p, x>> \in desired}) \cap Exists(seen)]

\* Slip: the apply does not carry the resource version.
EnsureWithoutVersion ==
  /\ phase = "Ensure"
  /\ Goto("Orphans")
  /\ WriteCmao(IF WithConfigs(seenCmao) = seenCmao THEN cmao ELSE WithConfigs(seenCmao))
  /\ UNCHANGED <<enabled, caches, changes>>

\* EnsureAddonConfig.  The apply carries the resource version of the CMAO that
\* was read: it is refused when the CMAO was written since.
EnsureAddonConfig ==
  /\ phase = "Ensure"
  /\ \/ /\ WithConfigs(seenCmao) = seenCmao
        /\ Goto("Orphans")
        /\ UNCHANGED <<api, events>>
     \/ /\ WithConfigs(seenCmao) # seenCmao
        /\ ~cmaoUnseen
        /\ WriteCmao(WithConfigs(seenCmao))
        /\ Goto("Orphans")
     \/ /\ WithConfigs(seenCmao) # seenCmao
        /\ cmaoUnseen
        /\ GiveUp
        /\ UNCHANGED <<api, events>>
  /\ UNCHANGED <<enabled, caches, changes>>

\* DeleteOrphanResources lists the agents; the CMAO was read again for it.
ListOrphans ==
  /\ phase = "Orphans"
  /\ todo' = [x \in Objects |->
       IF x \in Orphans(seen, Declares(seenCmao)) THEN seen[x] ELSE NoObject]
  /\ phase' = "Delete"
  /\ UNCHANGED <<api, events, enabled, caches, declared, desired, triggered, changes>>

DeleteOrphan(a) ==
  /\ phase = "Delete"
  /\ todo[a] # NoObject
  /\ \/ /\ objects[a] # NoObject
        /\ Write(a, NoObject)
        /\ todo' = [todo EXCEPT ![a] = NoObject]
        /\ UNCHANGED <<phase, declared, desired, triggered>>
     \/ /\ objects[a] = NoObject    \* NotFound
        /\ GiveUp
        /\ UNCHANGED <<api, events>>
  /\ UNCHANGED <<enabled, caches, changes>>

\* Slip: the gathered references are kept for the next pass.
FinishKeepingDesired ==
  /\ phase = "Delete"
  /\ todo = Nothing
  /\ phase' = "Idle"
  /\ declared' = {}
  /\ UNCHANGED <<api, events, enabled, caches, triggered, todo, desired, changes>>

Finish ==
  /\ phase = "Delete"
  /\ todo = Nothing
  /\ phase' = "Idle"
  /\ declared' = {}
  /\ desired' = {}
  /\ UNCHANGED <<api, events, enabled, caches, triggered, todo, changes>>

Outside ==
  \/ \E p \in Placements : Declare(p) \/ Withdraw(p)
  \/ \E p \in Placements, x \in UserAgents \cup UserConfigs : List(p, x)
  \/ \E x \in UserAgents \cup UserConfigs, targets \in SUBSET Placements :
       CreateObject(x, targets) \/ Retarget(x, targets)
  \/ \E x \in Objects : DeleteObject(x) \/ Drift(x)
  \/ Toggle \/ ApiError \/ Restart

Informer == SyncCmao \/ \E x \in Objects : SyncObject(x)

Worker ==
  \/ Start \/ CreateDefaultAgent \/ RefetchAgent
  \/ ListAgents \/ AgentsDone \/ (\E a \in Agents : ReconcileAgent(a))
  \/ ListConfigs \/ ConfigsDone
  \/ \E x \in StackConfigs \cup UserConfigs : ReconcileConfig(x)
  \/ EnsureAddonConfig
  \/ ListOrphans \/ (\E a \in Agents : DeleteOrphan(a)) \/ Finish

Next == Outside \/ Informer \/ Worker

\* Informers deliver; the queue hands out requests and retries failed ones.
Fairness ==
  /\ WF_vars(SyncCmao)
  /\ \A x \in Objects : WF_vars(SyncObject(x))
  /\ WF_vars(Worker)

Spec == Init /\ [][Next]_vars
FairSpec == Spec /\ Fairness
-----------------------------------------------------------------------------
(* Safety. *)

\* Nothing is left to do: no request, no pass under way, nothing to deliver.
Quiet ==
  /\ phase = "Idle" /\ ~triggered
  /\ unseen = {} /\ ~cmaoUnseen

\* The agents the CMAO owns: those the worker created or has applied to.
Owned == {a \in Recognized(objects) : objects[a].owned}

\* When the controller rests, every placement lists the operator's configs and
\* the owned agents that target it, and those agents have the addon's settings
\* (Reconcile, resource.go:44-105, and EnsureAddonConfig): whatever order
\* caches, failed passes and changes from outside took, no trigger was missed.
InPlaceWhenQuiet ==
  (Quiet /\ enabled) =>
    /\ \A p \in Declares(cmao) :
         /\ StackConfigs \cap Exists(objects) \subseteq cmao[p]
         /\ \A a \in Owned : p \in objects[a].targets => a \in cmao[p]
    /\ \A a \in Owned : objects[a].enforced

\* When the controller rests, no placement lists an object of the operator or
\* the addon that is gone (removeStaleConfigs, clustermanagementaddon.go:122).
NoStaleListingWhenQuiet ==
  Quiet => \A p \in Declares(cmao) :
             cmao[p] \cap (StackConfigs \cup {DefaultAgent, DummyAgent}) \subseteq Exists(objects)

\* When the controller rests, no agent the CMAO owns is left without any
\* placement (DeleteOrphanResources, cleanup_resources.go:19-69).
NoOrphanWhenQuiet ==
  Quiet => \A a \in Agents \cap Exists(objects) :
             objects[a].owned => HasExistingPlacementRef(objects[a], Declares(cmao))

\* The worker writes only what it adds to the CMAO or knows to be gone: a
\* placement declared or withdrawn meanwhile stays so, and a reference a user
\* listed meanwhile stays, to an object the worker's cache has (the resource
\* version kept by EnsureAddonConfig).
UserEditsKept ==
  [][Worker => /\ Declares(cmao') = Declares(cmao)
               /\ \A p \in Declares(cmao) : cmao[p] \cap Exists(seen) \subseteq cmao'[p]]_vars

(* Liveness. *)

\* Once changes from outside stop, the controller comes to rest: its own writes
\* do not keep triggering it, and no failure repeats for ever.
ComesToRest == <>[]Quiet

\* While collection is on there ends up being an agent the addon recognizes: "it
\* generates a default PrometheusAgent if not found" (resource.go:44-46).
AgentComesBack == <>[](enabled => Recognized(objects) # {})
=============================================================================

----------------------------- MODULE RightSizing ------------------------------
(***************************************************************************)
(* Right-sizing (analytics/rightsizing/handlers): for each feature, a      *)
(* ConfigMap on the hub says what to recommend and for which clusters.     *)
(*                                                                         *)
(* The ConfigMap has two keepers.  Build, which runs concurrently for the  *)
(* managed clusters when the addon manager renders them, creates it with   *)
(* defaults when it is missing and reads it.  The resourcecreator, on      *)
(* another worker, deletes it when the feature is off.  Both take what is  *)
(* on or off from the AddOnDeploymentConfig (ADC), each through a cache of *)
(* its own.  Users edit the ConfigMaps; the MultiClusterObservability      *)
(* operator (MCO) writes the ADC and, in its own mode, keeps the           *)
(* ConfigMaps itself.                                                      *)
(*                                                                         *)
(* Rules and placements are reduced to the content of the ConfigMap they   *)
(* come from.  Every cluster has a ManifestWork, so that an event of a     *)
(* ConfigMap has all clusters rendered (what happens while it has none is  *)
(* the subject of Watcher).                                                *)
(***************************************************************************)
EXTENDS Naturals

CONSTANTS
  Clusters,    \* managed clusters
  OpenShift,   \* those whose vendor is OpenShift
  Features,    \* namespace and virtualization right-sizing
  First(_),    \* of some features, the one that is gone through first
  Contents,    \* contents of a ConfigMap
  Default,     \* the one it is created with
  Broken,      \* those that cannot be parsed, or contradict themselves
  Selected(_), \* the clusters a content's placement predicates match
  Missing,     \* there is no such ConfigMap
  Off,         \* nothing is rendered for the feature
  Idle,        \* no pass, or no rendering, is under way
  MaxChanges   \* bound: changes from outside, failed calls and restarts

ASSUME RightSizingAssumption ==
  /\ OpenShift \subseteq Clusters
  /\ \A S \in (SUBSET Features) \ {{}} : First(S) \in S
  /\ Default \in Contents \ Broken /\ Broken \subseteq Contents
  /\ \A c \in Contents : Selected(c) \subseteq Clusters
  /\ Selected(Default) = Clusters
  /\ Missing \notin Contents /\ Off \notin Contents
  /\ Idle \notin [found : BOOLEAN, todo : SUBSET Features]
  /\ Idle \notin [stage : {"ensure", "create", "read"}, todo : SUBSET Features,
                  out : [Features -> {Off} \cup Contents]]
  /\ MaxChanges \in Nat

VARIABLES
  adc,         \* the right-sizing variables of the ADC
  seenAdc,     \* the same, as each of the two controllers has it cached
  unheard,     \* the controllers that are still to hear of the current ADC
  configMap,   \* the content of each feature's ConfigMap
  cached,      \* the ConfigMaps in the resourcecreator's cache
  unseen,      \* the ConfigMaps written since the caches caught up
  waking,      \* those with an event RSConfigMapPredicate lets through
  creatorDue,  \* the resourcecreator's request is in its workqueue
  pass,        \* its ReconcileRSResources under way
  renderDue,   \* the clusters in the addon manager's workqueue
  build,       \* the Build of each cluster under way
  rendered,    \* what each cluster's values say of each feature
  changes      \* changes from outside so far

adcVars == <<adc, seenAdc, unheard>>
mapVars == <<configMap, cached, unseen, waking>>
creatorVars == <<creatorDue, pass>>
managerVars == <<renderDue, build, rendered>>
vars == <<adcVars, mapVars, creatorVars, managerVars, changes>>

Controllers == {"creator", "manager"}

\* What the ADC may say: nothing yet; that MCO manages right-sizing; that the
\* addon does, for some features.
Fresh == [delegated |-> FALSE, keys |-> [f \in Features |-> "unset"]]
McoMode == [delegated |-> FALSE, keys |-> [f \in Features |-> "disabled"]]
McoaMode(on) ==
  [delegated |-> TRUE, keys |-> [f \in Features |-> IF f \in on THEN "enabled" ELSE "disabled"]]
Synced == {McoMode} \cup {McoaMode(on) : on \in SUBSET Features}

Outcome == [Features -> {Off} \cup Contents]
Pass == [found : BOOLEAN, todo : SUBSET Features]
Building == [stage : {"ensure", "create", "read"}, todo : SUBSET Features, out : Outcome]

TypeOK ==
  /\ adc \in {Fresh} \cup Synced
  /\ seenAdc \in [Controllers -> {Fresh} \cup Synced]
  /\ unheard \subseteq Controllers
  /\ \A who \in Controllers \ unheard : seenAdc[who] = adc
  /\ configMap \in [Features -> {Missing} \cup Contents]
  /\ cached \subseteq Features
  /\ waking \subseteq unseen /\ unseen \subseteq Features
  /\ \A f \in Features \ unseen : f \in cached <=> configMap[f] # Missing
  /\ creatorDue \in BOOLEAN
  /\ pass = Idle \/ (pass \in Pass /\ (pass.found => pass.todo # {}))
  /\ renderDue \subseteq Clusters
  /\ build \in [Clusters -> {Idle} \cup Building]
  /\ rendered \in [Clusters -> Outcome]
  /\ changes \in 0..MaxChanges
-----------------------------------------------------------------------------
\* BuildOptions: a feature whose key is not set is on.
Enabled(a) == {f \in Features : a.keys[f] # "disabled"}

\* The features Build goes through for a cluster.
Asked(n, a) == IF n \in OpenShift /\ a.delegated THEN Enabled(a) ELSE {}

\* Slip: whoever manages right-sizing, what is off is deleted.
UnwantedInAnyMode(a) == Features \ Enabled(a)

\* The features whose ConfigMap ReconcileRSResources deletes.
Unwanted(a) == IF a.delegated THEN Features \ Enabled(a) ELSE {}

\* Slip: only updates are let through.
PassesUpdates(old, new) == old # Missing /\ new # Missing

\* Slip: only creations are let through.
PassesCreations(old, new) == old = Missing

\* RSConfigMapPredicate: "Delete and generic events are ignored".
Passes(old, new) == new # Missing

\* What Build makes of a content for a cluster.
Outcomes(content, n) == IF n \in Selected(content) THEN content ELSE Off

\* The content in force for a feature: the ConfigMap's, or the defaults.
InForce(f) == IF configMap[f] = Missing THEN Default ELSE configMap[f]

NothingRendered == [f \in Features |-> Off]
-----------------------------------------------------------------------------
Init ==
  /\ adc = Fresh
  /\ seenAdc = [who \in Controllers |-> Fresh]
  /\ unheard = {}
  /\ configMap = [f \in Features |-> Missing]
  /\ cached = {} /\ unseen = {} /\ waking = {}
  /\ creatorDue = TRUE
  /\ pass = Idle
  /\ renderDue = Clusters
  /\ build = [n \in Clusters |-> Idle]
  /\ rendered = [n \in Clusters |-> NothingRendered]
  /\ changes = 0

Write(f, content) ==
  /\ configMap' = [configMap EXCEPT ![f] = content]
  /\ unseen' = IF content = configMap[f] THEN unseen ELSE unseen \cup {f}
  /\ waking' = IF content # configMap[f] /\ Passes(configMap[f], content)
               THEN waking \cup {f} ELSE waking
  /\ UNCHANGED cached

(* Changes from outside. *)

Change == changes < MaxChanges /\ changes' = changes + 1

\* MCO's analytics controller writes the mode into the ADC.
SetAdc(a) ==
  /\ Change
  /\ adc # a
  /\ adc' = a
  /\ unheard' = Controllers
  /\ UNCHANGED <<seenAdc, mapVars, creatorVars, managerVars>>

\* A user creates, edits or deletes a ConfigMap.
EditConfigMap(f, content) ==
  /\ Change
  /\ configMap[f] # content
  /\ Write(f, content)
  /\ UNCHANGED <<adcVars, creatorVars, managerVars>>

\* In its own mode MCO creates a ConfigMap that does not exist.
McoCreates(f) ==
  /\ adc = McoMode
  /\ configMap[f] = Missing
  /\ Write(f, Default)
  /\ UNCHANGED <<adcVars, creatorVars, managerVars, changes>>

Restart ==
  /\ Change
  /\ seenAdc' = [who \in Controllers |-> adc]
  /\ unheard' = {}
  /\ cached' = {f \in Features : configMap[f] # Missing}
  /\ unseen' = {} /\ waking' = {}
  /\ creatorDue' = TRUE /\ pass' = Idle
  /\ renderDue' = Clusters /\ build' = [n \in Clusters |-> Idle]
  /\ UNCHANGED <<adc, configMap, rendered>>

(* Informers. *)

HearOfAdc(who) ==
  /\ who \in unheard
  /\ seenAdc' = [seenAdc EXCEPT ![who] = adc]
  /\ unheard' = unheard \ {who}
  /\ creatorDue' = (creatorDue \/ who = "creator")
  /\ renderDue' = IF who = "manager" THEN Clusters ELSE renderDue
  /\ UNCHANGED <<adc, mapVars, pass, build, rendered, changes>>

\* The resourcecreator's watch and the watcher's, with the same predicate.
SeeConfigMap(f) ==
  /\ f \in unseen
  /\ cached' = IF configMap[f] = Missing THEN cached \ {f} ELSE cached \cup {f}
  /\ unseen' = unseen \ {f}
  /\ waking' = waking \ {f}
  /\ creatorDue' = (creatorDue \/ f \in waking)
  /\ renderDue' = IF f \in waking THEN Clusters ELSE renderDue
  /\ UNCHANGED <<adcVars, configMap, pass, build, rendered, changes>>

(* The resourcecreator. *)

StartPass ==
  /\ creatorDue /\ pass = Idle
  /\ creatorDue' = FALSE
  /\ pass' = [todo |-> Unwanted(seenAdc["creator"]), found |-> FALSE]
  /\ UNCHANGED <<adcVars, mapVars, managerVars, changes>>

\* deleteRSConfigMap gets the ConfigMap, from the cache...
Get ==
  /\ pass # Idle /\ pass.todo # {} /\ ~pass.found
  /\ pass' = IF First(pass.todo) \in cached THEN [pass EXCEPT !.found = TRUE]
             ELSE [pass EXCEPT !.todo = @ \ {First(@)}]
  /\ UNCHANGED <<adcVars, mapVars, creatorDue, managerVars, changes>>

\* ... and deletes it; that it is gone already is no error.
Delete ==
  /\ pass # Idle /\ pass.found
  /\ Write(First(pass.todo), Missing)
  /\ pass' = [todo |-> pass.todo \ {First(pass.todo)}, found |-> FALSE]
  /\ UNCHANGED <<adcVars, creatorDue, managerVars, changes>>

EndPass ==
  /\ pass # Idle /\ pass.todo = {}
  /\ pass' = Idle
  /\ UNCHANGED <<adcVars, mapVars, creatorDue, managerVars, changes>>

\* A call fails, in this step or another of Reconcile; the request is retried.
PassFails ==
  /\ Change
  /\ pass # Idle
  /\ pass' = Idle /\ creatorDue' = TRUE
  /\ UNCHANGED <<adcVars, mapVars, managerVars>>

(* The addon manager: one Build for each cluster that is being rendered. *)

StartBuild(n) ==
  /\ n \in renderDue /\ build[n] = Idle
  /\ renderDue' = renderDue \ {n}
  /\ build' = [build EXCEPT ![n] =
       [stage |-> "ensure", todo |-> Asked(n, seenAdc["manager"]),
        out |-> NothingRendered]]
  /\ UNCHANGED <<adcVars, mapVars, creatorVars, rendered, changes>>

At(n, stage) == build[n] # Idle /\ build[n].todo # {} /\ build[n].stage = stage

\* ensureNamespaceConfigMap, ensureVirtualizationConfigMap: read uncached ...
Ensure(n) ==
  /\ At(n, "ensure")
  /\ build' = [build EXCEPT ![n].stage =
       IF configMap[First(build[n].todo)] = Missing THEN "create" ELSE "read"]
  /\ UNCHANGED <<adcVars, mapVars, creatorVars, renderDue, rendered, changes>>

\* ... and, if it was missing, created.  AlreadyExists is logged, no more.
Create(n) ==
  /\ At(n, "create")
  /\ LET f == First(build[n].todo) IN
       Write(f, InForce(f))
  /\ build' = [build EXCEPT ![n].stage = "read"]
  /\ UNCHANGED <<adcVars, creatorVars, renderDue, rendered, changes>>

\* Any other error of the two calls is logged, no more.
EnsureFails(n) ==
  /\ Change
  /\ At(n, "ensure") \/ At(n, "create")
  /\ build' = [build EXCEPT ![n].stage = "read"]
  /\ UNCHANGED <<adcVars, mapVars, creatorVars, renderDue, rendered>>

\* A rendering fails: nothing of it is used, it is retried.
Abandon(n) ==
  /\ build' = [build EXCEPT ![n] = Idle]
  /\ renderDue' = renderDue \cup {n}
  /\ UNCHANGED <<adcVars, mapVars, creatorVars, rendered>>

Take(n, f, outcome) ==
  /\ build' = [build EXCEPT ![n] =
       [stage |-> "ensure", todo |-> @.todo \ {f}, out |-> [@.out EXCEPT ![f] = outcome]]]
  /\ UNCHANGED <<adcVars, mapVars, creatorVars, renderDue, rendered>>

\* Slip: that there is no ConfigMap is not told from an empty one.
ReadWithoutDefault(n) ==
  /\ At(n, "read")
  /\ LET f == First(build[n].todo)
         outcome == Outcomes(configMap[f], n)
     IN IF outcome \in Broken THEN Abandon(n) ELSE Take(n, f, outcome)
  /\ UNCHANGED changes

\* getConfigData and the rules made of it; defaults if there is no ConfigMap.
Read(n) ==
  /\ At(n, "read")
  /\ LET f == First(build[n].todo)
         outcome == Outcomes(InForce(f), n)
     IN \/ outcome \notin Broken /\ Take(n, f, outcome)
        \/ outcome \in Broken /\ Abandon(n)
  /\ UNCHANGED changes

ReadFails(n) == Change /\ At(n, "read") /\ Abandon(n)

EndBuild(n) ==
  /\ build[n] # Idle /\ build[n].todo = {}
  /\ rendered' = [rendered EXCEPT ![n] = build[n].out]
  /\ build' = [build EXCEPT ![n] = Idle]
  /\ UNCHANGED <<adcVars, mapVars, creatorVars, renderDue, changes>>

Creator == StartPass \/ Get \/ Delete \/ EndPass
Build(n) == StartBuild(n) \/ Ensure(n) \/ Create(n) \/ Read(n) \/ EndBuild(n)

Next ==
  \/ \E a \in Synced : SetAdc(a)
  \/ \E f \in Features, content \in {Missing} \cup Contents : EditConfigMap(f, content)
  \/ Restart
  \/ \E f \in Features : McoCreates(f) \/ SeeConfigMap(f)
  \/ \E who \in Controllers : HearOfAdc(who)
  \/ Creator \/ PassFails
  \/ \E n \in Clusters : Build(n) \/ EnsureFails(n) \/ ReadFails(n)

\* Informers deliver, queues are served, MCO keeps what it owns.
Fairness ==
  /\ \A who \in Controllers : WF_vars(HearOfAdc(who))
  /\ \A f \in Features : WF_vars(SeeConfigMap(f)) /\ WF_vars(McoCreates(f))
  /\ WF_vars(Creator)
  /\ \A n \in Clusters : WF_vars(Build(n))

Spec == Init /\ [][Next]_vars
FairSpec == Spec /\ Fairness
-----------------------------------------------------------------------------
(* Safety. *)

\* Nothing is left to do, to deliver or to retry.
Quiet ==
  /\ unheard = {} /\ unseen = {}
  /\ ~creatorDue /\ pass = Idle
  /\ renderDue = {} /\ \A n \in Clusters : build[n] = Idle

\* When the addon manages right-sizing and both controllers rest, a feature
\* that is off has no ConfigMap, although a Build that began while it was on
\* may have created it after it was deleted (rs_resources.go:44-65 against
\* handler.go:154-208).
SweptWhenQuiet ==
  (Quiet /\ adc.delegated) => \A f \in Features \ Enabled(adc) : configMap[f] = Missing

\* When both rest and MCO has said who manages right-sizing, every cluster is
\* rendered from the ConfigMap as it is, and has nothing of a feature that is off
\* or that is not for it (Build, handler.go:32-121): edits and creations raced by
\* a Build are not missed.  Nothing is claimed where a ConfigMap is gone, since
\* nobody is told of deletions (rs_resources.go:18-19), and there is no rest while
\* one is broken.  Nor is anything claimed of a fresh install: "the auto-enable
\* ensures right-sizing works immediately" (options.go:314), but Build renders
\* nothing before MCO delegates it.
RenderedWhenQuiet ==
  Quiet /\ adc # Fresh => \A n \in Clusters, f \in Features :
    IF f \in Asked(n, adc)
    THEN configMap[f] # Missing => rendered[n][f] = Outcomes(configMap[f], n)
    ELSE rendered[n][f] = Off

(* Liveness. *)

\* The two keepers do not undo each other's work for ever, nor MCO's ("deleting
\* them here would cause a create-delete loop", rs_resources.go:46): changes
\* over, all comes to rest, unless a broken ConfigMap keeps Build failing.
ComesToRest == <>[](Quiet \/ \E f \in Features : configMap[f] \in Broken)
=============================================================================

-------------------------- MODULE RightSizingProofs --------------------------
(***************************************************************************)
(* Proofs about the right-sizing ConfigMaps, for any clusters, features    *)
(* and contents and any number of changes from outside.                    *)
(***************************************************************************)
EXTENDS RightSizing, TLAPS

\* An event that was let through is never of a deletion, so whatever was
\* written and is there wakes both controllers.
WakeInv == \A f \in unseen : configMap[f] # Missing => f \in waking

\* A ConfigMap of a feature that is off is ahead of the resource creator.
LeftOver(f) ==
  /\ adc.delegated /\ f \notin Enabled(adc) /\ configMap[f] # Missing
  /\ "creator" \notin unheard /\ ~creatorDue /\ f \notin waking
SweepInv == \A f \in Features : LeftOver(f) => pass # Idle /\ f \in pass.todo

\* No further rendering of the cluster is on its way.
Undisturbed(n) == n \notin renderDue /\ "manager" \notin unheard /\ waking = {}

\* What out says of a feature is right.
Right(n, f, out) ==
  IF f \in Asked(n, adc)
  THEN configMap[f] # Missing => out[f] = Outcomes(configMap[f], n)
  ELSE out[f] = Off

\* A cluster is rendered from what there is, or a Build is about to do so that
\* is right so far.
RenderedInv ==
  \A n \in Clusters : Undisturbed(n) =>
    IF build[n] = Idle
    THEN \A f \in Features : Right(n, f, rendered[n])
    ELSE \A f \in Features :
           IF f \in build[n].todo THEN f \in Asked(n, adc) ELSE Right(n, f, build[n].out)

IInv == TypeOK /\ WakeInv /\ SweepInv /\ RenderedInv
-----------------------------------------------------------------------------
USE RightSizingAssumption

\* The steps of Next one by one, so that each proof below has one case each.
LEMMA NextCases ==
  ASSUME NEW ACTION P,
    \A a \in Synced : SetAdc(a) => P,
    \A f \in Features, content \in {Missing} \cup Contents : EditConfigMap(f, content) => P,
    Restart => P,
    \A f \in Features : McoCreates(f) => P,
    \A f \in Features : SeeConfigMap(f) => P,
    \A who \in Controllers : HearOfAdc(who) => P,
    StartPass => P, Get => P, Delete => P, EndPass => P, PassFails => P,
    \A n \in Clusters : StartBuild(n) => P,
    \A n \in Clusters : Ensure(n) => P,
    \A n \in Clusters : Create(n) => P,
    \A n \in Clusters : Read(n) => P,
    \A n \in Clusters : EndBuild(n) => P,
    \A n \in Clusters : EnsureFails(n) => P,
    \A n \in Clusters : ReadFails(n) => P
  PROVE  Next => P
BY Zenon DEF Next, Creator, Build

\* TypeOK in the parts that steps touch together.
AdcType ==
  /\ adc \in {Fresh} \cup Synced
  /\ seenAdc \in [Controllers -> {Fresh} \cup Synced]
  /\ unheard \subseteq Controllers
  /\ \A who \in Controllers \ unheard : seenAdc[who] = adc
MapType ==
  /\ configMap \in [Features -> {Missing} \cup Contents]
  /\ cached \subseteq Features
  /\ waking \subseteq unseen /\ unseen \subseteq Features
  /\ \A f \in Features \ unseen : f \in cached <=> configMap[f] # Missing
PassType == pass = Idle \/ (pass \in Pass /\ (pass.found => pass.todo # {}))
BuildType == build \in [Clusters -> {Idle} \cup Building]
RestType ==
  creatorDue \in BOOLEAN /\ renderDue \subseteq Clusters /\ rendered \in [Clusters -> Outcome]
CountType == changes \in 0..MaxChanges

LEMMA TypeParts ==
  TypeOK <=> AdcType /\ MapType /\ PassType /\ BuildType /\ RestType /\ CountType
BY DEF TypeOK, AdcType, MapType, PassType, BuildType, RestType, CountType

LEMMA WriteType ==
  ASSUME MapType, NEW f \in Features, NEW content \in {Missing} \cup Contents, Write(f, content)
  PROVE  /\ MapType'
         /\ configMap'[f] = content
         /\ \A g \in Features \ {f} : configMap'[g] = configMap[g]
BY DEF MapType, Write

LEMMA FirstIn == \A S \in SUBSET Features : S # {} => First(S) \in S /\ First(S) \in Features
OBVIOUS

LEMMA InForceType == MapType => \A f \in Features : InForce(f) \in Contents
BY DEF MapType, InForce

LEMMA OutcomesType ==
  \A c \in Contents, n \in Clusters : Outcomes(c, n) \in {Off} \cup Contents
BY DEF Outcomes

LEMMA AskedType == \A n \in Clusters, a \in {Fresh} \cup Synced : Asked(n, a) \in SUBSET Features
BY DEF Asked, Enabled

LEMMA NothingType == NothingRendered \in Outcome
BY DEF NothingRendered, Outcome

LEMMA InitType == Init => TypeOK
<1> SUFFICES ASSUME Init PROVE TypeOK
  OBVIOUS
<1>1. AdcType /\ MapType /\ PassType
  BY DEF Init, AdcType, MapType, PassType
<1>2. BuildType /\ RestType /\ CountType
  BY NothingType DEF Init, BuildType, RestType, CountType
<1> QED BY <1>1, <1>2, TypeParts

TypeStep == TypeOK'

LEMMA StepType == TypeOK /\ [Next]_vars => TypeOK'
<1> SUFFICES ASSUME TypeOK, [Next]_vars PROVE TypeStep
  BY DEF TypeStep
<1>t. AdcType /\ MapType /\ PassType /\ BuildType /\ RestType /\ CountType
  BY TypeParts
<1>p. ASSUME AdcType', MapType', PassType', BuildType', RestType', CountType' PROVE TypeStep
  BY <1>p DEF TypeStep, TypeOK, AdcType, MapType, PassType, BuildType, RestType, CountType
<1>a. UNCHANGED adcVars => AdcType'
  BY <1>t DEF adcVars, AdcType
<1>m. UNCHANGED mapVars => MapType'
  BY <1>t DEF mapVars, MapType
<1>s. UNCHANGED pass => PassType'
  BY <1>t DEF PassType
<1>b. UNCHANGED build => BuildType'
  BY <1>t DEF BuildType
<1>r. UNCHANGED <<creatorDue, renderDue, rendered>> => RestType'
  BY <1>t DEF RestType
<1>c. Change \/ UNCHANGED changes => CountType'
  BY <1>t DEF Change, CountType
<1> USE DEF creatorVars, managerVars
<1>1. CASE UNCHANGED vars
  BY <1>1, <1>p, <1>a, <1>m, <1>s, <1>b, <1>r, <1>c DEF vars
<1>2. \A a \in Synced : SetAdc(a) => TypeStep
  <2> SUFFICES ASSUME NEW a \in Synced, SetAdc(a) PROVE TypeStep
    OBVIOUS
  <2>1. AdcType'
    BY <1>t DEF SetAdc, AdcType
  <2> QED BY <2>1, <1>p, <1>m, <1>s, <1>b, <1>r, <1>c DEF SetAdc
<1>3. \A f \in Features, content \in {Missing} \cup Contents : EditConfigMap(f, content) => TypeStep
  BY <1>t, WriteType, <1>p, <1>a, <1>s, <1>b, <1>r, <1>c DEF EditConfigMap
<1>4. Restart => TypeStep
  <2> SUFFICES ASSUME Restart PROVE TypeStep
    OBVIOUS
  <2>1. AdcType' /\ MapType'
    BY <1>t DEF Restart, AdcType, MapType, Controllers
  <2>2. PassType' /\ BuildType' /\ RestType'
    BY <1>t DEF Restart, PassType, BuildType, RestType
  <2> QED BY <2>1, <2>2, <1>p, <1>c DEF Restart
<1>5. \A f \in Features : McoCreates(f) => TypeStep
  BY <1>t, WriteType, <1>p, <1>a, <1>s, <1>b, <1>r, <1>c DEF McoCreates
<1>6. \A f \in Features : SeeConfigMap(f) => TypeStep
  <2> SUFFICES ASSUME NEW f \in Features, SeeConfigMap(f) PROVE TypeStep
    OBVIOUS
  <2>1. MapType'
    BY <1>t DEF SeeConfigMap, MapType
  <2>2. RestType'
    BY <1>t DEF SeeConfigMap, RestType
  <2> QED BY <2>1, <2>2, <1>p, <1>a, <1>s, <1>b, <1>c DEF SeeConfigMap
<1>7. \A who \in Controllers : HearOfAdc(who) => TypeStep
  <2> SUFFICES ASSUME NEW who \in Controllers, HearOfAdc(who) PROVE TypeStep
    OBVIOUS
  <2>1. AdcType'
    BY <1>t DEF HearOfAdc, AdcType
  <2>2. RestType'
    BY <1>t DEF HearOfAdc, RestType
  <2> QED BY <2>1, <2>2, <1>p, <1>m, <1>s, <1>b, <1>c DEF HearOfAdc
<1>8. StartPass => TypeStep
  <2> SUFFICES ASSUME StartPass PROVE TypeStep
    OBVIOUS
  <2>1. PassType'
    BY DEF StartPass, PassType, Pass, Unwanted
  <2>2. RestType'
    BY <1>t DEF StartPass, RestType
  <2> QED BY <2>1, <2>2, <1>p, <1>a, <1>m, <1>b, <1>c DEF StartPass
<1>9. Get => TypeStep
  <2> SUFFICES ASSUME Get PROVE TypeStep
    OBVIOUS
  <2>1. PassType'
    BY <1>t DEF Get, PassType, Pass
  <2> QED BY <2>1, <1>p, <1>a, <1>m, <1>b, <1>r, <1>c DEF Get
<1>10. Delete => TypeStep
  <2> SUFFICES ASSUME Delete PROVE TypeStep
    OBVIOUS
  <2>1. First(pass.todo) \in Features
    BY <1>t, FirstIn DEF Delete, PassType, Pass
  <2>2. MapType'
    BY <2>1, <1>t, WriteType DEF Delete
  <2>3. PassType'
    BY <1>t DEF Delete, PassType, Pass
  <2> QED BY <2>2, <2>3, <1>p, <1>a, <1>b, <1>r, <1>c DEF Delete
<1>11. EndPass => TypeStep
  <2> SUFFICES ASSUME EndPass PROVE TypeStep
    OBVIOUS
  <2>1. PassType'
    BY DEF EndPass, PassType
  <2> QED BY <2>1, <1>p, <1>a, <1>m, <1>b, <1>r, <1>c DEF EndPass
<1>12. PassFails => TypeStep
  <2> SUFFICES ASSUME PassFails PROVE TypeStep
    OBVIOUS
  <2>1. PassType' /\ RestType'
    BY <1>t DEF PassFails, PassType, RestType
  <2> QED BY <2>1, <1>p, <1>a, <1>m, <1>b, <1>c DEF PassFails
<1>13. \A n \in Clusters : StartBuild(n) => TypeStep
  <2> SUFFICES ASSUME NEW n \in Clusters, StartBuild(n) PROVE TypeStep
    OBVIOUS
  <2>1. Asked(n, seenAdc["manager"]) \in SUBSET Features
    BY <1>t, AskedType DEF AdcType, Controllers
  <2>2. BuildType'
    BY <2>1, <1>t, NothingType DEF StartBuild, BuildType, Building
  <2>3. RestType'
    BY <1>t DEF StartBuild, RestType
  <2> QED BY <2>2, <2>3, <1>p, <1>a, <1>m, <1>s, <1>c DEF StartBuild
<1>g. ASSUME NEW n \in Clusters, NEW stage, At(n, stage)
      PROVE  build[n] \in Building /\ First(build[n].todo) \in Features
  <2>1. build[n] \in Building /\ build[n].todo # {}
    BY <1>g, <1>t DEF At, BuildType
  <2> QED BY <2>1, FirstIn DEF Building
<1>h. ASSUME NEW n \in Clusters, build[n] \in Building, NEW stage \in {"create", "read"},
             build' = [build EXCEPT ![n].stage = stage]
      PROVE  BuildType'
  BY <1>h, <1>t DEF BuildType, Building
<1>14. \A n \in Clusters : Ensure(n) => TypeStep
  <2> SUFFICES ASSUME NEW n \in Clusters, Ensure(n) PROVE TypeStep
    OBVIOUS
  <2>1. BuildType'
    BY <1>g, <1>h DEF Ensure
  <2> QED BY <2>1, <1>p, <1>a, <1>m, <1>s, <1>r, <1>c DEF Ensure
<1>15. \A n \in Clusters : Create(n) => TypeStep
  <2> SUFFICES ASSUME NEW n \in Clusters, Create(n) PROVE TypeStep
    OBVIOUS
  <2>1. BuildType'
    BY <1>g, <1>h DEF Create
  <2>2. MapType'
    BY <1>t, <1>g, WriteType, InForceType DEF Create
  <2> QED BY <2>1, <2>2, <1>p, <1>a, <1>s, <1>r, <1>c DEF Create
<1>i. ASSUME NEW n \in Clusters, Abandon(n), Change \/ UNCHANGED changes PROVE TypeStep
  <2>1. BuildType' /\ RestType'
    BY <1>i, <1>t DEF Abandon, BuildType, RestType
  <2> QED BY <1>i, <2>1, <1>p, <1>a, <1>m, <1>s, <1>c DEF Abandon
<1>16. \A n \in Clusters : Read(n) => TypeStep
  <2> SUFFICES ASSUME NEW n \in Clusters, Read(n) PROVE TypeStep
    OBVIOUS
  <2> DEFINE f == First(build[n].todo)
             outcome == Outcomes(InForce(f), n)
  <2>1. build[n] \in Building /\ f \in Features
    BY <1>g DEF Read
  <2>2. outcome \in {Off} \cup Contents
    BY <2>1, <1>t, InForceType, OutcomesType
  <2> HIDE DEF f, outcome
  <2>3. CASE Take(n, f, outcome)
    <3>1. [build[n].out EXCEPT ![f] = outcome] \in Outcome
      BY <2>1, <2>2 DEF Outcome, Building
    <3>2. [stage |-> "ensure", todo |-> build[n].todo \ {f},
           out |-> [build[n].out EXCEPT ![f] = outcome]] \in Building
      BY <3>1, <2>1 DEF Building
    <3>3. BuildType'
      BY <3>2, <2>3, <1>t DEF Take, BuildType
    <3> QED BY <3>3, <2>3, <1>p, <1>a, <1>m, <1>s, <1>r, <1>c DEF Take, Read
  <2>4. Take(n, f, outcome) \/ Abandon(n)
    BY DEF Read, f, outcome
  <2> QED BY <2>3, <2>4, <1>i DEF Read
<1>17. \A n \in Clusters : EndBuild(n) => TypeStep
  <2> SUFFICES ASSUME NEW n \in Clusters, EndBuild(n) PROVE TypeStep
    OBVIOUS
  <2>1. build[n].out \in Outcome
    BY <1>t DEF EndBuild, BuildType, Building
  <2>2. BuildType' /\ RestType'
    BY <2>1, <1>t DEF EndBuild, BuildType, RestType
  <2> QED BY <2>2, <1>p, <1>a, <1>m, <1>s, <1>c DEF EndBuild
<1>18. \A n \in Clusters : EnsureFails(n) => TypeStep
  <2> SUFFICES ASSUME NEW n \in Clusters, EnsureFails(n) PROVE TypeStep
    OBVIOUS
  <2>1. BuildType'
    BY <1>g, <1>h DEF EnsureFails
  <2> QED BY <2>1, <1>p, <1>a, <1>m, <1>s, <1>r, <1>c DEF EnsureFails
<1>19. \A n \in Clusters : ReadFails(n) => TypeStep
  BY <1>i DEF ReadFails
<1>20. CASE Next
  BY <1>20, <1>2, <1>3, <1>4, <1>5, <1>6, <1>7, <1>8, <1>9, <1>10, <1>11, <1>12, <1>13,
     <1>14, <1>15, <1>16, <1>17, <1>18, <1>19, NextCases
<1> QED BY <1>1, <1>20

\* Every reachable state is well typed.
THEOREM TypeCorrect == Spec => []TypeOK
BY InitType, StepType, PTL DEF Spec
-----------------------------------------------------------------------------
(* What wakes the two controllers. *)

LEMMA InitInv == Init => WakeInv /\ SweepInv /\ RenderedInv
BY DEF Init, WakeInv, SweepInv, LeftOver, RenderedInv, Undisturbed

\* A ConfigMap is written, it is seen, all restarts, or nothing of it changes.
MapStep ==
  \/ UNCHANGED mapVars
  \/ \E f \in Features, content \in {Missing} \cup Contents : Write(f, content)
  \/ \E f \in Features : SeeConfigMap(f)
  \/ Restart

LEMMA MapCases == ASSUME TypeOK, [Next]_vars PROVE MapStep
<1>t. MapType /\ PassType /\ BuildType
  BY TypeParts
<1>1. ASSUME Delete PROVE MapStep
  <2>1. First(pass.todo) \in Features
    BY <1>1, <1>t, FirstIn DEF Delete, PassType, Pass
  <2> QED BY <1>1, <2>1 DEF Delete, MapStep
<1>2. ASSUME NEW n \in Clusters, Create(n) PROVE MapStep
  <2>1. First(build[n].todo) \in Features
    BY <1>2, <1>t, FirstIn DEF Create, At, BuildType, Building
  <2>2. InForce(First(build[n].todo)) \in Contents
    BY <2>1, <1>t, InForceType
  <2> QED BY <1>2, <2>1, <2>2 DEF Create, MapStep
<1>3. ASSUME NEW f \in Features, NEW content \in {Missing} \cup Contents,
             EditConfigMap(f, content) \/ McoCreates(f)
      PROVE  MapStep
  BY <1>3 DEF EditConfigMap, McoCreates, MapStep
<1>4. CASE UNCHANGED mapVars \/ Restart \/ \E f \in Features : SeeConfigMap(f)
  BY <1>4 DEF MapStep
<1>5. ASSUME UNCHANGED vars \/ (\E a \in Synced : SetAdc(a))
               \/ (\E who \in Controllers : HearOfAdc(who))
               \/ StartPass \/ Get \/ EndPass \/ PassFails
               \/ \E n \in Clusters : StartBuild(n) \/ Ensure(n) \/ Read(n) \/ EndBuild(n)
                                        \/ EnsureFails(n) \/ ReadFails(n)
      PROVE  UNCHANGED mapVars
  BY <1>5 DEF vars, SetAdc, HearOfAdc, StartPass, Get, EndPass, PassFails, StartBuild, Ensure,
     Read, EndBuild, EnsureFails, ReadFails, Take, Abandon
<1> QED
  BY <1>1, <1>2, <1>3, <1>4, <1>5, Zenon DEF Next, Creator, Build

LEMMA StepWake == TypeOK /\ WakeInv /\ [Next]_vars => WakeInv'
<1> SUFFICES ASSUME TypeOK, WakeInv, [Next]_vars PROVE WakeInv'
  OBVIOUS
<1>t. MapType
  BY TypeParts
<1>1. CASE UNCHANGED mapVars
  BY <1>1 DEF mapVars, WakeInv
<1>2. ASSUME NEW f \in Features, NEW content \in {Missing} \cup Contents, Write(f, content)
      PROVE  WakeInv'
  <2>1. configMap'[f] = content /\ \A g \in Features \ {f} : configMap'[g] = configMap[g]
    BY <1>2, <1>t, WriteType
  <2> QED BY <1>2, <2>1, <1>t DEF Write, Passes, WakeInv, MapType
<1>3. ASSUME NEW f \in Features, SeeConfigMap(f) PROVE WakeInv'
  BY <1>3, <1>t DEF SeeConfigMap, WakeInv
<1>4. CASE Restart
  BY <1>4 DEF Restart, WakeInv
<1> QED BY <1>1, <1>2, <1>3, <1>4, MapCases DEF MapStep

\* After a step that leaves a ConfigMap that is there unknown to nobody, it is
\* as it was.
LEMMA Untouched ==
  ASSUME TypeOK, WakeInv, [Next]_vars, NEW f \in Features, f \notin waking',
         configMap'[f] # Missing, ~Restart
  PROVE  /\ configMap'[f] = configMap[f]
         /\ f \notin waking \/ SeeConfigMap(f)
<1>t. MapType
  BY TypeParts
<1>1. ASSUME NEW g \in Features, NEW content \in {Missing} \cup Contents, Write(g, content)
      PROVE  configMap'[f] = configMap[f] /\ f \notin waking
  BY <1>1, <1>t, WriteType DEF Write, Passes
<1>2. ASSUME NEW g \in Features, SeeConfigMap(g)
      PROVE  configMap'[f] = configMap[f] /\ (f \notin waking \/ SeeConfigMap(f))
  BY <1>2 DEF SeeConfigMap
<1> QED BY <1>1, <1>2, MapCases DEF MapStep, mapVars
-----------------------------------------------------------------------------
(* The sweep. *)

\* What the resource creator does in a step that does not wake it.
CreatorMove ==
  \/ UNCHANGED <<creatorDue, pass>>
  \/ StartPass \/ Get \/ Delete \/ EndPass

LEMMA CreatorMoves == ASSUME TypeOK, [Next]_vars, ~creatorDue' PROVE CreatorMove
<1>t. creatorDue \in BOOLEAN
  BY TypeParts DEF RestType
<1>1. ASSUME NEW a \in Synced, SetAdc(a) PROVE CreatorMove
  BY <1>1 DEF SetAdc, creatorVars, CreatorMove
<1>2. ASSUME NEW f \in Features, NEW content \in {Missing} \cup Contents, EditConfigMap(f, content)
      PROVE  CreatorMove
  BY <1>2 DEF EditConfigMap, creatorVars, CreatorMove
<1>3. ~Restart
  BY DEF Restart
<1>4. ASSUME NEW f \in Features, McoCreates(f) \/ SeeConfigMap(f) PROVE CreatorMove
  <2>1. CASE McoCreates(f)
    BY <2>1 DEF McoCreates, creatorVars, CreatorMove
  <2>2. CASE SeeConfigMap(f)
    <3>1. UNCHANGED pass /\ (creatorDue' <=> creatorDue \/ f \in waking) /\ creatorDue' \in BOOLEAN
      BY <2>2 DEF SeeConfigMap
    <3> QED BY <3>1, <1>t DEF CreatorMove
  <2> QED BY <1>4, <2>1, <2>2
<1>5. ASSUME NEW who \in Controllers, HearOfAdc(who) PROVE CreatorMove
  <2>1. UNCHANGED pass /\ (creatorDue' <=> creatorDue \/ who = "creator") /\ creatorDue' \in BOOLEAN
    BY <1>5 DEF HearOfAdc
  <2> QED BY <2>1, <1>t DEF CreatorMove
<1>6. Creator => CreatorMove
  BY DEF Creator, CreatorMove
<1>7. ~PassFails
  BY DEF PassFails
<1>8. ASSUME NEW n \in Clusters, Build(n) \/ EnsureFails(n) \/ ReadFails(n) PROVE CreatorMove
  <2>1. CASE Build(n)
    BY <2>1 DEF Build, StartBuild, Ensure, Create, Read, EndBuild, Take, Abandon, creatorVars,
       CreatorMove
  <2>2. CASE EnsureFails(n) \/ ReadFails(n)
    BY <2>2 DEF EnsureFails, ReadFails, Abandon, creatorVars, CreatorMove
  <2> QED BY <1>8, <2>1, <2>2
<1>9. UNCHANGED vars => CreatorMove
  BY DEF vars, creatorVars, CreatorMove
<1> QED BY <1>1, <1>2, <1>3, <1>4, <1>5, <1>6, <1>7, <1>8, <1>9 DEF Next

\* Of the settings, a step that leaves the creator aware of them changed nothing.
LEMMA CreatorAware ==
  ASSUME TypeOK, [Next]_vars, "creator" \notin unheard', ~creatorDue'
  PROVE  adc' = adc /\ "creator" \notin unheard /\ seenAdc["creator"] = adc
<1>t. AdcType /\ "creator" \in Controllers
  BY TypeParts DEF Controllers
<1>1. ~Restart /\ ~HearOfAdc("creator") /\ \A a \in Synced : ~SetAdc(a)
  BY <1>t DEF Restart, HearOfAdc, SetAdc
<1>2. \A who \in Controllers : HearOfAdc(who) => adc' = adc /\ "creator" \notin unheard
  BY <1>1 DEF HearOfAdc
<1>3. adc' = adc /\ "creator" \notin unheard
  BY <1>1, <1>2 DEF Next, vars, adcVars, EditConfigMap, McoCreates, SeeConfigMap, Creator,
     StartPass, Get, Delete, EndPass, PassFails, Build, StartBuild, Ensure, Create, Read,
     EndBuild, EnsureFails, ReadFails, Take, Abandon
<1> QED BY <1>3, <1>t DEF AdcType

LEMMA StepSweep == TypeOK /\ WakeInv /\ SweepInv /\ [Next]_vars => SweepInv'
<1> SUFFICES ASSUME TypeOK, WakeInv, SweepInv, [Next]_vars, NEW f \in Features, LeftOver(f)'
             PROVE  pass' # Idle /\ f \in pass'.todo
  BY DEF SweepInv
<1>t. MapType /\ PassType
  BY TypeParts
<1>1. /\ "creator" \notin unheard' /\ ~creatorDue'
      /\ configMap'[f] # Missing /\ f \notin waking'
  BY DEF LeftOver
<1>2. adc' = adc /\ "creator" \notin unheard /\ seenAdc["creator"] = adc
  BY <1>1, CreatorAware
<1>3. ~Restart /\ ~(f \in waking /\ SeeConfigMap(f))
  BY <1>1 DEF Restart, SeeConfigMap
<1>4. configMap'[f] = configMap[f] /\ f \notin waking
  BY <1>1, <1>3, Untouched
<1>5. f \in cached
  BY <1>1, <1>4, <1>t DEF WakeInv, MapType
<1>6. adc.delegated /\ f \notin Enabled(adc)
  BY <1>2 DEF LeftOver
<1>7. CASE StartPass
  <2>1. f \in Unwanted(adc)
    BY <1>6 DEF Unwanted
  <2>2. pass' = [todo |-> Unwanted(adc), found |-> FALSE]
    BY <1>2, <1>7 DEF StartPass
  <2>3. pass' \in Pass
    BY <2>2 DEF Pass, Unwanted
  <2> QED BY <2>1, <2>2, <2>3 DEF Pass
<1>8. CASE ~StartPass
  <2>1. CreatorMove
    BY <1>1, CreatorMoves
  <2>2. ~creatorDue
    BY <1>1, <1>8, <2>1 DEF CreatorMove, Get, Delete, EndPass
  <2>3. LeftOver(f)
    BY <1>1, <1>2, <1>4, <1>6, <2>2 DEF LeftOver
  <2>4. pass # Idle /\ f \in pass.todo /\ pass \in Pass
    BY <2>3, <1>t DEF SweepInv, PassType
  <2>5. CASE UNCHANGED pass
    BY <2>4, <2>5
  <2>6. CASE Get
    <3>1. CASE First(pass.todo) \in cached
      <4>1. pass' = [pass EXCEPT !.found = TRUE]
        BY <2>6, <3>1 DEF Get
      <4>2. pass' \in Pass /\ f \in pass'.todo
        BY <2>4, <4>1 DEF Pass
      <4> QED BY <4>2 DEF Pass
    <3>2. CASE First(pass.todo) \notin cached
      <4>1. pass' = [pass EXCEPT !.todo = pass.todo \ {First(pass.todo)}]
        BY <2>6, <3>2 DEF Get
      <4>2. f # First(pass.todo)
        BY <3>2, <1>5
      <4>3. pass' \in Pass /\ f \in pass'.todo
        BY <2>4, <4>1, <4>2 DEF Pass
      <4> QED BY <4>3 DEF Pass
    <3> QED BY <3>1, <3>2
  <2>7. CASE Delete
    <3>1. First(pass.todo) \in Features
      BY <2>4, FirstIn DEF Pass
    <3>2. f # First(pass.todo)
      BY <2>7, <3>1, <1>1, <1>t, WriteType DEF Delete
    <3>3. pass' \in Pass /\ f \in pass'.todo
      BY <2>4, <2>7, <3>2 DEF Delete, Pass
    <3> QED BY <3>3 DEF Pass
  <2>8. ~EndPass
    BY <2>4 DEF EndPass
  <2> QED BY <2>1, <2>5, <2>6, <2>7, <2>8, <1>8 DEF CreatorMove
<1> QED BY <1>7, <1>8
-----------------------------------------------------------------------------
(* The renderings. *)

\* What a Build does in a step that does not have its cluster queued.
Taken(n) ==
  LET f == First(build[n].todo) IN
  /\ build[n] # Idle /\ build[n].todo # {}
  /\ build' = [build EXCEPT ![n] =
       [stage |-> "ensure", todo |-> build[n].todo \ {f},
        out |-> [build[n].out EXCEPT ![f] = Outcomes(InForce(f), n)]]]
  /\ UNCHANGED <<mapVars, rendered>>
Staged(n) ==
  /\ build[n] # Idle
  /\ \E stage \in {"create", "read"} : build' = [build EXCEPT ![n].stage = stage]
  /\ UNCHANGED rendered
BuildMove ==
  \/ UNCHANGED <<build, rendered>>
  \/ \E n \in Clusters : \/ StartBuild(n) \/ EndBuild(n) \/ Taken(n) \/ Staged(n)
                         \/ build[n] # Idle /\ Abandon(n)

LEMMA BuildMoves == ASSUME TypeOK, [Next]_vars, ~Restart PROVE BuildMove
<1>1. ASSUME UNCHANGED vars \/ (\E a \in Synced : SetAdc(a))
               \/ (\E f \in Features, content \in {Missing} \cup Contents : EditConfigMap(f, content))
               \/ (\E f \in Features : McoCreates(f) \/ SeeConfigMap(f))
               \/ (\E who \in Controllers : HearOfAdc(who))
               \/ StartPass \/ Get \/ Delete \/ EndPass \/ PassFails
      PROVE  UNCHANGED <<build, rendered>>
  BY <1>1 DEF vars, managerVars, SetAdc, EditConfigMap, McoCreates, SeeConfigMap, HearOfAdc,
     StartPass, Get, Delete, EndPass, PassFails
<1>2. ASSUME NEW n \in Clusters, Ensure(n) \/ Create(n) \/ EnsureFails(n) PROVE Staged(n)
  <2>1. build[n] # Idle /\ UNCHANGED rendered
    BY <1>2 DEF Ensure, Create, EnsureFails, At
  <2>2. \E stage \in {"create", "read"} : build' = [build EXCEPT ![n].stage = stage]
    BY <1>2 DEF Ensure, Create, EnsureFails
  <2> QED BY <2>1, <2>2 DEF Staged
<1>3. ASSUME NEW n \in Clusters, Read(n) PROVE Taken(n) \/ (build[n] # Idle /\ Abandon(n))
  BY <1>3, TypeParts DEF Read, Take, At, Taken, BuildType
<1>4. ASSUME NEW n \in Clusters, ReadFails(n) PROVE build[n] # Idle /\ Abandon(n)
  BY <1>4 DEF ReadFails, At
<1> QED
  BY <1>1, <1>2, <1>3, <1>4, Zenon DEF Next, Creator, Build, BuildMove

\* A step that leaves a cluster with nothing on its way found it so, or starts
\* its Build; and nobody has written what is there.
LEMMA Calm ==
  ASSUME TypeOK, WakeInv, [Next]_vars, NEW n \in Clusters, Undisturbed(n)'
  PROVE  /\ ~Restart /\ adc' = adc /\ seenAdc["manager"] = adc
         /\ \A f \in Features : configMap'[f] # Missing => configMap'[f] = configMap[f]
         /\ Undisturbed(n) \/ StartBuild(n)
<1>t. AdcType /\ MapType /\ "manager" \in Controllers /\ renderDue \subseteq Clusters
  BY TypeParts DEF Controllers, RestType
<1>u. n \notin renderDue' /\ "manager" \notin unheard' /\ waking' = {}
  BY DEF Undisturbed
<1>1. /\ ~Restart /\ ~HearOfAdc("manager") /\ \A a \in Synced : ~SetAdc(a)
      /\ \A f \in Features : ~(f \in waking /\ SeeConfigMap(f))
  BY <1>u, <1>t DEF Restart, HearOfAdc, SetAdc, SeeConfigMap
<1>2. \A who \in Controllers : HearOfAdc(who) => adc' = adc /\ "manager" \notin unheard
  BY <1>1, <1>u DEF HearOfAdc
<1>3. adc' = adc /\ "manager" \notin unheard
  BY <1>1, <1>2, <1>u DEF Next, vars, adcVars, EditConfigMap, McoCreates, SeeConfigMap, Creator,
     StartPass, Get, Delete, EndPass, PassFails, Build, StartBuild, Ensure, Create, Read,
     EndBuild, EnsureFails, ReadFails, Take, Abandon
<1>4. \A f \in Features : configMap'[f] # Missing => configMap'[f] = configMap[f]
  BY <1>1, <1>u, Untouched
<1>5. waking = {}
  <2>1. \A f \in Features, content \in {Missing} \cup Contents :
          Write(f, content) => waking \subseteq waking'
    BY DEF Write
  <2>2. \A f \in Features : SeeConfigMap(f) => waking = waking'
    BY <1>1 DEF SeeConfigMap
  <2> QED BY <1>1, <1>u, <2>1, <2>2, MapCases DEF MapStep, mapVars
<1>6. n \in renderDue => StartBuild(n)
  <2>1. \A m \in Clusters : StartBuild(m) /\ n \in renderDue => m = n
    BY <1>u DEF StartBuild
  <2>2. \A f \in Features : SeeConfigMap(f) => renderDue' = renderDue
    BY <1>1 DEF SeeConfigMap
  <2>3. \A who \in Controllers : HearOfAdc(who) => renderDue' = renderDue
    BY <1>1 DEF HearOfAdc
  <2> QED
    BY <1>1, <1>u, <2>1, <2>2, <2>3 DEF Next, vars, managerVars, EditConfigMap, McoCreates,
       Creator, StartPass, Get, Delete, EndPass, PassFails, Build, Ensure, Create, Read,
       EndBuild, EnsureFails, ReadFails, Take, Abandon
<1> QED BY <1>1, <1>3, <1>4, <1>5, <1>6, <1>t DEF AdcType, Undisturbed

LEMMA StepRendered == TypeOK /\ WakeInv /\ RenderedInv /\ [Next]_vars => RenderedInv'
<1> DEFINE Good(n, b, r) ==
      IF b = Idle
      THEN \A f \in Features : Right(n, f, r)
      ELSE \A f \in Features : IF f \in b.todo THEN f \in Asked(n, adc) ELSE Right(n, f, b.out)
<1> SUFFICES ASSUME TypeOK, WakeInv, RenderedInv, [Next]_vars, NEW n \in Clusters, Undisturbed(n)'
             PROVE  Good(n, build[n], rendered[n])'
  BY DEF RenderedInv
<1>t. BuildType /\ rendered \in [Clusters -> Outcome]
  BY TypeParts DEF RestType
<1>1. /\ ~Restart /\ adc' = adc /\ seenAdc["manager"] = adc
      /\ \A f \in Features : configMap'[f] # Missing => configMap'[f] = configMap[f]
      /\ Undisturbed(n) \/ StartBuild(n)
  BY Calm
<1>2. \A f \in Features, out \in Outcome :
        Right(n, f, out) => IF f \in Asked(n, adc)
                            THEN configMap'[f] # Missing => out[f] = Outcomes(configMap'[f], n)
                            ELSE out[f] = Off
  BY <1>1 DEF Right
<1>3. ASSUME build'[n] = Idle, rendered'[n] \in Outcome, \A f \in Features : Right(n, f, rendered'[n])
      PROVE  Good(n, build[n], rendered[n])'
  BY <1>1, <1>2, <1>3 DEF Right
<1>4. ASSUME build'[n] \in Building,
             \A f \in Features : IF f \in build'[n].todo THEN f \in Asked(n, adc)
                                 ELSE Right(n, f, build'[n].out)
      PROVE  Good(n, build[n], rendered[n])'
  <2>1. build'[n] # Idle /\ build'[n].out \in Outcome
    BY <1>4 DEF Building, Outcome
  <2> QED BY <1>1, <1>2, <1>4, <2>1 DEF Right
<1> DEFINE Goal == Good(n, build[n], rendered[n])'
<1> HIDE DEF Goal
<1>5. ASSUME StartBuild(n) PROVE Goal
  <2>1. build'[n] = [stage |-> "ensure", todo |-> Asked(n, adc), out |-> NothingRendered]
    BY <1>1, <1>5, <1>t DEF StartBuild, BuildType
  <2>2. Asked(n, adc) \subseteq Features
    BY DEF Asked, Enabled
  <2>3. build'[n] \in Building
    BY <2>1, <2>2, NothingType DEF Building
  <2>4. \A f \in Features : IF f \in build'[n].todo THEN f \in Asked(n, adc)
                            ELSE Right(n, f, build'[n].out)
    BY <2>1 DEF Right, NothingRendered
  <2> QED BY <1>4, <2>3, <2>4 DEF Goal
<1>6. ASSUME ~StartBuild(n) PROVE Goal
  <2>1. Good(n, build[n], rendered[n]) /\ build[n] \in {Idle} \cup Building /\ rendered[n] \in Outcome
    BY <1>1, <1>6, <1>t DEF RenderedInv, BuildType
  <2>2. ASSUME build'[n] = build[n], rendered'[n] = rendered[n] PROVE Goal
    BY <2>1, <2>2, <1>3, <1>4 DEF Goal
  <2>3. CASE UNCHANGED <<build, rendered>>
    BY <2>2, <2>3
  <2>4. ASSUME NEW m \in Clusters, m # n,
               StartBuild(m) \/ EndBuild(m) \/ Taken(m) \/ Staged(m) \/ Abandon(m)
        PROVE  Goal
    <3>1. build'[n] = build[n] /\ rendered'[n] = rendered[n]
      BY <2>4, <1>t DEF StartBuild, EndBuild, Taken, Staged, Abandon, managerVars, BuildType
    <3> QED BY <2>2, <3>1
  <2>5. ASSUME EndBuild(n) PROVE Goal
    <3>1. build[n] \in Building /\ build[n].todo = {}
      BY <2>1, <2>5 DEF EndBuild
    <3>2. build'[n] = Idle /\ rendered'[n] = build[n].out
      BY <2>5, <1>t DEF EndBuild, BuildType
    <3>3. build[n].out \in Outcome /\ build[n] # Idle
      BY <2>5, <3>1 DEF Building, Outcome, EndBuild
    <3> QED BY <2>1, <3>1, <3>2, <3>3, <1>3 DEF Goal
  <2>6. ASSUME Taken(n) PROVE Goal
    <3> DEFINE g == First(build[n].todo)
    <3>1. build[n] \in Building /\ build[n] # Idle /\ g \in build[n].todo /\ g \in Features
      BY <2>1, <2>6, FirstIn DEF Taken, Building
    <3>2. g \in Asked(n, adc)
      BY <2>1, <3>1
    <3>3. InForce(g) \in Contents
      BY <3>1, InForceType, TypeParts
    <3>4. Outcomes(InForce(g), n) \in {Off} \cup Contents
      BY <3>3, OutcomesType
    <3>5. build'[n] = [stage |-> "ensure", todo |-> build[n].todo \ {g},
                       out |-> [build[n].out EXCEPT ![g] = Outcomes(InForce(g), n)]]
      BY <2>6, <1>t DEF Taken, BuildType
    <3>6. build'[n] \in Building
      BY <3>1, <3>4, <3>5 DEF Building, Outcome
    <3>7. Right(n, g, build'[n].out)
      BY <3>1, <3>2, <3>5 DEF Right, InForce, Building, Outcome
    <3>8. \A f \in Features \ {g} : build'[n].out[f] = build[n].out[f]
      BY <3>1, <3>5 DEF Building, Outcome
    <3>9. \A f \in Features : IF f \in build'[n].todo THEN f \in Asked(n, adc)
                              ELSE Right(n, f, build'[n].out)
      <4> SUFFICES ASSUME NEW f \in Features
                   PROVE  IF f \in build'[n].todo THEN f \in Asked(n, adc)
                          ELSE Right(n, f, build'[n].out)
        OBVIOUS
      <4>1. CASE f = g
        BY <4>1, <3>5, <3>7
      <4>2. CASE f # g
        BY <4>2, <2>1, <3>1, <3>5, <3>8 DEF Right
      <4> QED BY <4>1, <4>2
    <3> QED BY <1>4, <3>6, <3>9 DEF Goal
  <2>7. ASSUME Staged(n) PROVE Goal
    <3>1. build[n] \in Building /\ build[n] # Idle
      BY <2>1, <2>7 DEF Staged
    <3>2. build'[n] \in Building /\ build'[n].todo = build[n].todo /\ build'[n].out = build[n].out
      BY <2>7, <3>1, <1>t DEF Staged, BuildType, Building
    <3> QED BY <2>1, <3>1, <3>2, <1>4 DEF Goal
  <2>8. ~Abandon(n)
    BY DEF Abandon, Undisturbed
  <2>9. BuildMove
    BY <1>1, BuildMoves
  <2> QED BY <2>3, <2>4, <2>5, <2>6, <2>7, <2>8, <2>9, <1>6 DEF BuildMove
<1> QED BY <1>5, <1>6 DEF Goal

LEMMA StepIInv == IInv /\ [Next]_vars => IInv'
BY StepType, StepWake, StepSweep, StepRendered DEF IInv

LEMMA IInvariant == Spec => []IInv
BY InitType, InitInv, StepIInv, PTL DEF Spec, IInv

\* When the addon manages right-sizing and both controllers rest, a feature
\* that is off has no ConfigMap, whatever Build created when.
THEOREM Swept == Spec => []SweptWhenQuiet
<1>1. IInv => SweptWhenQuiet
  BY DEF IInv, TypeOK, SweepInv, LeftOver, SweptWhenQuiet, Quiet
<1> QED BY <1>1, IInvariant, PTL

\* When both rest and MCO has said who manages right-sizing, every cluster is
\* rendered from the ConfigMaps as they are.
THEOREM Rendered == Spec => []RenderedWhenQuiet
<1>1. ASSUME IInv, Quiet PROVE RenderedWhenQuiet
  <2>1. \A n \in Clusters : Undisturbed(n) /\ build[n] = Idle
    BY <1>1 DEF IInv, TypeOK, Quiet, Undisturbed
  <2>2. \A n \in Clusters, f \in Features : Right(n, f, rendered[n])
    BY <1>1, <2>1 DEF IInv, RenderedInv
  <2> QED BY <2>2 DEF Right, RenderedWhenQuiet
<1>2. IInv => RenderedWhenQuiet
  BY <1>1 DEF RenderedWhenQuiet
<1> QED BY <1>2, IInvariant, PTL
=============================================================================

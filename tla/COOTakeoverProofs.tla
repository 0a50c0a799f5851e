-------------------------- MODULE COOTakeoverProofs --------------------------
(***************************************************************************)
(* Proofs about who runs the Prometheus operator, for any CRDs and any     *)
(* number of changes from outside.                                         *)
(***************************************************************************)
EXTENDS COOTakeover, TLAPS

\* What the addon manager knows is current unless it has the cluster queued.
Now == [collect |-> collecting, vendor |-> isOpenShiftVendor,
        subscribed |-> collecting /\ isOpenShiftVendor /\ feedback.olm]

BuildInv == build # None /\ ~triggered => build = Now
WorkInv ==
  ~triggered /\ build = None /\ attached /\ work # None => work = Rendering(Now)

\* A time that a CRD will be established at has been written nowhere.
Past(times) == \A c \in Crds : times[c] <= clock
ClockInv ==
  /\ Past(crds) /\ Past(feedback.times)
  /\ work # None => Past(work.annotation)
  /\ deployment # None => Past(deployment)
  /\ pod # None => Past(pod.template)

\* A pod whose template has the current time of a CRD was started after it.
PodInv ==
  pod # None =>
    \A c \in Crds : pod.template[c] = crds[c] /\ crds[c] # 0 => pod.knows[c] = crds[c]

\* Without its CRD there is no agent.
AgentInv == crds[AgentCrd] = 0 => agent = None

IInv == BuildInv /\ WorkInv /\ ClockInv /\ PodInv /\ AgentInv
-----------------------------------------------------------------------------
USE TakeoverAssumption

\* The steps of Next one by one, so that each proof below has one case each.
LEMMA NextCases ==
  ASSUME NEW ACTION P,
    SwitchAddon => P, SwitchCollection => P, LearnVendor => P,
    InstallCOO => P, \A S \in SUBSET Crds : UninstallCOO(S) => P, Evict => P,
    Begin => P, Apply => P, DeleteWork => P,
    ApplyAnchor => P, RemoveAnchor => P, ApplyEndpoint => P, ApplyAgent => P,
    ApplyDeployment => P, Report => P, \A c \in Crds : EstablishCrd(c) => P,
    StartPod => P, StopPod => P
  PROVE  Next => P
BY Zenon DEF Next, Outside, Hub, Spoke

LEMMA NoFeedbackType == NoTime \in Times /\ NoFeedback \in Feedback
BY DEF NoTime, Times, NoFeedback, Feedback

LEMMA InitType == Init => TypeOK
<1> SUFFICES ASSUME Init PROVE TypeOK
  OBVIOUS
<1>1. crds \in Times
  BY DEF Init, NoTime, Times
<1>2. anchor = None \/ anchor \in [olm : BOOLEAN, owned : BOOLEAN]
  <2>1. [olm |-> TRUE, owned |-> FALSE] \in [olm : BOOLEAN, owned : BOOLEAN]
    OBVIOUS
  <2> QED BY <2>1, Zenon DEF Init
<1>3. feedback \in Feedback /\ events \in 0..MaxEvents
  BY NoFeedbackType DEF Init
<1>4. coo \in BOOLEAN
  BY DEF Init
<1> QED BY <1>1, <1>2, <1>3, <1>4 DEF Init, TypeOK

LEMMA StepType == TypeOK /\ [Next]_vars => TypeOK'
<1> SUFFICES ASSUME TypeOK, [Next]_vars PROVE TypeOK'
  OBVIOUS
<1> USE DEF External, hubVars, spokeVars
<1>1. CASE UNCHANGED vars
  BY <1>1 DEF vars, TypeOK
<1>2. SwitchAddon => TypeOK'
  BY DEF SwitchAddon, TypeOK
<1>3. SwitchCollection => TypeOK'
  BY DEF SwitchCollection, TypeOK
<1>4. LearnVendor => TypeOK'
  BY DEF LearnVendor, TypeOK
<1>5. InstallCOO => TypeOK'
  BY DEF InstallCOO, TypeOK, Times
<1>6. \A S \in SUBSET Crds : UninstallCOO(S) => TypeOK'
  <2> SUFFICES ASSUME NEW S \in SUBSET Crds, UninstallCOO(S) PROVE TypeOK'
    OBVIOUS
  <2>1. crds' \in Times
    BY DEF UninstallCOO, TypeOK, Times
  <2>2. anchor' = None \/ anchor' \in [olm : BOOLEAN, owned : BOOLEAN]
    BY DEF UninstallCOO, TypeOK
  <2>3. agent' \in {None, Own, COO}
    BY DEF UninstallCOO, TypeOK
  <2>4. /\ UNCHANGED <<hubVars, clock, endpoint, deployment, pod>>
        /\ coo' = FALSE
    BY DEF UninstallCOO
  <2>5. events' \in 0..MaxEvents
    BY DEF UninstallCOO, TypeOK
  <2> QED BY <2>1, <2>2, <2>3, <2>4, <2>5 DEF TypeOK
<1>7. Evict => TypeOK'
  BY DEF Evict, TypeOK
<1>8. Begin => TypeOK'
  <2> SUFFICES ASSUME Begin PROVE TypeOK'
    OBVIOUS
  <2>1. build' \in [collect : BOOLEAN, vendor : BOOLEAN, subscribed : BOOLEAN]
    BY DEF Begin, IsSubscribed, TypeOK, Feedback
  <2>2. /\ UNCHANGED <<attached, collecting, isOpenShiftVendor, work, feedback, coo, events>>
        /\ UNCHANGED <<anchor, crds, clock, endpoint, agent, deployment, pod>>
        /\ triggered' = FALSE
    BY DEF Begin
  <2>3. build' = None \/ build' \in [collect : BOOLEAN, vendor : BOOLEAN, subscribed : BOOLEAN]
    BY <2>1, Zenon
  <2> HIDE <2>1
  <2>4. /\ work' = None \/ work' \in Work
        /\ anchor' = None \/ anchor' \in [olm : BOOLEAN, owned : BOOLEAN]
        /\ deployment' = None \/ deployment' \in Times
        /\ pod' = None \/ pod' \in [template : Times, knows : Times]
    BY <2>2 DEF TypeOK
  <2>5. /\ {attached', collecting', isOpenShiftVendor', triggered', endpoint', coo'} \subseteq BOOLEAN
        /\ feedback' \in Feedback /\ crds' \in Times /\ clock' \in Nat
        /\ agent' \in {None, Own, COO} /\ events' \in 0..MaxEvents
    BY <2>2 DEF TypeOK
  <2> QED BY <2>3, <2>4, <2>5, Zenon DEF TypeOK
<1>9. Apply => TypeOK'
  BY NoFeedbackType DEF Apply, Rendering, Annotation, Unannotated, TypeOK, Work, Feedback
<1>10. DeleteWork => TypeOK'
  BY NoFeedbackType DEF DeleteWork, TypeOK
<1>11. ApplyAnchor => TypeOK'
  BY DEF ApplyAnchor, AnchorRendered, OwnsAnchor, Collects, TypeOK, Work
<1>12. RemoveAnchor => TypeOK'
  BY DEF RemoveAnchor, TypeOK
<1>13. ApplyEndpoint => TypeOK'
  BY DEF ApplyEndpoint, Collects, TypeOK, Work
<1>14. ApplyAgent => TypeOK'
  BY DEF ApplyAgent, ControllerId, TypeOK
<1>15. ApplyDeployment => TypeOK'
  BY DEF ApplyDeployment, Template, Deploys, Collects, TypeOK, Work
<1>16. Report => TypeOK'
  BY NoFeedbackType DEF Report, Status, TypeOK, Feedback
<1>17. \A c \in Crds : EstablishCrd(c) => TypeOK'
  BY DEF EstablishCrd, TypeOK, Times
<1>18. StartPod => TypeOK'
  BY DEF StartPod, TypeOK
<1>19. StopPod => TypeOK'
  BY DEF StopPod, TypeOK
<1>20. CASE Next
  BY <1>20, <1>2, <1>3, <1>4, <1>5, <1>6, <1>7, <1>8, <1>9, <1>10, <1>11, <1>12,
     <1>13, <1>14, <1>15, <1>16, <1>17, <1>18, <1>19, NextCases
<1> QED BY <1>1, <1>20

\* Every reachable state is well typed.
THEOREM TypeCorrect == Spec => []TypeOK
BY InitType, StepType, PTL DEF Spec
-----------------------------------------------------------------------------
(* The hub: what it has rendered is current unless the cluster is queued. *)

\* Of the steps on the cluster and of OLM's, only a report touches the hub.
LEMMA HubFrame ==
  ASSUME Next
  PROVE  \/ SwitchAddon \/ SwitchCollection \/ LearnVendor
         \/ Begin \/ Apply \/ DeleteWork \/ Report
         \/ UNCHANGED hubVars
BY Zenon DEF Next, Outside, Hub, Spoke, InstallCOO, UninstallCOO, Evict, ApplyAnchor,
   RemoveAnchor, ApplyEndpoint, ApplyAgent, ApplyDeployment, EstablishCrd, StartPod, StopPod

LEMMA InitHub == Init => BuildInv /\ WorkInv
BY DEF Init, BuildInv, WorkInv

LEMMA StepHub == TypeOK /\ BuildInv /\ WorkInv /\ [Next]_vars => BuildInv' /\ WorkInv'
<1> SUFFICES ASSUME TypeOK, BuildInv, WorkInv, [Next]_vars PROVE BuildInv' /\ WorkInv'
  OBVIOUS
<1>1. CASE SwitchAddon \/ SwitchCollection \/ LearnVendor \/ Report
  BY <1>1 DEF SwitchAddon, SwitchCollection, LearnVendor, Report, BuildInv, WorkInv
<1>2. CASE Begin
  <2>1. build' = Now /\ UNCHANGED <<collecting, isOpenShiftVendor, feedback>>
    BY <1>2 DEF Begin, IsSubscribed, Now
  <2>2. Now' = Now
    BY <2>1 DEF Now
  <2>3. Now # None
    BY DEF Now, TypeOK, Feedback
  <2> QED
    BY <2>1, <2>2, <2>3 DEF BuildInv, WorkInv
<1>3. CASE Apply
  <2>1. UNCHANGED <<attached, collecting, isOpenShiftVendor, triggered, feedback>> /\ build' = None
    BY <1>3 DEF Apply
  <2>2. ASSUME ~triggered', attached' PROVE work' = Rendering(Now)'
    <3>1. build = Now
      BY <1>3, <2>1, <2>2 DEF Apply, BuildInv
    <3>2. work' = Rendering(Now)
      BY <1>3, <2>1, <2>2, <3>1 DEF Apply
    <3> QED BY <3>2, <2>1 DEF Rendering, Annotation, Now
  <2> QED BY <2>1, <2>2 DEF BuildInv, WorkInv
<1>4. CASE DeleteWork
  BY <1>4 DEF DeleteWork, BuildInv, WorkInv
<1>5. CASE UNCHANGED hubVars
  BY <1>5 DEF hubVars, BuildInv, WorkInv, Rendering, Annotation, Now
<1> QED BY <1>1, <1>2, <1>3, <1>4, <1>5, HubFrame DEF vars
-----------------------------------------------------------------------------
(* The cluster: what a pod knows of the CRDs its template names. *)

LEMMA InitSpoke == Init => ClockInv /\ PodInv /\ AgentInv
BY DEF Init, ClockInv, PodInv, AgentInv, Past, NoFeedback, NoTime

\* Times are copied from the cluster to the feedback, the work, the Deployment
\* and the pod, and grow on the cluster only.
LEMMA StepClock == TypeOK /\ ClockInv /\ [Next]_vars => ClockInv'
<1> SUFFICES ASSUME TypeOK, ClockInv, [Next]_vars PROVE ClockInv'
  OBVIOUS
<1> USE DEF Past
<1>1. CASE clock' = clock /\ UNCHANGED <<crds, feedback, work, deployment, pod>>
  BY <1>1 DEF ClockInv
<1>2. CASE InstallCOO
  BY <1>2 DEF InstallCOO, ClockInv, TypeOK, Times, Feedback, Work, hubVars
<1>3. ASSUME NEW S \in SUBSET Crds, UninstallCOO(S) PROVE ClockInv'
  BY <1>3 DEF UninstallCOO, ClockInv, TypeOK, Times, hubVars
<1>4. CASE Apply
  BY <1>4 DEF Apply, Rendering, Annotation, Unannotated, NoTime, ClockInv, TypeOK, spokeVars
<1>5. CASE DeleteWork
  BY <1>5 DEF DeleteWork, NoFeedback, NoTime, ClockInv, TypeOK, spokeVars
<1>6. CASE ApplyDeployment
  BY <1>6 DEF ApplyDeployment, Template, Deploys, Collects, ClockInv, hubVars
<1>7. CASE Report
  BY <1>7 DEF Report, Status, NoFeedback, NoTime, ClockInv, TypeOK, spokeVars
<1>8. ASSUME NEW c \in Crds, EstablishCrd(c) PROVE ClockInv'
  BY <1>8 DEF EstablishCrd, ClockInv, TypeOK, Times, Feedback, Work, hubVars
<1>9. CASE StartPod
  BY <1>9 DEF StartPod, ClockInv, hubVars
<1>10. CASE Evict \/ StopPod
  BY <1>10 DEF Evict, StopPod, ClockInv, hubVars
<1> QED
  BY <1>1, <1>2, <1>3, <1>4, <1>5, <1>6, <1>7, <1>8, <1>9, <1>10
  DEF Next, Outside, Hub, Spoke, vars, hubVars, spokeVars, SwitchAddon, SwitchCollection,
      LearnVendor, Begin, ApplyAnchor, RemoveAnchor, ApplyEndpoint, ApplyAgent

LEMMA StepPod == TypeOK /\ ClockInv /\ PodInv /\ [Next]_vars => PodInv'
<1> SUFFICES ASSUME TypeOK, ClockInv, PodInv, [Next]_vars PROVE PodInv'
  OBVIOUS
<1>1. CASE UNCHANGED <<crds, pod>>
  BY <1>1 DEF PodInv
<1>2. CASE InstallCOO
  BY <1>2 DEF InstallCOO, PodInv, ClockInv, Past, TypeOK, Times
<1>3. ASSUME NEW S \in SUBSET Crds, UninstallCOO(S) PROVE PodInv'
  BY <1>3 DEF UninstallCOO, PodInv, TypeOK, Times
<1>4. ASSUME NEW c \in Crds, EstablishCrd(c) PROVE PodInv'
  BY <1>4 DEF EstablishCrd, PodInv, ClockInv, Past, TypeOK, Times
<1>5. CASE StartPod
  BY <1>5 DEF StartPod, PodInv
<1>6. CASE Evict \/ StopPod
  BY <1>6 DEF Evict, StopPod, PodInv
<1> QED
  BY <1>1, <1>2, <1>3, <1>4, <1>5, <1>6
  DEF Next, Outside, Hub, Spoke, vars, hubVars, spokeVars, SwitchAddon, SwitchCollection,
      LearnVendor, Begin, Apply, DeleteWork, ApplyAnchor, RemoveAnchor, ApplyEndpoint,
      ApplyAgent, ApplyDeployment, Report

LEMMA StepAgent == TypeOK /\ AgentInv /\ [Next]_vars => AgentInv'
<1> SUFFICES ASSUME TypeOK, AgentInv, [Next]_vars PROVE AgentInv'
  OBVIOUS
<1>1. CASE UNCHANGED <<crds, agent>>
  BY <1>1 DEF AgentInv
<1>2. CASE InstallCOO
  BY <1>2 DEF InstallCOO, AgentInv, TypeOK, Times
<1>3. ASSUME NEW S \in SUBSET Crds, UninstallCOO(S) PROVE AgentInv'
  BY <1>3 DEF UninstallCOO, AgentInv
<1>4. ASSUME NEW c \in Crds, EstablishCrd(c) PROVE AgentInv'
  BY <1>4 DEF EstablishCrd, AgentInv, TypeOK, Times
<1>5. CASE ApplyAgent
  BY <1>5 DEF ApplyAgent, AgentInv
<1> QED
  BY <1>1, <1>2, <1>3, <1>4, <1>5
  DEF Next, Outside, Hub, Spoke, vars, hubVars, spokeVars, SwitchAddon, SwitchCollection,
      LearnVendor, Evict, Begin, Apply, DeleteWork, ApplyAnchor, RemoveAnchor,
      ApplyEndpoint, ApplyDeployment, Report, StartPod, StopPod
-----------------------------------------------------------------------------
(* The invariant, and what it says of a cluster at rest. *)

\* The invariant holds in every reachable state: renderings and pods are
\* current unless a step that will renew them is pending.
THEOREM Invariant == Spec => []IInv
<1>1. Init => IInv
  BY InitHub, InitSpoke DEF IInv
<1>2. TypeOK /\ IInv /\ [Next]_vars => IInv'
  BY StepHub, StepClock, StepPod, StepAgent DEF IInv
<1> QED BY <1>1, <1>2, TypeCorrect, PTL DEF Spec

\* At rest the work is rendered from what the cluster looks like.
LEMMA QuietWork ==
  ASSUME TypeOK, IInv, Quiet, attached, collecting
  PROVE  /\ work # None /\ work.collect
         /\ feedback.olm = ManagedByOLM /\ feedback.times = crds
         /\ work.deployCOOResources = ~(isOpenShiftVendor /\ ManagedByOLM)
         /\ isOpenShiftVendor /\ ~ManagedByOLM => work.annotation = crds
<1>1. work # None /\ feedback = Status /\ work = Rendering(Now)
  BY DEF Quiet, IInv, WorkInv
<1>2. work.collect
  BY <1>1 DEF Rendering, Now
<1>3. feedback.olm = ManagedByOLM /\ feedback.times = crds
  BY <1>1, <1>2 DEF Status, AnchorRendered, Collects, ManagedByOLM
<1>4. work.deployCOOResources = ~(isOpenShiftVendor /\ ManagedByOLM)
  BY <1>1, <1>3 DEF Rendering, Now
<1>5. \A c \in Crds : crds[c] # 0
  BY <1>1, <1>2 DEF Quiet, Collects
<1>6. ASSUME isOpenShiftVendor, ~ManagedByOLM PROVE work.annotation = crds
  BY <1>1, <1>3, <1>5, <1>6 DEF Rendering, Now, Annotation
<1> QED BY <1>1, <1>2, <1>3, <1>4, <1>6

LEMMA QuietOneOperator == TypeOK /\ IInv => OneOperatorWhenQuiet
<1> DEFINE OfCOO == isOpenShiftVendor /\ coo /\ agent = COO /\ deployment = None /\ pod = None
           OfAddon == /\ agent = Own /\ pod # None
                      /\ isOpenShiftVendor => ~ManagedByOLM /\ pod.knows = crds
<1> SUFFICES ASSUME TypeOK, IInv, Quiet, attached, collecting, ~LeftBehind
             PROVE  OfCOO \/ OfAddon
  BY DEF OneOperatorWhenQuiet
<1>1. Collects /\ (Deploys <=> ~(isOpenShiftVendor /\ ManagedByOLM))
  BY QuietWork DEF Collects, Deploys
<1>2. \A c \in Crds : crds[c] # 0
  BY <1>1 DEF Quiet
<1>3. agent = ControllerId /\ deployment = Template
  BY <1>2 DEF Quiet
<1>4. CASE isOpenShiftVendor /\ ManagedByOLM
  BY <1>1, <1>3, <1>4 DEF ControllerId, Template, Quiet, LeftBehind
<1>5. CASE ~(isOpenShiftVendor /\ ManagedByOLM)
  <2>1. agent = Own /\ deployment = work.annotation
    BY <1>1, <1>3, <1>5 DEF ControllerId, Template
  <2>2. work.annotation \in Times
    BY <1>1 DEF TypeOK, Work, Collects
  <2>3. pod # None /\ pod.template = work.annotation
    BY <2>1, <2>2 DEF Quiet, Times
  <2>4. ASSUME isOpenShiftVendor PROVE pod.knows = crds
    <3>1. pod.template = crds
      BY <2>3, <2>4, <1>5, QuietWork
    <3>2. \A c \in Crds : pod.knows[c] = crds[c]
      BY <3>1, <2>3, <1>2 DEF IInv, PodInv
    <3>3. pod.knows \in Times /\ crds \in Times
      BY <2>3 DEF TypeOK
    <3> QED BY <3>2, <3>3 DEF Times
  <2> QED BY <2>1, <2>3, <2>4, <1>5
<1> QED BY <1>4, <1>5

LEMMA QuietClean == TypeOK /\ IInv => CleanWhenQuiet
<1> SUFFICES ASSUME TypeOK, IInv, Quiet
             PROVE  /\ ~(attached /\ collecting) => pod = None /\ agent = None /\ ~endpoint
                    /\ ManagedByOLM /\ isOpenShiftVendor => ~anchor.owned
  BY DEF CleanWhenQuiet
<1>1. ASSUME ~(attached /\ collecting) PROVE ~Collects
  BY <1>1 DEF Quiet, IInv, WorkInv, Rendering, Now, Collects
<1>2. ASSUME ~Collects PROVE pod = None /\ agent = None /\ ~endpoint
  BY <1>2 DEF Quiet, Template, Deploys, ControllerId, IInv, AgentInv
<1>3. ASSUME Collects PROVE attached /\ collecting
  BY <1>1, <1>3
<1>4. ASSUME ManagedByOLM, isOpenShiftVendor PROVE ~anchor.owned
  <2>1. CASE Collects
    BY <2>1, <1>3, <1>4, QuietWork DEF Quiet, AnchorRendered, OwnsAnchor
  <2>2. CASE ~Collects
    BY <2>2, <1>4 DEF Quiet, AnchorRendered, ManagedByOLM
  <2> QED BY <2>1, <2>2
<1> QED BY <1>1, <1>2, <1>4

\* At rest exactly one operator runs and answers for the agent of a cluster that
\* collects metrics, whoever came and went before, unless COO left its label.
THEOREM OneOperator == Spec => []OneOperatorWhenQuiet
BY TypeCorrect, Invariant, QuietOneOperator, PTL

\* At rest nothing of the addon is left where it has no business, and OLM's
\* CRD is nobody's to delete.
THEOREM Clean == Spec => []CleanWhenQuiet
BY TypeCorrect, Invariant, QuietClean, PTL
=============================================================================

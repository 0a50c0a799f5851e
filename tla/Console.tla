------------------------------- MODULE Console -------------------------------
(***************************************************************************)
(* The dashboards as someone uses them: the hub's chart serves a choice of *)
(* dashboards, the clusters federate the series of right-sizing, and a     *)
(* reader opens a page, picks values, and follows the links of its panels, *)
(* while the features are switched under way.                              *)
(*                                                                         *)
(* The pages, selectors, queries and links are the program's (Dashboards). *)
(* How a console loads a page (Open, Load, Pick, Follow) is Perses', and   *)
(* external: a selector waits for the selectors that its query reads; it   *)
(* takes the value that the address asks for, if that is an option, and    *)
(* otherwise everything, if it may, or its first option.                   *)
(***************************************************************************)
EXTENDS Dashboards, Naturals

CONSTANTS Initial,    \* the features that may be on at first
          MaxEvents   \* bound: how often a feature is switched

VARIABLES features,   \* the features that are on
          served,     \* the dashboards of each project of the hub
          federated,  \* the series of right-sizing that the clusters send to the hub
          page,       \* the name of the open page, NoPage or Missing
          value,      \* of each selector of the page
          wanted,     \* the selectors whose value the address gives
          expected,   \* the selectors that a link promised to set or to keep
          origin,     \* the page whose link was followed
          events

vars == <<features, served, federated, page, value, wanted, expected, origin, events>>

AllFeatures ==
  {"collection", "ui", "cardinality", "incident", "delegated", "namespace", "virtualization"}

ASSUME ConsoleAssumption ==
  /\ Initial \subseteq SUBSET AllFeatures
  /\ MaxEvents \in Nat

NoPage == "no page"
Missing == "not found"

\* The value of a selector: still loading; without options; what was asked for; everything;
\* or the first option, whatever it is.
Loading == "loading"
NoOptions == "no options"
Asked == "asked"
All == "all"
First == "first"

-----------------------------------------------------------------------------
(* Pages.                                                                  *)

Catalogue == Dashboards(AllFeatures) \cup AnalyticsDashboards(AllFeatures)
Names == {d.name : d \in Catalogue}
Board(name) == CHOOSE d \in Catalogue : d.name = name
AnalyticsNames == {d.name : d \in AnalyticsDashboards(AllFeatures)}

\* The dashboards of each project, and the series, under a choice of features.
Rendered(set) ==
  [ fleet |-> {d.name : d \in Dashboards(set)},
    analytics |-> {d.name : d \in AnalyticsDashboards(set)} ]

Series(set) ==
  Federated("delegated" \in set, "namespace" \in set, "virtualization" \in set, "collection" \in set)

Pages == served.fleet \cup served.analytics

IsOpen == page \in Names
Selectors == Board(page).selectors

\* Links stay in the project of their page.
Siblings ==
  IF page \in AnalyticsNames THEN served.analytics ELSE served.fleet

Settled == IsOpen /\ \A v \in DOMAIN value : value[v] # Loading

\* With v at x, whatever reads v asks again.
Choose(v, x) ==
  value' = [w \in DOMAIN value |-> IF w = v THEN x
                                   ELSE IF v \in Selectors[w].deps THEN Loading ELSE value[w]]

-----------------------------------------------------------------------------
(* A page.                                                                 *)

HasOptions(s) ==
  /\ s.deps \subseteq DOMAIN value
  /\ \A w \in s.deps : value[w] # NoOptions
  /\ s.series = {} \/ s.series \cap federated # {}

\* What was asked for is an option for sure only where it was asked for, too, in all the
\* selectors that the options depend on.
Loaded(v) ==
  LET s == Selectors[v]
      sure == \A w \in s.deps : value[w] \in {Asked, All}
      default == IF s.all THEN All ELSE First
  IN  CASE ~HasOptions(s) -> {NoOptions}
        [] HasOptions(s) /\ v \in wanted -> {Asked} \cup {x \in {default} : ~sure}
        [] OTHER -> {default}

HasData(panel) ==
  \A q \in panel.queries :
    /\ q.reads \subseteq DOMAIN value
    /\ \A v \in q.reads : value[v] # NoOptions
    /\ q.series \subseteq federated

\* A value that is not an option of the target, or that the rows do not have, is not set.
Arrives(panel, target, v, param) ==
  LET s == target.selectors[v]
  IN  CASE param.kind = "field" -> \E q \in panel.queries : Carries(q, param.of)
        [] param.kind = "chosen" ->
             param.of \in DOMAIN value /\ (value[param.of] = All => s.all)
        [] OTHER -> param.of = "$__all" => s.all

\* What a link sets; and of what is chosen on the page, that which the row was found under:
\* what the options of the target's selectors depend on.
Promised(target, link) ==
  LET under == UNION {target.selectors[v].deps : v \in DOMAIN link.params \cap DOMAIN target.selectors}
  IN  DOMAIN link.params \cup {w \in under \cap DOMAIN value : value[w] # All}

-----------------------------------------------------------------------------
(* The hub and the clusters.                                               *)

Init ==
  /\ features \in Initial
  /\ served = Rendered(features)
  /\ federated = Series(features)
  /\ page = NoPage
  /\ value = <<>>
  /\ wanted = {}
  /\ expected = {}
  /\ origin = NoPage
  /\ events = 0

Configure(f) ==
  /\ events < MaxEvents
  /\ events' = events + 1
  /\ features' = IF f \in features THEN features \ {f} ELSE features \cup {f}
  /\ UNCHANGED <<served, federated, page, value, wanted, expected, origin>>

Render ==
  /\ served' = Rendered(features)
  /\ UNCHANGED <<features, federated, page, value, wanted, expected, origin, events>>

\* An open page asks again.
RenderSpokes ==
  /\ federated' = Series(features)
  /\ federated' # federated
  /\ value' = [v \in DOMAIN value |-> Loading]
  /\ UNCHANGED <<features, served, page, wanted, expected, origin, events>>

-----------------------------------------------------------------------------
(* The reader.                                                             *)

Visit(name) ==
  /\ page' = name
  /\ value' = [v \in DOMAIN Board(name).selectors |-> Loading]

OpenPage(name) ==
  /\ ~IsOpen
  /\ Visit(name)
  /\ origin' = NoPage
  /\ UNCHANGED <<features, served, federated, wanted, expected, events>>

Close ==
  /\ IsOpen
  /\ page' = NoPage
  /\ value' = <<>>
  /\ wanted' = {}
  /\ expected' = {}
  /\ origin' = NoPage
  /\ UNCHANGED <<features, served, federated, events>>

Load(v) ==
  /\ value[v] = Loading
  /\ \A w \in Selectors[v].deps \cap DOMAIN value : value[w] # Loading
  /\ \E x \in Loaded(v) : Choose(v, x)
  /\ UNCHANGED <<features, served, federated, page, wanted, expected, origin, events>>

Pick(v) ==
  /\ Settled
  /\ value[v] # NoOptions
  /\ Choose(v, Asked)
  /\ wanted' = wanted \cup {v}
  /\ expected' = {}
  /\ origin' = NoPage
  /\ UNCHANGED <<features, served, federated, page, events>>

Follow(panel, link) ==
  /\ Settled
  /\ HasData(panel)
  /\ origin' = page
  /\ \/ /\ link.to \in Siblings
        /\ Visit(link.to)
        /\ LET target == Board(link.to)
           IN  /\ wanted' = {v \in DOMAIN link.params \cap DOMAIN target.selectors :
                               Arrives(panel, target, v, link.params[v])}
               /\ expected' = Promised(target, link)
     \/ /\ link.to \notin Siblings
        /\ page' = Missing
        /\ value' = <<>>
        /\ wanted' = {}
        /\ expected' = {}
  /\ UNCHANGED <<features, served, federated, events>>

-----------------------------------------------------------------------------

LoadSome == IsOpen /\ \E v \in DOMAIN value : Load(v)

Next ==
  \/ \E f \in AllFeatures : Configure(f)
  \/ Render
  \/ RenderSpokes
  \/ \E name \in Pages : OpenPage(name)
  \/ Close
  \/ LoadSome
  \/ IsOpen /\ \E v \in DOMAIN value : Pick(v)
  \/ IsOpen /\ \E p \in Board(page).panels : \E l \in p.links : Follow(p, l)

Spec == Init /\ [][Next]_vars

\* The console goes on loading what the reader leaves open.
FairSpec == Spec /\ WF_vars(LoadSome)

-----------------------------------------------------------------------------
(* Properties.                                                             *)

\* The state has its type: the selectors of the open page, and no others, have a value.
TypeOK ==
  /\ features \subseteq AllFeatures
  /\ served \in [ fleet : SUBSET Names, analytics : SUBSET Names ]
  /\ federated \subseteq NamespaceMetrics \cup VirtualizationMetrics
  /\ page \in {NoPage, Missing} \cup Names
  /\ DOMAIN value = IF IsOpen THEN DOMAIN Selectors ELSE {}
  /\ \A v \in DOMAIN value : value[v] \in {Loading, NoOptions, Asked, All, First}
  /\ wanted \subseteq DOMAIN value
  /\ origin \in {NoPage} \cup Names

\* A link leads nowhere only from a page that is no longer served itself: whatever features
\* are on, the dashboards that link to each other come and go together.
NoDeadLink == [][page' = Missing => page = Missing \/ page \notin Pages]_vars

Quiet == served = Rendered(features) /\ federated = Series(features)

\* Its selector for the type reads $workload, which is no selector of this page.
NeverLoads == {"k8s-compute-resources-namespace-workloads"}

\* Once the hub and the clusters follow the features, every panel of a page that is served
\* has data: its queries read selectors that the page has and that have options, and series
\* that the rules record and the clusters federate. Without the collection, the dashboards
\* of right-sizing are served and nothing is federated.
ShowsData ==
  Settled /\ Quiet /\ page \in Pages /\ "collection" \in features /\ page \notin NeverLoads
    => \A p \in Board(page).panels : HasData(p)

\* The links that give the row, and not the selectors that its value is looked up under.
LosesContext ==
  {<<"acm-alert-analysis", "acm-alerts-by-cluster">>,
   <<"acm-rightsizing-openshift-virtualization", "acm-rightsizing-vm-overestimation">>,
   <<"acm-rightsizing-openshift-virtualization", "acm-rightsizing-vm-underestimation">>,
   <<"k8s-networking-cluster", "k8s-networking-namespace-pods">>,
   <<"k8s-networking-namespace-pods", "k8s-networking-pod">>,
   <<"k8s-compute-resources-cluster", "k8s-compute-resources-namespace-pods">>,
   <<"k8s-compute-resources-namespace-pods", "k8s-compute-resources-pod">>,
   <<"k8s-compute-resources-workload", "k8s-compute-resources-pod">>}

Arrived == \A v \in expected : v \in DOMAIN value /\ value[v] # First

\* A link shows the row that was clicked, under the cluster, metric or namespace that it was
\* found under, and not the first option of a selector.
LinksArrive == Settled /\ <<origin, page>> \notin LosesContext => Arrived

\* The panel's text: "Click VM Name or Namespace to see detailed overestimation view."
\* (internal/perses/panels/rightsizing/vm-panels.go).
VMLinkArrives ==
  Settled /\ origin = "acm-rightsizing-openshift-virtualization" => Arrived

\* While its reader and the clusters leave a page alone, its selectors all load: none waits
\* for one that waits for it.
PageSettles ==
  <>[][page' = page /\ \A v \in DOMAIN value : value[v] # Loading => value'[v] = value[v]]_vars
    => <>[](IsOpen => Settled)

=============================================================================

--------------------------- MODULE ConsoleProofs ---------------------------
(***************************************************************************)
(* Proofs about the console: whatever features are on at first and however *)
(* often they are switched, links lead to pages that are served and bring  *)
(* their context along, and panels have data.                              *)
(*                                                                         *)
(* Of the dashboards only the lemmas of DashboardsProofs about the         *)
(* catalogue are used.                                                     *)
(***************************************************************************)
EXTENDS DashboardsProofs

\* What is served follows some choice of features, though maybe not the present one.
ServedInv == \E set \in SUBSET AllFeatures : served = Rendered(set)

\* Without a page nothing is asked for.
ClosedInv == ~IsOpen => wanted = {} /\ expected = {}

\* Only where it may, a selector is everything; and one that reads a selector that the page
\* does not have never gets a value.
ChoiceInv ==
  IsOpen => \A v \in DOMAIN value :
    /\ value[v] = All => Selectors[v].all
    /\ ~(Selectors[v].deps \subseteq DOMAIN value) => value[v] \in {Loading, NoOptions}

Supplying ==
  \A v \in DOMAIN value : Selectors[v].series = {} \/ Selectors[v].series \cap federated # {}

\* While the clusters send what the selectors list, none of them is without options.
OptionsInv ==
  IsOpen /\ page \notin NeverLoads /\ Supplying => \A v \in DOMAIN value : value[v] # NoOptions

\* What a link promised is asked for, or may be everything; and so is whatever its options
\* depend on: it is this that makes the value an option for sure.
ContextInv ==
  IsOpen /\ <<origin, page>> \notin LosesContext =>
    \A v \in expected :
      /\ v \in DOMAIN value
      /\ value[v] # First
      /\ Selectors[v].deps \subseteq expected
      /\ Selectors[v].all \/ v \in wanted

IInv == TypeOK /\ ServedInv /\ ClosedInv /\ ChoiceInv /\ OptionsInv /\ ContextInv

-----------------------------------------------------------------------------
(* The hub and the clusters.                                               *)

\* Rendering yields known names and known series.
LEMMA RenderedType ==
  ASSUME NEW set
  PROVE  /\ Rendered(set) \in [ fleet : SUBSET Names, analytics : SUBSET Names ]
         /\ Series(set) \subseteq NamespaceMetrics \cup VirtualizationMetrics
<1>1. /\ {d.name : d \in Dashboards(set)} \subseteq Names
      /\ {d.name : d \in AnalyticsDashboards(set)} \subseteq Names
  BY CatalogueParts DEF Names
<1> QED
  BY <1>1, SeriesType DEF Rendered

\* The open page is a page of the catalogue, and its selectors are those that have a value.
LEMMA OpenPages ==
  ASSUME TypeOK, IsOpen
  PROVE  /\ Board(page) \in Catalogue /\ Board(page).name = page
         /\ DOMAIN value = DOMAIN Selectors
         /\ page \notin {NoPage, Missing}
  BY OneBoardPerName DEF TypeOK, IsOpen

\* At first no page is open.
LEMMA InitInv == Init => IInv
<1> SUFFICES ASSUME Init PROVE IInv
  OBVIOUS
<1>1. ~IsOpen
  BY OneBoardPerName DEF Init, IsOpen
<1>2. DOMAIN value = {}
  BY DEF Init
<1>3. features \in SUBSET AllFeatures
  BY ConsoleAssumption DEF Init
<1>4. TypeOK
  BY <1>1, <1>2, <1>3, RenderedType DEF Init, TypeOK
<1>5. ServedInv /\ ClosedInv
  BY <1>3 DEF Init, ServedInv, ClosedInv
<1> QED
  BY <1>1, <1>4, <1>5 DEF IInv, ChoiceInv, OptionsInv, ContextInv

\* While the page stays, so do its selectors.
LEMMA SamePage ==
  ASSUME page' = page
  PROVE  (IsOpen' <=> IsOpen) /\ Selectors' = Selectors
  BY DEF IsOpen, Selectors

\* Switching a feature changes nothing that is served, federated or shown.
LEMMA ConfigureInv ==
  ASSUME IInv, NEW f \in AllFeatures, Configure(f)
  PROVE  IInv'
<1> USE DEF Configure, IInv
<1>1. features' \subseteq AllFeatures
  BY DEF TypeOK
<1> QED
  BY <1>1 DEF TypeOK, ServedInv, ClosedInv, ChoiceInv, OptionsInv, Supplying, ContextInv,
     IsOpen, Selectors

\* Rendering the hub leaves the open page as it is, even if it is served no longer.
LEMMA RenderInv ==
  ASSUME IInv, Render
  PROVE  IInv'
<1> USE DEF Render, IInv
<1>1. served' = Rendered(features) /\ features \in SUBSET AllFeatures
  BY DEF TypeOK
<1>2. TypeOK'
  BY <1>1, RenderedType DEF TypeOK, IsOpen, Selectors
<1>3. ServedInv'
  BY <1>1 DEF ServedInv
<1> QED
  BY <1>2, <1>3 DEF ClosedInv, ChoiceInv, OptionsInv, Supplying, ContextInv,
     IsOpen, Selectors

\* When the series change, the page asks again: nothing is left over from the old ones.
LEMMA RenderSpokesInv ==
  ASSUME IInv, RenderSpokes
  PROVE  IInv'
<1> USE DEF RenderSpokes, IInv
<1>1. (IsOpen' <=> IsOpen) /\ Selectors' = Selectors
  BY SamePage
<1>2. DOMAIN value' = DOMAIN value /\ \A v \in DOMAIN value' : value'[v] = Loading
  OBVIOUS
<1>3. TypeOK'
  BY <1>1, <1>2, RenderedType DEF TypeOK
<1>4. ServedInv' /\ ClosedInv'
  BY <1>1 DEF ServedInv, ClosedInv
<1>5. ChoiceInv' /\ OptionsInv'
  BY <1>2 DEF ChoiceInv, OptionsInv, Loading, All, NoOptions
<1>6. ContextInv'
  BY <1>1, <1>2 DEF ContextInv, Loading, First
<1> QED
  BY <1>3, <1>4, <1>5, <1>6

-----------------------------------------------------------------------------
(* Opening, closing, loading, picking.                                     *)

\* A page that is opened or followed to starts with every selector loading.
LEMMA VisitLoads ==
  ASSUME NEW name \in Names, Visit(name)
  PROVE  /\ IsOpen' /\ page' = name
         /\ DOMAIN value' = DOMAIN Selectors'
         /\ \A v \in DOMAIN value' : value'[v] = Loading
  BY DEF Visit, IsOpen, Selectors

\* A page that is opened by hand expects nothing.
LEMMA OpenPageInv ==
  ASSUME IInv, NEW name \in Pages, OpenPage(name)
  PROVE  IInv'
<1> USE DEF OpenPage, IInv
<1>1. name \in Names
  BY DEF Pages, TypeOK
<1>2. /\ IsOpen' /\ page' = name
      /\ DOMAIN value' = DOMAIN Selectors'
      /\ \A v \in DOMAIN value' : value'[v] = Loading
  BY <1>1, VisitLoads
<1>3. wanted' = {} /\ expected' = {}
  BY DEF ClosedInv
<1>4. TypeOK'
  BY <1>1, <1>2, <1>3 DEF TypeOK
<1>5. ServedInv' /\ ClosedInv'
  BY <1>2 DEF ServedInv, ClosedInv
<1>6. ChoiceInv' /\ OptionsInv'
  BY <1>2 DEF ChoiceInv, OptionsInv, Loading, All, NoOptions
<1>7. ContextInv'
  BY <1>3 DEF ContextInv
<1> QED
  BY <1>4, <1>5, <1>6, <1>7

\* Nor does a closed one.
LEMMA CloseInv ==
  ASSUME IInv, Close
  PROVE  IInv'
<1> USE DEF Close, IInv
<1>1. ~IsOpen'
  BY OneBoardPerName DEF IsOpen
<1>2. DOMAIN value' = {}
  OBVIOUS
<1>3. TypeOK'
  BY <1>1, <1>2 DEF TypeOK
<1>4. ServedInv' /\ ClosedInv'
  BY DEF ServedInv, ClosedInv
<1> QED
  BY <1>1, <1>3, <1>4 DEF ChoiceInv, OptionsInv, ContextInv

\* Choosing a value sets it, and makes what reads it load again.
LEMMA ChooseOne ==
  ASSUME TypeOK, IsOpen, page' = page, NEW v \in DOMAIN value, NEW x, Choose(v, x)
  PROVE  /\ DOMAIN value' = DOMAIN value
         /\ value'[v] = x
         /\ \A w \in DOMAIN value : w # v => value'[w] \in {Loading, value[w]}
  BY DEF Choose

\* A selector loads when those that it reads have: with their values asked for, its own is an
\* option for sure, and otherwise it may fall back to its first option.
LEMMA LoadInv ==
  ASSUME IInv, IsOpen, NEW v \in DOMAIN value, Load(v)
  PROVE  IInv'
<1> USE DEF IInv
<1> DEFINE s == Selectors[v]
<1>1. PICK x \in Loaded(v) : Choose(v, x)
  BY DEF Load
<1>2. /\ (IsOpen' <=> IsOpen) /\ Selectors' = Selectors
      /\ UNCHANGED <<features, served, federated, page, wanted, expected, origin, events>>
  BY SamePage DEF Load
<1>3. /\ DOMAIN value' = DOMAIN value
      /\ value'[v] = x
      /\ \A w \in DOMAIN value : w # v => value'[w] \in {Loading, value[w]}
  BY <1>1, <1>2, ChooseOne
<1>4. \/ ~HasOptions(s) /\ x = NoOptions
      \/ HasOptions(s) /\ s.all /\ x = All
      \/ HasOptions(s) /\ v \in wanted /\ x = Asked
      \/ /\ HasOptions(s) /\ ~s.all /\ x = First
         /\ v \notin wanted \/ \E w \in s.deps : value[w] \notin {Asked, All}
  <2> DEFINE sure == \A w \in s.deps : value[w] \in {Asked, All}
             default == IF s.all THEN All ELSE First
  <2>1. CASE ~HasOptions(s)
    <3>1. Loaded(v) = {NoOptions}
      BY <2>1 DEF Loaded
    <3> QED
      BY <2>1, <3>1
  <2>2. CASE HasOptions(s) /\ v \in wanted
    <3>1. Loaded(v) = {Asked} \cup {y \in {default} : ~sure}
      BY <2>2 DEF Loaded
    <3> QED
      BY <2>2, <3>1
  <2>3. CASE HasOptions(s) /\ v \notin wanted
    <3>1. Loaded(v) = {default}
      BY <2>3 DEF Loaded
    <3> QED
      BY <2>3, <3>1
  <2> QED
    BY <2>1, <2>2, <2>3
<1>5. TypeOK'
  BY <1>2, <1>3, <1>4 DEF TypeOK
<1>6. ServedInv' /\ ClosedInv'
  BY <1>2 DEF ServedInv, ClosedInv
<1>7. ChoiceInv'
  <2> SUFFICES ASSUME NEW w \in DOMAIN value
               PROVE  /\ value'[w] = All => Selectors[w].all
                      /\ ~(Selectors[w].deps \subseteq DOMAIN value)
                           => value'[w] \in {Loading, NoOptions}
    BY <1>2, <1>3 DEF ChoiceInv
  <2>1. CASE w = v
    BY <2>1, <1>3, <1>4 DEF HasOptions, All, NoOptions, Asked, First
  <2>2. CASE w # v
    BY <2>2, <1>3 DEF ChoiceInv, Loading, All
  <2> QED
    BY <2>1, <2>2
<1>8. OptionsInv'
  <2> SUFFICES ASSUME page \notin NeverLoads, Supplying, NEW w \in DOMAIN value
               PROVE  value'[w] # NoOptions
    BY <1>2, <1>3 DEF OptionsInv, Supplying
  <2>1. \A u \in DOMAIN value : value[u] # NoOptions
    BY DEF OptionsInv
  <2>2. HasOptions(s)
    BY <2>1, OpenPages, PagesComplete DEF Complete, Selectors, Supplying, HasOptions
  <2> QED
    BY <2>1, <2>2, <1>3, <1>4 DEF Loading, NoOptions, All, Asked, First
<1>9. ContextInv'
  <2> SUFFICES ASSUME <<origin, page>> \notin LosesContext, NEW w \in expected
               PROVE  /\ w \in DOMAIN value
                      /\ value'[w] # First
                      /\ Selectors[w].deps \subseteq expected
                      /\ Selectors[w].all \/ w \in wanted
    BY <1>2, <1>3 DEF ContextInv
  <2>1. \A u \in expected :
          /\ u \in DOMAIN value
          /\ value[u] # First
          /\ Selectors[u].deps \subseteq expected
          /\ Selectors[u].all \/ u \in wanted
    BY DEF ContextInv
  <2>2. CASE w # v
    BY <2>1, <2>2, <1>3 DEF Loading, First
  <2>3. CASE w = v
    <3>1. \A u \in s.deps : value[u] \in {NoOptions, Asked, All}
      BY <2>1, <2>3 DEF Load, TypeOK
    <3>2. HasOptions(s) => \A u \in s.deps : value[u] \in {Asked, All}
      BY <3>1 DEF HasOptions
    <3> QED
      BY <3>2, <2>1, <2>3, <1>3, <1>4 DEF First, NoOptions, Asked, All
  <2> QED
    BY <2>2, <2>3
<1> QED
  BY <1>5, <1>6, <1>7, <1>8, <1>9

\* Picking a value takes it out of what links promised.
LEMMA PickInv ==
  ASSUME IInv, IsOpen, NEW v \in DOMAIN value, Pick(v)
  PROVE  IInv'
<1> USE DEF IInv
<1>1. /\ (IsOpen' <=> IsOpen) /\ Selectors' = Selectors
      /\ UNCHANGED <<features, served, federated, page, events>>
      /\ wanted' = wanted \cup {v} /\ expected' = {} /\ origin' = NoPage
  BY SamePage DEF Pick
<1>2. /\ DOMAIN value' = DOMAIN value
      /\ value'[v] = Asked
      /\ \A w \in DOMAIN value : w # v => value'[w] \in {Loading, value[w]}
  BY <1>1, ChooseOne DEF Pick
<1>3. value[v] \notin {Loading, NoOptions}
  BY DEF Pick, Settled
<1>4. TypeOK'
  BY <1>1, <1>2 DEF TypeOK
<1>5. ServedInv' /\ ClosedInv'
  BY <1>1 DEF ServedInv, ClosedInv
<1>6. ChoiceInv'
  BY <1>1, <1>2, <1>3 DEF ChoiceInv, Asked, All, Loading
<1>7. OptionsInv'
  BY <1>1, <1>2 DEF OptionsInv, Supplying, Asked, NoOptions, Loading
<1>8. ContextInv'
  BY <1>1 DEF ContextInv
<1> QED
  BY <1>4, <1>5, <1>6, <1>7, <1>8

-----------------------------------------------------------------------------
(* Links.                                                                  *)

\* A page that is served is a dashboard that the chart carries under the features it was last
\* rendered with.
LEMMA OnlyServed ==
  ASSUME IInv, IsOpen, page \in Pages
  PROVE  \E set \in SUBSET AllFeatures :
           /\ served = Rendered(set)
           /\ \/ page \notin AnalyticsNames /\ Board(page) \in Dashboards(set)
              \/ page \in AnalyticsNames /\ Board(page) \in AnalyticsDashboards(set)
<1> USE DEF IInv
<1>1. PICK set \in SUBSET AllFeatures : served = Rendered(set)
  BY DEF ServedInv
<1>2. CASE page \in served.fleet
  <2>1. PICK d \in Dashboards(set) : page = d.name
    BY <1>1, <1>2 DEF Rendered
  <2>2. d \in FleetBoards /\ d \in Catalogue
    BY CatalogueParts
  <2> QED
    BY <1>1, <2>1, <2>2, OneBoardPerName
<1>3. CASE page \in served.analytics
  <2>1. PICK d \in AnalyticsDashboards(set) : page = d.name
    BY <1>1, <1>3 DEF Rendered
  <2>2. d \in AnalyticsBoards /\ d \in Catalogue
    BY CatalogueParts
  <2>3. page \in AnalyticsNames
    BY <2>1, <2>2, CatalogueParts
  <2> QED
    BY <1>1, <2>1, <2>2, <2>3, OneBoardPerName
<1> QED
  BY <1>2, <1>3 DEF Pages

\* So the pages that it links to are served next to it.
LEMMA SiblingServed ==
  ASSUME IInv, IsOpen, page \in Pages, NEW p \in Board(page).panels, NEW l \in p.links
  PROVE  l.to \in Siblings
<1>1. PICK set \in SUBSET AllFeatures :
        /\ served = Rendered(set)
        /\ \/ page \notin AnalyticsNames /\ Board(page) \in Dashboards(set)
           \/ page \in AnalyticsNames /\ Board(page) \in AnalyticsDashboards(set)
  BY OnlyServed
<1>2. CASE page \notin AnalyticsNames /\ Board(page) \in Dashboards(set)
  <2>1. \E t \in Dashboards(set) : l.to = t.name
    BY <1>2, FleetLinks DEF LinksWithin, Lands
  <2> QED
    BY <1>1, <1>2, <2>1 DEF Siblings, Rendered
<1>3. CASE page \in AnalyticsNames /\ Board(page) \in AnalyticsDashboards(set)
  <2>1. \E t \in AnalyticsDashboards(set) : l.to = t.name
    BY <1>3, AnalyticsLinks DEF LinksWithin, Lands
  <2> QED
    BY <1>1, <1>3, <2>1 DEF Siblings, Rendered
<1> QED
  BY <1>1, <1>2, <1>3

\* Wherever the page is served, or no longer, the target of a link is known.
LEMMA LinkLands ==
  ASSUME TypeOK, IsOpen, NEW p \in Board(page).panels, NEW l \in p.links
  PROVE  l.to \in Names /\ Lands(Board(page), p, l, Board(l.to))
<1>1. Catalogue = Dashboards(AllFeatures) \cup AnalyticsDashboards(AllFeatures)
  BY DEF Catalogue
<1>2. PICK t \in Catalogue : Lands(Board(page), p, l, t)
  BY <1>1, OpenPages, FleetLinks, AnalyticsLinks DEF LinksWithin
<1>3. l.to = t.name
  BY <1>2 DEF Lands
<1> QED
  BY <1>2, <1>3, OneBoardPerName DEF Names

\* From the page that never loads no link is followed: what has links has no data.
LEMMA NeverFollowed ==
  ASSUME IInv, Settled, page \in NeverLoads, NEW p \in Board(page).panels, p.links # {}
  PROVE  ~HasData(p)
<1>1. IsOpen /\ TypeOK
  BY DEF Settled, IInv
<1>2. /\ Board(page) \in Catalogue /\ Board(page).name = page
      /\ DOMAIN value = DOMAIN Board(page).selectors
  BY <1>1, OpenPages DEF Selectors
<1>3. /\ "type" \in DOMAIN value
      /\ ~(Board(page).selectors["type"].deps \subseteq DOMAIN value)
      /\ \E q \in p.queries : "type" \in q.reads
  BY <1>2, NeverLoadsPage
<1>4. value["type"] = NoOptions
  BY <1>1, <1>3 DEF IInv, ChoiceInv, Settled, Selectors
<1> QED
  BY <1>3, <1>4 DEF HasData

\* A link that brings its context along sets a selector and whatever its options depend on:
\* from the rows, which carry the label, or from what is chosen here, which cannot be
\* everything.
LEMMA FollowInv ==
  ASSUME IInv, IsOpen, NEW p \in Board(page).panels, NEW l \in p.links, Follow(p, l)
  PROVE  IInv'
<1> USE DEF IInv
<1>1. UNCHANGED <<features, served, federated, events>> /\ origin' = page /\ Settled /\ HasData(p)
  BY DEF Follow
<1>2. ServedInv'
  BY <1>1 DEF ServedInv
<1>3. CASE l.to \notin Siblings
  <2>1. page' = Missing /\ value' = <<>> /\ wanted' = {} /\ expected' = {}
    BY <1>3 DEF Follow
  <2>2. ~IsOpen' /\ DOMAIN value' = {}
    BY <2>1, OneBoardPerName DEF IsOpen
  <2>3. TypeOK'
    BY <1>1, <2>1, <2>2 DEF TypeOK, IsOpen
  <2> QED
    BY <1>2, <2>1, <2>2, <2>3 DEF ClosedInv, ChoiceInv, OptionsInv, ContextInv
<1>4. CASE l.to \in Siblings
  <2> DEFINE target == Board(l.to)
  <2>1. l.to \in Names /\ Lands(Board(page), p, l, target)
    BY LinkLands
  <2>2. /\ wanted' = {v \in DOMAIN l.params \cap DOMAIN target.selectors :
                         Arrives(p, target, v, l.params[v])}
        /\ expected' = Promised(target, l)
        /\ Visit(l.to)
    BY <1>4 DEF Follow
  <2>3. /\ IsOpen' /\ page' = l.to
        /\ DOMAIN value' = DOMAIN Selectors'
        /\ \A v \in DOMAIN value' : value'[v] = Loading
    BY <2>1, <2>2, VisitLoads
  <2>4. Selectors' = target.selectors
    BY <2>3 DEF Selectors
  <2>5. TypeOK'
    BY <1>1, <2>1, <2>2, <2>3, <2>4 DEF TypeOK, IsOpen
  <2>6. ClosedInv' /\ ChoiceInv' /\ OptionsInv'
    BY <2>3 DEF ClosedInv, ChoiceInv, OptionsInv, Loading, All, NoOptions
  <2>7. ContextInv'
    <3> SUFFICES ASSUME <<page, l.to>> \notin LosesContext
                 PROVE  \A v \in Promised(target, l) :
                          /\ v \in DOMAIN target.selectors
                          /\ target.selectors[v].deps \subseteq Promised(target, l)
                          /\ target.selectors[v].all \/ v \in wanted'
      BY <1>1, <2>2, <2>3, <2>4 DEF ContextInv, Loading, First
    <3>1. page \notin NeverLoads
      BY <1>1, NeverFollowed
    <3>2. Board(page).name = page /\ target.name = l.to
      BY <2>1, OpenPages, OneBoardPerName
    <3>3. Keeps(Board(page), p, l, target)
      BY <2>1, <3>1, <3>2 DEF Lands
    <3>4. Promised(target, l) = DOMAIN l.params
      BY <3>3 DEF Keeps, Promised
    <3>5. ASSUME NEW v \in DOMAIN l.params
          PROVE  target.selectors[v].all \/ v \in wanted'
      <4>1. Kept(Board(page), p, target, v, l.params[v]) /\ v \in DOMAIN target.selectors
        BY <3>3 DEF Keeps
      <4>2. CASE /\ l.params[v].kind = "field"
                 /\ \E q \in p.queries : Carries(q, l.params[v].of)
        BY <2>2, <4>1, <4>2 DEF Arrives
      <4>3. CASE /\ l.params[v].kind = "chosen"
                 /\ l.params[v].of \in DOMAIN Board(page).selectors
                 /\ ~Board(page).selectors[l.params[v].of].all
        <5>1. l.params[v].of \in DOMAIN value /\ value[l.params[v].of] # All
          BY <4>3, OpenPages DEF ChoiceInv, Selectors
        <5> QED
          BY <2>2, <4>1, <4>3, <5>1 DEF Arrives
      <4> QED
        BY <4>1, <4>2, <4>3 DEF Kept
    <3> QED
      BY <3>3, <3>4, <3>5 DEF Keeps
  <2> QED
    BY <1>2, <2>5, <2>6, <2>7
<1> QED
  BY <1>3, <1>4

-----------------------------------------------------------------------------
(* The theorems.                                                           *)

\* Every step keeps the invariant.
LEMMA NextInv == IInv /\ [Next]_vars => IInv'
<1> SUFFICES ASSUME IInv, [Next]_vars PROVE IInv'
  OBVIOUS
<1>1. CASE UNCHANGED vars
  BY <1>1 DEF vars, IInv, TypeOK, ServedInv, ClosedInv, ChoiceInv, OptionsInv, Supplying,
     ContextInv, IsOpen, Selectors
<1>2. CASE Next
  BY <1>2, ConfigureInv, RenderInv, RenderSpokesInv, OpenPageInv, CloseInv, LoadInv, PickInv,
     FollowInv
  DEF Next, LoadSome
<1> QED
  BY <1>1, <1>2

\* The invariant holds, whatever features are on at first and however often they change.
THEOREM AlwaysInv == Spec => []IInv
  BY InitInv, NextInv, PTL DEF Spec

\* TypeOK: the selectors of the open page, and no others, have a value, of those the console
\* gives them.
THEOREM TypeCorrect == Spec => []TypeOK
<1>1. IInv => TypeOK
  BY DEF IInv
<1> QED
  BY <1>1, AlwaysInv, PTL

\* LinksArrive: but for the links that are known to lose it (LosesContext), what a link gives
\* is what the page shows, and never the first option of a selector instead, however the page
\* loads and whatever is rendered or federated meanwhile (pkg/perses/panels, NewTableLink).
THEOREM LinksLand == Spec => []LinksArrive
<1>1. IInv => LinksArrive
  BY DEF IInv, ContextInv, LinksArrive, Arrived, Settled
<1> QED
  BY <1>1, AlwaysInv, PTL

\* ShowsData: once the hub and the clusters are rendered with the present features, every
\* panel of every page that is served has its selectors and its series
\* (internal/coo/manifests/values.go with internal/analytics/rightsizing).
THEOREM PanelsFull == Spec => []ShowsData
<1>1. IInv => ShowsData
  <2> SUFFICES ASSUME IInv, Settled, Quiet, page \in Pages, "collection" \in features,
                      page \notin NeverLoads,
                      NEW p \in Board(page).panels, NEW q \in p.queries
               PROVE  /\ q.reads \subseteq DOMAIN value
                      /\ \A v \in q.reads : value[v] # NoOptions
                      /\ q.series \subseteq federated
    BY DEF ShowsData, HasData
  <2>1. IsOpen /\ TypeOK
    BY DEF Settled, IInv
  <2>2. /\ Board(page) \in Catalogue /\ Board(page).name = page
        /\ DOMAIN value = DOMAIN Board(page).selectors
    BY <2>1, OpenPages DEF Selectors
  <2>3. Board(page) \in Dashboards(features) \cup AnalyticsDashboards(features)
    <3>1. PICK d \in Dashboards(features) \cup AnalyticsDashboards(features) : d.name = page
      BY DEF Quiet, Rendered, Pages
    <3> QED
      BY <3>1, OneBoardPerName, CatalogueParts
  <2>4. Supplied(Board(page), federated)
    BY <2>3, PagesSupplied DEF Quiet
  <2>5. Supplying
    BY <2>2, <2>4 DEF Supplied, Supplying, Selectors
  <2>6. \A v \in DOMAIN value : value[v] # NoOptions
    BY <2>1, <2>5 DEF IInv, OptionsInv
  <2> QED
    BY <2>2, <2>4, <2>6, PagesComplete DEF Complete, Supplied
<1> QED
  BY <1>1, AlwaysInv, PTL

\* NoDeadLink: a page that is served never links to one that is not.
THEOREM LinksLive == Spec => NoDeadLink
<1>1. IInv /\ [Next]_vars => [page' = Missing => page = Missing \/ page \notin Pages]_vars
  <2> SUFFICES ASSUME IInv, Next, page' = Missing, page # Missing, page \in Pages
               PROVE  FALSE
    BY DEF vars
  <2>1. CASE UNCHANGED page
    BY <2>1
  <2>2. ASSUME NEW name \in Pages, OpenPage(name)
        PROVE  FALSE
    BY <2>2, OneBoardPerName DEF OpenPage, Visit, IInv, TypeOK, Pages
  <2>3. CASE Close
    BY <2>3 DEF Close, NoPage, Missing
  <2>4. ASSUME IsOpen, NEW p \in Board(page).panels, NEW l \in p.links, Follow(p, l)
        PROVE  FALSE
    <3>1. l.to \in Siblings
      BY <2>4, SiblingServed
    <3>2. l.to \in Names /\ page' = l.to
      BY <2>4, <3>1, LinkLands DEF Follow, Visit, IInv
    <3> QED
      BY <3>2, OneBoardPerName
  <2> QED
    BY <2>1, <2>2, <2>3, <2>4 DEF Next, LoadSome, Configure, Render, RenderSpokes, Load, Pick
<1> QED
  BY <1>1, AlwaysInv, PTL DEF Spec, NoDeadLink

=============================================================================

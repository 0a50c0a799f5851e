---------------------------- MODULE DashboardKit ----------------------------
(***************************************************************************)
(* What the dashboards are built from: queries, selectors, panels, links.  *)
(* Of a PromQL expression the model keeps the selectors ($variables) it    *)
(* reads, the labels its rows carry where a link reads a row, and, for the *)
(* right-sizing panels, the series it reads.                               *)
(* The builders of the Perses SDK and of the community mixins are external.*)
(***************************************************************************)
\* The entries of f, and those of g under the other keys.
f ++ g == [x \in DOMAIN f \cup DOMAIN g |-> IF x \in DOMAIN f THEN f[x] ELSE g[x]]

-----------------------------------------------------------------------------
(* Queries.                                                                *)

AnyLabel == "*"

\* The result is aggregated away, or no link reads its rows.
Query(vars) == [reads |-> vars, labels |-> {}, series |-> {}]

\* Rows that carry exactly these labels.
Row(vars, labels) == [reads |-> vars, labels |-> labels, series |-> {}]

\* Rows that carry the labels of the raw series.
AnyRow(vars) == Row(vars, {AnyLabel})

Over(query, series) == [query EXCEPT !.series = series]

\* Whether a link can take this label from the rows of the query.
Carries(query, field) == {field, AnyLabel} \cap query.labels # {}

-----------------------------------------------------------------------------
(* Links: a target in the project of the page, and what each of the        *)
(* target's selectors is set to.                                           *)

FieldParam(field) == [kind |-> "field", of |-> field]
StaticParam(value) == [kind |-> "static", of |-> value]
Chosen(selector) == [kind |-> "chosen", of |-> selector]

DashboardURL(dashboard, params) == [to |-> dashboard, params |-> params]

NewTableLink(dashboard, field) == DashboardURL(dashboard, [s \in {field} |-> FieldParam(field)])

NewTableLinkCustomVar(dashboard, selector, field) ==
  DashboardURL(dashboard, [s \in {selector} |-> FieldParam(field)])

-----------------------------------------------------------------------------
(* Panels, selectors and dashboards.                                       *)

Linked(queries, links) == [queries |-> queries, links |-> links]
Panel(queries) == Linked(queries, {})
Note(links) == Linked({}, links)

\* A list of label values whose query reads other selectors. With all, the value may be
\* everything, and is at first.
Selector(deps) == [deps |-> deps, all |-> FALSE, static |-> FALSE, series |-> {}]
SelectorWithAll(deps) == [Selector(deps) EXCEPT !.all = TRUE]

\* A static list or a text.
Text == [Selector({}) EXCEPT !.static = TRUE]

SelectorOver(deps, series) == [Selector(deps) EXCEPT !.series = series]

Dashboard(name, selectors, panels) == [name |-> name, selectors |-> selectors, panels |-> panels]

=============================================================================

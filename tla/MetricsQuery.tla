---------------------------- MODULE MetricsQuery ----------------------------
(***************************************************************************)
(* How the API confines a user's PromQL to the caller's workspace          *)
(* (injectWorkspace).  An expression is the sequence of its vector         *)
(* selectors in the order Inspect visits them, a selector is its metric    *)
(* and its matchers on the label "workspace", in their order; matchers on  *)
(* other labels pass through unchanged and are left out.  A matcher is its *)
(* operator with the slugs its value or regular expression matches.        *)
(***************************************************************************)
EXTENDS Integers, Sequences

CONSTANTS
  Slugs,     \* workspace slugs
  NoSlug,    \* the empty slug, and the label's value in a series without it
  Scoped,    \* metrics whose series carry the workspace label
  Unscoped,  \* the other metrics of the Prometheus server
  Queries    \* bound: the expressions that are tried

ASSUME MetricsAssumption ==
  /\ NoSlug \notin Slugs
  /\ Scoped \cap Unscoped = {}

Matchers  == [op : {"=", "!=", "=~", "!~"}, slugs : SUBSET (Slugs \cup {NoSlug})]
Selectors == [metric : Scoped \cup Unscoped, matchers : Seq(Matchers)]

ASSUME QueriesAssumption == Queries \subseteq Seq(Selectors)

Series == [metric : Scoped, workspace : Slugs] \cup [metric : Unscoped, workspace : {NoSlug}]

Matches(m, slug) == (slug \in m.slugs) <=> (m.op \in {"=", "=~"})

\* The series a selector stands for.
Selected(sel) ==
  {s \in Series : /\ s.metric = sel.metric
                  /\ \A i \in 1..Len(sel.matchers) : Matches(sel.matchers[i], s.workspace)}

Own(slug) == [op |-> "=", slugs |-> {slug}]

\* Mutant: the kind of the caller's matcher is not looked at, only its value.
MutPinnable(sel, slug) ==
  /\ sel.metric \in Scoped
  /\ sel.matchers = <<>> \/ Head(sel.matchers).slugs = {slug}

\* The first matcher on the label decides; only equality with the caller's
\* slug will do.
Pinnable(sel, slug) ==
  /\ sel.metric \in Scoped
  /\ sel.matchers = <<>> \/ Head(sel.matchers) = Own(slug)

Pin(sel, slug) ==
  IF sel.matchers = <<>> THEN [sel EXCEPT !.matchers = <<Own(slug)>>] ELSE sel

\* One selector that cannot be pinned rejects the expression.
Accepted(query, slug) ==
  slug # NoSlug /\ \A i \in 1..Len(query) : Pinnable(query[i], slug)

InjectWorkspace(query, slug) == [i \in 1..Len(query) |-> Pin(query[i], slug)]

\* The workspaces whose series the answer to a query is computed from.
Shown(query, slug) ==
  LET sent == IF Accepted(query, slug) THEN InjectWorkspace(query, slug) ELSE <<>>
  IN  {s.workspace : s \in UNION {Selected(sent[i]) : i \in 1..Len(sent)}}

\* An expression that is let through means the same as before, on the caller's
\* own series: each selector selects of its series those of the caller's
\* workspace and no others, wherever it stands and whatever matchers it had.
Exact(query, slug) ==
  Accepted(query, slug) =>
    \A i \in 1..Len(query) :
      Selected(InjectWorkspace(query, slug)[i])
        = {s \in Selected(query[i]) : s.workspace = slug}

AllExact == [slug \in Slugs |-> \A query \in Queries : Exact(query, slug)]
=============================================================================

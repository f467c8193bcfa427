---------------------------- MODULE CompositeTasks ----------------------------
(***************************************************************************)
(* Composite relational classification: aggregates of filtered rows in     *)
(* windows around a global cutoff, combined into a score, thresholded      *)
(* among the eligible rows.                                                *)
(***************************************************************************)
EXTENDS TaskMechanisms

CONSTANTS
  MaxPathDepth,          \* composite_max_path_depth
  MaxPredicates,         \* composite_max_predicates (0 or 1 here: a bound)
  PredicateOperators     \* bound: the comparisons that a predicate may draw

Scale == 12              \* bound: means are exact for up to four rows

CompositeFamilies ==
  {"filtered_aggregate", "count_distinct", "quantified_event", "multi_source", "multi_hop_filtered",
   "history_conditioned_future"}

(* Rows of t that satisfy a predicate.                                     *)
Satisfies(d, t, p, x) ==
  LET v == d.value[t][p.column][x]
  IN CASE p.operator = "eq" -> v = p.value
       [] p.operator = "ne" -> v # p.value
       [] p.operator = "lt" -> v < p.value
       [] p.operator = "le" -> v <= p.value
       [] p.operator = "gt" -> v > p.value
       [] p.operator = "ge" -> v >= p.value

(* Aggregate per target row, over [cutoff + start, cutoff + end].          *)
AggregateSpecValues(d, target, spec, cutoff) ==
  LET reached == Reached(d, target, spec.path)
      source == Endpoint(target, spec.path)
      Selected(r) == {x \in reached[r] : /\ d.time[source][x] >= cutoff + spec.start
                                         /\ d.time[source][x] <= cutoff + spec.end
                                         /\ \A p \in spec.predicates : Satisfies(d, source, p, x)}
      Sum(rows) == FoldSet(LAMBDA x, acc : d.value[source][spec.column][x] + acc, 0, rows)
      Value(rows) == IF spec.operator = "mean"
                     THEN IF rows = {} THEN 0 ELSE (Scale * Sum(rows)) \div Cardinality(rows)
                     ELSE Scale * AggregateOf(d.value[source][spec.column], spec.operator, rows)
  IN [r \in RowsOf(d, target) |-> Value(Selected(r))]

(* The mean of the terms is exact when Scale is a multiple of their number.*)
CombineTerms(terms, operator, r) ==
  LET values == {terms[k][r] : k \in DOMAIN terms}
      total == FoldLeft(LAMBDA acc, term : acc + term[r], 0, terms)
  IN CASE operator = "max" -> Max(values)
       [] operator = "min" -> Min(values)
       [] operator = "mean" -> total \div Len(terms)
       [] operator = "sum" -> total

CompositeScores(d, target, spec, cutoff) ==
  LET terms == [k \in DOMAIN spec.aggregates |-> AggregateSpecValues(d, target, spec.aggregates[k], cutoff)]
  IN [r \in RowsOf(d, target) |-> CombineTerms(terms, spec.combine, r)]

(* spec.gate is the eligibility aggregate, as a set with at most one.      *)
EligibleRows(d, target, spec, cutoff) ==
  {r \in RowsOf(d, target) : \A g \in spec.gate : AggregateSpecValues(d, target, g, cutoff)[r] > 0}

Passes(score, operator, threshold) ==
  IF operator = "ge" THEN score >= threshold ELSE score > threshold

(* composite_labels: from the stored spec, threshold and cutoff only.      *)
CompositeLabels(d, target, spec, threshold, cutoff) ==
  LET scores == CompositeScores(d, target, spec, cutoff)
      eligible == EligibleRows(d, target, spec, cutoff)
  IN [r \in RowsOf(d, target) |->
        IF r \in eligible THEN Bit(Passes(scores[r], spec.label, threshold)) ELSE -1]

-----------------------------------------------------------------------------
(* Path skeletons: targets and timed endpoints.                            *)
Skeletons ==
  UNION {{ [target |-> t, path |-> p] : p \in {p \in Paths(t, MaxPathDepth) : Endpoint(t, p) \in Timed} } :
         t \in {t \in Tables : Role[t] \in {"entity", "event"}} }

(* The order in which the paths of a target are enumerated.                *)
Precedes(p, q) ==
  \/ Len(p) < Len(q)
  \/ /\ Len(p) = Len(q)
     /\ \E k \in DOMAIN p : p[k] < q[k] /\ \A j \in 1..(k - 1) : p[j] = q[j]

(* Two sources are two skeletons of a target with different endpoints.     *)
TwoSources ==
  {pair \in Skeletons \X Skeletons :
     /\ pair[1].target = pair[2].target /\ Precedes(pair[1].path, pair[2].path)
     /\ Endpoint(pair[1].target, pair[1].path) # Endpoint(pair[2].target, pair[2].path)}

(* composite_candidate_limit is out of reach of a small schema.            *)
CompositeCandidates(families) ==
  UNION { CASE f = "multi_source" ->
                 {[family |-> f, target |-> s[1].target, paths |-> <<s[1].path, s[2].path>>] : s \in TwoSources}
            [] f = "multi_hop_filtered" ->
                 {[family |-> f, target |-> s.target, paths |-> <<s.path>>] :
                    s \in {s \in Skeletons : Len(s.path) >= 2}}
            [] OTHER ->
                 {[family |-> f, target |-> s.target, paths |-> <<s.path>>] : s \in Skeletons} :
          f \in families }

(* round(x), half to even, of the fraction n / m.                          *)
Round(n, m) ==
  LET q == n \div m
      twice == 2 * (n % m)
  IN IF twice > m \/ (twice = m /\ q % 2 = 1) THEN q + 1 ELSE q

(* Windows of 5 to 40 percent of the observed span of the source, before   *)
(* or after the cutoff, that do not leave the span.                        *)
Windows(d, source, cutoff, kind) ==
  LET low == Min(Times(d, source))  high == Max(Times(d, source))
      sizes == MaxOf(1, Round(high - low, 20))..MaxOf(1, Round(2 * (high - low), 5))
      history == {[start |-> -s, end |-> 0] : s \in sizes}
      future == {[start |-> 0, end |-> s] : s \in sizes}
  IN {w \in CASE kind = "history" -> history [] kind = "future" -> future
                [] kind = "either" -> history \cup future :
        cutoff + w.start >= low /\ cutoff + w.end <= high}

(* What is aggregated: an operator with the column it reads.               *)
Readings(d, source, operators) ==
  {reading \in operators \X (Usable(d, source) \cup {NoColumn}) :
     (reading[1] = "count") = (reading[2] = NoColumn)}

PredicateDraws(d, source, exclude) ==
  UNION {{ [column |-> c, operator |-> o, value |-> v] :
             o \in PredicateOperators, v \in Values(d, source, c) } : c \in Usable(d, source) \ {exclude}}

(* Every aggregate that may be drawn; none if the source has no span.      *)
AggregateDraws(d, target, path, cutoff, operators, needed, most, kind) ==
  LET source == Endpoint(target, path)
      Sets(column) == IF most = 0 THEN {{}}
                      ELSE {{p} : p \in PredicateDraws(d, source, column)} \cup IF needed THEN {} ELSE {{}}
  IN IF Cardinality(Times(d, source)) < 2 THEN {}
     ELSE UNION {{ [path |-> path, start |-> w.start, end |-> w.end, operator |-> reading[1],
                    column |-> reading[2], predicates |-> s] :
                      w \in Windows(d, source, cutoff, kind), s \in Sets(reading[2]) } :
                 reading \in Readings(d, source, operators)}

(* The specifications that a family may draw.                              *)
SpecDraws(d, c, cutoff) ==
  LET Draw(k, operators, needed, most, kind) ==
        AggregateDraws(d, c.target, c.paths[k], cutoff, operators, needed, most, kind)
      One(aggregates, label) ==
        {[family |-> c.family, aggregates |-> <<a>>, combine |-> "sum", label |-> label, gate |-> {}] :
           a \in aggregates}
      numeric == {"count", "sum", "mean", "min", "max"}
  IN CASE c.family = "filtered_aggregate" -> One(Draw(1, numeric, FALSE, MaxPredicates, "either"), "gt")
       [] c.family = "count_distinct" ->
            One(Draw(1, {"count_distinct"}, FALSE, MaxPredicates, "either"), "ge")
       [] c.family = "quantified_event" -> One(Draw(1, {"count"}, TRUE, MaxPredicates, "future"), "gt")
       [] c.family = "multi_hop_filtered" ->
            One(Draw(1, {"count", "count_distinct"}, TRUE, MaxPredicates, "either"), "gt")
       [] c.family = "multi_source" ->
            {[family |-> c.family, aggregates |-> <<a, b>>, combine |-> o, label |-> "gt", gate |-> {}] :
               a \in Draw(1, numeric, FALSE, MaxPredicates, "either"),
               b \in Draw(2, numeric, FALSE, MaxPredicates, "either"),
               o \in {"sum", "mean", "max", "min"}}
       [] c.family = "history_conditioned_future" ->
            {[family |-> c.family, aggregates |-> <<a>>, combine |-> "sum", label |-> "gt", gate |-> {g}] :
               a \in Draw(1, {"count", "sum", "mean"}, FALSE, MaxPredicates, "future"),
               g \in Draw(1, {"count"}, FALSE, 0, "history")}

===============================================================================

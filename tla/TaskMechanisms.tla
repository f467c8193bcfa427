---------------------------- MODULE TaskMechanisms ----------------------------
(***************************************************************************)
(* The task mechanisms: where a mechanism may be applied (its candidates)  *)
(* and the label it gives to each row of the target table; -1 for a row    *)
(* that is not eligible.                                                   *)
(***************************************************************************)
EXTENDS RelationalData

CONSTANTS MaxCategories

NoTime == -1
NoColumn == ""
ASSUME ColumnsNamed == \A t \in Tables : NoColumn \notin Features[t]
Zeroes(d, t) == [r \in RowsOf(d, t) |-> 0]
Bit(condition) == IF condition THEN 1 ELSE 0

KeysOf(t) == {i \in DOMAIN Keys : Keys[i].child = t}
TimedEvents == {t \in Timed : Role[t] = "event"}
MaxOf(a, b) == IF a > b THEN a ELSE b
MinOf(a, b) == IF a < b THEN a ELSE b

-----------------------------------------------------------------------------
(* Candidates.                                                             *)

RelationAttributeCandidates(d) ==
  UNION {{ [target |-> Keys[i].child, column |-> c, source |-> Keys[i].parent,
            from |-> s, path |-> <<i>>,
            categorical |-> Cardinality(Values(d, Keys[i].child, c)) \in 3..MaxCategories,
            classes |-> MinOf(MaxOf(2, Cardinality(Values(d, Keys[i].child, c))), MaxCategories)] :
              c \in Features[Keys[i].child], s \in Usable(d, Keys[i].parent) } :
         i \in {i \in DOMAIN Keys : Role[Keys[i].child] \in {"event", "detail"}} }

RandomColumnCandidates(d) ==
  { [target |-> t, columns |-> Usable(d, t)] :
      t \in {t \in Tables : Cardinality(Usable(d, t)) >= 2} }

FutureEventCandidates(d) ==
  { [key |-> i, target |-> Keys[i].parent, source |-> Keys[i].child] :
      i \in {i \in DOMAIN Keys : Keys[i].child \in TimedEvents /\ Role[Keys[i].parent] = "entity"} }

FutureEventAttributeCandidates(d) ==
  UNION {{ [target |-> Keys[i].child, column |-> c, source |-> Keys[i].parent, from |-> s, key |-> i] :
             c \in Features[Keys[i].child], s \in Usable(d, Keys[i].parent) } :
         i \in {i \in DOMAIN Keys : Keys[i].child \in TimedEvents} }

(* The item is another parent of the event, or none (0).                   *)
InteractionCandidates(d) ==
  UNION {{ [target |-> Keys[i].child, source |-> Keys[i].parent, from |-> s, key |-> i, item |-> j] :
             s \in Usable(d, Keys[i].parent),
             j \in {0} \cup {j \in KeysOf(Keys[i].child) : j # i /\ Keys[j].parent # Keys[i].parent} } :
         i \in {i \in DOMAIN Keys : Keys[i].child \in TimedEvents /\ Role[Keys[i].parent] = "entity"} }

(* The code asks for a foreign key of the target as child, and calls it    *)
(* incoming: an entity without parents is no target.                       *)
TemporalAggregateCandidates(d) ==
  UNION { UNION {{ [target |-> t, source |-> Endpoint(t, p), path |-> p, operator |-> o, from |-> s] :
                     o \in {"sum", "max", "min"}, s \in Usable(d, Endpoint(t, p)) }
                 \cup {[target |-> t, source |-> Endpoint(t, p), path |-> p,
                        operator |-> "count", from |-> NoColumn]} :
            p \in {p \in Paths(t, 2) : /\ Endpoint(t, p) \in Timed
                                       /\ Role[t] = "event" => Role[Endpoint(t, p)] = "detail"} } :
          t \in {t \in Tables : Role[t] \in {"entity", "event"} /\ KeysOf(t) # {}} }

-----------------------------------------------------------------------------
(* Labels.                                                                 *)

(* The parent's value, or 0 without a parent, ties broken by row.          *)
PathSourceScores(d, target, path, source, column) ==
  LET reached == Reached(d, target, path)
      n == d.rows[target]
  IN [r \in RowsOf(d, target) |->
        n * FoldSet(LAMBDA v, acc : v + acc, 0, {d.value[source][column][x] : x \in reached[r]}) + r]

Above(scores, threshold) == [r \in DOMAIN scores |-> Bit(scores[r] > threshold)]

(* Labels by rank: `classes` groups of about the same size.                *)
CategoricalQuantiles(scores, classes) ==
  LET Rank(r) == Cardinality({x \in DOMAIN scores : \/ scores[x] < scores[r]
                                                    \/ scores[x] = scores[r] /\ x < r})
  IN [r \in DOMAIN scores |->
        MinOf(classes - 1, (Rank(r) * classes) \div MaxOf(1, Cardinality(DOMAIN scores)))]

(* The slip of a window that has the instant it starts at.                 *)
ActiveFrom(d, i, after, upto) ==
  {d.ref[i][e] : e \in {e \in RowsOf(d, Keys[i].child) :
                          d.time[Keys[i].child][e] >= after /\ d.time[Keys[i].child][e] <= upto}} \ {0}

(* Parents of the events of foreign key i with a time in the window.       *)
Active(d, i, after, upto) ==
  {d.ref[i][e] : e \in {e \in RowsOf(d, Keys[i].child) :
                          d.time[Keys[i].child][e] > after /\ d.time[Keys[i].child][e] <= upto}} \ {0}

FutureExistence(d, i, cutoff, horizon) ==
  [r \in RowsOf(d, Keys[i].parent) |-> Bit(r \in Active(d, i, cutoff, horizon))]

(* AnyEvent is the slip of a history that does not end at the cutoff.      *)
AnyEvent(d, i, cutoff) == ToSet(d.ref[i]) \ {0}

WithHistory(d, i, cutoff) == Active(d, i, -1, cutoff)

(* 1 for a parent with history that falls silent.                          *)
HistoryGated(d, i, cutoff, horizon) ==
  [r \in RowsOf(d, Keys[i].parent) |->
     Bit(r \in WithHistory(d, i, cutoff) /\ r \notin Active(d, i, cutoff, horizon))]

(* The two submodes leave out the parents without history.                 *)
HistoryGatedFuture(d, i, cutoff, horizon, positive) ==
  [r \in RowsOf(d, Keys[i].parent) |->
     IF r \notin WithHistory(d, i, cutoff) THEN -1
     ELSE Bit(positive = (r \in Active(d, i, cutoff, horizon)))]

(* Events whose parent under i had an earlier event: the rows that draw a  *)
(* label.  Every draw may go either way: the propensity is kept within     *)
(* (0, 1).                                                                 *)
InteractionGated(d, i) ==
  LET time == d.time[Keys[i].child]
  IN {e \in RowsOf(d, Keys[i].child) :
        d.ref[i][e] # 0 /\ \E b \in RowsOf(d, Keys[i].child) : d.ref[i][b] = d.ref[i][e] /\ time[b] < time[e]}

InteractionPasses(d, i) ==
  LET gated == InteractionGated(d, i)
  IN {[e \in RowsOf(d, Keys[i].child) |-> IF e \in gated THEN draw[e] ELSE -1] : draw \in [gated -> {0, 1}]}

(* An aggregate of the values of rows in a column; 0 over no rows.         *)
AggregateOf(column, operator, rows) ==
  LET values == {column[x] : x \in rows}
      total == FoldSet(LAMBDA x, acc : column[x] + acc, 0, rows)
  IN CASE operator = "count" -> Cardinality(rows)
       [] rows = {} -> 0
       [] operator = "sum" -> total
       [] operator = "max" -> Max(values)
       [] operator = "min" -> Min(values)
       [] operator = "count_distinct" -> Cardinality(values)

(* Sum over the windows of the aggregate of (cutoff, cutoff + window].     *)
SumOver(windows, aggregate) == FoldLeft(LAMBDA acc, w : acc + aggregate[w], 0, windows)

WindowedAggregates(d, candidate, cutoffs, windows) ==
  LET reached == Reached(d, candidate.target, candidate.path)
      time == d.time[candidate.source]
      InWindow(r, w) == {x \in RowsOf(d, candidate.source) :
                           x \in reached[r] /\ time[x] > cutoffs[r] /\ time[x] <= cutoffs[r] + w}
      Over(r, w) == AggregateOf(d.value[candidate.source][candidate.from], candidate.operator, InWindow(r, w))
  IN [r \in RowsOf(d, candidate.target) |->
        SumOver(windows, [w \in ToSet(windows) |-> Over(r, w)])]

===============================================================================

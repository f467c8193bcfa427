-------------------------- MODULE DatabaseGeneration ---------------------------
(***************************************************************************)
(* The rows of a database (generation/): foreign keys by relation group,   *)
(* then table by table times and features, then the temporal processes,    *)
(* which replace keys, times and features of their event tables.           *)
(*                                                                         *)
(* A database has rows (of each table), key (of each foreign key, a        *)
(* sequence of parent rows, 0 for none), time (of each timed table),       *)
(* missing (of each nullable feature, the rows without a value) and        *)
(* duplicate (the unique columns whose values are not).  Rows count from 1,*)
(* the calendar is 0..CalendarEnd.  Other values of features are left out. *)
(***************************************************************************)
EXTENDS PriorBinding

CONSTANT Ticks   \* bound of the model: the times and lags that are drawn

ASSUME TicksGiven == Ticks \subseteq 0..CalendarEnd

Empty(s, p) == [rows |-> << >>, key |-> << >>, time |-> << >>, missing |-> << >>, duplicate |-> {}]

-----------------------------------------------------------------------------
(* The parent a row draws.  The families differ in what its scores, tables *)
(* or transitions make likely; none makes a parent impossible.             *)
DrawnParents(s, p, i) == 1..p.rows[ParentOf(s, i)]

(* generate_single_relation: a drawn parent for each row, and with a       *)
(* positive rate none for some.  No family realizes stored counts here.    *)
Assignments(s, p, i) ==
  [1..p.rows[ChildOf(s, i)] -> (IF p.rate[i] > 0 THEN {0} ELSE {}) \cup DrawnParents(s, p, i)]

Tuple(g, f, row) == [i \in g |-> f[i][row]]
Combinations(s, rows, g) == LET keys == InOrder(g) IN Product([k \in DOMAIN keys |-> rows[ParentOf(s, keys[k])]])

(* Slip: a tuple that is taken already stays.                              *)
AnyTuples(s, p, g, f) == TRUE

(* generate_affinity_bridge: rows repeat a tuple only when all combinations*)
(* are taken.  The keys of a bridge are required.                          *)
BridgeTuples(s, p, g, f) ==
  \A row \in 1..p.rows[ChildOfGroup(s, g)] :
    (\E before \in 1..(row - 1) : Tuple(g, f, before) = Tuple(g, f, row))
      => Cardinality({Tuple(g, f, before) : before \in 1..(row - 1)}) = Combinations(s, p.rows, g)

(* generate_relations: the keys of one child at a time, those of a group   *)
(* together.                                                               *)
ChildAssignments(s, p, t) ==
  {f \in EachOf([i \in Incoming(s, t) |-> Assignments(s, p, i)]) :
     \A g \in p.groups : ChildOfGroup(s, g) = t /\ Cardinality(g) > 1 => BridgeTuples(s, p, g, f)}

-----------------------------------------------------------------------------
(* _max_time_lagged_depth: timed tables on the longest path down from t.   *)
(* No path is longer than there are tables, since ranks ascend.            *)
TimedPaths(s, t) ==
  {path \in UNION {[1..n -> TablesOf(s)] : n \in 1..Cardinality(TablesOf(s))} :
     /\ path[1] = t
     /\ \A k \in 1..(Len(path) - 1) :
          /\ Timed(s, path[k + 1])
          /\ \E i \in KeysOf(s) : ParentOf(s, i) = path[k] /\ ChildOf(s, i) = path[k + 1]}

LaggedDepth(s, t) == Maximum({Len(path) : path \in TimedPaths(s, t)})

(* Slip: no headroom for the children.                                     *)
WholeCalendar(s, t) == CalendarEnd

EffectiveEnd(s, t) ==
  IF CalendarEnd - LaggedDepth(s, t) < 2 THEN 2 ELSE CalendarEnd - LaggedDepth(s, t)

(* The first key to a parent with times that is generated already.         *)
LagKeys(s, d, t) == {i \in Incoming(s, t) : ParentOf(s, i) \in DOMAIN d.time}
Lagged(s, p, d, t) == p.temporal[t] = "time_lagged" /\ LagKeys(s, d, t) # {}

LagKey(s, d, t) == CHOOSE i \in LagKeys(s, d, t) : \A j \in LagKeys(s, d, t) : i <= j

(* _mechanism_ticks, with its bursts and seasons: each mechanism spreads   *)
(* the rows of a parent between a base and the effective end.  They ascend *)
(* unless it is churn, which may be drawn too: any order is possible.      *)
DrawnTimes(s, t) == {AtMost(x, EffectiveEnd(s, t)) : x \in Ticks}

(* _generate_time: a row of a lagged table comes after its parent's, one   *)
(* without a parent at the start, and no row after the effective end.      *)
RowTimes(s, p, d, t, row) ==
  LET parent == d.key[LagKey(s, d, t)][row]
      after == d.time[ParentOf(s, LagKey(s, d, t))][parent]
  IN CASE ~Lagged(s, p, d, t) -> DrawnTimes(s, t)
       [] Lagged(s, p, d, t) /\ parent = 0 -> {0}
       [] OTHER -> {AtMost(after + lag, EffectiveEnd(s, t)) : lag \in (Ticks \ {0}) \cup {1}}

TimeChoices(s, p, d, t) == EachOf([row \in 1..p.rows[t] |-> RowTimes(s, p, d, t, row)])

Nullable(s, t) == {c \in Features(s, t) : ColumnOf(s, c).nullable}

(* apply_missing: never all rows.                                          *)
MissingMasks(n) == (SUBSET (1..n)) \ {1..n}

FeatureChoices(s, p, t) == [Nullable(s, t) -> MissingMasks(p.rows[t])]

(* One table of _generate_once, with its keys: those depend on the plan    *)
(* alone, so that it does not matter that the code draws all of them first.*)
(* Unique codes are a permutation.                                         *)
AddKeys(d, keys) == [d EXCEPT !.key = Joined(@, keys)]

WithKeys(s, p, d, t) == {AddKeys(d, keys) : keys \in ChildAssignments(s, p, t)}

AddTable(p, d, t, times, missing) ==
  [d EXCEPT !.rows = [u \in DOMAIN @ \cup {t} |-> IF u = t THEN p.rows[t] ELSE @[u]],
            !.time = Joined(@, times), !.missing = Joined(@, missing)]

TimesOf(s, p, d, t) == IF Timed(s, t) THEN {Single(t, f) : f \in TimeChoices(s, p, d, t)} ELSE {<< >>}

WithTable(s, p, d, t) ==
  UNION {{AddTable(p, e, t, times, missing) : times \in TimesOf(s, p, e, t), missing \in FeatureChoices(s, p, t)} :
         e \in WithKeys(s, p, d, t)}

-----------------------------------------------------------------------------
(* np.repeat: the owner of each event row.                                 *)
Repeat(counts) ==
  LET sums == Running(counts)
  IN [row \in 1..Total(counts) |-> CHOOSE e \in 1..Len(counts) : sums[e - 1] < row /\ row <= sums[e]]

(* The counts an event table is overlaid with.  The stored ones; but a     *)
(* trajectory draws its schedule again, and the draw is only the same when *)
(* what it is drawn from is.                                               *)
ScheduleCounts(s, p, m) ==
  IF m.parent \in p.trajectories /\ p.counts[m.table].digest # Digest(s, p.rows, m.parent)
  THEN CountDraws(p.rows[m.parent]) ELSE {p.counts[m.table].of}

(* apply_temporal_event_processes for one event table, with a schedule that*)
(* has as many events as the table has rows.                               *)
AddEvents(s, d, m, counts, times, missing) ==
  [d EXCEPT !.key[m.key] = Repeat(counts), !.time[m.table] = times,
            !.missing = [c \in DOMAIN @ |-> IF c \in Nullable(s, m.table) THEN missing[c] ELSE @[c]]]

Overlaid(s, p, d, m, counts) ==
  {AddEvents(s, d, m, counts, times, missing) :
   times \in [1..d.rows[m.table] -> Ticks], missing \in FeatureChoices(s, p, m.table)}
=============================================================================

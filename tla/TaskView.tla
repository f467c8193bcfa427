------------------------------- MODULE TaskView -------------------------------
(***************************************************************************)
(* build_task_view: the rows of a database that a task may show.  Each     *)
(* observation rule hides the rows of a timed table that are after the     *)
(* cutoff; then passes over the foreign keys, in the order of the schema,  *)
(* hide every row whose parent is hidden, until a pass changes nothing.    *)
(* The planner, the validator and the converter each build the view anew.  *)
(*                                                                         *)
(* The rows of a table are numbered from 1 and a foreign key that is not   *)
(* assigned refers to row 0 (rows from 0 and -1 in the code).              *)
(***************************************************************************)
EXTENDS Integers, Sequences

CONSTANTS
  Tables,
  Keys,          \* schema.foreign_keys: sequence of [child, parent], ordered by ID
  Timed,         \* the EVENT and DETAIL tables with a time column
  Databases,     \* bound: the databases to consider
  Cutoffs        \* bound: the cutoffs to consider

RowsOf(d, t) == 1..d.rows[t]

ASSUME SchemaAndDatabases ==
  /\ Keys \in Seq([child : Tables, parent : Tables])
  /\ Timed \subseteq Tables /\ Cutoffs \subseteq Int
  /\ \A d \in Databases :
       /\ d.rows \in [Tables -> Nat]
       /\ \A t \in Timed : d.time[t] \in [RowsOf(d, t) -> Int]
       /\ \A i \in DOMAIN Keys :
            d.ref[i] \in [RowsOf(d, Keys[i].child) -> 0..d.rows[Keys[i].parent]]

VARIABLES
  db,
  cutoffs,       \* the cutoff of the plan's observation rules; {} without rules
  masks,         \* table -> the rows not hidden so far
  at,            \* the foreign key whose turn it is
  changed

vars == <<db, cutoffs, masks, at, changed>>

Rows(t) == RowsOf(db, t)

(* The rows of t that the observation rules leave.                         *)
Observed(t) ==
  {r \in Rows(t) : t \in Timed => \A c \in cutoffs : db.time[t][r] >= 0 /\ db.time[t][r] <= c}

(* The rows among those of `shown` whose parent under foreign key i is     *)
(* shown or not assigned.                                                  *)
WithParent(i, shown) ==
  {r \in shown[Keys[i].child] : db.ref[i][r] = 0 \/ db.ref[i][r] \in shown[Keys[i].parent]}

Init ==
  /\ db \in Databases
  /\ cutoffs \in {{}} \cup {{c} : c \in Cutoffs}
  /\ masks = [t \in Tables |-> Observed(t)]
  /\ at = 1
  /\ changed = FALSE

(* One foreign key of a pass: hides the rows `kept` leaves out, and notes  *)
(* whether that is a change.                                               *)
HideRest(kept, change) ==
  /\ at <= Len(Keys)
  /\ masks' = [masks EXCEPT ![Keys[at].child] = kept]
  /\ changed' = change
  /\ at' = at + 1
  /\ UNCHANGED <<db, cutoffs>>

Kept == WithParent(at, masks)
Hides == Kept # masks[Keys[at].child]

(* Slips that the checks must notice: a mask computed afresh from all rows *)
(* of the child; a foreign key that is not assigned taken for one whose    *)
(* parent is hidden; `changed` overwritten by each foreign key; `changed`  *)
(* set while any row of the child lacks its parent, hidden rows included.  *)
ApplyForeignKeyAfresh ==
  LET kept == WithParent(at, [masks EXCEPT ![Keys[at].child] = Rows(Keys[at].child)])
  IN HideRest(kept, changed \/ kept # masks[Keys[at].child])

ApplyForeignKeyHidingUnassigned ==
  HideRest({r \in Kept : db.ref[at][r] # 0}, changed \/ \E r \in Kept : db.ref[at][r] = 0)

ApplyForeignKeyForgetful == HideRest(Kept, Hides)

ApplyForeignKeyRestless ==
  HideRest(Kept, changed \/ \E r \in Rows(Keys[at].child) :
                              db.ref[at][r] \notin {0} \cup masks[Keys[at].parent])

ApplyForeignKey == HideRest(Kept, changed \/ Hides)

NextPass ==
  /\ at > Len(Keys) /\ changed
  /\ at' = 1 /\ changed' = FALSE
  /\ UNCHANGED <<db, cutoffs, masks>>

Next == ApplyForeignKey \/ NextPass

Spec == Init /\ [][Next]_vars /\ WF_vars(Next)

ViewDone == at > Len(Keys) /\ ~changed

-----------------------------------------------------------------------------
(* Masks keep to the rows of their tables.                                 *)
TypeOK ==
  /\ db \in Databases
  /\ cutoffs \in SUBSET Cutoffs
  /\ masks \in [Tables -> SUBSET Nat] /\ \A t \in Tables : masks[t] \subseteq Observed(t)
  /\ at \in 1..(Len(Keys) + 1)
  /\ changed \in BOOLEAN

(* No foreign key of a shown row refers to a hidden row.                   *)
Closed(shown) == \A i \in DOMAIN Keys : WithParent(i, shown) = shown[Keys[i].child]

(* The view that is returned is closed under foreign keys: the exported    *)
(* tables have no foreign key without its parent row, and no row that      *)
(* depends on a row after the cutoff, over any chain of foreign keys and   *)
(* in whatever order the foreign keys are listed.                          *)
ViewClosed == ViewDone => Closed(masks)

(* All choices of observed rows that are closed.                           *)
ClosedViews ==
  {shown \in [Tables -> SUBSET UNION {Rows(t) : t \in Tables}] :
     (\A t \in Tables : shown[t] \subseteq Observed(t)) /\ Closed(shown)}

(* Nothing is hidden without need: a choice of observed rows that is       *)
(* closed is shown as a whole, however many passes ran.  With ViewClosed,  *)
(* the view is the largest closed one, and so the same for the planner,    *)
(* the validator and the converter.                                        *)
NothingHiddenInVain ==
  ViewDone => \A shown \in ClosedViews : \A t \in Tables : shown[t] \subseteq masks[t]

(* The while loop ends.                                                    *)
ViewEnds == <>ViewDone

===============================================================================

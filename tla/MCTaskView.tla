------------------------------ MODULE MCTaskView ------------------------------
(***************************************************************************)
(* A schema of four tables whose foreign keys are listed children first,   *)
(* so that a row that is hidden takes a pass to hide each generation below *)
(* it, and all databases of it with two rows in each table of events and   *)
(* details.                                                                *)
(***************************************************************************)
EXTENDS TaskView

MCKeys ==
  << [child |-> "note", parent |-> "item"],
     [child |-> "item", parent |-> "order"],
     [child |-> "note", parent |-> "customer"],
     [child |-> "order", parent |-> "customer"] >>

MCDatabases ==
  { [rows |-> [customer |-> 1, order |-> 2, item |-> 2, note |-> 2],
     time |-> [order |-> orderTimes, item |-> <<0, 1>>],
     ref  |-> <<items, orders, <<0, 1>>, <<1, 1>>>>] :
      orderTimes \in [1..2 -> 0..2],
      items \in [1..2 -> 0..2], orders \in [1..2 -> 0..2] }
===============================================================================

----------------------------- MODULE MCTaskChain -----------------------------
(***************************************************************************)
(* A small shop: customers (in a region) order products, as campaigns for  *)
(* these suggest; an order is paid and has items.  Each request asks for   *)
(* the tasks of one kind on shops where they exist, or for programs.       *)
(***************************************************************************)
EXTENDS TaskChain

MCTables == {"region", "customer", "product", "order", "payment", "item", "campaign"}
MCRole == [region |-> "lookup", customer |-> "entity", product |-> "entity", campaign |-> "event",
           order |-> "event", payment |-> "detail", item |-> "detail"]
MCKeys == << [child |-> "customer", parent |-> "region"],
             [child |-> "order", parent |-> "customer"],
             [child |-> "order", parent |-> "product"],
             [child |-> "payment", parent |-> "order"],
             [child |-> "item", parent |-> "order"],
             [child |-> "order", parent |-> "campaign"],
             [child |-> "campaign", parent |-> "product"] >>
MCTimed == {"order", "payment", "campaign"}
MCFeatures == [region |-> {}, customer |-> {"age"}, product |-> {}, campaign |-> {},
               order |-> {"amount", "channel", "note"}, payment |-> {}, item |-> {"size"}]
MCPosition == [region |-> << >>, customer |-> [age |-> 1], product |-> << >>, campaign |-> << >>,
               order |-> [amount |-> 1, channel |-> 2, note |-> 3], payment |-> << >>, item |-> [size |-> 1]]
MCNullable == [MCFeatures EXCEPT !.customer = {}, !.order = {"amount"}]

(* An order is <<customer, product, time, amount, channel>>, a payment     *)
(* <<order, time>>, and an item is of the order with its number.  The note *)
(* of an order is always the same; there is a campaign before all orders.  *)
Column(rows, k) == [r \in DOMAIN rows |-> rows[r][k]]
Shop(ages, orders, payments, sizes) ==
  [rows |-> [region |-> 1, customer |-> Len(ages), product |-> 2, order |-> Len(orders),
             payment |-> Len(payments), item |-> Len(sizes), campaign |-> 1],
   time |-> [order |-> Column(orders, 3), payment |-> Column(payments, 2), campaign |-> <<0>>],
   ref |-> << [c \in DOMAIN ages |-> 1], Column(orders, 1), Column(orders, 2),
              Column(payments, 1), [x \in DOMAIN sizes |-> x], [r \in DOMAIN orders |-> 1], <<1>> >>,
   value |-> [region |-> << >>, customer |-> [age |-> ages], product |-> << >>,
              order |-> [amount |-> Column(orders, 4), channel |-> Column(orders, 5),
                         note |-> [r \in DOMAIN orders |-> 0]],
              payment |-> << >>, item |-> [size |-> sizes], campaign |-> << >>]]

(* Six customers with history; three of them buy again after time 5.       *)
Returning == Shop(<<1, 2, 0, 1, 2, 0>>,
  << <<1, 1, 1, 0, 0>>, <<2, 2, 1, 1, 0>>, <<3, 1, 2, 2, 0>>, <<4, 2, 3, 0, 0>>, <<5, 1, 3, 1, 0>>,
     <<6, 2, 4, 2, 0>>, <<1, 1, 6, 0, 0>>, <<2, 2, 7, 1, 0>>, <<3, 1, 8, 2, 0>> >>,
  << <<1, 2>>, <<7, 7>> >>, <<0, 0, 0, 0, 0, 0, 0, 0, 0>>)

(* The same without amounts: the draws can only count.                     *)
Steady == [Returning EXCEPT !.value.order.amount = [r \in DOMAIN @ |-> 0]]

(* One customer without orders, one order without a customer.              *)
Sparse == Shop(<<1, 2, 0, 1, 2, 0, 1>>,
  << <<1, 1, 1, 0, 0>>, <<2, 2, 1, 1, 0>>, <<3, 1, 2, 2, 0>>, <<4, 2, 3, 0, 0>>, <<0, 1, 3, 1, 0>>,
     <<5, 2, 4, 2, 0>>, <<1, 1, 7, 2, 0>>, <<2, 2, 8, 2, 0>>, <<6, 1, 9, 0, 0>> >>,
  << <<1, 2>>, <<7, 8>> >>, << >>)

(* One customer with all orders: an interaction row is every later order.  *)
Loyal == Shop(<<1, 2>>,
  << <<1, 1, 0, 0, 0>>, <<1, 2, 1, 1, 0>>, <<1, 1, 2, 0, 0>>, <<1, 2, 3, 1, 0>>,
     <<1, 1, 4, 0, 0>>, <<1, 2, 5, 1, 0>>, <<1, 1, 6, 0, 0>>, <<2, 1, 9, 1, 0>> >>,
  << <<1, 2>> >>, << >>)

(* Orders of two amounts, with items of three sizes, each paid later.      *)
Paid == Shop(<<1, 2, 0>>,
  << <<1, 1, 0, 0, 0>>, <<2, 2, 1, 0, 1>>, <<3, 1, 2, 1, 2>>, <<1, 2, 3, 1, 0>>,
     <<2, 1, 4, 1, 1>>, <<3, 2, 5, 0, 2>>, <<1, 1, 6, 0, 0>>, <<2, 2, 7, 1, 1>> >>,
  << <<1, 1>>, <<1, 2>>, <<3, 4>>, <<5, 5>>, <<5, 9>>, <<6, 9>> >>, <<0, 1, 2, 0, 1, 2, 0>>)

(* Seven orders and as many items: amounts, channels and sizes of three    *)
(* classes, the last orders at the same time.                              *)
Mixed == Shop(<<1, 2, 0>>,
  << <<1, 1, 0, 0, 0>>, <<2, 2, 1, 1, 1>>, <<3, 1, 2, 2, 2>>, <<1, 2, 3, 0, 0>>,
     <<2, 1, 4, 1, 1>>, <<1, 2, 5, 2, 2>>, <<2, 1, 6, 0, 0>>, <<3, 2, 6, 1, 0>> >>,
  << <<1, 1>>, <<5, 5>> >>, <<0, 1, 2, 0, 1, 2, 0>>)

(* Late orders: a horizon after them may be outside of the calendar.       *)
Late == Shop(<<1, 2, 0, 1, 2, 0>>,
  << <<1, 1, 0, 0, 0>>, <<6, 2, 4, 1, 0>>, <<2, 1, 5, 2, 0>>, <<3, 2, 6, 0, 0>>, <<4, 1, 6, 1, 0>>,
     <<5, 2, 7, 2, 0>>, <<5, 1, 7, 0, 0>>, <<1, 2, 8, 1, 0>>, <<2, 1, 8, 2, 0>> >>,
  << <<1, 2>>, <<7, 8>> >>, << >>)

(* Some orders belong to a campaign that starts after them, as the event   *)
(* priors may draw: all that customer 1 ordered, a part for customer 2.    *)
Backdated == [Returning EXCEPT !.rows.campaign = 2, !.time.campaign = <<0, 8>>,
                               !.ref[6] = <<2, 2, 1, 1, 1, 0, 2, 1, 1>>, !.ref[7] = <<1, 2>>]

MCSupportFraction == <<7, 10>>
MCCutoffQuantiles == <<40, 60>>
MCHorizonPercent == <<20, 50>>
MCShortPercent == <<20, 20>>
MCLongPercent == <<50, 50>>
MCBundles == <<2>>
AllFamilies ==
  {"future_event_existence", "history_gated_future_active", "history_gated_future_inactive",
   "future_event_attribute", "temporal_aggregate", "interaction_response", "multi_hop_program"}
MCProgramCutoffPercent == <<50, 50>>
MCProgramHorizonPercent == <<30, 30>>
MCPositiveRate == <<5, 95>>
MCValidationFraction == <<1, 5>>

(* The calendar of a shop without programs ends with its last event.       *)
LastTime(shops) == Max(UNION {Times(d, t) : d \in shops, t \in MCTimed})
Tasks(shops, mechanisms, families, count) ==
  [databases |-> shops, calendar |-> <<0, LastTime(shops)>>, overlay |-> "legacy", programs |-> 0,
   mechanisms |-> mechanisms, families |-> families, tasks |-> count]
Programs(shops, families, count) ==
  [databases |-> shops, calendar |-> <<0, 10>>, overlay |-> "legacy", programs |-> count,
   mechanisms |-> {}, families |-> families, tasks |-> 0]
With(overlay, asked) == [asked EXCEPT !.overlay = overlay]

MCRequests ==
  { Tasks({Returning, Sparse}, {"entity_future_event_existence"}, {}, 1),
    Tasks({Late}, {"entity_future_event_existence"}, {}, 1),
    Tasks({Returning, Sparse}, {"history_gated_future_activity"}, {}, 1),
    Tasks({Returning, Sparse, Backdated}, {"history_gated_future_active", "history_gated_future_inactive"}, {}, 1),
    Tasks({Paid, Mixed}, {"relation_attribute"}, {}, 2),
    With("proxy", Tasks({Paid}, {"relation_attribute", "future_event_attribute_condition"}, {}, 1)),
    With("mar", Tasks({Mixed}, {"relation_attribute", "random_column"}, {}, 2)),
    Tasks({Paid, Mixed}, {"random_column"}, {}, 1),
    Tasks({Paid}, {"future_event_attribute_condition"}, {}, 1),
    Tasks({Paid}, {"temporal_relational_aggregate"}, {}, 1),
    Tasks({Loyal}, {"interaction_response"}, {}, 1),
    Tasks({Returning}, {"relational_classification"},
          {"filtered_aggregate", "count_distinct", "quantified_event", "multi_hop_filtered",
           "history_conditioned_future"}, 1),
    Tasks({Steady}, {"relational_classification"}, {"multi_source"}, 1),
    Programs({Returning, Sparse}, AllFamilies, 1),
    With("spurious", Programs({Backdated}, AllFamilies, 1)),
    Programs({Sparse}, {"future_event_existence", "history_gated_future_active"}, 2) }

===============================================================================

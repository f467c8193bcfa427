--------------------------- MODULE MCMaterialization ---------------------------
(***************************************************************************)
(* Small schemas, and the priors and overlays that matter on each.         *)
(***************************************************************************)
EXTENDS Materialization

MCEntityRows == <<1, 2>>
MCLookupRows == <<1, 1>>
MCEventFanout == <<1, 2>>
MCDetailFanout == <<2, 2>>
MCBridgeFactor == <<2, 3>>
MCChildFactor == <<2, 2>>

Occurrence(tables, entity, event) == [tables |-> tables, entity |-> entity, event |-> event, compatible |-> TRUE]
Blueprint(roles, edges, occurrences) ==
  [roles |-> roles, ranks |-> [t \in DOMAIN roles |-> t - 1], edges |-> edges, occurrences |-> occurrences]

Orders == Blueprint(<<"entity", "event">>, << <<1, 2>> >>, << Occurrence({1, 2}, 1, 2) >>)
Replies == Blueprint(<<"entity", "event", "event">>, << <<1, 2>>, <<2, 3>> >>,
                     << Occurrence({1, 2}, 1, 2), Occurrence({2, 3}, 0, 0) >>)
(* The later event also has the entity as a parent.                        *)
Returns == Blueprint(<<"entity", "event", "event">>, << <<1, 2>>, <<2, 3>>, <<1, 3>> >>,
                     << Occurrence({1, 2}, 1, 2), Occurrence({1, 2, 3}, 1, 3) >>)
Friends == Blueprint(<<"entity", "entity", "bridge">>, << <<1, 3>>, <<2, 3>> >>, << Occurrence({1, 2, 3}, 0, 0) >>)
Guests == Blueprint(<<"entity", "event", "bridge">>, << <<1, 2>>, <<1, 3>>, <<2, 3>> >>,
                    << Occurrence({1, 2}, 1, 2), Occurrence({1, 2, 3}, 0, 0) >>)
Items == Blueprint(<<"entity", "event", "detail">>, << <<1, 2>>, <<2, 3>> >>,
                   << Occurrence({1, 2}, 1, 2), Occurrence({2, 3}, 0, 0) >>)
Catalog == Blueprint(<<"lookup", "entity", "event">>, << <<1, 2>>, <<2, 3>> >>,
                     << Occurrence({1, 2}, 0, 0), Occurrence({2, 3}, 2, 3) >>)
Twins == Blueprint(<<"entity", "event", "event">>, << <<1, 2>>, <<1, 3>> >>,
                   << Occurrence({1, 2}, 1, 2), Occurrence({1, 3}, 1, 3) >>)

Columns(features, byRole, nullable) == [features |-> features, byRole |-> byRole, byCount |-> {}, nullable |-> nullable]
Bare == Columns(<<0, 0>>, {}, {FALSE})
Gaps == Columns(<<0, 1>>, {[role |-> "entity", columns |-> <<0, 0>>]}, {TRUE})
Plain == Columns(<<0, 0>>, {[role |-> role, columns |-> <<1, 1>>] : role \in {"entity", "event"}}, {FALSE})
Rich == [Columns(<<0, 0>>, {[role |-> "lookup", columns |-> <<0, 0>>]}, {FALSE})
           EXCEPT !.byCount = {[tables |-> <<1, 4>>, columns |-> <<1, 2>>]}]

Overlay(kind, relations) == [kind |-> kind, enabled |-> kind # "legacy", relations |-> relations, of |-> kind]
None == Overlay("legacy", 0)
Prior(families, compositions) ==
  [families |-> families, compositions |-> compositions, stateful |-> FALSE, rules |-> TRUE, intensity |-> TRUE,
   programs |-> FALSE, nuisance |-> None]
Family(f) == Prior({f}, {})
Stateful(p) == [p EXCEPT !.stateful = TRUE, !.programs = TRUE]
With(p, overlay) == [p EXCEPT !.nuisance = overlay]

Composed ==
  {Prior({"legacy_role_scm"}, {Composition(attribute, relation, temporal, process)}) :
     attribute \in {"legacy_scm", "column_scm", "tree"}, relation \in {"latent_affinity", "scm", "tree"},
     temporal \in {"static", "changing"}, process \in {"none", "rule"}}

Request(b, c, p) == [blueprint |-> b, columns |-> c, prior |-> p]

MCRequests ==
  {Request(Orders, Gaps, Prior({}, {})), Request(Orders, Gaps, With(Family("legacy_role_scm"), Overlay("mar", 0))),
   Request(Orders, Gaps, With(Stateful(Family("temporal_event")), Overlay("mnar", 0))),
   Request(Replies, Bare, Family("legacy_role_scm")), Request(Replies, Bare, Family("relational_scm")),
   Request(Returns, Bare, Stateful(Family("temporal_event"))),
   Request(Friends, Bare, With(Family("relational_tree"), Overlay("distractor", 1))),
   Request(Friends, Rich, Family("relational_scm")),
   Request(Guests, Bare, Family("temporal_event")),
   Request(Items, Bare, Family("rule_process")),
   Request(Items, Bare, [Family("rule_process") EXCEPT !.rules = FALSE]),
   Request(Catalog, Plain, Family("relational_scm")),
   Request(Catalog, Bare, With(Family("legacy_role_scm"), Overlay("proxy", 0))),
   Request(Friends, Bare, Prior({"temporal_event"}, {})),
   Request(Twins, Bare, Stateful(Family("rule_process")))}
    \cup {Request(Orders, Bare, p) : p \in Composed}
(* A prior that replaces the times of an event table with children.        *)
LagRequests == {Request(Replies, Bare, Family("temporal_event"))}
=============================================================================

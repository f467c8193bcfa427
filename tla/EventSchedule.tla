----------------------------- MODULE EventSchedule -----------------------------
(***************************************************************************)
(* _stateful_event_schedule_group for one entity: every event channel of   *)
(* the entity and, unless the clock is event_driven, one transition        *)
(* deadline wait in a shared priority queue; events and transitions        *)
(* advance the one trajectory of the entity.  Entities do not interact:    *)
(* each has its own queue, generators, ordinals and step count.            *)
(*                                                                         *)
(* Time is counted in half seconds, so that several entries fall into one  *)
(* calendar second and ties of round() occur.  Rates, weights and rule     *)
(* overrides only choose among waits and states: any of them can be drawn. *)
(***************************************************************************)
EXTENDS StateTrajectory

CONSTANTS
  NumChannels,   \* the entity's event tables, in the order of their IDs
  Clocks,        \* the values of TransitionClock to consider
  Waits,         \* bound: the waits and durations that may be drawn
  Limit          \* the transition limit, 8192 in the code

Channels == 1..NumChannels

ASSUME ScheduleConfigured ==
  /\ NumChannels \in Nat \ {0} /\ Limit \in Nat \ {0}
  /\ Clocks \subseteq {"event_driven", "duration_driven", "hybrid"}
  /\ Waits \subseteq Nat

VARIABLES
  clock,         \* transition.clock of the plan
  changes,       \* the entity's trajectory
  queue,         \* the heap
  nextOrdinal,   \* second -> next_ordinal of that second
  last,          \* last_transition
  version,       \* transition_version
  rows,          \* channel -> the events recorded for it
  steps,
  status         \* "running", "done", or "limit" when ValueError was raised

vars == <<clock, changes, queue, nextOrdinal, last, version, rows, steps, status>>

(* Heap entries.  kind orders an event before a transition that is due at  *)
(* the same time; seq counts a channel's events or is a deadline's version. *)
EventAt(t, c, seq) == [at |-> t, kind |-> 0, channel |-> c, seq |-> seq]
DeadlineAt(t, v) == [at |-> t, kind |-> 1, channel |-> 0, seq |-> v]

Earlier(x, y) ==
  \/ x.at < y.at
  \/ x.at = y.at /\ x.kind < y.kind
  \/ x.at = y.at /\ x.kind = y.kind /\ x.channel < y.channel
  \/ x.at = y.at /\ x.kind = y.kind /\ x.channel = y.channel /\ x.seq < y.seq

Popped(x) == x \in queue /\ \A y \in queue \ {x} : Earlier(x, y)

NoTransition == <<Start - 1, 0>>

Init ==
  /\ clock \in Clocks
  /\ \E s \in States : changes = Beginning(s)
  /\ \E first \in [Channels -> Waits] : \E d \in Waits :
       queue = {EventAt(2 * Start + first[c], c, 0) : c \in Channels}
         \cup (IF clock = "event_driven" THEN {} ELSE {DeadlineAt(2 * Start + d, 0)})
  /\ nextOrdinal = [t \in Seconds |-> 0]
  /\ last = NoTransition /\ version = 0 /\ steps = 0
  /\ rows = [c \in Channels |-> <<>>]
  /\ status = "running"

(* int(round(value)) of a number of half seconds: ties go to even.         *)
Rounded(t) == LET f == t \div 2 IN IF t % 2 = 0 \/ f % 2 = 0 THEN f ELSE f + 1

CalendarTime(t) ==
  IF Rounded(t) < Start THEN Start ELSE IF Rounded(t) > End THEN End ELSE Rounded(t)

Larger(a, b) == IF a > b THEN a ELSE b

DurationOrdinalFirst(t) == -1

DurationOrdinalIgnoringEvents(t) ==
  IF last[1] = t THEN last[2] + 1 ELSE -1

(* _duration_transition_ordinal: after the events and transitions of the   *)
(* second so far, before the events that are still to come in it.          *)
DurationOrdinal(t) ==
  IF last[1] = t THEN Larger(nextOrdinal[t], last[2] + 1)
  ELSE IF nextOrdinal[t] > 0 THEN nextOrdinal[t] ELSE -1

ActiveDespiteTerminal == status = "running" /\ queue # {}
(* The loop's condition.                                                   *)
Active == status = "running" /\ queue # {} /\ ~IsTerminal(changes)
InCalendar(x) == x.at <= 2 * End
Stale(x) == x.kind = 1 /\ x.seq # version
Due(x) == Active /\ Popped(x) /\ ~Stale(x) /\ InCalendar(x)
EventPointOfDeadline(x) == <<CalendarTime(x.at), DurationOrdinal(CalendarTime(x.at))>>
EventPoint(x) == <<CalendarTime(x.at), nextOrdinal[CalendarTime(x.at)]>>
DeadlinePoint(x) == <<CalendarTime(x.at), DurationOrdinal(CalendarTime(x.at))>>
-----------------------------------------------------------------------------
(* Steps.  Operators whose name ends in a fault (...KeepingDeadline,       *)
(* ...Unlimited and the like), here and above, are deliberately wrong      *)
(* variants of the operator that follows; nothing in the specification     *)
(* uses them.                                                              *)

(* A deadline that was replaced since it was drawn.                        *)
SkipStale ==
  /\ Active
  /\ \E x \in queue : Popped(x) /\ Stale(x) /\ queue' = queue \ {x}
  /\ UNCHANGED <<clock, changes, nextOrdinal, last, version, rows, steps, status>>

(* The deadline expires: the state moves and a new deadline is drawn.      *)
Transition(x) ==
  LET p == DeadlinePoint(x) IN
  /\ Due(x) /\ x.kind = 1 /\ MayTransition(changes, p)
  /\ \E s \in States : changes' = Moved(changes, p, s)
  /\ nextOrdinal' = [nextOrdinal EXCEPT ![p[1]] = Larger(@, p[2] + 1)]
  /\ last' = p
  /\ version' = version + 1
  /\ IF IsTerminal(changes') THEN queue' = queue \ {x}
     ELSE \E w \in Waits : queue' = (queue \ {x}) \cup {DeadlineAt(x.at + w, version')}
  /\ steps' = steps + 1
  /\ UNCHANGED <<clock, rows, status>>

MoveAtEventKeepingDeadline(p) ==
  IF clock = "duration_driven" THEN UNCHANGED <<changes, last, version>>
  ELSE /\ MayTransition(changes, p)
       /\ \E s \in States : changes' = Moved(changes, p, s)
       /\ last' = p
       /\ UNCHANGED version

(* An event moves the state too unless the clock is duration_driven; under *)
(* the hybrid clock it replaces the pending deadline.                      *)
MoveAtEvent(p) ==
  IF clock = "duration_driven" THEN UNCHANGED <<changes, last, version>>
  ELSE /\ MayTransition(changes, p)
       /\ \E s \in States : changes' = Moved(changes, p, s)
       /\ last' = p
       /\ version' = IF clock = "hybrid" THEN version + 1 ELSE version

Redrawn(t) ==
  IF clock = "hybrid" THEN {{DeadlineAt(t + w, version')} : w \in Waits} ELSE {{}}

RecordAfterMove(x) ==
  rows' = [rows EXCEPT ![x.channel] =
             Append(@, [at |-> EventPoint(x), state |-> LastChange(changes').state])]

(* The row records the state before the event's own transition.            *)
Record(x) ==
  rows' = [rows EXCEPT ![x.channel] =
             Append(@, [at |-> EventPoint(x), state |-> StateBefore(changes, EventPoint(x))])]

EventSharingOrdinal(x) ==
  LET p == EventPoint(x) IN
  /\ Due(x) /\ x.kind = 0
  /\ MoveAtEvent(p)
  /\ Record(x)
  /\ steps' = steps + 1
  /\ \E deadline \in Redrawn(x.at) :
       IF steps' >= Limit \/ IsTerminal(changes')
       THEN /\ status' = IF steps' >= Limit THEN "limit" ELSE status
            /\ queue' = (queue \ {x}) \cup deadline
       ELSE /\ status' = status
            /\ \E w \in Waits :
                 queue' = (queue \ {x}) \cup deadline
                            \cup {EventAt(x.at + w, x.channel, Len(rows'[x.channel]))}
  /\ UNCHANGED <<clock, nextOrdinal>>

(* An event of a channel: it is recorded, the state may move, and, unless  *)
(* the limit is reached or the state is terminal, the channel's next event *)
(* is drawn.                                                               *)
Event(x) ==
  LET p == EventPoint(x) IN
  /\ Due(x) /\ x.kind = 0
  /\ nextOrdinal' = [nextOrdinal EXCEPT ![p[1]] = @ + 1]
  /\ MoveAtEvent(p)
  /\ Record(x)
  /\ steps' = steps + 1
  /\ \E deadline \in Redrawn(x.at) :
       IF steps' >= Limit \/ IsTerminal(changes')
       THEN /\ status' = IF steps' >= Limit THEN "limit" ELSE status
            /\ queue' = (queue \ {x}) \cup deadline
       ELSE /\ status' = status
            /\ \E w \in Waits :
                 queue' = (queue \ {x}) \cup deadline
                            \cup {EventAt(x.at + w, x.channel, Len(rows'[x.channel]))}
  /\ UNCHANGED clock

(* The loop ends: the calendar is over, or the state is terminal.          *)
Finish ==
  /\ status = "running"
  /\ \/ queue = {} \/ IsTerminal(changes)
     \/ \E x \in queue : Popped(x) /\ ~Stale(x) /\ ~InCalendar(x)
  /\ status' = "done"
  /\ UNCHANGED <<clock, changes, queue, nextOrdinal, last, version, rows, steps>>

Next == SkipStale \/ Finish \/ \E x \in queue : Transition(x) \/ Event(x)

Spec == Init /\ [][Next]_vars
-----------------------------------------------------------------------------
(* Properties *)

Entry == [at : Int, kind : {0}, channel : Channels, seq : Nat]
           \cup [at : Int, kind : {1}, channel : {0}, seq : Nat]
Row == [at : Seconds \X Nat, state : States]

(* Every variable keeps its type; in particular events have ordinals from  *)
(* 0 up, in seconds of the calendar.                                       *)
TypeOK ==
  /\ clock \in Clocks
  /\ changes \in Seq(Change) /\ Len(changes) > 0
  /\ queue \subseteq Entry
  /\ nextOrdinal \in [Seconds -> Nat]
  /\ last = NoTransition \/ last \in Points
  /\ version \in Nat /\ steps \in Nat
  /\ rows \in [Channels -> Seq(Row)]
  /\ status \in {"running", "done", "limit"}

(* transition() never refuses what the scheduler asks of it ("transition   *)
(* must advance inside the calendar", "terminal state cannot transition"): *)
(* whatever mixture of events and deadlines shares a second, the point of  *)
(* the next one is after the last change.                                  *)
TransitionsAccepted ==
  \A x \in queue : Due(x) =>
    IF x.kind = 1 THEN MayTransition(changes, DeadlinePoint(x))
    ELSE clock = "duration_driven" \/ MayTransition(changes, EventPoint(x))

(* The state a row recorded when it was scheduled is what the trajectory   *)
(* says of that point ever after: no later transition is filed before an   *)
(* event that is already out.                                              *)
RecordedStatesStand ==
  \A c \in Channels : \A k \in DOMAIN rows[c] :
    rows[c][k].state = StateBefore(changes, rows[c][k].at)

(* The events of an entity never share a point, across all its channels,   *)
(* and a channel's rows come in the order of their points.                 *)
EventsDistinctAndInOrder ==
  \A c, d \in Channels : \A j \in DOMAIN rows[c], k \in DOMAIN rows[d] :
    /\ rows[c][j].at = rows[d][k].at => c = d /\ j = k
    /\ c = d /\ j < k => Before(rows[c][j].at, rows[d][k].at)

Live == {x \in queue : x.kind = 1 /\ ~Stale(x)}

(* While the loop goes on, each channel has exactly one event pending, and *)
(* exactly one deadline counts, except under the event_driven clock: a     *)
(* deadline that an event replaced can never fire beside its replacement.  *)
OnePendingEach ==
  status = "running" /\ ~IsTerminal(changes) =>
    /\ \A c \in Channels :
         \E x \in queue : /\ x.kind = 0 /\ x.channel = c
                          /\ \A y \in queue : y.kind = 0 /\ y.channel = c => y = x
    /\ IF clock = "event_driven" THEN Live = {} ELSE \E x \in Live : Live = {x}

(* Nothing is filed after a terminal state: no event records one, and a    *)
(* trajectory's changes end with the first.                                *)
NothingAfterTerminal ==
  /\ \A c \in Channels : \A k \in DOMAIN rows[c] : rows[c][k].state \notin Terminals
  /\ \A k \in DOMAIN changes : changes[k].state \in Terminals => k = Len(changes)

(* A persisted trajectory can be loaded again: from_dict, which passes     *)
(* each change to transition(), accepts all of them, and the intervals     *)
(* between them are not empty.                                             *)
TrajectoryReloads ==
  \A k \in 2..Len(changes) :
    /\ MayTransition(SubSeq(changes, 1, k - 1), changes[k].at)
    /\ changes[k].state # changes[k - 1].state

(* "temporal state process exceeded transition limit": the steps the loop  *)
(* counts never exceed the limit.                                          *)
StepsWithinLimit == steps <= Limit

(* Events and moves of state form one history in advancing logical time.   *)
AllPoints == {last} \cup {rows[c][Len(rows[c])].at : c \in {d \in Channels : rows[d] # <<>>}}

OneHistory == INSTANCE EntityHistory WITH
  Sources <- Channels,
  Values <- States,
  Finals <- Terminals,
  moment <- CHOOSE p \in AllPoints : \A q \in AllPoints : q = p \/ Before(q, p),
  state <- LastChange(changes).state,
  emitted <- rows,
  open <- status = "running"

ImplementsHistory == OneHistory!History
=============================================================================

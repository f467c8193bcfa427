-------------------------- MODULE EventScheduleProofs --------------------------
(***************************************************************************)
(* Proofs about EventSchedule, for every calendar, state space, number of  *)
(* channels, clock, set of waits and limit.                                *)
(***************************************************************************)
EXTENDS EventSchedule, NaturalsInduction, WellFoundedInduction, TLAPS

-----------------------------------------------------------------------------
(* Trajectories *)

(* A non-empty set of positions has a last one.                            *)
LEMMA LastPosition ==
  ASSUME NEW n \in Nat, NEW S, S \subseteq 1..n, S # {}
  PROVE  \E k \in S : \A j \in S : j <= k
<1> DEFINE T == {n - k : k \in S}
<1>1. T \in SUBSET Nat /\ T # {}
  <2>1. \A k \in S : n - k \in Nat
    OBVIOUS
  <2> QED BY <2>1, Zenon
<1>2. PICK m \in T : \A y \in T : ~(<<y, m>> \in OpToRel(<, Nat))
  BY <1>1, NatLessThanWellFounded, WFMin
<1>3. PICK k \in S : m = n - k
  BY <1>2
<1>4. ASSUME NEW j \in S PROVE j <= k
  <2>1. n - j \in T /\ n - j \in Nat /\ m \in Nat
    BY <1>1
  <2>2. ~(n - j < m)
    BY <1>2, <2>1 DEF OpToRel
  <2> QED BY <1>3, <2>2
<1> QED BY <1>4

Ascending(ch) == \A j, k \in DOMAIN ch : j < k => Before(ch[j].at, ch[k].at)

(* A change at e.at does not alter the state before points that e.at is    *)
(* not before.                                                             *)
LEMMA AppendKeepsPast ==
  ASSUME NEW ch \in Seq(Change), NEW e \in Change, NEW q \in Points, Len(ch) > 0,
         ~Before(e.at, q)
  PROVE  StateBefore(Append(ch, e), q) = StateBefore(ch, q)
<1> DEFINE n == Append(ch, e)
           Seen(x) == {k \in DOMAIN x : \A j \in 1..k : Before(x[j].at, q)}
<1>1. /\ DOMAIN n = 1..(Len(ch) + 1) /\ DOMAIN ch = 1..Len(ch)
      /\ \A k \in 1..Len(ch) : n[k] = ch[k]
      /\ n[Len(ch) + 1] = e
      /\ Len(ch) \in Nat
  OBVIOUS
<1>2. Seen(n) = Seen(ch)
  <2>1. Len(ch) + 1 \notin Seen(n)
    BY <1>1
  <2>2. \A k \in 1..Len(ch) : k \in Seen(n) <=> k \in Seen(ch)
    BY <1>1
  <2> QED BY <1>1, <2>1, <2>2
<1>4. n[1] = ch[1]
  BY <1>1
<1>5. CASE Seen(ch) = {}
  BY <1>2, <1>4, <1>5 DEF StateBefore
<1>6. CASE Seen(ch) # {}
  <2> DEFINE m == CHOOSE k \in Seen(ch) : \A j \in Seen(ch) : j <= k
  <2>1. \E k \in Seen(ch) : \A j \in Seen(ch) : j <= k
    BY <1>1, <1>6, LastPosition
  <2>2. m \in Seen(ch)
    BY <2>1
  <2>3. n[m] = ch[m]
    BY <1>1, <2>2
  <2>4. StateBefore(ch, q) = ch[m].state
    BY <1>6 DEF StateBefore
  <2>5. StateBefore(n, q) = n[CHOOSE k \in Seen(n) : \A j \in Seen(n) : j <= k].state
    BY <1>2, <1>6 DEF StateBefore
  <2>6. (CHOOSE k \in Seen(n) : \A j \in Seen(n) : j <= k) = m
    <3> HIDE DEF n, Seen
    <3> QED BY <1>2
  <2>7. StateBefore(n, q) = StateBefore(ch, q)
    <3> HIDE DEF n, m
    <3> QED BY <2>3, <2>4, <2>5, <2>6
  <2> QED BY <2>7
<1> QED BY <1>5, <1>6

LEMMA StateIsAState ==
  ASSUME NEW ch \in Seq(Change), NEW q \in Points, Len(ch) > 0
  PROVE  StateBefore(ch, q) \in States
<1> DEFINE Seen == {k \in DOMAIN ch : \A j \in 1..k : Before(ch[j].at, q)}
<1>1. DOMAIN ch = 1..Len(ch) /\ Len(ch) \in Nat /\ \A k \in DOMAIN ch : ch[k].state \in States
  <2>1. \A k \in DOMAIN ch : ch[k] \in Change
    OBVIOUS
  <2> QED BY <2>1 DEF Change
<1>2. CASE Seen = {}
  BY <1>1, <1>2 DEF StateBefore
<1>3. CASE Seen # {}
  <2> DEFINE m == CHOOSE k \in Seen : \A j \in Seen : j <= k
  <2>1. \E k \in Seen : \A j \in Seen : j <= k
    BY <1>1, <1>3, LastPosition
  <2>2. m \in Seen
    BY <2>1
  <2>3. StateBefore(ch, q) = ch[m].state
    BY <1>3 DEF StateBefore
  <2> QED BY <1>1, <2>2, <2>3
<1> QED BY <1>2, <1>3

(* Past all changes, the state is the last one's.                          *)
LEMMA StatePastAll ==
  ASSUME NEW ch \in Seq(Change), NEW q \in Points, Len(ch) > 0,
         \A k \in DOMAIN ch : Before(ch[k].at, q)
  PROVE  StateBefore(ch, q) = LastChange(ch).state
<1> DEFINE Seen == {k \in DOMAIN ch : \A j \in 1..k : Before(ch[j].at, q)}
<1>1. DOMAIN ch = 1..Len(ch) /\ Len(ch) \in Nat
  OBVIOUS
<1>2. Seen = 1..Len(ch)
  BY <1>1
<1>3. (CHOOSE k \in Seen : \A j \in Seen : j <= k) = Len(ch)
  <2>1. Len(ch) \in Seen /\ \A j \in Seen : j <= Len(ch)
    BY <1>1, <1>2
  <2>2. \A k \in Seen : (\A j \in Seen : j <= k) => k = Len(ch)
    BY <1>1, <1>2
  <2> QED BY <2>1, <2>2
<1>4. Seen # {}
  BY <1>1, <1>2
<1> QED BY <1>3, <1>4 DEF StateBefore, LastChange

-----------------------------------------------------------------------------
(* The inductive invariant.  Filed: next_ordinal of a second is past every *)
(* point filed in it.  Reached: no heap entry falls into a second before   *)
(* one that is filed.  LastIsLatest: last_transition is not behind the     *)
(* last recorded change.                                                   *)

Filed ==
  /\ \A k \in DOMAIN changes : changes[k].at[2] < nextOrdinal[changes[k].at[1]]
  /\ \A c \in Channels : \A k \in DOMAIN rows[c] :
       rows[c][k].at[2] < nextOrdinal[rows[c][k].at[1]]
  /\ last \in Points => last[2] < nextOrdinal[last[1]]

Reached ==
  \A x \in queue :
    /\ \A k \in DOMAIN changes : changes[k].at[1] <= CalendarTime(x.at)
    /\ \A c \in Channels : \A k \in DOMAIN rows[c] : rows[c][k].at[1] <= CalendarTime(x.at)
    /\ last[1] <= CalendarTime(x.at)

LastIsLatest ==
  \/ LastChange(changes).at = <<Start, InitialOrdinal>>
  \/ last \in Points /\ ~Before(last, LastChange(changes).at)

ScheduleInv == TypeOK /\ Filed /\ Reached /\ Ascending(changes) /\ LastIsLatest

LEMMA RoundingMonotone ==
  ASSUME NEW t \in Int, NEW u \in Int, t <= u
  PROVE  CalendarTime(t) \in Seconds /\ CalendarTime(t) <= CalendarTime(u)
<1>1. Rounded(t) \in Int /\ Rounded(u) \in Int /\ Rounded(t) <= Rounded(u)
  BY DEF Rounded
<1> QED BY <1>1, CalendarAndStates DEF CalendarTime, Seconds

(* The points the next entry is filed at are after everything filed.       *)
AllBefore(p) ==
  /\ \A k \in DOMAIN changes : Before(changes[k].at, p)
  /\ \A c \in Channels : \A k \in DOMAIN rows[c] : Before(rows[c][k].at, p)
  /\ Before(last, p)

LEMMA PointsTyped ==
  ASSUME TypeOK
  PROVE  /\ \A k \in DOMAIN changes : /\ changes[k] \in Change /\ changes[k].at \in Points
                                      /\ changes[k].at[1] \in Seconds /\ changes[k].at[2] \in Int
         /\ \A c \in Channels : \A k \in DOMAIN rows[c] :
              /\ rows[c][k] \in Row /\ rows[c][k].at \in Points
              /\ rows[c][k].at[1] \in Seconds /\ rows[c][k].at[2] \in Nat
         /\ last[1] \in Int /\ last[2] \in Int
         /\ last \notin Points => last[1] < Start
         /\ Len(changes) \in DOMAIN changes
<1>1. changes \in Seq(Change) /\ Len(changes) > 0 /\ Len(changes) \in Nat
  BY DEF TypeOK
<1>2. \A k \in DOMAIN changes : changes[k] \in Change
  BY <1>1
<1>3. \A k \in DOMAIN changes : changes[k].at \in Points
  BY <1>2 DEF Change
<1>4. \A c \in Channels : \A k \in DOMAIN rows[c] : rows[c][k] \in Row
  <2> TAKE c \in Channels
  <2>1. rows[c] \in Seq(Row)
    BY DEF TypeOK
  <2> QED BY <2>1
<1>5. \A c \in Channels : \A k \in DOMAIN rows[c] : rows[c][k].at \in Seconds \X Nat
  BY <1>4 DEF Row
<1>6. last = NoTransition \/ last \in Points
  BY DEF TypeOK
<1>7. Start \in Int /\ Start - 1 \in Int
  BY CalendarAndStates
<1>8. last[1] \in Int /\ last[2] \in Int /\ (last \notin Points => last[1] < Start)
  BY <1>6, <1>7 DEF NoTransition, Points, Seconds
<1>9. Len(changes) \in DOMAIN changes
  BY <1>1
<1> QED BY <1>2, <1>3, <1>4, <1>5, <1>8, <1>9 DEF Points

LEMMA EventPointAhead ==
  ASSUME ScheduleInv, NEW x \in queue
  PROVE  /\ EventPoint(x) \in Seconds \X Nat /\ EventPoint(x) \in Points
         /\ EventPoint(x)[1] = CalendarTime(x.at)
         /\ EventPoint(x)[2] = nextOrdinal[EventPoint(x)[1]]
         /\ AllBefore(EventPoint(x))
<1> DEFINE t == CalendarTime(x.at)
<1>1. TypeOK /\ Filed /\ Reached
  BY DEF ScheduleInv
<1>2. x.at \in Int
  BY <1>1 DEF TypeOK, Entry
<1>3. t \in Seconds
  BY <1>2, RoundingMonotone
<1>4. nextOrdinal \in [Seconds -> Nat]
  BY <1>1 DEF TypeOK
<1>5. nextOrdinal[t] \in Nat
  BY <1>3, <1>4
<1>6. EventPoint(x) = <<t, nextOrdinal[t]>>
  BY DEF EventPoint
<1> HIDE DEF t
<1>7. ASSUME NEW k \in DOMAIN changes PROVE Before(changes[k].at, EventPoint(x))
  <2>1. changes[k].at[1] \in Seconds /\ changes[k].at[2] \in Int
    BY <1>1, PointsTyped
  <2>2. changes[k].at[1] <= t /\ changes[k].at[2] < nextOrdinal[changes[k].at[1]]
    BY <1>1 DEF Filed, Reached, t
  <2> QED BY <2>1, <2>2, <1>3, <1>5, <1>6 DEF Before, Seconds
<1>8. ASSUME NEW c \in Channels, NEW k \in DOMAIN rows[c]
      PROVE  Before(rows[c][k].at, EventPoint(x))
  <2>1. rows[c][k].at[1] \in Seconds /\ rows[c][k].at[2] \in Nat
    BY <1>1, PointsTyped
  <2>2. rows[c][k].at[1] <= t /\ rows[c][k].at[2] < nextOrdinal[rows[c][k].at[1]]
    BY <1>1 DEF Filed, Reached, t
  <2> QED BY <2>1, <2>2, <1>3, <1>5, <1>6 DEF Before, Seconds
<1>9. Before(last, EventPoint(x))
  <2>1. last[1] \in Int /\ last[2] \in Int /\ (last \notin Points => last[1] < Start)
    BY <1>1, PointsTyped
  <2>2. last[1] <= t /\ (last \in Points => last[2] < nextOrdinal[last[1]])
    BY <1>1 DEF Filed, Reached, t
  <2>3. t \in Int /\ Start <= t /\ Start \in Int
    BY <1>3, CalendarAndStates DEF Seconds
  <2>4. CASE last \in Points
    BY <2>1, <2>2, <2>3, <2>4, <1>5, <1>6 DEF Before
  <2>5. CASE last \notin Points
    BY <2>1, <2>3, <2>5, <1>6 DEF Before
  <2> QED BY <2>4, <2>5
<1>10. /\ EventPoint(x) \in Seconds \X Nat /\ EventPoint(x) \in Points
       /\ EventPoint(x)[1] = t /\ EventPoint(x)[2] = nextOrdinal[EventPoint(x)[1]]
  BY <1>3, <1>5, <1>6 DEF Points
<1> QED BY <1>7, <1>8, <1>9, <1>10 DEF AllBefore, t

LEMMA DeadlinePointAhead ==
  ASSUME ScheduleInv, NEW x \in queue
  PROVE  /\ DeadlinePoint(x) \in Points
         /\ DeadlinePoint(x)[1] = CalendarTime(x.at)
         /\ DeadlinePoint(x)[2] >= -1
         /\ AllBefore(DeadlinePoint(x))
<1> DEFINE t == CalendarTime(x.at)
           o == DurationOrdinal(t)
<1>1. TypeOK /\ Filed /\ Reached /\ LastIsLatest /\ Ascending(changes)
  BY DEF ScheduleInv
<1>2. x.at \in Int
  BY <1>1 DEF TypeOK, Entry
<1>3. t \in Seconds
  BY <1>2, RoundingMonotone
<1>4. nextOrdinal \in [Seconds -> Nat]
  BY <1>1 DEF TypeOK
<1>5. nextOrdinal[t] \in Nat
  BY <1>3, <1>4
<1>6. last[1] \in Int /\ last[2] \in Int /\ (last \notin Points => last[1] < Start)
  BY <1>1, PointsTyped
<1>7. last[1] <= t /\ (last \in Points => last[2] < nextOrdinal[last[1]])
  BY <1>1 DEF Filed, Reached
<1> HIDE DEF t
<1>8. /\ o \in Int /\ o >= -1
      /\ o >= nextOrdinal[t] \/ (nextOrdinal[t] = 0 /\ last[1] # t)
      /\ last[1] = t => o > last[2]
  <2>1. CASE last[1] = t
    <3>1. o = Larger(nextOrdinal[t], last[2] + 1)
      BY <2>1 DEF DurationOrdinal
    <3> QED BY <3>1, <2>1, <1>5, <1>6 DEF Larger
  <2>2. CASE last[1] # t
    <3>1. o = IF nextOrdinal[t] > 0 THEN nextOrdinal[t] ELSE -1
      BY <2>2 DEF DurationOrdinal
    <3> QED BY <3>1, <2>2, <1>5
  <2> QED BY <2>1, <2>2
<1>9. DeadlinePoint(x) = <<t, o>>
  BY DEF DeadlinePoint, t
<1> HIDE DEF o
<1>10. Before(last, DeadlinePoint(x))
  BY <1>3, <1>6, <1>7, <1>8, <1>9 DEF Before, Seconds
<1>11. ASSUME NEW c \in Channels, NEW k \in DOMAIN rows[c]
       PROVE  Before(rows[c][k].at, DeadlinePoint(x))
  <2>1. rows[c][k].at[1] \in Seconds /\ rows[c][k].at[2] \in Nat
    BY <1>1, PointsTyped
  <2>2. rows[c][k].at[1] <= t /\ rows[c][k].at[2] < nextOrdinal[rows[c][k].at[1]]
    BY <1>1 DEF Filed, Reached, t
  <2> QED BY <2>1, <2>2, <1>3, <1>5, <1>8, <1>9 DEF Before, Seconds
<1>12. Before(LastChange(changes).at, DeadlinePoint(x))
  <2> DEFINE q == LastChange(changes).at
  <2>1. q[1] \in Seconds /\ q[2] \in Int
    BY <1>1, PointsTyped DEF LastChange
  <2>2. CASE q = <<Start, InitialOrdinal>>
    BY <2>2, <1>3, <1>8, <1>9, CalendarAndStates DEF Before, InitialOrdinal, Seconds
  <2>3. CASE last \in Points /\ ~Before(last, q)
    BY <2>1, <2>3, <1>6, <1>10, <1>3, <1>8, <1>9 DEF Before, Seconds
  <2> QED BY <2>2, <2>3, <1>1 DEF LastIsLatest
<1>13. ASSUME NEW k \in DOMAIN changes PROVE Before(changes[k].at, DeadlinePoint(x))
  <2> DEFINE n == Len(changes)
  <2>1. k = n \/ Before(changes[k].at, changes[n].at)
    <3>1. DOMAIN changes = 1..n /\ n \in Nat
      BY <1>1 DEF TypeOK
    <3> QED BY <3>1, <1>1 DEF Ascending
  <2>2. /\ changes[k].at[1] \in Int /\ changes[k].at[2] \in Int
        /\ changes[n].at[1] \in Int /\ changes[n].at[2] \in Int
    BY <1>1, PointsTyped DEF Seconds
  <2> QED BY <2>1, <2>2, <1>12, <1>9, <1>3, <1>8 DEF Before, LastChange, Seconds
<1>14. DeadlinePoint(x) \in Points /\ DeadlinePoint(x)[1] = t /\ DeadlinePoint(x)[2] >= -1
  BY <1>3, <1>8, <1>9 DEF Points
<1> QED BY <1>10, <1>11, <1>13, <1>14 DEF AllBefore, t

-----------------------------------------------------------------------------
(* What a step files.  An event and a transition change the trajectory,    *)
(* the rows and the ordinals in one shape, at a point p ahead of all that  *)
(* is filed; NewRows are the rows they may leave.                          *)

NewRow(p) == [at |-> p, state |-> StateBefore(changes, p)]

Filing(x, p) ==
  /\ \/ changes' = changes /\ last' = last
     \/ last' = p /\ \E s \in States : changes' = Moved(changes, p, s)
  /\ \/ rows' = rows
     \/ /\ p \in Seconds \X Nat
        /\ \E c \in Channels : rows' = [rows EXCEPT ![c] = Append(@, NewRow(p))]
  /\ \E o \in Nat : /\ o > p[2] /\ o >= nextOrdinal[p[1]]
                    /\ nextOrdinal' = [nextOrdinal EXCEPT ![p[1]] = o]
  /\ \A y \in queue' : y \in queue \/ (y \in Entry /\ y.at >= x.at)

LEMMA TransitionFiles ==
  ASSUME ScheduleInv, NEW x \in queue, Transition(x)
  PROVE  /\ Filing(x, DeadlinePoint(x)) /\ MayTransition(changes, DeadlinePoint(x))
         /\ rows' = rows /\ last' = DeadlinePoint(x)
         /\ version' \in Nat /\ steps' \in Nat /\ status' = status /\ clock' = clock
<1> DEFINE p == DeadlinePoint(x)
<1>1. TypeOK
  BY DEF ScheduleInv
<1>2. /\ p \in Points /\ p[2] >= -1 /\ p[2] \in Int /\ p[1] \in Seconds
  BY DeadlinePointAhead DEF Points
<1>3. nextOrdinal \in [Seconds -> Nat] /\ version \in Nat /\ steps \in Nat /\ x.at \in Int
  BY <1>1 DEF TypeOK, Entry
<1>4. /\ MayTransition(changes, p) /\ last' = p /\ rows' = rows
      /\ version' = version + 1 /\ steps' = steps + 1 /\ status' = status /\ clock' = clock
      /\ \E s \in States : changes' = Moved(changes, p, s)
      /\ nextOrdinal' = [nextOrdinal EXCEPT ![p[1]] = Larger(nextOrdinal[p[1]], p[2] + 1)]
  BY DEF Transition
<1>5. \E o \in Nat : /\ o > p[2] /\ o >= nextOrdinal[p[1]]
                     /\ nextOrdinal' = [nextOrdinal EXCEPT ![p[1]] = o]
  <2> DEFINE o == Larger(nextOrdinal[p[1]], p[2] + 1)
  <2>1. nextOrdinal[p[1]] \in Nat
    BY <1>2, <1>3
  <2>2. o \in Nat /\ o > p[2] /\ o >= nextOrdinal[p[1]]
    BY <1>2, <2>1 DEF Larger
  <2> HIDE DEF o, p
  <2>3. nextOrdinal' = [nextOrdinal EXCEPT ![p[1]] = o]
    BY <1>4 DEF o
  <2> QED BY <2>2, <2>3
<1>6. \A y \in queue' : y \in queue \/ (y \in Entry /\ y.at >= x.at)
  <2>1. \/ queue' = queue \ {x}
        \/ \E w \in Waits : queue' = (queue \ {x}) \cup {DeadlineAt(x.at + w, version + 1)}
    BY <1>4 DEF Transition
  <2>2. ASSUME NEW w \in Waits
        PROVE  DeadlineAt(x.at + w, version + 1) \in Entry
               /\ DeadlineAt(x.at + w, version + 1).at >= x.at
    BY <1>3, ScheduleConfigured DEF DeadlineAt, Entry
  <2> QED BY <2>1, <2>2
<1>7. Filing(x, p)
  <2> HIDE DEF p
  <2> QED BY <1>4, <1>5, <1>6 DEF Filing
<1> QED BY <1>3, <1>4, <1>7

LEMMA EventFiles ==
  ASSUME ScheduleInv, NEW x \in queue, Event(x)
  PROVE  /\ Filing(x, EventPoint(x)) /\ Due(x)
         /\ \/ changes' = changes /\ last' = last
            \/ last' = EventPoint(x) /\ MayTransition(changes, EventPoint(x))
         /\ version' \in Nat /\ steps' \in Nat /\ clock' = clock
         /\ status' \in {status, "limit"}
<1> DEFINE p == EventPoint(x)
<1>1. TypeOK
  BY DEF ScheduleInv
<1>2. /\ p \in Seconds \X Nat /\ p[2] \in Nat /\ p[1] \in Seconds
      /\ p[2] = nextOrdinal[p[1]]
  BY EventPointAhead
<1>3. /\ nextOrdinal \in [Seconds -> Nat] /\ version \in Nat /\ steps \in Nat
      /\ x \in Entry /\ x.at \in Int /\ rows \in [Channels -> Seq(Row)]
  BY <1>1 DEF TypeOK, Entry
<1>4. /\ Due(x) /\ x.kind = 0 /\ MoveAtEvent(p) /\ Record(x) /\ steps' = steps + 1 /\ clock' = clock
      /\ nextOrdinal' = [nextOrdinal EXCEPT ![p[1]] = nextOrdinal[p[1]] + 1]
  BY DEF Event
<1>5. /\ \/ changes' = changes /\ last' = last
         \/ last' = p /\ MayTransition(changes, p) /\ \E s \in States : changes' = Moved(changes, p, s)
      /\ version' \in Nat
  BY <1>3, <1>4 DEF MoveAtEvent
<1>6. \E o \in Nat : /\ o > p[2] /\ o >= nextOrdinal[p[1]]
                     /\ nextOrdinal' = [nextOrdinal EXCEPT ![p[1]] = o]
  <2> DEFINE o == nextOrdinal[p[1]] + 1
  <2>1. o \in Nat /\ o > p[2] /\ o >= nextOrdinal[p[1]]
    BY <1>2, <1>3
  <2> HIDE DEF o, p
  <2>3. nextOrdinal' = [nextOrdinal EXCEPT ![p[1]] = o]
    BY <1>4 DEF o
  <2> QED BY <2>1, <2>3
<1>7. x.channel \in Channels
  BY <1>3, <1>4 DEF Entry
<1>8. rows' = [rows EXCEPT ![x.channel] = Append(@, NewRow(p))]
  BY <1>4 DEF Record, NewRow
<1>9. \A y \in queue' : y \in queue \/ (y \in Entry /\ y.at >= x.at)
  <2> DEFINE n == Len(rows'[x.channel])
             next(w) == EventAt(x.at + w, x.channel, n)
             due(w) == DeadlineAt(x.at + w, version')
  <2>1. PICK deadline \in Redrawn(x.at) :
          \/ queue' = (queue \ {x}) \cup deadline
          \/ \E w \in Waits : queue' = (queue \ {x}) \cup deadline \cup {next(w)}
    BY DEF Event
  <2>2. n \in Nat
    <3>1. rows[x.channel] \in Seq(Row)
      BY <1>3, <1>7
    <3>2. rows'[x.channel] = Append(rows[x.channel], NewRow(p))
      BY <1>3, <1>7, <1>8
    <3>3. Len(rows'[x.channel]) = Len(rows[x.channel]) + 1
      BY <3>1, <3>2
    <3> QED BY <3>1, <3>3
  <2>3. ASSUME NEW w \in Waits PROVE next(w) \in Entry /\ next(w).at >= x.at
    BY <1>3, <1>7, <2>2, ScheduleConfigured DEF EventAt, Entry
  <2>4. ASSUME NEW w \in Waits PROVE due(w) \in Entry /\ due(w).at >= x.at
    BY <1>3, <1>5, ScheduleConfigured DEF DeadlineAt, Entry
  <2>5. deadline = {} \/ \E w \in Waits : deadline = {due(w)}
    BY <2>1 DEF Redrawn
  <2> HIDE DEF next, due
  <2> QED BY <2>1, <2>3, <2>4, <2>5
<1>10. steps' \in Nat /\ status' \in {status, "limit"}
  BY <1>3, <1>4 DEF Event
<1>11. Filing(x, p)
  <2> HIDE DEF p
  <2> QED BY <1>2, <1>5, <1>6, <1>7, <1>8, <1>9 DEF Filing
<1> QED BY <1>4, <1>5, <1>10, <1>11

(* The changes after a step are the changes before it, or one more at p.   *)
LEMMA FiledChanges ==
  ASSUME TypeOK, NEW x, NEW p \in Points, Filing(x, p)
  PROVE  /\ \/ changes' = changes
            \/ \E s \in States : /\ changes' = Append(changes, [at |-> p, state |-> s])
                                 /\ s # LastChange(changes).state /\ last' = p
         /\ changes' \in Seq(Change) /\ Len(changes') > 0
         /\ last' = last \/ last' = p
         /\ changes' # changes => last' = p
         /\ \A k \in DOMAIN changes' :
              \/ k \in DOMAIN changes /\ changes'[k] = changes[k]
              \/ k = Len(changes) + 1 /\ changes'[k].at = p /\ last' = p
<1>1. changes \in Seq(Change) /\ Len(changes) > 0
  BY DEF TypeOK
<1>2. CASE changes' = changes /\ last' = last
  BY <1>1, <1>2
<1>3. CASE last' = p /\ \E s \in States : changes' = Moved(changes, p, s)
  <2>1. PICK s \in States : changes' = Moved(changes, p, s)
    BY <1>3
  <2>2. CASE changes' = changes
    BY <1>1, <1>3, <2>2
  <2>3. CASE changes' # changes
    <3> DEFINE e == [at |-> p, state |-> s]
    <3>1. changes' = Append(changes, e) /\ s # LastChange(changes).state
      BY <2>1, <2>3 DEF Moved
    <3>2. e \in Change /\ e.at = p
      BY DEF Change
    <3> HIDE DEF e
    <3>3. /\ changes' \in Seq(Change) /\ Len(changes') > 0
          /\ \A k \in DOMAIN changes' :
               \/ k \in DOMAIN changes /\ changes'[k] = changes[k]
               \/ k = Len(changes) + 1 /\ changes'[k].at = p
      BY <1>1, <3>1, <3>2
    <3> QED BY <1>3, <3>1, <3>3 DEF e
  <2> QED BY <2>2, <2>3
<1> QED BY <1>2, <1>3 DEF Filing

(* Likewise the rows of a channel.                                         *)
LEMMA FiledRows ==
  ASSUME TypeOK, NEW x, NEW p \in Points, Filing(x, p)
  PROVE  /\ rows' \in [Channels -> Seq(Row)]
         /\ \A c \in Channels : \A k \in DOMAIN rows'[c] :
              \/ k \in DOMAIN rows[c] /\ rows'[c][k] = rows[c][k]
              \/ /\ k = Len(rows[c]) + 1 /\ rows'[c][k] = NewRow(p)
                 /\ p \in Seconds \X Nat
                 /\ \A d \in Channels : d # c => rows'[d] = rows[d]
<1>1. rows \in [Channels -> Seq(Row)]
  BY DEF TypeOK
<1>2. CASE rows' = rows
  BY <1>1, <1>2
<1>3. CASE p \in Seconds \X Nat
           /\ \E c \in Channels : rows' = [rows EXCEPT ![c] = Append(@, NewRow(p))]
  <2>1. PICK c \in Channels : rows' = [rows EXCEPT ![c] = Append(@, NewRow(p))]
    BY <1>3
  <2>2. rows[c] \in Seq(Row)
    BY <1>1
  <2>3. NewRow(p) \in Row
    <3>1. StateBefore(changes, p) \in States
      BY StateIsAState DEF TypeOK
    <3> QED BY <1>3, <3>1 DEF NewRow, Row
  <2> DEFINE r == NewRow(p)
             n == Append(rows[c], r)
  <2>4. /\ n \in Seq(Row) /\ DOMAIN n = 1..(Len(rows[c]) + 1) /\ n[Len(rows[c]) + 1] = r
        /\ DOMAIN rows[c] = 1..Len(rows[c])
        /\ \A k \in DOMAIN rows[c] : n[k] = rows[c][k]
    BY <2>2, <2>3
  <2>5. rows' = [rows EXCEPT ![c] = n]
    BY <2>1
  <2> HIDE DEF n, r
  <2>6. rows' \in [Channels -> Seq(Row)] /\ rows'[c] = n
        /\ \A d \in Channels : d # c => rows'[d] = rows[d]
    BY <1>1, <2>4, <2>5
  <2>7. ASSUME NEW d \in Channels, NEW k \in DOMAIN rows'[d]
        PROVE  \/ k \in DOMAIN rows[d] /\ rows'[d][k] = rows[d][k]
               \/ /\ k = Len(rows[d]) + 1 /\ rows'[d][k] = r
                  /\ \A dd \in Channels : dd # d => rows'[dd] = rows[dd]
    <3>1. CASE d # c
      BY <2>6, <3>1
    <3>2. CASE d = c
      <4>1. k \in 1..(Len(rows[c]) + 1) /\ Len(rows[c]) \in Nat
        BY <2>2, <2>4, <2>6, <3>2
      <4>2. CASE k \in DOMAIN rows[c]
        BY <2>4, <2>6, <3>2, <4>2
      <4>3. CASE k = Len(rows[c]) + 1
        BY <2>4, <2>6, <3>2, <4>3
      <4> QED BY <2>4, <4>1, <4>2, <4>3
    <3> QED BY <3>1, <3>2
  <2> QED BY <1>3, <2>6, <2>7 DEF r
<1> QED BY <1>2, <1>3 DEF Filing

-----------------------------------------------------------------------------
(* A step that files at a point ahead of everything keeps the invariant.   *)

LEMMA FilingKeepsInvariant ==
  ASSUME ScheduleInv, NEW x \in queue, Popped(x),
         NEW p \in Points, p[1] = CalendarTime(x.at), AllBefore(p), Filing(x, p)
  PROVE  /\ changes' \in Seq(Change) /\ Len(changes') > 0 /\ queue' \subseteq Entry
         /\ nextOrdinal' \in [Seconds -> Nat] /\ rows' \in [Channels -> Seq(Row)]
         /\ last' = NoTransition \/ last' \in Points
         /\ Filed' /\ Reached' /\ Ascending(changes)' /\ LastIsLatest'
<1>1. TypeOK /\ Filed /\ Reached /\ Ascending(changes) /\ LastIsLatest
  BY DEF ScheduleInv
<1>2. /\ nextOrdinal \in [Seconds -> Nat] /\ queue \subseteq Entry
      /\ last = NoTransition \/ last \in Points
  BY <1>1 DEF TypeOK
<1>3. p[1] \in Seconds /\ p[2] \in Int
  BY DEF Points
<1>4. PICK o \in Nat : /\ o > p[2] /\ o >= nextOrdinal[p[1]]
                       /\ nextOrdinal' = [nextOrdinal EXCEPT ![p[1]] = o]
  BY DEF Filing
<1>5. /\ nextOrdinal' \in [Seconds -> Nat] /\ nextOrdinal'[p[1]] > p[2]
      /\ \A t \in Seconds : nextOrdinal'[t] >= nextOrdinal[t]
  BY <1>2, <1>3, <1>4
<1>6. \A y \in queue' : y \in queue \/ (y \in Entry /\ y.at >= x.at)
  BY DEF Filing
<1>7. queue' \subseteq Entry
  BY <1>2, <1>6
<1>8. \A y \in queue' : y.at \in Int /\ x.at \in Int /\ x.at <= y.at
  <2> TAKE y \in queue'
  <2>1. y.at \in Int /\ x.at \in Int
    BY <1>2, <1>7 DEF Entry
  <2>2. CASE y \in queue
    BY <2>1, <2>2 DEF Popped, Earlier
  <2>3. CASE y.at >= x.at
    BY <2>1, <2>3
  <2> QED BY <1>6, <2>1, <2>2, <2>3
<1>9. \A y \in queue' : /\ CalendarTime(y.at) \in Seconds
                        /\ p[1] <= CalendarTime(y.at)
                        /\ CalendarTime(x.at) <= CalendarTime(y.at)
  <2> TAKE y \in queue'
  <2>1. CalendarTime(y.at) \in Seconds /\ CalendarTime(x.at) <= CalendarTime(y.at)
    BY <1>8, RoundingMonotone
  <2> QED BY <2>1
<1>10. /\ \A k \in DOMAIN changes' :
            \/ k \in DOMAIN changes /\ changes'[k] = changes[k]
            \/ k = Len(changes) + 1 /\ changes'[k].at = p /\ last' = p
       /\ changes' \in Seq(Change) /\ Len(changes') > 0
       /\ last' = last \/ last' = p
       /\ changes' # changes => last' = p
  BY <1>1, FiledChanges
<1>11. /\ rows' \in [Channels -> Seq(Row)]
       /\ \A c \in Channels : \A k \in DOMAIN rows'[c] :
            \/ k \in DOMAIN rows[c] /\ rows'[c][k] = rows[c][k]
            \/ rows'[c][k].at = p
  <2>1. NewRow(p).at = p
    BY DEF NewRow
  <2> QED BY <1>1, <2>1, FiledRows
<1>12. \A k \in DOMAIN changes : changes[k].at[1] \in Seconds /\ changes[k].at[2] \in Int
  BY <1>1, PointsTyped
<1>13. \A c \in Channels : \A k \in DOMAIN rows[c] :
         rows[c][k].at[1] \in Seconds /\ rows[c][k].at[2] \in Nat
  BY <1>1, PointsTyped
<1>14. last' = NoTransition \/ last' \in Points
  BY <1>2, <1>10
<1>15. Filed'
  <2>1. ASSUME NEW k \in DOMAIN changes'
        PROVE  changes'[k].at[2] < nextOrdinal'[changes'[k].at[1]]
    <3>1. CASE k \in DOMAIN changes /\ changes'[k] = changes[k]
      <4>1. changes[k].at[2] < nextOrdinal[changes[k].at[1]]
        BY <1>1, <3>1 DEF Filed
      <4>2. /\ nextOrdinal[changes[k].at[1]] \in Int /\ nextOrdinal'[changes[k].at[1]] \in Int
            /\ nextOrdinal'[changes[k].at[1]] >= nextOrdinal[changes[k].at[1]]
        BY <1>2, <1>5, <1>12, <3>1
      <4> QED BY <3>1, <4>1, <4>2, <1>12
    <3>2. CASE changes'[k].at = p
      BY <1>5, <3>2
    <3> QED BY <1>10, <3>1, <3>2
  <2>2. ASSUME NEW c \in Channels, NEW k \in DOMAIN rows'[c]
        PROVE  rows'[c][k].at[2] < nextOrdinal'[rows'[c][k].at[1]]
    <3>1. CASE k \in DOMAIN rows[c] /\ rows'[c][k] = rows[c][k]
      <4>1. rows[c][k].at[2] < nextOrdinal[rows[c][k].at[1]]
        BY <1>1, <3>1 DEF Filed
      <4>2. /\ nextOrdinal[rows[c][k].at[1]] \in Int /\ nextOrdinal'[rows[c][k].at[1]] \in Int
            /\ nextOrdinal'[rows[c][k].at[1]] >= nextOrdinal[rows[c][k].at[1]]
        BY <1>2, <1>5, <1>13, <3>1
      <4> QED BY <3>1, <4>1, <4>2, <1>13
    <3>2. CASE rows'[c][k].at = p
      BY <1>5, <3>2
    <3> QED BY <1>11, <3>1, <3>2
  <2>3. last' \in Points => last'[2] < nextOrdinal'[last'[1]]
    <3>1. CASE last' = p
      BY <1>5, <3>1
    <3>2. CASE last' = last /\ last \in Points
      <4>1. last[2] < nextOrdinal[last[1]] /\ last[1] \in Seconds /\ last[2] \in Int
        BY <1>1, <3>2 DEF Filed, Points
      <4>2. /\ nextOrdinal[last[1]] \in Int /\ nextOrdinal'[last[1]] \in Int
            /\ nextOrdinal'[last[1]] >= nextOrdinal[last[1]]
        BY <1>2, <1>5, <4>1
      <4> QED BY <3>2, <4>1, <4>2
    <3> QED BY <1>10, <3>1, <3>2
  <2> QED BY <2>1, <2>2, <2>3 DEF Filed
<1>16. Reached'
  <2> SUFFICES ASSUME NEW y \in queue'
               PROVE  /\ \A k \in DOMAIN changes' : changes'[k].at[1] <= CalendarTime(y.at)
                      /\ \A c \in Channels : \A k \in DOMAIN rows'[c] :
                           rows'[c][k].at[1] <= CalendarTime(y.at)
                      /\ last'[1] <= CalendarTime(y.at)
    BY DEF Reached
  <2> DEFINE u == CalendarTime(x.at)
             v == CalendarTime(y.at)
  <2>1. u <= v /\ p[1] <= v /\ u \in Int /\ v \in Int
    BY <1>3, <1>9 DEF Seconds
  <2>2. /\ \A k \in DOMAIN changes : changes[k].at[1] <= u
        /\ \A c \in Channels : \A k \in DOMAIN rows[c] : rows[c][k].at[1] <= u
        /\ last[1] <= u
    BY <1>1 DEF Reached
  <2> HIDE DEF u, v
  <2>3. ASSUME NEW k \in DOMAIN changes' PROVE changes'[k].at[1] <= v
    <3>1. CASE k \in DOMAIN changes /\ changes'[k] = changes[k]
      <4>1. changes[k].at[1] \in Int /\ changes[k].at[1] <= u
        BY <1>12, <2>2, <3>1 DEF Seconds
      <4> QED BY <2>1, <3>1, <4>1
    <3>2. CASE changes'[k].at = p
      BY <2>1, <3>2
    <3> QED BY <1>10, <3>1, <3>2
  <2>4. ASSUME NEW c \in Channels, NEW k \in DOMAIN rows'[c] PROVE rows'[c][k].at[1] <= v
    <3>1. CASE k \in DOMAIN rows[c] /\ rows'[c][k] = rows[c][k]
      <4>1. rows[c][k].at[1] \in Int /\ rows[c][k].at[1] <= u
        BY <1>13, <2>2, <3>1 DEF Seconds
      <4> QED BY <2>1, <3>1, <4>1
    <3>2. CASE rows'[c][k].at = p
      BY <2>1, <3>2
    <3> QED BY <1>11, <3>1, <3>2
  <2>5. last'[1] <= v
    <3>1. last[1] \in Int
      BY <1>1, PointsTyped
    <3> QED BY <1>10, <2>1, <2>2, <3>1
  <2> QED BY <2>3, <2>4, <2>5 DEF v
<1>17. Ascending(changes)'
  <2> SUFFICES ASSUME NEW j \in DOMAIN changes', NEW k \in DOMAIN changes', j < k
               PROVE  Before(changes'[j].at, changes'[k].at)
    BY DEF Ascending
  <2>1. DOMAIN changes = 1..Len(changes) /\ Len(changes) \in Nat
    BY <1>1 DEF TypeOK
  <2>2. CASE k \in DOMAIN changes /\ changes'[k] = changes[k]
    <3>1. j \in DOMAIN changes /\ changes'[j] = changes[j]
      BY <1>10, <2>1, <2>2
    <3> QED BY <1>1, <2>2, <3>1 DEF Ascending
  <2>3. CASE k = Len(changes) + 1 /\ changes'[k].at = p
    <3>1. j \in DOMAIN changes /\ changes'[j] = changes[j]
      BY <1>10, <2>1, <2>3
    <3> QED BY <2>3, <3>1 DEF AllBefore
  <2> QED BY <1>10, <2>2, <2>3
<1>18. LastIsLatest'
  <2>1. CASE changes' = changes /\ last' = last
    BY <1>1, <2>1 DEF LastIsLatest, LastChange
  <2>2. CASE last' = p
    <3>1. Len(changes') \in DOMAIN changes'
      BY <1>10
    <3>2. ~Before(p, changes'[Len(changes')].at)
      <4> DEFINE n == Len(changes')
      <4>1. CASE changes'[n].at = p
        BY <1>3, <4>1 DEF Before, Seconds
      <4>2. CASE n \in DOMAIN changes /\ changes'[n] = changes[n]
        <5>1. Before(changes[n].at, p) /\ changes[n].at[1] \in Int /\ changes[n].at[2] \in Int
          BY <1>12, <4>2 DEF AllBefore, Seconds
        <5>2. ~Before(p, changes[n].at)
          BY <1>3, <5>1 DEF Before, Seconds
        <5> QED BY <4>2, <5>2
      <4> QED BY <1>10, <3>1, <4>1, <4>2
    <3> QED BY <2>2, <3>2 DEF LastIsLatest, LastChange
  <2> QED BY <1>10, <2>1, <2>2
<1> QED BY <1>5, <1>7, <1>10, <1>11, <1>14, <1>15, <1>16, <1>17, <1>18

-----------------------------------------------------------------------------
(* What the rows and the trajectory say stays true.                        *)

LEMMA FilingKeepsRecords ==
  ASSUME ScheduleInv, RecordedStatesStand,
         NEW x, NEW p \in Points, AllBefore(p), Filing(x, p)
  PROVE  RecordedStatesStand'
<1>1. TypeOK /\ Filed
  BY DEF ScheduleInv
<1>2. changes \in Seq(Change) /\ Len(changes) > 0
  BY <1>1 DEF TypeOK
<1>3. ASSUME NEW q \in Points, ~Before(p, q)
      PROVE  StateBefore(changes', q) = StateBefore(changes, q)
  <2>1. CASE changes' = changes
    BY <2>1
  <2>2. CASE \E s \in States : changes' = Append(changes, [at |-> p, state |-> s])
    <3>1. PICK s \in States : changes' = Append(changes, [at |-> p, state |-> s])
      BY <2>2
    <3> DEFINE e == [at |-> p, state |-> s]
    <3>2. e \in Change /\ e.at = p
      BY DEF Change
    <3> HIDE DEF e
    <3>3. StateBefore(Append(changes, e), q) = StateBefore(changes, q)
      BY <1>2, <1>3, <3>2, AppendKeepsPast
    <3> QED BY <3>1, <3>3 DEF e
  <2> QED BY <1>1, <2>1, <2>2, FiledChanges
<1>4. ASSUME NEW c \in Channels, NEW k \in DOMAIN rows'[c]
      PROVE  rows'[c][k].state = StateBefore(changes', rows'[c][k].at)
  <2>1. CASE k \in DOMAIN rows[c] /\ rows'[c][k] = rows[c][k]
    <3> DEFINE q == rows[c][k].at
    <3>1. q \in Points /\ q[1] \in Int /\ q[2] \in Int
      BY <1>1, <2>1, PointsTyped DEF Points, Seconds
    <3>2. ~Before(p, q)
      BY <2>1, <3>1 DEF AllBefore, Before, Points, Seconds
    <3>3. rows[c][k].state = StateBefore(changes, q)
      BY <2>1 DEF RecordedStatesStand
    <3> QED BY <1>3, <2>1, <3>1, <3>2, <3>3
  <2>2. CASE rows'[c][k] = NewRow(p)
    <3>1. ~Before(p, p)
      BY DEF Before, Points, Seconds
    <3>2. StateBefore(changes', p) = StateBefore(changes, p)
      BY <1>3, <3>1
    <3> QED BY <2>2, <3>2 DEF NewRow
  <2> QED BY <1>1, <2>1, <2>2, FiledRows
<1> QED BY <1>4 DEF RecordedStatesStand

LEMMA FilingKeepsTerminals ==
  ASSUME ScheduleInv, NothingAfterTerminal, ~IsTerminal(changes),
         NEW x, NEW p \in Points, AllBefore(p), Filing(x, p)
  PROVE  NothingAfterTerminal'
<1>1. TypeOK
  BY DEF ScheduleInv
<1>2. changes \in Seq(Change) /\ Len(changes) > 0
  BY <1>1 DEF TypeOK
<1>3. ASSUME NEW c \in Channels, NEW k \in DOMAIN rows'[c]
      PROVE  rows'[c][k].state \notin Terminals
  <2>1. CASE k \in DOMAIN rows[c] /\ rows'[c][k] = rows[c][k]
    BY <2>1 DEF NothingAfterTerminal
  <2>2. CASE rows'[c][k] = NewRow(p)
    <3>1. StateBefore(changes, p) = LastChange(changes).state
      BY <1>2, StatePastAll DEF AllBefore
    <3> QED BY <2>2, <3>1 DEF NewRow, IsTerminal
  <2> QED BY <1>1, <2>1, <2>2, FiledRows
<1>4. ASSUME NEW k \in DOMAIN changes', changes'[k].state \in Terminals
      PROVE  k = Len(changes')
  <2>1. CASE changes' = changes
    BY <1>4, <2>1 DEF NothingAfterTerminal
  <2>2. CASE \E s \in States : changes' = Append(changes, [at |-> p, state |-> s])
    <3>1. PICK s \in States : changes' = Append(changes, [at |-> p, state |-> s])
      BY <2>2
    <3>2. /\ Len(changes') = Len(changes) + 1
          /\ k \in 1..Len(changes) \/ k = Len(changes')
          /\ k \in 1..Len(changes) => changes'[k] = changes[k]
      BY <1>2, <3>1
    <3>3. ASSUME k \in 1..Len(changes) PROVE FALSE
      <4>1. k = Len(changes)
        BY <1>2, <1>4, <3>2, <3>3 DEF NothingAfterTerminal
      <4> QED BY <1>4, <3>2, <3>3, <4>1 DEF IsTerminal, LastChange
    <3> QED BY <3>2, <3>3
  <2> QED BY <1>1, <2>1, <2>2, FiledChanges
<1> QED BY <1>3, <1>4 DEF NothingAfterTerminal

LEMMA FilingKeepsOrder ==
  ASSUME ScheduleInv, EventsDistinctAndInOrder,
         NEW x, NEW p \in Points, AllBefore(p), Filing(x, p)
  PROVE  EventsDistinctAndInOrder'
<1>1. TypeOK /\ rows \in [Channels -> Seq(Row)]
  BY DEF ScheduleInv, TypeOK
<1> DEFINE Old(c, k) == k \in DOMAIN rows[c] /\ rows'[c][k] = rows[c][k]
           New(c, k) == /\ k = Len(rows[c]) + 1 /\ rows'[c][k].at = p
                        /\ \A d \in Channels : d # c => rows'[d] = rows[d]
<1>2. \A c \in Channels : \A k \in DOMAIN rows'[c] : Old(c, k) \/ New(c, k)
  <2>1. NewRow(p).at = p
    BY DEF NewRow
  <2> QED BY <1>1, <2>1, FiledRows
<1>3. \A c \in Channels : Len(rows[c]) \in Nat /\ DOMAIN rows[c] = 1..Len(rows[c])
  BY <1>1
<1>4. p[1] \in Int /\ p[2] \in Int
  BY DEF Points, Seconds
<1>5. \A c \in Channels : \A k \in DOMAIN rows[c] :
        /\ Before(rows[c][k].at, p) /\ rows[c][k].at # p /\ ~Before(p, rows[c][k].at)
  <2> TAKE c \in Channels
  <2> TAKE k \in DOMAIN rows[c]
  <2>1. Before(rows[c][k].at, p)
    BY DEF AllBefore
  <2>2. rows[c][k].at[1] \in Int /\ rows[c][k].at[2] \in Int
    BY <1>1, PointsTyped DEF Seconds
  <2> QED BY <1>4, <2>1, <2>2 DEF Before
<1> SUFFICES ASSUME NEW c \in Channels, NEW d \in Channels,
                    NEW j \in DOMAIN rows'[c], NEW k \in DOMAIN rows'[d]
             PROVE  /\ rows'[c][j].at = rows'[d][k].at => c = d /\ j = k
                    /\ c = d /\ j < k => Before(rows'[c][j].at, rows'[d][k].at)
  BY DEF EventsDistinctAndInOrder
<1>6. CASE Old(c, j) /\ Old(d, k)
  BY <1>6 DEF EventsDistinctAndInOrder
<1>7. CASE Old(c, j) /\ New(d, k)
  BY <1>5, <1>7
<1>8. CASE New(c, j) /\ Old(d, k)
  BY <1>3, <1>5, <1>8
<1>9. CASE New(c, j) /\ New(d, k)
  <2>1. ASSUME c # d PROVE FALSE
    <3>1. rows'[d] = rows[d]
      BY <1>9, <2>1
    <3> QED BY <1>3, <1>9, <3>1
  <2> QED BY <1>3, <1>9, <2>1
<1> HIDE DEF Old, New
<1> QED BY <1>2, <1>6, <1>7, <1>8, <1>9
(* No change keeps the state.                                              *)
Alternating == \A k \in 2..Len(changes) : changes[k].state # changes[k - 1].state

LEMMA FilingKeepsAlternation ==
  ASSUME ScheduleInv, Alternating, NEW x, NEW p \in Points, Filing(x, p)
  PROVE  Alternating'
<1>1. TypeOK /\ changes \in Seq(Change) /\ Len(changes) > 0
  BY DEF ScheduleInv, TypeOK
<1>2. CASE changes' = changes
  BY <1>2 DEF Alternating
<1>3. CASE \E s \in States : /\ changes' = Append(changes, [at |-> p, state |-> s])
                             /\ s # LastChange(changes).state
  <2>1. PICK s \in States : /\ changes' = Append(changes, [at |-> p, state |-> s])
                            /\ s # LastChange(changes).state
    BY <1>3
  <2>2. /\ Len(changes') = Len(changes) + 1
        /\ \A k \in 1..Len(changes) : changes'[k] = changes[k]
        /\ changes'[Len(changes) + 1].state = s
    BY <1>1, <2>1
  <2>3. ASSUME NEW k \in 2..Len(changes') PROVE changes'[k].state # changes'[k - 1].state
    <3>1. CASE k = Len(changes) + 1
      BY <1>1, <2>1, <2>2, <3>1 DEF LastChange
    <3>2. CASE k \in 2..Len(changes)
      <4>1. k \in 1..Len(changes) /\ k - 1 \in 1..Len(changes)
        BY <1>1, <3>2
      <4> QED BY <2>2, <3>2, <4>1 DEF Alternating
    <3> QED BY <1>1, <2>2, <3>1, <3>2
  <2> QED BY <2>3 DEF Alternating
<1> QED BY <1>1, <1>2, <1>3, FiledChanges

-----------------------------------------------------------------------------
(* The inductive invariant of the scheduler                                *)

ScheduleSafe ==
  /\ ScheduleInv
  /\ RecordedStatesStand /\ NothingAfterTerminal /\ EventsDistinctAndInOrder /\ Alternating

LEMMA InitSafe == Init => ScheduleSafe
<1> SUFFICES ASSUME Init PROVE ScheduleSafe
  OBVIOUS
<1> USE CalendarAndStates, ScheduleConfigured
<1>1. PICK s \in States : changes = Beginning(s)
  BY DEF Init
<1>2. /\ changes = <<[at |-> <<Start, InitialOrdinal>>, state |-> s]>>
      /\ Len(changes) = 1 /\ DOMAIN changes = {1}
      /\ changes[1].at = <<Start, InitialOrdinal>>
      /\ changes[1].at[1] = Start /\ changes[1].at[2] = -2
  BY <1>1 DEF Beginning, InitialOrdinal
<1>3. changes \in Seq(Change)
  <2>1. [at |-> <<Start, InitialOrdinal>>, state |-> s] \in Change
    BY DEF Change, Points, Seconds, InitialOrdinal
  <2> QED BY <1>2, <2>1
<1>4. /\ rows \in [Channels -> Seq(Row)]
      /\ \A c \in Channels : rows[c] = <<>> /\ DOMAIN rows[c] = {}
  BY DEF Init
<1>5. \A x \in queue : x \in Entry /\ x.at \in Int
  <2>1. PICK first \in [Channels -> Waits], d \in Waits :
          queue = {EventAt(2 * Start + first[c], c, 0) : c \in Channels}
            \cup (IF clock = "event_driven" THEN {} ELSE {DeadlineAt(2 * Start + d, 0)})
    BY DEF Init
  <2>2. \A c \in Channels : /\ EventAt(2 * Start + first[c], c, 0) \in Entry
                            /\ EventAt(2 * Start + first[c], c, 0).at \in Int
    <3> TAKE c \in Channels
    <3> DEFINE t == 2 * Start + first[c]
    <3>1. t \in Int
      <4>1. first[c] \in Nat
        OBVIOUS
      <4> QED BY <4>1
    <3> HIDE DEF t
    <3>2. EventAt(t, c, 0) \in Entry /\ EventAt(t, c, 0).at \in Int
      BY <3>1 DEF EventAt, Entry
    <3> QED BY <3>2 DEF t
  <2>3. DeadlineAt(2 * Start + d, 0) \in Entry /\ DeadlineAt(2 * Start + d, 0).at \in Int
    BY DEF DeadlineAt, Entry
  <2> QED BY <2>1, <2>2, <2>3
<1>6. TypeOK
  BY <1>2, <1>3, <1>4, <1>5 DEF Init, TypeOK
<1>7. Filed
  BY <1>2, <1>4 DEF Init, Filed, NoTransition, Points, Seconds
<1>8. Reached
  <2>1. \A x \in queue : CalendarTime(x.at) \in Seconds
    BY <1>5, RoundingMonotone
  <2>2. last[1] = Start - 1
    BY DEF Init, NoTransition
  <2>3. \A x \in queue : Start <= CalendarTime(x.at) /\ Start - 1 <= CalendarTime(x.at)
    BY <2>1 DEF Seconds
  <2> QED BY <1>2, <1>4, <2>2, <2>3 DEF Reached
<1>9. Ascending(changes) /\ LastIsLatest
  BY <1>2 DEF Ascending, LastIsLatest, LastChange
<1>10. RecordedStatesStand /\ EventsDistinctAndInOrder
  BY <1>4 DEF RecordedStatesStand, EventsDistinctAndInOrder
<1>11. NothingAfterTerminal
  BY <1>2, <1>4 DEF NothingAfterTerminal
<1>12. Alternating
  BY <1>2 DEF Alternating
<1> QED BY <1>6, <1>7, <1>8, <1>9, <1>10, <1>11, <1>12 DEF ScheduleSafe, ScheduleInv

(* Filing at a point ahead of everything, while the state is not terminal, *)
(* keeps everything but the types of the counters.                         *)
LEMMA FilingKeepsSafe ==
  ASSUME ScheduleSafe, NEW x \in queue, Due(x),
         NEW p \in Points, p[1] = CalendarTime(x.at), AllBefore(p), Filing(x, p),
         version' \in Nat, steps' \in Nat, status' \in {"running", "done", "limit"},
         clock' = clock
  PROVE  ScheduleSafe'
<1>1. Popped(x) /\ ~IsTerminal(changes)
  BY DEF Due, Active
<1>2. /\ changes' \in Seq(Change) /\ Len(changes') > 0 /\ queue' \subseteq Entry
      /\ nextOrdinal' \in [Seconds -> Nat] /\ rows' \in [Channels -> Seq(Row)]
      /\ last' = NoTransition \/ last' \in Points
      /\ Filed' /\ Reached' /\ Ascending(changes)' /\ LastIsLatest'
  BY <1>1, FilingKeepsInvariant DEF ScheduleSafe
<1>3. ScheduleInv'
  <2>1. clock \in Clocks
    BY DEF ScheduleSafe, ScheduleInv, TypeOK
  <2>2. TypeOK'
    BY <1>2, <2>1 DEF TypeOK
  <2> QED BY <1>2, <2>2 DEF ScheduleInv
<1>4. RecordedStatesStand'
  BY FilingKeepsRecords DEF ScheduleSafe
<1>5. NothingAfterTerminal'
  BY <1>1, FilingKeepsTerminals DEF ScheduleSafe
<1>6. EventsDistinctAndInOrder'
  BY FilingKeepsOrder DEF ScheduleSafe
<1>7. Alternating'
  BY FilingKeepsAlternation DEF ScheduleSafe
<1> QED BY <1>3, <1>4, <1>5, <1>6, <1>7 DEF ScheduleSafe

LEMMA NextSafe == ScheduleSafe /\ [Next]_vars => ScheduleSafe'
<1> SUFFICES ASSUME ScheduleSafe, [Next]_vars PROVE ScheduleSafe'
  OBVIOUS
<1> USE DEF ScheduleSafe
<1>1. TypeOK
  BY DEF ScheduleInv
<1>2. ASSUME NEW x \in queue, Transition(x) PROVE ScheduleSafe'
  <2>1. /\ Filing(x, DeadlinePoint(x)) /\ version' \in Nat /\ steps' \in Nat
        /\ status' = status /\ clock' = clock
    BY <1>2, TransitionFiles
  <2>2. /\ DeadlinePoint(x) \in Points /\ DeadlinePoint(x)[1] = CalendarTime(x.at)
        /\ AllBefore(DeadlinePoint(x))
    BY DeadlinePointAhead
  <2>3. Due(x)
    BY <1>2 DEF Transition
  <2>4. status' \in {"running", "done", "limit"}
    BY <1>1, <2>1 DEF TypeOK
  <2> QED BY <2>1, <2>2, <2>3, <2>4, FilingKeepsSafe
<1>3. ASSUME NEW x \in queue, Event(x) PROVE ScheduleSafe'
  <2>1. /\ Filing(x, EventPoint(x)) /\ Due(x) /\ version' \in Nat /\ steps' \in Nat
        /\ status' \in {status, "limit"} /\ clock' = clock
    BY <1>3, EventFiles
  <2>2. /\ EventPoint(x) \in Points /\ EventPoint(x)[1] = CalendarTime(x.at)
        /\ AllBefore(EventPoint(x))
    BY EventPointAhead
  <2>3. status' \in {"running", "done", "limit"}
    BY <1>1, <2>1 DEF TypeOK
  <2> QED BY <2>1, <2>2, <2>3, FilingKeepsSafe
<1>4. ASSUME /\ queue' \subseteq queue /\ status' \in {"running", "done", "limit"}
             /\ UNCHANGED <<clock, changes, nextOrdinal, last, version, rows, steps>>
      PROVE  ScheduleSafe'
  <2>1. TypeOK'
    BY <1>1, <1>4 DEF TypeOK
  <2>2. Filed' /\ Ascending(changes)' /\ LastIsLatest'
    BY <1>4 DEF ScheduleInv, Filed, Ascending, LastIsLatest
  <2>3. Reached'
    BY <1>4 DEF ScheduleInv, Reached
  <2>4. RecordedStatesStand' /\ NothingAfterTerminal' /\ EventsDistinctAndInOrder' /\ Alternating'
    BY <1>4 DEF RecordedStatesStand, NothingAfterTerminal, EventsDistinctAndInOrder, Alternating
  <2> QED BY <2>1, <2>2, <2>3, <2>4 DEF ScheduleInv
<1>5. CASE SkipStale
  BY <1>1, <1>4, <1>5 DEF SkipStale, TypeOK
<1>6. CASE Finish
  BY <1>1, <1>4, <1>6 DEF Finish
<1>7. CASE UNCHANGED vars
  BY <1>1, <1>4, <1>7 DEF vars, TypeOK
<1> QED BY <1>2, <1>3, <1>5, <1>6, <1>7 DEF Next

LEMMA SpecSafe == Spec => []ScheduleSafe
<1> QED BY InitSafe, NextSafe, PTL DEF Spec

-----------------------------------------------------------------------------
(* What follows for the scheduler                                          *)

(* Every variable of the scheduler keeps its type, whatever is drawn.      *)
THEOREM ScheduleTyped == Spec => []TypeOK
<1>1. ScheduleSafe => TypeOK
  BY DEF ScheduleSafe, ScheduleInv
<1> QED BY <1>1, SpecSafe, PTL

LEMMA AheadMayTransition ==
  ASSUME ScheduleInv, ~IsTerminal(changes), NEW p \in Points, AllBefore(p)
  PROVE  MayTransition(changes, p)
<1>1. changes \in Seq(Change) /\ Len(changes) > 0
  BY DEF ScheduleInv, TypeOK
<1>2. Before(LastChange(changes).at, p)
  BY <1>1 DEF AllBefore, LastChange
<1>3. Before(p, <<End + 1, InitialOrdinal>>)
  BY CalendarAndStates DEF Points, Seconds, Before
<1> QED BY <1>2, <1>3 DEF MayTransition

(* StatefulEntityTrajectory.transition accepts every point the scheduler   *)
(* gives it, so that the two ValueErrors it can raise never end a          *)
(* materialization.                                                        *)
THEOREM TransitionsNeverRefused == Spec => []TransitionsAccepted
<1>1. ScheduleSafe => TransitionsAccepted
  <2> SUFFICES ASSUME ScheduleInv, NEW x \in queue, Due(x)
               PROVE  /\ MayTransition(changes, DeadlinePoint(x))
                      /\ MayTransition(changes, EventPoint(x))
    BY DEF ScheduleSafe, TransitionsAccepted
  <2>1. ~IsTerminal(changes)
    BY DEF Due, Active
  <2>2. DeadlinePoint(x) \in Points /\ AllBefore(DeadlinePoint(x))
    BY DeadlinePointAhead
  <2>3. EventPoint(x) \in Points /\ AllBefore(EventPoint(x))
    BY EventPointAhead
  <2> QED BY <2>1, <2>2, <2>3, AheadMayTransition
<1> QED BY <1>1, SpecSafe, PTL

(* The state that a row recorded is the one the finished trajectory has at *)
(* the row's point.                                                        *)
THEOREM RecordsStand == Spec => []RecordedStatesStand
<1>1. ScheduleSafe => RecordedStatesStand
  BY DEF ScheduleSafe
<1> QED BY <1>1, SpecSafe, PTL

(* No two events of an entity share a calendar second and an ordinal, and  *)
(* each channel's rows are in order.                                       *)
THEOREM OneEventPerPoint == Spec => []EventsDistinctAndInOrder
<1>1. ScheduleSafe => EventsDistinctAndInOrder
  BY DEF ScheduleSafe
<1> QED BY <1>1, SpecSafe, PTL

(* A terminal state is the end of a trajectory and of the entity's events. *)
THEOREM TerminalIsFinal == Spec => []NothingAfterTerminal
<1>1. ScheduleSafe => NothingAfterTerminal
  BY DEF ScheduleSafe
<1> QED BY <1>1, SpecSafe, PTL

(* from_dict can rebuild every trajectory the scheduler leaves.            *)
THEOREM PersistedTrajectoryLoads == Spec => []TrajectoryReloads
<1>1. ScheduleSafe => TrajectoryReloads
  <2> SUFFICES ASSUME ScheduleSafe, NEW k \in 2..Len(changes)
               PROVE  /\ MayTransition(SubSeq(changes, 1, k - 1), changes[k].at)
                      /\ changes[k].state # changes[k - 1].state
    BY DEF TrajectoryReloads
  <2> DEFINE loaded == SubSeq(changes, 1, k - 1)
  <2>1. /\ changes \in Seq(Change) /\ Len(changes) \in Nat /\ TypeOK
        /\ k \in DOMAIN changes /\ k - 1 \in DOMAIN changes /\ k - 1 # Len(changes)
    BY DEF ScheduleSafe, ScheduleInv, TypeOK
  <2>2. LastChange(loaded) = changes[k - 1]
    BY <2>1 DEF LastChange
  <2>3. changes[k - 1].state \notin Terminals
    BY <2>1 DEF ScheduleSafe, NothingAfterTerminal
  <2>4. Before(changes[k - 1].at, changes[k].at)
    BY <2>1 DEF ScheduleSafe, ScheduleInv, Ascending
  <2>5. Before(changes[k].at, <<End + 1, InitialOrdinal>>)
    <3>1. changes[k].at[1] \in Seconds
      BY <2>1, PointsTyped
    <3> QED BY <3>1, CalendarAndStates DEF Seconds, Before
  <2>6. changes[k].state # changes[k - 1].state
    BY DEF ScheduleSafe, Alternating
  <2> HIDE DEF loaded
  <2>7. MayTransition(loaded, changes[k].at)
    BY <2>2, <2>3, <2>4, <2>5 DEF MayTransition, IsTerminal
  <2> QED BY <2>6, <2>7 DEF loaded
<1> QED BY <1>1, SpecSafe, PTL

-----------------------------------------------------------------------------
(* What is pending.  PendingBounded: no entry carries a version that has   *)
(* not been given out, so that a deadline with the next version is the     *)
(* only one that counts; and an event_driven clock has no deadlines.       *)

PendingBounded ==
  \A y \in queue : y.kind = 1 => y.seq <= version /\ clock # "event_driven"

PendingInv == ScheduleSafe /\ PendingBounded /\ OnePendingEach

Pending(c, z) ==
  /\ z \in queue /\ z.kind = 0 /\ z.channel = c
  /\ \A y \in queue : y.kind = 0 /\ y.channel = c => y = z

LEMMA TransitionKeepsPending ==
  ASSUME PendingInv, NEW x \in queue, Transition(x)
  PROVE  PendingBounded' /\ OnePendingEach'
<1> DEFINE due(w) == DeadlineAt(x.at + w, version + 1)
<1>1. /\ TypeOK /\ version \in Nat /\ queue \subseteq Entry
      /\ \A y \in queue : y.seq \in Nat
  <2>1. TypeOK
    BY DEF PendingInv, ScheduleSafe, ScheduleInv
  <2> QED BY <2>1 DEF TypeOK, Entry
<1>2. /\ Due(x) /\ x.kind = 1 /\ version' = version + 1 /\ status' = status /\ clock' = clock
      /\ IF IsTerminal(changes') THEN queue' = queue \ {x}
         ELSE \E w \in Waits : queue' = (queue \ {x}) \cup {due(w)}
  BY DEF Transition
<1>3. /\ status = "running" /\ ~IsTerminal(changes) /\ clock # "event_driven"
      /\ PendingBounded /\ \A c \in Channels : \E z : Pending(c, z)
  BY <1>2 DEF Due, Active, PendingInv, PendingBounded, OnePendingEach, Pending
<1>4. ASSUME NEW w PROVE due(w).kind = 1 /\ due(w).seq = version + 1
  BY DEF DeadlineAt
<1> HIDE DEF due
<1>5. PendingBounded'
  BY <1>1, <1>2, <1>3, <1>4 DEF PendingBounded
<1>6. ASSUME ~IsTerminal(changes')
      PROVE  /\ \A c \in Channels : \E z : Pending(c, z)'
             /\ \E z \in Live' : Live' = {z}
  <2>1. PICK w \in Waits : queue' = (queue \ {x}) \cup {due(w)}
    BY <1>2, <1>6
  <2>2. ASSUME NEW c \in Channels PROVE \E z : Pending(c, z)'
    <3>1. PICK z : Pending(c, z)
      BY <1>3
    <3>2. Pending(c, z)'
      BY <1>2, <1>4, <2>1, <3>1 DEF Pending
    <3> QED BY <3>2
  <2>3. due(w) \in Live'
    BY <1>2, <1>4, <2>1 DEF Live, Stale
  <2>4. ASSUME NEW y \in Live' PROVE y = due(w)
    <3>1. y \in queue' /\ y.kind = 1 /\ y.seq = version + 1
      BY <1>2 DEF Live, Stale
    <3>2. y \notin queue
      BY <1>1, <1>3, <3>1 DEF PendingBounded
    <3> QED BY <2>1, <3>1, <3>2
  <2> QED BY <2>2, <2>3, <2>4
<1>7. OnePendingEach'
  BY <1>2, <1>3, <1>6 DEF OnePendingEach, Pending, IsTerminal, LastChange
<1> QED BY <1>5, <1>7

LEMMA EventKeepsPending ==
  ASSUME PendingInv, NEW x \in queue, Event(x)
  PROVE  PendingBounded' /\ OnePendingEach'
<1> DEFINE n == Len(rows'[x.channel])
           next(w) == EventAt(x.at + w, x.channel, n)
           due(w) == DeadlineAt(x.at + w, version')
<1>1. /\ TypeOK /\ version \in Nat /\ queue \subseteq Entry
      /\ \A y \in queue : y.seq \in Nat
  <2>1. TypeOK
    BY DEF PendingInv, ScheduleSafe, ScheduleInv
  <2> QED BY <2>1 DEF TypeOK, Entry
<1>2. /\ Due(x) /\ x.kind = 0 /\ clock' = clock /\ MoveAtEvent(EventPoint(x))
      /\ \E deadline \in Redrawn(x.at) :
           IF steps' >= Limit \/ IsTerminal(changes')
           THEN /\ status' = IF steps' >= Limit THEN "limit" ELSE status
                /\ queue' = (queue \ {x}) \cup deadline
           ELSE /\ status' = status
                /\ \E w \in Waits : queue' = (queue \ {x}) \cup deadline \cup {next(w)}
  BY DEF Event
<1>3. /\ status = "running" /\ ~IsTerminal(changes)
      /\ PendingBounded /\ \A c \in Channels : \E z : Pending(c, z)
      /\ IF clock = "event_driven" THEN Live = {} ELSE \E z \in Live : Live = {z}
  BY <1>2 DEF Due, Active, PendingInv, PendingBounded, OnePendingEach, Pending
<1>4. version' = IF clock = "hybrid" THEN version + 1 ELSE version
  <2>1. CASE clock = "duration_driven"
    BY <1>2, <2>1 DEF MoveAtEvent
  <2>2. CASE clock # "duration_driven"
    BY <1>2, <2>2 DEF MoveAtEvent
  <2> QED BY <2>1, <2>2
<1>5. ASSUME NEW w
      PROVE  /\ next(w).kind = 0 /\ next(w).channel = x.channel
             /\ due(w).kind = 1 /\ due(w).seq = version'
  BY DEF EventAt, DeadlineAt
<1>6. PICK deadline :
        /\ IF clock = "hybrid" THEN \E w \in Waits : deadline = {due(w)} ELSE deadline = {}
        /\ IF steps' >= Limit \/ IsTerminal(changes')
           THEN /\ status' = IF steps' >= Limit THEN "limit" ELSE status
                /\ queue' = (queue \ {x}) \cup deadline
           ELSE /\ status' = status
                /\ \E w \in Waits : queue' = (queue \ {x}) \cup deadline \cup {next(w)}
  BY <1>2 DEF Redrawn
<1> HIDE DEF next, due
<1>7. \A y \in queue' : \/ y \in queue \/ y.kind = 0
                        \/ y.kind = 1 /\ y.seq = version' /\ clock = "hybrid"
  BY <1>5, <1>6
<1>8. PendingBounded'
  BY <1>1, <1>2, <1>3, <1>4, <1>7 DEF PendingBounded
<1>9. ASSUME status' = "running", ~IsTerminal(changes')
      PROVE  /\ \A c \in Channels : \E z : Pending(c, z)'
             /\ IF clock = "event_driven" THEN Live' = {} ELSE \E z \in Live' : Live' = {z}
  <2>1. PICK w \in Waits : queue' = (queue \ {x}) \cup deadline \cup {next(w)}
    BY <1>6, <1>9
  <2>2. \A y \in deadline : y.kind = 1 /\ y.seq = version' /\ clock = "hybrid"
    BY <1>5, <1>6
  <2>3. ASSUME NEW c \in Channels PROVE \E z : Pending(c, z)'
    <3>1. CASE c = x.channel
      <4>1. Pending(c, x)
        BY <1>2, <1>3, <3>1 DEF Pending
      <4>2. \E z : Pending(c, z)'
        <5>1. next(w) \in queue' /\ next(w).kind = 0 /\ next(w).channel = c
          BY <1>5, <2>1, <3>1
        <5>2. ASSUME NEW y \in queue', y.kind = 0, y.channel = c PROVE y = next(w)
          BY <2>1, <2>2, <4>1, <5>2 DEF Pending
        <5> QED BY <5>1, <5>2 DEF Pending
      <4> QED BY <4>2
    <3>2. CASE c # x.channel
      <4>1. PICK z : Pending(c, z)
        BY <1>3
      <4>2. Pending(c, z)'
        BY <1>5, <2>1, <2>2, <3>2, <4>1 DEF Pending
      <4> QED BY <4>2
    <3> QED BY <3>1, <3>2
  <2>4. CASE clock = "hybrid"
    <3>1. PICK v \in Waits : deadline = {due(v)}
      BY <1>6, <2>4
    <3>2. due(v) \in Live'
      BY <1>5, <2>1, <3>1 DEF Live, Stale
    <3>3. ASSUME NEW y \in Live' PROVE y = due(v)
      <4>1. y \in queue' /\ y.kind = 1 /\ y.seq = version + 1
        BY <1>4, <2>4 DEF Live, Stale
      <4>2. y \notin queue
        BY <1>1, <1>3, <4>1 DEF PendingBounded
      <4> QED BY <1>5, <2>1, <3>1, <4>1, <4>2
    <3> QED BY <2>3, <2>4, <3>2, <3>3
  <2>5. CASE clock # "hybrid"
    <3>1. deadline = {} /\ version' = version
      BY <1>4, <1>6, <2>5
    <3>2. Live' = Live
      BY <1>2, <1>5, <2>1, <3>1 DEF Live, Stale
    <3> QED BY <1>3, <2>3, <3>2
  <2> QED BY <2>4, <2>5
<1>10. OnePendingEach'
  BY <1>2, <1>9 DEF OnePendingEach, Pending, IsTerminal, LastChange
<1> QED BY <1>8, <1>10

LEMMA InitPending == Init => PendingBounded /\ OnePendingEach
<1> SUFFICES ASSUME Init PROVE PendingBounded /\ OnePendingEach
  OBVIOUS
<1>1. PICK first \in [Channels -> Waits], d \in Waits :
        queue = {EventAt(2 * Start + first[c], c, 0) : c \in Channels}
          \cup (IF clock = "event_driven" THEN {} ELSE {DeadlineAt(2 * Start + d, 0)})
  BY DEF Init
<1> DEFINE e(c) == EventAt(2 * Start + first[c], c, 0)
           m == DeadlineAt(2 * Start + d, 0)
<1>2. /\ version = 0 /\ m.kind = 1 /\ m.seq = 0
      /\ \A c \in Channels : e(c).kind = 0 /\ e(c).channel = c
  BY DEF Init, EventAt, DeadlineAt
<1> HIDE DEF e, m
<1>3. queue = {e(c) : c \in Channels} \cup (IF clock = "event_driven" THEN {} ELSE {m})
  BY <1>1 DEF e, m
<1>4. PendingBounded
  BY <1>2, <1>3 DEF PendingBounded
<1>5. \A c \in Channels : Pending(c, e(c))
  BY <1>2, <1>3 DEF Pending
<1>6. IF clock = "event_driven" THEN Live = {} ELSE m \in Live /\ Live = {m}
  BY <1>2, <1>3 DEF Live, Stale
<1> QED BY <1>4, <1>5, <1>6 DEF OnePendingEach, Pending

LEMMA NextPending == PendingInv /\ [Next]_vars => PendingInv'
<1> SUFFICES ASSUME PendingInv, [Next]_vars PROVE PendingInv'
  OBVIOUS
<1>1. ScheduleSafe'
  BY NextSafe DEF PendingInv
<1>2. CASE SkipStale
  <2>1. PICK x \in queue : Popped(x) /\ Stale(x) /\ queue' = queue \ {x}
    BY <1>2 DEF SkipStale
  <2>2. /\ x.kind = 1 /\ x \notin Live
        /\ UNCHANGED <<clock, changes, version, status>>
    BY <1>2, <2>1 DEF SkipStale, Stale, Live
  <2>3. Live' = Live
    BY <2>1, <2>2 DEF Live, Stale
  <2>4. PendingBounded'
    BY <2>1, <2>2 DEF PendingInv, PendingBounded
  <2>5. ASSUME NEW c \in Channels, NEW z, Pending(c, z) PROVE Pending(c, z)'
    BY <2>1, <2>2, <2>5 DEF Pending
  <2>6. OnePendingEach'
    BY <2>2, <2>3, <2>5 DEF PendingInv, OnePendingEach, Pending, IsTerminal, LastChange
  <2> QED BY <1>1, <2>4, <2>6 DEF PendingInv
<1>3. CASE Finish
  BY <1>1, <1>3 DEF Finish, PendingInv, PendingBounded, OnePendingEach
<1>4. CASE UNCHANGED vars
  BY <1>1, <1>4 DEF vars, PendingInv, PendingBounded, OnePendingEach, Live, Stale,
     IsTerminal, LastChange
<1>5. CASE \E x \in queue : Transition(x) \/ Event(x)
  BY <1>1, <1>5, TransitionKeepsPending, EventKeepsPending DEF PendingInv
<1> QED BY <1>2, <1>3, <1>4, <1>5 DEF Next

LEMMA SpecPending == Spec => []PendingInv
<1>1. Init => PendingInv
  BY InitSafe, InitPending DEF PendingInv
<1> QED BY <1>1, NextPending, PTL DEF Spec

(* While the loop goes on, every channel has one event pending, and one    *)
(* deadline counts: replacing it at an event never leaves two that could   *)
(* fire, and an expired one is always redrawn.                             *)
THEOREM OnePendingEachHolds == Spec => []OnePendingEach
<1>1. PendingInv => OnePendingEach
  BY DEF PendingInv
<1> QED BY <1>1, SpecPending, PTL

-----------------------------------------------------------------------------
(* One history.  The moment of the history is the latest of the points of  *)
(* the last transition and of the channels' last rows: there is one, since *)
(* each step files after all of them.                                      *)

IsMoment(p) == p \in AllPoints /\ \A q \in AllPoints : q = p \/ Before(q, p)
Moment == CHOOSE p \in AllPoints : \A q \in AllPoints : q = p \/ Before(q, p)

HistoryInv == ScheduleSafe /\ \E p : IsMoment(p)

LEMMA AllPointsOrdered ==
  ASSUME ScheduleInv, NEW q \in AllPoints
  PROVE  q[1] \in Int /\ q[2] \in Int
<1>1. TypeOK
  BY DEF ScheduleInv
<1>2. CASE q = last
  BY <1>1, <1>2, PointsTyped
<1>3. ASSUME NEW c \in Channels, rows[c] # <<>>, q = rows[c][Len(rows[c])].at
      PROVE  q[1] \in Int /\ q[2] \in Int
  <2>1. rows[c] \in Seq(Row)
    BY <1>1 DEF TypeOK
  <2>2. Len(rows[c]) \in DOMAIN rows[c]
    BY <1>3, <2>1
  <2> QED BY <1>1, <1>3, <2>2, PointsTyped DEF Seconds
<1> QED BY <1>2, <1>3 DEF AllPoints

OneMoment == \A p : ScheduleInv /\ IsMoment(p) => Moment = p

LEMMA MomentIs == OneMoment
<1> SUFFICES ASSUME NEW p, ScheduleInv, IsMoment(p) PROVE Moment = p
  BY DEF OneMoment
<1>1. \A q \in AllPoints : q[1] \in Int /\ q[2] \in Int
  BY AllPointsOrdered
<1>2. ASSUME NEW q \in AllPoints, \A r \in AllPoints : r = q \/ Before(r, q)
      PROVE  q = p
  BY <1>1, <1>2 DEF IsMoment, Before
<1>3. p \in AllPoints /\ \A q \in AllPoints : q = p \/ Before(q, p)
  BY DEF IsMoment
<1> QED BY <1>2, <1>3 DEF Moment

(* A step that files at a point ahead of everything, and leaves it the     *)
(* point of the last transition or of a channel's last row, moves the      *)
(* history there.                                                          *)
LEMMA FilingAdvances ==
  ASSUME HistoryInv, ScheduleSafe', ~IsTerminal(changes), NEW x,
         NEW p \in Points, AllBefore(p), Filing(x, p), p \in AllPoints'
  PROVE  /\ IsMoment(p)' /\ Moment' = p
         /\ Moment[1] < p[1] \/ (Moment[1] = p[1] /\ Moment[2] < p[2])
         /\ LastChange(changes).state \notin Terminals
         /\ LastChange(changes').state \in States
         /\ StateBefore(changes, p) = LastChange(changes).state
<1>1. TypeOK /\ TypeOK' /\ ScheduleInv /\ ScheduleInv'
  BY DEF HistoryInv, ScheduleSafe, ScheduleInv
<1>2. last' = last \/ last' = p
  BY <1>1, FiledChanges
<1>3. ASSUME NEW c \in Channels, rows'[c] # <<>>
      PROVE  LET q == rows'[c][Len(rows'[c])].at IN q = p \/ Before(q, p)
  <2>1. rows'[c] \in Seq(Row)
    BY <1>1 DEF TypeOK
  <2>2. Len(rows'[c]) \in DOMAIN rows'[c]
    BY <1>3, <2>1
  <2>3. NewRow(p).at = p
    BY DEF NewRow
  <2> QED BY <1>1, <2>2, <2>3, FiledRows DEF AllBefore
<1>4. \A q \in AllPoints' : q = p \/ Before(q, p)
  BY <1>2, <1>3 DEF AllPoints, AllBefore
<1>5. IsMoment(p)'
  BY <1>4 DEF IsMoment
<1>6. Moment' = p
  <2>1. OneMoment'
    BY MomentIs, PTL
  <2> QED BY <1>1, <1>5, <2>1 DEF OneMoment
<1>7. Before(Moment, p)
  <2>1. PICK q : IsMoment(q)
    BY DEF HistoryInv
  <2>2. Moment = q /\ q \in AllPoints
    BY <1>1, <2>1, MomentIs DEF OneMoment, IsMoment
  <2>3. \A c \in Channels : rows[c] # <<>> => Len(rows[c]) \in DOMAIN rows[c]
    <3> TAKE c \in Channels
    <3>1. rows[c] \in Seq(Row)
      BY <1>1 DEF TypeOK
    <3> QED BY <3>1
  <2> QED BY <2>2, <2>3 DEF AllPoints, AllBefore
<1>8. LastChange(changes').state \in States
  <2>1. LastChange(changes') \in Change
    BY <1>1 DEF TypeOK, LastChange
  <2> QED BY <2>1 DEF Change
<1>9. StateBefore(changes, p) = LastChange(changes).state
  BY <1>1, StatePastAll DEF TypeOK, AllBefore
<1> QED BY <1>5, <1>6, <1>7, <1>8, <1>9 DEF Before, IsTerminal

LEMMA TransitionMoves ==
  ASSUME HistoryInv, ScheduleSafe', NEW x \in queue, Transition(x)
  PROVE  (\E p : IsMoment(p)') /\ OneHistory!Move
<1> PICK p : p = DeadlinePoint(x)
  OBVIOUS
<1>1. ScheduleInv
  BY DEF HistoryInv, ScheduleSafe
<1>2. /\ Filing(x, p) /\ rows' = rows /\ last' = p /\ status' = status
      /\ p \in Points /\ AllBefore(p)
  BY <1>1, TransitionFiles, DeadlinePointAhead
<1>3. status = "running" /\ ~IsTerminal(changes)
  BY DEF Transition, Due, Active
<1>4. p \in AllPoints'
  BY <1>2 DEF AllPoints
<1>5. /\ IsMoment(p)' /\ Moment' = p
      /\ Moment[1] < p[1] \/ (Moment[1] = p[1] /\ Moment[2] < p[2])
      /\ LastChange(changes).state \notin Terminals
      /\ LastChange(changes').state \in States
  BY <1>2, <1>3, <1>4, FilingAdvances
<1>6. OneHistory!Advance
  BY <1>3, <1>5 DEF OneHistory!Advance, Moment
<1>7. (LastChange(changes).state)' \in States
  BY <1>5 DEF LastChange
<1> QED BY <1>2, <1>5, <1>6, <1>7 DEF OneHistory!Move

LEMMA EventEmits ==
  ASSUME HistoryInv, ScheduleSafe', NEW x \in queue, Event(x)
  PROVE  (\E p : IsMoment(p)') /\ OneHistory!Emit(x.channel) /\ x.channel \in Channels
<1> PICK p : p = EventPoint(x)
  OBVIOUS
<1>1. ScheduleInv /\ TypeOK /\ TypeOK'
  BY DEF HistoryInv, ScheduleSafe, ScheduleInv
<1>2. Filing(x, p) /\ Due(x) /\ p \in Points /\ AllBefore(p)
  BY <1>1, EventFiles, EventPointAhead
<1>3. status = "running" /\ ~IsTerminal(changes) /\ x.kind = 0
  BY DEF Event, Due, Active
<1>4. x.channel \in Channels
  BY <1>1, <1>3 DEF TypeOK, Entry
<1>5. rows' = [rows EXCEPT ![x.channel] =
                 Append(@, [at |-> p, state |-> StateBefore(changes, p)])]
  BY DEF Event, Record
<1>6. p \in AllPoints'
  <2> DEFINE r == [at |-> p, state |-> StateBefore(changes, p)]
             c == x.channel
  <2>1. rows[c] \in Seq(Row) /\ rows' = [rows EXCEPT ![c] = Append(rows[c], r)]
        /\ c \in Channels /\ rows \in [Channels -> Seq(Row)]
    BY <1>1, <1>4, <1>5 DEF TypeOK
  <2>2. r.at = p
    OBVIOUS
  <2> HIDE DEF r, c
  <2>3. rows'[c] = Append(rows[c], r)
    BY <2>1
  <2>4. Len(rows'[c]) = Len(rows[c]) + 1 /\ rows'[c][Len(rows[c]) + 1] = r /\ rows'[c] # <<>>
    BY <2>1, <2>3
  <2>5. rows'[c][Len(rows'[c])].at = p
    BY <2>2, <2>4
  <2> QED BY <2>1, <2>4, <2>5 DEF AllPoints
<1>7. /\ IsMoment(p)' /\ Moment' = p
      /\ Moment[1] < p[1] \/ (Moment[1] = p[1] /\ Moment[2] < p[2])
      /\ LastChange(changes).state \notin Terminals
      /\ LastChange(changes').state \in States
      /\ StateBefore(changes, p) = LastChange(changes).state
  BY <1>2, <1>3, <1>6, FilingAdvances
<1>8. OneHistory!Advance
  BY <1>3, <1>7 DEF OneHistory!Advance, Moment
<1>9. (LastChange(changes).state)' \in States
  BY <1>7 DEF LastChange
<1>10. rows' = [rows EXCEPT ![x.channel] =
                  Append(@, [at |-> Moment', state |-> LastChange(changes).state])]
  BY <1>5, <1>7
<1> QED BY <1>4, <1>7, <1>8, <1>9, <1>10 DEF OneHistory!Emit, Moment

LEMMA HistorySteps ==
  HistoryInv /\ [Next]_vars
    => /\ HistoryInv'
       /\ [OneHistory!Move \/ OneHistory!Close
           \/ \E c \in Channels : OneHistory!Emit(c)]_(OneHistory!hvars)
<1> SUFFICES ASSUME HistoryInv, [Next]_vars
             PROVE  /\ \E p : IsMoment(p)'
                    /\ \/ OneHistory!Move \/ OneHistory!Close
                       \/ \E c \in Channels : OneHistory!Emit(c)
                       \/ UNCHANGED OneHistory!hvars
  BY NextSafe DEF HistoryInv
<1>1. ScheduleSafe'
  BY NextSafe DEF HistoryInv
<1>2. ASSUME last' = last, rows' = rows
      PROVE  (\E p : IsMoment(p)') /\ Moment' = Moment
  <2>1. AllPoints' = AllPoints
    BY <1>2 DEF AllPoints
  <2> QED BY <2>1 DEF HistoryInv, IsMoment, Moment
<1>3. ASSUME UNCHANGED <<changes, last, rows, status>>
      PROVE  (\E p : IsMoment(p)') /\ UNCHANGED OneHistory!hvars
  BY <1>2, <1>3 DEF OneHistory!hvars, Moment, LastChange
<1>4. CASE SkipStale
  BY <1>3, <1>4 DEF SkipStale
<1>5. CASE UNCHANGED vars
  BY <1>3, <1>5 DEF vars
<1>6. CASE Finish
  <2>1. /\ status = "running" /\ status' = "done"
        /\ UNCHANGED <<changes, last, rows>>
    BY <1>6 DEF Finish
  <2>2. (\E p : IsMoment(p)') /\ Moment' = Moment
    BY <1>2, <2>1
  <2>3. OneHistory!Close
    BY <2>1, <2>2 DEF OneHistory!Close, Moment, LastChange
  <2> QED BY <2>2, <2>3
<1>7. CASE \E x \in queue : Transition(x) \/ Event(x)
  BY <1>1, <1>7, TransitionMoves, EventEmits
<1> QED BY <1>4, <1>5, <1>6, <1>7 DEF Next

(* The heap, the deadlines and their versions, the ordinals of a second    *)
(* and the clocks are one way to produce a history: each event and each    *)
(* move of state comes strictly after all before it, and each event        *)
(* records the state they have left.                                       *)
THEOREM ScheduleIsOneHistory == Spec => ImplementsHistory
<1>1. Init => HistoryInv /\ OneHistory!HistoryInit
  <2> SUFFICES ASSUME Init PROVE HistoryInv /\ OneHistory!HistoryInit
    OBVIOUS
  <2>1. ScheduleSafe /\ TypeOK
    BY InitSafe DEF ScheduleSafe, ScheduleInv
  <2>2. rows = [c \in Channels |-> <<>>] /\ status = "running"
    BY DEF Init
  <2>3. AllPoints = {last}
    BY <2>2 DEF AllPoints
  <2>4. IsMoment(last)
    BY <2>3 DEF IsMoment
  <2>5. LastChange(changes).state \in States
    <3>1. LastChange(changes) \in Change
      BY <2>1 DEF TypeOK, LastChange
    <3> QED BY <3>1 DEF Change
  <2> QED BY <2>1, <2>2, <2>4, <2>5 DEF HistoryInv, OneHistory!HistoryInit
<1> QED BY <1>1, HistorySteps, PTL DEF Spec, ImplementsHistory, OneHistory!History
=============================================================================

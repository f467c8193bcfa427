---------------------------- MODULE StateTrajectory ----------------------------
(***************************************************************************)
(* StateTrajectory: the private state of one entity over the database      *)
(* calendar, as the sequence of its changes.  A point is a calendar second *)
(* and an ordinal among what happens in that second; points are ordered    *)
(* lexicographically.                                                      *)
(***************************************************************************)
EXTENDS Integers, Sequences

CONSTANTS
  Start, End,   \* calendar_start, calendar_end
  States,       \* state_space.values
  Terminals     \* state_space.terminal_states

ASSUME CalendarAndStates ==
  /\ Start \in Int /\ End \in Int /\ Start < End
  /\ Terminals \subseteq States /\ States # {}

(* Below every ordinal the scheduler uses; -(2^63) in the code.            *)
InitialOrdinal == -2

Seconds == Start..End
Points == Seconds \X Int
Change == [at : Points, state : States]

Before(p, q) == p[1] < q[1] \/ (p[1] = q[1] /\ p[2] < q[2])

Beginning(s) == <<[at |-> <<Start, InitialOrdinal>>, state |-> s]>>
LastChange(changes) == changes[Len(changes)]
IsTerminal(changes) == LastChange(changes).state \in Terminals

(* state_before: _state_at scans the changes up to the first that is not   *)
(* before p.                                                               *)
StateBefore(changes, p) ==
  LET seen == {k \in DOMAIN changes : \A j \in 1..k : Before(changes[j].at, p)} IN
    IF seen = {} THEN changes[1].state
    ELSE changes[CHOOSE k \in seen : \A j \in seen : j <= k].state

(* What transition() asks of its point and of the state it leaves; it      *)
(* raises ValueError otherwise.                                            *)
MayTransition(changes, p) ==
  /\ ~IsTerminal(changes)
  /\ Before(LastChange(changes).at, p)
  /\ Before(p, <<End + 1, InitialOrdinal>>)

MovedAlways(changes, p, s) == Append(changes, [at |-> p, state |-> s])

(* A transition into the state that is held already records nothing.       *)
Moved(changes, p, s) ==
  IF s = LastChange(changes).state THEN changes
  ELSE Append(changes, [at |-> p, state |-> s])
=============================================================================

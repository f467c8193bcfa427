----------------------------- MODULE EntityHistory -----------------------------
(***************************************************************************)
(* What the event scheduler promises about one entity, without queues,     *)
(* versions, clocks and rates: its events and its moves of state follow    *)
(* one another in strictly advancing logical time, every event records     *)
(* the state that all moves before it have left, and nothing follows a     *)
(* terminal state.                                                         *)
(***************************************************************************)
EXTENDS Integers, Sequences

CONSTANTS Sources, Values, Finals

VARIABLES
  moment,    \* the logical time of the last event or move
  state,     \* the state of the entity
  emitted,   \* source -> the events it emitted
  open       \* the history may go on

hvars == <<moment, state, emitted, open>>

Advance ==
  /\ open /\ state \notin Finals
  /\ moment[1] < moment'[1] \/ (moment[1] = moment'[1] /\ moment[2] < moment'[2])

(* An event, which may also move the state once it has recorded it.        *)
Emit(c) ==
  /\ Advance
  /\ emitted' = [emitted EXCEPT ![c] = Append(@, [at |-> moment', state |-> state])]
  /\ state' \in Values
  /\ open' \in BOOLEAN

Move ==
  /\ Advance
  /\ state' \in Values
  /\ UNCHANGED <<emitted, open>>

Close ==
  /\ open /\ open' = FALSE
  /\ UNCHANGED <<moment, state, emitted>>

HistoryInit ==
  /\ state \in Values
  /\ emitted = [c \in Sources |-> <<>>]
  /\ open = TRUE

History == HistoryInit /\ [][Move \/ Close \/ \E c \in Sources : Emit(c)]_hvars
=============================================================================

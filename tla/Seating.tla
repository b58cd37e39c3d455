------------------------------- MODULE Seating -------------------------------
(***************************************************************************)
(* What one event of the EMS promises to the threads that use it: RESERVE  *)
(* takes all the seats it names or none, SHOW prints one single state of   *)
(* the room.  Between the call and its return each operation takes effect  *)
(* in one indivisible step.  SeatLocks (per-seat locks, first project) and *)
(* its clients are shown to implement this module.                         *)
(***************************************************************************)
EXTENDS Naturals

CONSTANTS
  Threads,     \* the threads that call the operations
  Places,      \* the seats of the event
  Requests     \* the sets of seats a RESERVE may name, existing or not

VARIABLES
  seat,        \* seat[p]: number of the reservation that holds p, 0 if free
  op           \* op[t]: the operation t is in, with its outcome once it has one

vars == <<seat, op>>

Idle       == [state |-> "idle"]
Showing    == [state |-> "showing"]
Granted    == [state |-> "granted"]
Refused    == [state |-> "refused"]
Reservings == [state : {"reserving"}, want : Requests, id : Nat \ {0}]
Shown(room) == [state |-> "shown", room |-> room]

Init ==
  /\ seat = [p \in Places |-> 0]
  /\ op = [t \in Threads |-> Idle]

Free(r) == r \subseteq Places /\ \A p \in r : seat[p] = 0

\* The number is any positive one: the code does not keep it unique.
CallReserve(t) ==
  /\ op[t] = Idle
  /\ op'[t] \in Reservings
  /\ op' = [op EXCEPT ![t] = op'[t]]
  /\ UNCHANGED seat

\* All the seats of the request at once, and only when every one is free.
Grant(t) ==
  /\ op[t].state = "reserving"
  /\ Free(op[t].want)
  /\ seat' = [p \in Places |-> IF p \in op[t].want THEN op[t].id ELSE seat[p]]
  /\ op' = [op EXCEPT ![t] = Granted]

\* A refusal has a reason that is true at the moment it is decided.
Refuse(t) ==
  /\ op[t].state = "reserving"
  /\ ~ Free(op[t].want)
  /\ op' = [op EXCEPT ![t] = Refused]
  /\ UNCHANGED seat

CallShow(t) ==
  /\ op[t] = Idle
  /\ op' = [op EXCEPT ![t] = Showing]
  /\ UNCHANGED seat

Snapshot(t) ==
  /\ op[t] = Showing
  /\ op' = [op EXCEPT ![t] = Shown(seat)]
  /\ UNCHANGED seat

Return(t) ==
  /\ op[t].state \in {"granted", "refused", "shown"}
  /\ op' = [op EXCEPT ![t] = Idle]
  /\ UNCHANGED seat

Next == \E t \in Threads :
          \/ CallReserve(t) \/ Grant(t) \/ Refuse(t)
          \/ CallShow(t) \/ Snapshot(t)
          \/ Return(t)

Spec == Init /\ [][Next]_vars
==============================================================================

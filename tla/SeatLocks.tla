------------------------------ MODULE SeatLocks ------------------------------
(***************************************************************************)
(* ems_reserve and ems_show of the first EMS project                       *)
(* (2nd year/OS/P1/operations.c) on one event, called by several threads.  *)
(*                                                                         *)
(* Every seat has a read-write lock; the event's reservation counter has a *)
(* mutex, held only inside event_increment_reservation, which is therefore *)
(* one step here.  The sorted array idxs, whose duplicates the loops skip, *)
(* is the set todo, taken in ascending order.  A read-write lock admits a  *)
(* reader whenever no writer holds it, even if writers wait: the default   *)
(* kind of the C library.                                                  *)
(***************************************************************************)
EXTENDS Integers, FiniteSets

CONSTANTS
  Threads,        \* threads of the pool
  None,           \* "no thread": a free write lock
  Rows, Cols,     \* size of the event
  Requests,       \* the sets of <<row, column>> that RESERVE lines name
  MaxOps          \* commands each thread still executes (the job file is finite)

ASSUME ThreadsAssumption == None \notin Threads /\ IsFiniteSet(Threads)
ASSUME SizeAssumption    == Rows \in Nat \ {0} /\ Cols \in Nat \ {0}
ASSUME OpsAssumption     == MaxOps \in Nat
\* execute_reserve rejects a line that names no seat before ems_reserve is called.
ASSUME RequestsAssumption == Requests \subseteq (SUBSET (Nat \X Nat)) \ {{}}

Coords == (1 .. Rows) \X (1 .. Cols)
Seats  == 0 .. (Rows * Cols - 1)

SeatIndex(c) == (c[1] - 1) * Cols + c[2] - 1

VARIABLES
  data,           \* event->data: reservation that holds each seat, 0 if free
  writer,         \* event->data_locks: the thread holding each in write mode
  readers,        \* event->data_locks: the threads holding each in read mode
  reservations,   \* event->reservations
  pc,             \* where each thread is
  req,            \* xs, ys of the RESERVE a thread is executing
  rid,            \* reservation_id of the RESERVE a thread is executing
  todo,           \* indices still to lock
  held,           \* indices locked so far and not yet unlocked
  snap,           \* the string a SHOW accumulates
  left,           \* commands the thread has still to execute
  granted         \* history: number of RESERVE that took their seats

vars == <<data, writer, readers, reservations, pc, req, rid, todo, held, snap,
          left, granted>>

locks == <<writer, readers>>

InReserve == {"check", "lock", "take", "release", "undo", "back"}
InShow    == {"slock", "sunlock"}

TypeOK ==
  /\ data \in [Seats -> Nat]
  /\ writer \in [Seats -> Threads \cup {None}]
  /\ readers \in [Seats -> SUBSET Threads]
  /\ reservations \in Nat
  /\ pc \in [Threads -> {"idle"} \cup InReserve \cup InShow]
  /\ req \in [Threads -> Requests \cup {{}}]
  /\ rid \in [Threads -> Nat]
  /\ todo \in [Threads -> SUBSET Seats]
  /\ held \in [Threads -> SUBSET Seats]
  /\ snap \in [Threads -> [Seats -> Nat]]
  /\ left \in [Threads -> 0 .. MaxOps]
  /\ granted \in Nat

NoSeats == [s \in Seats |-> 0]

Init ==
  /\ data = NoSeats
  /\ writer = [s \in Seats |-> None]
  /\ readers = [s \in Seats |-> {}]
  /\ reservations = 0
  /\ pc = [t \in Threads |-> "idle"]
  /\ req = [t \in Threads |-> {}]
  /\ rid = [t \in Threads |-> 0]
  /\ todo = [t \in Threads |-> {}]
  /\ held = [t \in Threads |-> {}]
  /\ snap = [t \in Threads |-> NoSeats]
  /\ left = [t \in Threads |-> MaxOps]
  /\ granted = 0

\* Mutants of the definitions of this module, for the checks of its properties.
IsAny(s, S) == s \in S                       \* idxs is not sorted

BoundsCheckColumnsOnly(t) ==                 \* row > event_rows is not tested
  /\ pc[t] = "check"
  /\ IF \A c \in req[t] : c[1] > 0 /\ c[2] \in 1 .. Cols
       THEN /\ todo' = [todo EXCEPT ![t] = {SeatIndex(c) : c \in req[t]}]
            /\ pc' = [pc EXCEPT ![t] = "lock"]
       ELSE /\ pc' = [pc EXCEPT ![t] = "back"]
            /\ UNCHANGED todo
  /\ UNCHANGED <<data, locks, reservations, req, rid, held, snap, left, granted>>

ConflictKeepsNumber(t, s) ==   \* no decrement when nothing is held
  /\ pc[t] = "take" /\ s \in todo[t] /\ \A u \in todo[t] : s <= u
  /\ data[s] # 0
  /\ writer' = [writer EXCEPT ![s] = None]
  /\ todo' = [todo EXCEPT ![t] = {}]
  /\ pc' = [pc EXCEPT ![t] = IF held[t] = {} THEN "idle" ELSE "undo"]
  /\ UNCHANGED <<data, readers, reservations, req, rid, held, snap, left, granted>>

ConflictKeepsLock(t, s) ==     \* the seat in conflict stays locked
  /\ pc[t] = "take" /\ s \in todo[t] /\ \A u \in todo[t] : s <= u
  /\ data[s] # 0
  /\ todo' = [todo EXCEPT ![t] = {}]
  /\ pc' = [pc EXCEPT ![t] = IF held[t] = {} THEN "back" ELSE "undo"]
  /\ UNCHANGED <<data, locks, reservations, req, rid, held, snap, left, granted>>

UndoKeepsSeat(t, s) ==         \* unlocks without writing 0
  /\ pc[t] = "undo" /\ s \in held[t] /\ \A u \in held[t] : s <= u
  /\ writer' = [writer EXCEPT ![s] = None]
  /\ held' = [held EXCEPT ![t] = @ \ {s}]
  /\ pc' = [pc EXCEPT ![t] = IF held[t] = {s} THEN "back" ELSE "undo"]
  /\ UNCHANGED <<data, readers, reservations, req, rid, todo, snap, left, granted>>

------------------------------------------------------------------------------

\* The element a loop over the sorted array reaches first.
IsFirst(s, S) == s \in S /\ \A u \in S : s <= u

------------------------------------------------------------------------------
(* RESERVE *)

\* event_increment_reservation(event, 1) comes before anything is checked.
ReserveStart(t) ==
  /\ pc[t] = "idle" /\ left[t] > 0
  /\ \E r \in Requests : req' = [req EXCEPT ![t] = r]
  /\ reservations' = reservations + 1
  /\ rid' = [rid EXCEPT ![t] = reservations + 1]
  /\ pc' = [pc EXCEPT ![t] = "check"]
  /\ left' = [left EXCEPT ![t] = @ - 1]
  /\ UNCHANGED <<data, locks, todo, held, snap, granted>>

BoundsCheck(t) ==
  /\ pc[t] = "check"
  /\ IF req[t] \subseteq Coords
       THEN /\ todo' = [todo EXCEPT ![t] = {SeatIndex(c) : c \in req[t]}]
            /\ pc' = [pc EXCEPT ![t] = "lock"]
       ELSE /\ pc' = [pc EXCEPT ![t] = "back"]
            /\ UNCHANGED todo
  /\ UNCHANGED <<data, locks, reservations, req, rid, held, snap, left, granted>>

LockSeat(t, s) ==
  /\ pc[t] = "lock" /\ IsFirst(s, todo[t])
  /\ writer[s] = None /\ readers[s] = {}
  /\ writer' = [writer EXCEPT ![s] = t]
  /\ pc' = [pc EXCEPT ![t] = "take"]
  /\ UNCHANGED <<data, readers, reservations, req, rid, todo, held, snap, left, granted>>

TakeSeat(t, s) ==
  /\ pc[t] = "take" /\ IsFirst(s, todo[t])
  /\ data[s] = 0
  /\ data' = [data EXCEPT ![s] = rid[t]]
  /\ held' = [held EXCEPT ![t] = @ \cup {s}]
  /\ todo' = [todo EXCEPT ![t] = @ \ {s}]
  /\ IF todo[t] = {s}
       THEN pc' = [pc EXCEPT ![t] = "release"] /\ granted' = granted + 1
       ELSE pc' = [pc EXCEPT ![t] = "lock"] /\ UNCHANGED granted
  /\ UNCHANGED <<locks, reservations, req, rid, snap, left>>

\* The seat is taken: its lock is dropped and the loop left with failed = 1.
Conflict(t, s) ==
  /\ pc[t] = "take" /\ IsFirst(s, todo[t])
  /\ data[s] # 0
  /\ writer' = [writer EXCEPT ![s] = None]
  /\ todo' = [todo EXCEPT ![t] = {}]
  /\ pc' = [pc EXCEPT ![t] = IF held[t] = {} THEN "back" ELSE "undo"]
  /\ UNCHANGED <<data, readers, reservations, req, rid, held, snap, left, granted>>

Undo(t, s) ==
  /\ pc[t] = "undo" /\ IsFirst(s, held[t])
  /\ data' = [data EXCEPT ![s] = 0]
  /\ writer' = [writer EXCEPT ![s] = None]
  /\ held' = [held EXCEPT ![t] = @ \ {s}]
  /\ pc' = [pc EXCEPT ![t] = IF held[t] = {s} THEN "back" ELSE "undo"]
  /\ UNCHANGED <<readers, reservations, req, rid, todo, snap, left, granted>>

Release(t, s) ==
  /\ pc[t] = "release" /\ IsFirst(s, held[t])
  /\ writer' = [writer EXCEPT ![s] = None]
  /\ held' = [held EXCEPT ![t] = @ \ {s}]
  /\ pc' = [pc EXCEPT ![t] = IF held[t] = {s} THEN "idle" ELSE "release"]
  /\ UNCHANGED <<data, readers, reservations, req, rid, todo, snap, left, granted>>

\* event_increment_reservation(event, -1), then the error message and return 1.
GiveBack(t) ==
  /\ pc[t] = "back"
  /\ reservations' = reservations - 1
  /\ pc' = [pc EXCEPT ![t] = "idle"]
  /\ UNCHANGED <<data, locks, req, rid, todo, held, snap, left, granted>>

------------------------------------------------------------------------------
(* SHOW *)

ShowStart(t) ==
  /\ pc[t] = "idle" /\ left[t] > 0
  /\ todo' = [todo EXCEPT ![t] = Seats]
  /\ snap' = [snap EXCEPT ![t] = NoSeats]
  /\ pc' = [pc EXCEPT ![t] = "slock"]
  /\ left' = [left EXCEPT ![t] = @ - 1]
  /\ UNCHANGED <<data, locks, reservations, req, rid, held, granted>>

ShowLock(t, s) ==
  /\ pc[t] = "slock" /\ IsFirst(s, todo[t])
  /\ writer[s] = None
  /\ readers' = [readers EXCEPT ![s] = @ \cup {t}]
  /\ snap' = [snap EXCEPT ![t][s] = data[s]]
  /\ held' = [held EXCEPT ![t] = @ \cup {s}]
  /\ todo' = [todo EXCEPT ![t] = @ \ {s}]
  /\ pc' = [pc EXCEPT ![t] = IF todo[t] = {s} THEN "sunlock" ELSE "slock"]
  /\ UNCHANGED <<data, writer, reservations, req, rid, left, granted>>

ShowUnlock(t, s) ==
  /\ pc[t] = "sunlock" /\ IsFirst(s, held[t])
  /\ readers' = [readers EXCEPT ![s] = @ \ {t}]
  /\ held' = [held EXCEPT ![t] = @ \ {s}]
  /\ pc' = [pc EXCEPT ![t] = IF held[t] = {s} THEN "idle" ELSE "sunlock"]
  /\ UNCHANGED <<data, writer, reservations, req, rid, todo, snap, left, granted>>

------------------------------------------------------------------------------

Step(t) ==
  \/ ReserveStart(t) \/ BoundsCheck(t) \/ GiveBack(t) \/ ShowStart(t)
  \/ \E s \in Seats :
       \/ LockSeat(t, s) \/ TakeSeat(t, s) \/ Conflict(t, s) \/ Undo(t, s)
       \/ Release(t, s) \/ ShowLock(t, s) \/ ShowUnlock(t, s)

Next == \E t \in Threads : Step(t)

Spec == Init /\ [][Next]_vars

\* A thread that can run does run: the kernel schedules every thread.
FairSpec == Spec /\ \A t \in Threads : WF_vars(Step(t))
------------------------------------------------------------------------------
(* Properties *)

\* The event's counter is the number of reservations that took their seats plus
\* the ones still undecided or not yet given back (the +1 of operations.c:150
\* against the -1 of lines 159 and 193, in any interleaving).
Undecided == {t \in Threads : pc[t] \in {"check", "lock", "take", "undo", "back"}}
CounterExact == reservations = granted + Cardinality(Undecided)

\* A thread is blocked when the next seat it must lock is held against it.
Blocked(t) == \E s \in Seats :
  /\ IsFirst(s, todo[t])
  /\ \/ pc[t] = "lock" /\ (writer[s] # None \/ readers[s] # {})
     \/ pc[t] = "slock" /\ writer[s] # None

\* No set of RESERVE and SHOW can wait for each other for ever: while a command
\* is executing, some executing command is not blocked.  It rests on the two
\* loops, the sorted one of ems_reserve and the one of ems_show, taking the
\* locks of the seats in the same order (operations.c:166-180, 226-228).
NoDeadlock ==
  (\E t \in Threads : pc[t] # "idle")
    => \E t \in Threads : pc[t] # "idle" /\ ~ Blocked(t)

\* Every RESERVE and every SHOW returns, even with all the threads contending.
EveryCommandReturns ==
  \A t \in Threads : (pc[t] # "idle") ~> (pc[t] = "idle")

------------------------------------------------------------------------------
(* The atomic operations that the lock protocol implements *)

\* A seat written by a RESERVE that may still fail counts as free.
Tentative(s) ==
  /\ writer[s] # None
  /\ s \in held[writer[s]]
  /\ pc[writer[s]] \in {"lock", "take", "undo"}

Room(seats) == [c \in Coords |-> seats[SeatIndex(c)]]

absSeat == Room([s \in Seats |-> IF Tentative(s) THEN 0 ELSE data[s]])

\* The stage of the atomic operation, told by the program counter and the locals.
OpOf(p, want, id, seats) ==
  CASE p = "idle"                     -> [state |-> "idle"]
    [] p \in {"check", "lock", "take"} ->
         [state |-> "reserving", want |-> want, id |-> id]
    [] p = "release"                  -> [state |-> "granted"]
    [] p \in {"undo", "back"}         -> [state |-> "refused"]
    [] p = "slock"                    -> [state |-> "showing"]
    [] p = "sunlock"                  -> [state |-> "shown", room |-> Room(seats)]

absOp == [t \in Threads |-> OpOf(pc[t], req[t], rid[t], snap[t])]

Atomic == INSTANCE Seating WITH
            Places <- Coords, seat <- absSeat, op <- absOp

\* A RESERVE takes all its seats or none and a SHOW prints one state of the
\* room, although both work seat by seat with other threads in between.
AtomicOperations == Atomic!Spec
==============================================================================

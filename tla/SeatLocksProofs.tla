--------------------------- MODULE SeatLocksProofs ---------------------------
(***************************************************************************)
(* Proofs about SeatLocks, for every set of threads, size of the event and *)
(* set of requests.                                                        *)
(***************************************************************************)
EXTENDS SeatLocks, FiniteSetTheorems, WellFoundedInduction, TLAPS

(***************************************************************************)
(* Facts about seats and their indices                                     *)
(***************************************************************************)

\* The index of a seat that exists is a position of event->data.
LEMMA SeatIndexInRange == ASSUME NEW c \in Coords PROVE SeatIndex(c) \in Seats
<1> DEFINE x == c[1] - 1
<1>1. Rows \in Nat \ {0} /\ Cols \in Nat \ {0} /\ c[1] \in 1 .. Rows /\ c[2] \in 1 .. Cols
  BY SizeAssumption DEF Coords
<1>2. x \in 0 .. Rows - 1
  BY <1>1
<1>3. x * Cols \in Nat /\ x * Cols + Cols <= Rows * Cols
  <2>1. (x + 1) * Cols <= Rows * Cols
    BY <1>1, <1>2
  <2>2. (x + 1) * Cols = x * Cols + Cols
    BY <1>1, <1>2
  <2> QED BY <1>1, <1>2, <2>1, <2>2
<1> HIDE DEF x
<1>4. x * Cols + c[2] - 1 \in 0 .. (Rows * Cols - 1)
  BY <1>1, <1>2, <1>3
<1> QED BY <1>4 DEF SeatIndex, Seats, x

\* Two different seats have different indices.
LEMMA SeatIndexInjective ==
  ASSUME NEW c \in Coords, NEW d \in Coords, SeatIndex(c) = SeatIndex(d)
  PROVE  c = d
<1>1. Rows \in Nat \ {0} /\ Cols \in Nat \ {0} /\ c[1] \in 1 .. Rows /\ c[2] \in 1 .. Cols
      /\ d[1] \in 1 .. Rows /\ d[2] \in 1 .. Cols
  BY SizeAssumption DEF Coords
<1>2. ASSUME NEW x \in Nat, NEW y \in Nat, x < y PROVE x * Cols + Cols <= y * Cols
  <2>1. (x + 1) * Cols <= y * Cols
    BY <1>1, <1>2
  <2>2. (x + 1) * Cols = x * Cols + Cols
    BY <1>1
  <2> QED BY <2>1, <2>2
<1> DEFINE x == c[1] - 1  y == d[1] - 1
<1>3. x \in Nat /\ y \in Nat /\ x * Cols \in Nat /\ y * Cols \in Nat
  BY <1>1
<1>4. x * Cols + c[2] - 1 = y * Cols + d[2] - 1
  BY DEF SeatIndex
<1>5. ~ (x < y) /\ ~ (y < x)
  <2>1. (x < y => x * Cols + Cols <= y * Cols) /\ (y < x => y * Cols + Cols <= x * Cols)
    BY <1>2, <1>3
  <2> HIDE DEF x, y
  <2> QED BY <1>1, <1>3, <1>4, <2>1
<1>6. x = y /\ c[2] = d[2]
  <2> HIDE DEF x, y
  <2>1. x = y
    BY <1>3, <1>5
  <2>2. x * Cols = y * Cols
    BY <2>1
  <2>3. \A a, p, q \in Nat : a + p - 1 = a + q - 1 => p = q
    OBVIOUS
  <2>4. c[2] \in Nat /\ d[2] \in Nat /\ x * Cols + c[2] - 1 = x * Cols + d[2] - 1
    BY <1>1, <1>4, <2>2
  <2> QED BY <2>1, <2>3, <2>4, <1>3
<1>7. c[1] = d[1]
  BY <1>1, <1>6
<1> QED BY <1>6, <1>7 DEF Coords

\* A loop over a non-empty set of seats has a first element.
LEMMA FirstExists ==
  ASSUME NEW S, S \subseteq Seats, S # {}
  PROVE  \E s \in S : IsFirst(s, S)
<1>1. Seats \subseteq Nat
  BY DEF Seats
<1>2. PICK s \in S : \A u \in S : ~ (<<u, s>> \in OpToRel(<, Nat))
  BY <1>1, WFMin, NatLessThanWellFounded
<1>3. \A u \in S : ~ (u < s)
  BY <1>1, <1>2 DEF OpToRel
<1> QED BY <1>1, <1>3 DEF IsFirst

\* The event has a seat, since it has a row and a column.
LEMMA SeatsNotEmpty == 0 \in Seats
<1>1. Rows * Cols >= 1
  <2>1. \A m, n \in Nat \ {0} : m * n >= n
    OBVIOUS
  <2> QED BY <2>1, SizeAssumption
<1> QED BY <1>1, SizeAssumption DEF Seats

\* There is only one first element.
LEMMA FirstUnique ==
  ASSUME NEW S, S \subseteq Seats, NEW s, NEW u, IsFirst(s, S), IsFirst(u, S)
  PROVE  s = u
<1>1. s \in Int /\ u \in Int /\ s <= u /\ u <= s
  BY DEF IsFirst, Seats
<1> QED BY <1>1

(***************************************************************************)
(* The inductive invariant                                                 *)
(***************************************************************************)

Writing(t, s) ==
  \/ pc[t] \in {"lock", "take", "release", "undo"} /\ s \in held[t]
  \/ pc[t] = "take" /\ IsFirst(s, todo[t])

\* Who holds a lock is told by where the thread is and what it has in hand.
LocksOK ==
  \A s \in Seats :
    /\ \A t \in Threads : writer[s] = t <=> Writing(t, s)
    /\ \A t \in Threads : t \in readers[s] <=> pc[t] \in InShow /\ s \in held[t]
    /\ writer[s] # None => readers[s] = {}

\* The loops are inside their bounds, and lock in ascending order.
PhasesOK ==
  \A t \in Threads :
    /\ pc[t] \in {"idle", "check", "back"} => held[t] = {}
    /\ pc[t] \in {"lock", "take", "slock"} => todo[t] # {}
    /\ pc[t] \in {"release", "undo", "sunlock"} => held[t] # {} /\ todo[t] = {}
    /\ \A a \in held[t], b \in todo[t] : pc[t] \in {"lock", "take", "slock"} => a < b

\* What a thread has in hand belongs to its request, and carries its number.
RequestsOK ==
  \A t \in Threads :
    /\ pc[t] \in InReserve => req[t] \in Requests /\ rid[t] > 0
    /\ pc[t] \in {"lock", "take"} =>
         /\ req[t] \subseteq Coords
         /\ todo[t] \cup held[t] = {SeatIndex(c) : c \in req[t]}
    /\ pc[t] \in {"lock", "take", "undo"} => \A s \in held[t] : data[s] = rid[t]

\* A SHOW has in its string the present contents of every seat it has locked.
SnapshotOK ==
  \A t \in Threads :
    /\ pc[t] = "slock" => held[t] \cup todo[t] = Seats
    /\ pc[t] = "slock" => \A s \in held[t] : snap[t][s] = data[s]

LockInv == TypeOK /\ LocksOK /\ PhasesOK
Inv     == LockInv /\ RequestsOK /\ SnapshotOK /\ CounterExact

(***************************************************************************)
(* The reservation counter                                                 *)
(***************************************************************************)

\* The decrement that follows a failed RESERVE never takes the counter below 0.
LEMMA CounterPositive ==
  ASSUME TypeOK, CounterExact, NEW t \in Threads, pc[t] = "back"
  PROVE  reservations \in Nat \ {0}
<1>1. IsFiniteSet(Undecided) /\ t \in Undecided
  BY ThreadsAssumption, FS_Subset DEF Undecided
<1>2. Cardinality(Undecided) \in Nat /\ Cardinality(Undecided) # 0
  BY <1>1, FS_CardinalityType, FS_EmptySet
<1> QED BY <1>2 DEF TypeOK, CounterExact

\* Every step moves the counter and the undecided commands together.
LEMMA StepCounter == ASSUME TypeOK, CounterExact, [Next]_vars PROVE CounterExact'
<1> USE DEF TypeOK, CounterExact
<1>0. IsFiniteSet(Undecided) /\ Cardinality(Undecided) \in Nat
  BY ThreadsAssumption, FS_Subset, FS_CardinalityType DEF Undecided
<1>1. ASSUME NEW t \in Threads, ReserveStart(t) PROVE CounterExact'
  <2>1. t \notin Undecided /\ Undecided' = Undecided \cup {t}
    BY <1>1 DEF ReserveStart, Undecided
  <2>2. Cardinality(Undecided') = Cardinality(Undecided) + 1
    BY <1>0, <2>1, FS_AddElement
  <2>3. reservations' = reservations + 1 /\ granted' = granted
    BY <1>1 DEF ReserveStart
  <2> QED BY <1>0, <2>2, <2>3
<1>2. ASSUME NEW t \in Threads, GiveBack(t) PROVE CounterExact'
  <2>1. t \in Undecided /\ Undecided' = Undecided \ {t}
    BY <1>2 DEF GiveBack, Undecided
  <2>2. Cardinality(Undecided') = Cardinality(Undecided) - 1
    BY <1>0, <2>1, FS_RemoveElement
  <2>3. reservations' = reservations - 1 /\ granted' = granted
    BY <1>2 DEF GiveBack
  <2> QED BY <1>0, <2>2, <2>3
<1>3. ASSUME NEW t \in Threads, NEW s \in Seats, TakeSeat(t, s) PROVE CounterExact'
  <2>1. CASE todo[t] = {s}
    <3>1. t \in Undecided /\ Undecided' = Undecided \ {t}
      BY <1>3, <2>1 DEF TakeSeat, Undecided
    <3>2. Cardinality(Undecided') = Cardinality(Undecided) - 1
      BY <1>0, <3>1, FS_RemoveElement
    <3>3. reservations' = reservations /\ granted' = granted + 1
      BY <1>3, <2>1 DEF TakeSeat
    <3> QED BY <1>0, <3>2, <3>3
  <2>2. CASE todo[t] # {s}
    <3>1. Undecided' = Undecided
      BY <1>3, <2>2 DEF TakeSeat, Undecided
    <3> QED BY <1>3, <2>2, <3>1 DEF TakeSeat
  <2> QED BY <2>1, <2>2
<1>4. ASSUME NEW t \in Threads, NEW s \in Seats,
             \/ BoundsCheck(t) \/ ShowStart(t) \/ LockSeat(t, s) \/ Conflict(t, s)
             \/ Undo(t, s) \/ Release(t, s) \/ ShowLock(t, s) \/ ShowUnlock(t, s)
      PROVE  CounterExact'
  <2>1. reservations' = reservations /\ granted' = granted
    BY <1>4 DEF BoundsCheck, ShowStart, LockSeat, Conflict, Undo, Release, ShowLock, ShowUnlock
  <2>2. Undecided' = Undecided
    BY <1>4 DEF BoundsCheck, ShowStart, LockSeat, Conflict, Undo, Release, ShowLock,
                ShowUnlock, Undecided
  <2> QED BY <2>1, <2>2
<1>5. CASE UNCHANGED vars
  BY <1>5 DEF vars, Undecided
<1> QED
  BY <1>1, <1>2, <1>3, <1>4, <1>5, SeatsNotEmpty DEF Next, Step
(***************************************************************************)
(* The locks                                                               *)
(***************************************************************************)

\* No step breaks the types, the ownership of the locks or the lock order.
LEMMA StepLockInv == ASSUME LockInv, RequestsOK, CounterExact, [Next]_vars PROVE LockInv'
<1> USE DEF LockInv
<1>0. None \notin Threads /\ Seats \subseteq Nat
  BY ThreadsAssumption DEF Seats
<1>1. ASSUME NEW t \in Threads, ReserveStart(t) PROVE LockInv'
  <2>1. TypeOK'
    BY OpsAssumption, <1>0, <1>1 DEF ReserveStart, TypeOK, InReserve, InShow, locks, NoSeats, Seats
  <2>2. LocksOK'
    BY <1>0, <1>1 DEF ReserveStart, TypeOK, LocksOK, PhasesOK, Writing, IsFirst, InReserve, InShow, locks
  <2>3. PhasesOK'
    BY <1>0, <1>1 DEF ReserveStart, TypeOK, PhasesOK, IsFirst, locks
  <2> QED BY <2>1, <2>2, <2>3
<1>2. ASSUME NEW t \in Threads, BoundsCheck(t) PROVE LockInv'
  <2>1. CASE req[t] \subseteq Coords
    <3>1. todo' = [todo EXCEPT ![t] = {SeatIndex(c) : c \in req[t]}] /\ pc' = [pc EXCEPT ![t] = "lock"]
      BY <1>2, <2>1 DEF BoundsCheck
    <3>2. {SeatIndex(c) : c \in req[t]} \in SUBSET Seats
      BY <2>1, SeatIndexInRange
    <3>3. TypeOK'
      BY <1>2, <3>1, <3>2 DEF BoundsCheck, TypeOK, InReserve, locks
    <3>4. LocksOK'
      BY <1>0, <1>2, <3>1 DEF BoundsCheck, TypeOK, LocksOK, PhasesOK, Writing, IsFirst, InShow, locks
    <3>5. {SeatIndex(c) : c \in req[t]} # {}
      BY <1>2, RequestsAssumption DEF RequestsOK, BoundsCheck, InReserve
    <3>6. PhasesOK'
      BY <1>2, <3>1, <3>5 DEF BoundsCheck, TypeOK, PhasesOK, locks
    <3> QED BY <3>3, <3>4, <3>6
  <2>2. CASE ~ (req[t] \subseteq Coords)
    <3>1. todo' = todo /\ pc' = [pc EXCEPT ![t] = "back"]
      BY <1>2, <2>2 DEF BoundsCheck
    <3>2. TypeOK'
      BY <1>2, <3>1 DEF BoundsCheck, TypeOK, InReserve, locks
    <3>3. LocksOK'
      BY <1>0, <1>2, <3>1 DEF BoundsCheck, TypeOK, LocksOK, PhasesOK, Writing, IsFirst, InShow, locks
    <3>4. PhasesOK'
      BY <1>2, <3>1 DEF BoundsCheck, TypeOK, PhasesOK, locks
    <3> QED BY <3>2, <3>3, <3>4
  <2> QED BY <2>1, <2>2
<1>3. ASSUME NEW t \in Threads, NEW s \in Seats, LockSeat(t, s) PROVE LockInv'
  <2>1. TypeOK'
    BY <1>0, <1>3 DEF LockSeat, TypeOK, InReserve, InShow, locks, NoSeats, Seats
  <2>2. LocksOK'
    BY <1>0, <1>3 DEF LockSeat, TypeOK, LocksOK, PhasesOK, Writing, IsFirst, InReserve, InShow, locks
  <2>3. PhasesOK'
    BY <1>0, <1>3 DEF LockSeat, TypeOK, PhasesOK, IsFirst, locks
  <2> QED BY <2>1, <2>2, <2>3
<1>4. ASSUME NEW t \in Threads, NEW s \in Seats, TakeSeat(t, s) PROVE LockInv'
  <2>1. TypeOK'
    <3>1. data' \in [Seats -> Nat] /\ todo' \in [Threads -> SUBSET Seats] /\ held' \in [Threads -> SUBSET Seats]
      BY <1>4 DEF TakeSeat, TypeOK
    <3>2. pc' \in [Threads -> {"idle"} \cup InReserve \cup InShow] /\ granted' \in Nat
      <4>1. CASE todo[t] = {s}
        BY <1>4, <4>1 DEF TakeSeat, TypeOK, InReserve
      <4>2. CASE todo[t] # {s}
        BY <1>4, <4>2 DEF TakeSeat, TypeOK, InReserve
      <4> QED BY <4>1, <4>2
    <3> QED BY <1>4, <3>1, <3>2 DEF TakeSeat, TypeOK, locks
  <2>2. LocksOK'
    BY <1>0, <1>4 DEF TakeSeat, TypeOK, LocksOK, PhasesOK, Writing, IsFirst, InShow, locks
  <2>3. PhasesOK'
    BY <1>0, <1>4 DEF TakeSeat, TypeOK, PhasesOK, IsFirst, locks
  <2> QED BY <2>1, <2>2, <2>3
<1>5. ASSUME NEW t \in Threads, NEW s \in Seats, Conflict(t, s) PROVE LockInv'
  <2>1. TypeOK'
    BY <1>0, <1>5 DEF Conflict, TypeOK, InReserve, InShow, locks, NoSeats, Seats
  <2>2. LocksOK'
    BY <1>0, <1>5 DEF Conflict, TypeOK, LocksOK, PhasesOK, Writing, IsFirst, InReserve, InShow, locks
  <2>3. PhasesOK'
    BY <1>0, <1>5 DEF Conflict, TypeOK, PhasesOK, IsFirst, locks
  <2> QED BY <2>1, <2>2, <2>3
<1>6. ASSUME NEW t \in Threads, NEW s \in Seats, Undo(t, s) PROVE LockInv'
  <2>1. TypeOK'
    BY <1>0, <1>6 DEF Undo, TypeOK, InReserve, InShow, locks, NoSeats, Seats
  <2>2. LocksOK'
    BY <1>0, <1>6 DEF Undo, TypeOK, LocksOK, PhasesOK, Writing, IsFirst, InReserve, InShow, locks
  <2>3. PhasesOK'
    BY <1>0, <1>6 DEF Undo, TypeOK, PhasesOK, IsFirst, locks
  <2> QED BY <2>1, <2>2, <2>3
<1>7. ASSUME NEW t \in Threads, NEW s \in Seats, Release(t, s) PROVE LockInv'
  <2>1. TypeOK'
    BY <1>0, <1>7 DEF Release, TypeOK, InReserve, InShow, locks, NoSeats, Seats
  <2>2. LocksOK'
    BY <1>0, <1>7 DEF Release, TypeOK, LocksOK, PhasesOK, Writing, IsFirst, InReserve, InShow, locks
  <2>3. PhasesOK'
    BY <1>0, <1>7 DEF Release, TypeOK, PhasesOK, IsFirst, locks
  <2> QED BY <2>1, <2>2, <2>3
<1>8. ASSUME NEW t \in Threads, GiveBack(t) PROVE LockInv'
  <2>1. TypeOK'
    BY CounterPositive, <1>0, <1>8 DEF GiveBack, TypeOK, InReserve, InShow, locks, NoSeats, Seats
  <2>2. LocksOK'
    BY <1>0, <1>8 DEF GiveBack, TypeOK, LocksOK, PhasesOK, Writing, IsFirst, InReserve, InShow, locks
  <2>3. PhasesOK'
    BY <1>0, <1>8 DEF GiveBack, TypeOK, PhasesOK, IsFirst, locks
  <2> QED BY <2>1, <2>2, <2>3
<1>9. ASSUME NEW t \in Threads, ShowStart(t) PROVE LockInv'
  <2>1. TypeOK'
    BY OpsAssumption, <1>0, <1>9 DEF ShowStart, TypeOK, InReserve, InShow, locks, NoSeats, Seats
  <2>2. LocksOK'
    BY <1>0, <1>9 DEF ShowStart, TypeOK, LocksOK, PhasesOK, Writing, IsFirst, InReserve, InShow, locks
  <2>3. PhasesOK'
    BY <1>0, <1>9, SeatsNotEmpty DEF ShowStart, TypeOK, PhasesOK, IsFirst, locks
  <2> QED BY <2>1, <2>2, <2>3
<1>10. ASSUME NEW t \in Threads, NEW s \in Seats, ShowLock(t, s) PROVE LockInv'
  <2>1. TypeOK'
    BY <1>0, <1>10 DEF ShowLock, TypeOK, InReserve, InShow, locks, NoSeats, Seats
  <2>2. LocksOK'
    BY <1>0, <1>10 DEF ShowLock, TypeOK, LocksOK, PhasesOK, Writing, IsFirst, InReserve, InShow, locks
  <2>3. PhasesOK'
    BY <1>0, <1>10 DEF ShowLock, TypeOK, PhasesOK, IsFirst, locks
  <2> QED BY <2>1, <2>2, <2>3
<1>11. ASSUME NEW t \in Threads, NEW s \in Seats, ShowUnlock(t, s) PROVE LockInv'
  <2>1. TypeOK'
    BY <1>0, <1>11 DEF ShowUnlock, TypeOK, InReserve, InShow, locks, NoSeats, Seats
  <2>2. LocksOK'
    BY <1>0, <1>11 DEF ShowUnlock, TypeOK, LocksOK, PhasesOK, Writing, IsFirst, InReserve, InShow, locks
  <2>3. PhasesOK'
    BY <1>0, <1>11 DEF ShowUnlock, TypeOK, PhasesOK, IsFirst, locks
  <2> QED BY <2>1, <2>2, <2>3
<1>12. CASE UNCHANGED vars
  BY <1>12 DEF vars, TypeOK, LocksOK, PhasesOK, Writing, IsFirst
<1> QED
  BY <1>1, <1>2, <1>3, <1>4, <1>5, <1>6, <1>7, <1>8, <1>9, <1>10, <1>11, <1>12 DEF Next, Step

(***************************************************************************)
(* Requests and snapshots                                                  *)
(***************************************************************************)

\* What the threads have in hand stays tied to their requests: nobody else
\* writes a seat while it is held.
LEMMA StepRequests == ASSUME LockInv, RequestsOK, [Next]_vars PROVE RequestsOK'
<1> USE DEF LockInv
<1>0. None \notin Threads /\ Seats \subseteq Nat
  BY ThreadsAssumption DEF Seats
<1>1. ASSUME NEW t \in Threads, ReserveStart(t) PROVE RequestsOK'
  BY <1>1 DEF ReserveStart, TypeOK, RequestsOK, InReserve
<1>2. ASSUME NEW t \in Threads, BoundsCheck(t) PROVE RequestsOK'
  BY <1>2 DEF BoundsCheck, TypeOK, PhasesOK, RequestsOK, InReserve
<1>3. ASSUME NEW t \in Threads, NEW s \in Seats, LockSeat(t, s) PROVE RequestsOK'
  BY <1>3 DEF LockSeat, TypeOK, RequestsOK, InReserve
<1>4. ASSUME NEW t \in Threads, NEW s \in Seats, TakeSeat(t, s) PROVE RequestsOK'
  BY <1>0, <1>4 DEF TakeSeat, TypeOK, LocksOK, Writing, IsFirst, RequestsOK, InReserve, locks
<1>5. ASSUME NEW t \in Threads, NEW s \in Seats, Conflict(t, s) PROVE RequestsOK'
  BY <1>5 DEF Conflict, TypeOK, RequestsOK, InReserve
<1>6. ASSUME NEW t \in Threads, NEW s \in Seats, Undo(t, s) PROVE RequestsOK'
  BY <1>0, <1>6 DEF Undo, TypeOK, LocksOK, Writing, IsFirst, RequestsOK, InReserve
<1>7. ASSUME NEW t \in Threads, NEW s \in Seats,
             Release(t, s) \/ ShowLock(t, s) \/ ShowUnlock(t, s)
      PROVE  RequestsOK'
  BY <1>7 DEF Release, ShowLock, ShowUnlock, TypeOK, RequestsOK, InReserve
<1>8. ASSUME NEW t \in Threads, GiveBack(t) \/ ShowStart(t) PROVE RequestsOK'
  BY <1>8, SMTT(30) DEF GiveBack, ShowStart, TypeOK, RequestsOK, InReserve
<1>9. CASE UNCHANGED vars
  BY <1>9 DEF vars, RequestsOK
<1> QED
  BY <1>1, <1>2, <1>3, <1>4, <1>5, <1>6, <1>7, <1>8, <1>9 DEF Next, Step

\* The string of a SHOW stays up to date while it waits for its next lock.
LEMMA StepSnapshot == ASSUME LockInv, SnapshotOK, [Next]_vars PROVE SnapshotOK'
<1> USE DEF LockInv
<1>0. None \notin Threads /\ Seats \subseteq Nat
  BY ThreadsAssumption DEF Seats
<1>1. ASSUME NEW t \in Threads, NEW s \in Seats, TakeSeat(t, s) PROVE SnapshotOK'
  BY <1>0, <1>1, SMTT(30) DEF TakeSeat, TypeOK, LocksOK, Writing, SnapshotOK, InShow
<1>2. ASSUME NEW t \in Threads, NEW s \in Seats, Undo(t, s) PROVE SnapshotOK'
  BY <1>0, <1>2, SMTT(30) DEF Undo, TypeOK, LocksOK, Writing, IsFirst, SnapshotOK, InShow
<1>3. ASSUME NEW t \in Threads, ShowStart(t) PROVE SnapshotOK'
  BY <1>3 DEF ShowStart, TypeOK, PhasesOK, SnapshotOK
<1>4. ASSUME NEW t \in Threads, NEW s \in Seats, ShowLock(t, s) PROVE SnapshotOK'
  BY <1>4 DEF ShowLock, TypeOK, IsFirst, SnapshotOK
<1>5. ASSUME NEW t \in Threads, NEW s \in Seats,
             \/ ReserveStart(t) \/ BoundsCheck(t) \/ GiveBack(t) \/ LockSeat(t, s)
             \/ Conflict(t, s) \/ Release(t, s) \/ ShowUnlock(t, s)
      PROVE  SnapshotOK'
  BY <1>5 DEF ReserveStart, BoundsCheck, GiveBack, LockSeat, Conflict, Release, ShowUnlock,
              TypeOK, SnapshotOK
<1>6. CASE UNCHANGED vars
  BY <1>6 DEF vars, SnapshotOK
<1> QED
  BY <1>1, <1>2, <1>3, <1>4, <1>5, <1>6, SeatsNotEmpty DEF Next, Step

\* The types, the counter and the lock protocol hold in every reachable state.
THEOREM Invariance == Spec => []Inv
<1>1. Init => Inv
  <2> SUFFICES ASSUME Init PROVE Inv
    OBVIOUS
  <2>1. LockInv
    BY ThreadsAssumption, OpsAssumption
       DEF Init, LockInv, TypeOK, LocksOK, PhasesOK, Writing, InReserve, InShow, NoSeats
  <2>2. RequestsOK /\ SnapshotOK
    BY DEF Init, RequestsOK, SnapshotOK, InReserve
  <2>3. CounterExact
    <3>1. Undecided = {}
      BY DEF Init, Undecided
    <3> QED BY <3>1, FS_EmptySet DEF Init, CounterExact
  <2> QED BY <2>1, <2>2, <2>3 DEF Inv
<1>2. Inv /\ [Next]_vars => Inv'
  BY StepLockInv, StepCounter, StepRequests, StepSnapshot DEF Inv, LockInv
<1> QED
  BY <1>1, <1>2, PTL DEF Spec

\* Type correctness of RESERVE and SHOW, for any threads, seats and requests.
THEOREM TypeCorrect == Spec => []TypeOK
<1>1. Inv => TypeOK
  BY DEF Inv, LockInv
<1> QED BY <1>1, Invariance, PTL

\* In every interleaving the counter is exact.
THEOREM CounterIsExact == Spec => []CounterExact
<1>1. Inv => CounterExact
  BY DEF Inv
<1> QED BY <1>1, Invariance, PTL

(***************************************************************************)
(* Freedom from deadlock                                                   *)
(***************************************************************************)

\* A command that waits for a seat waits for one that is executing; and if that
\* one waits too, it waits for a seat further on.
LEMMA WaitsForward ==
  ASSUME LockInv, NEW t \in Threads, Blocked(t), NEW s, IsFirst(s, todo[t])
  PROVE  \E h \in Threads :
           /\ pc[h] # "idle"
           /\ \A u : Blocked(h) /\ IsFirst(u, todo[h]) => s < u
<1> USE DEF LockInv
<1>1. s \in Seats /\ (writer[s] # None \/ readers[s] # {})
  BY FirstUnique DEF Blocked, IsFirst, TypeOK
<1>2. PICK h \in Threads : writer[s] = h \/ h \in readers[s]
  BY <1>1 DEF TypeOK
<1>3. pc[h] # "idle" /\ (pc[h] \in {"lock", "slock"} => s \in held[h])
  BY <1>1, <1>2 DEF LocksOK, Writing, InShow
<1>4. ASSUME NEW u, Blocked(h), IsFirst(u, todo[h]) PROVE s < u
  <2>1. pc[h] \in {"lock", "slock"}
    BY <1>4 DEF Blocked
  <2> QED BY <1>3, <1>4, <2>1 DEF PhasesOK, IsFirst
<1> QED BY <1>3, <1>4

\* While a command is executing, some executing command can take its next step:
\* the one that waits for the last seat would wait for somebody further on.
THEOREM DeadlockFree == Spec => []NoDeadlock
<1>1. Inv => NoDeadlock
  <2> SUFFICES ASSUME LockInv, NEW t0 \in Threads, pc[t0] # "idle",
                      \A t \in Threads : pc[t] # "idle" => Blocked(t)
               PROVE  FALSE
    BY DEF Inv, NoDeadlock
  <2> DEFINE N == Rows * Cols
             Waited == {s \in Seats : \E t \in Threads : Blocked(t) /\ IsFirst(s, todo[t])}
             Gap(s) == N - 1 - s
             Gaps == {Gap(s) : s \in Waited}
  <2>1. PICK s0 \in Waited : TRUE
    BY DEF Blocked
  <2>2. N \in Nat /\ Seats = 0 .. N - 1
    <3>1. Rows * Cols \in Nat
      BY SizeAssumption
    <3> QED BY <3>1 DEF Seats
  <2> HIDE DEF N
  <2>3. Gaps \subseteq Nat /\ Gaps # {}
    BY <2>1, <2>2
  <2>4. PICK g \in Gaps : \A d \in Gaps : ~ (<<d, g>> \in OpToRel(<, Nat))
    BY <2>3, WFMin, NatLessThanWellFounded
  <2>5. PICK s \in Waited : g = Gap(s)
    OBVIOUS
  <2>6. \A u \in Waited : u <= s
    <3>1. \A u \in Waited : ~ (Gap(u) < Gap(s))
      BY <2>3, <2>4, <2>5 DEF OpToRel
    <3> QED BY <2>2, <3>1
  <2>7. PICK t \in Threads : Blocked(t) /\ IsFirst(s, todo[t])
    OBVIOUS
  <2>8. PICK h \in Threads : Blocked(h) /\ \A u : IsFirst(u, todo[h]) => s < u
    BY <2>7, WaitsForward
  <2>9. PICK u \in Seats : IsFirst(u, todo[h])
    BY <2>8 DEF Blocked
  <2>10. u \in Waited /\ s < u
    BY <2>8, <2>9
  <2> QED BY <2>2, <2>6, <2>10
<1> QED BY <1>1, Invariance, PTL

(***************************************************************************)
(* The lock protocol implements the atomic operations                      *)
(***************************************************************************)

\* The value of the mapping of op at each place of the program.
LEMMA OpValues ==
  ASSUME NEW p, NEW want, NEW id, NEW seats
  PROVE  /\ p = "idle" => OpOf(p, want, id, seats) = Atomic!Idle
         /\ p \in {"check", "lock", "take"} =>
              OpOf(p, want, id, seats) = [state |-> "reserving", want |-> want, id |-> id]
         /\ p = "release" => OpOf(p, want, id, seats) = Atomic!Granted
         /\ p \in {"undo", "back"} => OpOf(p, want, id, seats) = Atomic!Refused
         /\ p = "slock" => OpOf(p, want, id, seats) = Atomic!Showing
         /\ p = "sunlock" => OpOf(p, want, id, seats) = Atomic!Shown(Room(seats))
BY DEF OpOf, Atomic!Idle, Atomic!Granted, Atomic!Refused, Atomic!Showing, Atomic!Shown

\* A step of t touches the locals of t and of nobody else.
OnlyMoves(t) ==
  /\ pc' = [pc EXCEPT ![t] = pc'[t]] /\ req' = [req EXCEPT ![t] = req'[t]]
  /\ rid' = [rid EXCEPT ![t] = rid'[t]] /\ snap' = [snap EXCEPT ![t] = snap'[t]]

\* Then only the operation of t can change.
LEMMA OpFrame ==
  ASSUME TypeOK, NEW t \in Threads, OnlyMoves(t)
  PROVE  /\ absOp' = [absOp EXCEPT ![t] = OpOf(pc'[t], req'[t], rid'[t], snap'[t])]
         /\ absOp[t] = OpOf(pc[t], req[t], rid[t], snap[t])
         /\ absOp'[t] = OpOf(pc'[t], req'[t], rid'[t], snap'[t])
         /\ OpOf(pc'[t], req'[t], rid'[t], snap'[t]) = absOp[t] => absOp' = absOp
<1>1. \A u \in Threads \ {t} : /\ pc'[u] = pc[u] /\ req'[u] = req[u]
                              /\ rid'[u] = rid[u] /\ snap'[u] = snap[u]
  BY DEF OnlyMoves, TypeOK
<1> QED BY <1>1 DEF absOp

\* The room changes where the visible contents of a seat do.
LEMMA RoomFrame ==
  ASSUME \A s \in Seats : (IF Tentative(s) THEN 0 ELSE data[s])'
                           = (IF Tentative(s) THEN 0 ELSE data[s])
  PROVE  absSeat' = absSeat
BY SeatIndexInRange DEF absSeat, Room

\* The contents of one place of the room.
LEMMA RoomAt ==
  ASSUME NEW c \in Coords
  PROVE  absSeat[c] = IF Tentative(SeatIndex(c)) THEN 0 ELSE data[SeatIndex(c)]
BY SeatIndexInRange DEF absSeat, Room

\* Each step is the step of one thread.
LEMMA StepMoves ==
  ASSUME TypeOK, NEW t \in Threads,
         \/ ReserveStart(t) \/ BoundsCheck(t) \/ GiveBack(t) \/ ShowStart(t)
         \/ \E s \in Seats :
              \/ LockSeat(t, s) \/ TakeSeat(t, s) \/ Conflict(t, s) \/ Undo(t, s)
              \/ Release(t, s) \/ ShowLock(t, s) \/ ShowUnlock(t, s)
  PROVE  OnlyMoves(t)
<1> USE DEF TypeOK, OnlyMoves
<1>1. CASE ReserveStart(t)
  BY <1>1 DEF ReserveStart
<1>2. CASE BoundsCheck(t)
  BY <1>2 DEF BoundsCheck
<1>3. CASE GiveBack(t)
  BY <1>3 DEF GiveBack
<1>4. CASE ShowStart(t)
  BY <1>4 DEF ShowStart
<1>5. ASSUME NEW s \in Seats, LockSeat(t, s) \/ TakeSeat(t, s) \/ Conflict(t, s) PROVE OnlyMoves(t)
  BY <1>5 DEF LockSeat, TakeSeat, Conflict
<1>6. ASSUME NEW s \in Seats, Undo(t, s) \/ Release(t, s) PROVE OnlyMoves(t)
  BY <1>6 DEF Undo, Release
<1>7. ASSUME NEW s \in Seats, ShowLock(t, s) \/ ShowUnlock(t, s) PROVE OnlyMoves(t)
  BY <1>7 DEF ShowLock, ShowUnlock
<1> QED BY <1>1, <1>2, <1>3, <1>4, <1>5, <1>6, <1>7

\* Every step is a step of the atomic operations, or changes nothing they see.
LEMMA StepRefines == ASSUME Inv, Inv', [Next]_vars PROVE [Atomic!Next]_(Atomic!vars)
<1> USE DEF Inv, LockInv, Atomic!vars, Atomic!Next
<1>0. None \notin Threads /\ Seats \subseteq Nat
  BY ThreadsAssumption DEF Seats
<1>1. ASSUME NEW t \in Threads, ReserveStart(t) PROVE Atomic!CallReserve(t)
  <2>1. absSeat' = absSeat
    BY <1>1, RoomFrame DEF ReserveStart, Tentative, TypeOK, LocksOK, Writing, locks
  <2>2. pc[t] = "idle" /\ pc'[t] = "check" /\ req'[t] \in Requests /\ rid'[t] \in Nat \ {0}
    BY <1>1 DEF ReserveStart, TypeOK
  <2>3. absOp' = [absOp EXCEPT ![t] = absOp'[t]] /\ absOp[t] = Atomic!Idle
        /\ absOp'[t] = [state |-> "reserving", want |-> req'[t], id |-> rid'[t]]
    BY <1>1, <2>2, StepMoves, OpFrame, OpValues
  <2> QED BY <2>1, <2>2, <2>3 DEF Atomic!CallReserve, Atomic!Reservings
<1>2. ASSUME NEW t \in Threads, BoundsCheck(t) PROVE Atomic!Refuse(t) \/ UNCHANGED Atomic!vars
  <2>1. absSeat' = absSeat
    BY <1>2, RoomFrame DEF BoundsCheck, Tentative, TypeOK, LocksOK, PhasesOK, Writing, locks
  <2>2. CASE req[t] \subseteq Coords
    <3>1. pc[t] = "check" /\ pc'[t] = "lock" /\ req' = req /\ rid' = rid
      BY <1>2, <2>2 DEF BoundsCheck, TypeOK
    <3>2. absOp' = absOp
      BY <1>2, <3>1, StepMoves, OpFrame, OpValues
    <3> QED BY <2>1, <3>2
  <2>3. CASE ~ (req[t] \subseteq Coords)
    <3>1. pc[t] = "check" /\ pc'[t] = "back"
      BY <1>2, <2>3 DEF BoundsCheck, TypeOK
    <3>2. absOp' = [absOp EXCEPT ![t] = Atomic!Refused]
          /\ absOp[t] = [state |-> "reserving", want |-> req[t], id |-> rid[t]]
      BY <1>2, <3>1, StepMoves, OpFrame, OpValues
    <3> QED BY <2>1, <2>3, <3>2 DEF Atomic!Refuse, Atomic!Free
  <2> QED BY <2>2, <2>3
<1>3. ASSUME NEW t \in Threads, NEW s \in Seats, LockSeat(t, s) PROVE UNCHANGED Atomic!vars
  <2>1. absSeat' = absSeat
    <3>1. s \notin held[t]
      BY <1>0, <1>3 DEF LockSeat, PhasesOK, IsFirst
    <3> QED BY <1>0, <1>3, <3>1, RoomFrame DEF LockSeat, Tentative, TypeOK, LocksOK, Writing
  <2>2. pc[t] = "lock" /\ pc'[t] = "take" /\ req' = req /\ rid' = rid
    BY <1>3 DEF LockSeat, TypeOK
  <2>3. absOp' = absOp
    BY <1>3, <2>2, StepMoves, OpFrame, OpValues
  <2> QED BY <2>1, <2>3
<1>4. ASSUME NEW t \in Threads, NEW s \in Seats, TakeSeat(t, s)
      PROVE  Atomic!Grant(t) \/ UNCHANGED Atomic!vars
  <2>1. /\ writer[s] = t /\ data[s] = 0 /\ ~ Tentative(s) /\ pc[t] = "take"
        /\ \A u \in held[t] : writer[u] = t /\ data[u] = rid[t] /\ Tentative(u)
    BY <1>0, <1>4 DEF TakeSeat, Tentative, TypeOK, LocksOK, Writing, PhasesOK, IsFirst, RequestsOK
  <2>2. CASE todo[t] = {s}
    <3>1. pc'[t] = "release" /\ req[t] \subseteq Coords
          /\ held[t] \cup {s} = {SeatIndex(c) : c \in req[t]}
      <4>1. pc'[t] = "release"
        BY <1>4, <2>2 DEF TakeSeat, TypeOK
      <4>2. req[t] \subseteq Coords /\ todo[t] \cup held[t] = {SeatIndex(c) : c \in req[t]}
        BY <2>1 DEF RequestsOK
      <4> QED BY <4>1, <4>2, <2>2
    <3>2. absOp' = [absOp EXCEPT ![t] = Atomic!Granted]
          /\ absOp[t] = [state |-> "reserving", want |-> req[t], id |-> rid[t]]
      BY <1>4, <2>1, <3>1, StepMoves, OpFrame, OpValues
    <3>3. Atomic!Free(req[t])
      BY <2>1, <3>1, RoomAt DEF Atomic!Free
    <3>4. absSeat' = [c \in Coords |-> IF c \in req[t] THEN rid[t] ELSE absSeat[c]]
      <4>1. ASSUME NEW c \in Coords, c \in req[t] PROVE absSeat'[c] = rid[t]
        <5>1. SeatIndex(c) \in held[t] \cup {s}
          BY <3>1, <4>1
        <5>2. ~ Tentative(SeatIndex(c))' /\ data'[SeatIndex(c)] = rid[t]
          BY <1>4, <2>1, <3>1, <5>1 DEF TakeSeat, Tentative, TypeOK, locks
        <5> QED BY <5>2, SeatIndexInRange DEF absSeat, Room
      <4>2. ASSUME NEW c \in Coords, c \notin req[t] PROVE absSeat'[c] = absSeat[c]
        <5>1. SeatIndex(c) \notin held[t] \cup {s} /\ SeatIndex(c) \in Seats
          BY <3>1, <4>2, SeatIndexInjective, SeatIndexInRange
        <5>2. /\ data'[SeatIndex(c)] = data[SeatIndex(c)]
              /\ writer' = writer /\ SeatIndex(c) \notin held[t]
              /\ held' = [held EXCEPT ![t] = held[t] \cup {s}]
              /\ pc' = [pc EXCEPT ![t] = "release"]
          BY <1>4, <2>2, <5>1 DEF TakeSeat, TypeOK, locks
        <5>3. Tentative(SeatIndex(c))' <=> Tentative(SeatIndex(c))
          BY <5>1, <5>2 DEF Tentative, TypeOK
        <5> QED BY <5>1, <5>2, <5>3, SeatIndexInRange DEF absSeat, Room
      <4>3. absSeat' = [c \in Coords |-> absSeat'[c]]
        BY DEF absSeat, Room
      <4> QED BY <4>1, <4>2, <4>3
    <3> QED BY <3>2, <3>3, <3>4 DEF Atomic!Grant
  <2>3. CASE todo[t] # {s}
    <3>1. pc'[t] = "lock" /\ req' = req /\ rid' = rid
      BY <1>4, <2>3 DEF TakeSeat, TypeOK
    <3>2. absOp' = absOp
      BY <1>4, <2>1, <3>1, StepMoves, OpFrame, OpValues
    <3>3. absSeat' = absSeat
      <4>1. /\ writer' = writer /\ data' = [data EXCEPT ![s] = rid[t]]
            /\ held' = [held EXCEPT ![t] = held[t] \cup {s}]
            /\ pc' = [pc EXCEPT ![t] = "lock"]
        BY <1>4, <2>3 DEF TakeSeat, TypeOK, locks
      <4>2. Tentative(s)' /\ ~ Tentative(s) /\ data[s] = 0
        BY <1>0, <2>1, <4>1 DEF Tentative, TypeOK
      <4>3. ASSUME NEW u \in Seats, u # s
            PROVE  data'[u] = data[u] /\ (Tentative(u)' <=> Tentative(u))
        BY <2>1, <4>1, <4>3 DEF Tentative, TypeOK
      <4> QED BY <4>2, <4>3, RoomFrame
    <3> QED BY <3>2, <3>3
  <2> QED BY <2>2, <2>3
<1>5. ASSUME NEW t \in Threads, NEW s \in Seats, Conflict(t, s) PROVE Atomic!Refuse(t)
  <2>1. writer[s] = t /\ s \notin held[t] /\ ~ Tentative(s) /\ pc[t] = "take"
        /\ pc'[t] \in {"back", "undo"} /\ (pc'[t] = "back" => held[t] = {})
    BY <1>0, <1>5 DEF Conflict, Tentative, TypeOK, LocksOK, Writing, PhasesOK, IsFirst
  <2>2. absOp' = [absOp EXCEPT ![t] = Atomic!Refused]
        /\ absOp[t] = [state |-> "reserving", want |-> req[t], id |-> rid[t]]
    BY <1>5, <2>1, StepMoves, OpFrame, OpValues
  <2>3. PICK c \in req[t] : c \in Coords /\ s = SeatIndex(c)
    BY <1>5 DEF Conflict, RequestsOK, IsFirst
  <2>4. ~ Atomic!Free(req[t])
    BY <1>5, <2>1, <2>3, RoomAt DEF Conflict, Atomic!Free
  <2>5. absSeat' = absSeat
    BY <1>0, <1>5, <2>1, RoomFrame DEF Conflict, Tentative, TypeOK
  <2> QED BY <2>2, <2>4, <2>5 DEF Atomic!Refuse
<1>6. ASSUME NEW t \in Threads, NEW s \in Seats, Undo(t, s) PROVE UNCHANGED Atomic!vars
  <2>1. writer[s] = t /\ Tentative(s) /\ pc[t] = "undo" /\ pc'[t] \in {"back", "undo"}
        /\ (pc'[t] = "back" => held[t] = {s})
    BY <1>0, <1>6 DEF Undo, Tentative, TypeOK, LocksOK, Writing, IsFirst
  <2>2. absOp' = absOp
    BY <1>6, <2>1, StepMoves, OpFrame, OpValues
  <2>3. absSeat' = absSeat
    BY <1>0, <1>6, <2>1, RoomFrame DEF Undo, Tentative, TypeOK
  <2> QED BY <2>2, <2>3
<1>7. ASSUME NEW t \in Threads, NEW s \in Seats, Release(t, s)
      PROVE  Atomic!Return(t) \/ UNCHANGED Atomic!vars
  <2>1. writer[s] = t /\ ~ Tentative(s) /\ pc[t] = "release" /\ pc'[t] \in {"idle", "release"}
    BY <1>0, <1>7 DEF Release, Tentative, TypeOK, LocksOK, Writing, IsFirst
  <2>2. absSeat' = absSeat
    BY <1>0, <1>7, <2>1, RoomFrame DEF Release, Tentative, TypeOK
  <2>3. CASE pc'[t] = "idle"
    <3>1. absOp' = [absOp EXCEPT ![t] = Atomic!Idle] /\ absOp[t] = Atomic!Granted
      BY <1>7, <2>1, <2>3, StepMoves, OpFrame, OpValues
    <3> QED BY <2>2, <3>1 DEF Atomic!Return, Atomic!Granted
  <2>4. CASE pc'[t] = "release"
    <3>1. absOp' = absOp
      BY <1>7, <2>1, <2>4, StepMoves, OpFrame, OpValues
    <3> QED BY <2>2, <3>1
  <2> QED BY <2>1, <2>3, <2>4
<1>8. ASSUME NEW t \in Threads, GiveBack(t) PROVE Atomic!Return(t)
  <2>1. absSeat' = absSeat
    BY <1>8, RoomFrame DEF GiveBack, Tentative, TypeOK, LocksOK, PhasesOK, Writing, locks
  <2>2. pc[t] = "back" /\ pc'[t] = "idle"
    BY <1>8 DEF GiveBack, TypeOK
  <2>3. absOp' = [absOp EXCEPT ![t] = Atomic!Idle] /\ absOp[t] = Atomic!Refused
    BY <1>8, <2>2, StepMoves, OpFrame, OpValues
  <2> QED BY <2>1, <2>3 DEF Atomic!Return, Atomic!Refused
<1>9. ASSUME NEW t \in Threads, ShowStart(t) PROVE Atomic!CallShow(t)
  <2>1. absSeat' = absSeat
    BY <1>9, RoomFrame DEF ShowStart, Tentative, TypeOK, LocksOK, PhasesOK, Writing, locks
  <2>2. pc[t] = "idle" /\ pc'[t] = "slock"
    BY <1>9 DEF ShowStart, TypeOK
  <2>3. absOp' = [absOp EXCEPT ![t] = Atomic!Showing] /\ absOp[t] = Atomic!Idle
    BY <1>9, <2>2, StepMoves, OpFrame, OpValues
  <2> QED BY <2>1, <2>3 DEF Atomic!CallShow
<1>10. ASSUME NEW t \in Threads, NEW s \in Seats, ShowLock(t, s)
       PROVE  Atomic!Snapshot(t) \/ UNCHANGED Atomic!vars
  <2>1. absSeat' = absSeat
    BY <1>0, <1>10, RoomFrame DEF ShowLock, Tentative, TypeOK, LocksOK, Writing
  <2>2. pc[t] = "slock"
    BY <1>10 DEF ShowLock
  <2>3. CASE todo[t] = {s}
    <3>1. pc'[t] = "sunlock"
      BY <1>10, <2>3 DEF ShowLock, TypeOK
    <3>2. \A u \in Seats : ~ Tentative(u) /\ snap'[t][u] = data[u]
      BY <1>10, <2>2, <2>3 DEF ShowLock, Tentative, TypeOK, LocksOK, SnapshotOK, InShow
    <3>3. Room(snap'[t]) = absSeat
      BY <3>2, SeatIndexInRange DEF Room, absSeat
    <3>4. absOp' = [absOp EXCEPT ![t] = Atomic!Shown(absSeat)] /\ absOp[t] = Atomic!Showing
      BY <1>10, <2>2, <3>1, <3>3, StepMoves, OpFrame, OpValues
    <3> QED BY <2>1, <3>4 DEF Atomic!Snapshot
  <2>4. CASE todo[t] # {s}
    <3>1. pc'[t] = "slock"
      BY <1>10, <2>4 DEF ShowLock, TypeOK
    <3>2. absOp' = absOp
      BY <1>10, <2>2, <3>1, StepMoves, OpFrame, OpValues
    <3> QED BY <2>1, <3>2
  <2> QED BY <2>3, <2>4
<1>11. ASSUME NEW t \in Threads, NEW s \in Seats, ShowUnlock(t, s)
       PROVE  Atomic!Return(t) \/ UNCHANGED Atomic!vars
  <2>1. pc[t] = "sunlock" /\ pc'[t] \in {"idle", "sunlock"} /\ snap' = snap
    BY <1>11 DEF ShowUnlock, TypeOK
  <2>2. absSeat' = absSeat
    BY <1>0, <1>11, <2>1, RoomFrame DEF ShowUnlock, Tentative, TypeOK, LocksOK, Writing
  <2>3. CASE pc'[t] = "idle"
    <3>1. absOp' = [absOp EXCEPT ![t] = Atomic!Idle] /\ absOp[t] = Atomic!Shown(Room(snap[t]))
      BY <1>11, <2>1, <2>3, StepMoves, OpFrame, OpValues
    <3> QED BY <2>2, <3>1 DEF Atomic!Return, Atomic!Shown
  <2>4. CASE pc'[t] = "sunlock"
    <3>1. absOp' = absOp
      BY <1>11, <2>1, <2>4, StepMoves, OpFrame, OpValues
    <3> QED BY <2>2, <3>1
  <2> QED BY <2>1, <2>3, <2>4
<1>12. CASE UNCHANGED vars
  BY <1>12 DEF vars, absSeat, absOp, Room, Tentative
<1> QED
  BY <1>1, <1>2, <1>3, <1>4, <1>5, <1>6, <1>7, <1>8, <1>9, <1>10, <1>11, <1>12 DEF Next, Step

\* RESERVE and SHOW are atomic, for any number of threads and any event.
THEOREM Refinement == Spec => AtomicOperations
<1>1. Init => Atomic!Init
  <2> SUFFICES ASSUME Init PROVE Atomic!Init
    OBVIOUS
  <2>1. absSeat = [c \in Coords |-> 0]
    BY SeatIndexInRange DEF Init, absSeat, Room, Tentative, NoSeats
  <2>2. absOp = [t \in Threads |-> Atomic!Idle]
    BY OpValues DEF Init, absOp
  <2> QED BY <2>1, <2>2 DEF Atomic!Init
<1>2. Inv /\ Inv' /\ [Next]_vars => [Atomic!Next]_(Atomic!vars)
  BY StepRefines
<1> QED
  BY <1>1, <1>2, Invariance, PTL DEF Spec, AtomicOperations, Atomic!Spec
==============================================================================

-------------------------- MODULE SessionQueueProofs --------------------------
(***************************************************************************)
(* Proofs about the queue of sessions, for any numbers of producers and    *)
(* workers, any capacity and any sessions.                                 *)
(*                                                                         *)
(* The invariant adds to the properties who is in the critical section     *)
(* (only the owner of the mutex) and which threads have a session in hand. *)
(***************************************************************************)
EXTENDS SessionQueue, FiniteSetTheorems, TLAPS

MutexOK == \A t \in Threads : pc[t] \in {"body", "unlock"} <=> mutex = t

\* Where each role can be, and the sessions in hand.
RolesOK ==
  /\ \A p \in Producers : /\ pc[p] \in {"idle", "lock", "body", "wait", "unlock"}
                          /\ hand[p] # Null <=> pc[p] \in {"lock", "body", "wait"}
  /\ \A c \in Consumers : pc[c] \in {"idle", "lock", "body", "wait", "unlock", "exit"}
  /\ pc[Closer] \in {"idle", "lock", "body", "unlock", "join", "free", "freed"}

Inv == TypeOK /\ MutexOK /\ RolesOK /\ RingConsistent /\ OnePlace /\ NoLostWakeup

\* Additions in the ring.
LEMMA RingSum ==
  ASSUME NEW n \in Nat \ {0}, NEW a \in 0 .. n - 1, NEW k \in 0 .. n
  PROVE  /\ (a + k) % n = IF a + k < n THEN a + k ELSE a + k - n
         /\ (a + k) % n \in 0 .. n - 1
OBVIOUS

\* Two offsets below the capacity are two slots.
LEMMA RingApart ==
  ASSUME NEW n \in Nat \ {0}, NEW a \in 0 .. n - 1, NEW i \in 0 .. n - 1, NEW j \in 0 .. n - 1
  PROVE  (a + i) % n = (a + j) % n <=> i = j
<1>1. i \in 0 .. n /\ j \in 0 .. n
  OBVIOUS
<1>2. /\ (a + i) % n = IF a + i < n THEN a + i ELSE a + i - n
      /\ (a + j) % n = IF a + j < n THEN a + j ELSE a + j - n
  BY <1>1, RingSum
<1> QED BY <1>2

\* An offset counted from the next slot.
LEMMA RingShift ==
  ASSUME NEW n \in Nat \ {0}, NEW a \in 0 .. n - 1, NEW k \in 0 .. n - 1
  PROVE  (((a + 1) % n) + k) % n = (a + (k + 1)) % n
<1>1. k \in 0 .. n /\ k + 1 \in 0 .. n /\ 1 \in 0 .. n
  OBVIOUS
<1>2. (a + 1) % n = IF a + 1 < n THEN a + 1 ELSE a + 1 - n
  BY <1>1, RingSum
<1>3. (a + 1) % n \in 0 .. n - 1
  BY <1>1, RingSum
<1>4. (((a + 1) % n) + k) % n = IF ((a + 1) % n) + k < n THEN ((a + 1) % n) + k ELSE ((a + 1) % n) + k - n
  BY <1>1, <1>3, RingSum
<1>5. (a + (k + 1)) % n = IF a + (k + 1) < n THEN a + (k + 1) ELSE a + (k + 1) - n
  BY <1>1, RingSum
<1> QED BY <1>2, <1>4, <1>5

\* Every slot is some steps after fetch_idx.
LEMMA RingCovers ==
  ASSUME NEW n \in Nat \ {0}, NEW a \in 0 .. n - 1, NEW j \in 0 .. n - 1
  PROVE  \E i \in 0 .. n - 1 : j = (a + i) % n
<1>1. CASE j >= a
  <2>1. j - a \in 0 .. n - 1 /\ j - a \in 0 .. n /\ a + (j - a) = j
    BY <1>1
  <2>2. (a + (j - a)) % n = j
    BY <2>1, RingSum
  <2> QED BY <2>1, <2>2
<1>2. CASE j < a
  <2>1. j - a + n \in 0 .. n - 1 /\ j - a + n \in 0 .. n /\ a + (j - a + n) = j + n
    BY <1>2
  <2>2. (a + (j - a + n)) % n = j
    BY <2>1, RingSum
  <2> QED BY <2>1, <2>2
<1> QED BY <1>1, <1>2

\* The roles are apart, and the counted ones finite.
LEMMA ConstantsType ==
  /\ Capacity \in Nat \ {0} /\ 0 \in 0 .. Capacity - 1 /\ 1 \in 0 .. Capacity
  /\ Producers \subseteq Threads /\ Consumers \subseteq Threads /\ Closer \in Threads
  /\ \A p \in Producers : p \notin Consumers /\ p # Closer
  /\ \A c \in Consumers : c # Closer
  /\ Null \notin Threads /\ Null \notin Sessions
  /\ IsFiniteSet(Producers) /\ IsFiniteSet(Consumers)
BY RolesAssumption, NullAssumption, SizeAssumption DEF Threads

\* What a store and a fetch do, for a reader of the ring.
LEMMA StoreFacts ==
  ASSUME Inv, NEW p \in Producers, PushStore(p)
  PROVE  /\ mutex = p /\ running /\ count \in 0 .. Capacity - 1 /\ count' = count + 1
         /\ writeIdx \in 0 .. Capacity - 1 /\ slots[writeIdx] = Null
         /\ hand[p] \in Sessions
         /\ slots' = [slots EXCEPT ![writeIdx] = hand[p]]
         /\ writeIdx' = (writeIdx + 1) % Capacity
         /\ hand' = [hand EXCEPT ![p] = Null]
         /\ UNCHANGED <<running, fetchIdx, mutex, fresh, got, wakes>>
<1>1. /\ count \in 0 .. Capacity - 1 /\ writeIdx = (fetchIdx + count) % Capacity
      /\ writeIdx \in 0 .. Capacity - 1 /\ fetchIdx \in 0 .. Capacity - 1
  BY ConstantsType DEF PushStore, Inv, TypeOK, RingConsistent
<1>2. slots[writeIdx] = Null
  BY <1>1 DEF Inv, RingConsistent
<1>3. mutex = p /\ hand[p] \in Sessions
  BY ConstantsType DEF PushStore, Inv, MutexOK, RolesOK, TypeOK
<1> QED BY <1>1, <1>2, <1>3 DEF PushStore, NextIdx

\* What a fetch takes.
LEMMA TakeFacts ==
  ASSUME Inv, NEW c \in Consumers, FetchTake(c)
  PROVE  /\ mutex = c /\ running /\ count \in 1 .. Capacity /\ count' = count - 1
         /\ fetchIdx \in 0 .. Capacity - 1 /\ slots[fetchIdx] \in Sessions
         /\ slots' = [slots EXCEPT ![fetchIdx] = Null]
         /\ fetchIdx' = (fetchIdx + 1) % Capacity
         /\ got' = Append(got, slots[fetchIdx])
         /\ hand' = [hand EXCEPT ![c] = slots[fetchIdx]]
         /\ UNCHANGED <<running, writeIdx, mutex, fresh, wakes>>
<1>1. count \in 1 .. Capacity /\ fetchIdx \in 0 .. Capacity - 1
  BY ConstantsType DEF FetchTake, Inv, TypeOK
<1>2. (fetchIdx + 0) % Capacity = fetchIdx
  BY <1>1, ConstantsType, RingSum
<1>3. slots[(fetchIdx + 0) % Capacity] # Null
  BY <1>1, ConstantsType DEF Inv, RingConsistent
<1>4. slots[fetchIdx] \in Sessions
  BY <1>1, <1>2, <1>3 DEF Inv, TypeOK
<1>5. mutex = c
  BY ConstantsType DEF FetchTake, Inv, MutexOK
<1> QED BY <1>1, <1>4, <1>5 DEF FetchTake, NextIdx

\* The other steps leave the ring alone, and a closing only stops it.
LEMMA RingFrame ==
  ASSUME Next
  PROVE  \/ \E p \in Producers : PushStore(p)
         \/ \E c \in Consumers : FetchTake(c)
         \/ UNCHANGED <<slots, count, fetchIdx, writeIdx, got>> /\ (running' = running \/ Close)
BY DEF Next, CallPush, CallFetch, CallClose, Section, Closing, Lock, Wait, WakeUp, PushStore, FetchTake,
       Closed, Unlock, Close, Join, Free, ring

\* What each step does to the places of the threads.
LEMMA PcFrame ==
  ASSUME TypeOK, Next
  PROVE  pc' \in [Threads -> Pcs]
<1>1. pc \in [Threads -> Pcs] /\ Closer \in Threads
  BY ConstantsType DEF TypeOK
<1>2. ASSUME NEW t \in Threads, NEW S, SignalOne(t, S) PROVE pc' \in [Threads -> Pcs]
  BY <1>1, <1>2 DEF SignalOne, Pcs
<1>3. CASE \E p \in Producers : PushStore(p)
  BY <1>2, <1>3, ConstantsType DEF PushStore
<1>4. CASE \E c \in Consumers : FetchTake(c)
  BY <1>2, <1>4, ConstantsType DEF FetchTake
<1>5. CASE Close
  BY <1>1, <1>5 DEF Close, Pcs
<1>6. CASE \E t \in Threads : Unlock(t)
  BY <1>1, <1>6 DEF Unlock, Pcs
<1>7. CASE \/ \E p \in Producers : CallPush(p)
           \/ \E c \in Consumers : CallFetch(c)
           \/ \E t \in Threads : Lock(t) \/ Wait(t) \/ Closed(t) \/ WakeUp(t)
           \/ CallClose \/ Join \/ Free
  BY <1>1, <1>7 DEF CallPush, CallFetch, CallClose, Lock, Wait, Closed, WakeUp, Join, Free, Pcs
<1>8. ASSUME NEW t \in Threads, PushStore(t) \/ FetchTake(t)
      PROVE (PushStore(t) /\ t \in Producers) \/ (FetchTake(t) /\ t \in Consumers)
  BY <1>8 DEF PushStore, FetchTake
<1> QED BY <1>3, <1>4, <1>5, <1>6, <1>7, <1>8 DEF Next, Section, Closing

RingTyped ==
  /\ slots \in [0 .. Capacity - 1 -> Sessions \cup {Null}] /\ running \in BOOLEAN
  /\ count \in 0 .. Capacity /\ got \in Seq(Sessions)
  /\ fetchIdx \in 0 .. Capacity - 1 /\ writeIdx \in 0 .. Capacity - 1

\* The types are kept,
LEMMA TypeStep ==
  ASSUME Inv, Next
  PROVE  TypeOK'
<1>1. pc' \in [Threads -> Pcs]
  BY PcFrame DEF Inv
<1>2. RingTyped'
  <2>1. ASSUME NEW p \in Producers, PushStore(p) PROVE RingTyped'
    <3>1. (writeIdx + 1) % Capacity \in 0 .. Capacity - 1
      BY <2>1, StoreFacts, RingSum, ConstantsType
    <3> QED BY <2>1, <3>1, StoreFacts, ConstantsType, SMTT(30) DEF Inv, TypeOK, RingTyped
  <2>2. ASSUME NEW c \in Consumers, FetchTake(c) PROVE RingTyped'
    <3>1. (fetchIdx + 1) % Capacity \in 0 .. Capacity - 1
      BY <2>2, TakeFacts, RingSum, ConstantsType
    <3>2. got' \in Seq(Sessions)
      BY <2>2, TakeFacts, SMTT(30) DEF Inv, TypeOK
    <3> QED BY <2>2, <3>1, <3>2, TakeFacts, ConstantsType DEF Inv, TypeOK, RingTyped
  <2>3. CASE UNCHANGED <<slots, count, fetchIdx, writeIdx, got>> /\ (running' = running \/ Close)
    BY <2>3 DEF Inv, TypeOK, RingTyped, Close
  <2> QED BY <2>1, <2>2, <2>3, RingFrame
<1>3. mutex' \in Threads \cup {Null} /\ wakes' \in 0 .. MaxWakes /\ fresh' \subseteq Sessions
  BY ConstantsType, SizeAssumption
     DEF Inv, TypeOK, Next, CallPush, CallFetch, CallClose, Section, Closing, Lock, Wait, WakeUp,
         PushStore, FetchTake, Closed, Unlock, Close, Join, Free
<1>4. hand' \in [Threads -> Sessions \cup {Null}]
  <2>1. CASE \E p \in Producers : PushStore(p)
    BY <2>1, StoreFacts DEF Inv, TypeOK
  <2>2. CASE \E c \in Consumers : FetchTake(c)
    BY <2>2, TakeFacts DEF Inv, TypeOK
  <2>3. CASE \E p \in Producers : CallPush(p)
    BY <2>3 DEF CallPush, Inv, TypeOK
  <2>4. CASE \E t \in Threads : Closed(t) \/ Unlock(t)
    BY <2>4 DEF Closed, Unlock, Inv, TypeOK
  <2>5. CASE \/ \E c \in Consumers : CallFetch(c)
             \/ \E t \in Threads : Lock(t) \/ Wait(t) \/ WakeUp(t)
             \/ CallClose \/ Closing
    BY <2>5 DEF CallFetch, CallClose, Lock, Wait, WakeUp, Closing, Close, Join, Free, Inv, TypeOK
  <2>6. ASSUME NEW t \in Threads, PushStore(t) \/ FetchTake(t)
        PROVE (PushStore(t) /\ t \in Producers) \/ (FetchTake(t) /\ t \in Consumers)
    BY <2>6 DEF PushStore, FetchTake
  <2> QED BY <2>1, <2>2, <2>3, <2>4, <2>5, <2>6 DEF Next, Section
<1> QED BY <1>1, <1>2, <1>3, <1>4 DEF TypeOK, RingTyped

\* ... the owner of the mutex is in the critical section,
LEMMA MutexStep ==
  ASSUME Inv, Next
  PROVE  MutexOK'
<1>0. /\ pc \in [Threads -> Pcs] /\ mutex \in Threads \cup {Null} /\ Null \notin Threads
      /\ \A t \in Threads : pc[t] \in {"body", "unlock"} <=> mutex = t
  BY ConstantsType DEF Inv, TypeOK, MutexOK
<1>1. ASSUME NEW t \in Threads, NEW S \in SUBSET Threads, pc[t] = "body", SignalOne(t, S), mutex' = mutex
      PROVE MutexOK'
  BY <1>0, <1>1 DEF SignalOne, Waiting, MutexOK
<1>2. CASE \E p \in Producers : PushStore(p)
  BY <1>1, <1>2, ConstantsType DEF PushStore
<1>3. CASE \E c \in Consumers : FetchTake(c)
  BY <1>1, <1>3, ConstantsType DEF FetchTake
<1>4. CASE Close
  BY <1>0, <1>4, ConstantsType DEF Close, MutexOK
<1>5. ASSUME NEW t \in Threads, Unlock(t) PROVE MutexOK'
  <2>1. mutex = t /\ mutex' = Null /\ pc'[t] \notin {"body", "unlock"}
        /\ \A u \in Threads \ {t} : pc'[u] = pc[u]
    BY <1>0, <1>5 DEF Unlock
  <2> QED BY <1>0, <2>1 DEF MutexOK
<1>6. CASE \E t \in Threads : Lock(t) \/ Wait(t)
  BY <1>0, <1>6 DEF Lock, Wait, MutexOK
<1>7. CASE \/ \E p \in Producers : CallPush(p)
           \/ \E c \in Consumers : CallFetch(c)
           \/ \E t \in Threads : Closed(t) \/ WakeUp(t)
           \/ CallClose \/ Join \/ Free
  BY <1>0, <1>7, ConstantsType DEF CallPush, CallFetch, CallClose, Closed, WakeUp, Join, Free, MutexOK
<1>8. ASSUME NEW t \in Threads, PushStore(t) \/ FetchTake(t)
      PROVE (PushStore(t) /\ t \in Producers) \/ (FetchTake(t) /\ t \in Consumers)
  BY <1>8 DEF PushStore, FetchTake
<1> QED BY <1>2, <1>3, <1>4, <1>5, <1>6, <1>7, <1>8 DEF Next, Section, Closing

\* ... each role has in its hands what its place says,
LEMMA RolesStep ==
  ASSUME Inv, Next
  PROVE  RolesOK'
<1>0. /\ pc \in [Threads -> Pcs] /\ hand \in [Threads -> Sessions \cup {Null}] /\ RolesOK
      /\ fresh \subseteq Sessions
  BY DEF Inv, TypeOK
<1>2. ASSUME NEW p \in Producers, PushStore(p) PROVE RolesOK'
  <2>1. pc[p] = "body" /\ SignalOne(p, Consumers) /\ hand' = [hand EXCEPT ![p] = Null]
    BY <1>2 DEF PushStore
  <2> QED BY <1>0, <2>1, ConstantsType DEF SignalOne, Waiting, RolesOK
<1>3. ASSUME NEW c \in Consumers, FetchTake(c) PROVE RolesOK'
  <2>1. pc[c] = "body" /\ SignalOne(c, Producers) /\ \A p \in Producers : hand'[p] = hand[p]
    BY <1>0, <1>3, ConstantsType DEF FetchTake
  <2> QED BY <1>0, <2>1, ConstantsType DEF SignalOne, Waiting, RolesOK
<1>4. CASE Close
  BY <1>0, <1>4, ConstantsType DEF Close, RolesOK
<1>5. ASSUME NEW t \in Threads, Unlock(t) PROVE RolesOK'
  BY <1>0, <1>5, ConstantsType DEF Unlock, RolesOK
<1>6. ASSUME NEW t \in Threads, Lock(t) \/ Wait(t) \/ WakeUp(t) PROVE RolesOK'
  BY <1>0, <1>6, ConstantsType DEF Lock, Wait, WakeUp, RolesOK, Threads
<1>7. CASE \/ \E c \in Consumers : CallFetch(c)
           \/ CallClose \/ Join \/ Free
  BY <1>0, <1>7, ConstantsType DEF CallFetch, CallClose, Join, Free, RolesOK
<1>8. CASE \E p \in Producers : CallPush(p)
  BY <1>0, <1>8, ConstantsType DEF CallPush, RolesOK
<1>9. ASSUME NEW t \in Threads, Closed(t) PROVE RolesOK'
  BY <1>0, <1>9, ConstantsType DEF Closed, RolesOK
<1>10. ASSUME NEW t \in Threads, PushStore(t) \/ FetchTake(t)
      PROVE (PushStore(t) /\ t \in Producers) \/ (FetchTake(t) /\ t \in Consumers)
  BY <1>10 DEF PushStore, FetchTake
<1> QED BY <1>2, <1>3, <1>4, <1>5, <1>6, <1>7, <1>8, <1>9, <1>10 DEF Next, Section, Closing

\* ... the occupied slots are those between the indices,
LEMMA RingStep ==
  ASSUME Inv, Next
  PROVE  RingConsistent'
<1>0. /\ RingConsistent /\ slots \in [0 .. Capacity - 1 -> Sessions \cup {Null}]
      /\ count \in 0 .. Capacity /\ fetchIdx \in 0 .. Capacity - 1 /\ Capacity \in Nat \ {0}
      /\ Null \notin Sessions
  BY ConstantsType DEF Inv, TypeOK
<1>1. ASSUME NEW p \in Producers, PushStore(p) PROVE RingConsistent'
  <2>0. /\ count \in 0 .. Capacity - 1 /\ count' = count + 1 /\ fetchIdx' = fetchIdx
        /\ writeIdx = (fetchIdx + count) % Capacity /\ writeIdx' = (writeIdx + 1) % Capacity
        /\ slots' = [slots EXCEPT ![writeIdx] = hand[p]] /\ hand[p] \in Sessions
    BY <1>0, <1>1, StoreFacts DEF RingConsistent
  <2>1. writeIdx' = (fetchIdx' + count') % Capacity
    <3>1. (writeIdx + 1) % Capacity = (fetchIdx + (count + 1)) % Capacity
      <4>1. \/ writeIdx = fetchIdx + count /\ fetchIdx + count < Capacity
            \/ writeIdx = fetchIdx + count - Capacity /\ fetchIdx + count >= Capacity
        <5>1. (fetchIdx + count) % Capacity =
                 IF fetchIdx + count < Capacity THEN fetchIdx + count ELSE fetchIdx + count - Capacity
          BY <1>0, RingSum
        <5> QED BY <1>0, <2>0, <5>1
      <4>2. /\ writeIdx \in 0 .. Capacity - 1 /\ 1 \in 0 .. Capacity /\ count + 1 \in 0 .. Capacity
        BY <1>0, <2>0, <4>1
      <4>3. (writeIdx + 1) % Capacity = IF writeIdx + 1 < Capacity THEN writeIdx + 1 ELSE writeIdx + 1 - Capacity
        BY <1>0, <4>2, RingSum
      <4>4. (fetchIdx + (count + 1)) % Capacity =
               IF fetchIdx + (count + 1) < Capacity THEN fetchIdx + (count + 1)
                                                    ELSE fetchIdx + (count + 1) - Capacity
        BY <1>0, <4>2, RingSum
      <4> QED BY <1>0, <2>0, <4>1, <4>2, <4>3, <4>4, SMTT(30)
    <3> QED BY <2>0, <3>1
  <2>2. ASSUME NEW i \in 0 .. Capacity - 1
        PROVE  slots'[(fetchIdx + i) % Capacity] = Null <=> i >= count + 1
    <3>1. (fetchIdx + i) % Capacity \in 0 .. Capacity - 1
      BY <1>0, RingSum
    <3>2. (fetchIdx + i) % Capacity = writeIdx <=> i = count
      <4>1. (fetchIdx + i) % Capacity = (fetchIdx + count) % Capacity <=> i = count
        <5>1. count \in 0 .. Capacity /\ i \in 0 .. Capacity
          BY <1>0, <2>0
        <5>2. (fetchIdx + i) % Capacity =
                 IF fetchIdx + i < Capacity THEN fetchIdx + i ELSE fetchIdx + i - Capacity
          BY <1>0, <5>1, RingSum
        <5>3. (fetchIdx + count) % Capacity =
                 IF fetchIdx + count < Capacity THEN fetchIdx + count ELSE fetchIdx + count - Capacity
          BY <1>0, <5>1, RingSum
        <5>4. /\ fetchIdx \in Nat /\ Capacity \in Nat /\ count \in Nat /\ i \in Nat
              /\ count < Capacity /\ i < Capacity
          BY <1>0, <2>0
        <5> QED BY <5>2, <5>3, <5>4
      <4> QED BY <2>0, <4>1
    <3>3. slots[(fetchIdx + i) % Capacity] = Null <=> i >= count
      BY <1>0 DEF RingConsistent
    <3>4. i = count \/ slots'[(fetchIdx + i) % Capacity] = slots[(fetchIdx + i) % Capacity]
      BY <1>0, <2>0, <3>1, <3>2
    <3>5. i = count => slots'[(fetchIdx + i) % Capacity] = hand[p]
      BY <1>0, <2>0, <3>1, <3>2
    <3>6. i >= count + 1 <=> (i >= count /\ i # count)
      BY <1>0
    <3> QED BY <1>0, <2>0, <3>3, <3>4, <3>5, <3>6
  <2> QED BY <2>0, <2>1, <2>2 DEF RingConsistent
<1>2. ASSUME NEW c \in Consumers, FetchTake(c) PROVE RingConsistent'
  <2>0. /\ count \in 1 .. Capacity /\ count' = count - 1 /\ writeIdx' = writeIdx
        /\ writeIdx = (fetchIdx + count) % Capacity /\ fetchIdx' = (fetchIdx + 1) % Capacity
        /\ slots' = [slots EXCEPT ![fetchIdx] = Null]
    BY <1>0, <1>2, TakeFacts DEF RingConsistent
  <2>1. writeIdx' = (fetchIdx' + count') % Capacity
    <3>1. count - 1 \in 0 .. Capacity - 1 /\ (count - 1) + 1 = count
      BY <1>0, <2>0
    <3>2. (((fetchIdx + 1) % Capacity) + (count - 1)) % Capacity = (fetchIdx + ((count - 1) + 1)) % Capacity
      BY <1>0, <3>1, RingShift
    <3> QED BY <2>0, <3>1, <3>2
  <2>2. ASSUME NEW i \in 0 .. Capacity - 1
        PROVE  slots'[(fetchIdx' + i) % Capacity] = Null <=> i >= count - 1
    <3>1. (fetchIdx' + i) % Capacity = (fetchIdx + (i + 1)) % Capacity
      BY <1>0, <2>0, RingShift
    <3>2. CASE i + 1 < Capacity
      <4>1. i + 1 \in 0 .. Capacity - 1 /\ 0 \in 0 .. Capacity - 1 /\ i + 1 # 0
        BY <1>0, <3>2
      <4>2. (fetchIdx + 0) % Capacity = fetchIdx
        <5>1. 0 \in 0 .. Capacity
          BY <1>0
        <5>2. (fetchIdx + 0) % Capacity =
                 IF fetchIdx + 0 < Capacity THEN fetchIdx + 0 ELSE fetchIdx + 0 - Capacity
          BY <1>0, <5>1, RingSum
        <5> QED BY <1>0, <5>2
      <4>3. (fetchIdx + (i + 1)) % Capacity # fetchIdx
        BY <1>0, <4>1, <4>2, RingApart
      <4>4. (fetchIdx + (i + 1)) % Capacity \in 0 .. Capacity - 1
        BY <1>0, <4>1, RingSum
      <4>5. slots'[(fetchIdx + (i + 1)) % Capacity] = slots[(fetchIdx + (i + 1)) % Capacity]
        BY <1>0, <2>0, <4>3, <4>4
      <4>6. slots[(fetchIdx + (i + 1)) % Capacity] = Null <=> i + 1 >= count
        BY <1>0, <4>1 DEF RingConsistent
      <4>7. i + 1 >= count <=> i >= count - 1
        BY <1>0
      <4> QED BY <3>1, <4>5, <4>6, <4>7
    <3>3. CASE i + 1 = Capacity
      <4>1. (fetchIdx + (i + 1)) % Capacity = fetchIdx
        <5>1. i + 1 \in 0 .. Capacity
          BY <1>0, <3>3
        <5>2. (fetchIdx + (i + 1)) % Capacity =
                 IF fetchIdx + (i + 1) < Capacity THEN fetchIdx + (i + 1) ELSE fetchIdx + (i + 1) - Capacity
          BY <1>0, <5>1, RingSum
        <5> QED BY <1>0, <3>3, <5>2
      <4>2. i >= count - 1
        BY <1>0, <3>3
      <4> QED BY <1>0, <2>0, <3>1, <4>1, <4>2
    <3>4. i + 1 < Capacity \/ i + 1 = Capacity
      BY <1>0
    <3> QED BY <3>2, <3>3, <3>4
  <2> QED BY <2>0, <2>1, <2>2 DEF RingConsistent
<1>3. CASE UNCHANGED <<slots, count, fetchIdx, writeIdx, got>>
  BY <1>0, <1>3 DEF RingConsistent
<1> QED BY <1>1, <1>2, <1>3, RingFrame

\* ... a session is in one place,
LEMMA PlaceStep ==
  ASSUME Inv, Next
  PROVE  OnePlace'
<1>0. /\ slots \in [0 .. Capacity - 1 -> Sessions \cup {Null}] /\ hand \in [Threads -> Sessions \cup {Null}]
      /\ got \in Seq(Sessions) /\ fresh \subseteq Sessions /\ OnePlace /\ Null \notin Sessions
      /\ fetchIdx \in 0 .. Capacity - 1
  BY ConstantsType DEF Inv, TypeOK
<1>1. ASSUME NEW p \in Producers, PushStore(p) PROVE OnePlace'
  <2>0. /\ writeIdx \in 0 .. Capacity - 1 /\ slots[writeIdx] = Null /\ hand[p] \in Sessions
        /\ slots' = [slots EXCEPT ![writeIdx] = hand[p]] /\ hand' = [hand EXCEPT ![p] = Null]
        /\ UNCHANGED <<fresh, got>>
    BY <1>1, StoreFacts
  <2>1. /\ DOMAIN slots' = DOMAIN slots /\ slots'[writeIdx] = hand[p]
        /\ \A i \in DOMAIN slots \ {writeIdx} : slots'[i] = slots[i]
        /\ hand'[p] = Null /\ \A q \in Producers \ {p} : hand'[q] = hand[q]
    BY <1>0, <2>0, ConstantsType
  <2>2. /\ hand[p] \notin fresh /\ \A i \in DOMAIN slots : slots[i] # hand[p]
        /\ \A j \in DOMAIN got : got[j] # hand[p]
        /\ \A q \in Producers \ {p} : hand[q] # hand[p]
    BY <1>0, <2>0 DEF OnePlace
  <2> QED BY <1>0, <2>0, <2>1, <2>2 DEF OnePlace
<1>2. ASSUME NEW c \in Consumers, FetchTake(c) PROVE OnePlace'
  <2>0. /\ slots[fetchIdx] \in Sessions /\ slots' = [slots EXCEPT ![fetchIdx] = Null]
        /\ got' = Append(got, slots[fetchIdx]) /\ fresh' = fresh
        /\ \A p \in Producers : hand'[p] = hand[p]
    BY <1>0, <1>2, TakeFacts, ConstantsType
  <2>1. /\ DOMAIN slots' = DOMAIN slots /\ slots'[fetchIdx] = Null /\ fetchIdx \in DOMAIN slots
        /\ \A i \in DOMAIN slots \ {fetchIdx} : slots'[i] = slots[i]
    BY <1>0, <2>0
  <2>2. \A j \in DOMAIN got' : (j \in DOMAIN got /\ got'[j] = got[j])
                               \/ (j = Len(got) + 1 /\ got'[j] = slots[fetchIdx])
    BY <1>0, <2>0
  <2>3. /\ slots[fetchIdx] \notin fresh
        /\ \A i \in DOMAIN slots : slots[i] = slots[fetchIdx] => i = fetchIdx
        /\ \A j \in DOMAIN got : got[j] # slots[fetchIdx]
        /\ \A p \in Producers : hand[p] # slots[fetchIdx]
    BY <1>0, <2>0, <2>1 DEF OnePlace
  <2>4. \A i, j \in DOMAIN got' : got'[i] = got'[j] => i = j
    BY <1>0, <2>2, <2>3 DEF OnePlace
  <2>5. \A i, j \in DOMAIN slots' : slots'[i] = slots'[j] => i = j \/ slots'[i] = Null
    BY <1>0, <2>1 DEF OnePlace
  <2>6. \A i \in DOMAIN slots', j \in DOMAIN got' : slots'[i] # got'[j]
    BY <1>0, <2>0, <2>1, <2>2, <2>3 DEF OnePlace
  <2>7. /\ \A i \in DOMAIN slots' : slots'[i] \notin fresh'
        /\ \A j \in DOMAIN got' : got'[j] \notin fresh'
    BY <1>0, <2>0, <2>1, <2>2, <2>3 DEF OnePlace
  <2>8. \A p \in Producers : hand'[p] # Null =>
       /\ hand'[p] \notin fresh'
       /\ \A i \in DOMAIN slots' : slots'[i] # hand'[p]
       /\ \A j \in DOMAIN got' : got'[j] # hand'[p]
       /\ \A q \in Producers \ {p} : hand'[q] # hand'[p]
    BY <1>0, <2>0, <2>1, <2>2, <2>3 DEF OnePlace
  <2> QED BY <2>4, <2>5, <2>6, <2>7, <2>8 DEF OnePlace
<1>3. ASSUME NEW p \in Producers, CallPush(p) PROVE OnePlace'
  <2>1. PICK s \in fresh : hand' = [hand EXCEPT ![p] = s] /\ fresh' = fresh \ {s}
    BY <1>3 DEF CallPush
  <2>2. UNCHANGED <<slots, got>>
    BY <1>3 DEF CallPush, ring
  <2>3. /\ hand'[p] = s /\ \A q \in Producers \ {p} : hand'[q] = hand[q]
        /\ \A q \in Producers : hand[q] # s
    BY <1>0, <2>1, ConstantsType DEF OnePlace
  <2> QED BY <1>0, <2>1, <2>2, <2>3 DEF OnePlace
<1>4. ASSUME UNCHANGED <<slots, got, fresh>>, \A p \in Producers : hand'[p] \in {hand[p], Null}
      PROVE  OnePlace'
  BY <1>0, <1>4 DEF OnePlace
<1>5. ASSUME NEW t \in Threads, Closed(t) \/ Unlock(t) \/ Lock(t) \/ Wait(t) \/ WakeUp(t) PROVE OnePlace'
  <2>1. UNCHANGED <<slots, got, fresh>> /\ \A p \in Producers : hand'[p] \in {hand[p], Null}
    BY <1>0, <1>5, ConstantsType DEF Closed, Unlock, Lock, Wait, WakeUp, ring
  <2> QED BY <1>4, <2>1
<1>6. CASE (\E c \in Consumers : CallFetch(c)) \/ CallClose \/ Closing
  <2>1. UNCHANGED <<slots, got, fresh, hand>>
    BY <1>6 DEF CallFetch, CallClose, Closing, Close, Join, Free, ring
  <2> QED BY <1>4, <2>1
<1>7. ASSUME NEW t \in Threads, PushStore(t) \/ FetchTake(t)
      PROVE (PushStore(t) /\ t \in Producers) \/ (FetchTake(t) /\ t \in Consumers)
  BY <1>7 DEF PushStore, FetchTake
<1> QED BY <1>1, <1>2, <1>3, <1>5, <1>6, <1>7 DEF Next, Section

\* Sizes of finite sets that grow or lose a member.
LEMMA Sizes ==
  ASSUME NEW S, IsFiniteSet(S), NEW A \in SUBSET S, NEW B \in SUBSET S
  PROVE  /\ Cardinality(A) \in Nat /\ Cardinality(B) \in Nat
         /\ A \subseteq B => Cardinality(A) <= Cardinality(B)
         /\ \A x : x \notin A /\ B = A \cup {x} => Cardinality(B) = Cardinality(A) + 1
         /\ \A x : x \in A /\ B = A \ {x} => Cardinality(B) = Cardinality(A) - 1
<1>1. IsFiniteSet(A) /\ IsFiniteSet(B)
  BY FS_Subset
<1>2. Cardinality(A) \in Nat /\ Cardinality(B) \in Nat
  BY <1>1, FS_CardinalityType
<1>3. A \subseteq B => Cardinality(A) <= Cardinality(B)
  BY <1>1, FS_Subset
<1>4. ASSUME NEW x, x \notin A, B = A \cup {x} PROVE Cardinality(B) = Cardinality(A) + 1
  BY <1>1, <1>4, FS_AddElement
<1>5. ASSUME NEW x, x \in A, B = A \ {x} PROVE Cardinality(B) = Cardinality(A) - 1
  BY <1>1, <1>5, FS_RemoveElement
<1> QED BY <1>2, <1>3, <1>4, <1>5

\* A role keeps its wakeups when none of it starts to wait, whoever tests goes
\* on testing, and there is no more to test for.
LEMMA RoleKept ==
  ASSUME NEW S, IsFiniteSet(S), NEW n \in Nat, NEW m \in Nat, m <= n,
         Waiting(S) # {} => n <= Cardinality(Testing(S)),
         \A t \in S : pc'[t] = "wait" => pc[t] = "wait",
         \A t \in S : pc[t] \in {"lock", "body"} => pc'[t] \in {"lock", "body"}
  PROVE  Waiting(S)' # {} => m <= Cardinality(Testing(S)')
<1> SUFFICES ASSUME Waiting(S)' # {} PROVE m <= Cardinality(Testing(S)')
  OBVIOUS
<1>1. Waiting(S) # {}
  BY DEF Waiting
<1>2. /\ Testing(S) \in SUBSET S /\ Testing(S)' \in SUBSET S /\ Testing(S) \subseteq Testing(S)'
  BY DEF Testing
<1>3. Cardinality(Testing(S)) <= Cardinality(Testing(S)')
  BY <1>2, Sizes
<1>4. Cardinality(Testing(S)) \in Nat /\ Cardinality(Testing(S)') \in Nat
  BY <1>2, Sizes
<1> QED BY <1>1, <1>3, <1>4

\* A signal for a role pays for what is added for it.
LEMMA RoleSignalled ==
  ASSUME NEW S, IsFiniteSet(S), NEW t, t \notin S, NEW n \in Nat,
         pc \in [Threads -> Pcs], S \subseteq Threads, t \in Threads,
         Waiting(S) # {} => n <= Cardinality(Testing(S)),
         SignalOne(t, S)
  PROVE  Waiting(S)' # {} => n + 1 <= Cardinality(Testing(S)')
<1>1. CASE Waiting(S) = {}
  <2>1. \A u \in S : pc'[u] = pc[u]
    BY <1>1 DEF SignalOne, Waiting
  <2> QED BY <1>1, <2>1 DEF Waiting
<1>2. CASE Waiting(S) # {}
  <2>1. PICK u \in Waiting(S) : pc' = [pc EXCEPT ![t] = "unlock", ![u] = "lock"]
    BY <1>2 DEF SignalOne
  <2>2. /\ u \in S /\ pc[u] = "wait" /\ u # t /\ pc'[u] = "lock"
        /\ \A v \in S \ {u} : pc'[v] = pc[v]
    BY <2>1 DEF Waiting
  <2>3. /\ Testing(S) \in SUBSET S /\ Testing(S)' \in SUBSET S /\ u \notin Testing(S)
        /\ Testing(S)' = Testing(S) \cup {u}
    BY <2>2 DEF Testing
  <2>4. Cardinality(Testing(S)') = Cardinality(Testing(S)) + 1
    BY <2>3, Sizes
  <2>5. Cardinality(Testing(S)) \in Nat
    BY <2>3, Sizes
  <2> QED BY <1>2, <2>4, <2>5
<1> QED BY <1>1, <1>2

\* One that tests the condition and goes on takes one with it.
LEMMA RoleServed ==
  ASSUME NEW S, IsFiniteSet(S), NEW t \in S, NEW R, R \cap S = {}, NEW n \in Nat,
         pc \in [Threads -> Pcs], S \subseteq Threads, R \subseteq Threads,
         Waiting(S) # {} => n + 1 <= Cardinality(Testing(S)),
         pc[t] = "body", SignalOne(t, R)
  PROVE  Waiting(S)' # {} => n <= Cardinality(Testing(S)')
<1>1. pc'[t] = "unlock" /\ \A u \in S \ {t} : pc'[u] = pc[u]
  BY DEF SignalOne, Waiting
<1>2. /\ Testing(S) \in SUBSET S /\ Testing(S)' \in SUBSET S /\ t \in Testing(S)
      /\ Testing(S)' = Testing(S) \ {t} /\ Waiting(S)' = Waiting(S)
  BY <1>1 DEF Testing, Waiting
<1>3. Cardinality(Testing(S)') = Cardinality(Testing(S)) - 1
  BY <1>2, Sizes
<1>4. Cardinality(Testing(S)) \in Nat
  BY <1>2, Sizes
<1> QED BY <1>2, <1>3, <1>4

\* ... and no wakeup is lost.
LEMMA WakeStep ==
  ASSUME Inv, Next
  PROVE  NoLostWakeup'
<1>0. /\ pc \in [Threads -> Pcs] /\ count \in 0 .. Capacity /\ NoLostWakeup
      /\ Producers \cap Consumers = {} /\ count \in Nat /\ Capacity - count \in Nat
  BY RolesAssumption, ConstantsType DEF Inv, TypeOK
<1>1. ASSUME NEW p \in Producers, PushStore(p) PROVE NoLostWakeup'
  <2>1. /\ running /\ running' = running /\ count' = count + 1 /\ count \in 0 .. Capacity - 1
        /\ pc[p] = "body" /\ SignalOne(p, Consumers) /\ p \notin Consumers
    BY <1>1, StoreFacts, ConstantsType DEF PushStore
  <2>2. Waiting(Consumers)' # {} => count + 1 <= Cardinality(Testing(Consumers)')
    BY <1>0, <2>1, ConstantsType, RoleSignalled DEF NoLostWakeup
  <2>3. Waiting(Producers)' # {} => Capacity - (count + 1) <= Cardinality(Testing(Producers)')
    <3>1. Capacity - (count + 1) \in Nat /\ (Capacity - (count + 1)) + 1 = Capacity - count
      BY <1>0, <2>1, ConstantsType
    <3>2. Waiting(Producers) # {} => (Capacity - (count + 1)) + 1 <= Cardinality(Testing(Producers))
      BY <1>0, <3>1 DEF NoLostWakeup
    <3> QED BY <1>0, <2>1, <3>1, <3>2, ConstantsType, RoleServed
  <2> QED BY <2>1, <2>2, <2>3 DEF NoLostWakeup
<1>2. ASSUME NEW c \in Consumers, FetchTake(c) PROVE NoLostWakeup'
  <2>1. /\ running /\ running' = running /\ count' = count - 1 /\ count \in 1 .. Capacity
        /\ pc[c] = "body" /\ SignalOne(c, Producers) /\ c \notin Producers
    BY <1>2, TakeFacts, ConstantsType DEF FetchTake
  <2>2. Waiting(Producers)' # {} => (Capacity - count) + 1 <= Cardinality(Testing(Producers)')
    BY <1>0, <2>1, ConstantsType, RoleSignalled DEF NoLostWakeup
  <2>3. Waiting(Consumers)' # {} => count - 1 <= Cardinality(Testing(Consumers)')
    <3>1. count - 1 \in Nat /\ (count - 1) + 1 = count
      BY <1>0, <2>1
    <3>2. Waiting(Consumers) # {} => (count - 1) + 1 <= Cardinality(Testing(Consumers))
      BY <1>0, <3>1 DEF NoLostWakeup
    <3> QED BY <1>0, <2>1, <3>1, <3>2, ConstantsType, RoleServed
  <2>4. (Capacity - count) + 1 = Capacity - count'
    BY <1>0, <2>1, ConstantsType
  <2> QED BY <2>1, <2>2, <2>3, <2>4 DEF NoLostWakeup
\* The steps that neither wait nor touch the ring.
<1>3. ASSUME UNCHANGED <<count, running>>,
             \A t \in Threads : pc'[t] = "wait" => pc[t] = "wait",
             \A t \in Threads : pc[t] \in {"lock", "body"} /\ running => pc'[t] \in {"lock", "body"}
      PROVE  NoLostWakeup'
  <2>1. ~ running => Waiting(Threads)' = {}
    BY <1>0, <1>3 DEF NoLostWakeup, Waiting
  <2>2. CASE running
    <3>1. Waiting(Consumers)' # {} => count <= Cardinality(Testing(Consumers)')
      BY <1>0, <1>3, <2>2, ConstantsType, RoleKept DEF NoLostWakeup
    <3>2. Waiting(Producers)' # {} => Capacity - count <= Cardinality(Testing(Producers)')
      BY <1>0, <1>3, <2>2, ConstantsType, RoleKept DEF NoLostWakeup
    <3> QED BY <1>3, <2>2, <3>1, <3>2 DEF NoLostWakeup
  <2>3. CASE ~ running
    <3>1. Waiting(Consumers)' = {} /\ Waiting(Producers)' = {}
      BY <2>1, <2>3, ConstantsType DEF Waiting
    <3> QED BY <1>3, <2>1, <2>3, <3>1 DEF NoLostWakeup
  <2> QED BY <2>2, <2>3
<1>4. CASE Close
  <2>1. \A t \in Threads : pc'[t] # "wait"
    BY <1>0, <1>4 DEF Close
  <2>2. Waiting(Consumers)' = {} /\ Waiting(Producers)' = {} /\ Waiting(Threads)' = {}
    BY <2>1, ConstantsType DEF Waiting
  <2> QED BY <2>2 DEF NoLostWakeup
<1>5. ASSUME NEW t \in Threads, Wait(t) PROVE NoLostWakeup'
  <2>1. /\ running /\ running' = running /\ count' = count /\ pc[t] = "body"
        /\ \A u \in Threads \ {t} : pc'[u] = pc[u]
        /\ (t \in Producers /\ count = Capacity) \/ (t \in Consumers /\ count = 0)
    BY <1>0, <1>5 DEF Wait, ring
  <2>2. CASE t \in Producers /\ count = Capacity
    <3>1. Capacity - count = 0 /\ t \notin Consumers
      BY <1>0, <2>2, ConstantsType
    <3>2. Testing(Producers)' \in SUBSET Producers
      BY DEF Testing
    <3>3. Cardinality(Testing(Producers)') \in Nat
      BY <3>2, Sizes, ConstantsType
    <3>4. Waiting(Consumers)' # {} => count <= Cardinality(Testing(Consumers)')
      <4>1. \A u \in Consumers : pc'[u] = pc[u]
        BY <2>1, <3>1, ConstantsType
      <4> QED BY <1>0, <4>1, ConstantsType, RoleKept DEF NoLostWakeup
    <3> QED BY <2>1, <3>1, <3>3, <3>4 DEF NoLostWakeup
  <2>3. CASE t \in Consumers /\ count = 0
    <3>1. t \notin Producers
      BY <2>3, ConstantsType
    <3>2. Testing(Consumers)' \in SUBSET Consumers
      BY DEF Testing
    <3>3. Cardinality(Testing(Consumers)') \in Nat
      BY <3>2, Sizes, ConstantsType
    <3>4. Waiting(Producers)' # {} => Capacity - count <= Cardinality(Testing(Producers)')
      <4>1. \A u \in Producers : pc'[u] = pc[u]
        BY <2>1, <3>1, ConstantsType
      <4> QED BY <1>0, <4>1, ConstantsType, RoleKept DEF NoLostWakeup
    <3> QED BY <2>1, <2>3, <3>3, <3>4 DEF NoLostWakeup
  <2> QED BY <2>1, <2>2, <2>3
<1>6. ASSUME NEW t \in Threads, Closed(t) \/ Unlock(t) \/ Lock(t) \/ WakeUp(t) PROVE NoLostWakeup'
  <2>1. /\ UNCHANGED <<count, running>> /\ \A u \in Threads \ {t} : pc'[u] = pc[u]
        /\ pc'[t] # "wait" /\ (pc[t] \in {"lock", "body"} /\ running => pc'[t] \in {"lock", "body"})
    BY <1>0, <1>6 DEF Closed, Unlock, Lock, WakeUp, ring
  <2> QED BY <1>3, <2>1
<1>7. CASE (\E p \in Producers : CallPush(p)) \/ (\E c \in Consumers : CallFetch(c))
           \/ CallClose \/ Join \/ Free
  <2>1. /\ UNCHANGED <<count, running>>
        /\ \E t \in Threads : /\ \A u \in Threads \ {t} : pc'[u] = pc[u]
                              /\ pc'[t] # "wait" /\ pc[t] \notin {"lock", "body"}
    BY <1>0, <1>7, ConstantsType DEF CallPush, CallFetch, CallClose, Join, Free, ring
  <2> QED BY <1>3, <2>1
<1>8. ASSUME NEW t \in Threads, PushStore(t) \/ FetchTake(t)
      PROVE (PushStore(t) /\ t \in Producers) \/ (FetchTake(t) /\ t \in Consumers)
  BY <1>8 DEF PushStore, FetchTake
<1> QED BY <1>1, <1>2, <1>4, <1>5, <1>6, <1>7, <1>8 DEF Next, Section, Closing

\* The invariant holds at the start.
LEMMA InitInv == Init => Inv
<1> SUFFICES ASSUME Init PROVE Inv
  OBVIOUS
<1>1. TypeOK
  BY ConstantsType, SizeAssumption DEF Init, TypeOK, Pcs
<1>2. MutexOK /\ RolesOK
  BY ConstantsType DEF Init, MutexOK, RolesOK
<1>3. RingConsistent
  <2>1. /\ count = 0 /\ fetchIdx = 0 /\ writeIdx = 0 /\ slots = [i \in 0 .. Capacity - 1 |-> Null]
        /\ 0 \in 0 .. Capacity - 1 /\ 0 \in 0 .. Capacity
    BY ConstantsType DEF Init
  <2>2. \A i \in 0 .. Capacity - 1 : (0 + i) % Capacity \in 0 .. Capacity - 1
    <3>1. \A i \in 0 .. Capacity - 1 : i \in 0 .. Capacity
      BY ConstantsType
    <3> QED BY <2>1, <3>1, ConstantsType, RingSum
  <2>3. (0 + 0) % Capacity = 0
    BY ConstantsType
  <2> QED BY <2>1, <2>2, <2>3 DEF RingConsistent
<1>4. OnePlace
  BY ConstantsType DEF Init, OnePlace
<1>5. NoLostWakeup
  BY ConstantsType DEF Init, NoLostWakeup, Waiting
<1> QED BY <1>1, <1>2, <1>3, <1>4, <1>5 DEF Inv

\* Every step keeps the invariant.
LEMMA StepInv == Inv /\ [Next]_vars => Inv'
<1>1. ASSUME Inv, Next PROVE Inv'
  BY <1>1, TypeStep, MutexStep, RolesStep, RingStep, PlaceStep, WakeStep DEF Inv
<1>2. ASSUME Inv, UNCHANGED vars PROVE Inv'
  BY <1>2 DEF Inv, TypeOK, MutexOK, RolesOK, RingConsistent, OnePlace, NoLostWakeup, Waiting, Testing,
              vars, ring
<1> QED BY <1>1, <1>2

\* The invariant holds in every reachable state.
THEOREM Invariance == Spec => []Inv
BY InitInv, StepInv, PTL DEF Spec

\* The queue is type correct: indices stay in the ring and the count within the
\* capacity, for any capacity and any threads.
THEOREM TypeCorrect == Spec => []TypeOK
<1>1. Inv => TypeOK
  BY DEF Inv
<1> QED BY <1>1, Invariance, PTL

\* The slots between the two indices hold sessions and the others NULL: what
\* session_queue_free frees is what nobody fetched.
THEOREM RingIsConsistent == Spec => []RingConsistent
<1>1. Inv => RingConsistent
  BY DEF Inv
<1> QED BY <1>1, Invariance, PTL

\* No session is queued twice or fetched by two workers.
THEOREM SessionsAreInOnePlace == Spec => []OnePlace
<1>1. Inv => OnePlace
  BY DEF Inv
<1> QED BY <1>1, Invariance, PTL

\* pthread_cond_signal after each push and each fetch is enough: no wakeup is
\* lost, for any numbers of producers and workers.
THEOREM WakeupsAreKept == Spec => []NoLostWakeup
<1>1. Inv => NoLostWakeup
  BY DEF Inv
<1> QED BY <1>1, Invariance, PTL

\* The sessions of the ring in order, one by one.
LEMMA ContentsType ==
  ASSUME Inv
  PROVE  /\ Contents \in Seq(Sessions) /\ Len(Contents) = count
         /\ \A i \in 1 .. count : Contents[i] = slots[(fetchIdx + (i - 1)) % Capacity]
<1>0. /\ count \in 0 .. Capacity /\ fetchIdx \in 0 .. Capacity - 1 /\ Capacity \in Nat \ {0}
      /\ slots \in [0 .. Capacity - 1 -> Sessions \cup {Null}]
  BY ConstantsType DEF Inv, TypeOK
<1>1. \A i \in 1 .. count : fetchIdx + i - 1 = fetchIdx + (i - 1) /\ i - 1 \in 0 .. Capacity - 1
  BY <1>0
<1>2. ASSUME NEW i \in 1 .. count PROVE slots[(fetchIdx + (i - 1)) % Capacity] \in Sessions
  <2>1. i - 1 \in 0 .. Capacity - 1 /\ i - 1 \in 0 .. Capacity /\ ~ (i - 1 >= count)
    BY <1>0
  <2>2. (fetchIdx + (i - 1)) % Capacity \in 0 .. Capacity - 1
    BY <1>0, <2>1, RingSum
  <2>3. slots[(fetchIdx + (i - 1)) % Capacity] # Null
    BY <2>1 DEF Inv, RingConsistent
  <2> QED BY <1>0, <2>2, <2>3
<1>3. Contents = [i \in 1 .. count |-> slots[(fetchIdx + (i - 1)) % Capacity]]
  BY <1>1 DEF Contents
<1>4. Contents \in [1 .. count -> Sessions]
  BY <1>2, <1>3
<1>5. Contents \in Seq(Sessions) /\ Len(Contents) = count
  <2>1. count \in Nat
    BY <1>0
  <2> QED BY <1>4, <2>1
<1> QED BY <1>3, <1>5

\* The contents of the ring after a step.
LEMMA ContentsTypeNext ==
  Inv' => (/\ Contents \in Seq(Sessions) /\ Len(Contents) = count
           /\ \A i \in 1 .. count : Contents[i] = slots[(fetchIdx + (i - 1)) % Capacity])'
<1>1. Inv => /\ Contents \in Seq(Sessions) /\ Len(Contents) = count
             /\ \A i \in 1 .. count : Contents[i] = slots[(fetchIdx + (i - 1)) % Capacity]
  BY ContentsType
<1> QED BY <1>1, PTL

\* The ring under its mutex implements a bounded first in, first out queue.
THEOREM Refinement == Spec => KeepsOrder
<1>1. Init => Fifo!Init
  <2> SUFFICES ASSUME Init PROVE Contents = <<>>
    BY DEF Init, Fifo!Init
  <2> QED BY DEF Init, Contents
<1>2. Inv /\ Inv' /\ [Next]_vars => [Fifo!Next]_(Fifo!vars)
  <2> SUFFICES ASSUME Inv, Inv', [Next]_vars PROVE [Fifo!Next]_(Fifo!vars)
    OBVIOUS
  <2>0. /\ count \in 0 .. Capacity /\ fetchIdx \in 0 .. Capacity - 1 /\ Capacity \in Nat \ {0}
        /\ slots \in [0 .. Capacity - 1 -> Sessions \cup {Null}]
        /\ Contents \in Seq(Sessions) /\ Len(Contents) = count
        /\ \A i \in 1 .. count : Contents[i] = slots[(fetchIdx + (i - 1)) % Capacity]
    BY ConstantsType, ContentsType DEF Inv, TypeOK
  <2>00. /\ Contents' \in Seq(Sessions) /\ Len(Contents') = count'
         /\ \A i \in 1 .. count' : Contents'[i] = slots'[(fetchIdx' + (i - 1)) % Capacity]
    BY ContentsTypeNext
  <2>1. ASSUME NEW p \in Producers, PushStore(p) PROVE Fifo!Push(hand[p]) /\ hand[p] \in Sessions
    <3>0. /\ running /\ count \in 0 .. Capacity - 1 /\ count' = count + 1 /\ hand[p] \in Sessions
          /\ writeIdx = (fetchIdx + count) % Capacity /\ fetchIdx' = fetchIdx
          /\ writeIdx \in 0 .. Capacity - 1
          /\ slots' = [slots EXCEPT ![writeIdx] = hand[p]] /\ UNCHANGED <<running, got>>
      BY <2>1, StoreFacts DEF Inv, RingConsistent
    <3>1. ASSUME NEW i \in 1 .. count' PROVE Contents'[i] = Append(Contents, hand[p])[i]
      <4>1. CASE i = count + 1
        <5>1. Contents'[i] = slots'[(fetchIdx + count) % Capacity]
          BY <2>0, <2>00, <3>0, <4>1
        <5> QED BY <2>0, <3>0, <4>1, <5>1
      <4>2. CASE i \in 1 .. count
        <5>1. i - 1 \in 0 .. Capacity - 1 /\ i - 1 \in 0 .. Capacity /\ ~ (i - 1 >= count)
          BY <2>0, <4>2
        <5>2. (fetchIdx + (i - 1)) % Capacity \in 0 .. Capacity - 1
          BY <2>0, <5>1, RingSum
        <5>3. slots[(fetchIdx + (i - 1)) % Capacity] # Null /\ slots[writeIdx] = Null
          BY <2>1, <5>1, StoreFacts DEF Inv, RingConsistent
        <5>4. slots'[(fetchIdx + (i - 1)) % Capacity] = slots[(fetchIdx + (i - 1)) % Capacity]
          BY <2>0, <3>0, <5>2, <5>3
        <5>5. Contents'[i] = Contents[i]
          BY <2>0, <2>00, <3>0, <4>2, <5>4
        <5> QED BY <2>0, <4>2, <5>5
      <4>3. i = count + 1 \/ i \in 1 .. count
        BY <2>0, <3>0
      <4> QED BY <4>1, <4>2, <4>3
    <3>2. Contents' = Append(Contents, hand[p])
      BY <2>0, <2>00, <3>0, <3>1
    <3>3. Len(Contents) < Capacity
      BY <2>0, <3>0
    <3> QED BY <3>0, <3>2, <3>3 DEF Fifo!Push
  <2>2. ASSUME NEW c \in Consumers, FetchTake(c) PROVE Fifo!Fetch
    <3>0. /\ running /\ count \in 1 .. Capacity /\ count' = count - 1
          /\ fetchIdx' = (fetchIdx + 1) % Capacity /\ running' = running
          /\ slots' = [slots EXCEPT ![fetchIdx] = Null] /\ got' = Append(got, slots[fetchIdx])
      BY <2>2, TakeFacts
    <3>1. Head(Contents) = slots[fetchIdx] /\ Contents # <<>>
      <4>1. 1 \in 1 .. count /\ 0 \in 0 .. Capacity
        BY <2>0, <3>0
      <4>2. (fetchIdx + (1 - 1)) % Capacity = fetchIdx
        <5>1. (fetchIdx + 0) % Capacity =
                 IF fetchIdx + 0 < Capacity THEN fetchIdx + 0 ELSE fetchIdx + 0 - Capacity
          BY <2>0, <4>1, RingSum
        <5>2. fetchIdx + (1 - 1) = fetchIdx + 0 /\ fetchIdx + 0 = fetchIdx /\ fetchIdx < Capacity
          BY <2>0
        <5> QED BY <5>1, <5>2
      <4>3. Contents[1] = slots[fetchIdx]
        BY <2>0, <4>1, <4>2
      <4> QED BY <2>0, <3>0, <4>3
    <3>2. ASSUME NEW i \in 1 .. count' PROVE Contents'[i] = Tail(Contents)[i]
      <4>1. /\ i - 1 \in 0 .. Capacity - 1 /\ i \in 0 .. Capacity - 1 /\ i \in 0 .. Capacity
            /\ i + 1 \in 1 .. count /\ (i + 1) - 1 = i /\ (i - 1) + 1 = i /\ ~ (i >= count) /\ 0 \in 0 .. Capacity
        BY <2>0, <3>0
      <4>2. (fetchIdx' + (i - 1)) % Capacity = (fetchIdx + i) % Capacity
        BY <2>0, <3>0, <4>1, RingShift
      <4>3. (fetchIdx + i) % Capacity \in 0 .. Capacity - 1
        BY <2>0, <4>1, RingSum
      <4>4. (fetchIdx + i) % Capacity # fetchIdx
        <5>1. (fetchIdx + i) % Capacity =
                 IF fetchIdx + i < Capacity THEN fetchIdx + i ELSE fetchIdx + i - Capacity
          BY <2>0, <4>1, RingSum
        <5>2. /\ i \in Nat /\ i > 0 /\ i < Capacity
              /\ fetchIdx \in Nat /\ Capacity \in Nat
          BY <2>0, <4>1
        <5> QED BY <5>1, <5>2
      <4>5. slots'[(fetchIdx + i) % Capacity] = slots[(fetchIdx + i) % Capacity]
        BY <2>0, <3>0, <4>3, <4>4
      <4>6. Contents'[i] = slots[(fetchIdx + i) % Capacity]
        BY <2>00, <4>2, <4>5
      <4>7. Contents[i + 1] = slots[(fetchIdx + i) % Capacity]
        BY <2>0, <4>1
      <4>8. Tail(Contents)[i] = Contents[i + 1]
        BY <2>0, <3>0, <4>1
      <4> QED BY <4>6, <4>7, <4>8
    <3>3. Contents' = Tail(Contents)
      <4>1. Tail(Contents) \in Seq(Sessions) /\ Len(Tail(Contents)) = count'
        BY <2>0, <3>0, <3>1
      <4> QED BY <2>00, <3>2, <4>1
    <3> QED BY <3>0, <3>1, <3>3 DEF Fifo!Fetch
  <2>3. ASSUME UNCHANGED <<slots, count, fetchIdx, got>>, running' = running \/ Close
        PROVE  [Fifo!Next]_(Fifo!vars)
    <3>1. Contents' = Contents
      BY <2>3 DEF Contents
    <3>2. CASE running' = running
      BY <2>3, <3>1, <3>2 DEF Fifo!vars
    <3>3. CASE Close /\ running
      BY <2>3, <3>1, <3>3 DEF Close, Fifo!Next, Fifo!Close
    <3>4. CASE Close /\ ~ running
      BY <2>3, <3>1, <3>4 DEF Close, Fifo!vars, Inv, TypeOK
    <3> QED BY <2>3, <3>2, <3>3, <3>4
  <2>4. CASE UNCHANGED vars
    BY <2>3, <2>4 DEF vars, ring
  <2> QED BY <2>1, <2>2, <2>3, <2>4, RingFrame DEF Fifo!Next
<1> QED BY <1>1, <1>2, Invariance, PTL DEF Spec, KeepsOrder, Fifo!Spec
==============================================================================

----------------------------- MODULE SessionQueue -----------------------------
(***************************************************************************)
(* The producer-consumer queue of the EMS server (session.c): a ring of    *)
(* sessions under one mutex, with a condition variable for the producers   *)
(* and one for the consumers, and the loop of the workers that fetch from  *)
(* it (server_state.c).                                                    *)
(*                                                                         *)
(* What runs between pthread_mutex_lock and the unlock, or the wait, is    *)
(* one action: everything it reads and writes is protected by the mutex.   *)
(* The server has one producer, its host thread, and MAX_SESSION_COUNT     *)
(* consumers; the interface allows several of each, and so does the model. *)
(***************************************************************************)
EXTENDS Naturals, Sequences, FiniteSets

CONSTANTS
  Producers, Consumers,   \* the threads that push, and the workers
  Closer,                 \* the thread that closes and frees the queue
  Sessions,               \* the sessions that may be created
  Capacity,               \* SESSION_QUEUE_SIZE
  Joins,                  \* whether the workers are joined before the free
  MaxWakes,               \* bound on the wakeups without a signal
  Null

ASSUME RolesAssumption ==
  /\ Closer \notin Producers \cup Consumers
  /\ Producers \cap Consumers = {}
  /\ IsFiniteSet(Producers) /\ IsFiniteSet(Consumers)
ASSUME NullAssumption == Null \notin Producers \cup Consumers \cup {Closer} \cup Sessions
ASSUME SizeAssumption == Capacity \in Nat \ {0} /\ MaxWakes \in Nat /\ Joins \in BOOLEAN

Threads == Producers \cup Consumers \cup {Closer}

VARIABLES
  slots,      \* sessions[], indexed from 0
  running, count, fetchIdx, writeIdx,
  mutex,      \* the owner of queue_mut, or Null
  pc,
  hand,       \* the session a thread is about to push, or has fetched
  fresh,      \* sessions that have not been created yet
  got,        \* history: the sessions fetched so far, in order
  wakes       \* wakeups without a signal so far

ring == <<slots, running, count, fetchIdx, writeIdx>>
vars == <<ring, mutex, pc, hand, fresh, got, wakes>>

Init ==
  /\ slots = [i \in 0 .. Capacity - 1 |-> Null]
  /\ running = TRUE
  /\ count = 0 /\ fetchIdx = 0 /\ writeIdx = 0
  /\ mutex = Null
  /\ pc = [t \in Threads |-> "idle"]
  /\ hand = [t \in Threads |-> Null]
  /\ fresh = Sessions
  /\ got = <<>>
  /\ wakes = 0

\* The threads of S that wait on the condition variable of S.
Waiting(S) == {t \in S : pc[t] = "wait"}

\* pthread_cond_signal of t, which has the mutex: one waiter of S, if there is
\* one, will ask for the mutex again.
SignalOne(t, S) ==
  \/ /\ Waiting(S) = {}
     /\ pc' = [pc EXCEPT ![t] = "unlock"]
  \/ \E u \in Waiting(S) : pc' = [pc EXCEPT ![t] = "unlock", ![u] = "lock"]

NextIdx(i) == (i + 1) % Capacity

------------------------------------------------------------------------------
(* Mutants of the actions, for the checks of the properties *)

PushOver(p) ==                     \* the test of the capacity is one off
  /\ p \in Producers /\ pc[p] = "body" /\ running /\ count <= Capacity
  /\ slots' = [slots EXCEPT ![writeIdx] = hand[p]]
  /\ writeIdx' = NextIdx(writeIdx)
  /\ count' = count + 1
  /\ hand' = [hand EXCEPT ![p] = Null]
  /\ SignalOne(p, Consumers)
  /\ UNCHANGED <<running, fetchIdx, mutex, fresh, got, wakes>>

FetchKeepsSlot(c) ==               \* the slot is not reset to NULL
  /\ c \in Consumers /\ pc[c] = "body" /\ running /\ count > 0
  /\ hand' = [hand EXCEPT ![c] = slots[fetchIdx]]
  /\ got' = Append(got, slots[fetchIdx])
  /\ fetchIdx' = NextIdx(fetchIdx)
  /\ count' = count - 1
  /\ SignalOne(c, Producers)
  /\ UNCHANGED <<slots, running, writeIdx, mutex, fresh, wakes>>

FetchWithoutSignal(c) ==           \* no producer is told of the free slot
  /\ c \in Consumers /\ pc[c] = "body" /\ running /\ count > 0
  /\ hand' = [hand EXCEPT ![c] = slots[fetchIdx]]
  /\ got' = Append(got, slots[fetchIdx])
  /\ slots' = [slots EXCEPT ![fetchIdx] = Null]
  /\ fetchIdx' = NextIdx(fetchIdx)
  /\ count' = count - 1
  /\ pc' = [pc EXCEPT ![c] = "unlock"]
  /\ UNCHANGED <<running, writeIdx, mutex, fresh, wakes>>

FetchAfterClose(c) ==              \* a closed queue is emptied first
  /\ c \in Consumers /\ pc[c] = "body" /\ count > 0
  /\ hand' = [hand EXCEPT ![c] = slots[fetchIdx]]
  /\ got' = Append(got, slots[fetchIdx])
  /\ slots' = [slots EXCEPT ![fetchIdx] = Null]
  /\ fetchIdx' = NextIdx(fetchIdx)
  /\ count' = count - 1
  /\ SignalOne(c, Producers)
  /\ UNCHANGED <<running, writeIdx, mutex, fresh, wakes>>

CloseSignals ==                    \* one consumer is woken instead of all
  /\ pc[Closer] = "body"
  /\ running' = FALSE
  /\ SignalOne(Closer, Consumers)
  /\ UNCHANGED <<slots, count, fetchIdx, writeIdx, mutex, hand, fresh, got, wakes>>

UnlockByProducerForgets(t) ==      \* a producer goes on with the mutex
  /\ pc[t] = "unlock"
  /\ mutex' = IF t \in Producers THEN mutex ELSE Null
  /\ pc' = [pc EXCEPT ![t] =
       CASE t = Closer -> IF Joins THEN "join" ELSE "free"
         [] t \in Consumers /\ hand[t] = Null -> "exit"
         [] OTHER -> "idle"]
  /\ hand' = [hand EXCEPT ![t] = Null]
  /\ UNCHANGED <<ring, fresh, got, wakes>>

------------------------------------------------------------------------------

\* register_client creates a session and pushes it. The thread that closes the
\* queue is the one that registers clients: no push begins after the closing.
CallPush(p) ==
  /\ pc[p] = "idle" /\ pc[Closer] = "idle"
  /\ \E s \in fresh :
       /\ hand' = [hand EXCEPT ![p] = s]
       /\ fresh' = fresh \ {s}
  /\ pc' = [pc EXCEPT ![p] = "lock"]
  /\ UNCHANGED <<ring, mutex, got, wakes>>

\* A worker has finished with a session, or starts, and fetches the next one.
CallFetch(c) ==
  /\ pc[c] = "idle"
  /\ pc' = [pc EXCEPT ![c] = "lock"]
  /\ UNCHANGED <<ring, mutex, hand, fresh, got, wakes>>

CallClose ==
  /\ pc[Closer] = "idle"
  /\ pc' = [pc EXCEPT ![Closer] = "lock"]
  /\ UNCHANGED <<ring, mutex, hand, fresh, got, wakes>>

Lock(t) ==
  /\ pc[t] = "lock" /\ mutex = Null
  /\ mutex' = t
  /\ pc' = [pc EXCEPT ![t] = "body"]
  /\ UNCHANGED <<ring, hand, fresh, got, wakes>>

\* The queue is full, or empty: pthread_cond_wait.
Wait(t) ==
  /\ pc[t] = "body" /\ running
  /\ \/ t \in Producers /\ count = Capacity
     \/ t \in Consumers /\ count = 0
  /\ mutex' = Null
  /\ pc' = [pc EXCEPT ![t] = "wait"]
  /\ UNCHANGED <<ring, hand, fresh, got, wakes>>

\* pthread_cond_wait may return without a signal.
WakeUp(t) ==
  /\ pc[t] = "wait" /\ wakes < MaxWakes
  /\ wakes' = wakes + 1
  /\ pc' = [pc EXCEPT ![t] = "lock"]
  /\ UNCHANGED <<ring, mutex, hand, fresh, got>>

PushStore(p) ==
  /\ p \in Producers /\ pc[p] = "body" /\ running /\ count # Capacity
  /\ slots' = [slots EXCEPT ![writeIdx] = hand[p]]
  /\ writeIdx' = NextIdx(writeIdx)
  /\ count' = count + 1
  /\ hand' = [hand EXCEPT ![p] = Null]
  /\ SignalOne(p, Consumers)
  /\ UNCHANGED <<running, fetchIdx, mutex, fresh, got, wakes>>

FetchTake(c) ==
  /\ c \in Consumers /\ pc[c] = "body" /\ running /\ count # 0
  /\ hand' = [hand EXCEPT ![c] = slots[fetchIdx]]
  /\ got' = Append(got, slots[fetchIdx])
  /\ slots' = [slots EXCEPT ![fetchIdx] = Null]
  /\ fetchIdx' = NextIdx(fetchIdx)
  /\ count' = count - 1
  /\ SignalOne(c, Producers)
  /\ UNCHANGED <<running, writeIdx, mutex, fresh, wakes>>

\* A push that returns 1, whose session the host frees, and a fetch of NULL.
Closed(t) ==
  /\ t # Closer /\ pc[t] = "body" /\ ~ running
  /\ hand' = [hand EXCEPT ![t] = Null]
  /\ pc' = [pc EXCEPT ![t] = "unlock"]
  /\ UNCHANGED <<ring, mutex, fresh, got, wakes>>

\* session_queue_close: both condition variables are broadcast.
Close ==
  /\ pc[Closer] = "body"
  /\ running' = FALSE
  /\ pc' = [t \in Threads |-> IF t = Closer THEN "unlock"
                              ELSE IF pc[t] = "wait" THEN "lock" ELSE pc[t]]
  /\ UNCHANGED <<slots, count, fetchIdx, writeIdx, mutex, hand, fresh, got, wakes>>

\* A worker that fetched nothing leaves its loop; one that did serves the
\* session, until it calls again.
Unlock(t) ==
  /\ pc[t] = "unlock"
  /\ mutex' = Null
  /\ pc' = [pc EXCEPT ![t] =
       CASE t = Closer -> IF Joins THEN "join" ELSE "free"
         [] t \in Consumers /\ hand[t] = Null -> "exit"
         [] OTHER -> "idle"]
  /\ hand' = [hand EXCEPT ![t] = Null]
  /\ UNCHANGED <<ring, fresh, got, wakes>>

\* server_free joins the workers; its own thread has no push under way.
Join ==
  /\ pc[Closer] = "join"
  /\ \A c \in Consumers : pc[c] = "exit"
  /\ \A p \in Producers : pc[p] = "idle"
  /\ pc' = [pc EXCEPT ![Closer] = "free"]
  /\ UNCHANGED <<ring, mutex, hand, fresh, got, wakes>>

\* session_queue_free: the sessions that are left are freed with the queue.
Free ==
  /\ pc[Closer] = "free"
  /\ pc' = [pc EXCEPT ![Closer] = "freed"]
  /\ UNCHANGED <<ring, mutex, hand, fresh, got, wakes>>

Section(t) == Lock(t) \/ Wait(t) \/ PushStore(t) \/ FetchTake(t) \/ Closed(t) \/ Unlock(t)
Closing == Close \/ Join \/ Free

Next ==
  \/ \E p \in Producers : CallPush(p)
  \/ \E c \in Consumers : CallFetch(c)
  \/ \E t \in Threads : Section(t) \/ WakeUp(t)
  \/ CallClose \/ Closing

Spec == Init /\ [][Next]_vars

\* A thread that can run does, and a worker that has served a session fetches the
\* next. Nobody has to push or close, and wakeups without a signal may not come.
FairSpec ==
  /\ Spec
  /\ \A t \in Threads : WF_vars(Section(t))
  /\ \A c \in Consumers : WF_vars(CallFetch(c))
  /\ WF_vars(Closing)

------------------------------------------------------------------------------
(* Properties *)

Pcs == {"idle", "lock", "body", "wait", "unlock", "exit", "join", "free", "freed"}

TypeOK ==
  /\ slots \in [0 .. Capacity - 1 -> Sessions \cup {Null}]
  /\ running \in BOOLEAN
  /\ count \in 0 .. Capacity
  /\ fetchIdx \in 0 .. Capacity - 1 /\ writeIdx \in 0 .. Capacity - 1
  /\ mutex \in Threads \cup {Null}
  /\ pc \in [Threads -> Pcs]
  /\ hand \in [Threads -> Sessions \cup {Null}]
  /\ fresh \subseteq Sessions
  /\ got \in Seq(Sessions)
  /\ wakes \in 0 .. MaxWakes

Contents == [i \in 1 .. count |-> slots[(fetchIdx + i - 1) % Capacity]]

\* The ring is consistent: write_idx is count slots after fetch_idx, the slots
\* between them hold sessions and the others NULL, so that session_queue_free
\* (session.c:146) frees the sessions nobody fetched and no other.
RingConsistent ==
  /\ writeIdx = (fetchIdx + count) % Capacity
  /\ \A i \in 0 .. Capacity - 1 :
       slots[(fetchIdx + i) % Capacity] = Null <=> i >= count

\* A session is in one place only: not created yet, with its producer, in one
\* slot, or fetched by one worker, once.
OnePlace ==
  /\ \A i \in DOMAIN slots : slots[i] \notin fresh
  /\ \A j \in DOMAIN got : got[j] \notin fresh
  /\ \A i, j \in DOMAIN got : got[i] = got[j] => i = j
  /\ \A i, j \in DOMAIN slots : slots[i] = slots[j] => i = j \/ slots[i] = Null
  /\ \A i \in DOMAIN slots, j \in DOMAIN got : slots[i] # got[j]
  /\ \A p \in Producers : hand[p] # Null =>
       /\ hand[p] \notin fresh
       /\ \A i \in DOMAIN slots : slots[i] # hand[p]
       /\ \A j \in DOMAIN got : got[j] # hand[p]
       /\ \A q \in Producers \ {p} : hand[q] # hand[p]

\* The threads of S that are about to test the condition they call for.
Testing(S) == {t \in S : pc[t] \in {"lock", "body"}}

\* No wakeup is lost: when a worker waits, each session of the queue has another
\* worker on its way to it; when a producer waits, each free slot a producer;
\* and nobody waits on a closed queue.
NoLostWakeup ==
  /\ Waiting(Consumers) # {} => count <= Cardinality(Testing(Consumers))
  /\ Waiting(Producers) # {} => Capacity - count <= Cardinality(Testing(Producers))
  /\ ~ running => Waiting(Threads) = {}

\* A queued session is fetched, unless the queue is closed first.
QueuedIsFetched ==
  \A s \in Sessions :
    (\E i \in DOMAIN slots : slots[i] = s)
      ~> (~ running \/ \E j \in DOMAIN got : got[j] = s)

\* A push returns, full queue or not.
PushReturns == \A p \in Producers : (pc[p] # "idle") ~> (pc[p] = "idle")

\* Closing wakes every thread that waits, so that the workers can be joined and
\* the queue freed.
ClosingEnds == (pc[Closer] # "idle") ~> (pc[Closer] = "freed")

\* The queue is freed when no thread uses it any more: server_free does not even
\* "risk joining threads" if the queue failed to close (server_state.c:293).
FreedIsUnused ==
  pc[Closer] = "freed" =>
    (\A c \in Consumers : pc[c] = "exit") /\ \A p \in Producers : pc[p] = "idle"

------------------------------------------------------------------------------

Fifo == INSTANCE SessionFifo WITH queue <- Contents, fetched <- got, open <- running

\* The ring under its mutex is a bounded first in, first out queue.
KeepsOrder == Fifo!Spec
==============================================================================

----------------------------- MODULE SessionFifo -----------------------------
(***************************************************************************)
(* What the queue of sessions promises (session.h of the EMS server): a    *)
(* first in, first out queue of bounded size, from which nothing is taken  *)
(* and to which nothing is added once it is closed.                        *)
(***************************************************************************)
EXTENDS Naturals, Sequences

CONSTANTS Sessions, Capacity

VARIABLES
  queue,      \* the sessions that wait for a worker
  fetched,    \* the sessions that workers have taken, in order
  open

vars == <<queue, fetched, open>>

Init == queue = <<>> /\ fetched = <<>> /\ open = TRUE

Push(s) ==
  /\ open /\ Len(queue) < Capacity
  /\ queue' = Append(queue, s)
  /\ UNCHANGED <<fetched, open>>

Fetch ==
  /\ open /\ queue # <<>>
  /\ fetched' = Append(fetched, Head(queue))
  /\ queue' = Tail(queue)
  /\ UNCHANGED open

Close == open /\ open' = FALSE /\ UNCHANGED <<queue, fetched>>

Next == Fetch \/ Close \/ \E s \in Sessions : Push(s)

Spec == Init /\ [][Next]_vars
==============================================================================

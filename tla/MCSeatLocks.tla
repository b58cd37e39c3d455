----------------------------- MODULE MCSeatLocks -----------------------------
(* Small instances of SeatLocks. *)
EXTENDS SeatLocks

CONSTANTS t1, t2, t3

ThreeThreads == {t1, t2, t3}

\* A row of three seats: requests that overlap in one seat, in a ring, and one
\* whose second seat is in a row that does not exist.
RingRequests == {{<<1, 1>>, <<1, 2>>}, {<<1, 2>>, <<1, 3>>}, {<<1, 1>>, <<1, 3>>},
                 {<<1, 3>>, <<2, 1>>}}
==============================================================================

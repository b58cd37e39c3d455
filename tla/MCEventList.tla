----------------------------- MODULE MCEventList -----------------------------
(* Small instances of EventList. *)
EXTENDS EventList

CONSTANTS t1, t2, t3, a, b

TwoThreads   == {t1, t2}
ThreeThreads == {t1, t2, t3}
TwoIds       == {a, b}
OneEach      == [t \in TwoThreads |-> 1]
TwoThenOne   == [t \in ThreeThreads |-> IF t = t1 THEN 2 ELSE 1]
==============================================================================

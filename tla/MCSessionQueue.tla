---------------------------- MODULE MCSessionQueue ----------------------------
(* Small instances of SessionQueue. *)
EXTENDS SessionQueue

CONSTANTS p1, p2, c1, c2, host, s1, s2, s3

TwoProducers  == {p1, p2}
TwoConsumers  == {c1, c2}
ThreeSessions == {s1, s2, s3}
NoSessions    == {}
==============================================================================

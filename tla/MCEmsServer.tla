----------------------------- MODULE MCEmsServer -----------------------------
(* Small instances of EmsServer: one event, two workers. *)
EXTENDS EmsServer, TLC

CONSTANTS alice, bob, w1, w2, e1

TwoClients == {alice, bob}
TwoWorkers == {w1, w2}
OneEvent   == {e1}

Of(op, S) == [op |-> op, event |-> IF op = "LIST" THEN Null ELSE e1, seats |-> S]

\* One client creates and reserves, the other reserves or looks.
Mixed == alice :> <<{Of("CREATE", {})}, {Of("RESERVE", {1, 2})}>>
      @@ bob :> <<{Of("RESERVE", {2}), Of("SHOW", {}), Of("LIST", {})}>>
One == alice :> <<{Of("CREATE", {})}>>

OneClient == {alice}
OneWorker == {w1}
OnlyBob  == {bob}
Nobody == {}
Alike  == Permutations(TwoWorkers)
==============================================================================

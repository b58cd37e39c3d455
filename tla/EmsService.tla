----------------------------- MODULE EmsService ------------------------------
(***************************************************************************)
(* What the EMS server promises its clients (client/api.h of 2nd           *)
(* year/OS/P2): each request takes effect at one moment between the call   *)
(* and its return, the answer is what the state was at that moment, and a  *)
(* client that goes away in the middle of a call has either made all of    *)
(* the request or nothing of it.  The pipes, the workers and the locks     *)
(* that make it so are those of EmsServer.                                 *)
(***************************************************************************)
EXTENDS Naturals, Sequences

CONSTANTS Clients, Events, Seats, Null

VARIABLES
  list,       \* the events, in the order of their creation
  seats,      \* seats[e][s] is the reservation that holds seat s of e, or 0
  count,      \* count[e] is the number of reservations of e
  phase,      \* "new", "in" or "gone", of each client
  asked,      \* the request of a client that is not executed yet, or Null
  answer,     \* the answer that a client has not received yet, or <<>>
  up          \* the server runs

vars == <<list, seats, count, phase, asked, answer, up>>

SeatRows == [1 .. Seats -> Nat]

Requests ==
  [op : {"CREATE", "SHOW"}, event : Events, seats : {{}}]
    \cup [op : {"RESERVE"}, event : Events, seats : SUBSET (1 .. Seats + 1)]
    \cup [op : {"LIST"}, event : {Null}, seats : {{}}]

Exists(e) == \E i \in DOMAIN list : list[i] = e

\* A seat is numbered from 1; a number above Seats is no seat of the event.
Free(e, S) ==
  /\ Exists(e)
  /\ \A s \in S : s <= Seats /\ seats[e][s] = 0

Succeeds(r) ==
  \/ r.op = "CREATE"  /\ ~Exists(r.event)
  \/ r.op = "RESERVE" /\ Free(r.event, r.seats)
  \/ r.op = "SHOW"    /\ Exists(r.event)
  \/ r.op = "LIST"

Value(r) ==
  CASE r.op = "SHOW" -> seats[r.event]
    [] r.op = "LIST" -> <<Len(list)>> \o list
    [] OTHER -> <<>>

Effect(r) ==
  /\ list' = IF r.op = "CREATE" THEN Append(list, r.event) ELSE list
  /\ count' = IF r.op = "RESERVE" THEN [count EXCEPT ![r.event] = @ + 1] ELSE count
  /\ seats' = IF r.op # "RESERVE" THEN seats
              ELSE [seats EXCEPT ![r.event] =
                      [s \in 1 .. Seats |-> IF s \in r.seats THEN count[r.event] + 1 ELSE @[s]]]

------------------------------------------------------------------------------

Init ==
  /\ list = <<>>
  /\ seats = [e \in Events |-> [s \in 1 .. Seats |-> 0]]
  /\ count = [e \in Events |-> 0]
  /\ phase = [c \in Clients |-> "new"]
  /\ asked = [c \in Clients |-> Null]
  /\ answer = [c \in Clients |-> <<>>]
  /\ up = TRUE

state == <<list, seats, count>>

Connect(c) ==
  /\ phase[c] = "new"
  /\ phase' = [phase EXCEPT ![c] = "in"]
  /\ UNCHANGED <<state, asked, answer, up>>

Ask(c) ==
  /\ up /\ phase[c] = "in" /\ asked[c] = Null /\ answer[c] = <<>>
  /\ asked'[c] \in Requests
  /\ asked' = [asked EXCEPT ![c] = asked'[c]]
  /\ UNCHANGED <<state, phase, answer, up>>

\* The request takes effect; nobody receives the answer of a client that is gone.
Execute(c) ==
  /\ asked[c] # Null
  /\ asked' = [asked EXCEPT ![c] = Null]
  /\ IF Succeeds(asked[c]) THEN Effect(asked[c]) ELSE UNCHANGED state
  /\ answer' = IF phase[c] = "gone" THEN answer
               ELSE [answer EXCEPT ![c] =
                       IF Succeeds(asked[c]) THEN <<0>> \o Value(asked[c]) ELSE <<1>>]
  /\ UNCHANGED <<phase, up>>

Receive(c) ==
  /\ answer[c] # <<>>
  /\ answer' = [answer EXCEPT ![c] = <<>>]
  /\ UNCHANGED <<state, phase, asked, up>>

Leave(c) ==
  /\ phase[c] # "gone"
  /\ phase' = [phase EXCEPT ![c] = "gone"]
  /\ answer' = [answer EXCEPT ![c] = <<>>]
  /\ UNCHANGED <<state, asked, up>>

\* The server dies: what it had not executed is lost, and so may answers be that
\* it had not sent in full.
Stop ==
  /\ up /\ up' = FALSE
  /\ asked' = [c \in Clients |-> Null]
  /\ \E lost \in SUBSET Clients :
       answer' = [c \in Clients |-> IF c \in lost THEN <<>> ELSE answer[c]]
  /\ UNCHANGED <<state, phase>>

Next ==
  \/ Stop
  \/ \E c \in Clients :
       Connect(c) \/ Execute(c) \/ Receive(c) \/ Leave(c) \/ Ask(c)

Spec == Init /\ [][Next]_vars
==============================================================================

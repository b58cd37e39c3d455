------------------------------ MODULE EventSet ------------------------------
(***************************************************************************)
(* What the list of events promises to the threads that use it: CREATE,    *)
(* the search for an event and LIST each take effect in one indivisible    *)
(* step between their call and their return.                               *)
(***************************************************************************)
EXTENDS Sequences

CONSTANTS
  Threads,     \* the threads that call the operations
  Commands,    \* the commands: [kind : {"create", "get"}, id] and [kind : {"list"}]
  MayFail      \* whether a command may give up for lack of memory

VARIABLES
  events,      \* the events, in order of creation, each once
  op           \* op[t]: the command t is in, with its result once it has one

vars == <<events, op>>

Idle      == [stage |-> "idle"]
Called(c) == [stage |-> "called", cmd |-> c]
Done(r)   == [stage |-> "done", res |-> r]

Exists(id) == \E i \in DOMAIN events : events[i] = id

Init == events = <<>> /\ op = [t \in Threads |-> Idle]

Call(t) ==
  /\ op[t] = Idle
  /\ \E c \in Commands : op' = [op EXCEPT ![t] = Called(c)]
  /\ UNCHANGED events

Answer(t, r) == op' = [op EXCEPT ![t] = Done([kind |-> r])]

Create(t) ==
  /\ op[t].stage = "called" /\ op[t].cmd.kind = "create"
  /\ IF Exists(op[t].cmd.id)
       THEN Answer(t, "exists") /\ UNCHANGED events
       ELSE Answer(t, "created") /\ events' = Append(events, op[t].cmd.id)

Get(t) ==
  /\ op[t].stage = "called" /\ op[t].cmd.kind = "get"
  /\ Answer(t, IF Exists(op[t].cmd.id) THEN "found" ELSE "missing")
  /\ UNCHANGED events

List(t) ==
  /\ op[t].stage = "called" /\ op[t].cmd.kind = "list"
  /\ op' = [op EXCEPT ![t] = Done([kind |-> "listed", ids |-> events])]
  /\ UNCHANGED events

Fail(t) ==
  /\ MayFail
  /\ op[t].stage = "called"
  /\ Answer(t, "failed")
  /\ UNCHANGED events

Return(t) ==
  /\ op[t].stage = "done"
  /\ op' = [op EXCEPT ![t] = Idle]
  /\ UNCHANGED events

Next == \E t \in Threads :
          Call(t) \/ Create(t) \/ Get(t) \/ List(t) \/ Fail(t) \/ Return(t)

Spec == Init /\ [][Next]_vars
==============================================================================

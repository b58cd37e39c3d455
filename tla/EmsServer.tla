------------------------------ MODULE EmsServer ------------------------------
(***************************************************************************)
(* The second EMS project (2nd year/OS/P2): clients that send requests to  *)
(* a server over named pipes.  The host thread (server_state.c, host_loop) *)
(* reads registrations from one pipe and queues them as sessions; a worker *)
(* (worker_loop) serves one session at a time, over the two pipes that the *)
(* client has made.  SIGUSR1 makes the host print every event.  The queue  *)
(* is the bounded one of SessionFifo, which SessionQueue implements.       *)
(*                                                                         *)
(* A message is written, and read, in pieces: the op code, the session id, *)
(* the arguments; an answer, item by item.  A client may die between any   *)
(* two of its steps.                                                       *)
(***************************************************************************)
EXTENDS Naturals, Sequences, FiniteSets

CONSTANTS
  Clients,
  Workers,       \* the workers, each with its id
  Host,          \* the host thread, as a holder of locks
  Events,
  Seats,         \* seats of an event
  Null,
  QueueSize,     \* SESSION_QUEUE_SIZE
  PipeSize,      \* items that a response pipe holds
  Asks,          \* Asks[c][i] is the set of requests that client c may make as its
                 \* request i, in its job file of at most Len(Asks[c]) requests
  MaxSignals,    \* most SIGUSR1
  Mortal         \* the clients that may die

ASSUME SizesAssumption ==
  /\ Seats \in Nat /\ QueueSize \in Nat \ {0} /\ PipeSize \in Nat \ {0}
  /\ MaxSignals \in Nat

ASSUME NamesAssumption ==
  /\ Host \notin Workers
  /\ Null \notin Workers \cup {Host} \cup Clients \cup Events

VARIABLES
  list, seats, count,     \* the events, as in EmsService
  mutex,                  \* mutex[e] is the thread that holds it, or Null
  readers,                \* the threads that hold the lock of the list for reading
  reg,                    \* the register pipe
  queue,                  \* the queue of sessions
  host,                   \* where the host is, and where it goes after printing
  flag, handler,          \* sigusr1_flag; the thread inside the handler, or Null
  signals, up,            \* SIGUSR1 sent; whether the server runs
  worker,                 \* of each worker: where it is, its session, what it has
                          \* read of a request, its event, its place in the answer
  client,                 \* of each client: where it is, its session id, its request,
                          \* what it has received of the answer
  asks,                   \* requests made
  req, res                \* the request and the response pipe of each client

emsVars    == <<list, seats, count>>
lockVars   == <<mutex, readers>>
hostVars   == <<reg, queue, host>>
signalVars == <<flag, handler, signals, up>>
pipeVars   == <<req, res>>
vars == <<emsVars, lockVars, hostVars, signalVars, worker, client, asks, pipeVars>>

Threads == Workers \cup {Host}

\* The answer that a and the rest of a pipe make is whole: an error, or what the
\* functions of client/api.c read for the operation.
Whole(a, op) ==
  /\ a # <<>>
  /\ \/ a[1] = 1
     \/ Len(a) = CASE op = "SHOW" -> 1 + Seats
                   [] op = "LIST" -> IF Len(a) = 1 THEN 2 ELSE 2 + a[2]
                   [] OTHER -> 1

\* The pieces of a request: all of them are there.
Complete(p) == Len(p) = 3 \/ (Len(p) = 2 /\ p[1] = "LIST")
Request(p) ==
  IF Len(p) = 3 THEN [op |-> p[1], event |-> p[3].event, seats |-> p[3].seats]
  ELSE [op |-> p[1], event |-> Null, seats |-> {}]

Serves(w, c) == worker[w].session = c

\* The ends of the server of both pipes of c are open.
Connected(c) ==
  \E w \in Workers : Serves(w, c) /\ worker[w].pc \notin {"openReq", "openRes"}

Alive(c) == client[c].pc \notin {"dead", "closed"}

------------------------------------------------------------------------------
(* The abstract service *)

RestOf(w) ==
  LET n == worker[w].next  e == worker[w].event IN
  CASE worker[w].pc = "reply" -> worker[w].out
    [] worker[w].pc = "show"  -> SubSeq(<<0>> \o seats[e], n, Seats + 1)
    [] worker[w].pc = "list"  -> SubSeq(<<0, Len(list)>> \o list, n, Len(list) + 2)
    [] OTHER -> <<>>

IsServed(c)  == \E w \in Workers : Serves(w, c)
WorkerOf(c)  == CHOOSE w \in Workers : Serves(w, c)
PiecesOf(c)  == (IF IsServed(c) THEN worker[WorkerOf(c)].read ELSE <<>>) \o req[c]
AnswerOf(c)  ==
  client[c].got \o res[c] \o (IF IsServed(c) THEN RestOf(WorkerOf(c)) ELSE <<>>)

PhaseOf(c) ==
  CASE client[c].pc \in {"dead", "closed"} -> "gone"
    [] client[c].pc \in {"start", "openReq", "openRes", "ack"} -> "new"
    [] OTHER -> "in"
AskedOf(c) == IF Complete(PiecesOf(c)) THEN Request(PiecesOf(c)) ELSE Null
TellsOf(c) ==
  IF client[c].pc = "answer" /\ Whole(AnswerOf(c), client[c].ask.op)
  THEN AnswerOf(c) ELSE <<>>

phases  == [c \in Clients |-> PhaseOf(c)]
askeds  == [c \in Clients |-> AskedOf(c)]
answers == [c \in Clients |-> TellsOf(c)]

Service == INSTANCE EmsService WITH phase <- phases, asked <- askeds, answer <- answers

\* What the clients of this repository can ask
ASSUME AsksAssumption ==
  /\ \A c \in Clients : Asks[c] \in Seq(SUBSET Service!Requests)
  /\ Null \notin Service!Requests

------------------------------------------------------------------------------

Idle == [pc |-> "fetch", session |-> Null, read |-> <<>>, event |-> Null,
         out |-> <<>>, next |-> 1]

NewClient == [pc |-> "start", id |-> Null, ask |-> Null, got |-> <<>>]

Init ==
  /\ list = <<>>
  /\ seats = [e \in Events |-> [s \in 1 .. Seats |-> 0]]
  /\ count = [e \in Events |-> 0]
  /\ mutex = [e \in Events |-> Null] /\ readers = {}
  /\ reg = <<>> /\ queue = <<>>
  /\ host = [pc |-> "check", then |-> "read", next |-> 1, who |-> Null]
  /\ flag = FALSE /\ handler = Null /\ signals = 0 /\ up = TRUE
  /\ worker = [w \in Workers |-> [Idle EXCEPT !.pc = "start"]]
  /\ client = [c \in Clients |-> NewClient]
  /\ asks = [c \in Clients |-> 0]
  /\ req = [c \in Clients |-> <<>>] /\ res = [c \in Clients |-> <<>>]

TypeOK ==
  /\ \A i \in DOMAIN list : list[i] \in Events
  /\ seats \in [Events -> [1 .. Seats -> Nat]] /\ count \in [Events -> Nat]
  /\ mutex \in [Events -> Threads \cup {Null}] /\ readers \subseteq Threads
  /\ \A s \in {reg, queue} : \A i \in DOMAIN s : s[i] \in Clients
  /\ Len(queue) <= QueueSize
  /\ host.pc \in {"check", "enter", "read", "eintr", "push", "display", "event"}
  /\ host.who \in Clients \cup {Null}
  /\ flag \in BOOLEAN /\ up \in BOOLEAN
  /\ handler \in Threads \cup {Null} /\ signals \in 0 .. MaxSignals
  /\ \A w \in Workers :
       /\ worker[w].pc \in {"start", "fetch", "openReq", "openRes", "ack", "op", "id",
                            "args", "exec", "reply", "show", "list", "gone"}
       /\ worker[w].session \in Clients \cup {Null}
       /\ worker[w].session = Null <=> worker[w].pc \in {"start", "fetch", "gone"}
  /\ \A c \in Clients :
       /\ client[c].pc \in {"start", "openReq", "openRes", "ack", "idle", "id", "args",
                            "answer", "quit", "closed", "dead"}
       /\ client[c].id \in Workers \cup {Null}
       /\ asks[c] \in 0 .. Len(Asks[c])
       /\ Len(req[c]) <= 3 /\ Len(res[c]) <= PipeSize

------------------------------------------------------------------------------
(* Mutants of the actions, for the checks of the properties *)

HostPushOver ==              \* the capacity of the queue is off by one
  /\ up /\ handler # Host /\ host.pc = "push" /\ Len(queue) <= QueueSize
  /\ queue' = Append(queue, host.who)
  /\ host' = [host EXCEPT !.pc = "check", !.who = Null]
  /\ UNCHANGED <<emsVars, lockVars, reg, signalVars, worker, client, asks, pipeVars>>

ReserveUnlocked(w) ==        \* the mutex of the event is not taken
  /\ worker[w].pc = "exec" /\ worker[w].read[1] = "RESERVE"
  /\ LET e == worker[w].read[3].event  S == worker[w].read[3].seats  n == count[e] + 1
         no == \E s \in S : s > Seats \/ seats[e][s] # 0 IN
       /\ \E i \in DOMAIN list : list[i] = e
       /\ worker' = [worker EXCEPT ![w] = [@ EXCEPT !.pc = "reply", !.read = <<>>,
                                             !.out = IF no THEN <<1>> ELSE <<0>>]]
       /\ count' = IF no THEN count ELSE [count EXCEPT ![e] = n]
       /\ seats' = IF no THEN seats
                   ELSE [seats EXCEPT ![e] = [s \in 1 .. Seats |-> IF s \in S THEN n ELSE @[s]]]
  /\ UNCHANGED <<list, lockVars, hostVars, signalVars, client, asks, pipeVars>>

ShowEndForgets(w) ==         \* the mutex is kept when a write fails
  LET c == worker[w].session  done == worker[w].next = Seats + 2 IN
  /\ worker[w].pc = "show" /\ (done \/ ~Alive(c))
  /\ IF done
     THEN /\ mutex' = [mutex EXCEPT ![worker[w].event] = Null]
          /\ worker' = [worker EXCEPT ![w] =
                          [@ EXCEPT !.pc = "op", !.event = Null, !.next = 1]]
          /\ UNCHANGED req
     ELSE /\ worker' = [worker EXCEPT ![w] = Idle]
          /\ req' = [req EXCEPT ![c] = <<>>]
          /\ UNCHANGED mutex
  /\ UNCHANGED <<emsVars, readers, hostVars, signalVars, client, asks, res>>

------------------------------------------------------------------------------
(* Clients: client/api.c *)

SetClient(c, new) == client' = [client EXCEPT ![c] = new]

\* ems_setup: the two pipes are made and the registration is written, whole.
Register(c) ==
  /\ up /\ client[c].pc = "start"
  /\ reg' = Append(reg, c)
  /\ SetClient(c, [client[c] EXCEPT !.pc = "openReq"])
  /\ UNCHANGED <<emsVars, lockVars, queue, host, signalVars, worker, asks, pipeVars>>

\* An open of a pipe returns to both sides, when both have called it.
Open(w, c, side, next) ==
  /\ Serves(w, c) /\ worker[w].pc = side /\ client[c].pc = side
  /\ worker' = [worker EXCEPT ![w].pc = next]
  /\ SetClient(c, [client[c] EXCEPT !.pc = next])
  /\ UNCHANGED <<emsVars, lockVars, hostVars, signalVars, asks, pipeVars>>

OpenRequest(w, c)  == Open(w, c, "openReq", "openRes")
OpenResponse(w, c) == Open(w, c, "openRes", "ack")

ReadSessionId(c) ==
  /\ client[c].pc = "ack" /\ res[c] # <<>>
  /\ SetClient(c, [client[c] EXCEPT !.pc = "idle", !.id = Head(res[c])])
  /\ res' = [res EXCEPT ![c] = Tail(@)]
  /\ UNCHANGED <<emsVars, lockVars, hostVars, signalVars, worker, asks, req>>

\* A piece is written to a pipe that the server has open.
WritePiece(c, piece, new) ==
  /\ Connected(c)
  /\ req' = [req EXCEPT ![c] = Append(@, piece)]
  /\ SetClient(c, new)
  /\ UNCHANGED <<emsVars, lockVars, hostVars, signalVars, worker, res>>

Ask(c) ==
  /\ client[c].pc = "idle" /\ asks[c] < Len(Asks[c])
  /\ asks' = [asks EXCEPT ![c] = @ + 1]
  /\ \E r \in Asks[c][asks[c] + 1] : WritePiece(c, r.op, [client[c] EXCEPT !.pc = "id", !.ask = r])

WriteId(c) ==
  /\ client[c].pc = "id"
  /\ WritePiece(c, client[c].id,
       [client[c] EXCEPT !.pc = IF client[c].ask.op = "LIST" THEN "answer" ELSE "args"])
  /\ UNCHANGED asks

WriteArguments(c) ==
  /\ client[c].pc = "args"
  /\ WritePiece(c, [event |-> client[c].ask.event, seats |-> client[c].ask.seats],
                [client[c] EXCEPT !.pc = "answer"])
  /\ UNCHANGED asks

\* An item of the answer; after the last one the call returns.
ReadAnswer(c) ==
  /\ client[c].pc = "answer" /\ res[c] # <<>>
  /\ LET got == Append(client[c].got, Head(res[c])) IN
       SetClient(c, IF Whole(got, client[c].ask.op)
                    THEN [client[c] EXCEPT !.pc = "idle", !.ask = Null, !.got = <<>>]
                    ELSE [client[c] EXCEPT !.got = got])
  /\ res' = [res EXCEPT ![c] = Tail(@)]
  /\ UNCHANGED <<emsVars, lockVars, hostVars, signalVars, worker, asks, req>>

\* The pipes of a process that ends are closed: what it had not read is gone, what
\* it had written can still be read.
Gone(c, how) ==
  /\ SetClient(c, [NewClient EXCEPT !.pc = how])
  /\ res' = [res EXCEPT ![c] = <<>>]
  /\ UNCHANGED <<emsVars, lockVars, hostVars, signalVars, worker, asks>>

\* ems_quit
Quit(c) ==
  /\ client[c].pc = "idle"
  /\ WritePiece(c, "QUIT", [client[c] EXCEPT !.pc = "quit"])
  /\ UNCHANGED asks

WriteQuitId(c) ==
  /\ client[c].pc = "quit" /\ Connected(c)
  /\ req' = [req EXCEPT ![c] = Append(@, client[c].id)]
  /\ Gone(c, "closed")

\* A write fails, or a read finds the end of the pipe: the server is gone.
Disconnected(c) ==
  /\ ~Connected(c)
  /\ \/ client[c].pc \in {"idle", "id", "args", "quit"}
     \/ (client[c].pc \in {"ack", "answer"} /\ res[c] = <<>>)
  /\ req' = req
  /\ Gone(c, "closed")

Die(c) ==
  /\ c \in Mortal
  /\ client[c].pc \notin {"start", "closed", "dead"}
  /\ req' = req
  /\ Gone(c, "dead")

ClientStep(c) ==
  \/ Register(c) \/ ReadSessionId(c)
  \/ Ask(c) \/ WriteId(c) \/ WriteArguments(c) \/ ReadAnswer(c)
  \/ Quit(c) \/ WriteQuitId(c) \/ Disconnected(c)

------------------------------------------------------------------------------
(* Workers: worker_loop and execute_requests *)

SetWorker(w, new) == worker' = [worker EXCEPT ![w] = new]
CanRun(w) == up /\ handler # w

\* The worker blocks SIGUSR1 only once it runs.
Mask(w) ==
  /\ CanRun(w) /\ worker[w].pc = "start"
  /\ SetWorker(w, Idle)
  /\ UNCHANGED <<emsVars, lockVars, hostVars, signalVars, client, asks, pipeVars>>

Fetch(w) ==
  /\ worker[w].pc = "fetch" /\ queue # <<>>
  /\ SetWorker(w, [Idle EXCEPT !.pc = "openReq", !.session = Head(queue)])
  /\ queue' = Tail(queue)
  /\ UNCHANGED <<emsVars, lockVars, reg, host, signalVars, client, asks, pipeVars>>

\* session_free closes the pipes: requests that nobody has read are gone.
EndSession(w) ==
  /\ SetWorker(w, Idle)
  /\ req' = [req EXCEPT ![worker[w].session] = <<>>]

\* An item is written to the response pipe of w, which has room.
Write(w, item) ==
  LET c == worker[w].session IN
    /\ Alive(c) /\ Len(res[c]) < PipeSize
    /\ res' = [res EXCEPT ![c] = Append(@, item)]

\* A write of w fails: nobody has the other end open.
Broken(w) == ~Alive(worker[w].session) /\ UNCHANGED res

Acknowledge(w) ==
  /\ worker[w].pc = "ack"
  /\ \/ Write(w, w) /\ SetWorker(w, [worker[w] EXCEPT !.pc = "op"]) /\ UNCHANGED req
     \/ Broken(w) /\ EndSession(w)
  /\ UNCHANGED <<emsVars, lockVars, hostVars, signalVars, client, asks>>

\* A piece of a request is read.
ReadPiece(w, pc, next) ==
  LET c == worker[w].session IN
    /\ worker[w].pc = pc /\ req[c] # <<>>
    /\ SetWorker(w, [worker[w] EXCEPT !.pc = next, !.read = Append(@, Head(req[c]))])
    /\ req' = [req EXCEPT ![c] = Tail(@)]

ReadOp(w) ==
  /\ ReadPiece(w, "op", "id")
  /\ UNCHANGED <<emsVars, lockVars, hostVars, signalVars, client, asks, res>>

\* The id of another session, or of QUIT, ends the session; the answer 1 to the
\* first is for a client that the server has just disconnected.
ReadId(w) ==
  LET c == worker[w].session  op == worker[w].read[1] IN
  /\ worker[w].pc = "id" /\ req[c] # <<>>
  /\ IF Head(req[c]) = w /\ op # "QUIT"
     THEN ReadPiece(w, "id", IF op = "LIST" THEN "exec" ELSE "args")
     ELSE EndSession(w)
  /\ UNCHANGED <<emsVars, lockVars, hostVars, signalVars, client, asks, res>>

ReadArguments(w) ==
  /\ ReadPiece(w, "args", "exec")
  /\ UNCHANGED <<emsVars, lockVars, hostVars, signalVars, client, asks, res>>

\* The client has closed its end before the request was whole: what was read of it
\* is dropped.
EndOfFile(w) ==
  LET c == worker[w].session IN
  /\ worker[w].pc \in {"op", "id", "args"} /\ req[c] = <<>> /\ ~Alive(c)
  /\ EndSession(w)
  /\ UNCHANGED <<emsVars, lockVars, hostVars, signalVars, client, asks, res>>

------------------------------------------------------------------------------
(* Requests: operations.c *)

Op(w)  == worker[w].read[1]
Arg(w) == worker[w].read[3]
Exists(e) == \E i \in DOMAIN list : list[i] = e
Reply(w, out) ==
  SetWorker(w, [worker[w] EXCEPT !.pc = "reply", !.read = <<>>, !.out = out])
Executing(w, op) == worker[w].pc = "exec" /\ Op(w) = op

\* ems_create, under the lock of the list for writing
Create(w) ==
  /\ Executing(w, "CREATE") /\ readers = {}
  /\ LET e == Arg(w).event IN
       IF Exists(e) THEN Reply(w, <<1>>) /\ UNCHANGED list
       ELSE Reply(w, <<0>>) /\ list' = Append(list, e)
  /\ UNCHANGED <<seats, count, lockVars, hostVars, signalVars, client, asks, pipeVars>>

\* ems_reserve and ems_show when get_event finds nothing
NotFound(w) ==
  /\ worker[w].pc = "exec" /\ Op(w) \in {"RESERVE", "SHOW"}
  /\ ~Exists(Arg(w).event)
  /\ Reply(w, <<1>>)
  /\ UNCHANGED <<emsVars, lockVars, hostVars, signalVars, client, asks, pipeVars>>

\* ems_reserve, under the mutex of the event
Reserve(w) ==
  /\ Executing(w, "RESERVE")
  /\ LET e == Arg(w).event  S == Arg(w).seats IN
       /\ Exists(e) /\ mutex[e] = Null
       /\ IF \E s \in S : s > Seats \/ seats[e][s] # 0
          THEN Reply(w, <<1>>) /\ UNCHANGED <<seats, count>>
          ELSE /\ Reply(w, <<0>>)
               /\ count' = [count EXCEPT ![e] = @ + 1]
               /\ seats' = [seats EXCEPT ![e] =
                              [s \in 1 .. Seats |-> IF s \in S THEN count'[e] ELSE @[s]]]
  /\ UNCHANGED <<list, lockVars, hostVars, signalVars, client, asks, pipeVars>>

\* ems_show holds the mutex of the event while it writes.
ShowLock(w) ==
  /\ Executing(w, "SHOW")
  /\ LET e == Arg(w).event IN
       /\ Exists(e) /\ mutex[e] = Null
       /\ mutex' = [mutex EXCEPT ![e] = w]
       /\ SetWorker(w, [worker[w] EXCEPT !.pc = "show", !.read = <<>>, !.event = e,
                                         !.next = 1])
  /\ UNCHANGED <<emsVars, readers, hostVars, signalVars, client, asks, pipeVars>>

ShowItem(w) ==
  LET n == worker[w].next IN
  /\ worker[w].pc = "show" /\ n <= Seats + 1
  /\ Write(w, IF n = 1 THEN 0 ELSE seats[worker[w].event][n - 1])
  /\ SetWorker(w, [worker[w] EXCEPT !.next = n + 1])
  /\ UNCHANGED <<emsVars, lockVars, hostVars, signalVars, client, asks, req>>

ShowEnd(w) ==
  /\ worker[w].pc = "show"
  /\ mutex' = [mutex EXCEPT ![worker[w].event] = Null]
  /\ \/ /\ worker[w].next = Seats + 2
        /\ SetWorker(w, [worker[w] EXCEPT !.pc = "op", !.event = Null, !.next = 1])
        /\ UNCHANGED pipeVars
     \/ worker[w].next < Seats + 2 /\ Broken(w) /\ EndSession(w)
  /\ UNCHANGED <<emsVars, readers, hostVars, signalVars, client, asks>>

\* ems_list_events holds the lock of the list for reading while it writes, unless
\* the list is empty.
ListLock(w) ==
  /\ Executing(w, "LIST")
  /\ IF list = <<>> THEN Reply(w, <<0, 0>>) /\ UNCHANGED readers
     ELSE /\ readers' = readers \cup {w}
          /\ SetWorker(w, [worker[w] EXCEPT !.pc = "list", !.read = <<>>, !.next = 1])
  /\ UNCHANGED <<emsVars, mutex, hostVars, signalVars, client, asks, pipeVars>>

ListItem(w) ==
  LET n == worker[w].next IN
  /\ worker[w].pc = "list" /\ n <= Len(list) + 2
  /\ Write(w, (<<0, Len(list)>> \o list)[n])
  /\ SetWorker(w, [worker[w] EXCEPT !.next = n + 1])
  /\ UNCHANGED <<emsVars, lockVars, hostVars, signalVars, client, asks, req>>

ListEnd(w) ==
  /\ worker[w].pc = "list"
  /\ readers' = readers \ {w}
  /\ \/ /\ worker[w].next = Len(list) + 3
        /\ SetWorker(w, [worker[w] EXCEPT !.pc = "op", !.next = 1])
        /\ UNCHANGED pipeVars
     \/ worker[w].next < Len(list) + 3 /\ Broken(w) /\ EndSession(w)
  /\ UNCHANGED <<emsVars, mutex, hostVars, signalVars, client, asks>>

\* The answer of a call that has released its locks
Answer(w) ==
  LET out == worker[w].out IN
  /\ worker[w].pc = "reply"
  /\ \/ /\ Write(w, Head(out))
        /\ SetWorker(w, [worker[w] EXCEPT !.out = Tail(out),
                                          !.pc = IF Len(out) = 1 THEN "op" ELSE "reply"])
        /\ UNCHANGED req
     \/ Broken(w) /\ EndSession(w)
  /\ UNCHANGED <<emsVars, lockVars, hostVars, signalVars, client, asks>>

WorkerStep(w) ==
  \/ Mask(w) \/ Fetch(w)
  \/ \E c \in Clients : OpenRequest(w, c) \/ OpenResponse(w, c)
  \/ Acknowledge(w) \/ ReadOp(w) \/ ReadId(w) \/ ReadArguments(w) \/ EndOfFile(w)
  \/ Create(w) \/ NotFound(w) \/ Reserve(w)
  \/ ShowLock(w) \/ ShowItem(w) \/ ShowEnd(w)
  \/ ListLock(w) \/ ListItem(w) \/ ListEnd(w) \/ Answer(w)

------------------------------------------------------------------------------
(* The host thread: host_loop and the handler of SIGUSR1 *)

HostAt(pc) == up /\ handler # Host /\ host.pc = pc

\* server_sigusr_check: at the top of the loop, and after an interrupted read.
HostCheck ==
  /\ \E pc \in {"check", "eintr"} :
       /\ HostAt(pc)
       /\ LET then == IF pc = "check" THEN "enter" ELSE "check" IN
            host' = [host EXCEPT !.pc = IF flag THEN "display" ELSE then, !.then = then]
  /\ flag' = FALSE
  /\ UNCHANGED <<emsVars, lockVars, reg, queue, handler, signals, up, worker, client,
                 asks, pipeVars>>

\* The host calls read, in which a signal interrupts it.
HostEnter ==
  /\ HostAt("enter")
  /\ host' = [host EXCEPT !.pc = "read"]
  /\ UNCHANGED <<emsVars, lockVars, reg, queue, signalVars, worker, client, asks, pipeVars>>

\* register_client
HostRead ==
  /\ HostAt("read") /\ reg # <<>>
  /\ host' = [host EXCEPT !.pc = "push", !.who = Head(reg)]
  /\ reg' = Tail(reg)
  /\ UNCHANGED <<emsVars, lockVars, queue, signalVars, worker, client, asks, pipeVars>>

HostPush ==
  /\ HostAt("push") /\ Len(queue) < QueueSize
  /\ queue' = Append(queue, host.who)
  /\ host' = [host EXCEPT !.pc = "check", !.who = Null]
  /\ UNCHANGED <<emsVars, lockVars, reg, signalVars, worker, client, asks, pipeVars>>

\* ems_display_events: the lock of the list, and the mutex of one event at a time
HostDisplay ==
  /\ HostAt("display")
  /\ readers' = readers \cup {Host}
  /\ host' = [host EXCEPT !.pc = "event", !.next = 1]
  /\ UNCHANGED <<emsVars, mutex, reg, queue, signalVars, worker, client, asks, pipeVars>>

HostPrint ==
  /\ HostAt("event") /\ host.next <= Len(list)
  /\ mutex[list[host.next]] = Null
  /\ host' = [host EXCEPT !.next = @ + 1]
  /\ UNCHANGED <<emsVars, lockVars, reg, queue, signalVars, worker, client, asks, pipeVars>>

HostDisplayed ==
  /\ HostAt("event") /\ host.next > Len(list)
  /\ readers' = readers \ {Host}
  /\ host' = [host EXCEPT !.pc = host.then, !.next = 1]
  /\ UNCHANGED <<emsVars, mutex, reg, queue, signalVars, worker, client, asks, pipeVars>>

\* SIGUSR1 reaches a thread that does not block it, and the signal has its default
\* action until the handler has installed itself again (signal of POSIX without
\* the BSD extensions); a read that waits for a registration is interrupted.
Signal ==
  /\ up /\ signals < MaxSignals /\ handler = Null
  /\ signals' = signals + 1
  /\ \/ /\ handler' = Host
        /\ host' = [host EXCEPT !.pc = IF @ = "read" /\ reg = <<>> THEN "eintr" ELSE @]
     \/ \E w \in Workers :
          worker[w].pc = "start" /\ handler' = w /\ UNCHANGED host
  /\ UNCHANGED <<emsVars, lockVars, reg, queue, flag, up, worker, client, asks, pipeVars>>

Handle ==
  /\ up /\ handler # Null
  /\ handler' = Null /\ flag' = TRUE
  /\ UNCHANGED <<emsVars, lockVars, hostVars, signals, up, worker, client, asks, pipeVars>>

\* A SIGUSR1 that comes while the signal has its default action ends the process.
SignalKills ==
  /\ up /\ signals < MaxSignals /\ handler # Null
  /\ signals' = signals + 1 /\ up' = FALSE
  /\ flag' = FALSE /\ handler' = Null
  /\ worker' = [w \in Workers |-> [Idle EXCEPT !.pc = "gone"]]
  /\ host' = [pc |-> "check", then |-> "read", next |-> 1, who |-> Null]
  /\ reg' = <<>> /\ queue' = <<>> /\ req' = [c \in Clients |-> <<>>]
  /\ mutex' = [e \in Events |-> Null] /\ readers' = {}
  /\ UNCHANGED <<emsVars, client, asks, res>>

HostStep ==
  HostCheck \/ HostEnter \/ HostRead \/ HostPush \/ HostDisplay \/ HostPrint \/ HostDisplayed

------------------------------------------------------------------------------

Next ==
  \/ HostStep \/ Signal \/ Handle \/ SignalKills
  \/ \E w \in Workers : WorkerStep(w)
  \/ \E c \in Clients : ClientStep(c) \/ Die(c)

Spec == Init /\ [][Next]_vars

FairSpec ==
  /\ Spec /\ WF_vars(HostStep) /\ WF_vars(Handle)
  /\ \A w \in Workers : WF_vars(WorkerStep(w))
  /\ \A c \in Clients : WF_vars(ClientStep(c))

------------------------------------------------------------------------------

\* Every request takes effect at one moment, and its answer is the state of that
\* moment; of a request that a dying client has not written in full nothing is done.
AtomicRequests == Service!Spec

\* When the host thread (or the handler), a worker and a client can go on
HostCan ==
  /\ up
  /\ \/ handler # Null
     \/ host.pc \in {"check", "eintr", "enter", "display"}
     \/ host.pc = "read" /\ reg # <<>>
     \/ host.pc = "push" /\ Len(queue) < QueueSize
     \/ host.pc = "event" /\ (host.next <= Len(list) => mutex[list[host.next]] = Null)

CanWrite(w) ==
  LET c == worker[w].session IN Alive(c) => Len(res[c]) < PipeSize

CanExecute(w) ==
  \/ Op(w) = "CREATE" /\ readers = {}
  \/ Op(w) \in {"RESERVE", "SHOW"} /\ (Exists(Arg(w).event) => mutex[Arg(w).event] = Null)
  \/ Op(w) = "LIST"

WorkerCan(w) ==
  LET k == worker[w]  c == worker[w].session IN
  \/ k.pc = "start" /\ CanRun(w)
  \/ k.pc = "fetch" /\ queue # <<>>
  \/ k.pc \in {"openReq", "openRes"} /\ client[c].pc = k.pc
  \/ k.pc \in {"op", "id", "args"} /\ (req[c] # <<>> \/ ~Alive(c))
  \/ k.pc = "exec" /\ CanExecute(w)
  \/ k.pc \in {"ack", "reply"} /\ CanWrite(w)
  \/ k.pc = "show" /\ (k.next < Seats + 2 => CanWrite(w))
  \/ k.pc = "list" /\ (k.next < Len(list) + 3 => CanWrite(w))

ClientCan(c) ==
  \/ client[c].pc = "start" /\ up
  \/ client[c].pc \in {"idle", "id", "args", "quit"}
  \/ client[c].pc \in {"ack", "answer"} /\ (res[c] # <<>> \/ ~Connected(c))

SomebodyCanGo ==
  HostCan \/ (\E w \in Workers : WorkerCan(w)) \/ (\E c \in Clients : ClientCan(c))

\* What it is for everything to have come to its end
Stuck(w) ==
  worker[w].pc \in {"openReq", "openRes"} /\ client[worker[w].session].pc = "dead"
SomeWorker == \E w \in Workers : ~Stuck(w)
Settled ==
  /\ \A c \in Clients : client[c].pc \in {"start", "openReq", "openRes", "closed", "dead"}
  /\ readers = {} /\ \A e \in Events : mutex[e] = Null
  /\ up =>
       /\ ~flag \/ host.pc = "read" \/ host.pc = "push"
       /\ SomeWorker =>
            /\ host.pc = "read" /\ reg = <<>> /\ queue = <<>>
            /\ \A c \in Clients : client[c].pc \in {"closed", "dead"}
            /\ \A w \in Workers : worker[w].pc = "fetch" \/ Stuck(w)

\* When no thread of the server and no client can go on (no fair step of the system
\* has any other end: all of them are bounded by the requests and the signals), no
\* lock, full pipe, full queue or death has left anybody waiting for somebody else:
\* every session has ended, every lock is free, the host waits for registrations and
\* the workers for sessions.  Only workers whose client died before its pipes were
\* open wait for ever, and only what needs a worker when none is left waits with them.
NoDeadlock == SomebodyCanGo \/ Settled

\* That, where somebody can go on exactly when a step of the host, of the handler, of
\* a worker or of a living client is enabled.
NobodyIsLeftWaiting ==
  /\ HostCan <=> ENABLED (HostStep \/ Handle)
  /\ \A w \in Workers : WorkerCan(w) <=> ENABLED WorkerStep(w)
  /\ \A c \in Clients : ClientCan(c) <=> ENABLED ClientStep(c)
  /\ NoDeadlock

\* After SIGUSR1 the host prints the events (the comments of host_loop).
SignalIsShown == flag ~> (~flag \/ ~up)

\* A worker that has fetched a session comes back for another one (the comment of
\* worker_loop).
WorkersRepeat == \A w \in Workers : worker[w].pc = "openReq" ~> (worker[w].pc = "fetch" \/ ~up)
==============================================================================

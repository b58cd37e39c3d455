--------------------------- MODULE EmsServerProofs ---------------------------
(***************************************************************************)
(* Proofs about EmsServer: its types, and that it implements EmsService.   *)
(*                                                                         *)
(* A request of a client is what its worker has read of it and what is in  *)
(* the request pipe; an answer is what the client has received, what is in *)
(* the response pipe, and what the worker has still to write.  The         *)
(* invariant says, of the two ends of a session, how far each can be ahead *)
(* of the other (Session); a piece that is written or read moves from one  *)
(* part of such a sequence to the next, and leaves the whole as it was.    *)
(***************************************************************************)
EXTENDS EmsServer, SequenceTheorems, TLAPS

Requests == Service!Requests

Ops       == {"CREATE", "RESERVE", "SHOW", "LIST", "QUIT"}
Arguments == [event : Events \cup {Null}, seats : SUBSET Nat]
Pieces    == Ops \cup Workers \cup Arguments
Items     == Nat \cup Events \cup Workers

HostPlaces   == {"check", "enter", "read", "eintr", "push", "display", "event"}
WorkerPlaces == {"start", "fetch", "openReq", "openRes", "ack", "op", "id", "args", "exec",
                 "reply", "show", "list", "gone"}
ClientPlaces == {"start", "openReq", "openRes", "ack", "idle", "id", "args", "answer",
                 "quit", "closed", "dead"}

Hosts   == [pc : HostPlaces, then : {"read", "enter", "check"}, next : Nat,
            who : Clients \cup {Null}]
Servers == [pc : WorkerPlaces, session : Clients \cup {Null}, read : Seq(Pieces),
            event : Events \cup {Null}, out : Seq(Items), next : Nat]
Callers == [pc : ClientPlaces, id : Workers \cup {Null}, ask : Requests \cup {Null},
            got : Seq(Items)]

EventTypes ==
  /\ list \in Seq(Events)
  /\ seats \in [Events -> [1 .. Seats -> Nat]] /\ count \in [Events -> Nat]
  /\ mutex \in [Events -> Workers \cup {Null}] /\ readers \subseteq Threads

HostTypes ==
  /\ reg \in Seq(Clients) /\ queue \in Seq(Clients) /\ Len(queue) <= QueueSize
  /\ host \in Hosts /\ (host.who = Null <=> host.pc # "push")
  /\ flag \in BOOLEAN /\ up \in BOOLEAN
  /\ handler \in Threads \cup {Null} /\ signals \in 0 .. MaxSignals

WorkerTypes ==
  /\ worker \in [Workers -> Servers]
  /\ \A w \in Workers : Serves(w, Null) <=> worker[w].pc \in {"start", "fetch", "gone"}
  /\ ~up => \A w \in Workers : worker[w].pc = "gone"

ClientTypes ==
  /\ client \in [Clients -> Callers]
  /\ asks \in [Clients -> Nat] /\ \A c \in Clients : asks[c] <= Len(Asks[c])
  /\ req \in [Clients -> Seq(Pieces)] /\ res \in [Clients -> Seq(Items)]
  /\ \A c \in Clients : Len(res[c]) <= PipeSize

Types == EventTypes /\ HostTypes /\ WorkerTypes /\ ClientTypes

\* A lock is held by those who are at the place that needs it, and what they write
\* under it has an end.
LocksOK ==
  /\ \A w \in Workers : worker[w].pc = "show" =>
       /\ worker[w].event \in Events /\ mutex[worker[w].event] = w
       /\ worker[w].next \in 1 .. Seats + 2
  /\ \A w \in Workers : worker[w].pc = "list" => worker[w].next \in 1 .. Len(list) + 3
  /\ \A e \in Events : mutex[e] # Null =>
       worker[mutex[e]].pc = "show" /\ worker[mutex[e]].event = e
  /\ \A w \in Workers : w \in readers <=> worker[w].pc = "list"
  /\ Host \in readers <=> host.pc = "event"

\* The clients that have registered and that no worker has fetched
Line == (queue \o (IF host.who = Null THEN <<>> ELSE <<host.who>>)) \o reg

LineOK ==
  /\ \A i, j \in DOMAIN Line : i # j => Line[i] # Line[j]
  /\ \A i \in DOMAIN Line :
       client[Line[i]].pc \in {"openReq", "dead"} /\ ~IsServed(Line[i])

SessionsDiffer ==
  \A v, w \in Workers : v # w /\ ~Serves(v, Null) => worker[v].session # worker[w].session

\* No beginning of an answer looks whole.
Prompt(a, op) == \A n \in 1 .. Len(a) - 1 : ~Whole(SubSeq(a, 1, n), op)

\* What a client l with the pieces p of a request may have written, for a worker w
Form(p, w) ==
  /\ Len(p) <= 3
  /\ Len(p) >= 1 => p[1] \in Ops
  /\ Len(p) >= 2 => p[2] = w
  /\ Len(p) = 3 => p[1] \notin {"LIST", "QUIT"} /\ Request(p) \in Requests

\* What the worker k has read
ReadOK(k) ==
  /\ k.pc \notin {"id", "args", "exec"} => k.read = <<>>
  /\ k.pc = "id" => Len(k.read) = 1
  /\ k.pc = "args" => Len(k.read) = 2 /\ k.read[1] \notin {"LIST", "QUIT"}
  /\ k.pc = "exec" => Complete(k.read)
  /\ k.pc = "reply" => k.out # <<>>

\* What the client l has, with the items r in its response pipe
Calm(l, r) ==
  /\ l.pc # "answer" => l.got = <<>>
  /\ l.pc \notin {"ack", "answer"} => r = <<>>
  /\ l.pc = "ack" => r = <<>> \/ \E v \in Workers : r = <<v>>
  /\ l.pc \in {"id", "args", "answer"} => l.ask \in Requests
  /\ l.pc \in {"idle", "id", "args", "answer", "quit"} => l.id \in Workers

\* A client l that no worker serves, with q and r in its pipes
Alone(l, q, r) ==
  /\ q = <<>>
  /\ l.pc = "answer" => Prompt(l.got \o r, l.ask.op)

\* The session of worker w, in state k, with a client in state l: p are the pieces of
\* the request, r is in the response pipe, t is what the worker has still to write.
Session(w, k, l, p, r, t) ==
  /\ ReadOK(k)
  /\ Form(p, w)
  /\ t # <<>> => p = <<>>
  /\ l.pc # "start"
  /\ k.pc \in {"openReq", "openRes", "ack"} =>
       l.pc \in {k.pc, "dead"} /\ p = <<>> /\ r = <<>>
  /\ k.pc \notin {"openReq", "openRes", "ack"} => l.pc \notin {"openReq", "openRes"}
  /\ l.pc = "ack" => k.pc = "ack" \/ (k.pc = "op" /\ p = <<>> /\ r = <<w>>)
  /\ l.pc \in {"idle", "id", "args", "answer", "quit"} => l.id = w
  /\ l.pc \in {"idle", "id", "args", "quit"} => t = <<>>
  /\ l.pc = "idle" => p = <<>>
  /\ l.pc = "id"   => p = <<l.ask.op>>
  /\ l.pc = "args" => p = <<l.ask.op, w>> /\ l.ask.op # "LIST"
  /\ l.pc = "quit" => p = <<"QUIT">>
  /\ l.pc = "answer" =>
       /\ Prompt((l.got \o r) \o t, l.ask.op)
       /\ \/ (l.got \o r) \o t = <<>> /\ Complete(p) /\ Request(p) = l.ask
          \/ p = <<>> /\ Whole((l.got \o r) \o t, l.ask.op)

CalmOK == \A c \in Clients : Calm(client[c], res[c])
AloneOK == \A c \in Clients : ~IsServed(c) => Alone(client[c], req[c], res[c])
SessionOK ==
  \A w \in Workers : \A c \in Clients : Serves(w, c) =>
    Session(w, worker[w], client[c], worker[w].read \o req[c], res[c], RestOf(w))

Talks == SessionsDiffer /\ CalmOK /\ AloneOK /\ SessionOK

Inv == Types /\ LocksOK /\ LineOK /\ Talks

------------------------------------------------------------------------------
(* Sequences that are written at one end and read at the other *)

\* The first element of one sequence goes to the end of the one before it.
LEMMA Moved ==
  ASSUME NEW S, NEW a \in Seq(S), NEW b \in Seq(S), b # <<>>
  PROVE  /\ Append(a, Head(b)) \in Seq(S) /\ Tail(b) \in Seq(S) /\ Head(b) \in S
         /\ Len(Tail(b)) = Len(b) - 1 /\ Head(b) = b[1]
         /\ Append(a, Head(b)) \o Tail(b) = a \o b
<1>1. Head(b) \in S /\ Tail(b) \in Seq(S) /\ Len(Tail(b)) = Len(b) - 1 /\ Head(b) = b[1]
  BY HeadTailProperties
<1>2. b = <<Head(b)>> \o Tail(b)
  <2>1. Len(b) \in Nat \ {0}
    BY EmptySeq
  <2>2. 1 \in 1 .. Len(b) /\ Len(b) \in 1 .. Len(b)
    BY <2>1
  <2>3. SubSeq(b, 1, Len(b)) = <<b[1]>> \o SubSeq(b, 1 + 1, Len(b))
    BY <2>2, SubSeqRecursiveFirst
  <2>4. SubSeq(b, 1, Len(b)) = b /\ Tail(b) = SubSeq(b, 2, Len(b))
    BY SubSeqFull, TailIsSubSeq
  <2> QED BY <1>1, <2>3, <2>4
<1>3. Append(a, Head(b)) = a \o <<Head(b)>> /\ Append(a, Head(b)) \in Seq(S)
  BY <1>1, AppendIsConcat, AppendProperties
<1>4. <<Head(b)>> \in Seq(S)
  BY <1>1
<1>5. (a \o <<Head(b)>>) \o Tail(b) = a \o (<<Head(b)>> \o Tail(b))
  BY <1>1, <1>4, ConcatAssociative
<1> QED BY <1>1, <1>2, <1>3, <1>5

\* An element is added to the end of the last of two.
LEMMA Added ==
  ASSUME NEW S, NEW a \in Seq(S), NEW b \in Seq(S), NEW x \in S
  PROVE  a \o Append(b, x) = Append(a \o b, x)
<1>1. <<x>> \in Seq(S) /\ a \o b \in Seq(S)
  BY ConcatProperties
<1>2. Append(b, x) = b \o <<x>> /\ Append(a \o b, x) = (a \o b) \o <<x>>
  BY <1>1, AppendIsConcat
<1> QED BY <1>1, <1>2, ConcatAssociative

\* An element goes from the third of three to the second.
LEMMA MovedBehind ==
  \A g, a, b \in Seq(Items) :
    b # <<>> => (g \o Append(a, Head(b))) \o Tail(b) = (g \o a) \o b
<1> SUFFICES ASSUME NEW g \in Seq(Items), NEW a \in Seq(Items), NEW b \in Seq(Items), b # <<>>
             PROVE  (g \o Append(a, Head(b))) \o Tail(b) = (g \o a) \o b
  OBVIOUS
<1>1. Head(b) \in Items /\ g \o a \in Seq(Items)
  BY HeadTailProperties, ConcatProperties
<1>2. g \o Append(a, Head(b)) = Append(g \o a, Head(b))
  BY <1>1, Added
<1>3. Append(g \o a, Head(b)) \o Tail(b) = (g \o a) \o b
  <2>1. \A x \in Seq(Items) : Append(x, Head(b)) \o Tail(b) = x \o b
    BY Moved
  <2> QED BY <1>1, <2>1
<1> QED BY <1>2, <1>3

\* What is left of a sequence from one of its elements on
LEMMA Rests ==
  ASSUME NEW S, NEW s \in Seq(S), NEW n \in 1 .. Len(s)
  PROVE  /\ SubSeq(s, n, Len(s)) \in Seq(S) /\ SubSeq(s, n, Len(s)) # <<>>
         /\ Head(SubSeq(s, n, Len(s))) = s[n]
         /\ Tail(SubSeq(s, n, Len(s))) = SubSeq(s, n + 1, Len(s))
<1>1. Len(s) \in n .. Len(s) /\ Len(s) \in Nat
  OBVIOUS
<1>2. \A i \in n .. Len(s) : s[i] \in S
  BY ElementOfSeq
<1>3. SubSeq(s, n, Len(s)) \in Seq(S) /\ Len(SubSeq(s, n, Len(s))) = Len(s) - n + 1
  BY <1>1, <1>2, SubSeqProperties
<1>4. SubSeq(s, n, Len(s)) # <<>>
  BY <1>1, <1>3, EmptySeq
<1>5. /\ Head(SubSeq(s, n, Len(s))) = s[n]
      /\ Tail(SubSeq(s, n, Len(s))) = SubSeq(s, n + 1, Len(s))
  BY <1>1, HeadTailOfSubSeq
<1> QED BY <1>3, <1>4, <1>5

------------------------------------------------------------------------------
(* Answers *)

\* A beginning of a sequence without whole beginnings has none.
LEMMA PromptBegins ==
  ASSUME NEW a \in Seq(Items), NEW b \in Seq(Items), NEW op, Prompt(a \o b, op)
  PROVE  Prompt(a, op)
<1>1. Len(a \o b) = Len(a) + Len(b) /\ Len(a) \in Nat /\ Len(b) \in Nat
  BY ConcatProperties, LenProperties
<1>2. \A n \in 1 .. Len(a) - 1 : n \in 1 .. Len(a \o b) - 1 /\ n \in 1 .. Len(a) /\ 1 \in 1 .. Len(a)
  BY <1>1
<1>3. \A n \in 1 .. Len(a) - 1 : SubSeq(a \o b, 1, n) = SubSeq(a, 1, n)
  BY <1>2, SubSeqOfConcat1
<1> QED BY <1>2, <1>3 DEF Prompt

\* A whole beginning of it is all of it.
LEMMA PromptWhole ==
  ASSUME NEW a \in Seq(Items), NEW b \in Seq(Items), NEW op, Prompt(a \o b, op), Whole(a, op)
  PROVE  b = <<>> /\ a \o b = a
<1>1. Len(a \o b) = Len(a) + Len(b) /\ Len(b) \in Nat /\ Len(a) \in Nat \ {0}
  <2>1. a # <<>>
    BY SMTT(30) DEF Whole
  <2> QED BY <2>1, ConcatProperties, LenProperties, EmptySeq
<1>2. CASE b # <<>>
  <2>1. Len(b) \in Nat \ {0}
    BY <1>2, EmptySeq
  <2>2. Len(a) \in 1 .. Len(a \o b) - 1 /\ 1 \in 1 .. Len(a) /\ Len(a) \in 1 .. Len(a)
    BY <1>1, <2>1
  <2>3. SubSeq(a \o b, 1, Len(a)) = SubSeq(a, 1, Len(a))
    BY <2>2, SubSeqOfConcat1
  <2>4. SubSeq(a, 1, Len(a)) = a
    BY SubSeqFull
  <2> QED BY <2>2, <2>3, <2>4, Zenon DEF Prompt
<1>3. CASE b = <<>>
  BY <1>3, ConcatEmptySeq
<1> QED BY <1>2, <1>3

\* An answer of one item is whole, if it is for an operation without a value.
LEMMA ShortAnswer ==
  ASSUME NEW n \in {0, 1}, NEW op \in Ops, n = 1 \/ op \notin {"SHOW", "LIST"}
  PROVE  Whole(<<n>>, op) /\ Prompt(<<n>>, op) /\ <<n>> \in Seq(Items)
<1>1. Len(<<n>>) = 1 /\ <<n>>[1] = n /\ <<n>> # <<>> /\ <<n>> \in Seq(Items)
  BY DEF Items
<1>2. Whole(<<n>>, op)
  BY <1>1 DEF Whole, Ops
<1>3. Prompt(<<n>>, op)
  BY <1>1 DEF Prompt
<1> QED BY <1>1, <1>2, <1>3

\* So is the answer of SHOW.
LEMMA ShowAnswer ==
  ASSUME NEW s \in [1 .. Seats -> Nat]
  PROVE  /\ << 0 >> \o s \in Seq(Items) /\ Len(<< 0 >> \o s) = Seats + 1
         /\ (<< 0 >> \o s)[1] = 0
         /\ \A i \in 2 .. Seats + 1 : (<< 0 >> \o s)[i] = s[i - 1]
         /\ Whole(<< 0 >> \o s, "SHOW") /\ Prompt(<< 0 >> \o s, "SHOW")
<1>1. Seats \in Nat
  BY SizesAssumption
<1>2. s \in Seq(Items) /\ Len(s) = Seats
  BY <1>1 DEF Items
<1>3. << 0 >> \in Seq(Items) /\ Len(<< 0 >>) = 1 /\ << 0 >>[1] = 0
  BY DEF Items
<1>4. /\ << 0 >> \o s \in Seq(Items) /\ Len(<< 0 >> \o s) = Seats + 1
      /\ \A i \in 1 .. 1 + Seats : (<< 0 >> \o s)[i] = IF i <= 1 THEN << 0 >>[i] ELSE s[i - 1]
  BY <1>2, <1>3, ConcatProperties
<1>5. (<< 0 >> \o s)[1] = 0 /\ \A i \in 2 .. Seats + 1 : (<< 0 >> \o s)[i] = s[i - 1]
  BY <1>1, <1>3, <1>4
<1>6. << 0 >> \o s # <<>>
  BY <1>1, <1>4, EmptySeq
<1>7. Whole(<< 0 >> \o s, "SHOW")
  BY <1>1, <1>4, <1>6 DEF Whole
<1>8. ASSUME NEW n \in 1 .. Len(<< 0 >> \o s) - 1, Whole(SubSeq(<< 0 >> \o s, 1, n), "SHOW")
      PROVE  FALSE
  <2>1. /\ n \in Nat /\ 1 <= n /\ n <= Seats /\ n \in Int /\ 1 \in Int
        /\ \A i \in 1 .. n : (<< 0 >> \o s)[i] \in Items
    BY <1>1, <1>4, ElementOfSeq
  <2>2. Len(SubSeq(<< 0 >> \o s, 1, n)) = n /\ SubSeq(<< 0 >> \o s, 1, n)[1] = 0
    BY <2>1, <1>5, SubSeqProperties
  <2> QED BY <1>1, <1>8, <2>1, <2>2 DEF Whole
<1>9. Prompt(<< 0 >> \o s, "SHOW")
  BY <1>8 DEF Prompt
<1> QED BY <1>4, <1>5, <1>7, <1>9

\* And that of LIST.
LEMMA ListAnswer ==
  ASSUME NEW s \in Seq(Events)
  PROVE  /\ <<0, Len(s)>> \o s \in Seq(Items) /\ Len(<<0, Len(s)>> \o s) = Len(s) + 2
         /\ Len(s) \in Nat
         /\ Whole(<<0, Len(s)>> \o s, "LIST") /\ Prompt(<<0, Len(s)>> \o s, "LIST")
<1> DEFINE a == <<0, Len(s)>>
<1>1. Len(s) \in Nat /\ s \in Seq(Items)
  BY SeqMonotonic, LenProperties DEF Items
<1>3. a \in Seq(Items) /\ Len(a) = 2 /\ a[1] = 0 /\ a[2] = Len(s)
  BY <1>1 DEF Items
<1> HIDE DEF a
<1>4. /\ a \o s \in Seq(Items) /\ Len(a \o s) = Len(s) + 2
      /\ \A i \in 1 .. 2 + Len(s) : (a \o s)[i] = IF i <= 2 THEN a[i] ELSE s[i - 2]
  <2>1. /\ a \o s \in Seq(Items) /\ Len(a \o s) = Len(a) + Len(s)
        /\ \A i \in 1 .. Len(a) + Len(s) :
             (a \o s)[i] = IF i <= Len(a) THEN a[i] ELSE s[i - Len(a)]
    BY <1>1, <1>3, ConcatProperties
  <2> QED BY <1>1, <1>3, <2>1
<1>5. (a \o s)[1] = 0 /\ (a \o s)[2] = Len(s)
  BY <1>1, <1>3, <1>4
<1>6. a \o s # <<>>
  BY <1>1, <1>4, EmptySeq
<1>7. Whole(a \o s, "LIST")
  BY <1>1, <1>4, <1>5, <1>6 DEF Whole
<1>8. ASSUME NEW n \in 1 .. Len(a \o s) - 1, Whole(SubSeq(a \o s, 1, n), "LIST")
      PROVE  FALSE
  <2>1. /\ n \in Nat /\ 1 <= n /\ n <= Len(s) + 1 /\ n \in Int /\ 1 \in Int
        /\ \A i \in 1 .. n : (a \o s)[i] \in Items
    BY <1>1, <1>4, ElementOfSeq
  <2>2. /\ Len(SubSeq(a \o s, 1, n)) = n /\ SubSeq(a \o s, 1, n)[1] = 0
        /\ n >= 2 => SubSeq(a \o s, 1, n)[2] = Len(s)
    BY <2>1, <1>5, SubSeqProperties
  <2>3. CASE n = 1
    BY <1>8, <2>2, <2>3 DEF Whole
  <2>4. CASE n >= 2
    <3>1. Len(SubSeq(a \o s, 1, n)) = 2 + SubSeq(a \o s, 1, n)[2]
      BY <1>8, <2>1, <2>2, <2>4, SMTT(30) DEF Whole
    <3> QED BY <1>1, <1>4, <2>1, <2>2, <2>4, <3>1
  <2> QED BY <2>1, <2>3, <2>4
<1>9. Prompt(a \o s, "LIST")
  BY <1>8 DEF Prompt
<1> QED BY <1>1, <1>4, <1>7, <1>9 DEF a

------------------------------------------------------------------------------
(* The values of the mapping, as functions of the two ends of a session *)

\* What a worker k has still to write, when the seats are s and the list is l
Rest(k, s, l) ==
  CASE k.pc = "reply" -> k.out
    [] k.pc = "show"  -> SubSeq(<< 0 >> \o s[k.event], k.next, Seats + 1)
    [] k.pc = "list"  -> SubSeq(<<0, Len(l)>> \o l, k.next, Len(l) + 2)
    [] OTHER -> <<>>

PhaseFor(l) ==
  CASE l.pc \in {"dead", "closed"} -> "gone"
    [] l.pc \in {"start", "openReq", "openRes", "ack"} -> "new"
    [] OTHER -> "in"
AskedFor(p) == IF Complete(p) THEN Request(p) ELSE Null
TellsFor(l, a) == IF l.pc = "answer" /\ Whole(a, l.ask.op) THEN a ELSE <<>>

\* The mapping of all clients but c is unchanged.
OthersKept(c) ==
  \A d \in Clients \ {c} :
    PhaseOf(d)' = PhaseOf(d) /\ AskedOf(d)' = AskedOf(d) /\ TellsOf(d)' = TellsOf(d)

\* A step that is one of the service, or none, after which the invariant holds
Refines == Inv' /\ [Service!Next]_(Service!vars)

\* The names are apart.
LEMMA NamesApart ==
  /\ Seats \in Nat /\ QueueSize \in Nat \ {0} /\ PipeSize \in Nat \ {0} /\ MaxSignals \in Nat
  /\ Null \notin Workers /\ Null \notin Clients /\ Null \notin Events /\ Null # Host
  /\ Host \notin Workers /\ Null \notin Requests
BY SizesAssumption, NamesAssumption, AsksAssumption DEF Requests

\* The requests: all but LIST have an event.
LEMMA RequestTypes ==
  ASSUME NEW r \in Requests
  PROVE  /\ r.op \in Ops /\ r.op # "QUIT" /\ r = [op |-> r.op, event |-> r.event, seats |-> r.seats]
         /\ r.op # "LIST" => r.event \in Events
         /\ r.seats \subseteq 1 .. Seats + 1
         /\ r.op = "LIST" => r = [op |-> "LIST", event |-> Null, seats |-> {}]
         /\ [event |-> r.event, seats |-> r.seats] \in Arguments
BY NamesApart DEF Requests, Service!Requests, Ops, Arguments

\* RestOf is Rest of the worker.
LEMMA RestIs ==
  ASSUME NEW w
  PROVE  /\ RestOf(w) = Rest(worker[w], seats, list)
         /\ RestOf(w)' = Rest(worker'[w], seats', list')
BY DEF RestOf, Rest

\* A worker that writes no answer has nothing to write.
LEMMA RestNone ==
  ASSUME NEW k, NEW s, NEW l, k.pc \notin {"reply", "show", "list"}
  PROVE  Rest(k, s, l) = <<>>
BY DEF Rest

\* A worker that writes what it has ready
LEMMA RestReply ==
  ASSUME NEW k, NEW s, NEW l, k.pc = "reply"
  PROVE  Rest(k, s, l) = k.out
BY DEF Rest

\* A worker that shows an event
LEMMA RestShow ==
  ASSUME NEW k, NEW s \in [Events -> [1 .. Seats -> Nat]], NEW l,
         k.pc = "show", k.event \in Events, k.next \in 1 .. Seats + 2
  PROVE  /\ Rest(k, s, l) = SubSeq(<< 0 >> \o s[k.event], k.next, Seats + 1)
         /\ Rest(k, s, l) \in Seq(Items)
         /\ k.next = 1 => Rest(k, s, l) = << 0 >> \o s[k.event]
         /\ k.next = Seats + 2 => Rest(k, s, l) = <<>>
         /\ k.next <= Seats + 1 =>
              /\ Rest(k, s, l) # <<>>
              /\ Head(Rest(k, s, l)) = IF k.next = 1 THEN 0 ELSE s[k.event][k.next - 1]
              /\ Tail(Rest(k, s, l)) = SubSeq(<< 0 >> \o s[k.event], k.next + 1, Seats + 1)
<1> DEFINE a == << 0 >> \o s[k.event]
<1>1. /\ a \in Seq(Items) /\ Len(a) = Seats + 1 /\ a[1] = 0
      /\ \A i \in 2 .. Seats + 1 : a[i] = s[k.event][i - 1]
  BY ShowAnswer
<1>2. Rest(k, s, l) = SubSeq(a, k.next, Seats + 1)
  BY DEF Rest
<1> HIDE DEF a
<1>3. Seats \in Nat
  BY NamesApart
<1>4. k.next = Seats + 2 => SubSeq(a, k.next, Seats + 1) = <<>>
  BY <1>3, SubSeqEmpty
<1>5. ASSUME k.next <= Seats + 1
      PROVE  /\ SubSeq(a, k.next, Seats + 1) \in Seq(Items) /\ SubSeq(a, k.next, Seats + 1) # <<>>
             /\ Head(SubSeq(a, k.next, Seats + 1)) = a[k.next]
             /\ Tail(SubSeq(a, k.next, Seats + 1)) = SubSeq(a, k.next + 1, Seats + 1)
  <2>1. k.next \in 1 .. Len(a)
    BY <1>1, <1>3, <1>5
  <2>2. /\ SubSeq(a, k.next, Len(a)) \in Seq(Items) /\ SubSeq(a, k.next, Len(a)) # <<>>
        /\ Head(SubSeq(a, k.next, Len(a))) = a[k.next]
        /\ Tail(SubSeq(a, k.next, Len(a))) = SubSeq(a, k.next + 1, Len(a))
    BY <1>1, <2>1, Rests
  <2> QED BY <1>1, <2>2
<1>6. k.next <= Seats + 1 => a[k.next] = IF k.next = 1 THEN 0 ELSE s[k.event][k.next - 1]
  BY <1>1, <1>3, SMTT(30)
<1>7. SubSeq(a, 1, Seats + 1) = a
  BY <1>1, SubSeqFull
<1>8. <<>> \in Seq(Items) /\ (k.next = Seats + 2 \/ k.next <= Seats + 1) /\ Seats + 2 # 1
  BY <1>3, EmptySeq
<1> QED BY <1>2, <1>4, <1>5, <1>6, <1>7, <1>8 DEF a

\* A worker that lists the events
LEMMA RestList ==
  ASSUME NEW k, NEW s, NEW l \in Seq(Events), k.pc = "list", k.next \in 1 .. Len(l) + 3
  PROVE  /\ Rest(k, s, l) = SubSeq(<<0, Len(l)>> \o l, k.next, Len(l) + 2)
         /\ Rest(k, s, l) \in Seq(Items)
         /\ k.next = 1 => Rest(k, s, l) = <<0, Len(l)>> \o l
         /\ k.next = Len(l) + 3 => Rest(k, s, l) = <<>>
         /\ k.next <= Len(l) + 2 =>
              /\ Rest(k, s, l) # <<>>
              /\ Head(Rest(k, s, l)) = (<<0, Len(l)>> \o l)[k.next]
              /\ Tail(Rest(k, s, l)) = SubSeq(<<0, Len(l)>> \o l, k.next + 1, Len(l) + 2)
<1> DEFINE a == <<0, Len(l)>> \o l
<1>1. a \in Seq(Items) /\ Len(a) = Len(l) + 2 /\ Len(l) \in Nat
  BY ListAnswer
<1>2. Rest(k, s, l) = SubSeq(a, k.next, Len(l) + 2)
  BY DEF Rest
<1> HIDE DEF a
<1>4. k.next = Len(l) + 3 => SubSeq(a, k.next, Len(l) + 2) = <<>>
  BY <1>1, SubSeqEmpty
<1>5. ASSUME k.next <= Len(l) + 2
      PROVE  /\ SubSeq(a, k.next, Len(l) + 2) \in Seq(Items) /\ SubSeq(a, k.next, Len(l) + 2) # <<>>
             /\ Head(SubSeq(a, k.next, Len(l) + 2)) = a[k.next]
             /\ Tail(SubSeq(a, k.next, Len(l) + 2)) = SubSeq(a, k.next + 1, Len(l) + 2)
  <2>1. k.next \in 1 .. Len(a)
    BY <1>1, <1>5
  <2>2. /\ SubSeq(a, k.next, Len(a)) \in Seq(Items) /\ SubSeq(a, k.next, Len(a)) # <<>>
        /\ Head(SubSeq(a, k.next, Len(a))) = a[k.next]
        /\ Tail(SubSeq(a, k.next, Len(a))) = SubSeq(a, k.next + 1, Len(a))
    BY <1>1, <2>1, Rests
  <2> QED BY <1>1, <2>2
<1>6. SubSeq(a, 1, Len(l) + 2) = a
  BY <1>1, SubSeqFull
<1>7. <<>> \in Seq(Items) /\ (k.next = Len(l) + 3 \/ k.next <= Len(l) + 2) /\ Len(l) + 3 # 1
  BY <1>1, EmptySeq
<1> QED BY <1>2, <1>4, <1>5, <1>6, <1>7 DEF a

------------------------------------------------------------------------------
(* Steps of one client and one worker *)

\* The request and the answer of a client that worker w serves
LEMMA ServedViews ==
  ASSUME SessionsDiffer, NEW w \in Workers, NEW c \in Clients, Serves(w, c)
  PROVE  /\ IsServed(c)
         /\ AskedOf(c) = AskedFor(worker[w].read \o req[c])
         /\ TellsOf(c) = TellsFor(client[c], (client[c].got \o res[c]) \o RestOf(w))
<1>1. IsServed(c)
  BY DEF IsServed
<1>2. \A v \in Workers : Serves(v, c) => v = w
  BY NamesApart DEF SessionsDiffer, Serves
<1>3. WorkerOf(c) = w
  BY <1>2 DEF WorkerOf
<1> QED BY <1>1, <1>3 DEF AskedOf, TellsOf, AskedFor, TellsFor, PiecesOf, AnswerOf

\* The same of the next state
LEMMA ServedViewsNext ==
  ASSUME SessionsDiffer', NEW w \in Workers, NEW c \in Clients, Serves(w, c)'
  PROVE  /\ IsServed(c)'
         /\ AskedOf(c)' = AskedFor(worker'[w].read \o req'[c])
         /\ TellsOf(c)' = TellsFor(client'[c], (client'[c].got \o res'[c]) \o RestOf(w)')
<1>1. IsServed(c)'
  BY DEF IsServed
<1>2. \A v \in Workers : Serves(v, c)' => v = w
  BY NamesApart DEF SessionsDiffer, Serves
<1>3. WorkerOf(c)' = w
  BY <1>2 DEF WorkerOf
<1> QED BY <1>1, <1>3 DEF AskedOf, TellsOf, AskedFor, TellsFor, PiecesOf, AnswerOf

\* Of a client that no worker serves
LEMMA UnservedViews ==
  ASSUME ClientTypes, NEW c \in Clients, ~IsServed(c)
  PROVE  /\ AskedOf(c) = AskedFor(req[c])
         /\ TellsOf(c) = TellsFor(client[c], client[c].got \o res[c])
<1>1. req[c] \in Seq(Pieces) /\ client[c].got \in Seq(Items) /\ res[c] \in Seq(Items)
  BY DEF ClientTypes, Callers
<1>2. client[c].got \o res[c] \in Seq(Items)
  BY <1>1, ConcatProperties
<1>3. <<>> \o req[c] = req[c] /\ (client[c].got \o res[c]) \o <<>> = client[c].got \o res[c]
  BY <1>1, <1>2, ConcatEmptySeq
<1>4. PiecesOf(c) = req[c] /\ AnswerOf(c) = client[c].got \o res[c]
  BY <1>3 DEF PiecesOf, AnswerOf
<1> QED BY <1>4 DEF AskedOf, TellsOf, AskedFor, TellsFor

\* The same of the next state
LEMMA UnservedViewsNext ==
  ASSUME ClientTypes', NEW c \in Clients, ~IsServed(c)'
  PROVE  /\ AskedOf(c)' = AskedFor(req'[c])
         /\ TellsOf(c)' = TellsFor(client'[c], client'[c].got \o res'[c])
<1>1. req'[c] \in Seq(Pieces) /\ client'[c].got \in Seq(Items) /\ res'[c] \in Seq(Items)
  BY DEF ClientTypes, Callers
<1>2. client'[c].got \o res'[c] \in Seq(Items)
  BY <1>1, ConcatProperties
<1>3. <<>> \o req'[c] = req'[c] /\ (client'[c].got \o res'[c]) \o <<>> = client'[c].got \o res'[c]
  BY <1>1, <1>2, ConcatEmptySeq
<1>4. PiecesOf(c)' = req'[c] /\ AnswerOf(c)' = client'[c].got \o res'[c]
  BY <1>3 DEF PiecesOf, AnswerOf
<1> QED BY <1>4 DEF AskedOf, TellsOf, AskedFor, TellsFor

\* A client with the same pipes and a server that has not moved, or still none, means
\* what it meant.
LEMMA ViewsKept ==
  ASSUME SessionsDiffer, SessionsDiffer', ClientTypes, ClientTypes', NEW d \in Clients,
         client'[d] = client[d], req'[d] = req[d], res'[d] = res[d],
         \A v \in Workers : (Serves(v, d) <=> Serves(v, d)'),
         \A v \in Workers : Serves(v, d) => worker'[v] = worker[v] /\ RestOf(v)' = RestOf(v)
  PROVE  PhaseOf(d)' = PhaseOf(d) /\ AskedOf(d)' = AskedOf(d) /\ TellsOf(d)' = TellsOf(d)
<1>1. CASE IsServed(d)
  <2>1. PICK w \in Workers : Serves(w, d)
    BY <1>1 DEF IsServed
  <2> QED BY <2>1, ServedViews, ServedViewsNext DEF PhaseOf
<1>2. CASE ~IsServed(d)
  <2>1. ~IsServed(d)'
    BY <1>2 DEF IsServed
  <2> QED BY <1>2, <2>1, UnservedViews, UnservedViewsNext DEF PhaseOf
<1> QED BY <1>1, <1>2

\* Line is a sequence of clients, as long as its three parts.
LEMMA LineTypes ==
  ASSUME Types
  PROVE  /\ Line \in Seq(Clients) /\ DOMAIN Line = 1 .. Len(Line)
         /\ \A i \in DOMAIN Line : Line[i] \in Clients
<1>1. /\ queue \in Seq(Clients) /\ reg \in Seq(Clients)
      /\ (IF host.who = Null THEN <<>> ELSE <<host.who>>) \in Seq(Clients)
  BY DEF Types, HostTypes, Hosts
<1>2. Line \in Seq(Clients)
  BY <1>1, ConcatProperties DEF Line
<1> QED BY <1>2, LenProperties, ElementOfSeq

\* The next states of client c and of its pipes
ClientTo(c, l, q, r) ==
  /\ client' = [client EXCEPT ![c] = l]
  /\ req' = [req EXCEPT ![c] = q]
  /\ res' = [res EXCEPT ![c] = r] /\ Len(r) <= PipeSize
  /\ asks' \in [Clients -> Nat] /\ \A d \in Clients : asks'[d] <= Len(Asks[d])

\* The next state of worker w, which goes on with its session c or ends it
WorkerTo(w, c, k) ==
  /\ worker' = [worker EXCEPT ![w] = k]
  /\ k.session \in {c, Null} /\ (k.session = Null <=> k.pc = "fetch")
  /\ k.pc \notin {"start", "gone"}
  /\ \A v \in Workers \ {w} : RestOf(v)' = RestOf(v)

\* A step of worker w and of its client c, which may end the session: k and l are their
\* next states, q and r the next contents of the pipes.
LEMMA SessionStep ==
  ASSUME Inv, NEW w \in Workers, NEW c \in Clients, Serves(w, c),
         NEW k \in Servers, NEW l \in Callers, NEW q \in Seq(Pieces), NEW r \in Seq(Items),
         WorkerTo(w, c, k), ClientTo(c, l, q, r), UNCHANGED <<reg, queue, host.who, up>>,
         Calm(l, r),
         k.session = c => Session(w, k, l, k.read \o q, r, Rest(k, seats', list')),
         k.session = Null => Alone(l, q, r)
  PROVE  /\ WorkerTypes' /\ ClientTypes' /\ LineOK' /\ Talks'
         /\ OthersKept(c)
         /\ PhaseOf(c)' = PhaseFor(l)
         /\ AskedOf(c) = AskedFor(worker[w].read \o req[c])
         /\ TellsOf(c) = TellsFor(client[c], (client[c].got \o res[c]) \o RestOf(w))
         /\ k.session = c =>
              /\ AskedOf(c)' = AskedFor(k.read \o q)
              /\ TellsOf(c)' = TellsFor(l, (l.got \o r) \o Rest(k, seats', list'))
         /\ k.session = Null => AskedOf(c)' = Null /\ TellsOf(c)' = TellsFor(l, l.got \o r)
<1> USE NamesApart DEF WorkerTo, ClientTo
<1>1. /\ worker \in [Workers -> Servers] /\ client \in [Clients -> Callers]
      /\ req \in [Clients -> Seq(Pieces)] /\ res \in [Clients -> Seq(Items)]
  BY DEF Inv, Types, WorkerTypes, ClientTypes
<1>2. /\ worker'[w] = k /\ \A v \in Workers \ {w} : worker'[v] = worker[v]
      /\ client'[c] = l /\ req'[c] = q /\ res'[c] = r
      /\ \A d \in Clients \ {c} : client'[d] = client[d] /\ req'[d] = req[d] /\ res'[d] = res[d]
  BY <1>1
<1>3. worker[w].pc \notin {"start", "fetch", "gone"} /\ up
  BY DEF Inv, Types, WorkerTypes, Serves
<1>4. WorkerTypes'
  <2>1. worker' \in [Workers -> Servers]
    BY <1>1
  <2>2. \A v \in Workers : Serves(v, Null)' <=> worker'[v].pc \in {"start", "fetch", "gone"}
    BY <1>2 DEF Inv, Types, WorkerTypes, Serves
  <2> QED BY <1>3, <2>1, <2>2 DEF WorkerTypes
<1>5. ClientTypes'
  <2>1. client' \in [Clients -> Callers]
    BY <1>1
  <2>2. req' \in [Clients -> Seq(Pieces)]
    BY <1>1
  <2>3. res' \in [Clients -> Seq(Items)]
    BY <1>1
  <2>4. \A d \in Clients : Len(res'[d]) <= PipeSize
    BY <1>2 DEF Inv, Types, ClientTypes
  <2> QED BY <2>1, <2>2, <2>3, <2>4 DEF ClientTypes
<1>6. /\ \A v \in Workers \ {w}, d \in Clients : Serves(v, d)' <=> Serves(v, d)
      /\ \A v \in Workers \ {w} : ~Serves(v, c)
      /\ \A d \in Clients \ {c} : ~Serves(w, d) /\ ~Serves(w, d)'
      /\ \A d \in Clients \ {c} : IsServed(d)' <=> IsServed(d)
      /\ IsServed(c)' <=> k.session = c
      /\ IsServed(c)
  <2>1. \A v \in Workers \ {w} : worker[v].session # c
    BY DEF Inv, Talks, SessionsDiffer, Serves
  <2>2. \A v \in Workers : Serves(v, c)' <=> (v = w /\ k.session = c)
    BY <1>2, <2>1 DEF Serves
  <2>3. \A d \in Clients \ {c} : \A v \in Workers : Serves(v, d)' <=> Serves(v, d)
    BY <1>2 DEF Serves
  <2>4. \A d \in Clients \ {c} : ~Serves(w, d)
    BY DEF Serves
  <2> QED BY <1>2, <2>1, <2>2, <2>3, <2>4 DEF IsServed, Serves
<1>7. SessionsDiffer'
  <2>1. \A v \in Workers \ {w} : worker[v].session # c
    BY <1>6 DEF Serves
  <2> QED BY <1>2, <2>1 DEF SessionsDiffer, Serves, Inv, Talks
<1>8. Talks'
  <2>1. CalmOK'
    BY <1>2 DEF CalmOK, Inv, Talks
  <2>2. AloneOK'
    <3> SUFFICES ASSUME NEW d \in Clients, ~IsServed(d)'
                 PROVE  Alone(client'[d], req'[d], res'[d])
      BY DEF AloneOK, Alone, Prompt, Whole
    <3>1. CASE d = c
      BY <1>2, <1>6, <3>1
    <3>2. CASE d # c
      BY <1>2, <1>6, <3>2 DEF Inv, Talks, AloneOK
    <3> QED BY <3>1, <3>2
  <2>3. SessionOK'
    <3> SUFFICES ASSUME NEW v \in Workers, NEW d \in Clients, Serves(v, d)'
                 PROVE  Session(v, worker'[v], client'[d], worker'[v].read \o req'[d],
                                res'[d], RestOf(v)')
      BY Zenon DEF SessionOK, Session, ReadOK, Form, Prompt, Whole, Request, Complete
    <3>1. CASE v = w
      <4>1. d = c /\ k.session = c
        BY <1>2, <1>6, <3>1 DEF Serves
      <4>2. RestOf(w)' = Rest(k, seats', list')
        BY <1>2, RestIs
      <4> QED BY <1>2, <3>1, <4>1, <4>2
    <3>2. CASE v # w
      <4>1. d # c /\ Serves(v, d)
        BY <1>6, <3>2
      <4> QED BY <1>2, <3>2, <4>1 DEF Inv, Talks, SessionOK
    <3> QED BY <3>1, <3>2, SMTT(30)
  <2> QED BY <1>7, <2>1, <2>2, <2>3 DEF Talks
<1>9. LineOK'
  <2>1. Line' = Line
    BY DEF Line
  <2>2. \A i \in DOMAIN Line : Line[i] \in Clients /\ Line[i] # c
    <3>1. \A i \in DOMAIN Line : Line[i] \in Clients
      BY LineTypes DEF Inv
    <3> QED BY <1>6, <3>1 DEF Inv, LineOK
  <2> QED BY <1>2, <1>6, <2>1, <2>2 DEF LineOK, Inv
<1>10. OthersKept(c)
  <2> SUFFICES ASSUME NEW d \in Clients \ {c}
               PROVE  PhaseOf(d)' = PhaseOf(d) /\ AskedOf(d)' = AskedOf(d) /\ TellsOf(d)' = TellsOf(d)
    BY DEF OthersKept
  <2>1. /\ \A v \in Workers : (Serves(v, d) <=> Serves(v, d)')
        /\ \A v \in Workers : Serves(v, d) => worker'[v] = worker[v] /\ RestOf(v)' = RestOf(v)
    BY <1>2, <1>6
  <2> QED BY <1>2, <1>5, <1>7, <2>1, ViewsKept DEF Inv, Types, Talks
<1>11. PhaseOf(c)' = PhaseFor(l)
  BY <1>2 DEF PhaseOf, PhaseFor
<1>12. /\ AskedOf(c) = AskedFor(worker[w].read \o req[c])
       /\ TellsOf(c) = TellsFor(client[c], (client[c].got \o res[c]) \o RestOf(w))
  BY ServedViews DEF Inv, Talks
<1>13. k.session = c =>
         /\ AskedOf(c)' = AskedFor(k.read \o q)
         /\ TellsOf(c)' = TellsFor(l, (l.got \o r) \o Rest(k, seats', list'))
  <2>1. RestOf(w)' = Rest(k, seats', list')
    BY <1>2, RestIs
  <2>2. k.session = c => Serves(w, c)'
    BY <1>2 DEF Serves
  <2> QED BY <1>2, <1>7, <2>1, <2>2, ServedViewsNext
<1>14. k.session = Null => AskedOf(c)' = Null /\ TellsOf(c)' = TellsFor(l, l.got \o r)
  <2>1. SUFFICES ASSUME k.session = Null
                 PROVE  AskedOf(c)' = Null /\ TellsOf(c)' = TellsFor(l, l.got \o r)
    OBVIOUS
  <2>2. ~IsServed(c)' /\ q = <<>>
    BY <1>6, <2>1 DEF Alone
  <2>3. AskedFor(<<>>) = Null
    BY DEF AskedFor, Complete
  <2> QED BY <1>2, <1>5, <2>2, <2>3, UnservedViewsNext
<1> QED BY <1>4, <1>5, <1>8, <1>9, <1>10, <1>11, <1>12, <1>13, <1>14

\* A step of a client that no worker serves: it does not write.
LEMMA LonelyStep ==
  ASSUME Inv, NEW c \in Clients, ~IsServed(c), NEW l \in Callers, NEW r \in Seq(Items),
         client' = [client EXCEPT ![c] = l], res' = [res EXCEPT ![c] = r],
         Len(r) <= PipeSize,
         UNCHANGED <<list, seats, worker, req, asks, up>>,
         Calm(l, r), Alone(l, req[c], r)
  PROVE  /\ WorkerTypes' /\ ClientTypes' /\ Talks'
         /\ \A d \in Clients : IsServed(d)' <=> IsServed(d)
         /\ OthersKept(c)
         /\ PhaseOf(c)' = PhaseFor(l)
         /\ AskedOf(c) = Null /\ AskedOf(c)' = Null
         /\ TellsOf(c) = TellsFor(client[c], client[c].got \o res[c])
         /\ TellsOf(c)' = TellsFor(l, l.got \o r)
<1>1. /\ client \in [Clients -> Callers]
      /\ req \in [Clients -> Seq(Pieces)] /\ res \in [Clients -> Seq(Items)]
  BY DEF Inv, Types, ClientTypes
<1>2. /\ client'[c] = l /\ res'[c] = r
      /\ \A d \in Clients \ {c} : client'[d] = client[d] /\ res'[d] = res[d]
  BY <1>1
<1>3. WorkerTypes'
  BY DEF WorkerTypes, Inv, Types, Serves
<1>4. ClientTypes'
  <2>1. client' \in [Clients -> Callers] /\ res' \in [Clients -> Seq(Items)]
    BY <1>1
  <2>2. \A d \in Clients : Len(res'[d]) <= PipeSize
    BY <1>2 DEF Inv, Types, ClientTypes
  <2> QED BY <2>1, <2>2 DEF ClientTypes, Inv, Types
<1>5. /\ \A v \in Workers, d \in Clients : Serves(v, d)' <=> Serves(v, d)
      /\ \A d \in Clients : IsServed(d)' <=> IsServed(d)
      /\ \A v \in Workers : ~Serves(v, c)
      /\ \A v \in Workers : RestOf(v)' = RestOf(v)
  BY RestIs DEF Serves, IsServed
<1>6. Talks'
  <2>1. CalmOK'
    BY <1>2 DEF CalmOK, Inv, Talks
  <2>2. AloneOK'
    <3> SUFFICES ASSUME NEW d \in Clients, ~IsServed(d)'
                 PROVE  Alone(client'[d], req'[d], res'[d])
      BY Zenon DEF AloneOK, Alone, Prompt, Whole
    <3>1. CASE d = c
      BY <1>2, <3>1
    <3>2. CASE d # c
      BY <1>2, <1>5, <3>2 DEF Inv, Talks, AloneOK
    <3> QED BY <3>1, <3>2
  <2>3. SessionOK'
    <3> SUFFICES ASSUME NEW v \in Workers, NEW d \in Clients, Serves(v, d)'
                 PROVE  Session(v, worker'[v], client'[d], worker'[v].read \o req'[d],
                                res'[d], RestOf(v)')
      BY Zenon DEF SessionOK, Session, ReadOK, Form, Prompt, Whole, Request, Complete
    <3>1. d # c /\ Serves(v, d)
      BY <1>5
    <3> QED BY <1>2, <1>5, <3>1 DEF Inv, Talks, SessionOK
  <2>4. SessionsDiffer'
    BY DEF SessionsDiffer, Serves, Inv, Talks
  <2> QED BY <2>1, <2>2, <2>3, <2>4 DEF Talks
<1>8. OthersKept(c)
  <2> SUFFICES ASSUME NEW d \in Clients \ {c}
               PROVE  PhaseOf(d)' = PhaseOf(d) /\ AskedOf(d)' = AskedOf(d) /\ TellsOf(d)' = TellsOf(d)
    BY DEF OthersKept
  <2> QED BY <1>2, <1>4, <1>5, <1>6, ViewsKept DEF Inv, Types, Talks
<1>9. req[c] = <<>> /\ AskedFor(<<>>) = Null
  BY DEF Inv, Talks, AloneOK, Alone, AskedFor, Complete
<1>10. /\ AskedOf(c) = Null /\ AskedOf(c)' = Null
       /\ TellsOf(c) = TellsFor(client[c], client[c].got \o res[c])
       /\ TellsOf(c)' = TellsFor(l, l.got \o r)
  BY <1>2, <1>4, <1>5, <1>9, UnservedViews, UnservedViewsNext DEF Inv, Types
<1>11. PhaseOf(c)' = PhaseFor(l)
  BY <1>2 DEF PhaseOf, PhaseFor
<1> QED BY <1>3, <1>4, <1>5, <1>6, <1>8, <1>10, <1>11

\* A step that is of no session, of no client and of no event
LEMMA QuietStep ==
  ASSUME Inv, UNCHANGED <<list, seats, worker, client, asks, req, res>>
  PROVE  /\ ClientTypes' /\ Talks' /\ \A c \in Clients : IsServed(c)' <=> IsServed(c)
         /\ UNCHANGED <<phases, askeds, answers>>
<1>1. /\ \A v \in Workers : RestOf(v)' = RestOf(v)
      /\ \A v \in Workers, c \in Clients : Serves(v, c)' <=> Serves(v, c)
      /\ \A c \in Clients : IsServed(c)' <=> IsServed(c)
  BY RestIs DEF Serves, IsServed
<1>2. ClientTypes'
  BY DEF Inv, Types, ClientTypes
<1>3. Talks'
  <2>1. CalmOK' /\ AloneOK' /\ SessionsDiffer'
    BY <1>1 DEF Inv, Talks, CalmOK, AloneOK, SessionsDiffer, Serves
  <2>2. SessionOK'
    <3> SUFFICES ASSUME NEW v \in Workers, NEW d \in Clients, Serves(v, d)'
                 PROVE  Session(v, worker'[v], client'[d], worker'[v].read \o req'[d],
                                res'[d], RestOf(v)')
      BY Zenon DEF SessionOK, Session, ReadOK, Form, Prompt, Whole, Request, Complete
    <3> QED BY <1>1, SMTT(30) DEF Inv, Talks, SessionOK
  <2> QED BY <2>1, <2>2 DEF Talks
<1>4. \A d \in Clients :
        PhaseOf(d)' = PhaseOf(d) /\ AskedOf(d)' = AskedOf(d) /\ TellsOf(d)' = TellsOf(d)
  BY <1>1, <1>2, <1>3, ViewsKept DEF Inv, Types, Talks
<1> QED BY <1>1, <1>2, <1>3, <1>4 DEF phases, askeds, answers

\* The locks, when worker w moves between places that need none
LEMMA LocksStay ==
  ASSUME Inv, NEW w \in Workers, worker[w].pc \notin {"show", "list"},
         worker'[w].pc \notin {"show", "list"},
         \A v \in Workers \ {w} : worker'[v] = worker[v],
         UNCHANGED lockVars, list' = list \/ readers = {},
         host'.pc = "event" <=> host.pc = "event"
  PROVE  LocksOK'
<1>1. /\ mutex' = mutex /\ readers' = readers /\ mutex \in [Events -> Workers \cup {Null}]
  BY DEF lockVars, Inv, Types, EventTypes
<1>2. \A v \in Workers : worker'[v].pc = "show" =>
        /\ worker'[v].event \in Events /\ mutex[worker'[v].event] = v
        /\ worker'[v].next \in 1 .. Seats + 2
  BY DEF Inv, LocksOK
<1>3. \A v \in Workers : worker'[v].pc = "list" => worker'[v].next \in 1 .. Len(list') + 3
  BY DEF Inv, LocksOK
<1>4. \A e \in Events : mutex[e] # Null =>
        worker'[mutex[e]].pc = "show" /\ worker'[mutex[e]].event = e
  <2> SUFFICES ASSUME NEW e \in Events, mutex[e] # Null
               PROVE  worker'[mutex[e]].pc = "show" /\ worker'[mutex[e]].event = e
    OBVIOUS
  <2>1. mutex[e] \in Workers /\ worker[mutex[e]].pc = "show" /\ worker[mutex[e]].event = e
    BY <1>1 DEF Inv, LocksOK
  <2> QED BY <2>1
<1>5. \A v \in Workers : v \in readers <=> worker'[v].pc = "list"
  BY DEF Inv, LocksOK
<1> QED BY <1>1, <1>2, <1>3, <1>4, <1>5 DEF LocksOK, Inv

\* What the other workers have still to write stays, if nobody holds what changes.
LEMMA RestKept ==
  ASSUME Inv, NEW w \in Workers, \A v \in Workers \ {w} : worker'[v] = worker[v],
         NEW e \in Events, list' = list \/ readers = {},
         \A f \in Events \ {e} : seats'[f] = seats[f],
         seats' = seats \/ mutex[e] = Null
  PROVE  \A v \in Workers \ {w} : RestOf(v)' = RestOf(v)
<1> SUFFICES ASSUME NEW v \in Workers \ {w}
             PROVE  RestOf(v)' = RestOf(v)
  OBVIOUS
<1>1. RestOf(v)' = Rest(worker[v], seats', list') /\ RestOf(v) = Rest(worker[v], seats, list)
  BY RestIs
<1>2. CASE worker[v].pc = "show"
  <2>1. worker[v].event \in Events /\ mutex[worker[v].event] # Null
    BY <1>2, NamesApart DEF Inv, LocksOK
  <2>2. seats'[worker[v].event] = seats[worker[v].event]
    BY <2>1
  <2> QED BY <1>1, <1>2, <2>2 DEF Rest
<1>3. CASE worker[v].pc = "list"
  <2>1. list' = list
    BY <1>3 DEF Inv, LocksOK
  <2> QED BY <1>1, <1>3, <2>1 DEF Rest
<1>4. CASE worker[v].pc \notin {"show", "list"}
  BY <1>1, <1>4 DEF Rest
<1> QED BY <1>2, <1>3, <1>4

------------------------------------------------------------------------------
(* The mapping of a step *)

\* The variables of the service, when only client c may have moved
LEMMA Mapped ==
  ASSUME NEW c \in Clients, OthersKept(c)
  PROVE  /\ phases[c] = PhaseOf(c) /\ askeds[c] = AskedOf(c) /\ answers[c] = TellsOf(c)
         /\ phases' = [phases EXCEPT ![c] = PhaseOf(c)']
         /\ askeds' = [askeds EXCEPT ![c] = AskedOf(c)']
         /\ answers' = [answers EXCEPT ![c] = TellsOf(c)']
         /\ askeds'[c] = AskedOf(c)'
         /\ PhaseOf(c)' = PhaseOf(c) => phases' = phases
         /\ AskedOf(c)' = AskedOf(c) => askeds' = askeds
         /\ TellsOf(c)' = TellsOf(c) => answers' = answers
<1>1. phases' = [phases EXCEPT ![c] = PhaseOf(c)'] /\ phases[c] = PhaseOf(c)
  BY DEF OthersKept, phases
<1>2. askeds' = [askeds EXCEPT ![c] = AskedOf(c)'] /\ askeds[c] = AskedOf(c) /\ askeds'[c] = AskedOf(c)'
  BY DEF OthersKept, askeds
<1>3. answers' = [answers EXCEPT ![c] = TellsOf(c)'] /\ answers[c] = TellsOf(c)
  BY DEF OthersKept, answers
<1>4. PhaseOf(c)' = PhaseOf(c) => phases' = phases
  BY DEF OthersKept, phases
<1>5. AskedOf(c)' = AskedOf(c) => askeds' = askeds
  BY DEF OthersKept, askeds
<1>6. TellsOf(c)' = TellsOf(c) => answers' = answers
  BY DEF OthersKept, answers
<1> QED BY <1>1, <1>2, <1>3, <1>4, <1>5, <1>6

\* A step that changes nothing the service has
LEMMA Unseen ==
  ASSUME NEW c \in Clients, OthersKept(c), PhaseOf(c)' = PhaseOf(c), AskedOf(c)' = AskedOf(c),
         TellsOf(c)' = TellsOf(c), UNCHANGED <<emsVars, up>>
  PROVE  [Service!Next]_(Service!vars)
BY Mapped DEF emsVars, Service!vars

\* A client that connects
LEMMA Connects ==
  ASSUME NEW c \in Clients, OthersKept(c), PhaseOf(c) = "new", PhaseOf(c)' = "in",
         AskedOf(c)' = AskedOf(c), TellsOf(c)' = TellsOf(c), UNCHANGED <<emsVars, up>>
  PROVE  [Service!Next]_(Service!vars)
<1>1. Service!Connect(c)
  BY Mapped DEF Service!Connect, Service!state, emsVars
<1> QED BY <1>1 DEF Service!Next

\* A client that asks
LEMMA AsksOne ==
  ASSUME NEW c \in Clients, OthersKept(c), up, PhaseOf(c) = "in", PhaseOf(c)' = "in",
         AskedOf(c) = Null, AskedOf(c)' \in Requests, TellsOf(c) = <<>>, TellsOf(c)' = <<>>,
         UNCHANGED <<emsVars, up>>
  PROVE  [Service!Next]_(Service!vars)
<1>1. Service!Ask(c)
  BY Mapped DEF Service!Ask, Service!state, emsVars, Requests
<1> QED BY <1>1 DEF Service!Next

\* A client that has its answer
LEMMA Receives ==
  ASSUME NEW c \in Clients, OthersKept(c), PhaseOf(c)' = PhaseOf(c), AskedOf(c)' = AskedOf(c),
         TellsOf(c) # <<>>, TellsOf(c)' = <<>>, UNCHANGED <<emsVars, up>>
  PROVE  [Service!Next]_(Service!vars)
<1>1. Service!Receive(c)
  BY Mapped DEF Service!Receive, Service!state, emsVars
<1> QED BY <1>1 DEF Service!Next

\* A client that goes
LEMMA Leaves ==
  ASSUME NEW c \in Clients, OthersKept(c), PhaseOf(c) # "gone", PhaseOf(c)' = "gone",
         AskedOf(c)' = AskedOf(c), TellsOf(c)' = <<>>, UNCHANGED <<emsVars, up>>
  PROVE  [Service!Next]_(Service!vars)
<1>1. Service!Leave(c)
  BY Mapped DEF Service!Leave, Service!state, emsVars
<1> QED BY <1>1 DEF Service!Next

------------------------------------------------------------------------------
(* Steps of a client *)

\* What the invariant says of a session
LEMMA SessionFacts ==
  ASSUME Inv, NEW w \in Workers, NEW c \in Clients, Serves(w, c)
  PROVE  /\ Session(w, worker[w], client[c], worker[w].read \o req[c], res[c], RestOf(w))
         /\ Calm(client[c], res[c])
         /\ worker[w] \in Servers /\ worker[w].session = c
         /\ worker[w].pc \notin {"start", "fetch", "gone"} /\ up
         /\ client[c] \in Callers /\ req[c] \in Seq(Pieces) /\ res[c] \in Seq(Items)
         /\ worker[w].read \in Seq(Pieces) /\ client[c].got \in Seq(Items)
         /\ RestOf(w) \in Seq(Items) /\ (client[c].got \o res[c]) \in Seq(Items)
         /\ Len(res[c]) <= PipeSize
<1>1. /\ worker[w] \in Servers /\ worker[w].session = c
      /\ worker[w].pc \notin {"start", "fetch", "gone"} /\ up
      /\ client[c] \in Callers /\ req[c] \in Seq(Pieces) /\ res[c] \in Seq(Items)
      /\ Len(res[c]) <= PipeSize
  BY NamesApart DEF Inv, Types, WorkerTypes, ClientTypes, Serves
<1>2. worker[w].read \in Seq(Pieces) /\ client[c].got \in Seq(Items) /\ worker[w].out \in Seq(Items)
  BY <1>1 DEF Servers, Callers
<1>3. RestOf(w) \in Seq(Items)
  <2>1. CASE worker[w].pc = "show"
    <3>1. worker[w].event \in Events /\ worker[w].next \in 1 .. Seats + 2
      BY <2>1 DEF Inv, LocksOK
    <3>2. Rest(worker[w], seats, list) \in Seq(Items)
      BY <2>1, <3>1, RestShow DEF Inv, Types, EventTypes
    <3> QED BY <3>2, RestIs
  <2>2. CASE worker[w].pc = "list"
    <3>1. worker[w].next \in 1 .. Len(list) + 3
      BY <2>2 DEF Inv, LocksOK
    <3>2. Rest(worker[w], seats, list) \in Seq(Items)
      BY <2>2, <3>1, RestList DEF Inv, Types, EventTypes
    <3> QED BY <3>2, RestIs
  <2>3. CASE worker[w].pc \notin {"show", "list"}
    BY <1>2, <2>3, EmptySeq DEF RestOf
  <2> QED BY <2>1, <2>2, <2>3
<1>4. (client[c].got \o res[c]) \in Seq(Items)
  BY <1>1, <1>2, ConcatProperties
<1> QED BY <1>1, <1>2, <1>3, <1>4 DEF Inv, Talks, CalmOK, SessionOK

\* What it says of a client without one
LEMMA LonelyFacts ==
  ASSUME Inv, NEW c \in Clients, ~IsServed(c)
  PROVE  /\ Alone(client[c], req[c], res[c]) /\ Calm(client[c], res[c])
         /\ client[c] \in Callers /\ req[c] \in Seq(Pieces) /\ res[c] \in Seq(Items)
         /\ client[c].got \in Seq(Items) /\ Len(res[c]) <= PipeSize
BY DEF Inv, Types, ClientTypes, Talks, CalmOK, AloneOK, Callers

\* A client of worker w moves, and the worker does not.
ClientDoes(w, c, l, q, r) ==
  /\ l \in Callers /\ q \in Seq(Pieces) /\ r \in Seq(Items)
  /\ ClientTo(c, l, q, r) /\ Calm(l, r)
  /\ UNCHANGED <<emsVars, lockVars, hostVars, signalVars, worker>>
  /\ Session(w, worker[w], l, worker[w].read \o q, r, RestOf(w))

\* What such a step is for the service
ClientDone(w, c, l, q, r) ==
  /\ Inv' /\ OthersKept(c) /\ UNCHANGED <<emsVars, up>>
  /\ PhaseOf(c)' = PhaseFor(l)
  /\ AskedOf(c) = AskedFor(worker[w].read \o req[c])
  /\ AskedOf(c)' = AskedFor(worker[w].read \o q)
  /\ TellsOf(c) = TellsFor(client[c], (client[c].got \o res[c]) \o RestOf(w))
  /\ TellsOf(c)' = TellsFor(l, (l.got \o r) \o RestOf(w))

\* The invariant allows it.
LEMMA ClientMove ==
  ASSUME Inv, NEW w \in Workers, NEW c \in Clients, Serves(w, c),
         NEW l, NEW q, NEW r, ClientDoes(w, c, l, q, r)
  PROVE  ClientDone(w, c, l, q, r)
<1> USE DEF ClientDoes, ClientDone
<1>1. /\ worker[w] \in Servers /\ worker[w].session = c
      /\ worker[w].pc \notin {"start", "fetch", "gone"} /\ c # Null
  BY SessionFacts, NamesApart
<1>2. worker' = [worker EXCEPT ![w] = worker[w]]
  BY DEF Inv, Types, WorkerTypes
<1>3. UNCHANGED <<reg, queue, host.who, up, list, seats, emsVars>>
  BY DEF hostVars, signalVars, emsVars
<1>4. (\A v \in Workers : RestOf(v)' = RestOf(v)) /\ RestOf(w) = Rest(worker[w], seats', list')
  BY <1>3, RestIs
<1>5. WorkerTo(w, c, worker[w])
  BY <1>1, <1>2, <1>4 DEF WorkerTo
<1>6. /\ WorkerTypes' /\ ClientTypes' /\ LineOK' /\ Talks' /\ OthersKept(c)
      /\ PhaseOf(c)' = PhaseFor(l)
      /\ AskedOf(c) = AskedFor(worker[w].read \o req[c])
      /\ AskedOf(c)' = AskedFor(worker[w].read \o q)
      /\ TellsOf(c) = TellsFor(client[c], (client[c].got \o res[c]) \o RestOf(w))
      /\ TellsOf(c)' = TellsFor(l, (l.got \o r) \o RestOf(w))
  BY <1>1, <1>3, <1>4, <1>5, SessionStep
<1>7. EventTypes' /\ HostTypes'
  BY DEF Inv, Types, EventTypes, HostTypes, emsVars, lockVars, hostVars, signalVars
<1>8. LocksOK'
  BY DEF Inv, LocksOK, emsVars, lockVars, hostVars
<1> QED BY <1>3, <1>6, <1>7, <1>8 DEF Inv, Types

\* A client without a worker moves.
LonelyDoes(c, l, r) ==
  /\ l \in Callers /\ r \in Seq(Items)
  /\ client' = [client EXCEPT ![c] = l]
  /\ res' = [res EXCEPT ![c] = r] /\ Len(r) <= PipeSize
  /\ client[c].pc \notin {"openReq", "dead"} \/ l.pc = "dead"
  /\ UNCHANGED <<emsVars, lockVars, hostVars, signalVars, worker, asks, req>>
  /\ Calm(l, r) /\ Alone(l, req[c], r)

\* What such a step is for the service
LonelyDone(c, l, r) ==
  /\ Inv' /\ OthersKept(c) /\ UNCHANGED <<emsVars, up>>
  /\ PhaseOf(c)' = PhaseFor(l)
  /\ AskedOf(c) = Null /\ AskedOf(c)' = Null
  /\ TellsOf(c) = TellsFor(client[c], client[c].got \o res[c])
  /\ TellsOf(c)' = TellsFor(l, l.got \o r)

\* The invariant allows it.
LEMMA LonelyMove ==
  ASSUME Inv, NEW c \in Clients, ~IsServed(c), NEW l, NEW r, LonelyDoes(c, l, r)
  PROVE  LonelyDone(c, l, r)
<1> USE DEF LonelyDoes, LonelyDone
<1>1. UNCHANGED <<reg, queue, host.who, up, list, seats, emsVars>>
  BY DEF hostVars, signalVars, emsVars
<1>2. /\ WorkerTypes' /\ ClientTypes' /\ LineOK' /\ Talks' /\ OthersKept(c)
      /\ PhaseOf(c)' = PhaseFor(l)
      /\ AskedOf(c) = Null /\ AskedOf(c)' = Null
      /\ TellsOf(c) = TellsFor(client[c], client[c].got \o res[c])
      /\ TellsOf(c)' = TellsFor(l, l.got \o r)
  <2>1. /\ WorkerTypes' /\ ClientTypes' /\ Talks' /\ OthersKept(c)
        /\ \A d \in Clients : IsServed(d)' <=> IsServed(d)
        /\ PhaseOf(c)' = PhaseFor(l)
        /\ AskedOf(c) = Null /\ AskedOf(c)' = Null
        /\ TellsOf(c) = TellsFor(client[c], client[c].got \o res[c])
        /\ TellsOf(c)' = TellsFor(l, l.got \o r)
    BY <1>1, LonelyStep
  <2>2. LineOK'
    <3>1. Line' = Line
      BY <1>1 DEF Line
    <3>2. \A i \in DOMAIN Line : Line[i] \in Clients
      BY LineTypes DEF Inv
    <3>3. client'[c] = l /\ \A d \in Clients \ {c} : client'[d] = client[d]
      BY LonelyFacts DEF Inv, Types, ClientTypes
    <3> QED BY <2>1, <3>1, <3>2, <3>3 DEF LineOK, Inv
  <2> QED BY <2>1, <2>2
<1>3. EventTypes' /\ HostTypes'
  BY DEF Inv, Types, EventTypes, HostTypes, emsVars, lockVars, hostVars, signalVars
<1>4. LocksOK'
  BY DEF Inv, LocksOK, emsVars, lockVars, hostVars
<1> QED BY <1>1, <1>2, <1>3, <1>4 DEF Inv, Types

\* The pieces that a client writes
LEMMA Written ==
  /\ \A a : Append(<<>>, a) = <<a>>
  /\ \A a, b : Append(<<a>>, b) = <<a, b>>
  /\ \A a, b, d : Append(<<a, b>>, d) = <<a, b, d>>
<1>1. ASSUME NEW a
      PROVE  Append(<<>>, a) = <<a>>
  OBVIOUS
<1>2. ASSUME NEW a, NEW b
      PROVE  Append(<<a>>, b) = <<a, b>>
  <2>1. <<a>> \in Seq({a, b}) /\ <<a, b>> \in Seq({a, b}) /\ Len(<<a>>) = 1 /\ Len(<<a, b>>) = 2
    OBVIOUS
  <2>2. /\ Append(<<a>>, b) \in Seq({a, b}) /\ Len(Append(<<a>>, b)) = 2
        /\ Append(<<a>>, b)[1] = a /\ Append(<<a>>, b)[2] = b
    BY <2>1, AppendProperties
  <2>3. \A i \in 1 .. 2 : Append(<<a>>, b)[i] = <<a, b>>[i]
    BY <2>2
  <2> QED BY <2>1, <2>2, <2>3, SeqEqual
<1>3. ASSUME NEW a, NEW b, NEW d
      PROVE  Append(<<a, b>>, d) = <<a, b, d>>
  <2>1. /\ <<a, b>> \in Seq({a, b, d}) /\ <<a, b, d>> \in Seq({a, b, d})
        /\ Len(<<a, b>>) = 2 /\ Len(<<a, b, d>>) = 3
    OBVIOUS
  <2>2. /\ Append(<<a, b>>, d) \in Seq({a, b, d}) /\ Len(Append(<<a, b>>, d)) = 3
        /\ Append(<<a, b>>, d)[1] = a /\ Append(<<a, b>>, d)[2] = b
        /\ Append(<<a, b>>, d)[3] = d
    BY <2>1, AppendProperties
  <2>3. \A i \in 1 .. 3 : Append(<<a, b>>, d)[i] = <<a, b, d>>[i]
    BY <2>2
  <2> QED BY <2>1, <2>2, <2>3, SeqEqual
<1> QED BY <1>1, <1>2, <1>3

\* Nothing is whole, or asked, when nothing has been written.
LEMMA Nothing ==
  /\ Len(<<>>) = 0 /\ ~Complete(<<>>) /\ AskedFor(<<>>) = Null
  /\ \A op : ~Whole(<<>>, op) /\ Prompt(<<>>, op)
  /\ \A w : Form(<<>>, w)
  /\ (<<>> \o <<>>) \o <<>> = <<>> /\ <<>> \in Seq(Items) /\ <<>> \in Seq(Pieces)
  /\ \A a : \A w : ~Complete(<<a>>) /\ AskedFor(<<a>>) = Null /\ (a \in Ops => Form(<<a>>, w))
<1>1. Len(<<>>) = 0
  OBVIOUS
<1>2. \A a : Len(<<a>>) = 1 /\ <<a>>[1] = a
  OBVIOUS
<1>3. (<<>> \o <<>>) \o <<>> = <<>> /\ <<>> \in Seq(Items) /\ <<>> \in Seq(Pieces)
  OBVIOUS
<1>4. \A op : ~Whole(<<>>, op) /\ Prompt(<<>>, op)
  BY <1>1 DEF Whole, Prompt
<1> QED BY <1>1, <1>2, <1>3, <1>4 DEF Complete, AskedFor, Form

\* What comes after the last piece of a request
LEMMA Asked ==
  ASSUME NEW r \in Requests, NEW w \in Workers
  PROVE  /\ Form(<<r.op, w>>, w)
         /\ r.op = "LIST" => Complete(<<r.op, w>>) /\ Request(<<r.op, w>>) = r
         /\ r.op # "LIST" =>
              /\ ~Complete(<<r.op, w>>)
              /\ Form(<<r.op, w, [event |-> r.event, seats |-> r.seats]>>, w)
              /\ Complete(<<r.op, w, [event |-> r.event, seats |-> r.seats]>>)
              /\ Request(<<r.op, w, [event |-> r.event, seats |-> r.seats]>>) = r
<1> DEFINE a == [event |-> r.event, seats |-> r.seats]
           p == <<r.op, w>>
           t == <<r.op, w, a>>
<1>1. Len(p) = 2 /\ p[1] = r.op /\ p[2] = w
  OBVIOUS
<1>2. Len(t) = 3 /\ t[1] = r.op /\ t[2] = w /\ t[3] = a
  OBVIOUS
<1>3. /\ r.op \in Ops /\ r.op # "QUIT" /\ r = [op |-> r.op, event |-> r.event, seats |-> r.seats]
      /\ r.op = "LIST" => r = [op |-> "LIST", event |-> Null, seats |-> {}]
      /\ a.event = r.event /\ a.seats = r.seats
  BY RequestTypes
<1> HIDE DEF a, p, t
<1>4. Form(p, w)
  BY <1>1, <1>3 DEF Form
<1>5. r.op = "LIST" => Complete(p) /\ Request(p) = r
  BY <1>1, <1>3 DEF Complete, Request
<1>6. Request(t) = r /\ Complete(t)
  BY <1>2, <1>3 DEF Complete, Request
<1>7. r.op # "LIST" => ~Complete(p) /\ Form(t, w)
  BY <1>1, <1>2, <1>3, <1>6 DEF Complete, Form
<1> QED BY <1>4, <1>5, <1>6, <1>7 DEF a, p, t

\* The requests that a client makes are of the service.
LEMMA AsksAreRequests ==
  ASSUME Inv, NEW c \in Clients, asks[c] < Len(Asks[c]), NEW r \in Asks[c][asks[c] + 1]
  PROVE  r \in Requests /\ asks[c] + 1 \in Nat /\ asks[c] + 1 <= Len(Asks[c])
<1>1. Asks[c] \in Seq(SUBSET Requests) /\ asks[c] \in Nat
  BY AsksAssumption DEF Requests, Inv, Types, ClientTypes
<1>2. asks[c] + 1 \in 1 .. Len(Asks[c]) /\ Len(Asks[c]) \in Nat
  BY <1>1
<1>3. Asks[c][asks[c] + 1] \in SUBSET Requests
  BY <1>1, <1>2, ElementOfSeq
<1> QED BY <1>1, <1>2, <1>3

\* A client reads its session id.
LEMMA ReadSessionIdStep ==
  ASSUME Inv, NEW c \in Clients, ReadSessionId(c)
  PROVE  Refines
<1> DEFINE l == [client[c] EXCEPT !.pc = "idle", !.id = Head(res[c])]
           r == Tail(res[c])
<1>1. /\ client[c] \in Callers /\ client[c].pc = "ack" /\ client[c].got = <<>>
      /\ Calm(client[c], res[c]) /\ res[c] # <<>>
  BY DEF ReadSessionId, Calm, Inv, Talks, CalmOK, Types, ClientTypes
<1>2. PICK v \in Workers : res[c] = <<v>>
  BY <1>1 DEF Calm
<1>3. Head(res[c]) = v /\ r = <<>>
  BY <1>2
<1>4. l \in Callers /\ l.pc = "idle" /\ l.id = v /\ l.got = <<>>
  BY <1>1, <1>3 DEF Callers, ClientPlaces
<1>5. /\ client' = [client EXCEPT ![c] = l] /\ res' = [res EXCEPT ![c] = r]
      /\ UNCHANGED <<emsVars, lockVars, hostVars, signalVars, worker, asks, req>>
  BY DEF ReadSessionId, SetClient
<1> HIDE DEF l, r
<1>6. Calm(l, r) /\ r \in Seq(Items) /\ Len(r) <= PipeSize
  BY <1>3, <1>4, Nothing, NamesApart DEF Calm
<1>7. CASE IsServed(c)
  <2>1. PICK w \in Workers : Serves(w, c)
    BY <1>7 DEF IsServed
  <2>2. /\ Session(w, worker[w], client[c], worker[w].read \o req[c], res[c], RestOf(w))
        /\ req[c] \in Seq(Pieces)
    BY <2>1, SessionFacts
  <2>3. worker[w].pc = "op" /\ worker[w].read \o req[c] = <<>> /\ v = w
    BY <1>1, <1>2, <2>2 DEF Session
  <2>4. RestOf(w) = <<>>
    BY <2>3, RestIs, RestNone
  <2>5. ClientTo(c, l, req[c], r)
    BY <1>5, <1>6 DEF ClientTo, Inv, Types, ClientTypes
  <2>6. Session(w, worker[w], l, worker[w].read \o req[c], r, RestOf(w))
    BY <1>3, <1>4, <2>2, <2>3, <2>4 DEF Session
  <2>7. ClientDone(w, c, l, req[c], r)
    <3>1. ClientDoes(w, c, l, req[c], r)
      BY <1>4, <1>5, <1>6, <2>2, <2>5, <2>6 DEF ClientDoes
    <3> QED BY <2>1, <3>1, ClientMove
  <2>8. PhaseOf(c) = "new" /\ PhaseOf(c)' = "in" /\ TellsOf(c)' = TellsOf(c)
    BY <1>1, <1>4, <2>7 DEF ClientDone, PhaseOf, PhaseFor, TellsFor
  <2> QED BY <2>7, <2>8, Connects DEF Refines, ClientDone
<1>8. CASE ~IsServed(c)
  <2>1. LonelyDone(c, l, r)
    <3>1. Alone(l, req[c], r)
      BY <1>4, <1>8, LonelyFacts DEF Alone
    <3>2. LonelyDoes(c, l, r)
      BY <1>1, <1>4, <1>5, <1>6, <3>1 DEF LonelyDoes
    <3> QED BY <1>8, <3>2, LonelyMove
  <2>2. PhaseOf(c) = "new" /\ PhaseOf(c)' = "in" /\ TellsOf(c)' = TellsOf(c)
    BY <1>1, <1>4, <2>1 DEF LonelyDone, PhaseOf, PhaseFor, TellsFor
  <2> QED BY <2>1, <2>2, Connects DEF Refines, LonelyDone
<1> QED BY <1>7, <1>8

\* A client that writes a piece
WriteDoes(w, c, piece, l) ==
  /\ l \in Callers /\ piece \in Pieces
  /\ client' = [client EXCEPT ![c] = l]
  /\ req' = [req EXCEPT ![c] = Append(@, piece)]
  /\ UNCHANGED <<emsVars, lockVars, hostVars, signalVars, worker, res>>
  /\ asks' \in [Clients -> Nat] /\ \A d \in Clients : asks'[d] <= Len(Asks[d])
  /\ Calm(l, res[c])
  /\ Session(w, worker[w], l, Append(worker[w].read \o req[c], piece), res[c], RestOf(w))

\* What that is for the service: it adds to what it has written.
WriteDone(w, c, piece, l) ==
  /\ Inv' /\ OthersKept(c) /\ UNCHANGED <<emsVars, up>> /\ up
  /\ PhaseOf(c)' = PhaseFor(l)
  /\ AskedOf(c) = AskedFor(worker[w].read \o req[c])
  /\ AskedOf(c)' = AskedFor(Append(worker[w].read \o req[c], piece))
  /\ TellsOf(c) = TellsFor(client[c], (client[c].got \o res[c]) \o RestOf(w))
  /\ TellsOf(c)' = TellsFor(l, (l.got \o res[c]) \o RestOf(w))

\* The invariant allows it.
LEMMA WriteMove ==
  ASSUME Inv, NEW w \in Workers, NEW c \in Clients, Serves(w, c),
         NEW piece, NEW l, WriteDoes(w, c, piece, l)
  PROVE  WriteDone(w, c, piece, l)
<1> DEFINE q == Append(req[c], piece)
           r == res[c]
<1>1. /\ worker[w].read \in Seq(Pieces) /\ req[c] \in Seq(Pieces) /\ piece \in Pieces
      /\ res[c] \in Seq(Items) /\ Len(res[c]) <= PipeSize /\ up
  BY SessionFacts DEF WriteDoes
<1>2. q \in Seq(Pieces) /\ worker[w].read \o q = Append(worker[w].read \o req[c], piece)
  <2>1. q \in Seq(Pieces)
    BY <1>1, AppendProperties
  <2>2. \A x \in Pieces : \A a, b \in Seq(Pieces) : a \o Append(b, x) = Append(a \o b, x)
    BY Added
  <2> QED BY <1>1, <2>1, <2>2
<1>3. /\ req' = [req EXCEPT ![c] = q] /\ res' = [res EXCEPT ![c] = r]
  BY DEF WriteDoes, Inv, Types, ClientTypes
<1> HIDE DEF q
<1>4. ClientTo(c, l, q, r)
  BY <1>1, <1>3 DEF ClientTo, WriteDoes
<1>5. ClientDoes(w, c, l, q, r)
  BY <1>1, <1>2, <1>4 DEF ClientDoes, WriteDoes
<1>6. ClientDone(w, c, l, q, r)
  BY <1>5, ClientMove
<1> QED BY <1>1, <1>2, <1>6 DEF ClientDone, WriteDone

\* The worker of a client that writes
LEMMA WriterFacts ==
  ASSUME Inv, NEW c \in Clients, Connected(c)
  PROVE  \E w \in Workers : Serves(w, c) /\ worker[w].pc \notin {"openReq", "openRes"}
BY DEF Connected

\* A client asks: its op code says nothing yet.
LEMMA AskStep ==
  ASSUME Inv, NEW c \in Clients, Ask(c)
  PROVE  Refines
<1>1. PICK a \in Asks[c][asks[c] + 1] :
        WritePiece(c, a.op, [client[c] EXCEPT !.pc = "id", !.ask = a])
  BY DEF Ask
<1>2. PICK w \in Workers : Serves(w, c) /\ worker[w].pc \notin {"openReq", "openRes"}
  BY <1>1, WriterFacts DEF WritePiece
<1>3. a \in Requests /\ asks[c] + 1 \in Nat /\ asks[c] + 1 <= Len(Asks[c])
  BY AsksAreRequests DEF Ask
<1>4. a.op \in Ops /\ a.op \in Pieces
  BY <1>3, RequestTypes DEF Pieces
<1> DEFINE l == [client[c] EXCEPT !.pc = "id", !.ask = a]
<1>5. /\ Session(w, worker[w], client[c], worker[w].read \o req[c], res[c], RestOf(w))
      /\ Calm(client[c], res[c]) /\ client[c] \in Callers /\ client[c].pc = "idle"
  BY <1>2, SessionFacts DEF Ask
<1>6. /\ l \in Callers /\ l.pc = "id" /\ l.ask = a /\ l.got = <<>> /\ l.id = w
      /\ res[c] = <<>> /\ worker[w].read \o req[c] = <<>> /\ RestOf(w) = <<>>
  BY <1>3, <1>5 DEF Callers, ClientPlaces, Calm, Session
<1>7. client' = [client EXCEPT ![c] = l]
  BY <1>1 DEF WritePiece, SetClient
<1> HIDE DEF l
<1>8. Append(<<>>, a.op) = <<a.op>> /\ Form(<<a.op>>, w) /\ AskedFor(<<a.op>>) = Null
  BY <1>4, Written, Nothing
<1>9. WriteDoes(w, c, a.op, l)
  <2>1. Calm(l, res[c])
    BY <1>2, <1>3, <1>6 DEF Calm
  <2>2. Session(w, worker[w], l, <<a.op>>, res[c], RestOf(w))
    BY <1>2, <1>5, <1>6, <1>8 DEF Session
  <2>3. Append(worker[w].read \o req[c], a.op) = <<a.op>>
    BY <1>6, <1>8
  <2>4. asks' \in [Clients -> Nat] /\ \A d \in Clients : asks'[d] <= Len(Asks[d])
    BY <1>3 DEF Ask, Inv, Types, ClientTypes
  <2> QED BY <1>1, <1>4, <1>6, <1>7, <2>1, <2>2, <2>3, <2>4 DEF WriteDoes, WritePiece
<1>10. /\ Inv' /\ OthersKept(c) /\ UNCHANGED <<emsVars, up>>
       /\ PhaseOf(c)' = PhaseFor(l) /\ AskedOf(c)' = AskedOf(c)
       /\ TellsOf(c) = TellsFor(client[c], (client[c].got \o res[c]) \o RestOf(w))
       /\ TellsOf(c)' = TellsFor(l, (l.got \o res[c]) \o RestOf(w))
  <2>1. WriteDone(w, c, a.op, l)
    BY <1>2, <1>6, <1>8, <1>9, WriteMove
  <2> QED BY <1>2, <1>6, <1>8, <1>9, <2>1, Nothing DEF WriteDone
<1>11. PhaseOf(c)' = PhaseOf(c) /\ TellsOf(c)' = TellsOf(c)
  BY <1>5, <1>6, <1>10 DEF PhaseOf, PhaseFor, TellsFor
<1> QED BY <1>10, <1>11, Unseen DEF Refines

\* A client writes its session id: LIST has no more.
LEMMA WriteIdStep ==
  ASSUME Inv, NEW c \in Clients, WriteId(c)
  PROVE  Refines
<1>1. PICK w \in Workers : Serves(w, c) /\ worker[w].pc \notin {"openReq", "openRes"}
  BY WriterFacts DEF WriteId, WritePiece
<1> DEFINE a == client[c].ask
           l == [client[c] EXCEPT !.pc = IF a.op = "LIST" THEN "answer" ELSE "args"]
<1>2. /\ Session(w, worker[w], client[c], worker[w].read \o req[c], res[c], RestOf(w))
      /\ Calm(client[c], res[c]) /\ client[c] \in Callers /\ client[c].pc = "id"
  BY <1>1, SessionFacts DEF WriteId
<1>3. /\ l \in Callers /\ l.pc = (IF a.op = "LIST" THEN "answer" ELSE "args")
      /\ l.ask = a /\ l.got = <<>> /\ l.id = w /\ client[c].id = w
      /\ res[c] = <<>> /\ worker[w].read \o req[c] = <<a.op>> /\ RestOf(w) = <<>>
      /\ a \in Requests
  BY <1>2 DEF Callers, ClientPlaces, Calm, Session
<1>4. client' = [client EXCEPT ![c] = l]
  BY DEF WriteId, WritePiece, SetClient
<1> HIDE DEF l, a
<1>5. /\ Append(<<a.op>>, w) = <<a.op, w>> /\ Form(<<a.op, w>>, w) /\ AskedFor(<<a.op>>) = Null
      /\ a.op = "LIST" => Complete(<<a.op, w>>) /\ Request(<<a.op, w>>) = a
      /\ a.op # "LIST" => ~Complete(<<a.op, w>>)
  <2>1. Append(<<a.op>>, w) = <<a.op, w>> /\ AskedFor(<<a.op>>) = Null
    BY Written, Nothing
  <2> QED BY <1>3, <2>1, Asked
<1>6. (l.got \o res[c]) \o RestOf(w) = <<>> /\ ~Whole(<<>>, a.op) /\ Prompt(<<>>, a.op)
  BY <1>3, Nothing
<1>7. WriteDoes(w, c, w, l)
  <2>1. Calm(l, res[c])
    BY <1>1, <1>3 DEF Calm
  <2>2. Session(w, worker[w], l, <<a.op, w>>, res[c], RestOf(w))
    BY <1>1, <1>2, <1>3, <1>5, <1>6 DEF Session
  <2>3. Append(worker[w].read \o req[c], w) = <<a.op, w>>
    BY <1>3, <1>5
  <2>4. w \in Pieces
    BY DEF Pieces
  <2>5. req' = [req EXCEPT ![c] = Append(@, w)]
    BY <1>3 DEF WriteId, WritePiece
  <2> QED BY <1>3, <1>4, <2>1, <2>2, <2>3, <2>4, <2>5
          DEF WriteDoes, WriteId, WritePiece, Inv, Types, ClientTypes
<1>8. /\ Inv' /\ OthersKept(c) /\ UNCHANGED <<emsVars, up>> /\ up
      /\ PhaseOf(c)' = PhaseFor(l) /\ AskedOf(c) = Null /\ AskedOf(c)' = AskedFor(<<a.op, w>>)
      /\ TellsOf(c) = TellsFor(client[c], (client[c].got \o res[c]) \o RestOf(w))
      /\ TellsOf(c)' = TellsFor(l, <<>>)
  <2>1. WriteDone(w, c, w, l)
    BY <1>1, <1>3, <1>5, <1>6, <1>7, WriteMove
  <2> QED BY <1>1, <1>3, <1>5, <1>6, <1>7, <2>1 DEF WriteDone
<1>9. PhaseOf(c) = "in" /\ PhaseOf(c)' = "in" /\ TellsOf(c) = <<>> /\ TellsOf(c)' = <<>>
  BY <1>2, <1>3, <1>8 DEF PhaseOf, PhaseFor, TellsFor
<1>10. CASE a.op = "LIST"
  <2>1. AskedOf(c)' \in Requests
    BY <1>3, <1>5, <1>8, <1>10 DEF AskedFor
  <2> QED BY <1>8, <1>9, <2>1, AsksOne DEF Refines
<1>11. CASE a.op # "LIST"
  <2>1. AskedOf(c)' = AskedOf(c)
    BY <1>5, <1>8, <1>11 DEF AskedFor
  <2> QED BY <1>8, <1>9, <2>1, Unseen DEF Refines
<1> QED BY <1>10, <1>11

\* A client writes its arguments: the request is whole.
LEMMA WriteArgumentsStep ==
  ASSUME Inv, NEW c \in Clients, WriteArguments(c)
  PROVE  Refines
<1>1. PICK w \in Workers : Serves(w, c) /\ worker[w].pc \notin {"openReq", "openRes"}
  BY WriterFacts DEF WriteArguments, WritePiece
<1> DEFINE a == client[c].ask
           x == [event |-> a.event, seats |-> a.seats]
           l == [client[c] EXCEPT !.pc = "answer"]
<1>2. /\ Session(w, worker[w], client[c], worker[w].read \o req[c], res[c], RestOf(w))
      /\ Calm(client[c], res[c]) /\ client[c] \in Callers /\ client[c].pc = "args"
  BY <1>1, SessionFacts DEF WriteArguments
<1>3. /\ l \in Callers /\ l.pc = "answer" /\ l.ask = a /\ l.got = <<>> /\ l.id = w
      /\ res[c] = <<>> /\ worker[w].read \o req[c] = <<a.op, w>> /\ RestOf(w) = <<>>
      /\ a.op # "LIST" /\ a \in Requests
  BY <1>2 DEF Callers, ClientPlaces, Calm, Session
<1>4. /\ client' = [client EXCEPT ![c] = l] /\ req' = [req EXCEPT ![c] = Append(@, x)]
  BY DEF WriteArguments, WritePiece, SetClient
<1>5. x \in Pieces
  BY <1>3, RequestTypes DEF Pieces
<1>6. /\ Form(<<a.op, w, x>>, w) /\ Complete(<<a.op, w, x>>) /\ Request(<<a.op, w, x>>) = a
      /\ ~Complete(<<a.op, w>>)
  BY <1>3, Asked
<1> HIDE DEF l, x, a
<1>7. Append(<<a.op, w>>, x) = <<a.op, w, x>>
  BY Written
<1>8. (l.got \o res[c]) \o RestOf(w) = <<>> /\ ~Whole(<<>>, a.op) /\ Prompt(<<>>, a.op)
  BY <1>3, Nothing
<1>9. WriteDoes(w, c, x, l)
  <2>1. Calm(l, res[c])
    BY <1>1, <1>3 DEF Calm
  <2>2. Session(w, worker[w], l, <<a.op, w, x>>, res[c], RestOf(w))
    <3>1. <<a.op, w, x>> # <<>>
      OBVIOUS
    <3> QED BY <1>1, <1>2, <1>3, <1>6, <1>8, <3>1 DEF Session
  <2>3. Append(worker[w].read \o req[c], x) = <<a.op, w, x>>
    BY <1>3, <1>7
  <2> QED BY <1>3, <1>4, <1>5, <2>1, <2>2, <2>3
          DEF WriteDoes, WriteArguments, WritePiece, Inv, Types, ClientTypes
<1>10. /\ Inv' /\ OthersKept(c) /\ UNCHANGED <<emsVars, up>> /\ up
       /\ PhaseOf(c)' = PhaseFor(l) /\ AskedOf(c) = AskedFor(<<a.op, w>>)
       /\ AskedOf(c)' = AskedFor(<<a.op, w, x>>)
       /\ TellsOf(c) = TellsFor(client[c], (client[c].got \o res[c]) \o RestOf(w))
       /\ TellsOf(c)' = TellsFor(l, <<>>)
  <2>1. WriteDone(w, c, x, l)
    BY <1>1, <1>3, <1>7, <1>8, <1>9, WriteMove
  <2> QED BY <1>1, <1>3, <1>7, <1>8, <1>9, <2>1 DEF WriteDone
<1>11. PhaseOf(c) = "in" /\ PhaseOf(c)' = "in" /\ TellsOf(c) = <<>> /\ TellsOf(c)' = <<>>
  BY <1>2, <1>3, <1>8, <1>10 DEF PhaseOf, PhaseFor, TellsFor
<1>12. AskedOf(c) = Null /\ AskedOf(c)' \in Requests
  BY <1>3, <1>6, <1>10 DEF AskedFor
<1> QED BY <1>10, <1>11, <1>12, AsksOne DEF Refines

\* A client says that it quits.
LEMMA QuitStep ==
  ASSUME Inv, NEW c \in Clients, Quit(c)
  PROVE  Refines
<1>1. PICK w \in Workers : Serves(w, c) /\ worker[w].pc \notin {"openReq", "openRes"}
  BY WriterFacts DEF Quit, WritePiece
<1> DEFINE l == [client[c] EXCEPT !.pc = "quit"]
<1>2. /\ Session(w, worker[w], client[c], worker[w].read \o req[c], res[c], RestOf(w))
      /\ Calm(client[c], res[c]) /\ client[c] \in Callers /\ client[c].pc = "idle"
  BY <1>1, SessionFacts DEF Quit
<1>3. /\ l \in Callers /\ l.pc = "quit" /\ l.got = <<>> /\ l.id = w
      /\ res[c] = <<>> /\ worker[w].read \o req[c] = <<>> /\ RestOf(w) = <<>>
  BY <1>2 DEF Callers, ClientPlaces, Calm, Session
<1>4. client' = [client EXCEPT ![c] = l]
  BY DEF Quit, WritePiece, SetClient
<1> HIDE DEF l
<1>5. /\ Append(<<>>, "QUIT") = <<"QUIT">> /\ Form(<<"QUIT">>, w) /\ AskedFor(<<"QUIT">>) = Null
  BY Written, Nothing DEF Ops
<1>6. WriteDoes(w, c, "QUIT", l)
  <2>1. Calm(l, res[c])
    BY <1>1, <1>3 DEF Calm
  <2>2. Session(w, worker[w], l, <<"QUIT">>, res[c], RestOf(w))
    BY <1>1, <1>2, <1>3, <1>5 DEF Session
  <2>3. Append(worker[w].read \o req[c], "QUIT") = <<"QUIT">> /\ "QUIT" \in Pieces
    BY <1>3, <1>5 DEF Pieces, Ops
  <2> QED BY <1>3, <1>4, <2>1, <2>2, <2>3
          DEF WriteDoes, Quit, WritePiece, Inv, Types, ClientTypes
<1>7. /\ Inv' /\ OthersKept(c) /\ UNCHANGED <<emsVars, up>>
      /\ PhaseOf(c)' = PhaseFor(l) /\ AskedOf(c)' = AskedOf(c)
      /\ TellsOf(c) = TellsFor(client[c], (client[c].got \o res[c]) \o RestOf(w))
      /\ TellsOf(c)' = TellsFor(l, (l.got \o res[c]) \o RestOf(w))
  <2>1. WriteDone(w, c, "QUIT", l)
    BY <1>1, <1>3, <1>5, <1>6, WriteMove
  <2> QED BY <1>1, <1>3, <1>5, <1>6, <2>1, Nothing DEF WriteDone
<1>8. PhaseOf(c)' = PhaseOf(c) /\ TellsOf(c)' = TellsOf(c)
  BY <1>2, <1>3, <1>7 DEF PhaseOf, PhaseFor, TellsFor
<1> QED BY <1>7, <1>8, Unseen DEF Refines

\* A client reads an item of its answer, which moves from the pipe to what it has.
LEMMA ReadAnswerStep ==
  ASSUME Inv, NEW c \in Clients, ReadAnswer(c)
  PROVE  Refines
<1> DEFINE a == client[c].ask
           got == Append(client[c].got, Head(res[c]))
           l == IF Whole(got, a.op)
                THEN [client[c] EXCEPT !.pc = "idle", !.ask = Null, !.got = <<>>]
                ELSE [client[c] EXCEPT !.got = got]
           r == Tail(res[c])
<1>1. /\ client[c] \in Callers /\ client[c].pc = "answer" /\ client[c].got \in Seq(Items)
      /\ Calm(client[c], res[c]) /\ res[c] # <<>> /\ res[c] \in Seq(Items)
      /\ Len(res[c]) <= PipeSize /\ a \in Requests /\ client[c].id \in Workers
  BY DEF ReadAnswer, Calm, Inv, Talks, CalmOK, Types, ClientTypes, Callers
<1>2. /\ got \in Seq(Items) /\ r \in Seq(Items) /\ Len(r) = Len(res[c]) - 1
      /\ got \o r = client[c].got \o res[c]
  <2>1. Head(res[c]) \in Items /\ r \in Seq(Items) /\ Len(r) = Len(res[c]) - 1
    BY <1>1, HeadTailProperties
  <2>2. \A g, b \in Seq(Items) : b # <<>> => Append(g, Head(b)) \o Tail(b) = g \o b
    BY Moved
  <2> QED BY <1>1, <2>1, <2>2, AppendProperties
<1>3. Len(res[c]) \in Nat /\ Len(r) <= PipeSize
  BY <1>1, <1>2, NamesApart
<1>4. /\ client' = [client EXCEPT ![c] = l] /\ res' = [res EXCEPT ![c] = r]
      /\ UNCHANGED <<emsVars, lockVars, hostVars, signalVars, worker, asks, req>>
  BY DEF ReadAnswer, SetClient
<1> HIDE DEF got, r
<1>5. /\ l \in Callers /\ l.id = client[c].id
      /\ Whole(got, a.op) => l.pc = "idle" /\ l.got = <<>>
      /\ ~Whole(got, a.op) => l.pc = "answer" /\ l.got = got /\ l.ask = a
  <2>1. CASE Whole(got, a.op)
    BY <1>1, <2>1, Nothing DEF Callers, ClientPlaces
  <2>2. CASE ~Whole(got, a.op)
    BY <1>1, <1>2, <2>2 DEF Callers, ClientPlaces
  <2> QED BY <2>1, <2>2
<1> HIDE DEF l, a
<1>6. CASE IsServed(c)
  <2>1. PICK w \in Workers : Serves(w, c)
    BY <1>6 DEF IsServed
  <2> DEFINE p == worker[w].read \o req[c]
             t == RestOf(w)
             all == (client[c].got \o res[c]) \o t
  <2>2. /\ Session(w, worker[w], client[c], p, res[c], t) /\ req[c] \in Seq(Pieces)
        /\ t \in Seq(Items)
    BY <2>1, SessionFacts
  <2> HIDE DEF p, t
  <2>3. client[c].got \o res[c] # <<>> /\ client[c].got \o res[c] \in Seq(Items)
    BY <1>1, ConcatProperties, ConcatEqualIffEmpty
  <2>4. all # <<>>
    BY <2>2, <2>3, ConcatEqualIffEmpty
  <2>5. p = <<>> /\ Whole(all, a.op) /\ Prompt(all, a.op) /\ client[c].id = w
    BY <1>1, <2>2, <2>4 DEF Session, a
  <2>6. all = (got \o r) \o t
    BY <1>2
  <2>7. ASSUME Whole(got, a.op)
        PROVE  r = <<>> /\ t = <<>>
    <3>1. all = got \o (r \o t) /\ r \o t \in Seq(Items)
      <4>1. (got \o r) \o t = got \o (r \o t)
        <5>1. \A x, y, z \in Seq(Items) : (x \o y) \o z = x \o (y \o z)
          BY ConcatAssociative
        <5> QED BY <1>2, <2>2, <5>1
      <4>2. r \o t \in Seq(Items)
        BY <1>2, <2>2, ConcatProperties
      <4> QED BY <2>6, <4>1, <4>2
    <3>2. r \o t = <<>>
      BY <1>2, <2>5, <2>7, <3>1, PromptWhole
    <3> QED BY <1>2, <2>2, <3>2, ConcatEqualIffEmpty
  <2>8. TellsFor(client[c], all) # <<>>
    BY <1>1, <2>4, <2>5 DEF TellsFor, a
  <2>9. Calm(l, r)
    BY <1>1, <1>5, <2>7 DEF Calm
  <2>10. Session(w, worker[w], l, p, r, t)
    <3>1. CASE Whole(got, a.op)
      BY <1>1, <1>5, <2>2, <2>5, <2>7, <3>1 DEF Session
    <3>2. CASE ~Whole(got, a.op)
      BY <1>1, <1>5, <2>2, <2>5, <2>6, <3>2 DEF Session
    <3> QED BY <3>1, <3>2
  <2>11. ClientDone(w, c, l, req[c], r)
    <3>1. ClientTo(c, l, req[c], r)
      BY <1>3, <1>4 DEF ClientTo, Inv, Types, ClientTypes
    <3>2. ClientDoes(w, c, l, req[c], r)
      BY <1>2, <1>4, <1>5, <2>2, <2>9, <2>10, <3>1 DEF ClientDoes, p, t
    <3> QED BY <2>1, <3>2, ClientMove
  <2>12. /\ PhaseOf(c) = "in" /\ PhaseOf(c)' = "in" /\ AskedOf(c)' = AskedOf(c)
         /\ TellsOf(c) = TellsFor(client[c], all) /\ TellsOf(c)' = TellsFor(l, (l.got \o r) \o t)
    BY <1>1, <1>5, <2>11 DEF ClientDone, PhaseOf, PhaseFor, t
  <2>13. CASE Whole(got, a.op)
    <3>1. TellsOf(c)' = <<>>
      BY <1>5, <2>12, <2>13 DEF TellsFor
    <3> QED BY <2>8, <2>11, <2>12, <3>1, Receives DEF Refines, ClientDone
  <2>14. CASE ~Whole(got, a.op)
    <3>1. TellsOf(c)' = TellsOf(c)
      BY <1>1, <1>5, <2>6, <2>12, <2>14 DEF TellsFor, a
    <3> QED BY <2>11, <2>12, <3>1, Unseen DEF Refines, ClientDone
  <2> QED BY <2>13, <2>14
<1>7. CASE ~IsServed(c)
  <2> DEFINE all == client[c].got \o res[c]
  <2>1. all # <<>> /\ all = got \o r
    BY <1>1, <1>2, ConcatEqualIffEmpty
  <2>2. Prompt(all, a.op) /\ req[c] = <<>>
    BY <1>1, <1>7, LonelyFacts DEF Alone, a
  <2> HIDE DEF all
  <2>3. ASSUME Whole(got, a.op)
        PROVE  r = <<>> /\ all = got
    BY <1>2, <2>1, <2>2, <2>3, PromptWhole
  <2>4. Calm(l, r) /\ Alone(l, req[c], r)
    <3>1. CASE Whole(got, a.op)
      BY <1>1, <1>5, <2>2, <2>3, <3>1 DEF Calm, Alone
    <3>2. CASE ~Whole(got, a.op)
      BY <1>1, <1>5, <2>1, <2>2, <3>2 DEF Calm, Alone
    <3> QED BY <3>1, <3>2
  <2>5. LonelyDone(c, l, r)
    <3>1. LonelyDoes(c, l, r)
      BY <1>1, <1>2, <1>3, <1>4, <1>5, <2>4 DEF LonelyDoes
    <3> QED BY <1>7, <3>1, LonelyMove
  <2>6. /\ PhaseOf(c) = "in" /\ PhaseOf(c)' = "in" /\ AskedOf(c)' = AskedOf(c)
        /\ TellsOf(c) = TellsFor(client[c], all) /\ TellsOf(c)' = TellsFor(l, l.got \o r)
    BY <1>1, <1>5, <2>5 DEF LonelyDone, PhaseOf, PhaseFor, all
  <2>7. CASE Whole(got, a.op)
    <3>1. TellsOf(c)' = <<>> /\ TellsOf(c) # <<>>
      BY <1>1, <1>5, <2>1, <2>3, <2>6, <2>7 DEF TellsFor, a
    <3> QED BY <2>5, <2>6, <3>1, Receives DEF Refines, LonelyDone
  <2>8. CASE ~Whole(got, a.op)
    <3>1. TellsOf(c)' = TellsOf(c)
      BY <1>1, <1>5, <2>1, <2>6, <2>8 DEF TellsFor, a
    <3> QED BY <2>5, <2>6, <3>1, Unseen DEF Refines, LonelyDone
  <2> QED BY <2>7, <2>8
<1> QED BY <1>6, <1>7

\* The state of a client that has gone
LEMMA GoneClient ==
  ASSUME NEW how \in {"closed", "dead"}
  PROVE  LET l == [NewClient EXCEPT !.pc = how] IN
           /\ l \in Callers /\ l.pc = how /\ l.got = <<>> /\ Calm(l, <<>>) /\ Alone(l, <<>>, <<>>)
           /\ PhaseFor(l) = "gone" /\ \A a : TellsFor(l, a) = <<>>
<1> DEFINE l == [NewClient EXCEPT !.pc = how]
<1>1. l \in Callers /\ l.pc = how /\ l.got = <<>>
  BY Nothing DEF NewClient, Callers, ClientPlaces
<1> HIDE DEF l
<1>2. Calm(l, <<>>) /\ Alone(l, <<>>, <<>>) /\ PhaseFor(l) = "gone" /\ \A a : TellsFor(l, a) = <<>>
  BY <1>1 DEF Calm, Alone, PhaseFor, TellsFor
<1> QED BY <1>1, <1>2 DEF l

\* A client of worker w goes, and leaves q in its request pipe.
LEMMA ServedGoes ==
  ASSUME Inv, NEW w \in Workers, NEW c \in Clients, Serves(w, c), NEW how \in {"closed", "dead"},
         Gone(c, how), NEW q \in Seq(Pieces), req' = [req EXCEPT ![c] = q],
         client[c].pc \notin {"start", "closed", "dead"},
         how = "closed" => worker[w].pc \notin {"openReq", "openRes", "ack"},
         Form(worker[w].read \o q, w),
         q = req[c] \/ RestOf(w) = <<>>,
         worker[w].pc \in {"openReq", "openRes", "ack"} => q = req[c],
         AskedFor(worker[w].read \o q) = AskedFor(worker[w].read \o req[c])
  PROVE  Refines
<1> DEFINE l == [NewClient EXCEPT !.pc = how]
<1>1. /\ l \in Callers /\ l.pc = how /\ l.got = <<>> /\ Calm(l, <<>>)
      /\ PhaseFor(l) = "gone" /\ \A a : TellsFor(l, a) = <<>>
  BY GoneClient
<1>2. /\ client' = [client EXCEPT ![c] = l] /\ res' = [res EXCEPT ![c] = <<>>]
      /\ UNCHANGED <<emsVars, lockVars, hostVars, signalVars, worker, asks>>
  BY DEF Gone, SetClient
<1> HIDE DEF l
<1>3. Session(w, worker[w], client[c], worker[w].read \o req[c], res[c], RestOf(w))
  BY SessionFacts
<1>4. Session(w, worker[w], l, worker[w].read \o q, <<>>, RestOf(w))
  BY <1>1, <1>3 DEF Session
<1>5. ClientTo(c, l, q, <<>>)
  BY <1>2, NamesApart, Nothing DEF ClientTo, Inv, Types, ClientTypes
<1>6. ClientDone(w, c, l, q, <<>>)
  <2>1. ClientDoes(w, c, l, q, <<>>)
    BY <1>1, <1>2, <1>4, <1>5, Nothing DEF ClientDoes
  <2> QED BY <2>1, ClientMove
<1>7. /\ PhaseOf(c) # "gone" /\ PhaseOf(c)' = "gone" /\ AskedOf(c)' = AskedOf(c)
      /\ TellsOf(c)' = <<>>
  BY <1>1, <1>6 DEF ClientDone, PhaseOf
<1> QED BY <1>6, <1>7, Leaves DEF Refines, ClientDone

\* A client without a worker goes.
LEMMA LonelyGoes ==
  ASSUME Inv, NEW c \in Clients, ~IsServed(c), NEW how \in {"closed", "dead"},
         Gone(c, how), req' = req, client[c].pc \notin {"start", "closed", "dead"},
         how = "closed" => client[c].pc # "openReq"
  PROVE  Refines
<1> DEFINE l == [NewClient EXCEPT !.pc = how]
<1>1. /\ l \in Callers /\ l.pc = how /\ l.got = <<>> /\ Calm(l, <<>>) /\ Alone(l, <<>>, <<>>)
      /\ PhaseFor(l) = "gone" /\ \A a : TellsFor(l, a) = <<>>
  BY GoneClient
<1>2. /\ client' = [client EXCEPT ![c] = l] /\ res' = [res EXCEPT ![c] = <<>>]
      /\ UNCHANGED <<emsVars, lockVars, hostVars, signalVars, worker, asks, req>>
  BY DEF Gone, SetClient
<1> HIDE DEF l
<1>3. req[c] = <<>>
  BY LonelyFacts DEF Alone
<1>4. LonelyDone(c, l, <<>>)
  <2>1. <<>> \in Seq(Items) /\ Len(<<>>) <= PipeSize
    BY Nothing, NamesApart
  <2>2. LonelyDoes(c, l, <<>>)
    BY <1>1, <1>2, <1>3, <2>1 DEF LonelyDoes
  <2> QED BY <2>2, LonelyMove
<1>5. /\ PhaseOf(c) # "gone" /\ PhaseOf(c)' = "gone" /\ AskedOf(c)' = AskedOf(c)
      /\ TellsOf(c)' = <<>>
  BY <1>1, <1>4 DEF LonelyDone, PhaseOf
<1> QED BY <1>4, <1>5, Leaves DEF Refines, LonelyDone

\* A client that quits writes its id and goes.
LEMMA WriteQuitIdStep ==
  ASSUME Inv, NEW c \in Clients, WriteQuitId(c)
  PROVE  Refines
<1>1. PICK w \in Workers : Serves(w, c) /\ worker[w].pc \notin {"openReq", "openRes"}
  BY WriterFacts DEF WriteQuitId
<1>2. /\ Session(w, worker[w], client[c], worker[w].read \o req[c], res[c], RestOf(w))
      /\ client[c].pc = "quit" /\ req[c] \in Seq(Pieces) /\ worker[w].read \in Seq(Pieces)
  BY <1>1, SessionFacts DEF WriteQuitId
<1>3. /\ worker[w].read \o req[c] = <<"QUIT">> /\ RestOf(w) = <<>> /\ client[c].id = w
      /\ worker[w].pc # "ack"
  BY <1>2 DEF Session
<1> DEFINE q == Append(req[c], w)
<1>4. w \in Pieces /\ q \in Seq(Pieces)
  <2>1. w \in Pieces
    BY DEF Pieces
  <2> QED BY <1>2, <2>1, AppendProperties
<1>5. worker[w].read \o q = <<"QUIT", w>>
  <2>1. worker[w].read \o q = Append(worker[w].read \o req[c], w)
    <3>1. \A x \in Pieces : \A a, b \in Seq(Pieces) : a \o Append(b, x) = Append(a \o b, x)
      BY Added
    <3> QED BY <1>2, <1>4, <3>1
  <2> QED BY <1>3, <2>1, Written
<1>6. Form(<<"QUIT", w>>, w) /\ AskedFor(<<"QUIT", w>>) = Null /\ AskedFor(<<"QUIT">>) = Null
  <2>1. /\ Len(<<"QUIT", w>>) = 2 /\ <<"QUIT", w>>[1] = "QUIT" /\ <<"QUIT", w>>[2] = w
    OBVIOUS
  <2> QED BY <2>1, Nothing DEF Form, AskedFor, Complete, Ops
<1>7. Gone(c, "closed") /\ req' = [req EXCEPT ![c] = q]
  BY <1>3 DEF WriteQuitId, Inv, Types, ClientTypes
<1> HIDE DEF q
<1> QED BY <1>1, <1>2, <1>3, <1>4, <1>5, <1>6, <1>7, ServedGoes

\* A client that finds the server gone
LEMMA DisconnectedStep ==
  ASSUME Inv, NEW c \in Clients, Disconnected(c)
  PROVE  Refines
<1>1. ~IsServed(c)
  <2> SUFFICES ASSUME NEW w \in Workers, Serves(w, c)
               PROVE  FALSE
    BY DEF IsServed
  <2>1. /\ Session(w, worker[w], client[c], worker[w].read \o req[c], res[c], RestOf(w))
        /\ worker[w].pc \in {"openReq", "openRes"}
    BY SessionFacts DEF Disconnected, Connected
  <2> QED BY <2>1 DEF Session, Disconnected
<1> QED BY <1>1, LonelyGoes DEF Disconnected

\* A client that dies
LEMMA DieStep ==
  ASSUME Inv, NEW c \in Clients, Die(c)
  PROVE  Refines
<1>1. CASE IsServed(c)
  <2>1. PICK w \in Workers : Serves(w, c)
    BY <1>1 DEF IsServed
  <2>2. /\ Session(w, worker[w], client[c], worker[w].read \o req[c], res[c], RestOf(w))
        /\ req[c] \in Seq(Pieces)
    BY <2>1, SessionFacts
  <2>3. Form(worker[w].read \o req[c], w)
    BY <2>2 DEF Session
  <2>4. req' = [req EXCEPT ![c] = req[c]]
    BY DEF Die, Inv, Types, ClientTypes
  <2> QED BY <2>1, <2>2, <2>3, <2>4, ServedGoes DEF Die
<1>2. CASE ~IsServed(c)
  BY <1>2, LonelyGoes DEF Die
<1> QED BY <1>1, <1>2

\* A client registers, at the end of the line.
LEMMA RegisterStep ==
  ASSUME Inv, NEW c \in Clients, Register(c)
  PROVE  Refines
<1> DEFINE l == [client[c] EXCEPT !.pc = "openReq"]
<1>1. /\ client[c] \in Callers /\ client[c].pc = "start" /\ res[c] \in Seq(Items)
      /\ Len(res[c]) <= PipeSize /\ Calm(client[c], res[c])
  BY DEF Register, Inv, Types, ClientTypes, Talks, CalmOK
<1>2. ~IsServed(c)
  <2> SUFFICES ASSUME NEW w \in Workers, Serves(w, c)
               PROVE  FALSE
    BY DEF IsServed
  <2>1. Session(w, worker[w], client[c], worker[w].read \o req[c], res[c], RestOf(w))
    BY SessionFacts
  <2> QED BY <1>1, <2>1 DEF Session
<1>3. l \in Callers /\ l.pc = "openReq" /\ l.got = <<>> /\ res[c] = <<>> /\ client[c].got = <<>>
  BY <1>1 DEF Callers, ClientPlaces, Calm
<1>4. /\ client' = [client EXCEPT ![c] = l] /\ res' = [res EXCEPT ![c] = res[c]]
      /\ reg' = Append(reg, c)
      /\ UNCHANGED <<emsVars, lockVars, queue, host, signalVars, worker, asks, req>>
  BY DEF Register, SetClient, pipeVars, Inv, Types, ClientTypes
<1> HIDE DEF l
<1>5. UNCHANGED <<list, seats, worker, req, asks, up>>
  BY <1>4 DEF emsVars, signalVars
<1>6. Calm(l, res[c]) /\ Alone(l, req[c], res[c])
  BY <1>2, <1>3, LonelyFacts DEF Calm, Alone
<1>7. /\ WorkerTypes' /\ ClientTypes' /\ Talks' /\ OthersKept(c)
      /\ \A d \in Clients : IsServed(d)' <=> IsServed(d)
      /\ PhaseOf(c)' = PhaseFor(l) /\ AskedOf(c)' = AskedOf(c)
      /\ TellsOf(c) = TellsFor(client[c], client[c].got \o res[c])
      /\ TellsOf(c)' = TellsFor(l, l.got \o res[c])
  BY <1>1, <1>2, <1>3, <1>4, <1>5, <1>6, LonelyStep
<1>8. EventTypes' /\ HostTypes' /\ LocksOK'
  <2>1. EventTypes' /\ LocksOK'
    BY <1>4 DEF Inv, Types, EventTypes, LocksOK, emsVars, lockVars
  <2>2. reg \in Seq(Clients) /\ reg' \in Seq(Clients)
    BY <1>4, AppendProperties DEF Inv, Types, HostTypes
  <2> QED BY <1>4, <2>1, <2>2 DEF Inv, Types, HostTypes, signalVars
<1>9. LineOK'
  <2> DEFINE front == queue \o (IF host.who = Null THEN <<>> ELSE <<host.who>>)
  <2>1. front \in Seq(Clients) /\ reg \in Seq(Clients)
    <3>1. queue \in Seq(Clients) /\ (IF host.who = Null THEN <<>> ELSE <<host.who>>) \in Seq(Clients)
      BY DEF Inv, Types, HostTypes, Hosts
    <3> QED BY <3>1, ConcatProperties DEF Inv, Types, HostTypes
  <2>2. Line = front \o reg /\ Line' = front \o Append(reg, c)
    BY <1>4 DEF Line
  <2> HIDE DEF front
  <2>3. Line' = Append(Line, c)
    <3>1. \A a, b \in Seq(Clients) : a \o Append(b, c) = Append(a \o b, c)
      BY Added
    <3> QED BY <2>1, <2>2, <3>1
  <2>4. /\ Line \in Seq(Clients) /\ DOMAIN Line = 1 .. Len(Line) /\ Len(Line) \in Nat
        /\ \A i \in DOMAIN Line : Line[i] \in Clients
    BY LineTypes, LenProperties DEF Inv
  <2>5. /\ DOMAIN Line' = 1 .. Len(Line) + 1 /\ Line'[Len(Line) + 1] = c
        /\ \A i \in 1 .. Len(Line) : Line'[i] = Line[i]
    BY <2>3, <2>4, AppendProperties, LenProperties
  <2>6. \A i \in 1 .. Len(Line) :
          Line[i] # c /\ client[Line[i]].pc \in {"openReq", "dead"} /\ ~IsServed(Line[i])
    BY <1>1, <2>4 DEF Inv, LineOK
  <2>7. client'[c] = l /\ \A d \in Clients \ {c} : client'[d] = client[d]
    BY <1>4 DEF Inv, Types, ClientTypes
  <2>8. ASSUME NEW i \in DOMAIN Line'
        PROVE  (client[Line[i]].pc \in {"openReq", "dead"} /\ ~IsServed(Line[i]))'
    <3>1. CASE i = Len(Line) + 1
      <4>1. Line'[i] = c /\ \A w \in Workers : worker'[w].session # c
        BY <1>2, <1>5, <2>5, <3>1 DEF IsServed, Serves
      <4> QED BY <1>3, <2>7, <4>1 DEF IsServed, Serves
    <3>2. CASE i # Len(Line) + 1
      <4>1. i \in 1 .. Len(Line) /\ Line'[i] = Line[i] /\ Line[i] \in Clients \ {c}
        BY <2>4, <2>5, <2>6, <3>2
      <4>2. client'[Line[i]] = client[Line[i]] /\ \A w \in Workers : worker'[w].session # Line[i]
        BY <1>5, <2>6, <2>7, <4>1 DEF IsServed, Serves
      <4> QED BY <2>6, <4>1, <4>2 DEF IsServed, Serves
    <3> QED BY <3>1, <3>2
  <2>9. \A i, j \in DOMAIN Line' : i # j => Line'[i] # Line'[j]
    BY <2>4, <2>5, <2>6 DEF Inv, LineOK
  <2> QED BY <2>8, <2>9 DEF LineOK
<1>10. PhaseOf(c)' = PhaseOf(c) /\ TellsOf(c)' = TellsOf(c)
  BY <1>1, <1>3, <1>7 DEF PhaseOf, PhaseFor, TellsFor
<1>11. Inv'
  BY <1>7, <1>8, <1>9 DEF Inv, Types
<1>12. UNCHANGED <<emsVars, up>>
  BY <1>4 DEF signalVars
<1> QED BY <1>7, <1>10, <1>11, <1>12, Unseen DEF Refines

------------------------------------------------------------------------------
(* Steps of a worker *)

\* Worker w moves to k, with q and r in the pipes of its client c.
WorkerDoes(w, c, k, q, r) ==
  /\ k \in Servers /\ q \in Seq(Pieces) /\ r \in Seq(Items) /\ Len(r) <= PipeSize
  /\ worker' = [worker EXCEPT ![w] = k]
  /\ req' = [req EXCEPT ![c] = q] /\ res' = [res EXCEPT ![c] = r]
  /\ k.session \in {c, Null} /\ (k.session = Null <=> k.pc = "fetch")
  /\ k.pc \notin {"start", "gone"}
  /\ UNCHANGED <<hostVars, signalVars, client, asks>>
  /\ EventTypes' /\ LocksOK'
  /\ \A v \in Workers \ {w} : RestOf(v)' = RestOf(v)
  /\ Calm(client[c], r)
  /\ k.session = c => Session(w, k, client[c], k.read \o q, r, Rest(k, seats', list'))
  /\ k.session = Null => Alone(client[c], q, r)

\* What such a step is for the service
WorkerDone(w, c, k, q, r) ==
  /\ Inv' /\ OthersKept(c) /\ up' = up /\ PhaseOf(c)' = PhaseOf(c)
  /\ AskedOf(c) = AskedFor(worker[w].read \o req[c])
  /\ TellsOf(c) = TellsFor(client[c], (client[c].got \o res[c]) \o RestOf(w))
  /\ k.session = c =>
       /\ AskedOf(c)' = AskedFor(k.read \o q)
       /\ TellsOf(c)' = TellsFor(client[c], (client[c].got \o r) \o Rest(k, seats', list'))
  /\ k.session = Null =>
       AskedOf(c)' = Null /\ TellsOf(c)' = TellsFor(client[c], client[c].got \o r)

\* The invariant allows it.
LEMMA WorkerMove ==
  ASSUME Inv, NEW w \in Workers, NEW c \in Clients, Serves(w, c),
         NEW k, NEW q, NEW r, WorkerDoes(w, c, k, q, r)
  PROVE  WorkerDone(w, c, k, q, r)
<1> DEFINE l == client[c]
<1>1. /\ k \in Servers /\ l \in Callers /\ q \in Seq(Pieces) /\ r \in Seq(Items) /\ Calm(l, r)
      /\ k.session = c => Session(w, k, l, k.read \o q, r, Rest(k, seats', list'))
      /\ k.session = Null => Alone(l, q, r)
      /\ UNCHANGED <<reg, queue, host.who, up>>
  BY DEF WorkerDoes, hostVars, signalVars, Inv, Types, ClientTypes
<1>2. WorkerTo(w, c, k)
  BY DEF WorkerDoes, WorkerTo
<1>3. ClientTo(c, l, q, r)
  BY DEF WorkerDoes, ClientTo, Inv, Types, ClientTypes
<1>4. PhaseFor(l) = PhaseOf(c)
  BY DEF PhaseFor, PhaseOf
<1> HIDE DEF l
<1>5. /\ WorkerTypes' /\ ClientTypes' /\ LineOK' /\ Talks' /\ OthersKept(c)
      /\ PhaseOf(c)' = PhaseFor(l)
      /\ AskedOf(c) = AskedFor(worker[w].read \o req[c])
      /\ TellsOf(c) = TellsFor(client[c], (client[c].got \o res[c]) \o RestOf(w))
      /\ k.session = c =>
           /\ AskedOf(c)' = AskedFor(k.read \o q)
           /\ TellsOf(c)' = TellsFor(l, (l.got \o r) \o Rest(k, seats', list'))
      /\ k.session = Null => AskedOf(c)' = Null /\ TellsOf(c)' = TellsFor(l, l.got \o r)
  BY <1>1, <1>2, <1>3, SessionStep
<1>6. HostTypes'
  BY DEF WorkerDoes, Inv, Types, HostTypes, hostVars, signalVars
<1>7. Inv' /\ up' = up
  BY <1>1, <1>5, <1>6 DEF WorkerDoes, Inv, Types
<1> QED BY <1>4, <1>5, <1>7 DEF WorkerDone, l

\* What the others have to write when no event changes
LEMMA RestStays ==
  ASSUME NEW w \in Workers, NEW k, Inv, worker' = [worker EXCEPT ![w] = k], UNCHANGED emsVars
  PROVE  /\ \A v \in Workers \ {w} : RestOf(v)' = RestOf(v)
         /\ Rest(k, seats', list') = Rest(k, seats, list)
<1>1. \A v \in Workers \ {w} : worker'[v] = worker[v]
  BY DEF Inv, Types, WorkerTypes
<1> QED BY <1>1, RestIs DEF emsVars

\* A session ends when its client has gone and has left no whole request.
LEMMA SessionEnds ==
  ASSUME Inv, NEW w \in Workers, NEW c \in Clients, Serves(w, c),
         worker' = [worker EXCEPT ![w] = Idle], req' = [req EXCEPT ![c] = <<>>],
         UNCHANGED <<emsVars, hostVars, signalVars, client, asks, res>>,
         client[c].pc \in {"closed", "dead"},
         ~Complete(worker[w].read \o req[c]), EventTypes', LocksOK'
  PROVE  Refines
<1>1. Idle \in Servers /\ Idle.session = Null /\ Idle.pc = "fetch" /\ c # Null
  BY Nothing, NamesApart DEF Idle, Servers, WorkerPlaces
<1>2. res[c] \in Seq(Items) /\ Len(res[c]) <= PipeSize /\ res' = [res EXCEPT ![c] = res[c]]
  BY DEF Inv, Types, ClientTypes
<1>3. Calm(client[c], res[c]) /\ Alone(client[c], <<>>, res[c])
  BY DEF Inv, Talks, CalmOK, Alone
<1>4. \A v \in Workers \ {w} : RestOf(v)' = RestOf(v)
  BY RestStays
<1>5. WorkerDoes(w, c, Idle, <<>>, res[c])
  BY <1>1, <1>2, <1>3, <1>4, Nothing DEF WorkerDoes
<1>6. WorkerDone(w, c, Idle, <<>>, res[c])
  BY <1>5, WorkerMove
<1>7. /\ AskedOf(c)' = AskedOf(c) /\ TellsOf(c)' = TellsOf(c)
  BY <1>1, <1>6 DEF WorkerDone, AskedFor, TellsFor
<1> QED BY <1>6, <1>7, Unseen DEF Refines, WorkerDone

\* A worker that is not idle serves a client.
LEMMA Serving ==
  ASSUME Inv, NEW w \in Workers, worker[w].pc \notin {"start", "fetch", "gone"}
  PROVE  \E c \in Clients : Serves(w, c) /\ worker[w].session = c
BY DEF Inv, Types, WorkerTypes, Servers, Serves

\* A worker waits for what its client has not written, and reads what it has.
LEMMA ReadPieceStep ==
  ASSUME Inv, NEW w \in Workers, NEW c \in Clients, worker[w].session = c,
         NEW pc \in {"op", "id", "args"}, NEW next \in {"id", "args", "exec"},
         ReadPiece(w, pc, next),
         ReadOK([worker[w] EXCEPT !.pc = next, !.read = Append(@, Head(req[c]))]),
         UNCHANGED <<emsVars, lockVars, hostVars, signalVars, client, asks, res>>
  PROVE  Refines
<1> DEFINE k == [worker[w] EXCEPT !.pc = next, !.read = Append(@, Head(req[c]))]
           q == Tail(req[c])
<1>1. worker[w].pc = pc /\ Serves(w, c) /\ worker[w] \in Servers
  BY DEF ReadPiece, Inv, Types, WorkerTypes, Servers, Serves
<1>2. /\ Session(w, worker[w], client[c], worker[w].read \o req[c], res[c], RestOf(w))
      /\ Calm(client[c], res[c]) /\ req[c] \in Seq(Pieces) /\ res[c] \in Seq(Items)
      /\ worker[w].read \in Seq(Pieces) /\ Len(res[c]) <= PipeSize
  BY <1>1, SessionFacts
<1>3. /\ worker' = [worker EXCEPT ![w] = k] /\ req' = [req EXCEPT ![c] = q] /\ req[c] # <<>>
      /\ res' = [res EXCEPT ![c] = res[c]]
  BY DEF ReadPiece, SetWorker, Inv, Types, ClientTypes
<1>4. /\ k.pc = next /\ k.read = Append(worker[w].read, Head(req[c])) /\ k.session = c
      /\ k.read \in Seq(Pieces) => k \in Servers
  BY <1>1 DEF Servers, WorkerPlaces
<1>5. ReadOK(k)
  OBVIOUS
<1> HIDE DEF k, q
<1>6. q \in Seq(Pieces) /\ k.read \in Seq(Pieces) /\ k.read \o q = worker[w].read \o req[c]
  <2>1. \A a, b \in Seq(Pieces) : b # <<>> =>
          /\ Append(a, Head(b)) \in Seq(Pieces) /\ Tail(b) \in Seq(Pieces)
          /\ Append(a, Head(b)) \o Tail(b) = a \o b
    BY Moved
  <2>2. req[c] \in Seq(Pieces) /\ worker[w].read \in Seq(Pieces) /\ req[c] # <<>>
    BY <1>2, <1>3
  <2>3. /\ Append(worker[w].read, Head(req[c])) \in Seq(Pieces) /\ Tail(req[c]) \in Seq(Pieces)
        /\ Append(worker[w].read, Head(req[c])) \o Tail(req[c]) = worker[w].read \o req[c]
    BY <2>1, <2>2
  <2> QED BY <1>4, <2>3 DEF q
<1>7. worker[w].read \o req[c] # <<>>
  BY <1>2, <1>3, ConcatEqualIffEmpty
<1>8. RestOf(w) = <<>> /\ Rest(k, seats', list') = <<>>
  BY <1>1, <1>4, RestIs, RestNone
<1>9. Session(w, k, client[c], k.read \o q, res[c], Rest(k, seats', list'))
  BY <1>1, <1>2, <1>4, <1>5, <1>6, <1>7, <1>8 DEF Session
<1>10. EventTypes' /\ LocksOK'
  <2>1. EventTypes'
    BY DEF Inv, Types, EventTypes, emsVars, lockVars
  <2>2. worker'[w].pc = next /\ \A v \in Workers \ {w} : worker'[v] = worker[v]
    BY <1>3, <1>4 DEF Inv, Types, WorkerTypes
  <2>3. LocksOK'
    BY <1>1, <2>2, LocksStay DEF emsVars, hostVars
  <2> QED BY <2>1, <2>3
<1>11. \A v \in Workers \ {w} : RestOf(v)' = RestOf(v)
  BY <1>3, RestStays
<1>12. WorkerDoes(w, c, k, q, res[c])
  BY <1>1, <1>2, <1>3, <1>4, <1>6, <1>9, <1>10, <1>11, NamesApart DEF WorkerDoes
<1>13. WorkerDone(w, c, k, q, res[c])
  BY <1>1, <1>12, WorkerMove
<1>14. AskedOf(c)' = AskedOf(c) /\ TellsOf(c)' = TellsOf(c)
  BY <1>4, <1>6, <1>8, <1>13, Zenon DEF WorkerDone
<1>15. /\ Inv' /\ OthersKept(c) /\ PhaseOf(c)' = PhaseOf(c) /\ UNCHANGED <<emsVars, up>>
  BY <1>13 DEF WorkerDone
<1> QED BY <1>1, <1>14, <1>15, Unseen DEF Refines

\* A worker reads an op code.
LEMMA ReadOpStep ==
  ASSUME Inv, NEW w \in Workers, ReadOp(w)
  PROVE  Refines
<1>1. ReadPiece(w, "op", "id") /\ worker[w].pc = "op" /\ worker[w] \in Servers
  BY DEF ReadOp, ReadPiece, Inv, Types, WorkerTypes
<1>2. PICK c \in Clients : Serves(w, c) /\ worker[w].session = c
  BY <1>1, Serving
<1>3. worker[w].read = <<>>
  BY <1>1, <1>2, SessionFacts DEF Session, ReadOK
<1>4. Append(<<>>, Head(req[c])) = <<Head(req[c])>> /\ Len(<<Head(req[c])>>) = 1
  BY Written
<1>5. ReadOK([worker[w] EXCEPT !.pc = "id", !.read = Append(@, Head(req[c]))])
  BY <1>1, <1>3, <1>4 DEF ReadOK, Servers
<1> QED BY <1>1, <1>2, <1>5, ReadPieceStep, Zenon DEF ReadOp

\* A session that ends at a place without a lock
LEMMA PlainEnd ==
  ASSUME Inv, NEW w \in Workers, NEW c \in Clients, Serves(w, c), worker[w].session = c,
         worker[w].pc \notin {"show", "list"}, EndSession(w),
         UNCHANGED <<emsVars, lockVars, hostVars, signalVars, client, asks, res>>,
         client[c].pc \in {"closed", "dead"}, ~Complete(worker[w].read \o req[c])
  PROVE  Refines
<1>1. worker' = [worker EXCEPT ![w] = Idle] /\ req' = [req EXCEPT ![c] = <<>>]
  BY DEF EndSession, SetWorker
<1>2. worker'[w].pc = "fetch" /\ \A v \in Workers \ {w} : worker'[v] = worker[v]
  BY <1>1 DEF Inv, Types, WorkerTypes, Idle
<1>3. EventTypes'
  BY DEF Inv, Types, EventTypes, emsVars, lockVars
<1>4. LocksOK'
  BY <1>2, LocksStay DEF emsVars, hostVars
<1> QED BY <1>1, <1>3, <1>4, SessionEnds

\* A piece more
LEMMA Grown ==
  \A a \in Seq(Pieces), x \in Pieces :
    /\ Len(Append(a, x)) = Len(a) + 1 /\ Len(a) \in Nat
    /\ \A i \in 1 .. Len(a) : Append(a, x)[i] = a[i]
<1> SUFFICES ASSUME NEW a \in Seq(Pieces), NEW x \in Pieces
             PROVE  /\ Len(Append(a, x)) = Len(a) + 1 /\ Len(a) \in Nat
                    /\ \A i \in 1 .. Len(a) : Append(a, x)[i] = a[i]
  OBVIOUS
<1> QED BY AppendProperties, LenProperties

\* The first two pieces of a request, the first of which has been read
LEMMA TwoPieces ==
  ASSUME NEW a \in Seq(Pieces), NEW b \in Seq(Pieces), Len(a) = 1, b # <<>>
  PROVE  /\ (a \o b)[1] = a[1] /\ (a \o b)[2] = Head(b) /\ Len(a \o b) >= 2
         /\ Len(a \o b) \in Nat
         /\ Len(Append(a, Head(b))) = 2 /\ Append(a, Head(b))[1] = a[1]
<1>1. /\ Head(b) \in Pieces /\ Head(b) = b[1] /\ Len(b) \in Nat \ {0}
  BY HeadTailProperties, EmptySeq
<1>2. /\ Len(a \o b) = 1 + Len(b)
      /\ \A i \in 1 .. 1 + Len(b) : (a \o b)[i] = IF i <= 1 THEN a[i] ELSE b[i - 1]
  <2>1. /\ Len(a \o b) = Len(a) + Len(b)
        /\ \A i \in 1 .. Len(a) + Len(b) :
             (a \o b)[i] = IF i <= Len(a) THEN a[i] ELSE b[i - Len(a)]
    BY ConcatProperties
  <2> QED BY <2>1
<1>3. 1 \in 1 .. 1 + Len(b) /\ 2 \in 1 .. 1 + Len(b) /\ 2 - 1 = 1
  BY <1>1
<1>4. Len(Append(a, Head(b))) = 2 /\ Append(a, Head(b))[1] = a[1]
  <2>1. /\ Len(Append(a, Head(b))) = Len(a) + 1
        /\ \A i \in 1 .. Len(a) : Append(a, Head(b))[i] = a[i]
    BY <1>1, Grown
  <2> QED BY <2>1
<1> QED BY <1>1, <1>2, <1>3, <1>4

\* A worker reads the session id: it is its own, and that of QUIT ends the session.
LEMMA ReadIdStep ==
  ASSUME Inv, NEW w \in Workers, ReadId(w)
  PROVE  Refines
<1>1. worker[w].pc = "id" /\ worker[w] \in Servers
  BY DEF ReadId, Inv, Types, WorkerTypes
<1>2. PICK c \in Clients : Serves(w, c) /\ worker[w].session = c
  BY <1>1, Serving
<1> DEFINE p == worker[w].read \o req[c]
           op == worker[w].read[1]
<1>3. /\ Session(w, worker[w], client[c], p, res[c], RestOf(w)) /\ client[c] \in Callers
      /\ Calm(client[c], res[c]) /\ req[c] \in Seq(Pieces) /\ worker[w].read \in Seq(Pieces)
  BY <1>2, SessionFacts
<1>4. req[c] # <<>> /\ Len(worker[w].read) = 1 /\ Form(p, w)
  BY <1>1, <1>2, <1>3 DEF ReadId, Session, ReadOK
<1>5. /\ p[1] = op /\ p[2] = Head(req[c]) /\ Len(p) >= 2 /\ Len(p) \in Nat
      /\ Len(Append(worker[w].read, Head(req[c]))) = 2
      /\ Append(worker[w].read, Head(req[c]))[1] = op
  BY <1>3, <1>4, TwoPieces
<1> HIDE DEF p, op
<1>6. op \in Ops /\ Head(req[c]) = w
  BY <1>4, <1>5 DEF Form
<1>7. CASE op = "QUIT"
  <2>1. EndSession(w) /\ UNCHANGED <<emsVars, lockVars, hostVars, signalVars, client, asks, res>>
    BY <1>7 DEF ReadId, op
  <2>2. Len(p) = 2 /\ ~Complete(p)
    <3>1. Len(p) <= 3 /\ (Len(p) = 3 => p[1] # "QUIT")
      BY <1>4 DEF Form
    <3>2. p[1] = "QUIT" /\ Len(p) >= 2 /\ Len(p) \in Nat
      BY <1>5, <1>7
    <3>3. Len(p) # 3
      BY <3>1, <3>2, Zenon
    <3>4. \A n \in Nat : n >= 2 /\ n <= 3 /\ n # 3 => n = 2
      OBVIOUS
    <3>5. Len(p) = 2
      BY <3>1, <3>2, <3>3, <3>4
    <3> QED BY <3>2, <3>5 DEF Complete
  <2>3. client[c].pc \in {"closed", "dead"}
    <3>1. client[c].pc \notin {"start", "openReq", "openRes", "ack"}
      BY <1>1, <1>3 DEF Session
    <3>2. client[c].pc \notin {"idle", "id", "quit"}
      <4>1. p # <<>> /\ \A x : p # <<x>>
        <5>1. \A x : Len(<<x>>) = 1
          OBVIOUS
        <5> QED BY <2>2, <5>1, Nothing
      <4> QED BY <1>3, <4>1 DEF Session
    <3>3. client[c].pc # "args"
      <4>1. ASSUME client[c].pc = "args"
            PROVE  FALSE
        <5>1. p = <<client[c].ask.op, w>> /\ client[c].ask \in Requests
          BY <1>3, <4>1 DEF Session, Calm
        <5>2. p[1] # "QUIT"
          BY <5>1, RequestTypes
        <5> QED BY <1>5, <1>7, <5>2
      <4> QED BY <4>1
    <3>4. client[c].pc # "answer"
      <4>1. p # <<>>
        BY <2>2, Nothing, SMTT(30)
      <4> QED BY <1>3, <2>2, <4>1 DEF Session
    <3> QED BY <1>3, <3>1, <3>2, <3>3, <3>4 DEF Callers, ClientPlaces
  <2> QED BY <1>1, <1>2, <2>1, <2>2, <2>3, PlainEnd DEF p
<1>8. CASE op # "QUIT"
  <2> DEFINE next == IF op = "LIST" THEN "exec" ELSE "args"
  <2>1. ReadPiece(w, "id", next)
    BY <1>2, <1>6, <1>8 DEF ReadId, op
  <2>2. ReadOK([worker[w] EXCEPT !.pc = next, !.read = Append(@, Head(req[c]))])
    BY <1>1, <1>5, <1>8, SMTT(30) DEF ReadOK, Complete, Servers
  <2>3. UNCHANGED <<emsVars, lockVars, hostVars, signalVars, client, asks, res>>
    BY DEF ReadId
  <2>4. next \in {"id", "args", "exec"}
    OBVIOUS
  <2> HIDE DEF next
  <2> QED BY <1>2, <2>1, <2>2, <2>3, <2>4, ReadPieceStep, Zenon
<1> QED BY <1>7, <1>8

\* A worker reads the last piece of a request.
LEMMA ReadArgumentsStep ==
  ASSUME Inv, NEW w \in Workers, ReadArguments(w)
  PROVE  Refines
<1>1. /\ ReadPiece(w, "args", "exec") /\ worker[w].pc = "args" /\ worker[w] \in Servers
      /\ UNCHANGED <<emsVars, lockVars, hostVars, signalVars, client, asks, res>>
  BY DEF ReadArguments, ReadPiece, Inv, Types, WorkerTypes
<1>2. PICK c \in Clients : Serves(w, c) /\ worker[w].session = c
  BY <1>1, Serving
<1>3. Len(worker[w].read) = 2 /\ worker[w].read \in Seq(Pieces) /\ req[c] \in Seq(Pieces)
  BY <1>1, <1>2, SessionFacts DEF Session, ReadOK
<1>4. req[c] # <<>>
  BY <1>1, <1>2 DEF ReadPiece
<1>5. Len(Append(worker[w].read, Head(req[c]))) = 3
  <2>1. Head(req[c]) \in Pieces
    BY <1>3, <1>4, HeadTailProperties
  <2>2. Len(Append(worker[w].read, Head(req[c]))) = Len(worker[w].read) + 1
    BY <1>3, <2>1, Grown
  <2> QED BY <1>3, <2>2
<1>6. ReadOK([worker[w] EXCEPT !.pc = "exec", !.read = Append(@, Head(req[c]))])
  BY <1>1, <1>5 DEF ReadOK, Complete, Servers
<1> QED BY <1>1, <1>2, <1>6, ReadPieceStep, Zenon

\* A worker finds the end of the request pipe.
LEMMA EndOfFileStep ==
  ASSUME Inv, NEW w \in Workers, EndOfFile(w)
  PROVE  Refines
<1>1. worker[w].pc \in {"op", "id", "args"} /\ worker[w] \in Servers
  BY DEF EndOfFile, Inv, Types, WorkerTypes
<1>2. PICK c \in Clients : Serves(w, c) /\ worker[w].session = c
  BY <1>1, Serving
<1>3. /\ req[c] = <<>> /\ client[c].pc \in {"closed", "dead"} /\ EndSession(w)
      /\ UNCHANGED <<emsVars, lockVars, hostVars, signalVars, client, asks, res>>
  BY <1>2 DEF EndOfFile, Alive
<1>4. ReadOK(worker[w]) /\ worker[w].read \in Seq(Pieces)
  BY <1>2, SessionFacts DEF Session
<1>5. ~Complete(worker[w].read)
  <2>1. CASE worker[w].pc = "op"
    BY <1>4, <2>1, Nothing DEF ReadOK
  <2>2. CASE worker[w].pc # "op"
    BY <1>1, <1>4, <2>2 DEF ReadOK, Complete
  <2> QED BY <2>1, <2>2
<1>6. worker[w].read \o req[c] = worker[w].read
  BY <1>3, <1>4, ConcatEmptySeq
<1> QED BY <1>1, <1>2, <1>3, <1>5, <1>6, PlainEnd

\* A worker writes the session id.
LEMMA AcknowledgeStep ==
  ASSUME Inv, NEW w \in Workers, Acknowledge(w)
  PROVE  Refines
<1>1. /\ worker[w].pc = "ack" /\ worker[w] \in Servers
      /\ UNCHANGED <<emsVars, lockVars, hostVars, signalVars, client, asks>>
  BY DEF Acknowledge, Inv, Types, WorkerTypes
<1>2. PICK c \in Clients : Serves(w, c) /\ worker[w].session = c
  BY <1>1, Serving
<1>3. /\ Session(w, worker[w], client[c], worker[w].read \o req[c], res[c], RestOf(w))
      /\ Calm(client[c], res[c]) /\ client[c] \in Callers /\ req[c] \in Seq(Pieces)
      /\ worker[w].read \in Seq(Pieces)
  BY <1>2, SessionFacts
<1>4. client[c].pc \in {"ack", "dead"} /\ worker[w].read \o req[c] = <<>> /\ res[c] = <<>>
  BY <1>1, <1>3 DEF Session
<1>5. CASE Write(w, w) /\ SetWorker(w, [worker[w] EXCEPT !.pc = "op"]) /\ UNCHANGED req
  <2> DEFINE k == [worker[w] EXCEPT !.pc = "op"]
             r == <<w>>
  <2>1. client[c].pc = "ack" /\ Len(res[c]) < PipeSize /\ res' = [res EXCEPT ![c] = Append(@, w)]
    BY <1>2, <1>4, <1>5 DEF Write, Alive
  <2>2. r \in Seq(Items) /\ Len(r) <= PipeSize /\ res' = [res EXCEPT ![c] = r]
    <3>1. Append(<<>>, w) = r /\ Len(r) = 1 /\ w \in Items
      BY Written DEF Items
    <3>2. res' = [res EXCEPT ![c] = Append(res[c], w)]
      BY <2>1 DEF Inv, Types, ClientTypes
    <3> QED BY <1>4, <3>1, <3>2, NamesApart
  <2>3. worker' = [worker EXCEPT ![w] = k] /\ req' = [req EXCEPT ![c] = req[c]]
    BY <1>5 DEF SetWorker, Inv, Types, ClientTypes
  <2>4. k \in Servers /\ k.pc = "op" /\ k.session = c /\ k.read = worker[w].read
    BY <1>1, <1>2 DEF Servers, WorkerPlaces
  <2> HIDE DEF k
  <2>5. worker'[w].pc = "op" /\ \A v \in Workers \ {w} : worker'[v] = worker[v]
    BY <2>3, <2>4 DEF Inv, Types, WorkerTypes
  <2>6. EventTypes' /\ LocksOK'
    <3>1. EventTypes'
      BY <1>1 DEF Inv, Types, EventTypes, emsVars, lockVars
    <3>2. LocksOK'
      BY <1>1, <2>5, LocksStay DEF emsVars, hostVars
    <3> QED BY <3>1, <3>2
  <2>7. Rest(k, seats', list') = <<>> /\ \A v \in Workers \ {w} : RestOf(v)' = RestOf(v)
    BY <1>1, <2>3, <2>4, RestStays, RestNone
  <2>8. Calm(client[c], r)
    BY <1>3, <2>1 DEF Calm
  <2>9. Session(w, k, client[c], k.read \o req[c], r, Rest(k, seats', list'))
    <3>1. ReadOK(k)
      BY <1>1, <1>3, <2>4 DEF ReadOK, Session
    <3> QED BY <1>3, <1>4, <2>1, <2>4, <2>7, <3>1 DEF Session
  <2>10. WorkerDoes(w, c, k, req[c], r)
    BY <1>1, <1>3, <2>2, <2>3, <2>4, <2>6, <2>7, <2>8, <2>9, NamesApart DEF WorkerDoes
  <2>11. WorkerDone(w, c, k, req[c], r)
    BY <1>2, <2>10, WorkerMove
  <2>12. AskedOf(c)' = AskedOf(c) /\ TellsOf(c)' = TellsOf(c)
    BY <2>1, <2>4, <2>11 DEF WorkerDone, TellsFor
  <2>13. Inv' /\ OthersKept(c) /\ PhaseOf(c)' = PhaseOf(c) /\ UNCHANGED <<emsVars, up>>
    BY <1>1, <2>11 DEF WorkerDone
  <2> QED BY <2>12, <2>13, Unseen DEF Refines
<1>6. CASE Broken(w) /\ EndSession(w)
  <2>1. client[c].pc \in {"closed", "dead"} /\ UNCHANGED res
    BY <1>2, <1>6 DEF Broken, Alive
  <2> QED BY <1>1, <1>2, <1>4, <1>6, <2>1, Nothing, PlainEnd
<1> QED BY <1>5, <1>6 DEF Acknowledge

\* An item of an answer goes from what a worker has to write to the pipe.
LEMMA ItemMove ==
  ASSUME Inv, NEW w \in Workers, NEW c \in Clients, Serves(w, c), worker[w].session = c,
         worker[w].pc \in {"reply", "show", "list"}, RestOf(w) # <<>>,
         Write(w, Head(RestOf(w))), NEW k \in Servers, worker' = [worker EXCEPT ![w] = k],
         k.session = c, k.pc \in {"op", "reply", "show", "list"}, ReadOK(k),
         Rest(k, seats, list) = Tail(RestOf(w)), LocksOK',
         UNCHANGED <<emsVars, lockVars, hostVars, signalVars, client, asks, req>>
  PROVE  Refines
<1> DEFINE t == RestOf(w)
           r == Append(res[c], Head(t))
           all == (client[c].got \o res[c]) \o t
<1>1. /\ Session(w, worker[w], client[c], worker[w].read \o req[c], res[c], t)
      /\ Calm(client[c], res[c]) /\ client[c] \in Callers /\ req[c] \in Seq(Pieces)
      /\ worker[w].read \in Seq(Pieces) /\ res[c] \in Seq(Items) /\ t \in Seq(Items)
      /\ client[c].got \in Seq(Items) /\ client[c].got \o res[c] \in Seq(Items) /\ up
  BY SessionFacts
<1>2. client[c].pc \notin {"dead", "closed"} /\ Len(res[c]) < PipeSize /\ Len(res[c]) \in Nat
  BY <1>1, LenProperties DEF Write, Alive
<1>3. res' = [res EXCEPT ![c] = r] /\ req' = [req EXCEPT ![c] = req[c]]
  BY DEF Write, Inv, Types, ClientTypes
<1>4. /\ Head(t) \in Items /\ r \in Seq(Items) /\ Len(r) <= PipeSize
      /\ (client[c].got \o r) \o Tail(t) = all
  <2>1. Head(t) \in Items
    BY <1>1, HeadTailProperties
  <2>2. r \in Seq(Items) /\ Len(r) = Len(res[c]) + 1
    BY <1>1, <2>1, AppendProperties
  <2>3. \A g, a, b \in Seq(Items) : b # <<>> =>
          (g \o Append(a, Head(b))) \o Tail(b) = (g \o a) \o b
    BY MovedBehind
  <2>4. (client[c].got \o Append(res[c], Head(t))) \o Tail(t) = (client[c].got \o res[c]) \o t
    BY <1>1, <2>3, ZenonT(40)
  <2>5. Len(r) <= PipeSize
    BY <1>2, <2>2, NamesApart
  <2> QED BY <2>1, <2>2, <2>4, <2>5
<1>5. all # <<>>
  BY <1>1, ConcatEqualIffEmpty
<1> HIDE DEF t, r
<1>6. client[c].pc = "answer" /\ worker[w].read \o req[c] = <<>> /\ t # <<>>
  BY <1>1, <1>2 DEF Session, Callers, ClientPlaces, t
<1>7. Whole(all, client[c].ask.op) /\ Prompt(all, client[c].ask.op) /\ client[c].id = w
  BY <1>1, <1>5, <1>6 DEF Session
<1>8. k.read = worker[w].read
  BY <1>1 DEF ReadOK, Session
<1>9. (client[c].got \o r) \o Rest(k, seats', list') = all /\ Rest(k, seats', list') = Tail(t)
  BY <1>4 DEF emsVars, t
<1> HIDE DEF all
<1>10. Calm(client[c], r)
  BY <1>1, <1>6 DEF Calm
<1>11. Session(w, k, client[c], k.read \o req[c], r, Rest(k, seats', list'))
  BY <1>6, <1>7, <1>8, <1>9, Nothing DEF Session
<1>12. EventTypes' /\ \A v \in Workers \ {w} : RestOf(v)' = RestOf(v)
  BY RestStays DEF Inv, Types, EventTypes, emsVars, lockVars
<1>13. WorkerDoes(w, c, k, req[c], r)
  BY <1>1, <1>3, <1>4, <1>10, <1>11, <1>12, NamesApart DEF WorkerDoes
<1>14. WorkerDone(w, c, k, req[c], r)
  BY <1>13, WorkerMove
<1>15. AskedOf(c)' = AskedOf(c) /\ TellsOf(c)' = TellsOf(c)
  BY <1>8, <1>9, <1>14 DEF WorkerDone, t, all
<1>16. Inv' /\ OthersKept(c) /\ PhaseOf(c)' = PhaseOf(c) /\ UNCHANGED <<emsVars, up>>
  BY <1>14 DEF WorkerDone
<1> QED BY <1>15, <1>16, Unseen DEF Refines

\* A worker that has written all of an answer waits for the next request.
LEMMA AnswerDone ==
  ASSUME Inv, NEW w \in Workers, NEW c \in Clients, Serves(w, c), worker[w].session = c,
         worker[w].pc \in {"show", "list"}, RestOf(w) = <<>>,
         NEW k \in Servers, worker' = [worker EXCEPT ![w] = k],
         k.session = c, k.pc = "op", k.read = worker[w].read, EventTypes', LocksOK',
         UNCHANGED <<emsVars, hostVars, signalVars, client, asks, pipeVars>>
  PROVE  Refines
<1>1. /\ Session(w, worker[w], client[c], worker[w].read \o req[c], res[c], <<>>)
      /\ Calm(client[c], res[c]) /\ req[c] \in Seq(Pieces) /\ res[c] \in Seq(Items)
      /\ Len(res[c]) <= PipeSize
  BY SessionFacts
<1>2. res' = [res EXCEPT ![c] = res[c]] /\ req' = [req EXCEPT ![c] = req[c]]
  BY DEF pipeVars, Inv, Types, ClientTypes
<1>3. Rest(k, seats', list') = <<>> /\ \A v \in Workers \ {w} : RestOf(v)' = RestOf(v)
  BY RestStays, RestNone
<1>4. ReadOK(k)
  BY <1>1 DEF ReadOK, Session
<1>5. Session(w, k, client[c], k.read \o req[c], res[c], Rest(k, seats', list'))
  BY <1>1, <1>3, <1>4 DEF Session
<1>6. WorkerDoes(w, c, k, req[c], res[c])
  BY <1>1, <1>2, <1>3, <1>5, NamesApart DEF WorkerDoes
<1>7. WorkerDone(w, c, k, req[c], res[c])
  BY <1>6, WorkerMove
<1>8. AskedOf(c)' = AskedOf(c) /\ TellsOf(c)' = TellsOf(c)
  BY <1>3, <1>7 DEF WorkerDone
<1>9. Inv' /\ OthersKept(c) /\ PhaseOf(c)' = PhaseOf(c) /\ UNCHANGED <<emsVars, up>>
  BY <1>7 DEF WorkerDone, signalVars
<1> QED BY <1>8, <1>9, Unseen DEF Refines

\* A worker writes an item of SHOW.
LEMMA ShowItemStep ==
  ASSUME Inv, NEW w \in Workers, ShowItem(w)
  PROVE  Refines
<1> DEFINE n == worker[w].next
           k == [worker[w] EXCEPT !.next = n + 1]
<1>1. /\ worker[w].pc = "show" /\ worker[w] \in Servers /\ n <= Seats + 1
      /\ worker[w].event \in Events /\ n \in 1 .. Seats + 2
      /\ worker' = [worker EXCEPT ![w] = k]
      /\ UNCHANGED <<emsVars, lockVars, hostVars, signalVars, client, asks, req>>
  BY DEF ShowItem, SetWorker, Inv, Types, WorkerTypes, LocksOK
<1>2. PICK c \in Clients : Serves(w, c) /\ worker[w].session = c
  BY <1>1, Serving
<1>3. /\ RestOf(w) # <<>>
      /\ Head(RestOf(w)) = IF n = 1 THEN 0 ELSE seats[worker[w].event][n - 1]
      /\ Tail(RestOf(w)) = SubSeq(<< 0 >> \o seats[worker[w].event], n + 1, Seats + 1)
  <2>1. seats \in [Events -> [1 .. Seats -> Nat]] /\ RestOf(w) = Rest(worker[w], seats, list)
    BY RestIs DEF Inv, Types, EventTypes
  <2> QED BY <1>1, <2>1, RestShow
<1>4. Write(w, Head(RestOf(w)))
  BY <1>3 DEF ShowItem
<1>5. /\ k \in Servers /\ k.session = c /\ k.pc = "show" /\ k.read = worker[w].read
      /\ k.event = worker[w].event /\ k.next = n + 1 /\ n + 1 \in 1 .. Seats + 2
  <2>1. k \in Servers
    <3>1. n + 1 \in Nat
      BY <1>1, NamesApart
    <3> QED BY <1>1, <3>1 DEF Servers
  <2>2. k = [pc |-> "show", session |-> c, read |-> worker[w].read, event |-> worker[w].event,
             out |-> worker[w].out, next |-> n + 1]
    BY <1>1, <1>2 DEF Servers
  <2>3. n + 1 \in 1 .. Seats + 2
    BY <1>1, NamesApart
  <2> QED BY <2>1, <2>2, <2>3
<1> HIDE DEF k, n
<1>6. Rest(k, seats, list) = Tail(RestOf(w))
  BY <1>3, <1>5 DEF Rest
<1>7. ReadOK(k)
  BY <1>1, <1>2, <1>5, SessionFacts DEF ReadOK, Session
<1>8. LocksOK'
  <2>1. worker'[w] = k /\ \A v \in Workers \ {w} : worker'[v] = worker[v]
    BY <1>1 DEF Inv, Types, WorkerTypes
  <2>2. \A v \in Workers : worker'[v].pc = worker[v].pc /\ worker'[v].event = worker[v].event
    BY <1>1, <1>5, <2>1
  <2>3. mutex' = mutex /\ readers' = readers /\ list' = list /\ host' = host
    BY <1>1 DEF lockVars, emsVars, hostVars
  <2>4. \A v \in Workers : worker[v].pc = "list" => worker'[v].next = worker[v].next
    BY <1>1, <2>1
  <2>5. \A v \in Workers : worker[v].pc = "show" => worker'[v].next \in 1 .. Seats + 2
    BY <1>5, <2>1 DEF Inv, LocksOK
  <2>6. mutex \in [Events -> Workers \cup {Null}]
    BY DEF Inv, Types, EventTypes
  <2>7. \A e \in Events : mutex'[e] # Null =>
          worker'[mutex'[e]].pc = "show" /\ worker'[mutex'[e]].event = e
    BY <2>2, <2>3, <2>6 DEF Inv, LocksOK
  <2> QED BY <2>2, <2>3, <2>4, <2>5, <2>7 DEF Inv, LocksOK
<1> QED BY <1>1, <1>2, <1>3, <1>4, <1>5, <1>6, <1>7, <1>8, ItemMove

\* A worker lets an event go.
LEMMA ShowUnlocks ==
  ASSUME Inv, NEW w \in Workers, worker[w].pc = "show", NEW k,
         worker' = [worker EXCEPT ![w] = k], k.pc \in {"op", "fetch"},
         mutex' = [mutex EXCEPT ![worker[w].event] = Null],
         UNCHANGED <<emsVars, readers, hostVars>>
  PROVE  EventTypes' /\ LocksOK'
<1> DEFINE e == worker[w].event
<1>1. /\ mutex \in [Events -> Workers \cup {Null}] /\ e \in Events /\ mutex[e] = w
      /\ list' = list /\ seats' = seats /\ count' = count /\ readers' = readers /\ host' = host
  BY DEF Inv, Types, EventTypes, LocksOK, emsVars, hostVars
<1>2. worker'[w] = k /\ \A v \in Workers \ {w} : worker'[v] = worker[v]
  BY DEF Inv, Types, WorkerTypes
<1>3. mutex'[e] = Null /\ \A f \in Events \ {e} : mutex'[f] = mutex[f]
  BY <1>1
<1>4. EventTypes'
  BY <1>1 DEF Inv, Types, EventTypes
<1> HIDE DEF e
<1>5. \A v \in Workers : worker'[v].pc = "show" =>
        /\ worker'[v].event \in Events /\ mutex'[worker'[v].event] = v
        /\ worker'[v].next \in 1 .. Seats + 2
  <2> SUFFICES ASSUME NEW v \in Workers, worker'[v].pc = "show"
               PROVE  /\ worker'[v].event \in Events /\ mutex'[worker'[v].event] = v
                      /\ worker'[v].next \in 1 .. Seats + 2
    OBVIOUS
  <2>1. v # w /\ worker'[v] = worker[v]
    BY <1>2
  <2>2. /\ worker[v].event \in Events /\ mutex[worker[v].event] = v
        /\ worker[v].next \in 1 .. Seats + 2
    BY <2>1 DEF Inv, LocksOK
  <2> QED BY <1>1, <1>3, <2>1, <2>2
<1>6. \A f \in Events : mutex'[f] # Null =>
        worker'[mutex'[f]].pc = "show" /\ worker'[mutex'[f]].event = f
  <2> SUFFICES ASSUME NEW f \in Events, mutex'[f] # Null
               PROVE  worker'[mutex'[f]].pc = "show" /\ worker'[mutex'[f]].event = f
    OBVIOUS
  <2>1. f # e /\ mutex'[f] = mutex[f] /\ mutex[f] \in Workers
    BY <1>1, <1>3
  <2>2. worker[mutex[f]].event = f /\ worker[mutex[f]].pc = "show"
    BY <2>1 DEF Inv, LocksOK
  <2> QED BY <1>2, <2>1, <2>2 DEF e
<1>7. \A v \in Workers : worker'[v].pc = "list" <=> worker[v].pc = "list"
  BY <1>2
<1> QED BY <1>1, <1>2, <1>4, <1>5, <1>6, <1>7 DEF Inv, LocksOK

\* A worker has shown an event, or cannot.
LEMMA ShowEndStep ==
  ASSUME Inv, NEW w \in Workers, ShowEnd(w)
  PROVE  Refines
<1>1. /\ worker[w].pc = "show" /\ worker[w] \in Servers
      /\ worker[w].event \in Events /\ worker[w].next \in 1 .. Seats + 2
      /\ mutex' = [mutex EXCEPT ![worker[w].event] = Null]
      /\ UNCHANGED <<emsVars, readers, hostVars, signalVars, client, asks>>
  BY DEF ShowEnd, Inv, Types, WorkerTypes, LocksOK
<1>2. PICK c \in Clients : Serves(w, c) /\ worker[w].session = c
  BY <1>1, Serving
<1>3. /\ worker[w].next = Seats + 2 => RestOf(w) = <<>>
      /\ worker[w].next < Seats + 2 => RestOf(w) # <<>>
  <2>1. seats \in [Events -> [1 .. Seats -> Nat]] /\ RestOf(w) = Rest(worker[w], seats, list)
    BY RestIs DEF Inv, Types, EventTypes
  <2>2. worker[w].next < Seats + 2 => worker[w].next <= Seats + 1
    BY <1>1, NamesApart
  <2> QED BY <1>1, <2>1, <2>2, RestShow
<1>4. ASSUME worker[w].next = Seats + 2, NEW k,
             k = [worker[w] EXCEPT !.pc = "op", !.event = Null, !.next = 1],
             SetWorker(w, k), UNCHANGED pipeVars
      PROVE  Refines
  <2>1. worker' = [worker EXCEPT ![w] = k]
    BY <1>4 DEF SetWorker
  <2>2. k \in Servers /\ k.pc = "op" /\ k.session = c /\ k.read = worker[w].read
    BY <1>1, <1>2, <1>4 DEF Servers, WorkerPlaces
  <2>3. EventTypes' /\ LocksOK'
    BY <1>1, <2>1, <2>2, ShowUnlocks
  <2> QED BY <1>1, <1>2, <1>3, <1>4, <2>1, <2>2, <2>3, AnswerDone
<1>5. ASSUME worker[w].next < Seats + 2, Broken(w), EndSession(w)
      PROVE  Refines
  <2>1. /\ worker' = [worker EXCEPT ![w] = Idle] /\ req' = [req EXCEPT ![c] = <<>>]
        /\ res' = res /\ client[c].pc \in {"closed", "dead"}
    BY <1>2, <1>5 DEF Broken, EndSession, SetWorker, Alive
  <2>2. worker[w].read \o req[c] = <<>>
    BY <1>2, <1>3, <1>5, SessionFacts DEF Session
  <2>3. EventTypes' /\ LocksOK'
    BY <1>1, <2>1, ShowUnlocks DEF Idle
  <2> QED BY <1>1, <1>2, <2>1, <2>2, <2>3, Nothing, SessionEnds
<1> QED BY <1>4, <1>5 DEF ShowEnd

\* A worker writes an item of LIST.
LEMMA ListItemStep ==
  ASSUME Inv, NEW w \in Workers, ListItem(w)
  PROVE  Refines
<1> DEFINE n == worker[w].next
           k == [worker[w] EXCEPT !.next = n + 1]
<1>1. /\ worker[w].pc = "list" /\ worker[w] \in Servers /\ n <= Len(list) + 2
      /\ n \in 1 .. Len(list) + 3 /\ list \in Seq(Events) /\ Len(list) \in Nat
      /\ worker' = [worker EXCEPT ![w] = k]
      /\ UNCHANGED <<emsVars, lockVars, hostVars, signalVars, client, asks, req>>
  BY LenProperties DEF ListItem, SetWorker, Inv, Types, WorkerTypes, EventTypes, LocksOK
<1>2. PICK c \in Clients : Serves(w, c) /\ worker[w].session = c
  BY <1>1, Serving
<1>3. /\ RestOf(w) # <<>> /\ Head(RestOf(w)) = (<<0, Len(list)>> \o list)[n]
      /\ Tail(RestOf(w)) = SubSeq(<<0, Len(list)>> \o list, n + 1, Len(list) + 2)
  <2>1. RestOf(w) = Rest(worker[w], seats, list)
    BY RestIs
  <2> QED BY <1>1, <2>1, RestList
<1>4. Write(w, Head(RestOf(w)))
  BY <1>3 DEF ListItem
<1>5. /\ k \in Servers /\ k.session = c /\ k.pc = "list" /\ k.read = worker[w].read
      /\ k.event = worker[w].event /\ k.next = n + 1 /\ n + 1 \in 1 .. Len(list) + 3
  <2>1. n + 1 \in 1 .. Len(list) + 3 /\ n + 1 \in Nat
    BY <1>1
  <2> HIDE DEF n
  <2>2. worker[w] \in Servers /\ worker[w].session = c /\ worker[w].pc = "list"
    BY <1>1, <1>2
  <2> QED BY <2>1, <2>2 DEF Servers
<1> HIDE DEF k, n
<1>6. Rest(k, seats, list) = Tail(RestOf(w))
  BY <1>3, <1>5 DEF Rest
<1>7. ReadOK(k)
  BY <1>1, <1>2, <1>5, SessionFacts DEF ReadOK, Session
<1>8. LocksOK'
  <2>1. worker'[w] = k /\ \A v \in Workers \ {w} : worker'[v] = worker[v]
    BY <1>1 DEF Inv, Types, WorkerTypes
  <2>2. \A v \in Workers : worker'[v].pc = worker[v].pc /\ worker'[v].event = worker[v].event
    BY <1>1, <1>5, <2>1
  <2>3. mutex' = mutex /\ readers' = readers /\ list' = list /\ host' = host
    BY <1>1 DEF lockVars, emsVars, hostVars
  <2>4. \A v \in Workers : worker[v].pc = "show" => worker'[v].next = worker[v].next
    BY <1>1, <2>1
  <2>5. \A v \in Workers : worker[v].pc = "list" => worker'[v].next \in 1 .. Len(list) + 3
    BY <1>5, <2>1 DEF Inv, LocksOK
  <2>6. mutex \in [Events -> Workers \cup {Null}]
    BY DEF Inv, Types, EventTypes
  <2>7. \A e \in Events : mutex'[e] # Null =>
          worker'[mutex'[e]].pc = "show" /\ worker'[mutex'[e]].event = e
    BY <2>2, <2>3, <2>6 DEF Inv, LocksOK
  <2> QED BY <2>2, <2>3, <2>4, <2>5, <2>7 DEF Inv, LocksOK
<1> QED BY <1>1, <1>2, <1>3, <1>4, <1>5, <1>6, <1>7, <1>8, ItemMove

\* A worker lets the list go.
LEMMA ListUnlocks ==
  ASSUME Inv, NEW w \in Workers, worker[w].pc = "list", NEW k,
         worker' = [worker EXCEPT ![w] = k], k.pc \in {"op", "fetch"},
         readers' = readers \ {w}, UNCHANGED <<emsVars, mutex, hostVars>>
  PROVE  EventTypes' /\ LocksOK'
<1>1. /\ mutex \in [Events -> Workers \cup {Null}] /\ mutex' = mutex
      /\ list' = list /\ seats' = seats /\ count' = count /\ host' = host
  BY DEF Inv, Types, EventTypes, emsVars, hostVars
<1>2. worker'[w] = k /\ \A v \in Workers \ {w} : worker'[v] = worker[v]
  BY DEF Inv, Types, WorkerTypes
<1>3. EventTypes'
  BY <1>1 DEF Inv, Types, EventTypes
<1>4. \A v \in Workers : worker'[v].pc = "show" =>
        /\ worker'[v].event \in Events /\ mutex[worker'[v].event] = v
        /\ worker'[v].next \in 1 .. Seats + 2
  BY <1>2 DEF Inv, LocksOK
<1>5. \A e \in Events : mutex[e] # Null =>
        worker'[mutex[e]].pc = "show" /\ worker'[mutex[e]].event = e
  <2> SUFFICES ASSUME NEW e \in Events, mutex[e] # Null
               PROVE  worker'[mutex[e]].pc = "show" /\ worker'[mutex[e]].event = e
    OBVIOUS
  <2>1. mutex[e] \in Workers /\ worker[mutex[e]].pc = "show" /\ worker[mutex[e]].event = e
    BY <1>1 DEF Inv, LocksOK
  <2> QED BY <1>2, <2>1
<1>6. \A v \in Workers : v \in readers' <=> worker'[v].pc = "list"
  BY <1>2 DEF Inv, LocksOK
<1>7. \A v \in Workers : worker'[v].pc = "list" => worker'[v].next \in 1 .. Len(list) + 3
  BY <1>2 DEF Inv, LocksOK
<1>8. Host \in readers' <=> host.pc = "event"
  BY NamesApart DEF Inv, LocksOK
<1> QED BY <1>1, <1>3, <1>4, <1>5, <1>6, <1>7, <1>8 DEF LocksOK

\* A worker has listed the events, or cannot.
LEMMA ListEndStep ==
  ASSUME Inv, NEW w \in Workers, ListEnd(w)
  PROVE  Refines
<1>1. /\ worker[w].pc = "list" /\ worker[w] \in Servers /\ readers' = readers \ {w}
      /\ worker[w].next \in 1 .. Len(list) + 3 /\ list \in Seq(Events) /\ Len(list) \in Nat
      /\ UNCHANGED <<emsVars, mutex, hostVars, signalVars, client, asks>>
  BY LenProperties DEF ListEnd, Inv, Types, WorkerTypes, EventTypes, LocksOK
<1>2. PICK c \in Clients : Serves(w, c) /\ worker[w].session = c
  BY <1>1, Serving
<1>3. /\ worker[w].next = Len(list) + 3 => RestOf(w) = <<>>
      /\ worker[w].next < Len(list) + 3 => RestOf(w) # <<>>
  <2>1. RestOf(w) = Rest(worker[w], seats, list)
    BY RestIs
  <2>2. worker[w].next < Len(list) + 3 => worker[w].next <= Len(list) + 2
    BY <1>1
  <2> QED BY <1>1, <2>1, <2>2, RestList
<1>4. ASSUME worker[w].next = Len(list) + 3, NEW k,
             k = [worker[w] EXCEPT !.pc = "op", !.next = 1],
             SetWorker(w, k), UNCHANGED pipeVars
      PROVE  Refines
  <2>1. worker' = [worker EXCEPT ![w] = k]
    BY <1>4 DEF SetWorker
  <2>2. k \in Servers /\ k.pc = "op" /\ k.session = c /\ k.read = worker[w].read
    BY <1>1, <1>2, <1>4 DEF Servers, WorkerPlaces
  <2>3. EventTypes' /\ LocksOK'
    BY <1>1, <2>1, <2>2, ListUnlocks
  <2> QED BY <1>1, <1>2, <1>3, <1>4, <2>1, <2>2, <2>3, AnswerDone
<1>5. ASSUME worker[w].next < Len(list) + 3, Broken(w), EndSession(w)
      PROVE  Refines
  <2>1. /\ worker' = [worker EXCEPT ![w] = Idle] /\ req' = [req EXCEPT ![c] = <<>>]
        /\ res' = res /\ client[c].pc \in {"closed", "dead"}
    BY <1>2, <1>5 DEF Broken, EndSession, SetWorker, Alive
  <2>2. worker[w].read \o req[c] = <<>>
    BY <1>2, <1>3, <1>5, SessionFacts DEF Session
  <2>3. EventTypes' /\ LocksOK'
    BY <1>1, <2>1, ListUnlocks DEF Idle
  <2> QED BY <1>1, <1>2, <2>1, <2>2, <2>3, Nothing, SessionEnds
<1> QED BY <1>4, <1>5 DEF ListEnd

\* A worker writes an item of an answer that it has ready.
LEMMA AnswerStep ==
  ASSUME Inv, NEW w \in Workers, Answer(w)
  PROVE  Refines
<1>1. /\ worker[w].pc = "reply" /\ worker[w] \in Servers /\ worker[w].out \in Seq(Items)
      /\ UNCHANGED <<emsVars, lockVars, hostVars, signalVars, client, asks>>
  BY DEF Answer, Inv, Types, WorkerTypes, Servers
<1>2. PICK c \in Clients : Serves(w, c) /\ worker[w].session = c
  BY <1>1, Serving
<1>3. ReadOK(worker[w]) /\ RestOf(w) = worker[w].out /\ worker[w].out # <<>>
  <2>1. ReadOK(worker[w])
    BY <1>2, SessionFacts DEF Session
  <2>2. RestOf(w) = Rest(worker[w], seats, list)
    BY RestIs
  <2> QED BY <1>1, <2>1, <2>2, RestReply DEF ReadOK
<1>4. ASSUME NEW k, Write(w, Head(worker[w].out)), SetWorker(w, k), UNCHANGED req,
             k = [worker[w] EXCEPT !.out = Tail(worker[w].out),
                                   !.pc = IF Len(worker[w].out) = 1 THEN "op" ELSE "reply"]
      PROVE  Refines
  <2>1. /\ Tail(worker[w].out) \in Seq(Items) /\ Len(worker[w].out) \in Nat
        /\ Len(Tail(worker[w].out)) = Len(worker[w].out) - 1
    BY <1>1, <1>3, HeadTailProperties, LenProperties
  <2>2. worker' = [worker EXCEPT ![w] = k]
    BY <1>4 DEF SetWorker
  <2>3. /\ k \in Servers /\ k.session = c /\ k.read = worker[w].read
        /\ k.out = Tail(worker[w].out)
        /\ k.pc = IF Len(worker[w].out) = 1 THEN "op" ELSE "reply"
    BY <1>1, <1>2, <1>4, <2>1 DEF Servers, WorkerPlaces
  <2>4. Len(worker[w].out) = 1 <=> Tail(worker[w].out) = <<>>
    <3>1. Tail(worker[w].out) = <<>> <=> Len(Tail(worker[w].out)) = 0
      BY <2>1, EmptySeq
    <3> QED BY <2>1, <3>1
  <2>5. Rest(k, seats, list) = Tail(RestOf(w)) /\ k.pc \in {"op", "reply"}
    BY <1>3, <2>3, <2>4 DEF Rest
  <2>6. ReadOK(k)
    BY <1>1, <1>3, <2>3, <2>4, <2>5 DEF ReadOK
  <2>7. LocksOK'
    <3>1. worker'[w].pc \in {"op", "reply"} /\ \A v \in Workers \ {w} : worker'[v] = worker[v]
      BY <2>2, <2>5 DEF Inv, Types, WorkerTypes
    <3> QED BY <1>1, <3>1, LocksStay DEF emsVars, hostVars
  <2> QED BY <1>1, <1>2, <1>3, <1>4, <2>2, <2>3, <2>5, <2>6, <2>7, ItemMove
<1>5. ASSUME Broken(w), EndSession(w)
      PROVE  Refines
  <2>1. res' = res /\ client[c].pc \in {"closed", "dead"}
    BY <1>2, <1>5 DEF Broken, Alive
  <2>2. worker[w].read \o req[c] = <<>>
    BY <1>2, <1>3, SessionFacts, ZenonT(40) DEF Session
  <2> QED BY <1>1, <1>2, <1>5, <2>1, <2>2, Nothing, PlainEnd
<1> QED BY <1>4, <1>5 DEF Answer

------------------------------------------------------------------------------
(* The moment at which a request takes effect *)

\* A worker that executes has all of the request, and its client waits, if it is there.
LEMMA Executes ==
  ASSUME Inv, NEW w \in Workers, worker[w].pc = "exec"
  PROVE  /\ worker[w] \in Servers /\ Request(worker[w].read) \in Requests
         /\ Op(w) = Request(worker[w].read).op
         /\ Op(w) # "LIST" => /\ Arg(w).event = Request(worker[w].read).event
                              /\ Arg(w).seats = Request(worker[w].read).seats
                              /\ Arg(w).event \in Events
         /\ \E c \in Clients :
              /\ Serves(w, c) /\ worker[w].session = c /\ req[c] = <<>>
              /\ AskedOf(c) = Request(worker[w].read) /\ TellsOf(c) = <<>>
              /\ client[c].pc \in {"answer", "dead", "closed"}
              /\ client[c].pc = "answer" =>
                   /\ client[c].got \o res[c] = <<>> /\ client[c].id = w
                   /\ client[c].ask = Request(worker[w].read)
<1>1. PICK c \in Clients : Serves(w, c) /\ worker[w].session = c
  BY Serving
<1> DEFINE a == worker[w].read
           p == a \o req[c]
<1>2. /\ Session(w, worker[w], client[c], p, res[c], RestOf(w)) /\ Calm(client[c], res[c])
      /\ client[c] \in Callers /\ req[c] \in Seq(Pieces) /\ a \in Seq(Pieces)
      /\ res[c] \in Seq(Items) /\ client[c].got \o res[c] \in Seq(Items)
      /\ worker[w] \in Servers
  BY <1>1, SessionFacts
<1>3. Complete(a) /\ Form(p, w) /\ RestOf(w) = <<>>
  BY <1>2, RestIs, RestNone DEF Session, ReadOK
<1> HIDE DEF a
<1>4. (Len(a) = 2 \/ Len(a) = 3) /\ (Len(a) = 2 => a[1] = "LIST")
  <2>1. Complete(a)
    BY <1>3
  <2> QED BY <2>1 DEF Complete
<1>5. req[c] = <<>>
  <2> SUFFICES ASSUME req[c] # <<>>
               PROVE  FALSE
    OBVIOUS
  <2>1. /\ Len(p) = Len(a) + Len(req[c]) /\ Len(req[c]) \in Nat \ {0}
        /\ \A i \in 1 .. Len(a) + Len(req[c]) :
             p[i] = IF i <= Len(a) THEN a[i] ELSE req[c][i - Len(a)]
    BY <1>2, ConcatProperties, EmptySeq
  <2> HIDE DEF p
  <2>2. p[1] = a[1]
    BY <1>4, <2>1
  <2>3. Len(p) <= 3 /\ (Len(p) = 3 => p[1] # "LIST")
    BY <1>3 DEF Form
  <2>4. Len(p) = 3 /\ Len(a) = 2
    <3>1. Len(p) = Len(a) + Len(req[c]) /\ Len(req[c]) \in Nat \ {0} /\ Len(p) <= 3
      BY <2>1, <2>3
    <3>2. \A i, m \in Nat, n \in Nat \ {0} :
            m = i + n /\ m <= 3 /\ (i = 2 \/ i = 3) => m = 3 /\ i = 2
      OBVIOUS
    <3>3. Len(a) \in Nat /\ Len(p) \in Nat /\ (Len(a) = 2 \/ Len(a) = 3)
      BY <1>4, <3>1
    <3> QED BY <3>1, <3>2, <3>3
  <2> QED BY <1>4, <2>2, <2>3, <2>4
<1>6. p = a
  BY <1>2, <1>5, ConcatEmptySeq
<1> HIDE DEF p
<1>7. /\ Request(a) \in Requests /\ a[1] = Request(a).op
      /\ Len(a) = 3 => a[3].event = Request(a).event /\ a[3].seats = Request(a).seats
  <2>1. CASE Len(a) = 3
    <3>1. Request(a) \in Requests
      BY <1>3, <1>6, <2>1 DEF Form
    <3> QED BY <2>1, <3>1 DEF Request
  <2>2. CASE Len(a) = 2
    BY <1>4, <2>2 DEF Request, Requests, Service!Requests
  <2> QED BY <1>4, <2>1, <2>2
<1>8. /\ Op(w) = Request(a).op
      /\ Op(w) # "LIST" => /\ Arg(w).event = Request(a).event
                           /\ Arg(w).seats = Request(a).seats
                           /\ Arg(w).event \in Events
  <2>1. Op(w) = a[1] /\ Arg(w) = a[3]
    BY DEF Op, Arg, a
  <2>2. a[1] # "LIST" => Len(a) = 3
    BY <1>4
  <2>3. Request(a).op # "LIST" => Request(a).event \in Events
    BY <1>7, RequestTypes
  <2> QED BY <1>7, <2>1, <2>2, <2>3
<1>9. client[c].pc \in {"answer", "dead", "closed"}
  <2>1. client[c].pc \notin {"start", "openReq", "openRes", "ack"}
    BY <1>2 DEF Session
  <2>2. client[c].pc \notin {"idle", "id", "quit"}
    <3>1. a # <<>> /\ \A x : a # <<x>>
      <4>1. \A x : Len(<<x>>) = 1
        OBVIOUS
      <4> QED BY <1>4, <4>1, Nothing
    <3> QED BY <1>2, <1>6, <3>1 DEF Session
  <2>3. client[c].pc # "args"
    <3> SUFFICES ASSUME client[c].pc = "args"
                 PROVE  FALSE
      OBVIOUS
    <3>1. a = <<client[c].ask.op, w>> /\ client[c].ask.op # "LIST"
      BY <1>2, <1>6 DEF Session
    <3>2. Len(a) = 2 /\ a[1] # "LIST"
      BY <3>1
    <3> QED BY <1>4, <3>2
  <2> QED BY <1>2, <2>1, <2>2, <2>3 DEF Callers, ClientPlaces
<1>10. client[c].pc = "answer" =>
         /\ client[c].got \o res[c] = <<>> /\ client[c].id = w
         /\ client[c].ask = Request(a)
  <2> SUFFICES ASSUME client[c].pc = "answer"
               PROVE  /\ client[c].got \o res[c] = <<>> /\ client[c].id = w
                      /\ client[c].ask = Request(a)
    OBVIOUS
  <2>1. a # <<>>
    <3>1. Len(<<>>) = 0
      OBVIOUS
    <3> QED BY <1>4, <3>1
  <2>2. /\ (client[c].got \o res[c]) \o <<>> = <<>> /\ client[c].id = w
        /\ client[c].ask = Request(a)
    BY <1>2, <1>3, <1>6, <2>1 DEF Session
  <2> QED BY <1>2, <2>2, ConcatEmptySeq
<1>11. AskedOf(c) = Request(a) /\ TellsOf(c) = <<>>
  <2>1. /\ AskedOf(c) = AskedFor(p)
        /\ TellsOf(c) = TellsFor(client[c], (client[c].got \o res[c]) \o RestOf(w))
    BY <1>1, ServedViews DEF Inv, Talks, p, a
  <2>2. TellsOf(c) = <<>>
    BY <1>3, <1>10, <2>1, Nothing, ConcatEmptySeq DEF TellsFor
  <2> QED BY <1>3, <1>6, <2>1, <2>2 DEF AskedFor
<1> QED BY <1>1, <1>2, <1>5, <1>7, <1>8, <1>9, <1>10, <1>11 DEF a

\* The effect and the answer of the request q, when worker w goes on as k with all of
\* the answer to write
Effects(w, k, q) ==
  LET out == Rest(k, seats', list') IN
  /\ worker' = [worker EXCEPT ![w] = k]
  /\ k \in Servers /\ k.session = worker[w].session /\ k.read = <<>>
  /\ k.pc \in {"reply", "show", "list"}
  /\ out \in Seq(Items) /\ Whole(out, q.op) /\ Prompt(out, q.op)
  /\ out = IF Service!Succeeds(q) THEN << 0 >> \o Service!Value(q) ELSE << 1 >>
  /\ IF Service!Succeeds(q) THEN Service!Effect(q) ELSE UNCHANGED Service!state
  /\ EventTypes' /\ LocksOK'
  /\ \A v \in Workers \ {w} : RestOf(v)' = RestOf(v)
  /\ UNCHANGED <<hostVars, signalVars, client, asks, pipeVars>>

\* It is the step of the service that executes it.
LEMMA ExecuteStep ==
  ASSUME Inv, NEW w \in Workers, worker[w].pc = "exec", NEW k,
         Effects(w, k, Request(worker[w].read))
  PROVE  Refines
<1> DEFINE q == Request(worker[w].read)
           out == Rest(k, seats', list')
<1>1. PICK c \in Clients :
        /\ Serves(w, c) /\ worker[w].session = c /\ req[c] = <<>>
        /\ AskedOf(c) = q /\ TellsOf(c) = <<>>
        /\ client[c].pc \in {"answer", "dead", "closed"}
        /\ client[c].pc = "answer" =>
             client[c].got \o res[c] = <<>> /\ client[c].id = w /\ client[c].ask = q
  BY Executes
<1>2. q \in Requests /\ q # Null
  BY Executes, NamesApart
<1>3. /\ k \in Servers /\ k.session = c /\ k.read = <<>>
      /\ k.pc \in {"reply", "show", "list"} /\ worker' = [worker EXCEPT ![w] = k]
      /\ out \in Seq(Items) /\ Whole(out, q.op) /\ Prompt(out, q.op)
      /\ out = IF Service!Succeeds(q) THEN << 0 >> \o Service!Value(q) ELSE << 1 >>
      /\ IF Service!Succeeds(q) THEN Service!Effect(q) ELSE UNCHANGED Service!state
      /\ EventTypes' /\ LocksOK'
      /\ \A v \in Workers \ {w} : RestOf(v)' = RestOf(v)
      /\ UNCHANGED <<hostVars, signalVars, client, asks, pipeVars>>
  BY <1>1 DEF Effects
<1> HIDE DEF q, out
<1>4. /\ Session(w, worker[w], client[c], worker[w].read \o req[c], res[c], RestOf(w))
      /\ Calm(client[c], res[c]) /\ req[c] \in Seq(Pieces) /\ res[c] \in Seq(Items)
      /\ Len(res[c]) <= PipeSize
  BY <1>1, SessionFacts
<1>5. res' = [res EXCEPT ![c] = res[c]] /\ req' = [req EXCEPT ![c] = req[c]]
  BY <1>3 DEF pipeVars, Inv, Types, ClientTypes
<1>6. /\ out # <<>> /\ k.read \o req[c] = <<>>
      /\ client[c].pc = "answer" => (client[c].got \o res[c]) \o out = out
  BY <1>1, <1>3, Nothing, ConcatEmptySeq
<1>7. ReadOK(k)
  <2>1. k.pc = "reply" => k.out = out
    BY RestReply DEF out
  <2> QED BY <1>3, <1>6, <2>1 DEF ReadOK
<1>8. Session(w, k, client[c], k.read \o req[c], res[c], out)
  BY <1>1, <1>3, <1>4, <1>6, <1>7, Nothing DEF Session
<1>9. WorkerDone(w, c, k, req[c], res[c])
  <2>1. WorkerDoes(w, c, k, req[c], res[c])
    BY <1>3, <1>4, <1>5, <1>8, NamesApart, SMTT(30) DEF WorkerDoes, out
  <2> QED BY <1>1, <2>1, WorkerMove
<1>10. /\ Inv' /\ OthersKept(c) /\ up' = up /\ PhaseOf(c)' = PhaseOf(c)
       /\ AskedOf(c)' = Null
       /\ TellsOf(c)' = IF client[c].pc = "answer" THEN out ELSE <<>>
  BY <1>1, <1>3, <1>6, <1>9, Nothing DEF WorkerDone, TellsFor, out
<1>11. PhaseOf(c) = "gone" <=> client[c].pc # "answer"
  BY <1>1 DEF PhaseOf
<1>12. Service!Execute(c)
  <2>1. /\ phases[c] = PhaseOf(c) /\ askeds[c] = q /\ answers[c] = <<>>
        /\ phases' = phases /\ askeds' = [askeds EXCEPT ![c] = Null]
        /\ answers' = [answers EXCEPT ![c] = TellsOf(c)']
        /\ TellsOf(c)' = TellsOf(c) => answers' = answers
    BY <1>1, <1>10, Mapped
  <2>2. answers' = IF phases[c] = "gone" THEN answers
                   ELSE [answers EXCEPT ![c] =
                           IF Service!Succeeds(q) THEN << 0 >> \o Service!Value(q) ELSE << 1 >>]
    BY <1>1, <1>3, <1>10, <1>11, <2>1
  <2> QED BY <1>2, <1>3, <1>10, <2>1, <2>2 DEF Service!Execute
<1> QED BY <1>10, <1>12 DEF Refines, Service!Next

\* An answer of one item, ready
LEMMA Replies ==
  ASSUME Inv, NEW w \in Workers, worker[w].pc = "exec", NEW n \in {0, 1},
         Reply(w, <<n>>), n = 1 \/ Op(w) \notin {"SHOW", "LIST"},
         list' = list \/ readers = {}, UNCHANGED <<lockVars, hostVars>>
  PROVE  \E k \in Servers :
           /\ worker' = [worker EXCEPT ![w] = k] /\ k.session = worker[w].session
           /\ k.read = <<>> /\ k.pc = "reply" /\ Rest(k, seats', list') = <<n>>
           /\ <<n>> \in Seq(Items)
           /\ Whole(<<n>>, Request(worker[w].read).op)
           /\ Prompt(<<n>>, Request(worker[w].read).op)
           /\ LocksOK' /\ \A v \in Workers \ {w} : worker'[v] = worker[v]
<1> DEFINE k == [worker[w] EXCEPT !.pc = "reply", !.read = <<>>, !.out = <<n>>]
<1>1. worker' = [worker EXCEPT ![w] = k] /\ worker[w] \in Servers
  BY Executes DEF Reply, SetWorker
<1>2. Op(w) = Request(worker[w].read).op /\ Op(w) \in Ops
  <2>1. Op(w) = Request(worker[w].read).op /\ Request(worker[w].read) \in Requests
    BY Executes
  <2> QED BY <2>1, RequestTypes
<1>3. /\ Whole(<<n>>, Request(worker[w].read).op) /\ <<n>> \in Seq(Items)
      /\ Prompt(<<n>>, Request(worker[w].read).op)
  BY <1>2, ShortAnswer
<1>4. /\ k \in Servers /\ k.session = worker[w].session /\ k.read = <<>> /\ k.pc = "reply"
      /\ k.out = <<n>>
  BY <1>1, <1>3, Nothing DEF Servers, WorkerPlaces
<1> HIDE DEF k
<1>5. Rest(k, seats', list') = <<n>>
  BY <1>4, RestReply
<1>6. worker'[w].pc = "reply" /\ \A v \in Workers \ {w} : worker'[v] = worker[v]
  BY <1>1, <1>4 DEF Inv, Types, WorkerTypes
<1>7. LocksOK'
  BY <1>6, LocksStay DEF hostVars
<1> QED BY <1>1, <1>3, <1>4, <1>5, <1>6, <1>7

\* The operators of the service are those of the server.
LEMMA SameExists ==
  ASSUME NEW e
  PROVE  Exists(e) <=> Service!Exists(e)
BY DEF Exists, Service!Exists

\* What a request that succeeds, without a value, is answered
LEMMA NoValue ==
  ASSUME NEW q, q.op \in {"CREATE", "RESERVE"}
  PROVE  << 0 >> \o Service!Value(q) = << 0 >>
<1>1. Service!Value(q) = <<>>
  BY DEF Service!Value
<1>2. << 0 >> \in Seq(Items)
  BY ShortAnswer DEF Ops
<1> QED BY <1>1, <1>2, ConcatEmptySeq

\* CREATE takes effect.
LEMMA CreateStep ==
  ASSUME Inv, NEW w \in Workers, Create(w)
  PROVE  Refines
<1> DEFINE q == Request(worker[w].read)
           e == Arg(w).event
<1>1. /\ worker[w].pc = "exec" /\ Op(w) = "CREATE" /\ readers = {}
      /\ UNCHANGED <<seats, count, lockVars, hostVars, signalVars, client, asks, pipeVars>>
  BY DEF Create, Executing
<1>2. q \in Requests /\ q.op = "CREATE" /\ e = q.event /\ e \in Events
  BY <1>1, Executes
<1> HIDE DEF q, e
<1>3. \/ Exists(e) /\ Reply(w, << 1 >>) /\ UNCHANGED list
      \/ ~Exists(e) /\ Reply(w, << 0 >>) /\ list' = Append(list, e)
  BY DEF Create, e
<1>4. PICK n \in {0, 1} : Reply(w, <<n>>) /\ (n = 1 <=> Exists(e))
                          /\ list' = IF n = 1 THEN list ELSE Append(list, e)
  BY <1>3
<1>5. PICK k \in Servers :
        /\ worker' = [worker EXCEPT ![w] = k] /\ k.session = worker[w].session
        /\ k.read = <<>> /\ k.pc = "reply" /\ Rest(k, seats', list') = <<n>>
        /\ <<n>> \in Seq(Items) /\ Whole(<<n>>, q.op) /\ Prompt(<<n>>, q.op)
        /\ LocksOK' /\ \A v \in Workers \ {w} : worker'[v] = worker[v]
  BY <1>1, <1>4, Replies DEF q
<1>6. Service!Succeeds(q) <=> n = 0
  BY <1>2, <1>4, SameExists DEF Service!Succeeds
<1>7. IF Service!Succeeds(q) THEN Service!Effect(q) ELSE UNCHANGED Service!state
  BY <1>1, <1>2, <1>4, <1>6 DEF Service!Effect, Service!state
<1>8. EventTypes'
  <2>1. list' \in Seq(Events)
    BY <1>2, <1>4, AppendProperties DEF Inv, Types, EventTypes
  <2> QED BY <1>1, <2>1 DEF Inv, Types, EventTypes, lockVars
<1>9. \A v \in Workers \ {w} : RestOf(v)' = RestOf(v)
  BY <1>1, <1>2, <1>5, RestKept
<1>10. Effects(w, k, q)
  BY <1>1, <1>2, <1>5, <1>6, <1>7, <1>8, <1>9, NoValue DEF Effects
<1> QED BY <1>1, <1>10, ExecuteStep DEF q

\* A request for an event that there is not has none.
LEMMA NotFoundStep ==
  ASSUME Inv, NEW w \in Workers, NotFound(w)
  PROVE  Refines
<1> DEFINE q == Request(worker[w].read)
           e == Arg(w).event
<1>1. /\ worker[w].pc = "exec" /\ Op(w) \in {"RESERVE", "SHOW"} /\ ~Exists(e)
      /\ Reply(w, << 1 >>)
      /\ UNCHANGED <<emsVars, lockVars, hostVars, signalVars, client, asks, pipeVars>>
  BY DEF NotFound
<1>2. q \in Requests /\ q.op = Op(w) /\ e = q.event /\ e \in Events
  BY <1>1, Executes
<1> HIDE DEF q, e
<1>3. UNCHANGED <<list, seats, count>> /\ 1 \in {0, 1}
  BY <1>1 DEF emsVars
<1>4. PICK k \in Servers :
        /\ worker' = [worker EXCEPT ![w] = k] /\ k.session = worker[w].session
        /\ k.read = <<>> /\ k.pc = "reply" /\ Rest(k, seats', list') = << 1 >>
        /\ << 1 >> \in Seq(Items) /\ Whole(<< 1 >>, q.op) /\ Prompt(<< 1 >>, q.op)
        /\ LocksOK' /\ \A v \in Workers \ {w} : worker'[v] = worker[v]
  BY <1>1, <1>3, Replies DEF q
<1>5. ~Service!Succeeds(q)
  BY <1>1, <1>2, SameExists DEF Service!Succeeds, Service!Free
<1>6. EventTypes'
  BY <1>1, <1>3 DEF Inv, Types, EventTypes, lockVars
<1>7. \A v \in Workers \ {w} : RestOf(v)' = RestOf(v)
  BY <1>2, <1>3, <1>4, RestKept
<1>8. Effects(w, k, q)
  BY <1>1, <1>3, <1>4, <1>5, <1>6, <1>7 DEF Effects, Service!state
<1> QED BY <1>1, <1>8, ExecuteStep DEF q

\* RESERVE takes effect, under the mutex of its event.
LEMMA ReserveStep ==
  ASSUME Inv, NEW w \in Workers, Reserve(w)
  PROVE  Refines
<1> DEFINE q == Request(worker[w].read)
           e == Arg(w).event
           S == Arg(w).seats
           no == \E s \in S : s > Seats \/ seats[e][s] # 0
<1>1. /\ worker[w].pc = "exec" /\ Op(w) = "RESERVE" /\ Exists(e) /\ mutex[e] = Null
      /\ UNCHANGED <<list, lockVars, hostVars, signalVars, client, asks, pipeVars>>
  BY DEF Reserve, Executing
<1>2. /\ q \in Requests /\ q.op = "RESERVE" /\ e = q.event /\ S = q.seats /\ e \in Events
      /\ S \subseteq 1 .. Seats + 1
  <2>1. /\ q \in Requests /\ Op(w) = q.op
        /\ Op(w) # "LIST" => e = q.event /\ S = q.seats /\ e \in Events
    BY <1>1, Executes
  <2> QED BY <1>1, <2>1, RequestTypes
<1>3. \/ no /\ Reply(w, << 1 >>) /\ UNCHANGED <<seats, count>>
      \/ /\ ~no /\ Reply(w, << 0 >>) /\ count' = [count EXCEPT ![e] = @ + 1]
         /\ seats' = [seats EXCEPT ![e] =
                        [s \in 1 .. Seats |-> IF s \in S THEN count'[e] ELSE @[s]]]
  BY DEF Reserve
<1> HIDE DEF q, e, S
<1>4. /\ count \in [Events -> Nat] /\ seats \in [Events -> [1 .. Seats -> Nat]]
      /\ list \in Seq(Events)
  BY DEF Inv, Types, EventTypes
<1>5. Service!Succeeds(q) <=> ~no
  <2>1. Service!Free(e, S) <=> \A s \in S : s <= Seats /\ seats[e][s] = 0
    BY <1>1, SameExists DEF Service!Free
  <2>2. (\A s \in S : s <= Seats /\ seats[e][s] = 0) <=> ~no
    BY <1>2, NamesApart
  <2>3. Service!Succeeds(q) <=> Service!Free(e, S)
    BY <1>2 DEF Service!Succeeds
  <2> QED BY <2>1, <2>2, <2>3
<1> HIDE DEF no
<1>6. PICK n \in {0, 1} : Reply(w, <<n>>) /\ (n = 1 <=> no)
  BY <1>3
<1>7. PICK k \in Servers :
        /\ worker' = [worker EXCEPT ![w] = k] /\ k.session = worker[w].session
        /\ k.read = <<>> /\ k.pc = "reply" /\ Rest(k, seats', list') = <<n>>
        /\ <<n>> \in Seq(Items) /\ Whole(<<n>>, q.op) /\ Prompt(<<n>>, q.op)
        /\ LocksOK' /\ \A v \in Workers \ {w} : worker'[v] = worker[v]
  BY <1>1, <1>6, Replies DEF q
<1>8. IF Service!Succeeds(q) THEN Service!Effect(q) ELSE UNCHANGED Service!state
  <2>1. CASE no
    BY <1>1, <1>3, <1>5, <2>1 DEF Service!state
  <2>2. CASE ~no
    <3>1. count'[e] = count[e] + 1
      BY <1>2, <1>3, <1>4, <2>2
    <3> QED BY <1>1, <1>2, <1>3, <1>5, <2>2, <3>1 DEF Service!Effect
  <2> QED BY <2>1, <2>2
<1>9. seats' \in [Events -> [1 .. Seats -> Nat]] /\ count' \in [Events -> Nat]
  <2>1. CASE no
    BY <1>3, <1>4, <2>1
  <2>2. CASE ~no
    <3>1. count' \in [Events -> Nat] /\ count'[e] \in Nat
      BY <1>2, <1>3, <1>4, <2>2
    <3> DEFINE row == [s \in 1 .. Seats |-> IF s \in S THEN count'[e] ELSE seats[e][s]]
    <3>2. row \in [1 .. Seats -> Nat]
      BY <1>2, <1>4, <3>1
    <3>3. seats' = [seats EXCEPT ![e] = row]
      BY <1>3, <2>2
    <3> HIDE DEF row
    <3>4. seats' \in [Events -> [1 .. Seats -> Nat]]
      BY <1>4, <3>2, <3>3
    <3> QED BY <3>1, <3>4
  <2> QED BY <2>1, <2>2
<1>10. EventTypes'
  BY <1>1, <1>4, <1>9 DEF Inv, Types, EventTypes, lockVars
<1>11. \A v \in Workers \ {w} : RestOf(v)' = RestOf(v)
  <2>1. \A f \in Events \ {e} : seats'[f] = seats[f]
    BY <1>3, <1>4
  <2> QED BY <1>1, <1>2, <1>7, <2>1, RestKept
<1>12. Effects(w, k, q)
  BY <1>1, <1>2, <1>5, <1>6, <1>7, <1>8, <1>10, <1>11, NoValue DEF Effects
<1> QED BY <1>1, <1>12, ExecuteStep DEF q

\* SHOW takes effect when it takes the mutex of its event.
LEMMA ShowLockStep ==
  ASSUME Inv, NEW w \in Workers, ShowLock(w)
  PROVE  Refines
<1> DEFINE q == Request(worker[w].read)
           e == Arg(w).event
           k == [worker[w] EXCEPT !.pc = "show", !.read = <<>>, !.event = e, !.next = 1]
<1>1. /\ worker[w].pc = "exec" /\ Op(w) = "SHOW" /\ Exists(e) /\ mutex[e] = Null
      /\ mutex' = [mutex EXCEPT ![e] = w] /\ worker' = [worker EXCEPT ![w] = k]
      /\ UNCHANGED <<emsVars, readers, hostVars, signalVars, client, asks, pipeVars>>
  BY DEF ShowLock, Executing, SetWorker
<1>2. /\ q \in Requests /\ q.op = "SHOW" /\ e = q.event /\ e \in Events
      /\ worker[w] \in Servers
  BY <1>1, Executes
<1> HIDE DEF q, e
<1>3. /\ mutex \in [Events -> Workers \cup {Null}] /\ seats \in [Events -> [1 .. Seats -> Nat]]
      /\ list' = list /\ seats' = seats /\ count' = count /\ readers' = readers /\ host' = host
  BY <1>1 DEF Inv, Types, EventTypes, emsVars, hostVars
<1>4. /\ k \in Servers /\ k.session = worker[w].session /\ k.read = <<>> /\ k.pc = "show"
      /\ k.event = e /\ k.next = 1
  BY <1>2, Nothing DEF Servers, WorkerPlaces
<1> HIDE DEF k
<1>5. Rest(k, seats', list') = << 0 >> \o seats[e]
  <2>1. k.event \in Events /\ k.next \in 1 .. Seats + 2 /\ k.next = 1
    BY <1>2, <1>4, NamesApart
  <2>2. Rest(k, seats, list) = << 0 >> \o seats[k.event]
    BY <1>3, <1>4, <2>1, RestShow
  <2> QED BY <1>3, <1>4, <2>2
<1>6. /\ << 0 >> \o seats[e] \in Seq(Items) /\ Whole(<< 0 >> \o seats[e], "SHOW")
      /\ Prompt(<< 0 >> \o seats[e], "SHOW")
  BY <1>2, <1>3, ShowAnswer
<1>7. Service!Succeeds(q) /\ Service!Value(q) = seats[e]
  BY <1>1, <1>2, SameExists DEF Service!Succeeds, Service!Value
<1>8. Service!Effect(q)
  BY <1>2, <1>3 DEF Service!Effect
<1>9. worker'[w] = k /\ \A v \in Workers \ {w} : worker'[v] = worker[v]
  BY <1>1 DEF Inv, Types, WorkerTypes
<1>10. mutex'[e] = w /\ \A f \in Events \ {e} : mutex'[f] = mutex[f]
  BY <1>1, <1>2, <1>3
<1>11. EventTypes'
  BY <1>1, <1>3 DEF Inv, Types, EventTypes
<1>12. LocksOK'
  <2>1. \A v \in Workers : worker'[v].pc = "show" =>
          /\ worker'[v].event \in Events /\ mutex'[worker'[v].event] = v
          /\ worker'[v].next \in 1 .. Seats + 2
    <3> SUFFICES ASSUME NEW v \in Workers, worker'[v].pc = "show"
                 PROVE  /\ worker'[v].event \in Events /\ mutex'[worker'[v].event] = v
                        /\ worker'[v].next \in 1 .. Seats + 2
      OBVIOUS
    <3>1. CASE v = w
      BY <1>2, <1>4, <1>9, <1>10, <3>1, NamesApart
    <3>2. CASE v # w
      <4>1. /\ worker'[v] = worker[v] /\ worker[v].event \in Events
            /\ mutex[worker[v].event] = v /\ worker[v].next \in 1 .. Seats + 2
        BY <1>9, <3>2 DEF Inv, LocksOK
      <4>2. worker[v].event # e
        BY <1>1, <4>1, NamesApart
      <4> QED BY <1>10, <4>1, <4>2
    <3> QED BY <3>1, <3>2
  <2>2. \A f \in Events : mutex'[f] # Null =>
          worker'[mutex'[f]].pc = "show" /\ worker'[mutex'[f]].event = f
    <3> SUFFICES ASSUME NEW f \in Events, mutex'[f] # Null
                 PROVE  worker'[mutex'[f]].pc = "show" /\ worker'[mutex'[f]].event = f
      OBVIOUS
    <3>1. CASE f = e
      BY <1>4, <1>9, <1>10, <3>1
    <3>2. CASE f # e
      <4>1. mutex'[f] = mutex[f] /\ mutex[f] \in Workers
        BY <1>3, <1>10, <3>2
      <4>2. worker[mutex[f]].pc = "show" /\ worker[mutex[f]].event = f
        BY <4>1 DEF Inv, LocksOK
      <4>3. mutex[f] # w
        BY <1>1, <4>2
      <4> QED BY <1>9, <4>1, <4>2, <4>3
    <3> QED BY <3>1, <3>2
  <2>3. \A v \in Workers : worker'[v].pc = "list" <=> worker[v].pc = "list"
    BY <1>1, <1>4, <1>9
  <2>4. \A v \in Workers : worker'[v].pc = "list" => worker'[v].next \in 1 .. Len(list) + 3
    BY <1>4, <1>9 DEF Inv, LocksOK
  <2> QED BY <1>3, <2>1, <2>2, <2>3, <2>4 DEF Inv, LocksOK
<1>13. \A v \in Workers \ {w} : RestOf(v)' = RestOf(v)
  BY <1>1, RestStays
<1>14. Effects(w, k, q)
  BY <1>1, <1>2, <1>4, <1>5, <1>6, <1>7, <1>8, <1>11, <1>12, <1>13 DEF Effects
<1> QED BY <1>1, <1>14, ExecuteStep DEF q

\* The answer of LIST
LEMMA ListValue ==
  ASSUME NEW s \in Seq(Events)
  PROVE  << 0 >> \o (<<Len(s)>> \o s) = <<0, Len(s)>> \o s
<1>1. Len(s) \in Nat /\ s \in Seq(Items) /\ << 0 >> \in Seq(Items) /\ <<Len(s)>> \in Seq(Items)
  BY SeqMonotonic, LenProperties DEF Items
<1>2. Append(<< 0 >>, Len(s)) = <<0, Len(s)>>
  BY Written
<1>3. Append(<< 0 >>, Len(s)) = << 0 >> \o <<Len(s)>>
  <2>1. Len(s) \in Items
    BY <1>1 DEF Items
  <2> QED BY <1>1, <2>1, AppendIsConcat
<1>4. \A a, b, d \in Seq(Items) : (a \o b) \o d = a \o (b \o d)
  BY ConcatAssociative, SMTT(30)
<1> QED BY <1>1, <1>2, <1>3, <1>4

\* LIST takes effect when it takes the lock of the list.
LEMMA ListLockStep ==
  ASSUME Inv, NEW w \in Workers, ListLock(w)
  PROVE  Refines
<1> DEFINE q == Request(worker[w].read)
           all == <<0, Len(list)>> \o list
<1>1. /\ worker[w].pc = "exec" /\ Op(w) = "LIST"
      /\ UNCHANGED <<emsVars, mutex, hostVars, signalVars, client, asks, pipeVars>>
  BY DEF ListLock, Executing
<1>2. q \in Requests /\ q.op = "LIST" /\ worker[w] \in Servers
  BY <1>1, Executes
<1> HIDE DEF q
<1>3. /\ mutex \in [Events -> Workers \cup {Null}] /\ list \in Seq(Events)
      /\ list' = list /\ seats' = seats /\ count' = count /\ mutex' = mutex /\ host' = host
  BY <1>1 DEF Inv, Types, EventTypes, emsVars, hostVars
<1>4. /\ all \in Seq(Items) /\ Whole(all, "LIST") /\ Prompt(all, "LIST")
  BY <1>3, ListAnswer
<1>5. Service!Succeeds(q) /\ << 0 >> \o Service!Value(q) = all /\ Service!Effect(q)
  <2>1. Service!Value(q) = <<Len(list)>> \o list
    BY <1>2 DEF Service!Value
  <2>2. Service!Succeeds(q) /\ Service!Effect(q)
    BY <1>2, <1>3 DEF Service!Succeeds, Service!Effect
  <2> QED BY <1>3, <2>1, <2>2, ListValue
<1>6. ASSUME NEW k, SetWorker(w, k), k \in Servers, k.session = worker[w].session,
             k.read = <<>>, k.pc \in {"reply", "list"}, Rest(k, seats', list') = all,
             EventTypes', LocksOK'
      PROVE  Refines
  <2>1. worker' = [worker EXCEPT ![w] = k]
    BY <1>6 DEF SetWorker
  <2>2. \A v \in Workers \ {w} : RestOf(v)' = RestOf(v)
    BY <1>1, <2>1, RestStays
  <2> HIDE DEF all
  <2>3. Effects(w, k, q)
    BY <1>1, <1>2, <1>4, <1>5, <1>6, <2>1, <2>2 DEF Effects
  <2> QED BY <1>1, <2>3, ExecuteStep DEF q
<1>7. CASE list = <<>>
  <2> DEFINE k == [worker[w] EXCEPT !.pc = "reply", !.read = <<>>, !.out = <<0, 0>>]
  <2>1. SetWorker(w, k) /\ readers' = readers
    BY <1>7 DEF ListLock, Reply
  <2>2. all = <<0, 0>>
    <3>1. <<0, 0>> \in Seq(Items) /\ Len(<<>>) = 0
      BY DEF Items
    <3> QED BY <1>7, <3>1, ConcatEmptySeq
  <2>3. /\ k \in Servers /\ k.session = worker[w].session /\ k.read = <<>> /\ k.pc = "reply"
        /\ k.out = all
    BY <1>2, <1>4, <2>2, Nothing DEF Servers, WorkerPlaces
  <2> HIDE DEF k, all
  <2>4. worker'[w].pc = "reply" /\ \A v \in Workers \ {w} : worker'[v] = worker[v]
    BY <2>1, <2>3 DEF SetWorker, Inv, Types, WorkerTypes
  <2>5. LocksOK'
    <3>1. UNCHANGED lockVars /\ list' = list /\ host' = host
      BY <1>3, <2>1 DEF lockVars
    <3> QED BY <1>1, <2>4, <3>1, LocksStay
  <2>6. EventTypes'
    BY <1>3, <2>1 DEF Inv, Types, EventTypes
  <2>7. Rest(k, seats', list') = all
    BY <2>3, RestReply
  <2> QED BY <1>6, <2>1, <2>3, <2>5, <2>6, <2>7
<1>8. CASE list # <<>>
  <2> DEFINE k == [worker[w] EXCEPT !.pc = "list", !.read = <<>>, !.next = 1]
  <2>1. SetWorker(w, k) /\ readers' = readers \cup {w}
    BY <1>8 DEF ListLock
  <2>2. /\ k \in Servers /\ k.session = worker[w].session /\ k.read = <<>> /\ k.pc = "list"
        /\ k.next = 1 /\ 1 \in 1 .. Len(list) + 3
    <3>1. 1 \in 1 .. Len(list) + 3
      BY <1>3, LenProperties
    <3> QED BY <1>2, <3>1, Nothing DEF Servers, WorkerPlaces
  <2> HIDE DEF k
  <2>3. Rest(k, seats', list') = all
    BY <1>3, <2>2, RestList
  <2>4. worker'[w] = k /\ \A v \in Workers \ {w} : worker'[v] = worker[v]
    BY <2>1 DEF SetWorker, Inv, Types, WorkerTypes
  <2>5. EventTypes'
    BY <1>3, <2>1 DEF Inv, Types, EventTypes, Threads
  <2>6. LocksOK'
    <3>1. \A v \in Workers : worker'[v].pc = "show" =>
            /\ worker'[v].event \in Events /\ mutex[worker'[v].event] = v
            /\ worker'[v].next \in 1 .. Seats + 2
      BY <2>2, <2>4 DEF Inv, LocksOK
    <3>2. \A f \in Events : mutex[f] # Null =>
            worker'[mutex[f]].pc = "show" /\ worker'[mutex[f]].event = f
      <4> SUFFICES ASSUME NEW f \in Events, mutex[f] # Null
                   PROVE  worker'[mutex[f]].pc = "show" /\ worker'[mutex[f]].event = f
        OBVIOUS
      <4>1. mutex[f] \in Workers /\ worker[mutex[f]].pc = "show" /\ worker[mutex[f]].event = f
        BY <1>3 DEF Inv, LocksOK
      <4> QED BY <1>1, <2>4, <4>1
    <3>3. \A v \in Workers : v \in readers' <=> worker'[v].pc = "list"
      BY <2>1, <2>2, <2>4 DEF Inv, LocksOK
    <3>4. \A v \in Workers : worker'[v].pc = "list" => worker'[v].next \in 1 .. Len(list) + 3
      BY <2>2, <2>4 DEF Inv, LocksOK
    <3>5. Host \in readers' <=> host.pc = "event"
      BY <2>1, NamesApart DEF Inv, LocksOK
    <3> QED BY <1>3, <3>1, <3>2, <3>3, <3>4, <3>5 DEF LocksOK
  <2> QED BY <1>6, <2>1, <2>2, <2>3, <2>5, <2>6
<1> QED BY <1>7, <1>8

\* A worker that has blocked the signal waits for sessions.
LEMMA MaskStep ==
  ASSUME Inv, NEW w \in Workers, Mask(w)
  PROVE  Refines
<1>1. /\ worker[w].pc = "start" /\ worker' = [worker EXCEPT ![w] = Idle] /\ up
      /\ UNCHANGED <<emsVars, lockVars, hostVars, signalVars, client, asks, pipeVars>>
  BY DEF Mask, SetWorker, CanRun
<1>2. /\ worker \in [Workers -> Servers] /\ Idle \in Servers
      /\ Idle.session = Null /\ Idle.pc = "fetch"
  BY Nothing DEF Idle, Servers, WorkerPlaces, Inv, Types, WorkerTypes
<1>3. /\ worker'[w] = Idle /\ \A v \in Workers \ {w} : worker'[v] = worker[v]
      /\ list' = list /\ seats' = seats /\ count' = count /\ host' = host /\ up' = up
      /\ reg' = reg /\ queue' = queue /\ req' = req /\ res' = res /\ client' = client
  BY <1>1, <1>2 DEF emsVars, hostVars, signalVars, pipeVars
<1>4. worker[w].session = Null /\ \A c \in Clients : ~Serves(w, c) /\ ~Serves(w, c)'
  BY <1>1, <1>2, <1>3, NamesApart DEF Inv, Types, WorkerTypes, Serves
<1>5. /\ \A v \in Workers, c \in Clients : Serves(v, c)' <=> Serves(v, c)
      /\ \A c \in Clients : IsServed(c)' <=> IsServed(c)
  BY <1>3, <1>4 DEF Serves, IsServed
<1>6. \A v \in Workers \ {w} : RestOf(v)' = RestOf(v)
  BY <1>1, RestStays
<1>7. EventTypes' /\ HostTypes' /\ ClientTypes'
  BY <1>1, <1>3 DEF Inv, Types, EventTypes, HostTypes, ClientTypes, lockVars, hostVars, signalVars
<1>8. WorkerTypes'
  BY <1>1, <1>2, <1>3 DEF Inv, Types, WorkerTypes, Serves
<1>9. LocksOK'
  BY <1>1, <1>2, <1>3, LocksStay
<1>10. Talks'
  <2>1. CalmOK' /\ AloneOK'
    BY <1>3, <1>5 DEF Inv, Talks, CalmOK, AloneOK
  <2>2. SessionsDiffer'
    BY <1>2, <1>3 DEF Inv, Talks, SessionsDiffer, Serves
  <2>3. SessionOK'
    <3> SUFFICES ASSUME NEW v \in Workers, NEW d \in Clients, Serves(v, d)'
                 PROVE  Session(v, worker'[v], client'[d], worker'[v].read \o req'[d],
                                res'[d], RestOf(v)')
      BY Zenon DEF SessionOK, Session, ReadOK, Form, Prompt, Whole, Request, Complete
    <3>1. v # w /\ Serves(v, d)
      BY <1>4, <1>5
    <3> QED BY <1>3, <1>6, <3>1, SMTT(30) DEF Inv, Talks, SessionOK
  <2> QED BY <2>1, <2>2, <2>3 DEF Talks
<1>11. LineOK'
  <2>1. Line' = Line /\ \A i \in DOMAIN Line : Line[i] \in Clients
    BY <1>3, LineTypes DEF Line, Inv
  <2> QED BY <1>3, <1>5, <2>1 DEF Inv, LineOK
<1>12. \A d \in Clients :
         PhaseOf(d)' = PhaseOf(d) /\ AskedOf(d)' = AskedOf(d) /\ TellsOf(d)' = TellsOf(d)
  <2> SUFFICES ASSUME NEW d \in Clients
               PROVE  PhaseOf(d)' = PhaseOf(d) /\ AskedOf(d)' = AskedOf(d) /\ TellsOf(d)' = TellsOf(d)
    OBVIOUS
  <2>1. /\ \A v \in Workers : (Serves(v, d) <=> Serves(v, d)')
        /\ \A v \in Workers : Serves(v, d) => worker'[v] = worker[v] /\ RestOf(v)' = RestOf(v)
    BY <1>3, <1>4, <1>5, <1>6
  <2> QED BY <1>3, <1>7, <1>10, <2>1, ViewsKept DEF Inv, Types, Talks
<1>13. UNCHANGED <<phases, askeds, answers>>
  BY <1>12 DEF phases, askeds, answers
<1>14. Inv'
  BY <1>7, <1>8, <1>9, <1>10, <1>11 DEF Inv, Types
<1> QED BY <1>3, <1>13, <1>14 DEF Refines, Service!vars

\* A worker fetches the first session of the queue.
LEMMA FetchStep ==
  ASSUME Inv, NEW w \in Workers, Fetch(w)
  PROVE  Refines
<1> DEFINE c == Head(queue)
           k == [Idle EXCEPT !.pc = "openReq", !.session = c]
<1>1. /\ worker[w].pc = "fetch" /\ queue # <<>> /\ worker' = [worker EXCEPT ![w] = k]
      /\ queue' = Tail(queue)
      /\ UNCHANGED <<emsVars, lockVars, reg, host, signalVars, client, asks, pipeVars>>
  BY DEF Fetch, SetWorker
<1>2. /\ queue \in Seq(Clients) /\ c \in Clients /\ Tail(queue) \in Seq(Clients)
      /\ Len(Tail(queue)) = Len(queue) - 1 /\ Len(queue) <= QueueSize /\ Len(queue) \in Nat
  BY <1>1, HeadTailProperties, LenProperties DEF Inv, Types, HostTypes
<1>3. PICK d \in Clients : d = c
  BY <1>2
<1>4. /\ worker \in [Workers -> Servers] /\ k \in Servers
      /\ k.session = d /\ k.pc = "openReq" /\ k.read = <<>>
  BY <1>3, Nothing DEF Idle, Servers, WorkerPlaces, Inv, Types, WorkerTypes
<1> HIDE DEF c, k
<1>5. /\ worker'[w] = k /\ \A v \in Workers \ {w} : worker'[v] = worker[v]
      /\ list' = list /\ seats' = seats /\ count' = count /\ host' = host /\ up' = up
      /\ reg' = reg /\ req' = req /\ res' = res /\ client' = client
  BY <1>1, <1>4 DEF emsVars, signalVars, pipeVars
<1>6. Line = <<d>> \o Line' /\ Line' \in Seq(Clients)
  <2> DEFINE who == IF host.who = Null THEN <<>> ELSE <<host.who>>
  <2>1. who \in Seq(Clients) /\ reg \in Seq(Clients)
    BY DEF Inv, Types, HostTypes, Hosts
  <2>2. Line = (queue \o who) \o reg /\ Line' = (Tail(queue) \o who) \o reg
    BY <1>1, <1>5 DEF Line
  <2>3. <<d>> \in Seq(Clients) /\ queue = <<d>> \o Tail(queue)
    <3>1. \A a, b \in Seq(Clients) : b # <<>> => Append(a, Head(b)) \o Tail(b) = a \o b
      BY Moved
    <3>2. Append(<<>>, Head(queue)) \o Tail(queue) = <<>> \o queue /\ <<>> \in Seq(Clients)
      BY <1>1, <1>2, <3>1
    <3> QED BY <1>2, <1>3, <3>2, Written, ConcatEmptySeq DEF c
  <2> HIDE DEF who
  <2>4. Tail(queue) \o who \in Seq(Clients) /\ (Tail(queue) \o who) \o reg \in Seq(Clients)
    BY <1>2, <2>1, ConcatProperties
  <2>5. \A x, y, z \in Seq(Clients) : (x \o y) \o z = x \o (y \o z)
    BY ConcatAssociative
  <2>6. (<<d>> \o Tail(queue)) \o who = <<d>> \o (Tail(queue) \o who)
    BY <1>2, <2>1, <2>3, <2>5
  <2>7. (<<d>> \o (Tail(queue) \o who)) \o reg = <<d>> \o ((Tail(queue) \o who) \o reg)
    BY <2>1, <2>3, <2>4, <2>5
  <2> QED BY <2>2, <2>3, <2>4, <2>6, <2>7
<1>7. /\ DOMAIN Line = 1 .. Len(Line') + 1 /\ DOMAIN Line' = 1 .. Len(Line') /\ Len(Line') \in Nat
      /\ Line[1] = d /\ \A i \in 1 .. Len(Line') : Line[i + 1] = Line'[i] /\ Line'[i] \in Clients
  <2>1. <<d>> \in Seq(Clients) /\ Len(<<d>>) = 1 /\ <<d>>[1] = d
    OBVIOUS
  <2>2. /\ Line \in Seq(Clients) /\ Len(Line) = 1 + Len(Line') /\ Len(Line') \in Nat
        /\ \A i \in 1 .. 1 + Len(Line') : Line[i] = IF i <= 1 THEN <<d>>[i] ELSE Line'[i - 1]
    <3>1. /\ <<d>> \o Line' \in Seq(Clients) /\ Len(<<d>> \o Line') = Len(<<d>>) + Len(Line')
          /\ \A i \in 1 .. Len(<<d>>) + Len(Line') :
               (<<d>> \o Line')[i] = IF i <= Len(<<d>>) THEN <<d>>[i] ELSE Line'[i - Len(<<d>>)]
      BY <1>6, <2>1, ConcatProperties
    <3> QED BY <1>6, <2>1, <3>1, LenProperties
  <2>3. DOMAIN Line = 1 .. Len(Line) /\ DOMAIN Line' = 1 .. Len(Line')
    BY <1>6, <2>2, LenProperties
  <2>4. Line[1] = d
    BY <2>1, <2>2
  <2>5. \A i \in 1 .. Len(Line') : Line[i + 1] = Line'[i]
    <3> SUFFICES ASSUME NEW i \in 1 .. Len(Line')
                 PROVE  Line[i + 1] = Line'[i]
      OBVIOUS
    <3>1. i + 1 \in 1 .. 1 + Len(Line') /\ ~(i + 1 <= 1) /\ (i + 1) - 1 = i
      BY <2>2
    <3> QED BY <2>2, <3>1
  <2>6. \A i \in 1 .. Len(Line') : Line'[i] \in Clients
    BY <1>6, ElementOfSeq
  <2> QED BY <2>2, <2>3, <2>4, <2>5, <2>6
<1>8. client[d].pc \in {"openReq", "dead"} /\ ~IsServed(d)
  <2>1. 1 \in DOMAIN Line
    BY <1>7
  <2> QED BY <1>7, <2>1 DEF Inv, LineOK
<1>9. /\ \A i \in 1 .. Len(Line') :
           Line'[i] # d /\ client[Line'[i]].pc \in {"openReq", "dead"} /\ ~IsServed(Line'[i])
      /\ \A i, j \in 1 .. Len(Line') : i # j => Line'[i] # Line'[j]
  <2>1. \A i \in 1 .. Len(Line') : i + 1 \in DOMAIN Line /\ i + 1 # 1 /\ 1 \in DOMAIN Line
    BY <1>7
  <2>2. \A i, j \in DOMAIN Line : i # j => Line[i] # Line[j]
    BY DEF Inv, LineOK
  <2>3. \A i \in 1 .. Len(Line') :
           Line'[i] # d /\ client[Line'[i]].pc \in {"openReq", "dead"} /\ ~IsServed(Line'[i])
    BY <1>7, <2>1, <2>2 DEF Inv, LineOK
  <2>4. \A i, j \in 1 .. Len(Line') : i # j => i + 1 # j + 1
    BY <1>7
  <2> QED BY <1>7, <2>1, <2>2, <2>3, <2>4
<1>10. /\ Serves(w, d)' /\ \A v \in Workers : ~Serves(v, d)
       /\ \A x \in Clients \ {d} : ~Serves(w, x) /\ ~Serves(w, x)'
       /\ \A v \in Workers \ {w} : \A x \in Clients : Serves(v, x)' <=> Serves(v, x)
  BY <1>1, <1>4, <1>5, <1>8, NamesApart DEF Inv, Types, WorkerTypes, Serves, IsServed
<1>11. \A x \in Clients \ {d} : IsServed(x)' <=> IsServed(x)
  BY <1>10 DEF IsServed
<1>12. LineOK'
  BY <1>5, <1>7, <1>9, <1>11 DEF LineOK
<1>13. EventTypes' /\ HostTypes' /\ ClientTypes'
  <2>1. EventTypes' /\ ClientTypes'
    BY <1>1, <1>5 DEF Inv, Types, EventTypes, ClientTypes, lockVars
  <2>2. Len(queue') <= QueueSize /\ queue' \in Seq(Clients)
    BY <1>1, <1>2, NamesApart
  <2> QED BY <1>1, <1>5, <2>1, <2>2 DEF Inv, Types, HostTypes, signalVars
<1>14. WorkerTypes'
  <2>1. worker' \in [Workers -> Servers]
    BY <1>1, <1>4
  <2>2. up /\ \A v \in Workers : Serves(v, Null)' <=> worker'[v].pc \in {"start", "fetch", "gone"}
    BY <1>1, <1>4, <1>5, NamesApart DEF Inv, Types, WorkerTypes, Serves
  <2> QED BY <1>5, <2>1, <2>2 DEF WorkerTypes
<1>15. LocksOK'
  BY <1>1, <1>4, <1>5, LocksStay
<1>16. Rest(k, seats', list') = <<>> /\ \A v \in Workers \ {w} : RestOf(v)' = RestOf(v)
  BY <1>1, <1>4, RestStays, RestNone
<1>17. /\ Alone(client[d], req[d], res[d]) /\ Calm(client[d], res[d])
       /\ req[d] = <<>> /\ res[d] = <<>>
  BY <1>8, LonelyFacts DEF Alone, Calm
<1>18. Talks'
  <2>1. CalmOK'
    BY <1>5 DEF Inv, Talks, CalmOK
  <2>2. AloneOK'
    <3> SUFFICES ASSUME NEW x \in Clients, ~IsServed(x)'
                 PROVE  Alone(client'[x], req'[x], res'[x])
      BY DEF AloneOK, Alone, Prompt, Whole
    <3>1. x # d
      BY <1>10 DEF IsServed
    <3> QED BY <1>5, <1>11, <3>1 DEF Inv, Talks, AloneOK
  <2>3. SessionsDiffer'
    <3>1. \A v \in Workers \ {w} : worker[v].session # d
      BY <1>10 DEF Serves
    <3> QED BY <1>4, <1>5, <3>1 DEF Inv, Talks, SessionsDiffer, Serves
  <2>4. SessionOK'
    <3> SUFFICES ASSUME NEW v \in Workers, NEW x \in Clients, Serves(v, x)'
                 PROVE  Session(v, worker'[v], client'[x], worker'[v].read \o req'[x],
                                res'[x], RestOf(v)')
      BY Zenon DEF SessionOK, Session, ReadOK, Form, Prompt, Whole, Request, Complete
    <3>1. CASE v = w
      <4>1. x = d
        BY <1>10, <3>1
      <4>2. ReadOK(k) /\ k.read \o req[d] = <<>>
        BY <1>4, <1>17, Nothing DEF ReadOK
      <4>3. RestOf(w)' = <<>>
        BY <1>5, <1>16, RestIs
      <4>4. Session(w, k, client[d], <<>>, <<>>, <<>>)
        BY <1>4, <1>8, <4>2, Nothing DEF Session
      <4> QED BY <1>5, <1>17, <3>1, <4>1, <4>2, <4>3, <4>4
    <3>2. CASE v # w
      <4>1. Serves(v, x)
        BY <1>10, <3>2
      <4> QED BY <1>5, <1>16, <3>2, <4>1 DEF Inv, Talks, SessionOK
    <3> QED BY <3>1, <3>2, SMTT(30)
  <2> QED BY <2>1, <2>2, <2>3, <2>4 DEF Talks
<1>19. Inv'
  BY <1>12, <1>13, <1>14, <1>15, <1>18 DEF Inv, Types
<1>20. OthersKept(d)
  <2> SUFFICES ASSUME NEW x \in Clients \ {d}
               PROVE  PhaseOf(x)' = PhaseOf(x) /\ AskedOf(x)' = AskedOf(x) /\ TellsOf(x)' = TellsOf(x)
    BY DEF OthersKept
  <2>1. /\ \A v \in Workers : (Serves(v, x) <=> Serves(v, x)')
        /\ \A v \in Workers : Serves(v, x) => worker'[v] = worker[v] /\ RestOf(v)' = RestOf(v)
    BY <1>5, <1>10, <1>16
  <2> QED BY <1>5, <1>13, <1>18, <2>1, ViewsKept DEF Inv, Types, Talks
<1>21. AskedOf(d)' = AskedOf(d)
  <2>1. AskedOf(d) = AskedFor(<<>>)
    BY <1>8, <1>17, UnservedViews DEF Inv, Types
  <2>2. AskedOf(d)' = AskedFor(<<>>)
    <3>1. AskedOf(d)' = AskedFor(worker'[w].read \o req'[d])
      BY <1>10, <1>18, ServedViewsNext DEF Talks
    <3>2. worker'[w].read = <<>> /\ req'[d] = <<>> /\ <<>> \o <<>> = <<>>
      BY <1>4, <1>5, <1>17
    <3> QED BY <3>1, <3>2
  <2> QED BY <2>1, <2>2
<1>22. PhaseOf(d)' = PhaseOf(d) /\ TellsOf(d)' = TellsOf(d)
  BY <1>5, <1>8 DEF PhaseOf, TellsOf
<1>23. UNCHANGED <<emsVars, up>>
  BY <1>1, <1>5
<1> QED BY <1>19, <1>20, <1>21, <1>22, <1>23, Unseen DEF Refines

\* Both sides open a pipe.
LEMMA OpenStep ==
  ASSUME Inv, NEW w \in Workers, NEW c \in Clients,
         NEW side \in {"openReq", "openRes"}, NEW next \in {"openRes", "ack"},
         Open(w, c, side, next)
  PROVE  Refines
<1> DEFINE k == [worker[w] EXCEPT !.pc = next]
           l == [client[c] EXCEPT !.pc = next]
<1>1. /\ Serves(w, c) /\ worker[w].pc = side /\ client[c].pc = side
      /\ client' = [client EXCEPT ![c] = l]
      /\ UNCHANGED <<emsVars, lockVars, hostVars, signalVars, asks, pipeVars>>
  BY DEF Open, SetClient
<1>2. /\ Session(w, worker[w], client[c], worker[w].read \o req[c], res[c], RestOf(w))
      /\ Calm(client[c], res[c]) /\ req[c] \in Seq(Pieces) /\ res[c] \in Seq(Items)
      /\ Len(res[c]) <= PipeSize /\ worker[w] \in Servers /\ worker[w].session = c
      /\ client[c] \in Callers /\ worker[w].read \in Seq(Pieces)
  BY <1>1, SessionFacts
<1>3. worker' = [worker EXCEPT ![w] = k]
  BY DEF Open, Inv, Types, WorkerTypes
<1>4. k \in Servers /\ k.session = c /\ k.pc = next /\ k.read = worker[w].read
  BY <1>2 DEF Servers, WorkerPlaces
<1>5. l \in Callers /\ l.pc = next /\ l.got = client[c].got
  BY <1>2 DEF Callers, ClientPlaces
<1> HIDE DEF k, l
<1>6. /\ worker[w].read = <<>> /\ worker[w].read \o req[c] = <<>> /\ res[c] = <<>>
      /\ client[c].got = <<>>
  BY <1>1, <1>2 DEF Session, ReadOK, Calm
<1>7. Calm(l, res[c])
  BY <1>5, <1>6 DEF Calm
<1>8. Rest(k, seats', list') = <<>> /\ \A v \in Workers \ {w} : RestOf(v)' = RestOf(v)
  BY <1>1, <1>3, <1>4, RestStays, RestNone
<1>9. Session(w, k, l, k.read \o req[c], res[c], Rest(k, seats', list'))
  <2>1. ReadOK(k)
    BY <1>4, <1>6 DEF ReadOK
  <2> QED BY <1>4, <1>5, <1>6, <1>8, <2>1, Nothing DEF Session
<1>10. /\ WorkerTypes' /\ ClientTypes' /\ LineOK' /\ Talks' /\ OthersKept(c)
       /\ PhaseOf(c)' = PhaseFor(l)
       /\ AskedOf(c) = AskedFor(worker[w].read \o req[c])
       /\ AskedOf(c)' = AskedFor(k.read \o req[c])
       /\ TellsOf(c)' = TellsFor(l, (l.got \o res[c]) \o Rest(k, seats', list'))
  <2>1. WorkerTo(w, c, k)
    BY <1>3, <1>4, <1>8, NamesApart DEF WorkerTo
  <2>2. ClientTo(c, l, req[c], res[c])
    BY <1>1, <1>2 DEF ClientTo, pipeVars, Inv, Types, ClientTypes
  <2>3. UNCHANGED <<reg, queue, host.who, up>>
    BY <1>1 DEF hostVars, signalVars
  <2>4. k.session # Null
    BY <1>4, NamesApart
  <2> QED BY <1>1, <1>2, <1>4, <1>5, <1>7, <1>9, <2>1, <2>2, <2>3, <2>4, SessionStep
<1>11. EventTypes' /\ HostTypes' /\ LocksOK'
  <2>1. EventTypes' /\ HostTypes'
    BY <1>1 DEF Inv, Types, EventTypes, HostTypes, emsVars, lockVars, hostVars, signalVars
  <2>2. worker'[w] = k /\ \A v \in Workers \ {w} : worker'[v] = worker[v]
    BY <1>3 DEF Inv, Types, WorkerTypes
  <2>3. LocksOK'
    BY <1>1, <1>4, <2>2, LocksStay DEF emsVars, hostVars
  <2> QED BY <2>1, <2>3
<1>12. PhaseOf(c)' = PhaseOf(c) /\ TellsOf(c)' = TellsOf(c) /\ AskedOf(c)' = AskedOf(c)
  BY <1>1, <1>4, <1>5, <1>10 DEF PhaseOf, PhaseFor, TellsOf, TellsFor
<1>13. Inv' /\ UNCHANGED <<emsVars, up>>
  BY <1>1, <1>10, <1>11 DEF Inv, Types, signalVars
<1> QED BY <1>10, <1>12, <1>13, Unseen DEF Refines

\* A step of a worker
LEMMA WorkerStepRefines ==
  ASSUME Inv, NEW w \in Workers, WorkerStep(w)
  PROVE  Refines
<1>1. CASE Mask(w)          BY <1>1, MaskStep
<1>2. CASE Fetch(w)         BY <1>2, FetchStep
<1>3. ASSUME NEW c \in Clients, OpenRequest(w, c)
      PROVE  Refines
  BY <1>3, OpenStep DEF OpenRequest
<1>4. ASSUME NEW c \in Clients, OpenResponse(w, c)
      PROVE  Refines
  BY <1>4, OpenStep DEF OpenResponse
<1>5. CASE Acknowledge(w)   BY <1>5, AcknowledgeStep
<1>6. CASE ReadOp(w)        BY <1>6, ReadOpStep
<1>7. CASE ReadId(w)        BY <1>7, ReadIdStep
<1>8. CASE ReadArguments(w) BY <1>8, ReadArgumentsStep
<1>9. CASE EndOfFile(w)     BY <1>9, EndOfFileStep
<1>10. CASE Create(w)       BY <1>10, CreateStep
<1>11. CASE NotFound(w)     BY <1>11, NotFoundStep
<1>12. CASE Reserve(w)      BY <1>12, ReserveStep
<1>13. CASE ShowLock(w)     BY <1>13, ShowLockStep
<1>14. CASE ShowItem(w)     BY <1>14, ShowItemStep
<1>15. CASE ShowEnd(w)      BY <1>15, ShowEndStep
<1>16. CASE ListLock(w)     BY <1>16, ListLockStep
<1>17. CASE ListItem(w)     BY <1>17, ListItemStep
<1>18. CASE ListEnd(w)      BY <1>18, ListEndStep
<1>19. CASE Answer(w)       BY <1>19, AnswerStep
<1> QED
  BY <1>1, <1>2, <1>3, <1>4, <1>5, <1>6, <1>7, <1>8, <1>9, <1>10, <1>11, <1>12, <1>13, <1>14,
     <1>15, <1>16, <1>17, <1>18, <1>19 DEF WorkerStep

\* A step of a client
LEMMA ClientStepRefines ==
  ASSUME Inv, NEW c \in Clients, ClientStep(c) \/ Die(c)
  PROVE  Refines
<1>1. CASE Register(c)       BY <1>1, RegisterStep
<1>2. CASE ReadSessionId(c)  BY <1>2, ReadSessionIdStep
<1>3. CASE Ask(c)            BY <1>3, AskStep
<1>4. CASE WriteId(c)        BY <1>4, WriteIdStep
<1>5. CASE WriteArguments(c) BY <1>5, WriteArgumentsStep
<1>6. CASE ReadAnswer(c)     BY <1>6, ReadAnswerStep
<1>7. CASE Quit(c)           BY <1>7, QuitStep
<1>8. CASE WriteQuitId(c)    BY <1>8, WriteQuitIdStep
<1>9. CASE Disconnected(c)   BY <1>9, DisconnectedStep
<1>10. CASE Die(c)           BY <1>10, DieStep
<1> QED
  BY <1>1, <1>2, <1>3, <1>4, <1>5, <1>6, <1>7, <1>8, <1>9, <1>10 DEF ClientStep

------------------------------------------------------------------------------
(* Steps of the host *)

\* A step of the host that leaves the line of clients as it was
LEMMA HostMove ==
  ASSUME Inv, UNCHANGED <<emsVars, mutex, up, worker, client, asks, pipeVars>>, HostTypes',
         readers' \subseteq Threads, \A w \in Workers : w \in readers' <=> w \in readers,
         Host \in readers' <=> host'.pc = "event", Line' = Line
  PROVE  Refines
<1>1. UNCHANGED <<list, seats, worker, client, asks, req, res>>
  BY DEF emsVars, pipeVars
<1>2. /\ ClientTypes' /\ Talks' /\ \A c \in Clients : IsServed(c)' <=> IsServed(c)
      /\ UNCHANGED <<phases, askeds, answers>>
  BY <1>1, QuietStep
<1>3. EventTypes' /\ WorkerTypes'
  BY <1>1 DEF Inv, Types, EventTypes, WorkerTypes, Serves, emsVars
<1>4. LocksOK'
  BY <1>1 DEF Inv, LocksOK
<1>5. LineOK'
  BY <1>1, <1>2, LineTypes DEF Inv, LineOK
<1>6. Inv'
  BY <1>2, <1>3, <1>4, <1>5 DEF Inv, Types
<1> QED BY <1>2, <1>6 DEF Refines, Service!vars, emsVars

\* The parts of the line that the host moves
LEMMA LineParts ==
  ASSUME Types
  PROVE  /\ queue \in Seq(Clients) /\ reg \in Seq(Clients)
         /\ host.who = Null => Line = queue \o reg
         /\ host.who # Null => Line = Append(queue, host.who) \o reg /\ host.who \in Clients
<1>1. queue \in Seq(Clients) /\ reg \in Seq(Clients) /\ host.who \in Clients \cup {Null}
  BY DEF Types, HostTypes, Hosts
<1>2. host.who = Null => Line = queue \o reg
  BY <1>1, ConcatEmptySeq DEF Line
<1>3. host.who # Null => Line = Append(queue, host.who) \o reg /\ host.who \in Clients
  BY <1>1, AppendIsConcat DEF Line
<1> QED BY <1>1, <1>2, <1>3

\* A step of the host that fetches no registration and queues no session
LEMMA PlainHostStep ==
  ASSUME Inv, HostCheck \/ HostEnter \/ HostDisplay \/ HostPrint \/ HostDisplayed
                \/ Signal \/ Handle
  PROVE  Refines
<1>1. /\ host \in Hosts /\ (host.who = Null <=> host.pc # "push")
      /\ reg \in Seq(Clients) /\ queue \in Seq(Clients) /\ Len(queue) <= QueueSize
      /\ flag \in BOOLEAN /\ up \in BOOLEAN /\ handler \in Threads \cup {Null}
      /\ signals \in 0 .. MaxSignals /\ MaxSignals \in Nat
      /\ readers \subseteq Threads /\ (Host \in readers <=> host.pc = "event")
  BY NamesApart DEF Inv, Types, EventTypes, HostTypes, LocksOK
<1>2. /\ UNCHANGED <<emsVars, mutex, up, worker, client, asks, pipeVars>>
      /\ reg' = reg /\ queue' = queue
  <2>1. CASE HostCheck      BY <2>1 DEF HostCheck, lockVars
  <2>2. CASE HostEnter      BY <2>2 DEF HostEnter, lockVars, signalVars
  <2>3. CASE HostDisplay    BY <2>3 DEF HostDisplay, signalVars
  <2>4. CASE HostPrint      BY <2>4 DEF HostPrint, lockVars, signalVars
  <2>5. CASE HostDisplayed  BY <2>5 DEF HostDisplayed, signalVars
  <2>6. CASE Signal         BY <2>6 DEF Signal, lockVars
  <2>7. CASE Handle         BY <2>7 DEF Handle, lockVars, hostVars
  <2> QED BY <2>1, <2>2, <2>3, <2>4, <2>5, <2>6, <2>7
<1>3. /\ host' \in Hosts /\ host'.who = host.who /\ (host.pc = "push" <=> host'.pc = "push")
      /\ readers' \subseteq Threads /\ (Host \in readers' <=> host'.pc = "event")
      /\ \A w \in Workers : w \in readers' <=> w \in readers
  <2>1. CASE HostCheck
    BY <1>1, <2>1 DEF HostCheck, HostAt, lockVars, Hosts, HostPlaces
  <2>2. CASE HostEnter
    BY <1>1, <2>2 DEF HostEnter, HostAt, lockVars, Hosts, HostPlaces
  <2>3. CASE HostDisplay
    BY <1>1, <2>3, NamesApart DEF HostDisplay, HostAt, Hosts, HostPlaces, Threads
  <2>4. CASE HostPrint
    BY <1>1, <2>4, SMTT(30) DEF HostPrint, HostAt, lockVars, Hosts, HostPlaces
  <2>5. CASE HostDisplayed
    BY <1>1, <2>5, NamesApart DEF HostDisplayed, HostAt, Hosts, HostPlaces
  <2>6. CASE Signal
    <3>1. readers' = readers
      BY <2>6 DEF Signal, lockVars
    <3>2. \/ host' = host
          \/ host.pc = "read" /\ host' = [host EXCEPT !.pc = "eintr"]
      BY <1>1, <2>6 DEF Signal, Hosts
    <3> QED BY <1>1, <3>1, <3>2 DEF Hosts, HostPlaces
  <2>7. CASE Handle
    BY <1>1, <2>7 DEF Handle, lockVars, hostVars
  <2> QED BY <2>1, <2>2, <2>3, <2>4, <2>5, <2>6, <2>7
<1>4. flag' \in BOOLEAN /\ handler' \in Threads \cup {Null} /\ signals' \in 0 .. MaxSignals
  <2>1. CASE HostCheck      BY <1>1, <2>1 DEF HostCheck
  <2>2. CASE HostEnter      BY <1>1, <2>2 DEF HostEnter, signalVars
  <2>3. CASE HostDisplay    BY <1>1, <2>3 DEF HostDisplay, signalVars
  <2>4. CASE HostPrint      BY <1>1, <2>4 DEF HostPrint, signalVars
  <2>5. CASE HostDisplayed  BY <1>1, <2>5 DEF HostDisplayed, signalVars
  <2>6. CASE Signal         BY <1>1, <2>6 DEF Signal, Threads
  <2>7. CASE Handle         BY <1>1, <2>7 DEF Handle
  <2> QED BY <2>1, <2>2, <2>3, <2>4, <2>5, <2>6, <2>7
<1>5. HostTypes'
  BY <1>1, <1>2, <1>3, <1>4 DEF HostTypes
<1>6. Line' = Line
  BY <1>2, <1>3 DEF Line
<1> QED BY <1>2, <1>3, <1>5, <1>6, HostMove

\* The host reads a registration.
LEMMA HostReadStep ==
  ASSUME Inv, HostRead
  PROVE  Refines
<1>1. /\ host \in Hosts /\ host.pc = "read" /\ host.who = Null /\ reg # <<>>
      /\ reg \in Seq(Clients) /\ queue \in Seq(Clients) /\ Len(queue) <= QueueSize
      /\ flag \in BOOLEAN /\ up \in BOOLEAN /\ handler \in Threads \cup {Null}
      /\ signals \in 0 .. MaxSignals
      /\ readers \subseteq Threads /\ (Host \in readers <=> host.pc = "event")
  BY DEF HostRead, HostAt, Inv, Types, EventTypes, HostTypes, LocksOK
<1>2. /\ host' = [host EXCEPT !.pc = "push", !.who = Head(reg)] /\ reg' = Tail(reg)
      /\ UNCHANGED <<emsVars, mutex, readers, queue, flag, handler, signals, up, worker,
                     client, asks, pipeVars>>
  BY DEF HostRead, lockVars, signalVars
<1>3. Head(reg) \in Clients /\ Tail(reg) \in Seq(Clients) /\ Head(reg) # Null
  BY <1>1, NamesApart, HeadTailProperties
<1>4. host' \in Hosts /\ host'.pc = "push" /\ host'.who = Head(reg)
  BY <1>1, <1>2, <1>3 DEF Hosts, HostPlaces
<1>5. HostTypes'
  BY <1>1, <1>2, <1>3, <1>4 DEF HostTypes
<1>6. Line' = Line
  <2>1. Line = queue \o reg
    BY <1>1, LineParts DEF Inv
  <2>2. Line' = (queue \o <<Head(reg)>>) \o Tail(reg)
    BY <1>2, <1>3, <1>4 DEF Line
  <2>3. queue \o <<Head(reg)>> = Append(queue, Head(reg))
    BY <1>1, <1>3, AppendIsConcat
  <2>4. \A a, b \in Seq(Clients) : b # <<>> => Append(a, Head(b)) \o Tail(b) = a \o b
    BY Moved
  <2> QED BY <1>1, <2>1, <2>2, <2>3, <2>4
<1> QED BY <1>1, <1>2, <1>4, <1>5, <1>6, HostMove

\* The host queues a session.
LEMMA HostPushStep ==
  ASSUME Inv, HostPush
  PROVE  Refines
<1>1. /\ host \in Hosts /\ host.pc = "push" /\ host.who # Null
      /\ reg \in Seq(Clients) /\ queue \in Seq(Clients) /\ Len(queue) < QueueSize
      /\ flag \in BOOLEAN /\ up \in BOOLEAN /\ handler \in Threads \cup {Null}
      /\ signals \in 0 .. MaxSignals
      /\ readers \subseteq Threads /\ (Host \in readers <=> host.pc = "event")
  BY DEF HostPush, HostAt, Inv, Types, EventTypes, HostTypes, LocksOK
<1>2. /\ host' = [host EXCEPT !.pc = "check", !.who = Null]
      /\ queue' = Append(queue, host.who)
      /\ UNCHANGED <<emsVars, mutex, readers, reg, flag, handler, signals, up, worker,
                     client, asks, pipeVars>>
  BY DEF HostPush, lockVars, signalVars
<1>3. host' \in Hosts /\ host'.pc = "check" /\ host'.who = Null /\ host.who \in Clients
  BY <1>1, <1>2 DEF Hosts, HostPlaces
<1>4. queue' \in Seq(Clients) /\ Len(queue') <= QueueSize
  <2>1. queue' \in Seq(Clients) /\ Len(queue') = Len(queue) + 1 /\ Len(queue) \in Nat
    BY <1>1, <1>2, <1>3, AppendProperties, LenProperties
  <2> QED BY <1>1, <2>1, NamesApart
<1>5. HostTypes'
  BY <1>1, <1>2, <1>3, <1>4 DEF HostTypes
<1>6. Line' = Line
  <2>1. Line = Append(queue, host.who) \o reg
    BY <1>1, LineParts DEF Inv
  <2>2. Line' = (Append(queue, host.who) \o <<>>) \o reg
    BY <1>2, <1>3 DEF Line
  <2> QED BY <1>2, <1>4, <2>1, <2>2, ConcatEmptySeq
<1> QED BY <1>1, <1>2, <1>3, <1>5, <1>6, HostMove

\* A signal ends the server: what has not been executed is lost, and with it the
\* answers of which the clients have not been sent all.
LEMMA SignalKillsStep ==
  ASSUME Inv, SignalKills
  PROVE  Refines
<1>1. /\ up /\ up' = FALSE /\ flag' = FALSE /\ handler' = Null
      /\ signals' = signals + 1 /\ signals < MaxSignals
      /\ worker' = [w \in Workers |-> [Idle EXCEPT !.pc = "gone"]]
      /\ host' = [pc |-> "check", then |-> "read", next |-> 1, who |-> Null]
      /\ reg' = <<>> /\ queue' = <<>> /\ req' = [c \in Clients |-> <<>>]
      /\ mutex' = [e \in Events |-> Null] /\ readers' = {}
      /\ list' = list /\ seats' = seats /\ count' = count
      /\ client' = client /\ asks' = asks /\ res' = res
  BY DEF SignalKills, emsVars
<1>2. /\ [Idle EXCEPT !.pc = "gone"] \in Servers /\ [Idle EXCEPT !.pc = "gone"].pc = "gone"
      /\ [Idle EXCEPT !.pc = "gone"].session = Null
  BY Nothing DEF Idle, Servers, WorkerPlaces
<1>3. \A w \in Workers : worker'[w].pc = "gone" /\ worker'[w].session = Null
  BY <1>1, <1>2
<1>4. \A w \in Workers, c \in Clients : ~Serves(w, c)'
  BY <1>3, NamesApart DEF Serves
<1>5. \A c \in Clients : ~IsServed(c)'
  BY <1>4 DEF IsServed
<1>6. EventTypes'
  BY <1>1 DEF Inv, Types, EventTypes
<1>7. HostTypes'
  <2>1. signals' \in 0 .. MaxSignals
    BY <1>1, NamesApart DEF Inv, Types, HostTypes
  <2>2. host' \in Hosts /\ host'.who = Null /\ host'.pc # "push"
    BY <1>1 DEF Hosts, HostPlaces
  <2>3. <<>> \in Seq(Clients) /\ Len(<<>>) <= QueueSize
    BY NamesApart
  <2> QED BY <1>1, <2>1, <2>2, <2>3 DEF HostTypes
<1>8. WorkerTypes'
  <2>1. worker' \in [Workers -> Servers]
    BY <1>1, <1>2
  <2> QED BY <1>3, <2>1 DEF WorkerTypes, Serves
<1>9. ClientTypes'
  <2>1. req' \in [Clients -> Seq(Pieces)]
    BY <1>1, Nothing
  <2> QED BY <1>1, <2>1 DEF Inv, Types, ClientTypes
<1>10. LocksOK'
  BY <1>1, <1>3, NamesApart DEF LocksOK
<1>11. LineOK'
  <2>1. Line' = <<>>
    BY <1>1 DEF Line
  <2> QED BY <2>1 DEF LineOK
<1>12. \A c \in Clients : IsServed(c) =>
         \E w \in Workers :
           /\ Serves(w, c) /\ client[c].got \o res[c] \in Seq(Items) /\ RestOf(w) \in Seq(Items)
           /\ client[c].pc = "answer" =>
                Prompt((client[c].got \o res[c]) \o RestOf(w), client[c].ask.op)
  <2> SUFFICES ASSUME NEW c \in Clients, NEW w \in Workers, Serves(w, c)
               PROVE  /\ client[c].got \o res[c] \in Seq(Items) /\ RestOf(w) \in Seq(Items)
                      /\ client[c].pc = "answer" =>
                           Prompt((client[c].got \o res[c]) \o RestOf(w), client[c].ask.op)
    BY DEF IsServed
  <2> QED BY SessionFacts DEF Session
<1>13. Talks'
  <2>1. CalmOK'
    BY <1>1 DEF Inv, Talks, CalmOK
  <2>2. SessionsDiffer' /\ SessionOK'
    BY <1>3, <1>4 DEF SessionsDiffer, SessionOK, Serves
  <2>3. AloneOK'
    <3> SUFFICES ASSUME NEW c \in Clients
                 PROVE  Alone(client'[c], req'[c], res'[c])
      BY DEF AloneOK, Alone, Prompt, Whole
    <3>1. client[c].pc = "answer" => Prompt(client[c].got \o res[c], client[c].ask.op)
      <4>1. CASE IsServed(c)
        BY <1>12, <4>1, PromptBegins
      <4>2. CASE ~IsServed(c)
        BY <4>2, LonelyFacts DEF Alone
      <4> QED BY <4>1, <4>2
    <3> QED BY <1>1, <3>1 DEF Alone
  <2> QED BY <2>1, <2>2, <2>3 DEF Talks
<1>14. Inv'
  BY <1>6, <1>7, <1>8, <1>9, <1>10, <1>11, <1>13 DEF Inv, Types
<1>15. \A c \in Clients :
         /\ PhaseOf(c)' = PhaseOf(c) /\ AskedOf(c)' = Null
         /\ TellsOf(c)' \in {<<>>, TellsOf(c)}
  <2> SUFFICES ASSUME NEW c \in Clients
               PROVE  /\ PhaseOf(c)' = PhaseOf(c) /\ AskedOf(c)' = Null
                      /\ TellsOf(c)' \in {<<>>, TellsOf(c)}
    OBVIOUS
  <2>1. /\ AskedOf(c)' = AskedFor(<<>>)
        /\ TellsOf(c)' = TellsFor(client[c], client[c].got \o res[c])
    BY <1>1, <1>5, <1>9, UnservedViewsNext
  <2>2. TellsOf(c)' \in {<<>>, TellsOf(c)}
    <3>1. CASE IsServed(c)
      <4>1. PICK w \in Workers :
              /\ Serves(w, c) /\ client[c].got \o res[c] \in Seq(Items)
              /\ RestOf(w) \in Seq(Items)
              /\ client[c].pc = "answer" =>
                   Prompt((client[c].got \o res[c]) \o RestOf(w), client[c].ask.op)
        BY <1>12, <3>1
      <4>2. TellsOf(c) = TellsFor(client[c], (client[c].got \o res[c]) \o RestOf(w))
        BY <4>1, ServedViews DEF Inv, Talks
      <4>3. ASSUME client[c].pc = "answer", Whole(client[c].got \o res[c], client[c].ask.op)
            PROVE  TellsOf(c)' = TellsOf(c)
        <5>1. (client[c].got \o res[c]) \o RestOf(w) = client[c].got \o res[c]
          BY <4>1, <4>3, PromptWhole
        <5> QED BY <2>1, <4>2, <5>1
      <4> QED BY <2>1, <4>3 DEF TellsFor
    <3>2. CASE ~IsServed(c)
      BY <2>1, <3>2, UnservedViews DEF Inv, Types
    <3> QED BY <3>1, <3>2
  <2> QED BY <1>1, <2>1, <2>2, Nothing DEF PhaseOf
<1>16. Service!Stop
  <2>1. phases' = phases /\ askeds' = [c \in Clients |-> Null]
    BY <1>15 DEF phases, askeds
  <2> DEFINE lost == {c \in Clients : TellsOf(c)' = <<>>}
  <2>2. answers' = [c \in Clients |-> IF c \in lost THEN <<>> ELSE answers[c]]
    BY <1>15 DEF answers
  <2>3. lost \in SUBSET Clients
    OBVIOUS
  <2> HIDE DEF lost
  <2> QED BY <1>1, <2>1, <2>2, <2>3 DEF Service!Stop, Service!state
<1> QED BY <1>14, <1>16 DEF Refines, Service!Next

------------------------------------------------------------------------------
(* The theorems *)

\* The invariant holds at first, and the service starts as it should.
LEMMA Starts ==
  ASSUME Init
  PROVE  Inv /\ Service!Init
<1>1. /\ list = <<>> /\ seats = [e \in Events |-> [s \in 1 .. Seats |-> 0]]
      /\ count = [e \in Events |-> 0] /\ mutex = [e \in Events |-> Null] /\ readers = {}
      /\ reg = <<>> /\ queue = <<>>
      /\ host = [pc |-> "check", then |-> "read", next |-> 1, who |-> Null]
      /\ flag = FALSE /\ handler = Null /\ signals = 0 /\ up = TRUE
      /\ worker = [w \in Workers |-> [Idle EXCEPT !.pc = "start"]]
      /\ client = [c \in Clients |-> NewClient]
      /\ asks = [c \in Clients |-> 0]
      /\ req = [c \in Clients |-> <<>>] /\ res = [c \in Clients |-> <<>>]
  BY DEF Init
<1>2. \A w \in Workers : worker[w].pc = "start" /\ worker[w].session = Null
  BY <1>1 DEF Idle
<1>3. \A c \in Clients : client[c].pc = "start" /\ client[c].got = <<>>
  BY <1>1 DEF NewClient
<1>4. \A w \in Workers, c \in Clients : ~Serves(w, c)
  BY <1>2, NamesApart DEF Serves
<1>5. \A c \in Clients : ~IsServed(c)
  BY <1>4 DEF IsServed
<1>6. EventTypes
  BY <1>1 DEF EventTypes
<1>7. HostTypes
  <2>1. host \in Hosts /\ host.who = Null /\ host.pc # "push" /\ 0 \in 0 .. MaxSignals
    BY <1>1, NamesApart DEF Hosts, HostPlaces
  <2>2. <<>> \in Seq(Clients) /\ Len(<<>>) <= QueueSize
    BY NamesApart
  <2> QED BY <1>1, <2>1, <2>2 DEF HostTypes
<1>8. WorkerTypes
  <2>1. [Idle EXCEPT !.pc = "start"] \in Servers
    BY Nothing DEF Idle, Servers, WorkerPlaces
  <2>2. worker \in [Workers -> Servers]
    BY <1>1, <2>1
  <2> QED BY <1>1, <1>2, <2>2 DEF WorkerTypes, Serves
<1>9. ClientTypes
  <2>1. NewClient \in Callers
    BY Nothing DEF NewClient, Callers, ClientPlaces
  <2>2. client \in [Clients -> Callers]
    BY <1>1, <2>1
  <2>3. req \in [Clients -> Seq(Pieces)] /\ res \in [Clients -> Seq(Items)]
    BY <1>1, Nothing
  <2>4. \A c \in Clients : Len(res[c]) <= PipeSize
    BY <1>1, Nothing, NamesApart
  <2>5. \A c \in Clients : asks[c] <= Len(Asks[c])
    <3>1. \A c \in Clients : Len(Asks[c]) \in Nat
      BY AsksAssumption, LenProperties
    <3> QED BY <1>1, <3>1
  <2> QED BY <1>1, <2>2, <2>3, <2>4, <2>5 DEF ClientTypes
<1>10. LocksOK
  BY <1>1, <1>2, NamesApart DEF LocksOK
<1>11. LineOK
  <2>1. Line = <<>>
    BY <1>1 DEF Line
  <2> QED BY <2>1 DEF LineOK
<1>12. Talks
  <2>1. CalmOK
    BY <1>1, <1>3 DEF CalmOK, Calm
  <2>2. AloneOK
    BY <1>1, <1>3 DEF AloneOK, Alone
  <2>3. SessionsDiffer /\ SessionOK
    BY <1>2, <1>4 DEF SessionsDiffer, SessionOK, Serves
  <2> QED BY <2>1, <2>2, <2>3 DEF Talks
<1>13. Inv
  BY <1>6, <1>7, <1>8, <1>9, <1>10, <1>11, <1>12 DEF Inv, Types
<1>14. Service!Init
  <2>1. \A c \in Clients : PhaseOf(c) = "new" /\ AskedOf(c) = Null /\ TellsOf(c) = <<>>
    <3> SUFFICES ASSUME NEW c \in Clients
                 PROVE  PhaseOf(c) = "new" /\ AskedOf(c) = Null /\ TellsOf(c) = <<>>
      OBVIOUS
    <3>1. AskedOf(c) = AskedFor(<<>>)
      BY <1>1, <1>5, <1>9, UnservedViews
    <3> QED BY <1>3, <3>1, Nothing DEF PhaseOf, TellsOf
  <2> QED BY <1>1, <2>1 DEF Service!Init, phases, askeds, answers
<1> QED BY <1>13, <1>14

\* A step that changes nothing
LEMMA StuttersRefines ==
  ASSUME Inv, UNCHANGED vars
  PROVE  Refines
<1>1. /\ UNCHANGED <<emsVars, mutex, up, worker, client, asks, pipeVars>>
      /\ readers' = readers /\ host' = host /\ reg' = reg /\ queue' = queue
      /\ flag' = flag /\ handler' = handler /\ signals' = signals
  BY DEF vars, lockVars, hostVars, signalVars
<1>2. HostTypes'
  BY <1>1 DEF Inv, Types, HostTypes
<1>3. Line' = Line
  BY <1>1 DEF Line
<1> QED BY <1>1, <1>2, <1>3, HostMove DEF Inv, Types, EventTypes, LocksOK

\* Every step keeps the invariant, and is a step of the service or none.
LEMMA NextRefines ==
  ASSUME Inv, [Next]_vars
  PROVE  Refines
<1>1. CASE HostStep \/ Signal \/ Handle
  BY <1>1, PlainHostStep, HostReadStep, HostPushStep DEF HostStep
<1>2. CASE SignalKills
  BY <1>2, SignalKillsStep
<1>3. CASE \E w \in Workers : WorkerStep(w)
  BY <1>3, WorkerStepRefines
<1>4. CASE \E c \in Clients : ClientStep(c) \/ Die(c)
  BY <1>4, ClientStepRefines
<1>5. CASE UNCHANGED vars
  BY <1>5, StuttersRefines
<1> QED BY <1>1, <1>2, <1>3, <1>4, <1>5 DEF Next

\* What a client may have written is at most a request.
LEMMA ShortRequests ==
  ASSUME Inv, NEW c \in Clients
  PROVE  Len(req[c]) <= 3
<1>1. req[c] \in Seq(Pieces)
  BY DEF Inv, Types, ClientTypes
<1>2. CASE ~IsServed(c)
  BY <1>2, Nothing, LonelyFacts DEF Alone
<1>3. CASE IsServed(c)
  <2>1. PICK w \in Workers : Serves(w, c)
    BY <1>3 DEF IsServed
  <2>2. worker[w].read \in Seq(Pieces) /\ Len(worker[w].read \o req[c]) <= 3
    BY <2>1, SessionFacts DEF Session, Form
  <2>3. \A a, b \in Seq(Pieces) : Len(a \o b) <= 3 => Len(b) <= 3
    <3>1. \A a, b \in Seq(Pieces) :
            Len(a \o b) = Len(a) + Len(b) /\ Len(a) \in Nat /\ Len(b) \in Nat
      BY ConcatProperties, LenProperties
    <3> QED BY <3>1
  <2> QED BY <1>1, <2>2, <2>3, Zenon
<1> QED BY <1>2, <1>3

\* The types that the runs check follow.
LEMMA TypesFollow ==
  ASSUME Inv
  PROVE  TypeOK
<1>1. /\ \A i \in DOMAIN list : list[i] \in Events
      /\ \A i \in DOMAIN reg : reg[i] \in Clients
      /\ \A i \in DOMAIN queue : queue[i] \in Clients
  <2>1. list \in Seq(Events) /\ reg \in Seq(Clients) /\ queue \in Seq(Clients)
    BY DEF Inv, Types, EventTypes, HostTypes
  <2> QED BY <2>1, LenProperties, ElementOfSeq
<1>2. /\ seats \in [Events -> [1 .. Seats -> Nat]] /\ count \in [Events -> Nat]
      /\ mutex \in [Events -> Threads \cup {Null}] /\ readers \subseteq Threads
  BY DEF Inv, Types, EventTypes, Threads
<1>3. /\ Len(queue) <= QueueSize /\ host.pc \in HostPlaces /\ host.who \in Clients \cup {Null}
      /\ flag \in BOOLEAN /\ up \in BOOLEAN
      /\ handler \in Threads \cup {Null} /\ signals \in 0 .. MaxSignals
  BY DEF Inv, Types, HostTypes, Hosts
<1>4. \A w \in Workers :
        /\ worker[w].pc \in WorkerPlaces /\ worker[w].session \in Clients \cup {Null}
        /\ worker[w].session = Null <=> worker[w].pc \in {"start", "fetch", "gone"}
  BY DEF Inv, Types, WorkerTypes, Servers, Serves
<1>5. \A c \in Clients :
        /\ client[c].pc \in ClientPlaces /\ client[c].id \in Workers \cup {Null}
        /\ asks[c] \in 0 .. Len(Asks[c])
        /\ Len(req[c]) <= 3 /\ Len(res[c]) <= PipeSize
  <2> SUFFICES ASSUME NEW c \in Clients
               PROVE  /\ client[c].pc \in ClientPlaces /\ client[c].id \in Workers \cup {Null}
                      /\ asks[c] \in 0 .. Len(Asks[c])
                      /\ Len(req[c]) <= 3 /\ Len(res[c]) <= PipeSize
    OBVIOUS
  <2>1. Len(Asks[c]) \in Nat
    BY AsksAssumption, LenProperties
  <2>2. client[c] \in Callers /\ asks[c] \in Nat /\ asks[c] <= Len(Asks[c])
    BY DEF Inv, Types, ClientTypes
  <2>3. asks[c] \in 0 .. Len(Asks[c])
    BY <2>1, <2>2
  <2> QED BY <2>2, <2>3, ShortRequests DEF Inv, Types, ClientTypes, Callers
<1> QED BY <1>1, <1>2, <1>3, <1>4, <1>5 DEF TypeOK, HostPlaces, WorkerPlaces, ClientPlaces

\* The invariant
THEOREM Invariance == Spec => []Inv
<1>1. Init => Inv
  BY Starts
<1>2. Inv /\ [Next]_vars => Inv'
  BY NextRefines DEF Refines
<1> QED BY <1>1, <1>2, PTL DEF Spec

\* The variables keep their types, the queue of sessions and the pipes their bounds.
THEOREM TypeInvariance == Spec => []TypeOK
<1>1. Inv => TypeOK
  BY TypesFollow
<1> QED BY <1>1, Invariance, PTL

\* The mutex of an event is held by the worker that shows it and by no other, and the
\* list by those that list it or print an event of it: no lock outlives its user, when
\* the client of a session dies in the middle of an answer either.
THEOREM LocksAreHeld == Spec => []LocksOK
<1>1. Inv => LocksOK
  BY DEF Inv
<1> QED BY <1>1, Invariance, PTL

\* The server does what EmsService promises its clients: every request takes effect at
\* one moment, and its answer is the state of that moment.
THEOREM Refinement == Spec => AtomicRequests
<1>1. Init => Service!Init
  BY Starts
<1>2. Inv /\ [Next]_vars => [Service!Next]_(Service!vars)
  BY NextRefines DEF Refines
<1> QED BY <1>1, <1>2, Invariance, PTL DEF Spec, AtomicRequests, Service!Spec

------------------------------------------------------------------------------
(* Nobody waits for somebody who never comes *)

\* A client whose registration no worker has fetched
Registered(c) ==
  \/ \E i \in DOMAIN queue : queue[i] = c
  \/ host.who = c
  \/ \E i \in DOMAIN reg : reg[i] = c

\* Those who wait for a client or for a worker have been heard of, as long as the
\* server runs, and no client waits for more than its answer.
WaitOK ==
  /\ host.pc = "event" => up /\ host.next # 0
  /\ up => \A w \in Workers : worker[w].pc # "gone"
  /\ up => \A c \in Clients :
       /\ client[c].pc = "openReq" => Registered(c) \/ IsServed(c)
       /\ client[c].pc = "openRes" => IsServed(c)
  /\ \A c \in Clients : client[c].pc = "answer" => ~Whole(client[c].got, client[c].ask.op)

\* The client of a worker that has opened its pipes has opened them too, or is dead.
LEMMA PipesOpen ==
  ASSUME Inv, NEW w \in Workers,
         worker[w].pc \notin {"start", "fetch", "gone", "openReq", "openRes"}
  PROVE  client[worker[w].session].pc \notin {"openReq", "openRes"}
<1>1. PICK c \in Clients : Serves(w, c) /\ worker[w].session = c
  BY Serving
<1>2. Session(w, worker[w], client[c], worker[w].read \o req[c], res[c], RestOf(w))
  BY <1>1, SessionFacts
<1> QED BY <1>1, <1>2 DEF Session

\* A step of a worker that opens no pipe and fetches no session: it goes on with its
\* client, or leaves one that waits for no open.
Works(w) ==
  \E k :
    /\ worker' = [worker EXCEPT ![w] = k] /\ k.pc # "gone"
    /\ \/ k.session = worker[w].session
       \/ client[worker[w].session].pc \notin {"openReq", "openRes"}
    /\ UNCHANGED <<client, reg, queue, host, up>>

\* It makes nobody wait.
LEMMA WaitsOfWorker ==
  ASSUME Inv, WaitOK, NEW w \in Workers, Works(w)
  PROVE  WaitOK'
<1>1. PICK k :
        /\ worker' = [worker EXCEPT ![w] = k] /\ k.pc # "gone"
        /\ \/ k.session = worker[w].session
           \/ client[worker[w].session].pc \notin {"openReq", "openRes"}
        /\ UNCHANGED <<client, reg, queue, host, up>>
  BY DEF Works
<1>2. worker'[w] = k /\ \A v \in Workers \ {w} : worker'[v] = worker[v]
  BY <1>1 DEF Inv, Types, WorkerTypes
<1>3. \A c \in Clients : client[c].pc \in {"openReq", "openRes"} /\ IsServed(c) => IsServed(c)'
  BY <1>1, <1>2 DEF IsServed, Serves
<1>4. \A c \in Clients : Registered(c)' <=> Registered(c)
  BY <1>1 DEF Registered
<1>5. up => \A v \in Workers : worker'[v].pc # "gone"
  BY <1>1, <1>2 DEF WaitOK
<1>6. \A c \in Clients : client[c].pc = "answer" => ~Whole(client'[c].got, client'[c].ask.op)
  BY <1>1 DEF WaitOK
<1> QED BY <1>1, <1>3, <1>4, <1>5, <1>6 DEF WaitOK, Whole

\* A step of a client that opens no pipe
LEMMA WaitsOfClient ==
  ASSUME Inv, WaitOK, NEW c \in Clients, NEW l,
         client' = [client EXCEPT ![c] = l], UNCHANGED <<worker, queue, host, up>>,
         reg' = reg \/ reg' = Append(reg, c),
         l.pc = "openReq" => reg' = Append(reg, c), l.pc # "openRes",
         l.pc = "answer" => ~Whole(l.got, l.ask.op)
  PROVE  WaitOK'
<1>1. client'[c] = l /\ \A d \in Clients \ {c} : client'[d] = client[d]
  BY DEF Inv, Types, ClientTypes
<1>2. reg \in Seq(Clients)
  BY DEF Inv, Types, HostTypes
<1>3. reg' = Append(reg, c) => Registered(c)'
  BY <1>2 DEF Registered
<1>4. \A d \in Clients : Registered(d) => Registered(d)'
  BY <1>2 DEF Registered
<1>5. \A d \in Clients : IsServed(d)' <=> IsServed(d)
  BY DEF IsServed, Serves
<1>6. up => \A d \in Clients :
        /\ client'[d].pc = "openReq" => Registered(d)' \/ IsServed(d)'
        /\ client'[d].pc = "openRes" => IsServed(d)'
  BY <1>1, <1>3, <1>4, <1>5 DEF WaitOK
<1>7. \A d \in Clients : client'[d].pc = "answer" => ~Whole(client'[d].got, client'[d].ask.op)
  BY <1>1 DEF WaitOK
<1> QED BY <1>6, <1>7 DEF WaitOK, Whole

\* A step of the host or of the handler
LEMMA WaitsOfHost ==
  ASSUME WaitOK, UNCHANGED <<worker, client, up>>,
         host'.pc = "event" => up /\ host'.next # 0,
         \A c \in Clients : Registered(c) => Registered(c)'
  PROVE  WaitOK'
<1>1. \A d \in Clients : IsServed(d)' <=> IsServed(d)
  BY DEF IsServed, Serves
<1>2. \A d \in Clients : client'[d].pc = "answer" => ~Whole(client'[d].got, client'[d].ask.op)
  BY DEF WaitOK
<1> QED BY <1>1, <1>2 DEF WaitOK, Whole

\* Every step of a worker that opens no pipe and fetches no session is one of those.
LEMMA WorkersWork ==
  ASSUME Inv, NEW w \in Workers, WorkerStep(w), ~Fetch(w),
         \A c \in Clients : ~OpenRequest(w, c) /\ ~OpenResponse(w, c)
  PROVE  Works(w)
<1> DEFINE Kept(k) == worker' = [worker EXCEPT ![w] = k] /\ k.pc # "gone"
                      /\ k.session = worker[w].session
<1>1. worker[w] \in Servers /\ Idle.pc = "fetch" /\ Idle.session = Null
  BY DEF Inv, Types, WorkerTypes, Idle
<1>2. UNCHANGED <<client, reg, queue, host, up>>
  <2>1. CASE Mask(w)           BY <2>1 DEF Mask, hostVars, signalVars
  <2>2. CASE Acknowledge(w)    BY <2>2 DEF Acknowledge, hostVars, signalVars
  <2>3. CASE ReadOp(w)         BY <2>3 DEF ReadOp, hostVars, signalVars
  <2>4. CASE ReadId(w)         BY <2>4 DEF ReadId, hostVars, signalVars
  <2>5. CASE ReadArguments(w)  BY <2>5 DEF ReadArguments, hostVars, signalVars
  <2>6. CASE EndOfFile(w)      BY <2>6 DEF EndOfFile, hostVars, signalVars
  <2>7. CASE Create(w)         BY <2>7 DEF Create, hostVars, signalVars
  <2>8. CASE NotFound(w)       BY <2>8 DEF NotFound, hostVars, signalVars
  <2>9. CASE Reserve(w)        BY <2>9 DEF Reserve, hostVars, signalVars
  <2>10. CASE ShowLock(w)      BY <2>10 DEF ShowLock, hostVars, signalVars
  <2>11. CASE ShowItem(w)      BY <2>11 DEF ShowItem, hostVars, signalVars
  <2>12. CASE ShowEnd(w)       BY <2>12 DEF ShowEnd, hostVars, signalVars
  <2>13. CASE ListLock(w)      BY <2>13 DEF ListLock, hostVars, signalVars
  <2>14. CASE ListItem(w)      BY <2>14 DEF ListItem, hostVars, signalVars
  <2>15. CASE ListEnd(w)       BY <2>15 DEF ListEnd, hostVars, signalVars
  <2>16. CASE Answer(w)        BY <2>16 DEF Answer, hostVars, signalVars
  <2> QED BY <2>1, <2>2, <2>3, <2>4, <2>5, <2>6, <2>7, <2>8, <2>9, <2>10, <2>11, <2>12,
             <2>13, <2>14, <2>15, <2>16 DEF WorkerStep
<1>3. ASSUME NEW k, Kept(k)
      PROVE  Works(w)
  BY <1>2, <1>3 DEF Works
<1>4. ASSUME worker' = [worker EXCEPT ![w] = Idle],
             worker[w].pc \notin {"start", "fetch", "gone", "openReq", "openRes"}
      PROVE  Works(w)
  BY <1>1, <1>2, <1>4, PipesOpen DEF Works
<1>5. ASSUME NEW pc, NEW next, ReadPiece(w, pc, next), next # "gone"
      PROVE  Works(w)
  <2>1. Kept([worker[w] EXCEPT !.pc = next,
                               !.read = Append(@, Head(req[worker[w].session]))])
    BY <1>1, <1>5 DEF ReadPiece, SetWorker, Servers
  <2> QED BY <1>3, <2>1
<1>6. CASE Mask(w)
  <2>1. Kept(Idle)
    BY <1>1, <1>6 DEF Mask, SetWorker, Inv, Types, WorkerTypes, Serves
  <2> QED BY <1>3, <2>1
<1>7. CASE Acknowledge(w)
  <2>1. \/ Kept([worker[w] EXCEPT !.pc = "op"])
        \/ worker' = [worker EXCEPT ![w] = Idle] /\ worker[w].pc = "ack"
    BY <1>1, <1>7 DEF Acknowledge, SetWorker, EndSession, Servers
  <2> QED BY <1>3, <1>4, <2>1
<1>8. CASE ReadOp(w)
  BY <1>5, <1>8 DEF ReadOp
<1>9. CASE ReadId(w)
  <2>1. \/ ReadPiece(w, "id", IF worker[w].read[1] = "LIST" THEN "exec" ELSE "args")
        \/ worker' = [worker EXCEPT ![w] = Idle] /\ worker[w].pc = "id"
    BY <1>9 DEF ReadId, EndSession, SetWorker
  <2>2. (IF worker[w].read[1] = "LIST" THEN "exec" ELSE "args") # "gone"
    OBVIOUS
  <2> QED BY <1>4, <1>5, <2>1, <2>2
<1>10. CASE ReadArguments(w)
  BY <1>5, <1>10 DEF ReadArguments
<1>11. CASE EndOfFile(w)
  BY <1>4, <1>11 DEF EndOfFile, EndSession, SetWorker
<1>12. ASSUME NEW out, Reply(w, out)
       PROVE  Works(w)
  <2>1. Kept([worker[w] EXCEPT !.pc = "reply", !.read = <<>>, !.out = out])
    BY <1>1, <1>12 DEF Reply, SetWorker, Servers
  <2> QED BY <1>3, <2>1
<1>13. CASE Create(w) \/ NotFound(w) \/ Reserve(w)
  <2>1. \E out : Reply(w, out)
    BY <1>13 DEF Create, NotFound, Reserve
  <2> QED BY <1>12, <2>1
<1>14. CASE ShowLock(w)
  <2>1. Kept([worker[w] EXCEPT !.pc = "show", !.read = <<>>, !.event = Arg(w).event,
                               !.next = 1])
    BY <1>1, <1>14 DEF ShowLock, SetWorker, Servers
  <2> QED BY <1>3, <2>1
<1>15. CASE ShowItem(w) \/ ListItem(w)
  <2>1. Kept([worker[w] EXCEPT !.next = worker[w].next + 1])
    BY <1>1, <1>15 DEF ShowItem, ListItem, SetWorker, Servers
  <2> QED BY <1>3, <2>1
<1>16. CASE ShowEnd(w)
  <2>1. \/ Kept([worker[w] EXCEPT !.pc = "op", !.event = Null, !.next = 1])
        \/ worker' = [worker EXCEPT ![w] = Idle] /\ worker[w].pc = "show"
    BY <1>1, <1>16 DEF ShowEnd, EndSession, SetWorker, Servers
  <2> QED BY <1>3, <1>4, <2>1
<1>17. CASE ListLock(w)
  <2>1. \/ \E out : Reply(w, out)
        \/ Kept([worker[w] EXCEPT !.pc = "list", !.read = <<>>, !.next = 1])
    BY <1>1, <1>17 DEF ListLock, SetWorker, Servers
  <2> QED BY <1>3, <1>12, <2>1
<1>18. CASE ListEnd(w)
  <2>1. \/ Kept([worker[w] EXCEPT !.pc = "op", !.next = 1])
        \/ worker' = [worker EXCEPT ![w] = Idle] /\ worker[w].pc = "list"
    BY <1>1, <1>18 DEF ListEnd, EndSession, SetWorker, Servers
  <2> QED BY <1>3, <1>4, <2>1
<1>19. CASE Answer(w)
  <2>1. \/ Kept([worker[w] EXCEPT !.out = Tail(worker[w].out),
                                  !.pc = IF Len(worker[w].out) = 1 THEN "op" ELSE "reply"])
        \/ worker' = [worker EXCEPT ![w] = Idle] /\ worker[w].pc = "reply"
    BY <1>1, <1>19 DEF Answer, EndSession, SetWorker, Servers
  <2> QED BY <1>3, <1>4, <2>1
<1> QED BY <1>6, <1>7, <1>8, <1>9, <1>10, <1>11, <1>13, <1>14, <1>15, <1>16, <1>17, <1>18,
           <1>19 DEF WorkerStep

\* A worker fetches a session.
LEMMA FetchWaits ==
  ASSUME Inv, WaitOK, NEW w \in Workers, Fetch(w)
  PROVE  WaitOK'
<1>1. /\ worker[w].pc = "fetch" /\ queue # <<>> /\ queue \in Seq(Clients)
      /\ worker' = [worker EXCEPT ![w] = [Idle EXCEPT !.pc = "openReq", !.session = Head(queue)]]
      /\ queue' = Tail(queue)
      /\ UNCHANGED <<client, reg, host, up>>
  BY DEF Fetch, SetWorker, signalVars, Inv, Types, HostTypes
<1>2. /\ worker'[w].pc = "openReq" /\ worker'[w].session = Head(queue)
      /\ \A v \in Workers \ {w} : worker'[v] = worker[v]
  BY <1>1 DEF Inv, Types, WorkerTypes, Idle
<1>3. worker[w].session \notin Clients
  BY <1>1, NamesApart DEF Inv, Types, WorkerTypes, Serves
<1>4. \A c \in Clients : IsServed(c) => IsServed(c)'
  BY <1>2, <1>3 DEF IsServed, Serves
<1>5. \A c \in Clients : c = Head(queue) => IsServed(c)'
  BY <1>2 DEF IsServed, Serves
<1>6. \A c \in Clients : Registered(c) => Registered(c)' \/ IsServed(c)'
  <2> SUFFICES ASSUME NEW c \in Clients, Registered(c), c # Head(queue)
               PROVE  Registered(c)'
    BY <1>5
  <2>1. ASSUME NEW i \in DOMAIN queue, queue[i] = c
        PROVE  i - 1 \in DOMAIN queue' /\ queue'[i - 1] = c
    <3>1. i \in 1 .. Len(queue) /\ i # 1
      BY <1>1, <2>1, HeadTailProperties
    <3> QED BY <1>1, <2>1, <3>1
  <2> QED BY <1>1, <2>1 DEF Registered
<1>7. \A c \in Clients : client[c].pc = "answer" => ~Whole(client'[c].got, client'[c].ask.op)
  BY <1>1 DEF WaitOK
<1>8. up => \A v \in Workers : worker'[v].pc # "gone"
  BY <1>2 DEF WaitOK
<1>9. \A c \in Clients : up =>
        /\ client'[c].pc = "openReq" => Registered(c)' \/ IsServed(c)'
        /\ client'[c].pc = "openRes" => IsServed(c)'
  BY <1>1, <1>4, <1>6 DEF WaitOK
<1> QED BY <1>1, <1>7, <1>8, <1>9 DEF WaitOK, Whole

\* A worker and its client open a pipe.
LEMMA OpenWaits ==
  ASSUME Inv, WaitOK, NEW w \in Workers, NEW c \in Clients,
         NEW side \in {"openReq", "openRes"}, NEW next \in {"openRes", "ack"},
         Open(w, c, side, next)
  PROVE  WaitOK'
<1>1. /\ Serves(w, c) /\ worker' = [worker EXCEPT ![w].pc = next]
      /\ client' = [client EXCEPT ![c] = [client[c] EXCEPT !.pc = next]]
      /\ UNCHANGED <<reg, queue, host, up>>
  BY DEF Open, SetClient, hostVars, signalVars
<1>2. /\ worker'[w].pc = next /\ worker'[w].session = c
      /\ \A v \in Workers \ {w} : worker'[v] = worker[v]
      /\ client'[c].pc = next /\ \A d \in Clients \ {c} : client'[d] = client[d]
  BY <1>1 DEF Inv, Types, WorkerTypes, ClientTypes, Servers, Callers, Serves
<1>3. \A d \in Clients : Registered(d)' <=> Registered(d)
  BY <1>1 DEF Registered
<1>4. \A d \in Clients : IsServed(d) => IsServed(d)'
  BY <1>1, <1>2 DEF IsServed, Serves
<1>5. IsServed(c)'
  BY <1>2 DEF IsServed, Serves
<1>6. up => \A v \in Workers : worker'[v].pc # "gone"
  BY <1>2 DEF WaitOK
<1>7. up => \A d \in Clients :
        /\ client'[d].pc = "openReq" => Registered(d)' \/ IsServed(d)'
        /\ client'[d].pc = "openRes" => IsServed(d)'
  BY <1>2, <1>3, <1>4, <1>5 DEF WaitOK
<1>8. \A d \in Clients : client'[d].pc = "answer" => ~Whole(client'[d].got, client'[d].ask.op)
  BY <1>2 DEF WaitOK
<1> QED BY <1>1, <1>6, <1>7, <1>8 DEF WaitOK, Whole

\* The steps of a client
LEMMA ClientWaits ==
  ASSUME Inv, WaitOK, NEW c \in Clients, ClientStep(c) \/ Die(c)
  PROVE  WaitOK'
<1> DEFINE To(l) == /\ client' = [client EXCEPT ![c] = l]
                    /\ UNCHANGED <<worker, queue, host, up>>
                    /\ reg' = reg \/ reg' = Append(reg, c)
                    /\ l.pc = "openReq" => reg' = Append(reg, c)
                    /\ l.pc # "openRes"
                    /\ l.pc = "answer" => ~Whole(l.got, l.ask.op)
<1>1. client[c] \in Callers /\ Calm(client[c], res[c])
  BY DEF Inv, Types, ClientTypes, Talks, CalmOK
<1>2. \A op : ~Whole(<<>>, op)
  BY DEF Whole
<1>3. ASSUME NEW l, To(l)
      PROVE  WaitOK'
  BY <1>3, WaitsOfClient
<1>4. CASE Register(c)
  <2>1. To([client[c] EXCEPT !.pc = "openReq"])
    BY <1>1, <1>4 DEF Register, SetClient, signalVars, Callers
  <2> QED BY <1>3, <2>1
<1>5. CASE ReadSessionId(c)
  <2>1. To([client[c] EXCEPT !.pc = "idle", !.id = Head(res[c])])
    BY <1>1, <1>5 DEF ReadSessionId, SetClient, hostVars, signalVars, Callers
  <2> QED BY <1>3, <2>1
<1>6. ASSUME NEW piece, NEW l, WritePiece(c, piece, l), l.pc \in {"id", "args", "answer", "quit"},
             client[c].pc # "answer", l.got = client[c].got
      PROVE  WaitOK'
  <2>1. l.got = <<>>
    BY <1>1, <1>6 DEF Calm
  <2>2. To(l)
    BY <1>2, <1>6, <2>1 DEF WritePiece, SetClient, hostVars, signalVars
  <2> QED BY <1>3, <2>2
<1>7. CASE Ask(c)
  <2>1. PICK r : WritePiece(c, r.op, [client[c] EXCEPT !.pc = "id", !.ask = r])
    BY <1>7 DEF Ask
  <2>2. client[c].pc = "idle"
    BY <1>7 DEF Ask
  <2>3. /\ [client[c] EXCEPT !.pc = "id", !.ask = r].pc = "id"
        /\ [client[c] EXCEPT !.pc = "id", !.ask = r].got = client[c].got
    BY <1>1 DEF Callers
  <2> QED BY <1>6, <2>1, <2>2, <2>3
<1>8. CASE WriteId(c)
  <2> DEFINE pc == IF client[c].ask.op = "LIST" THEN "answer" ELSE "args"
  <2>1. WritePiece(c, client[c].id, [client[c] EXCEPT !.pc = pc]) /\ client[c].pc = "id"
    BY <1>8 DEF WriteId
  <2>2. pc \in {"args", "answer"}
    OBVIOUS
  <2> HIDE DEF pc
  <2>3. /\ [client[c] EXCEPT !.pc = pc].pc = pc
        /\ [client[c] EXCEPT !.pc = pc].got = client[c].got
    BY <1>1 DEF Callers
  <2> QED BY <1>6, <2>1, <2>2, <2>3
<1>9. CASE WriteArguments(c)
  <2>1. /\ WritePiece(c, [event |-> client[c].ask.event, seats |-> client[c].ask.seats],
                      [client[c] EXCEPT !.pc = "answer"])
        /\ client[c].pc = "args"
    BY <1>9 DEF WriteArguments
  <2>2. /\ [client[c] EXCEPT !.pc = "answer"].pc = "answer"
        /\ [client[c] EXCEPT !.pc = "answer"].got = client[c].got
    BY <1>1 DEF Callers
  <2> QED BY <1>6, <2>1, <2>2
<1>10. CASE ReadAnswer(c)
  <2> DEFINE got == Append(client[c].got, Head(res[c]))
             l == IF Whole(got, client[c].ask.op)
                  THEN [client[c] EXCEPT !.pc = "idle", !.ask = Null, !.got = <<>>]
                  ELSE [client[c] EXCEPT !.got = got]
  <2>1. /\ client' = [client EXCEPT ![c] = l] /\ UNCHANGED <<worker, queue, reg, host, up>>
        /\ client[c].pc = "answer"
    BY <1>10 DEF ReadAnswer, SetClient, hostVars, signalVars
  <2> HIDE DEF got
  <2>2. l.pc \in {"idle", "answer"} /\ (l.pc = "answer" => ~Whole(l.got, l.ask.op))
    BY <1>1, <2>1 DEF Callers
  <2> HIDE DEF l
  <2>3. To(l)
    BY <2>1, <2>2
  <2> QED BY <1>3, <2>3
<1>11. CASE Quit(c)
  <2>1. WritePiece(c, "QUIT", [client[c] EXCEPT !.pc = "quit"]) /\ client[c].pc = "idle"
    BY <1>11 DEF Quit
  <2>2. /\ [client[c] EXCEPT !.pc = "quit"].pc = "quit"
        /\ [client[c] EXCEPT !.pc = "quit"].got = client[c].got
    BY <1>1 DEF Callers
  <2> QED BY <1>6, <2>1, <2>2
<1>12. ASSUME NEW how \in {"closed", "dead"}, Gone(c, how)
       PROVE  WaitOK'
  <2>1. To([NewClient EXCEPT !.pc = how])
    BY <1>12 DEF Gone, SetClient, NewClient, hostVars, signalVars
  <2> QED BY <1>3, <2>1
<1>13. CASE WriteQuitId(c) \/ Disconnected(c) \/ Die(c)
  BY <1>12, <1>13 DEF WriteQuitId, Disconnected, Die
<1> QED BY <1>4, <1>5, <1>7, <1>8, <1>9, <1>10, <1>11, <1>13 DEF ClientStep

\* The steps of the host, and the signals
LEMMA HostWaits ==
  ASSUME Inv, WaitOK, HostStep \/ Signal \/ Handle \/ SignalKills
  PROVE  WaitOK'
<1>1. /\ host \in Hosts /\ reg \in Seq(Clients) /\ queue \in Seq(Clients)
      /\ host.who = Null <=> host.pc # "push"
      /\ \A c \in Clients : c # Null
  BY NamesApart DEF Inv, Types, HostTypes
<1>2. CASE HostCheck \/ HostEnter \/ HostDisplay \/ HostPrint \/ HostDisplayed \/ Signal \/ Handle
  <2>1. /\ UNCHANGED <<worker, client, up, reg, queue>>
        /\ host'.pc = "event" => up /\ host'.next # 0
        /\ host'.who = host.who
    <3>1. CASE HostCheck
      BY <1>1, <3>1 DEF HostCheck, HostAt, Hosts, WaitOK
    <3>2. CASE HostEnter
      BY <1>1, <3>2 DEF HostEnter, HostAt, Hosts, signalVars, WaitOK
    <3>3. CASE HostDisplay
      BY <1>1, <3>3 DEF HostDisplay, HostAt, Hosts, signalVars
    <3>4. CASE HostPrint
      BY <1>1, <3>4 DEF HostPrint, HostAt, Hosts, signalVars, WaitOK
    <3>5. CASE HostDisplayed
      BY <1>1, <3>5 DEF HostDisplayed, HostAt, Hosts, signalVars, WaitOK
    <3>6. CASE Signal
      BY <1>1, <3>6 DEF Signal, Hosts, WaitOK
    <3>7. CASE Handle
      BY <1>1, <3>7 DEF Handle, hostVars, WaitOK
    <3> QED BY <1>2, <3>1, <3>2, <3>3, <3>4, <3>5, <3>6, <3>7
  <2>2. \A c \in Clients : Registered(c) => Registered(c)'
    BY <2>1 DEF Registered
  <2> QED BY <2>1, <2>2, WaitsOfHost
<1>3. CASE HostRead
  <2>1. /\ host.pc = "read" /\ reg # <<>> /\ reg' = Tail(reg)
        /\ host' = [host EXCEPT !.pc = "push", !.who = Head(reg)]
        /\ UNCHANGED <<worker, client, up, queue>>
    BY <1>3 DEF HostRead, HostAt, signalVars
  <2>2. host'.pc = "push" /\ host'.who = Head(reg)
    BY <1>1, <2>1 DEF Hosts
  <2>3. ASSUME NEW c \in Clients, Registered(c)
        PROVE  Registered(c)'
    <3>1. ASSUME NEW i \in DOMAIN reg, reg[i] = c, c # Head(reg)
          PROVE  i - 1 \in DOMAIN reg' /\ reg'[i - 1] = c
      <4>1. i \in 1 .. Len(reg) /\ i # 1
        BY <1>1, <2>1, <3>1, HeadTailProperties
      <4> QED BY <1>1, <2>1, <3>1, <4>1
    <3> QED BY <1>1, <2>1, <2>2, <2>3, <3>1 DEF Registered
  <2> QED BY <2>1, <2>2, <2>3, WaitsOfHost
<1>4. CASE HostPush
  <2>1. /\ host.pc = "push" /\ queue' = Append(queue, host.who)
        /\ host' = [host EXCEPT !.pc = "check", !.who = Null]
        /\ UNCHANGED <<worker, client, up, reg>>
    BY <1>4 DEF HostPush, HostAt, signalVars
  <2>2. host'.pc = "check"
    BY <1>1, <2>1 DEF Hosts
  <2>3. \A c \in Clients : Registered(c) => Registered(c)'
    BY <1>1, <2>1 DEF Registered, Hosts
  <2> QED BY <2>1, <2>2, <2>3, WaitsOfHost
<1>5. CASE SignalKills
  <2>1. ~up' /\ client' = client /\ host'.pc = "check"
    BY <1>5 DEF SignalKills
  <2>2. \A c \in Clients : client'[c].pc = "answer" => ~Whole(client'[c].got, client'[c].ask.op)
    BY <2>1 DEF WaitOK
  <2> QED BY <2>1, <2>2 DEF WaitOK, Whole
<1> QED BY <1>2, <1>3, <1>4, <1>5 DEF HostStep

\* Every step keeps it.
LEMMA WaitsKept ==
  ASSUME Inv, WaitOK, [Next]_vars
  PROVE  WaitOK'
<1>1. CASE \E w \in Workers : WorkerStep(w)
  <2>1. PICK w \in Workers : WorkerStep(w)
    BY <1>1
  <2>2. CASE Fetch(w)
    BY <2>2, FetchWaits
  <2>3. CASE \E c \in Clients : OpenRequest(w, c) \/ OpenResponse(w, c)
    BY <2>3, OpenWaits DEF OpenRequest, OpenResponse
  <2> QED BY <2>1, <2>2, <2>3, WorkersWork, WaitsOfWorker
<1>2. CASE UNCHANGED vars
  <2>1. UNCHANGED <<worker, client, reg, queue, host, up>>
    BY <1>2 DEF vars, hostVars, signalVars
  <2>2. \A c \in Clients : Registered(c) => Registered(c)'
    BY <2>1 DEF Registered
  <2> QED BY <2>1, <2>2, WaitsOfHost DEF WaitOK
<1> QED BY <1>1, <1>2, ClientWaits, HostWaits DEF Next

\* It holds at first.
LEMMA WaitsAtFirst ==
  ASSUME Init
  PROVE  WaitOK
BY DEF Init, WaitOK, Idle, NewClient

\* When nobody can go on, no worker is kept by a full pipe, ...
LEMMA PipesHaveRoom ==
  ASSUME Inv, ~SomebodyCanGo, NEW w \in Workers, worker[w].session \in Clients
  PROVE  CanWrite(w)
<1> DEFINE c == worker[w].session
<1>1. Calm(client[c], res[c]) /\ ~ClientCan(c)
  BY DEF Inv, Talks, CalmOK, SomebodyCanGo
<1>2. res[c] = <<>> \/ ~Alive(c)
  BY <1>1 DEF Calm, ClientCan, Alive
<1>3. Len(<<>>) < PipeSize
  BY NamesApart
<1> QED BY <1>2, <1>3 DEF CanWrite

\* ... so that nobody writes an answer, and every lock is free, ...
LEMMA LocksAreFree ==
  ASSUME Inv, WaitOK, ~SomebodyCanGo
  PROVE  /\ \A w \in Workers : worker[w].pc \notin {"ack", "reply", "show", "list"}
         /\ \A e \in Events : mutex[e] = Null
         /\ host.pc # "event" /\ readers = {}
<1>1. \A w \in Workers : worker[w].pc \notin {"ack", "reply", "show", "list"}
  <2> SUFFICES ASSUME NEW w \in Workers, worker[w].pc \in {"ack", "reply", "show", "list"}
               PROVE  FALSE
    OBVIOUS
  <2>1. worker[w].session \in Clients
    BY Serving
  <2>2. CanWrite(w)
    BY <2>1, PipesHaveRoom
  <2> QED BY <2>2 DEF SomebodyCanGo, WorkerCan
<1>2. \A e \in Events : mutex[e] = Null
  <2>1. \A e \in Events : mutex[e] \in Workers \cup {Null}
    BY DEF Inv, Types, EventTypes
  <2>2. \A e \in Events : mutex[e] # Null => worker[mutex[e]].pc = "show"
    BY DEF Inv, LocksOK
  <2> QED BY <1>1, <2>1, <2>2
<1>3. host.pc # "event"
  <2> SUFFICES ASSUME host.pc = "event"
               PROVE  FALSE
    OBVIOUS
  <2>1. host.next \in Nat /\ list \in Seq(Events) /\ ~HostCan /\ up
    BY DEF Inv, Types, HostTypes, Hosts, EventTypes, SomebodyCanGo, WaitOK
  <2>2. host.next <= Len(list) /\ mutex[list[host.next]] # Null
    BY <2>1 DEF HostCan
  <2>3. host.next # 0
    BY DEF WaitOK
  <2>4. list[host.next] \in Events
    BY <2>1, <2>2, <2>3
  <2> QED BY <1>2, <2>2, <2>4
<1>4. readers = {}
  <2>1. readers \subseteq Threads
    BY DEF Inv, Types, EventTypes
  <2>2. /\ \A w \in Workers : w \in readers <=> worker[w].pc = "list"
        /\ Host \in readers <=> host.pc = "event"
    BY DEF Inv, LocksOK
  <2> QED BY <1>1, <1>3, <2>1, <2>2 DEF Threads
<1> QED BY <1>1, <1>2, <1>3, <1>4

\* ... every request has been executed, ...
LEMMA RequestsAreDone ==
  ASSUME Inv, WaitOK, ~SomebodyCanGo, NEW w \in Workers
  PROVE  worker[w].pc # "exec"
<1> SUFFICES ASSUME worker[w].pc = "exec"
             PROVE  FALSE
  OBVIOUS
<1>1. Op(w) \in Ops \ {"QUIT"} /\ (Op(w) # "LIST" => Arg(w).event \in Events)
  <2>1. /\ Request(worker[w].read) \in Requests /\ Op(w) = Request(worker[w].read).op
        /\ Op(w) # "LIST" => Arg(w).event \in Events
    BY Executes
  <2>2. \A r \in Requests : r.op \in Ops /\ r.op # "QUIT"
    BY RequestTypes
  <2> QED BY <2>1, <2>2
<1>2. readers = {} /\ \A e \in Events : mutex[e] = Null
  BY LocksAreFree
<1>3. CanExecute(w)
  BY <1>1, <1>2 DEF CanExecute, Ops
<1> QED BY <1>3 DEF SomebodyCanGo, WorkerCan

\* ... and no client is in a session: the server of one that waited would have read
\* what it has written, or has written what it waits for.
LEMMA SessionsAreOver ==
  ASSUME Inv, WaitOK, ~SomebodyCanGo, NEW c \in Clients
  PROVE  client[c].pc \in {"start", "openReq", "openRes", "closed", "dead"}
<1>1. client[c] \in Callers /\ ~ClientCan(c)
  BY DEF Inv, Types, ClientTypes, SomebodyCanGo
<1> SUFFICES ASSUME client[c].pc \in {"ack", "answer"}
             PROVE  FALSE
  BY <1>1 DEF Callers, ClientPlaces, ClientCan
<1>2. res[c] = <<>> /\ Connected(c)
  BY <1>1 DEF ClientCan
<1>3. PICK w \in Workers : Serves(w, c) /\ worker[w].pc \notin {"openReq", "openRes"}
  BY <1>2 DEF Connected
<1> DEFINE a == worker[w].read
<1>4. /\ Session(w, worker[w], client[c], a \o req[c], res[c], RestOf(w))
      /\ worker[w] \in Servers /\ worker[w].session = c
      /\ worker[w].pc \notin {"start", "fetch", "gone"}
      /\ a \in Seq(Pieces) /\ client[c].got \in Seq(Items)
  BY <1>3, SessionFacts
<1>5. worker[w].pc \in {"op", "id", "args"}
  BY <1>3, <1>4, LocksAreFree, RequestsAreDone DEF Servers, WorkerPlaces
<1>6. req[c] = <<>> /\ RestOf(w) = <<>>
  <2>1. ~WorkerCan(w)
    BY DEF SomebodyCanGo
  <2> QED BY <1>4, <1>5, <2>1 DEF WorkerCan, RestOf
<1>7. a \o req[c] = a /\ (client[c].got \o res[c]) \o RestOf(w) = client[c].got
  BY <1>2, <1>4, <1>6, ConcatEmptySeq
<1>8. CASE client[c].pc = "ack"
  BY <1>2, <1>4, <1>5, <1>8 DEF Session
<1>9. CASE client[c].pc = "answer"
  <2>1. \/ Complete(a)
        \/ a = <<>> /\ Whole(client[c].got, client[c].ask.op)
    BY <1>4, <1>7, <1>9 DEF Session
  <2>2. ~Whole(client[c].got, client[c].ask.op)
    BY <1>9 DEF WaitOK
  <2>3. Complete(a) => worker[w].pc \notin {"op", "id", "args"}
    <3>1. ReadOK(worker[w])
      BY <1>4 DEF Session
    <3>2. /\ worker[w].pc = "op" => Len(a) = 0
          /\ worker[w].pc = "id" => Len(a) = 1
          /\ worker[w].pc = "args" => Len(a) = 2 /\ a[1] # "LIST"
      BY <3>1 DEF ReadOK
    <3> HIDE DEF a
    <3> QED BY <3>2 DEF Complete
  <2> QED BY <1>5, <2>1, <2>2, <2>3
<1> QED BY <1>8, <1>9

\* What is left of a server that runs are workers that wait for a session, and workers
\* whose clients have died too early.
LEMMA WorkersRest ==
  ASSUME Inv, WaitOK, ~SomebodyCanGo, up, NEW w \in Workers
  PROVE  (worker[w].pc = "fetch" /\ queue = <<>>) \/ Stuck(w)
<1>1. worker[w] \in Servers /\ worker[w].pc # "gone" /\ ~WorkerCan(w) /\ ~HostCan
  BY DEF Inv, Types, WorkerTypes, WaitOK, SomebodyCanGo
<1>2. worker[w].pc # "start"
  BY <1>1, NamesApart DEF WorkerCan, HostCan, CanRun
<1>3. worker[w].pc \notin {"ack", "reply", "show", "list", "exec"}
  BY LocksAreFree, RequestsAreDone
<1>4. CASE worker[w].pc = "fetch"
  BY <1>1, <1>4 DEF WorkerCan
<1>5. ASSUME worker[w].pc \in {"openReq", "openRes", "op", "id", "args"}
      PROVE  Stuck(w)
  <2>1. PICK c \in Clients : Serves(w, c) /\ worker[w].session = c
    BY <1>5, Serving
  <2>2. Session(w, worker[w], client[c], worker[w].read \o req[c], res[c], RestOf(w))
    BY <2>1, SessionFacts
  <2>3. client[c].pc \in {"start", "openReq", "openRes", "closed", "dead"}
    BY SessionsAreOver
  <2>4. worker[w].pc \notin {"op", "id", "args"}
    BY <1>1, <2>1, <2>2, <2>3 DEF WorkerCan, Alive, Session
  <2>5. client[c].pc = "dead"
    BY <1>1, <1>5, <2>1, <2>2, <2>4 DEF WorkerCan, Session
  <2> QED BY <1>5, <2>1, <2>4, <2>5 DEF Stuck
<1> QED BY <1>1, <1>2, <1>3, <1>4, <1>5 DEF Servers, WorkerPlaces

\* So all has come to its end.
LEMMA AllSettled ==
  ASSUME Inv, WaitOK, ~SomebodyCanGo
  PROVE  Settled
<1>1. \A c \in Clients : client[c].pc \in {"start", "openReq", "openRes", "closed", "dead"}
  BY SessionsAreOver
<1>2. readers = {} /\ host.pc # "event" /\ \A e \in Events : mutex[e] = Null
  BY LocksAreFree
<1>3. ASSUME up
      PROVE  /\ handler = Null
             /\ host.pc \in {"read", "push"} /\ (host.pc = "read" => reg = <<>>)
             /\ host.pc = "push" => ~(Len(queue) < QueueSize)
  BY <1>2, <1>3 DEF Inv, Types, HostTypes, Hosts, HostPlaces, SomebodyCanGo, HostCan
<1>4. ASSUME up, SomeWorker
      PROVE  /\ host.pc = "read" /\ reg = <<>> /\ queue = <<>>
             /\ \A c \in Clients : client[c].pc \in {"closed", "dead"}
             /\ \A w \in Workers : worker[w].pc = "fetch" \/ Stuck(w)
  <2>1. \A w \in Workers : (worker[w].pc = "fetch" /\ queue = <<>>) \/ Stuck(w)
    BY <1>4, WorkersRest
  <2>2. queue = <<>>
    BY <1>4, <2>1 DEF SomeWorker
  <2>3. host.pc = "read" /\ reg = <<>>
    <3>1. Len(<<>>) < QueueSize
      BY NamesApart
    <3> QED BY <1>3, <1>4, <2>2, <3>1
  <2>4. host.who = Null
    BY <2>3 DEF Inv, Types, HostTypes
  <2>5. ASSUME NEW c \in Clients
        PROVE  client[c].pc \in {"closed", "dead"}
    <3>1. client[c].pc # "start"
      BY <1>4 DEF SomebodyCanGo, ClientCan
    <3>2. ~Registered(c)
      BY <2>2, <2>3, <2>4, NamesApart DEF Registered
    <3>3. IsServed(c) => client[c].pc = "dead"
      <4> SUFFICES ASSUME NEW w \in Workers, Serves(w, c)
                   PROVE  client[c].pc = "dead"
        BY DEF IsServed
      <4>1. worker[w].session = c /\ worker[w].pc # "fetch"
        BY SessionFacts
      <4> QED BY <2>1, <4>1 DEF Stuck
    <3> QED BY <1>1, <1>4, <3>1, <3>2, <3>3 DEF WaitOK
  <2> QED BY <2>1, <2>2, <2>3, <2>5
<1> QED BY <1>1, <1>2, <1>3, <1>4 DEF Settled

\* Nobody is left waiting: while anything of a session, a request, an answer or a print
\* of the events is to be done, the host, a worker or a client can go on.
THEOREM DeadlockFreedom == Spec => []NoDeadlock
<1>1. Init => WaitOK
  BY WaitsAtFirst
<1>2. Inv /\ WaitOK /\ [Next]_vars => WaitOK'
  BY WaitsKept
<1>3. Inv /\ WaitOK => NoDeadlock
  BY AllSettled DEF NoDeadlock
<1> QED BY <1>1, <1>2, <1>3, Invariance, PTL DEF Spec
==============================================================================

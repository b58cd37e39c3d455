------------------------------ MODULE EventList ------------------------------
(***************************************************************************)
(* The list of events of the first EMS project                             *)
(* (2nd year/OS/P1/eventlist.c with ems_create and ems_list_events of      *)
(* operations.c), shared by the threads of a job.                          *)
(*                                                                         *)
(* Link 0 leads to the first node and is guarded by head_lock; link i      *)
(* leads from node i to the next and is guarded by the lock of node i.     *)
(* Nodes are only appended, so the nodes that can be reached are the       *)
(* positions of evs and link Len(evs) is NULL.  A lock that is taken, used *)
(* to read one pointer and released is one step.  A thread keeps at most   *)
(* one link locked: the last one, between blocking_get_event and the end   *)
(* of append_to_list.                                                      *)
(***************************************************************************)
EXTENDS Integers, Sequences

CONSTANTS
  Threads,        \* threads of the pool
  Ids,            \* ids of events
  MaxOps,         \* MaxOps[t] commands reach t (the job file is finite)
  AllocMayFail    \* whether malloc may return NULL

ASSUME OpsAssumption   == MaxOps \in [Threads -> Nat]
ASSUME AllocAssumption == AllocMayFail \in BOOLEAN

Unlocked == -1

Commands == [kind : {"create", "get"}, id : Ids] \cup [kind : {"list"}]

VARIABLES
  evs,      \* ids of the events in the nodes that can be reached from head
  tail,     \* list->tail: position of the node it points to, 0 for NULL
  lock,     \* lock[t]: the link that t has locked in write mode, or Unlocked
  pc,       \* where each thread is
  cmd,      \* the command each thread is executing
  pos,      \* current: position of the node, 0 before the head is read
  seen,     \* ids that a LIST has accumulated
  res,      \* what the call returned or printed
  left,     \* commands the thread has still to execute
  exited    \* the process ended in handle_lock_failure

vars == <<evs, tail, lock, pc, cmd, pos, seen, res, left, exited>>

Results == [kind : {"none", "created", "exists", "found", "missing", "failed"}]
             \cup [kind : {"listed"}, ids : Seq(Ids)]

Nothing == [kind |-> "none"]

TypeOK ==
  /\ evs \in Seq(Ids)
  /\ tail \in Nat
  /\ lock \in [Threads -> Nat \cup {Unlocked}]
  /\ pc \in [Threads -> {"idle", "bscan", "append", "settail", "unlock", "scan", "list", "done"}]
  /\ cmd \in [Threads -> Commands]
  /\ pos \in [Threads -> 0 .. Len(evs)]
  /\ seen \in [Threads -> Seq(Ids)]
  /\ res \in [Threads -> Results]
  /\ left \in [Threads -> Nat]
  /\ exited \in BOOLEAN

Init ==
  /\ evs = <<>>
  /\ tail = 0
  /\ lock = [t \in Threads |-> Unlocked]
  /\ pc = [t \in Threads |-> "idle"]
  /\ cmd \in [Threads -> [kind : {"list"}]]
  /\ pos = [t \in Threads |-> 0]
  /\ seen = [t \in Threads |-> <<>>]
  /\ res = [t \in Threads |-> Nothing]
  /\ left = MaxOps
  /\ exited = FALSE

Free(link) == \A u \in Threads : lock[u] # link

\* current is a node and its event has the id that is looked for.
AtEvent(t) == pos[t] > 0 /\ evs[pos[t]] = cmd[t].id

Finish(t, r) ==
  /\ pc' = [pc EXCEPT ![t] = "done"]
  /\ res' = [res EXCEPT ![t] = r]

------------------------------------------------------------------------------
(* Mutants of the actions, for the checks of the properties *)

BlockingLastUnlocks(t) ==        \* the last node is unlocked before the append
  /\ pc[t] = "bscan" /\ ~ AtEvent(t)
  /\ Free(pos[t]) /\ pos[t] = Len(evs)
  /\ pc' = [pc EXCEPT ![t] = "append"]
  /\ UNCHANGED <<evs, tail, lock, cmd, pos, seen, res, left>>

LinkNodeUnlocks(t) ==            \* the old node is unlocked before tail moves
  /\ pc[t] = "append"
  /\ evs' = Append(SubSeq(evs, 1, tail), cmd[t].id)
  /\ pos' = [pos EXCEPT ![t] = tail]
  /\ pc' = [pc EXCEPT ![t] = "settail"]
  /\ lock' = [lock EXCEPT ![t] = Unlocked]
  /\ UNCHANGED <<tail, cmd, seen, res, left>>

GetAdvanceNoEnd(t) ==            \* the NULL at the end is followed
  /\ pc[t] = "scan" /\ ~ AtEvent(t)
  /\ Free(pos[t])
  /\ pos' = [pos EXCEPT ![t] = @ + 1]
  /\ UNCHANGED <<evs, tail, lock, pc, cmd, seen, res, left>>

UnlockOldForgets(t) ==           \* no unlock after the append
  /\ pc[t] = "unlock"
  /\ Finish(t, [kind |-> "created"])
  /\ UNCHANGED <<evs, tail, lock, cmd, pos, seen, left>>

AppendFailsSilently(t) ==        \* the result of append_to_list is ignored
  /\ AllocMayFail
  /\ pc[t] = "append"
  /\ Finish(t, [kind |-> "created"])
  /\ UNCHANGED <<evs, tail, lock, cmd, pos, seen, left>>

------------------------------------------------------------------------------

Entry == [create |-> "bscan", get |-> "scan", list |-> "list"]

\* The next command of the job file reaches a thread.
Call(t) ==
  /\ pc[t] = "idle" /\ left[t] > 0
  /\ \E c \in Commands :
       /\ cmd' = [cmd EXCEPT ![t] = c]
       /\ pc' = [pc EXCEPT ![t] = Entry[c.kind]]
  /\ pos' = [pos EXCEPT ![t] = 0]
  /\ seen' = [seen EXCEPT ![t] = <<>>]
  /\ left' = [left EXCEPT ![t] = @ - 1]
  /\ UNCHANGED <<evs, tail, lock, res>>

\* blocking_get_event finds the event: ems_create fails with no lock held.
BlockingFound(t) ==
  /\ pc[t] = "bscan" /\ AtEvent(t)
  /\ Finish(t, [kind |-> "exists"])
  /\ UNCHANGED <<evs, tail, lock, cmd, pos, seen, left>>

\* blocking_get_event goes past a link that is not the last.
BlockingAdvance(t) ==
  /\ pc[t] = "bscan" /\ ~ AtEvent(t)
  /\ Free(pos[t]) /\ pos[t] < Len(evs)
  /\ pos' = [pos EXCEPT ![t] = @ + 1]
  /\ UNCHANGED <<evs, tail, lock, pc, cmd, seen, res, left>>

\* It returns NULL with the last link locked.
BlockingLast(t) ==
  /\ pc[t] = "bscan" /\ ~ AtEvent(t)
  /\ Free(pos[t]) /\ pos[t] = Len(evs)
  /\ lock' = [lock EXCEPT ![t] = pos[t]]
  /\ pc' = [pc EXCEPT ![t] = "append"]
  /\ UNCHANGED <<evs, tail, cmd, pos, seen, res, left>>

\* append_to_list, whose node and lock are those of tail: whatever tail pointed
\* to is overwritten.
LinkNode(t) ==
  /\ pc[t] = "append"
  /\ evs' = Append(SubSeq(evs, 1, tail), cmd[t].id)
  /\ pos' = [pos EXCEPT ![t] = tail]
  /\ pc' = [pc EXCEPT ![t] = "settail"]
  /\ UNCHANGED <<tail, lock, cmd, seen, res, left>>

SetTail(t) ==
  /\ pc[t] = "settail"
  /\ tail' = pos[t] + 1
  /\ pc' = [pc EXCEPT ![t] = "unlock"]
  /\ UNCHANGED <<evs, lock, cmd, pos, seen, res, left>>

UnlockOld(t) ==
  /\ pc[t] = "unlock"
  /\ lock' = [u \in Threads |-> IF lock[u] = pos[t] THEN Unlocked ELSE lock[u]]
  /\ Finish(t, [kind |-> "created"])
  /\ UNCHANGED <<evs, tail, cmd, pos, seen, left>>

\* append_to_list returns 1 and nobody unlocks the link.
AppendFails(t) ==
  /\ AllocMayFail
  /\ pc[t] = "append"
  /\ Finish(t, [kind |-> "failed"])
  /\ UNCHANGED <<evs, tail, lock, cmd, pos, seen, left>>

\* event_create before the list is touched, or string_append while it is listed.
NoMemory(t) ==
  /\ AllocMayFail
  /\ pc[t] = "list" \/ (pc[t] = "bscan" /\ pos[t] = 0)
  /\ Finish(t, [kind |-> "failed"])
  /\ UNCHANGED <<evs, tail, lock, cmd, pos, seen, left>>

\* get_event, called by RESERVE and SHOW.
GetFound(t) ==
  /\ pc[t] = "scan" /\ AtEvent(t)
  /\ Finish(t, [kind |-> "found"])
  /\ UNCHANGED <<evs, tail, lock, cmd, pos, seen, left>>

GetAdvance(t) ==
  /\ pc[t] = "scan" /\ ~ AtEvent(t)
  /\ Free(pos[t]) /\ pos[t] < Len(evs)
  /\ pos' = [pos EXCEPT ![t] = @ + 1]
  /\ UNCHANGED <<evs, tail, lock, pc, cmd, seen, res, left>>

GetMissing(t) ==
  /\ pc[t] = "scan" /\ ~ AtEvent(t)
  /\ Free(pos[t]) /\ pos[t] = Len(evs)
  /\ Finish(t, [kind |-> "missing"])
  /\ UNCHANGED <<evs, tail, lock, cmd, pos, seen, left>>

\* The loop of ems_list_events.
ListAdvance(t) ==
  /\ pc[t] = "list"
  /\ Free(pos[t]) /\ pos[t] < Len(evs)
  /\ pos' = [pos EXCEPT ![t] = @ + 1]
  /\ seen' = [seen EXCEPT ![t] = Append(@, evs[pos[t] + 1])]
  /\ UNCHANGED <<evs, tail, lock, pc, cmd, res, left>>

\* The list is printed; an empty one as "No events".
ListEnd(t) ==
  /\ pc[t] = "list"
  /\ Free(pos[t]) /\ pos[t] = Len(evs)
  /\ Finish(t, [kind |-> "listed", ids |-> seen[t]])
  /\ UNCHANGED <<evs, tail, lock, cmd, pos, seen, left>>

Return(t) ==
  /\ pc[t] = "done"
  /\ pc' = [pc EXCEPT ![t] = "idle"]
  /\ UNCHANGED <<evs, tail, lock, cmd, pos, seen, res, left>>

\* A thread that asks for a lock it has itself in write mode gets EDEADLK, and
\* handle_lock_failure ends the process.
SelfDeadlock(t) ==
  /\ pc[t] = "list" \/ (pc[t] \in {"bscan", "scan"} /\ ~ AtEvent(t))
  /\ lock[t] = pos[t]
  /\ exited' = TRUE
  /\ UNCHANGED <<evs, tail, lock, pc, cmd, pos, seen, res, left>>

Step(t) ==
  /\ ~ exited
  /\ \/ SelfDeadlock(t)
     \/ /\ UNCHANGED exited
        /\ \/ Call(t) \/ BlockingFound(t) \/ BlockingAdvance(t) \/ BlockingLast(t)
           \/ LinkNode(t) \/ SetTail(t) \/ UnlockOld(t) \/ AppendFails(t) \/ NoMemory(t)
           \/ GetFound(t) \/ GetAdvance(t) \/ GetMissing(t)
           \/ ListAdvance(t) \/ ListEnd(t) \/ Return(t)

Next == \E t \in Threads : Step(t)

Spec == Init /\ [][Next]_vars

\* A thread that can run does run: the kernel schedules every thread.
FairSpec == Spec /\ \A t \in Threads : WF_vars(Step(t))

------------------------------------------------------------------------------
(* Properties *)

\* No two events have the same id, although the search for the id and the append
\* are separate calls (operations.c:118 and 125).
UniqueIds == \A i, j \in DOMAIN evs : evs[i] = evs[j] => i = j

\* A thread that is about to append has the last link locked, nobody else does,
\* and tail points to the node of that link (eventlist.h:71).
AppendsAtTail ==
  \A t \in Threads : pc[t] = "append" =>
    /\ lock[t] = Len(evs) /\ tail = Len(evs)
    /\ \A u \in Threads \ {t} : pc[u] \notin {"append", "settail", "unlock"}

\* An event, once created, is never lost or moved: appends do not overwrite.
EventsStay == [][Len(evs) <= Len(evs') /\ SubSeq(evs', 1, Len(evs)) = evs]_vars

\* Every command returns, failing or not.
EveryCommandReturns == \A t \in Threads : (pc[t] # "idle") ~> (pc[t] = "idle")

\* As long as no command runs out of memory, every command returns.
ReturnWhileMemoryLasts ==
  [](\A t \in Threads : res[t].kind # "failed") => EveryCommandReturns

------------------------------------------------------------------------------
(* The atomic operations that the list implements *)

OpOf(p, c, r) ==
  CASE p = "idle"                                -> [stage |-> "idle"]
    [] p \in {"bscan", "append", "scan", "list"} -> [stage |-> "called", cmd |-> c]
    [] p \in {"settail", "unlock"}               ->
         [stage |-> "done", res |-> [kind |-> "created"]]
    [] p = "done"                                -> [stage |-> "done", res |-> r]

absOp == [t \in Threads |-> OpOf(pc[t], cmd[t], res[t])]

Atomic == INSTANCE EventSet WITH events <- evs, op <- absOp, MayFail <- AllocMayFail

\* CREATE, the search for an event and LIST, which work node by node with other
\* threads in between, are atomic: two CREATE of one id make one event, a search
\* that fails had a moment without the event, a LIST is the list at one moment.
AtomicOperations == Atomic!Spec
==============================================================================

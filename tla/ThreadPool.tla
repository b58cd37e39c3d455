----------------------------- MODULE ThreadPool -----------------------------
(***************************************************************************)
(* One job of the first EMS project: execute_job and execute_command       *)
(* (2nd year/OS/P1/batch.c) on the thread pool of thread_pool.c.           *)
(*                                                                         *)
(* The main thread creates the threads of a pool, joins them, and starts   *)
(* another pool when they stopped at a BARRIER.  A thread reads a command  *)
(* under the input lock, in two steps (its name, then its arguments), and  *)
(* executes it after the lock is released.  CREATE, RESERVE, SHOW, LIST,   *)
(* HELP and the lines that do not parse are commands "exec"; a WAIT asks   *)
(* for one unit of delay.  A mutex held around one access (the mutex of a  *)
(* thread's delay, and pool_lock outside threadpool_init) is that step.    *)
(***************************************************************************)
EXTENDS Integers, Sequences

CONSTANTS
  NThreads,        \* max_threads of the command line
  Jobs,            \* the job files
  CreateMayFail    \* whether malloc, a mutex or pthread_create may fail

ASSUME ThreadsAssumption == NThreads \in Nat \ {0}   \* main.c:100
ASSUME CreateAssumption  == CreateMayFail \in BOOLEAN

Threads == 1 .. NThreads

\* WAIT names a thread, rightly or not, or none at all.
Commands == [kind : {"exec", "barrier", "waitall"}] \cup [kind : {"wait"}, thread : Nat]

ASSUME JobsAssumption == Jobs \subseteq Seq(Commands)

VARIABLES
  job,         \* the job file
  next,        \* the position of the input file, in commands
  status,      \* exit_status of the pool
  poolLock,    \* main holds pool_lock
  inputLock,   \* holder of the global input lock, 0 for nobody
  main,        \* where the main thread is
  restarted,   \* main is in the loop that restarts the pool
  created,     \* threads of the pool that exist
  pc,          \* where each thread is
  cur,         \* position of the command each thread is at
  wait,        \* wait_time of each thread
  nap,         \* delay a thread has taken and not slept yet
  upto,        \* threads that a WAIT has reached
  done,        \* commands that have finished
  asked,       \* history: the delay asked of each thread of the pool
  slept        \* history: the delay it has slept

mainVars  == <<main, restarted, created, poolLock>>
fileVars  == <<job, next, inputLock>>
delayVars == <<wait, nap, upto, asked, slept>>
vars == <<job, next, status, poolLock, inputLock, main, restarted, created, pc, cur,
          wait, nap, upto, done, asked, slept>>

Holding == {"check", "read", "parse", "barrier", "eoc"}
Running == {"exec", "wait"}
Ended   == {"done", "failed", "crashed"}
Places  == {"none", "new", "top", "nap", "want", "exit"} \cup Holding \cup Running

TypeOK ==
  /\ job \in Jobs
  /\ next \in 1 .. Len(job) + 1
  /\ status \in {"CONTINUE", "EOC_FOUND", "BARRIER_FOUND", "FATAL_ERROR"}
  /\ inputLock \in Threads \cup {0}
  /\ main \in {"create", "join"} \cup Ended
  /\ poolLock \in BOOLEAN /\ restarted \in BOOLEAN
  /\ created \in 0 .. NThreads
  /\ pc \in [Threads -> Places]
  /\ cur \in [Threads -> Nat]
  /\ wait \in [Threads -> Nat] /\ nap \in [Threads -> Nat]
  /\ asked \in [Threads -> Nat] /\ slept \in [Threads -> Nat]
  /\ upto \in [Threads -> 0 .. NThreads]
  /\ done \subseteq 1 .. Len(job)

Zero == [t \in Threads |-> 0]

Init ==
  /\ job \in Jobs /\ next = 1
  /\ status = "CONTINUE" /\ poolLock = TRUE /\ inputLock = 0
  /\ main = "create" /\ restarted = FALSE /\ created = 0
  /\ pc = [t \in Threads |-> "none"]
  /\ cur = Zero /\ wait = Zero /\ nap = Zero /\ upto = Zero
  /\ asked = Zero /\ slept = Zero
  /\ done = {}

Goto(t, place) == pc' = [pc EXCEPT ![t] = place]

\* What threadpool_init and thread_init put in a new pool, exit_status excepted.
EmptyPool ==
  /\ pc' = [t \in Threads |-> "none"]
  /\ created' = 0 /\ poolLock' = TRUE
  /\ wait' = Zero /\ nap' = Zero /\ asked' = Zero /\ slept' = Zero

------------------------------------------------------------------------------
(* Mutants of the actions, for the checks of the properties *)

AcquireBeforeCheck(t) ==       \* the exit status is not looked at
  /\ pc[t] = "want" /\ inputLock = 0
  /\ inputLock' = t
  /\ Goto(t, "read")
  /\ UNCHANGED <<job, next, status, cur, done>> /\ UNCHANGED <<mainVars, delayVars>>

RestartPoolKeepsStatus ==      \* exit_status is kept from the last pool
  /\ main' = "create" /\ restarted' = TRUE
  /\ EmptyPool
  /\ UNCHANGED status

GetWaitKeeps(t) ==             \* wait_time is not reset
  /\ pc[t] = "top"
  /\ nap' = [nap EXCEPT ![t] = wait[t]]
  /\ Goto(t, IF wait[t] = 0 THEN "want" ELSE "nap")
  /\ UNCHANGED <<status, cur, done, wait, upto, asked, slept>> /\ UNCHANGED <<mainVars, fileVars>>

ReadUnlocks(t) ==              \* the lock is released before the arguments are read
  /\ pc[t] = "read"
  /\ cur' = [cur EXCEPT ![t] = next]
  /\ inputLock' = IF next <= Len(job) /\ job[next].kind = "exec" THEN 0 ELSE inputLock
  /\ IF next > Len(job)
       THEN status' = "EOC_FOUND" /\ Goto(t, "eoc")
       ELSE IF job[next].kind = "barrier"
         THEN status' = "BARRIER_FOUND" /\ Goto(t, "barrier")
         ELSE UNCHANGED status /\ Goto(t, "parse")
  /\ UNCHANGED <<job, next, done>> /\ UNCHANGED <<mainVars, delayVars>>

CreateFailsQuietly ==          \* exit_status is not set
  /\ CreateMayFail
  /\ main = "create" /\ created < NThreads
  /\ UNCHANGED status
  /\ poolLock' = FALSE /\ main' = "join"
  /\ UNCHANGED <<restarted, created, pc, cur, done>> /\ UNCHANGED <<fileVars, delayVars>>

JoinAtEndOfPool ==             \* the pool is not restarted
  /\ main = "join" /\ \A t \in 1 .. created : pc[t] = "exit"
  /\ created = NThreads
  /\ main' = "done"
  /\ UNCHANGED <<status, poolLock, restarted, created, pc, cur, done>>
  /\ UNCHANGED <<fileVars, delayVars>>

------------------------------------------------------------------------------
(* The main thread *)

CreateThread ==
  /\ main = "create" /\ created < NThreads
  /\ created' = created + 1
  /\ Goto(created + 1, "new")
  /\ UNCHANGED <<status, poolLock, main, restarted, cur, done>>
  /\ UNCHANGED <<fileVars, delayVars>>

\* The pool is given up; the threads that exist will see FATAL_ERROR.
CreateFails ==
  /\ CreateMayFail
  /\ main = "create" /\ created < NThreads
  /\ status' = "FATAL_ERROR"
  /\ poolLock' = FALSE /\ main' = "join"
  /\ UNCHANGED <<restarted, created, pc, cur, done>> /\ UNCHANGED <<fileVars, delayVars>>

PoolReady ==
  /\ main = "create" /\ created = NThreads
  /\ poolLock' = FALSE /\ main' = "join"
  /\ UNCHANGED <<status, restarted, created, pc, cur, done>> /\ UNCHANGED <<fileVars, delayVars>>

AllJoined == main = "join" /\ \A t \in 1 .. created : pc[t] = "exit"

\* threadpool_init returned NULL: the first time execute_job ends with 1, in the
\* loop the NULL pointer is given to threadpool_join.
JoinFailedPool ==
  /\ AllJoined /\ created < NThreads
  /\ main' = IF restarted THEN "crashed" ELSE "failed"
  /\ UNCHANGED <<status, poolLock, restarted, created, pc, cur, done>>
  /\ UNCHANGED <<fileVars, delayVars>>

RestartPool ==
  /\ main' = "create" /\ restarted' = TRUE
  /\ EmptyPool
  /\ status' = "CONTINUE"

JoinAtBarrier ==
  /\ AllJoined /\ created = NThreads /\ status = "BARRIER_FOUND"
  /\ RestartPool
  /\ UNCHANGED <<cur, upto, done>> /\ UNCHANGED fileVars

JoinAtEnd ==
  /\ AllJoined /\ created = NThreads /\ status # "BARRIER_FOUND"
  /\ main' = "done"
  /\ UNCHANGED <<status, poolLock, restarted, created, pc, cur, done>>
  /\ UNCHANGED <<fileVars, delayVars>>

Main == CreateThread \/ CreateFails \/ PoolReady \/ JoinFailedPool \/ JoinAtBarrier \/ JoinAtEnd

------------------------------------------------------------------------------
(* The threads *)

\* thread_wrapper_fn waits for the end of threadpool_init.
Begin(t) ==
  /\ pc[t] = "new" /\ ~ poolLock
  /\ Goto(t, IF status = "CONTINUE" THEN "top" ELSE "exit")
  /\ UNCHANGED <<status, cur, done>> /\ UNCHANGED <<mainVars, fileVars, delayVars>>

GetWait(t) ==
  /\ pc[t] = "top"
  /\ nap' = [nap EXCEPT ![t] = wait[t]]
  /\ wait' = [wait EXCEPT ![t] = 0]
  /\ Goto(t, IF wait[t] = 0 THEN "want" ELSE "nap")
  /\ UNCHANGED <<status, cur, done, upto, asked, slept>> /\ UNCHANGED <<mainVars, fileVars>>

Nap(t) ==
  /\ pc[t] = "nap"
  /\ slept' = [slept EXCEPT ![t] = @ + nap[t]]
  /\ nap' = [nap EXCEPT ![t] = 0]
  /\ Goto(t, "want")
  /\ UNCHANGED <<status, cur, done, wait, upto, asked>> /\ UNCHANGED <<mainVars, fileVars>>

Acquire(t) ==
  /\ pc[t] = "want" /\ inputLock = 0
  /\ inputLock' = t
  /\ Goto(t, "check")
  /\ UNCHANGED <<job, next, status, cur, done>> /\ UNCHANGED <<mainVars, delayVars>>

Release(t, place) == inputLock' = 0 /\ Goto(t, place)

Check(t) ==
  /\ pc[t] = "check"
  /\ IF status = "CONTINUE" THEN Goto(t, "read") /\ UNCHANGED inputLock ELSE Release(t, "exit")
  /\ UNCHANGED <<job, next, status, cur, done>> /\ UNCHANGED <<mainVars, delayVars>>

\* get_next; at a BARRIER and at the end of the file the pool is told to stop.
Read(t) ==
  /\ pc[t] = "read"
  /\ cur' = [cur EXCEPT ![t] = next]
  /\ IF next > Len(job)
       THEN status' = "EOC_FOUND" /\ Goto(t, "eoc")
       ELSE IF job[next].kind = "barrier"
         THEN status' = "BARRIER_FOUND" /\ Goto(t, "barrier")
         ELSE UNCHANGED status /\ Goto(t, "parse")
  /\ UNCHANGED <<job, next, inputLock, done>> /\ UNCHANGED <<mainVars, delayVars>>

\* The arguments are read and the lock is released.
Parse(t) ==
  /\ pc[t] = "parse"
  /\ next' = next + 1
  /\ Release(t, IF job[cur[t]].kind = "exec" THEN "exec" ELSE "wait")
  /\ upto' = [upto EXCEPT ![t] = 0]
  /\ UNCHANGED <<job, status, cur, done, wait, nap, asked, slept>> /\ UNCHANGED mainVars

LeaveBarrier(t) ==
  /\ pc[t] = "barrier"
  /\ next' = next + 1
  /\ done' = done \cup {cur[t]}
  /\ Release(t, "top")
  /\ UNCHANGED <<job, status, cur>> /\ UNCHANGED <<mainVars, delayVars>>

EndOfFile(t) ==
  /\ pc[t] = "eoc"
  /\ Release(t, "exit")
  /\ UNCHANGED <<job, next, status, cur, done>> /\ UNCHANGED <<mainVars, delayVars>>

Complete(t) ==
  /\ done' = done \cup {cur[t]}
  /\ Goto(t, "top")
  /\ UNCHANGED <<status, cur>> /\ UNCHANGED <<mainVars, fileVars>>

Execute(t) ==
  /\ pc[t] = "exec"
  /\ Complete(t)
  /\ UNCHANGED delayVars

Delay(u) == wait' = [wait EXCEPT ![u] = @ + 1] /\ asked' = [asked EXCEPT ![u] = @ + 1]

\* WAIT for one thread, which must exist.
WaitOne(t) ==
  /\ pc[t] = "wait" /\ job[cur[t]].kind = "wait"
  /\ IF job[cur[t]].thread \in Threads
       THEN Delay(job[cur[t]].thread) ELSE UNCHANGED <<wait, asked>>
  /\ Complete(t)
  /\ UNCHANGED <<nap, upto, slept>>

\* WAIT for all of them, one after the other.
WaitNext(t) ==
  /\ pc[t] = "wait" /\ job[cur[t]].kind = "waitall" /\ upto[t] < NThreads
  /\ Delay(upto[t] + 1)
  /\ upto' = [upto EXCEPT ![t] = @ + 1]
  /\ UNCHANGED <<status, pc, cur, done, nap, slept>> /\ UNCHANGED <<mainVars, fileVars>>

WaitEnd(t) ==
  /\ pc[t] = "wait" /\ job[cur[t]].kind = "waitall" /\ upto[t] = NThreads
  /\ Complete(t)
  /\ UNCHANGED delayVars

Step(t) ==
  \/ Begin(t) \/ GetWait(t) \/ Nap(t) \/ Acquire(t) \/ Check(t) \/ Read(t) \/ Parse(t)
  \/ LeaveBarrier(t) \/ EndOfFile(t) \/ Execute(t)
  \/ WaitOne(t) \/ WaitNext(t) \/ WaitEnd(t)

\* The job has ended; nothing else happens.
Terminated == main \in Ended /\ UNCHANGED vars

Next == Main \/ (\E t \in Threads : Step(t)) \/ Terminated

Spec == Init /\ [][Next]_vars

\* The kernel runs every thread that can run.
FairSpec == Spec /\ WF_vars(Main) /\ \A t \in Threads : WF_vars(Step(t))

------------------------------------------------------------------------------
(* Properties *)

\* While a command is executed, everything above the BARRIERs that precede it has
\* finished, in this pool or in an earlier one.
BarrierHolds ==
  \A t \in Threads : pc[t] \in Running =>
    \A b \in 1 .. cur[t] - 1 : job[b].kind = "barrier" => 1 .. b - 1 \subseteq done

\* No command is executed by two threads, or again after it finished.
EachOnce ==
  \A t \in Threads : pc[t] \in Running =>
    /\ cur[t] \notin done
    /\ \A u \in Threads \ {t} : pc[u] \in Running => cur[u] # cur[t]

\* When the job ends, every command of the file has been executed.
CompleteAtEnd == main = "done" => done = 1 .. Len(job)

\* The two together: each command of the file is executed exactly once by a job that
\* ends, whichever threads and pools shared it out (batch.c:138-143, 264-280).
ExactlyOnce == EachOnce /\ CompleteAtEnd

\* A pool that could not be completed reads no command: its threads, which may
\* exist and wait for pool_lock, leave without one.
FailedPoolReadsNothing ==
  main # "create" /\ created < NThreads => \A t \in Threads : pc[t] \in {"none", "new", "exit"}

\* A delay asked of a thread is slept once, if the pool lasts: increases and the
\* reset in threadpool_get_wait do not lose or repeat one.
DelaysConserved == \A t \in Threads : asked[t] = slept[t] + nap[t] + wait[t]

\* The job ends, whatever the order in which the threads run.
JobEnds == <>(main \in Ended)

\* threadpool_join answers "0 on success; 1 otherwise" (thread_pool.h:67) and
\* execute_job reports the pool it could not create (batch.c:275).
NoCrash == main # "crashed"

------------------------------------------------------------------------------

Order == INSTANCE JobOrder WITH started <- next - 1

\* The pools keep the order that the job file promises.
KeepsOrder == Order!Spec
==============================================================================

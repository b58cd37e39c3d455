----------------------------- MODULE BatchProofs -----------------------------
(***************************************************************************)
(* Proofs about a batch of the first EMS project: the processes that       *)
(* process_batch makes, one for each job file (ProcessPool), and the pool  *)
(* of threads that executes one job (ThreadPool).                          *)
(*                                                                         *)
(* The processes: the count that process_batch keeps by adding and         *)
(* subtracting one, without a look at what wait answers, is right for      *)
(* every directory and every max_proc.                                     *)
(*                                                                         *)
(* The threads, for any number of them and any set of job files: the       *)
(* invariant says who may read (only the holder of the input lock, and     *)
(* only while the pool is told to continue), where the position of the     *)
(* file is with respect to what the holder has read, that every command    *)
(* read before is finished or in the hands of a thread, and that the       *)
(* commands above every BARRIER passed are finished.                       *)
(***************************************************************************)
EXTENDS ThreadPool, ProcessPool, FiniteSetTheorems, TLAPS

\* Everything above the BARRIERs before position n has finished.
Passed(n) == \A b \in 1 .. n - 1 : job[b].kind = "barrier" => 1 .. b - 1 \subseteq done

PoolOK ==
  /\ poolLock <=> main = "create"
  /\ \A t \in Threads : pc[t] = "none" <=> t > created
  /\ main = "create" => status = "CONTINUE" /\ \A t \in Threads : pc[t] \in {"none", "new"}
  /\ main # "create" /\ created < NThreads =>
       status = "FATAL_ERROR" /\ \A t \in Threads : pc[t] \in {"none", "new", "exit"}
  /\ main \in Ended => \A t \in Threads : pc[t] \in {"none", "exit"}
  /\ main = "done" => created = NThreads /\ status # "BARRIER_FOUND"
  /\ created = NThreads => status # "FATAL_ERROR"

LockOK == \A t \in Threads : pc[t] \in Holding <=> inputLock = t

ReadOK ==
  \A t \in Threads :
    /\ pc[t] \in {"read", "parse"} => status = "CONTINUE"
    /\ pc[t] \in {"parse", "barrier"} => cur[t] = next /\ next <= Len(job)
    /\ pc[t] = "parse" => job[next].kind # "barrier"
    /\ pc[t] = "barrier" => job[next].kind = "barrier" /\ status = "BARRIER_FOUND"
    /\ pc[t] = "eoc" => status = "EOC_FOUND"

StatusOK ==
  /\ status = "EOC_FOUND" => next = Len(job) + 1
  /\ \A t \in Threads : pc[t] = "exit" => status # "CONTINUE"

\* What has been read is finished or is being executed.
Progress ==
  /\ done \subseteq 1 .. next - 1
  /\ \A k \in 1 .. next - 1 : k \in done \/ \E t \in Threads : pc[t] \in Running /\ cur[t] = k

Barriers == status = "CONTINUE" \/ (\E t \in Threads : pc[t] = "barrier") => Passed(next)

RunOK ==
  \A t \in Threads : pc[t] \in Running =>
    /\ cur[t] \in 1 .. next - 1 /\ job[cur[t]].kind # "barrier"
    /\ cur[t] \notin done
    /\ \A u \in Threads \ {t} : pc[u] \in Running => cur[u] # cur[t]
    /\ Passed(cur[t])

Inv == TypeOK /\ PoolOK /\ LockOK /\ ReadOK /\ StatusOK /\ Progress /\ Barriers /\ RunOK

\* What the assumptions say of the constants.
LEMMA NThreadsType == /\ NThreads \in Nat /\ NThreads >= 1 /\ Threads = 1 .. NThreads
                      /\ \A j \in Jobs : j \in Seq(Commands) /\ Len(j) \in Nat
<1>1. \A j \in Jobs : j \in Seq(Commands)
  BY JobsAssumption
<1>2. \A j \in Seq(Commands) : Len(j) \in Nat
  OBVIOUS
<1> QED BY <1>1, <1>2, ThreadsAssumption DEF Threads

\* The parts of TypeOK that the steps need, without the rest of it.
LEMMA TypeParts ==
  ASSUME TypeOK
  PROVE  /\ job \in Jobs /\ job \in Seq(Commands) /\ Len(job) \in Nat
         /\ next \in 1 .. Len(job) + 1 /\ next \in Nat /\ done \subseteq 1 .. Len(job)
         /\ pc \in [Threads -> Places] /\ cur \in [Threads -> Nat]
         /\ wait \in [Threads -> Nat] /\ nap \in [Threads -> Nat]
         /\ asked \in [Threads -> Nat] /\ slept \in [Threads -> Nat]
         /\ upto \in [Threads -> 0 .. NThreads] /\ created \in 0 .. NThreads
         /\ inputLock \in Threads \cup {0}
<1>1. job \in Jobs
  BY DEF TypeOK
<1>2. job \in Seq(Commands) /\ Len(job) \in Nat
  BY <1>1, NThreadsType
<1>3. next \in 1 .. Len(job) + 1 /\ done \subseteq 1 .. Len(job) /\ created \in 0 .. NThreads
  BY DEF TypeOK
<1>4. /\ pc \in [Threads -> Places] /\ cur \in [Threads -> Nat]
      /\ wait \in [Threads -> Nat] /\ nap \in [Threads -> Nat]
      /\ asked \in [Threads -> Nat] /\ slept \in [Threads -> Nat]
      /\ upto \in [Threads -> 0 .. NThreads] /\ inputLock \in Threads \cup {0}
  BY DEF TypeOK
<1> QED BY <1>1, <1>2, <1>3, <1>4, SMTT(30)

\* Functions to the naturals stay so when a value grows or is replaced.
LEMMA Sums ==
  ASSUME NEW f \in [Threads -> Nat], NEW t \in Threads, NEW k \in Nat
  PROVE  [f EXCEPT ![t] = @ + k] \in [Threads -> Nat] /\ [f EXCEPT ![t] = k] \in [Threads -> Nat]
OBVIOUS

\* The places that the actions name are places.
LEMMA PlacesType == /\ {"none", "new", "top", "nap", "want", "exit"} \subseteq Places
                    /\ Holding \subseteq Places /\ Running \subseteq Places
BY DEF Places

\* What an action that moves t does to pc, place by place.
LEMMA Moves ==
  ASSUME TypeOK, NEW t \in Threads, NEW place \in Places, Goto(t, place)
  PROVE  /\ pc' \in [Threads -> Places]
         /\ pc'[t] = place /\ \A u \in Threads \ {t} : pc'[u] = pc[u]
BY DEF Goto, TypeOK

\* Every step keeps the invariant.
LEMMA StepInv == Inv /\ [Next]_vars => Inv'
<1> SUFFICES ASSUME Inv, [Next]_vars PROVE Inv'
  OBVIOUS
<1>0. TypeOK /\ job \in Jobs /\ job \in Seq(Commands) /\ Len(job) \in Nat /\ next \in Nat /\ 0 \notin Threads
      /\ NThreads \in Nat /\ NThreads >= 1 /\ Threads = 1 .. NThreads
  <2>1. TypeOK
    BY DEF Inv
  <2> QED BY <2>1, TypeParts, NThreadsType
<1>00. /\ pc \in [Threads -> Places] /\ cur \in [Threads -> Nat] /\ upto \in [Threads -> 0 .. NThreads]
       /\ next \in 1 .. Len(job) + 1 /\ done \subseteq 1 .. Len(job)
  BY <1>0, TypeParts
<1>1. ASSUME CreateThread PROVE Inv'
  <2>0. /\ main = "create" /\ created \in Nat /\ created < NThreads /\ created' = created + 1
        /\ created + 1 \in Threads /\ pc' \in [Threads -> Places] /\ pc'[created + 1] = "new"
        /\ \A u \in Threads \ {created + 1} : pc'[u] = pc[u]
        /\ UNCHANGED <<job, next, status, inputLock, main, restarted, poolLock, cur, done, wait, nap, upto, asked, slept>>
    BY <1>0, <1>1, PlacesType DEF CreateThread, Goto, TypeOK, fileVars, delayVars
  <2>00. pc[created + 1] = "none"
    BY <1>0, <2>0 DEF Inv, PoolOK
  <2>1. TypeOK'
    <3>1. created' \in 0 .. NThreads
      BY <1>0, <2>0
    <3> QED BY <1>0, <2>0, <3>1 DEF TypeOK
  <2>2. PoolOK'
    <3>1. \A u \in Threads : pc'[u] = "none" <=> u > created'
      BY <1>0, <2>0 DEF Inv, PoolOK
    <3> QED BY <1>0, <2>0, <2>00, <3>1 DEF Inv, PoolOK, Ended
  <2>3. LockOK'
    BY <1>0, <2>0, <2>00 DEF Inv, LockOK, Holding
  <2>4. ReadOK'
    BY <1>0, <2>0, <2>00 DEF Inv, ReadOK, Running
  <2>5. StatusOK'
    BY <1>0, <2>0, <2>00 DEF Inv, StatusOK
  <2>6. Progress'
    <3>1. \A u \in Threads : pc[u] \in Running => pc'[u] \in Running /\ cur'[u] = cur[u]
      BY <1>0, <2>0, <2>00 DEF Running
    <3> QED BY <2>0, <3>1 DEF Inv, Progress
  <2>7. Barriers'
    BY <1>0, <2>0, <2>00 DEF Inv, Barriers, Passed
  <2>8. RunOK'
    BY <1>0, <2>0, <2>00 DEF Inv, RunOK, Passed, Running
  <2> QED BY <2>1, <2>2, <2>3, <2>4, <2>5, <2>6, <2>7, <2>8 DEF Inv
<1>2. ASSUME CreateFails PROVE Inv'
  <2>1. TypeOK'
    BY <1>0, <1>2 DEF CreateFails, Goto, Inv, TypeOK, mainVars, fileVars, delayVars, Zero
  <2>2. PoolOK'
    BY <1>0, <1>2, SMTT(30) DEF CreateFails, Goto, Inv, PoolOK, mainVars, fileVars, delayVars, Ended, Holding, Running, TypeOK
  <2>3. LockOK'
    BY <1>0, <1>2 DEF CreateFails, Goto, Inv, LockOK, mainVars, fileVars, delayVars, Holding, TypeOK
  <2>4. ReadOK'
    <3>1. \A t \in Threads : pc'[t] \in {"none", "new"}
      BY <1>2 DEF CreateFails, Inv, PoolOK
    <3> QED BY <3>1 DEF ReadOK, Running
  <2>5. StatusOK'
    BY <1>0, <1>2 DEF CreateFails, Goto, Inv, StatusOK, mainVars, fileVars, delayVars, Ended, TypeOK
  <2>6. Progress'
    BY <1>0, <1>2 DEF CreateFails, Goto, Inv, Progress, mainVars, fileVars, delayVars, Running, Holding, TypeOK
  <2>7. Barriers'
    BY <1>0, <1>2 DEF CreateFails, Goto, Inv, Barriers, mainVars, fileVars, delayVars, Passed, TypeOK
  <2>8. RunOK'
    BY <1>0, <1>2 DEF CreateFails, Goto, Inv, RunOK, mainVars, fileVars, delayVars, Passed, Running, TypeOK
  <2> QED BY <2>1, <2>2, <2>3, <2>4, <2>5, <2>6, <2>7, <2>8 DEF Inv
<1>3. ASSUME PoolReady PROVE Inv'
  <2>1. TypeOK'
    BY <1>0, <1>3 DEF PoolReady, Goto, Inv, TypeOK, mainVars, fileVars, delayVars, Zero
  <2>2. PoolOK'
    BY <1>0, <1>3 DEF PoolReady, Goto, Inv, PoolOK, mainVars, fileVars, delayVars, Ended, Holding, Running, TypeOK
  <2>3. LockOK'
    BY <1>0, <1>3 DEF PoolReady, Goto, Inv, LockOK, mainVars, fileVars, delayVars, Holding, TypeOK
  <2>4. ReadOK'
    BY <1>0, <1>3 DEF PoolReady, Goto, Inv, ReadOK, mainVars, fileVars, delayVars, Holding, Running, TypeOK
  <2>5. StatusOK'
    BY <1>0, <1>3 DEF PoolReady, Goto, Inv, StatusOK, mainVars, fileVars, delayVars, Ended, TypeOK
  <2>6. Progress'
    BY <1>0, <1>3 DEF PoolReady, Goto, Inv, Progress, mainVars, fileVars, delayVars, Running, Holding, TypeOK
  <2>7. Barriers'
    BY <1>0, <1>3 DEF PoolReady, Goto, Inv, Barriers, mainVars, fileVars, delayVars, Passed, TypeOK
  <2>8. RunOK'
    BY <1>0, <1>3 DEF PoolReady, Goto, Inv, RunOK, mainVars, fileVars, delayVars, Passed, Running, TypeOK
  <2> QED BY <2>1, <2>2, <2>3, <2>4, <2>5, <2>6, <2>7, <2>8 DEF Inv
<1>4. ASSUME JoinFailedPool PROVE Inv'
  <2>1. TypeOK'
    <3>1. main' \in Ended /\ UNCHANGED <<job, next, status, inputLock, poolLock, restarted, created, pc, cur, done, wait, nap, upto, asked, slept>>
      BY <1>4 DEF JoinFailedPool, fileVars, delayVars, Ended
    <3> QED BY <1>0, <3>1 DEF TypeOK
  <2>2. PoolOK'
    BY <1>0, <1>4 DEF JoinFailedPool, AllJoined, Goto, Inv, PoolOK, mainVars, fileVars, delayVars, Ended, Holding, Running, TypeOK
  <2>3. LockOK'
    BY <1>0, <1>4 DEF JoinFailedPool, AllJoined, Goto, Inv, LockOK, mainVars, fileVars, delayVars, Holding, TypeOK
  <2>4. ReadOK'
    BY <1>0, <1>4 DEF JoinFailedPool, AllJoined, Goto, Inv, ReadOK, mainVars, fileVars, delayVars, Holding, Running, TypeOK
  <2>5. StatusOK'
    BY <1>0, <1>4 DEF JoinFailedPool, AllJoined, Goto, Inv, StatusOK, mainVars, fileVars, delayVars, Ended, TypeOK
  <2>6. Progress'
    BY <1>0, <1>4 DEF JoinFailedPool, AllJoined, Goto, Inv, Progress, mainVars, fileVars, delayVars, Running, Holding, TypeOK
  <2>7. Barriers'
    BY <1>0, <1>4 DEF JoinFailedPool, AllJoined, Goto, Inv, Barriers, mainVars, fileVars, delayVars, Passed, TypeOK
  <2>8. RunOK'
    BY <1>0, <1>4 DEF JoinFailedPool, AllJoined, Goto, Inv, RunOK, mainVars, fileVars, delayVars, Passed, Running, TypeOK
  <2> QED BY <2>1, <2>2, <2>3, <2>4, <2>5, <2>6, <2>7, <2>8 DEF Inv
<1>5. ASSUME JoinAtBarrier PROVE Inv'
  <2>0. /\ main' = "create" /\ restarted' = TRUE /\ status' = "CONTINUE"
        /\ created' = 0 /\ poolLock' = TRUE /\ \A u \in Threads : pc'[u] = "none"
        /\ UNCHANGED <<job, next, inputLock, cur, done>>
    BY <1>5 DEF JoinAtBarrier, RestartPool, EmptyPool, fileVars
  <2>00. \A u \in Threads : pc[u] = "exit"
    BY <1>0, <1>5 DEF JoinAtBarrier, AllJoined
  <2>1. TypeOK'
    <3>1. wait' \in [Threads -> Nat] /\ nap' \in [Threads -> Nat] /\ asked' \in [Threads -> Nat]
          /\ slept' \in [Threads -> Nat] /\ pc' \in [Threads -> Places] /\ upto' = upto
      BY <1>5, PlacesType DEF JoinAtBarrier, RestartPool, EmptyPool, Zero
    <3>2. created' \in 0 .. NThreads
      BY <1>0, <2>0
    <3> QED BY <1>0, <2>0, <3>1, <3>2 DEF TypeOK
  <2>2. PoolOK'
    BY <1>0, <1>5 DEF JoinAtBarrier, RestartPool, EmptyPool, AllJoined, Goto, Inv, PoolOK, mainVars, fileVars, delayVars, Ended, Holding, Running, TypeOK
  <2>3. LockOK'
    BY <1>0, <1>5 DEF JoinAtBarrier, RestartPool, EmptyPool, AllJoined, Goto, Inv, LockOK, mainVars, fileVars, delayVars, Holding, TypeOK
  <2>4. ReadOK'
    BY <1>0, <1>5 DEF JoinAtBarrier, RestartPool, EmptyPool, AllJoined, Goto, Inv, ReadOK, mainVars, fileVars, delayVars, Holding, Running, TypeOK
  <2>5. StatusOK'
    BY <1>0, <1>5 DEF JoinAtBarrier, RestartPool, EmptyPool, AllJoined, Goto, Inv, StatusOK, mainVars, fileVars, delayVars, Ended, TypeOK
  <2>6. Progress'
    BY <1>0, <1>5 DEF JoinAtBarrier, RestartPool, EmptyPool, AllJoined, Goto, Inv, Progress, mainVars, fileVars, delayVars, Running, Holding, TypeOK
  <2>7. Barriers'
    <3>1. 1 .. next - 1 \subseteq done
      BY <2>00 DEF Inv, Progress, Running
    <3>2. \A b \in 1 .. next - 1 : 1 .. b - 1 \subseteq 1 .. next - 1
      BY <1>0
    <3> QED BY <2>0, <3>1, <3>2 DEF Barriers, Passed
  <2>8. RunOK'
    BY <1>0, <1>5 DEF JoinAtBarrier, RestartPool, EmptyPool, AllJoined, Goto, Inv, RunOK, mainVars, fileVars, delayVars, Passed, Running, TypeOK
  <2> QED BY <2>1, <2>2, <2>3, <2>4, <2>5, <2>6, <2>7, <2>8 DEF Inv
<1>6. ASSUME JoinAtEnd PROVE Inv'
  <2>1. TypeOK'
    <3>1. main' \in Ended /\ UNCHANGED <<job, next, status, inputLock, poolLock, restarted, created, pc, cur, done, wait, nap, upto, asked, slept>>
      BY <1>6 DEF JoinAtEnd, fileVars, delayVars, Ended
    <3> QED BY <1>0, <3>1 DEF TypeOK
  <2>2. PoolOK'
    BY <1>0, <1>6 DEF JoinAtEnd, AllJoined, Goto, Inv, PoolOK, mainVars, fileVars, delayVars, Ended, Holding, Running, TypeOK
  <2>3. LockOK'
    BY <1>0, <1>6 DEF JoinAtEnd, AllJoined, Goto, Inv, LockOK, mainVars, fileVars, delayVars, Holding, TypeOK
  <2>4. ReadOK'
    BY <1>0, <1>6 DEF JoinAtEnd, AllJoined, Goto, Inv, ReadOK, mainVars, fileVars, delayVars, Holding, Running, TypeOK
  <2>5. StatusOK'
    BY <1>0, <1>6 DEF JoinAtEnd, AllJoined, Goto, Inv, StatusOK, mainVars, fileVars, delayVars, Ended, TypeOK
  <2>6. Progress'
    BY <1>0, <1>6 DEF JoinAtEnd, AllJoined, Goto, Inv, Progress, mainVars, fileVars, delayVars, Running, Holding, TypeOK
  <2>7. Barriers'
    BY <1>0, <1>6 DEF JoinAtEnd, AllJoined, Goto, Inv, Barriers, mainVars, fileVars, delayVars, Passed, TypeOK
  <2>8. RunOK'
    BY <1>0, <1>6 DEF JoinAtEnd, AllJoined, Goto, Inv, RunOK, mainVars, fileVars, delayVars, Passed, Running, TypeOK
  <2> QED BY <2>1, <2>2, <2>3, <2>4, <2>5, <2>6, <2>7, <2>8 DEF Inv
<1>7. ASSUME NEW t \in Threads, Begin(t) PROVE Inv'
  <2>0. /\ pc'[t] \in {"top", "exit"} /\ pc' \in [Threads -> Places]
        /\ \A u \in Threads \ {t} : pc'[u] = pc[u]
        /\ pc[t] = "new" /\ ~ poolLock
        /\ (pc'[t] = "top" <=> status = "CONTINUE")
        /\ UNCHANGED <<job, next, status, inputLock, main, restarted, created, poolLock, cur, done, wait, nap, upto, asked, slept>>
    BY <1>0, <1>7, PlacesType DEF Begin, Goto, TypeOK, mainVars, fileVars, delayVars, Running, Holding
  <2>1. TypeOK'
    BY <1>0, <1>7, <2>0 DEF Begin, TypeOK
  <2>2. PoolOK'
    BY <1>0, <2>0 DEF Inv, PoolOK, Ended, Holding, Running
  <2>3. LockOK'
    BY <1>0, <2>0 DEF Inv, LockOK, Holding, Holding
  <2>4. ReadOK'
    BY <1>0, <2>0 DEF Inv, ReadOK, Holding, Running
  <2>5. StatusOK'
    BY <1>0, <2>0 DEF Inv, StatusOK, Ended
  <2>6. Progress'
    BY <1>0, <2>0 DEF Inv, Progress, Running, Holding
  <2>7. Barriers'
    BY <1>0, <2>0 DEF Inv, Barriers, Passed
  <2>8. RunOK'
    BY <1>0, <2>0, SMTT(30) DEF Inv, RunOK, Passed, Running
  <2> QED BY <2>1, <2>2, <2>3, <2>4, <2>5, <2>6, <2>7, <2>8 DEF Inv
<1>8. ASSUME NEW t \in Threads, GetWait(t) PROVE Inv'
  <2>0. /\ pc'[t] \in {"want", "nap"} /\ pc' \in [Threads -> Places]
        /\ \A u \in Threads \ {t} : pc'[u] = pc[u]
        /\ pc[t] = "top"
        /\ UNCHANGED <<job, next, status, inputLock, main, restarted, created, poolLock, cur, done, upto, asked, slept>>
    BY <1>0, <1>8, PlacesType DEF GetWait, Goto, TypeOK, mainVars, fileVars, delayVars, Running, Holding
  <2>1. TypeOK'
    BY <1>0, <1>8, <2>0 DEF GetWait, TypeOK
  <2>2. PoolOK'
    BY <1>0, <2>0 DEF Inv, PoolOK, Ended, Holding, Running
  <2>3. LockOK'
    BY <1>0, <2>0 DEF Inv, LockOK, Holding, Holding
  <2>4. ReadOK'
    BY <1>0, <2>0 DEF Inv, ReadOK, Holding, Running
  <2>5. StatusOK'
    BY <1>0, <2>0 DEF Inv, StatusOK, Ended
  <2>6. Progress'
    BY <1>0, <2>0 DEF Inv, Progress, Running, Holding
  <2>7. Barriers'
    BY <1>0, <2>0 DEF Inv, Barriers, Passed
  <2>8. RunOK'
    BY <1>0, <2>0, SMTT(30) DEF Inv, RunOK, Passed, Running
  <2> QED BY <2>1, <2>2, <2>3, <2>4, <2>5, <2>6, <2>7, <2>8 DEF Inv
<1>9. ASSUME NEW t \in Threads, Nap(t) PROVE Inv'
  <2>0. /\ pc'[t] \in {"want"} /\ pc' \in [Threads -> Places]
        /\ \A u \in Threads \ {t} : pc'[u] = pc[u]
        /\ pc[t] = "nap"
        /\ UNCHANGED <<job, next, status, inputLock, main, restarted, created, poolLock, cur, done, wait, upto, asked>>
    BY <1>0, <1>9, PlacesType DEF Nap, Goto, TypeOK, mainVars, fileVars, delayVars, Running, Holding
  <2>1. TypeOK'
    <3>1. slept' \in [Threads -> Nat] /\ nap' \in [Threads -> Nat]
      BY <1>0, <1>9, TypeParts, Sums DEF Nap
    <3> QED BY <1>0, <2>0, <3>1 DEF TypeOK
  <2>2. PoolOK'
    BY <1>0, <2>0 DEF Inv, PoolOK, Ended, Holding, Running
  <2>3. LockOK'
    BY <1>0, <2>0 DEF Inv, LockOK, Holding, Holding
  <2>4. ReadOK'
    BY <1>0, <2>0 DEF Inv, ReadOK, Holding, Running
  <2>5. StatusOK'
    BY <1>0, <2>0 DEF Inv, StatusOK, Ended
  <2>6. Progress'
    BY <1>0, <2>0 DEF Inv, Progress, Running, Holding
  <2>7. Barriers'
    BY <1>0, <2>0 DEF Inv, Barriers, Passed
  <2>8. RunOK'
    BY <1>0, <2>0 DEF Inv, RunOK, Passed, Running
  <2> QED BY <2>1, <2>2, <2>3, <2>4, <2>5, <2>6, <2>7, <2>8 DEF Inv
<1>10. ASSUME NEW t \in Threads, Acquire(t) PROVE Inv'
  <2>0. /\ pc'[t] \in {"check"} /\ pc' \in [Threads -> Places]
        /\ \A u \in Threads \ {t} : pc'[u] = pc[u]
        /\ pc[t] = "want" /\ inputLock = 0 /\ inputLock' = t
        /\ UNCHANGED <<job, next, status, main, restarted, created, poolLock, cur, done, wait, nap, upto, asked, slept>>
    BY <1>0, <1>10, PlacesType DEF Acquire, Goto, TypeOK, mainVars, fileVars, delayVars, Running, Holding
  <2>1. TypeOK'
    BY <1>0, <1>10, <2>0 DEF Acquire, TypeOK
  <2>2. PoolOK'
    BY <1>0, <2>0 DEF Inv, PoolOK, Ended, Holding, Running
  <2>3. LockOK'
    BY <1>0, <2>0 DEF Inv, LockOK, Holding, Holding
  <2>4. ReadOK'
    BY <1>0, <2>0 DEF Inv, ReadOK, Holding, Running
  <2>5. StatusOK'
    BY <1>0, <2>0 DEF Inv, StatusOK, Ended
  <2>6. Progress'
    BY <1>0, <2>0 DEF Inv, Progress, Running, Holding
  <2>7. Barriers'
    BY <1>0, <2>0 DEF Inv, Barriers, Passed
  <2>8. RunOK'
    BY <1>0, <2>0 DEF Inv, RunOK, Passed, Running
  <2> QED BY <2>1, <2>2, <2>3, <2>4, <2>5, <2>6, <2>7, <2>8 DEF Inv
<1>11. ASSUME NEW t \in Threads, Check(t) PROVE Inv'
  <2>0. /\ pc'[t] \in {"read", "exit"} /\ pc' \in [Threads -> Places]
        /\ \A u \in Threads \ {t} : pc'[u] = pc[u]
        /\ pc[t] = "check"
        /\ (pc'[t] = "read" => status = "CONTINUE" /\ inputLock' = inputLock)
        /\ (pc'[t] = "exit" => status # "CONTINUE" /\ inputLock' = 0)
        /\ UNCHANGED <<job, next, status, main, restarted, created, poolLock, cur, done, wait, nap, upto, asked, slept>>
    <3>1. /\ pc[t] = "check"
          /\ UNCHANGED <<job, next, status, main, restarted, created, poolLock, cur, done, wait, nap, upto, asked, slept>>
      BY <1>11 DEF Check, mainVars, delayVars
    <3>2. CASE status = "CONTINUE"
      <4>1. Goto(t, "read") /\ inputLock' = inputLock /\ "read" \in Places
        BY <1>11, <3>2, PlacesType DEF Check, Holding
      <4>2. pc' \in [Threads -> Places] /\ pc'[t] = "read" /\ \A u \in Threads \ {t} : pc'[u] = pc[u]
        BY <1>0, <4>1, Moves
      <4> QED BY <3>1, <3>2, <4>1, <4>2
    <3>3. CASE status # "CONTINUE"
      <4>1. Goto(t, "exit") /\ inputLock' = 0 /\ "exit" \in Places
        BY <1>11, <3>3, PlacesType DEF Check, Release
      <4>2. pc' \in [Threads -> Places] /\ pc'[t] = "exit" /\ \A u \in Threads \ {t} : pc'[u] = pc[u]
        BY <1>0, <4>1, Moves
      <4> QED BY <3>1, <3>3, <4>1, <4>2
    <3> QED BY <3>2, <3>3
  <2>1. TypeOK'
    BY <1>0, <1>11, <2>0 DEF Check, Release, TypeOK
  <2>2. PoolOK'
    BY <1>0, <2>0 DEF Inv, PoolOK, Ended, Holding, Running
  <2>3. LockOK'
    BY <1>0, <2>0 DEF Inv, LockOK, Holding, Holding
  <2>4. ReadOK'
    BY <1>0, <2>0 DEF Inv, ReadOK, Holding, Running
  <2>5. StatusOK'
    BY <1>0, <2>0 DEF Inv, StatusOK, Ended
  <2>6. Progress'
    BY <1>0, <2>0 DEF Inv, Progress, Running, Holding
  <2>7. Barriers'
    BY <1>0, <2>0 DEF Inv, Barriers, Passed
  <2>8. RunOK'
    BY <1>0, <2>0 DEF Inv, RunOK, Passed, Running
  <2> QED BY <2>1, <2>2, <2>3, <2>4, <2>5, <2>6, <2>7, <2>8 DEF Inv
<1>12. ASSUME NEW t \in Threads, Read(t) PROVE Inv'
  <2>0. /\ pc'[t] \in {"eoc", "barrier", "parse"} /\ pc' \in [Threads -> Places]
        /\ \A u \in Threads \ {t} : pc'[u] = pc[u]
        /\ pc[t] = "read"
        /\ cur' \in [Threads -> Nat] /\ cur'[t] = next /\ \A u \in Threads \ {t} : cur'[u] = cur[u]
        /\ UNCHANGED <<job, next, inputLock, main, restarted, created, poolLock, done, wait, nap, upto, asked, slept>>
    <3>1. /\ pc[t] = "read" /\ cur' = [cur EXCEPT ![t] = next]
          /\ UNCHANGED <<job, next, inputLock, main, restarted, created, poolLock, done, wait, nap, upto, asked, slept>>
          /\ Goto(t, "eoc") \/ Goto(t, "barrier") \/ Goto(t, "parse")
      BY <1>12 DEF Read, mainVars, delayVars
    <3>2. {"eoc", "barrier", "parse"} \subseteq Places
      BY PlacesType DEF Holding
    <3>3. pc'[t] \in {"eoc", "barrier", "parse"} /\ pc' \in [Threads -> Places]
          /\ \A u \in Threads \ {t} : pc'[u] = pc[u]
      BY <1>0, <3>1, <3>2, Moves
    <3>4. cur' \in [Threads -> Nat] /\ cur'[t] = next /\ \A u \in Threads \ {t} : cur'[u] = cur[u]
      BY <1>0, <1>00, <3>1
    <3> QED BY <3>1, <3>3, <3>4
  <2>00. /\ (pc'[t] = "eoc" => next > Len(job) /\ status' = "EOC_FOUND")
         /\ (pc'[t] = "barrier" => next <= Len(job) /\ job[next].kind = "barrier" /\ status' = "BARRIER_FOUND")
         /\ (pc'[t] = "parse" => next <= Len(job) /\ job[next].kind # "barrier" /\ status' = status)
    <3>1. CASE next > Len(job)
      BY <1>0, <1>00, <1>12, <3>1 DEF Read, Goto
    <3>2. CASE next <= Len(job) /\ job[next].kind = "barrier"
      BY <1>0, <1>00, <1>12, <3>2 DEF Read, Goto
    <3>3. CASE next <= Len(job) /\ job[next].kind # "barrier"
      BY <1>0, <1>00, <1>12, <3>3 DEF Read, Goto
    <3> QED BY <1>0, <3>1, <3>2, <3>3
  <2>000. status = "CONTINUE" /\ \A u \in Threads \ {t} : pc[u] \notin Holding
    BY <1>0, <2>0 DEF Inv, ReadOK, LockOK, Holding
  <2>1. TypeOK'
    BY <1>0, <2>0, <2>00 DEF TypeOK
  <2>2. PoolOK'
    BY <1>0, <2>0, <2>00 DEF Inv, PoolOK, Ended, Holding, Running
  <2>3. LockOK'
    BY <1>0, <2>0, <2>00 DEF Inv, LockOK, Holding, Holding
  <2>4. ReadOK'
    BY <1>0, <2>0, <2>00, <2>000, ZenonT(30) DEF ReadOK, Holding
  <2>5. StatusOK'
    BY <1>0, <1>00, <2>0, <2>00, <2>000, SMTT(30) DEF Inv, StatusOK
  <2>6. Progress'
    BY <1>0, <2>0, <2>00, SMTT(30) DEF Inv, Progress, Running, Holding
  <2>7. Barriers'
    BY <1>0, <2>0, <2>00, <2>000 DEF Inv, Barriers, Passed
  <2>8. RunOK'
    <3>1. \A u \in Threads : pc'[u] \in Running => u # t /\ pc[u] \in Running /\ cur'[u] = cur[u]
      BY <2>0 DEF Running
    <3>2. \A u \in Threads : pc'[u] \in Running => Passed(cur[u])
      BY <3>1 DEF Inv, RunOK
    <3>3. \A u \in Threads : pc'[u] \in Running => Passed(cur[u])'
      BY <2>0, <3>1, <3>2 DEF Passed
    <3> QED BY <2>0, <3>1, <3>3 DEF Inv, RunOK
  <2> QED BY <2>1, <2>2, <2>3, <2>4, <2>5, <2>6, <2>7, <2>8 DEF Inv
<1>13. ASSUME NEW t \in Threads, Parse(t) PROVE Inv'
  <2>0. /\ pc'[t] \in Running /\ pc' \in [Threads -> Places]
        /\ \A u \in Threads \ {t} : pc'[u] = pc[u]
        /\ pc[t] = "parse" /\ next' = next + 1 /\ inputLock' = 0
        /\ UNCHANGED <<job, status, main, restarted, created, poolLock, cur, done, wait, nap, asked, slept>>
    BY <1>0, <1>13, PlacesType DEF Parse, Release, Goto, TypeOK, mainVars, fileVars, delayVars, Running, Holding
  <2>00. /\ cur[t] = next /\ next <= Len(job) /\ job[next].kind # "barrier" /\ status = "CONTINUE"
         /\ \A u \in Threads \ {t} : pc[u] \notin Holding
    BY <1>0, <2>0 DEF Inv, ReadOK, LockOK, Holding
  <2>000. Passed(next)
    BY <2>00 DEF Inv, Barriers
  <2>0000. next \notin done /\ \A u \in Threads : pc[u] \in Running => cur[u] \in 1 .. next - 1
    BY <1>0 DEF Inv, Progress, RunOK
  <2>1. TypeOK'
    <3>1. upto' \in [Threads -> 0 .. NThreads]
      BY <1>0, <1>13 DEF Parse, TypeOK
    <3>2. next' \in 1 .. Len(job) + 1
      BY <1>0, <2>0, <2>00
    <3> QED BY <1>0, <2>0, <3>1, <3>2 DEF TypeOK
  <2>2. PoolOK'
    BY <1>0, <2>0 DEF Inv, PoolOK, Ended, Holding, Running
  <2>3. LockOK'
    BY <1>0, <2>0, <2>00 DEF LockOK, Holding, Running
  <2>4. ReadOK'
    BY <1>0, <2>0, <2>00 DEF ReadOK, Holding, Running
  <2>5. StatusOK'
    BY <1>0, <2>0, <2>00 DEF Inv, StatusOK, Running
  <2>6. Progress'
    <3>1. done' \subseteq 1 .. next' - 1
      BY <1>0, <2>0 DEF Inv, Progress
    <3>2. ASSUME NEW k \in 1 .. next' - 1 PROVE k \in done' \/ \E u \in Threads : pc'[u] \in Running /\ cur'[u] = k
      <4>1. CASE k = next
        BY <2>0, <2>00, <4>1
      <4>2. CASE k \in 1 .. next - 1
        <5>1. \A u \in Threads : pc[u] \in Running => pc'[u] \in Running
          BY <2>0 DEF Running
        <5> QED BY <2>0, <4>2, <5>1 DEF Inv, Progress
      <4> QED BY <1>0, <2>0, <4>1, <4>2
    <3> QED BY <3>1, <3>2 DEF Progress
  <2>7. Barriers'
    <3>1. Passed(next)'
      BY <1>0, <2>0, <2>00, <2>000 DEF Passed
    <3> QED BY <3>1 DEF Barriers
  <2>8. RunOK'
    <3>1. ASSUME NEW u \in Threads \ {t}, pc'[u] \in Running
          PROVE  /\ cur[u] \in 1 .. next - 1 /\ job[cur[u]].kind # "barrier" /\ cur[u] \notin done
                 /\ \A v \in Threads \ {u} : pc[v] \in Running => cur[v] # cur[u]
                 /\ Passed(cur[u]) /\ cur[u] # next
      BY <1>0, <2>0, <2>0000, <3>1 DEF Inv, RunOK
    <3>2. \A u \in Threads \ {t} : pc'[u] \in Running => Passed(cur[u])'
      BY <2>0, <3>1 DEF Passed
    <3>3. Passed(cur[t])'
      BY <2>0, <2>00, <2>000 DEF Passed
    <3>4. \A u \in Threads \ {t} : pc'[u] \in Running => pc[u] \in Running /\ cur[u] \in 1 .. next' - 1
      BY <1>0, <2>0, <3>1
    <3>5. next \in 1 .. next' - 1
      BY <1>0, <2>0, TypeParts
    <3> QED BY <2>0, <2>00, <2>0000, <3>1, <3>2, <3>3, <3>4, <3>5 DEF RunOK
  <2> QED BY <2>1, <2>2, <2>3, <2>4, <2>5, <2>6, <2>7, <2>8 DEF Inv
<1>14. ASSUME NEW t \in Threads, LeaveBarrier(t) PROVE Inv'
  <2>0. /\ pc'[t] \in {"top"} /\ pc' \in [Threads -> Places]
        /\ \A u \in Threads \ {t} : pc'[u] = pc[u]
        /\ pc[t] = "barrier" /\ next' = next + 1 /\ inputLock' = 0 /\ done' = done \cup {cur[t]}
        /\ UNCHANGED <<job, status, main, restarted, created, poolLock, cur, wait, nap, upto, asked, slept>>
    BY <1>0, <1>14, PlacesType DEF LeaveBarrier, Release, Goto, TypeOK, mainVars, fileVars, delayVars, Running, Holding
  <2>00. /\ cur[t] = next /\ next <= Len(job) /\ job[next].kind = "barrier" /\ status = "BARRIER_FOUND"
         /\ \A u \in Threads \ {t} : pc[u] \notin Holding
    BY <1>0, <2>0 DEF Inv, ReadOK, LockOK, Holding
  <2>1. TypeOK'
    <3>1. next' \in 1 .. Len(job) + 1 /\ next \in 1 .. Len(job)
      BY <1>0, <1>00, <2>0, <2>00
    <3>2. done' \subseteq 1 .. Len(job)
      BY <1>00, <2>0, <2>00, <3>1
    <3> QED BY <1>0, <2>0, <3>1, <3>2 DEF TypeOK
  <2>2. PoolOK'
    BY <1>0, <2>0 DEF Inv, PoolOK, Ended, Holding, Running
  <2>3. LockOK'
    BY <1>0, <2>0 DEF Inv, LockOK, Holding, Holding
  <2>4. ReadOK'
    BY <1>0, <2>0, <2>00 DEF ReadOK, Holding
  <2>5. StatusOK'
    BY <1>0, <2>0, <2>00 DEF Inv, StatusOK
  <2>6. Progress'
    <3>1. done' \subseteq 1 .. next' - 1
      <4>1. done \subseteq 1 .. next - 1
        BY DEF Inv, Progress
      <4>2. 1 .. next - 1 \subseteq 1 .. next' - 1 /\ cur[t] \in 1 .. next' - 1
        BY <1>0, <2>0, <2>00, TypeParts
      <4> QED BY <2>0, <4>1, <4>2
    <3>2. ASSUME NEW k \in 1 .. next' - 1 PROVE k \in done' \/ \E u \in Threads : pc'[u] \in Running /\ cur'[u] = k
      <4>1. CASE k = next
        BY <2>0, <2>00, <4>1
      <4>2. CASE k \in 1 .. next - 1
        <5>1. \A u \in Threads : pc[u] \in Running => pc'[u] \in Running
          BY <2>0 DEF Running
        <5> QED BY <2>0, <4>2, <5>1 DEF Inv, Progress
      <4> QED BY <1>0, <2>0, <4>1, <4>2
    <3> QED BY <3>1, <3>2 DEF Progress
  <2>7. Barriers'
    BY <1>0, <2>0, <2>00 DEF Barriers, Holding
  <2>8. RunOK'
    <3>1. ASSUME NEW u \in Threads, pc'[u] \in Running
          PROVE  /\ u # t /\ cur[u] \in 1 .. next - 1 /\ job[cur[u]].kind # "barrier" /\ cur[u] \notin done
                 /\ \A v \in Threads \ {u} : pc'[v] \in Running => cur[v] # cur[u]
                 /\ Passed(cur[u]) /\ cur[u] # next
      <4>1. u # t /\ pc[u] \in Running
        BY <2>0, <3>1 DEF Running
      <4>2. \A v \in Threads : pc'[v] \in Running => pc[v] \in Running
        BY <2>0 DEF Running
      <4> QED BY <1>0, <4>1, <4>2 DEF Inv, RunOK
    <3>2. \A u \in Threads : pc'[u] \in Running => Passed(cur[u])'
      BY <2>0, <3>1 DEF Passed
    <3>3. \A u \in Threads : pc'[u] \in Running => cur'[u] \in 1 .. next' - 1 /\ cur'[u] \notin done'
      BY <1>0, <2>0, <2>00, <3>1
    <3> QED BY <1>0, <2>0, <3>1, <3>2, <3>3 DEF RunOK
  <2> QED BY <2>1, <2>2, <2>3, <2>4, <2>5, <2>6, <2>7, <2>8 DEF Inv
<1>15. ASSUME NEW t \in Threads, EndOfFile(t) PROVE Inv'
  <2>0. /\ pc'[t] \in {"exit"} /\ pc' \in [Threads -> Places]
        /\ \A u \in Threads \ {t} : pc'[u] = pc[u]
        /\ pc[t] = "eoc" /\ inputLock' = 0
        /\ UNCHANGED <<job, next, status, main, restarted, created, poolLock, cur, done, wait, nap, upto, asked, slept>>
    BY <1>0, <1>15, PlacesType DEF EndOfFile, Release, Goto, TypeOK, mainVars, fileVars, delayVars, Running, Holding
  <2>1. TypeOK'
    BY <1>0, <1>15, <2>0 DEF EndOfFile, Release, TypeOK
  <2>2. PoolOK'
    BY <1>0, <2>0 DEF Inv, PoolOK, Ended, Holding, Running
  <2>3. LockOK'
    BY <1>0, <2>0 DEF Inv, LockOK, Holding, Holding
  <2>4. ReadOK'
    BY <1>0, <2>0 DEF Inv, ReadOK, Holding, Running
  <2>5. StatusOK'
    BY <1>0, <2>0 DEF Inv, StatusOK, ReadOK
  <2>6. Progress'
    BY <1>0, <2>0 DEF Inv, Progress, Running, Holding
  <2>7. Barriers'
    BY <1>0, <2>0 DEF Inv, Barriers, Passed
  <2>8. RunOK'
    BY <1>0, <2>0 DEF Inv, RunOK, Passed, Running
  <2> QED BY <2>1, <2>2, <2>3, <2>4, <2>5, <2>6, <2>7, <2>8 DEF Inv
<1>16. ASSUME NEW t \in Threads, Execute(t) PROVE Inv'
  <2>0. /\ pc'[t] \in {"top"} /\ pc' \in [Threads -> Places]
        /\ \A u \in Threads \ {t} : pc'[u] = pc[u]
        /\ pc[t] \in Running /\ done' = done \cup {cur[t]}
        /\ UNCHANGED <<job, next, status, inputLock, main, restarted, created, poolLock, cur, wait, nap, upto, asked, slept>>
    BY <1>0, <1>16, PlacesType DEF Execute, Complete, Goto, TypeOK, mainVars, fileVars, delayVars, Running, Holding
  <2>1. TypeOK'
    <3>1. cur[t] \in 1 .. Len(job)
      <4>1. cur[t] \in 1 .. next - 1
        BY <2>0 DEF Inv, RunOK
      <4> QED BY <1>0, <4>1, TypeParts
    <3> QED BY <1>0, <2>0, <3>1 DEF TypeOK
  <2>2. PoolOK'
    BY <1>0, <2>0 DEF Inv, PoolOK, Ended, Holding, Running
  <2>3. LockOK'
    BY <1>0, <2>0 DEF Inv, LockOK, Holding, Running
  <2>4. ReadOK'
    BY <1>0, <2>0 DEF Inv, ReadOK, Holding, Running
  <2>5. StatusOK'
    BY <1>0, <2>0 DEF Inv, StatusOK, Ended
  <2>6. Progress'
    <3>1. cur[t] \in 1 .. next - 1
      BY <1>0, <2>0 DEF Inv, RunOK
    <3> QED BY <1>0, <2>0, <3>1 DEF Inv, Progress
  <2>7. Barriers'
    BY <1>0, <2>0 DEF Inv, Barriers, Passed
  <2>8. RunOK'
    BY <1>0, <2>0 DEF Inv, RunOK, Passed, Running
  <2> QED BY <2>1, <2>2, <2>3, <2>4, <2>5, <2>6, <2>7, <2>8 DEF Inv
<1>17. ASSUME NEW t \in Threads, WaitOne(t) PROVE Inv'
  <2>0. /\ pc'[t] \in {"top"} /\ pc' \in [Threads -> Places]
        /\ \A u \in Threads \ {t} : pc'[u] = pc[u]
        /\ pc[t] \in Running /\ done' = done \cup {cur[t]}
        /\ UNCHANGED <<job, next, status, inputLock, main, restarted, created, poolLock, cur, nap, upto, slept>>
    BY <1>0, <1>17, PlacesType DEF WaitOne, Complete, Delay, Goto, TypeOK, mainVars, fileVars, delayVars, Running, Holding
  <2>1. TypeOK'
    <3>1. cur[t] \in 1 .. Len(job)
      <4>1. cur[t] \in 1 .. next - 1
        BY <2>0 DEF Inv, RunOK
      <4> QED BY <1>0, <4>1, TypeParts
    <3>2. CASE job[cur[t]].thread \in Threads
      <4> DEFINE u == job[cur[t]].thread
      <4>1. wait' = [wait EXCEPT ![u] = @ + 1] /\ asked' = [asked EXCEPT ![u] = @ + 1] /\ u \in Threads
        BY <1>17, <3>2 DEF WaitOne, Delay
      <4> HIDE DEF u
      <4>2. wait' \in [Threads -> Nat] /\ asked' \in [Threads -> Nat]
        BY <1>0, <4>1, TypeParts, Sums
      <4> QED BY <1>0, <2>0, <3>1, <4>2 DEF TypeOK
    <3>3. CASE job[cur[t]].thread \notin Threads
      <4>1. UNCHANGED <<wait, asked>>
        BY <1>17, <3>3 DEF WaitOne
      <4> QED BY <1>0, <2>0, <3>1, <4>1 DEF TypeOK
    <3> QED BY <3>2, <3>3
  <2>2. PoolOK'
    BY <1>0, <2>0 DEF Inv, PoolOK, Ended, Holding, Running
  <2>3. LockOK'
    BY <1>0, <2>0 DEF Inv, LockOK, Holding, Running
  <2>4. ReadOK'
    BY <1>0, <2>0 DEF Inv, ReadOK, Holding, Running
  <2>5. StatusOK'
    BY <1>0, <2>0 DEF Inv, StatusOK, Ended
  <2>6. Progress'
    <3>1. cur[t] \in 1 .. next - 1
      BY <1>0, <2>0 DEF Inv, RunOK
    <3> QED BY <1>0, <2>0, <3>1 DEF Inv, Progress
  <2>7. Barriers'
    BY <1>0, <2>0 DEF Inv, Barriers, Passed
  <2>8. RunOK'
    BY <1>0, <2>0 DEF Inv, RunOK, Passed, Running
  <2> QED BY <2>1, <2>2, <2>3, <2>4, <2>5, <2>6, <2>7, <2>8 DEF Inv
<1>18. ASSUME NEW t \in Threads, WaitNext(t) PROVE Inv'
  <2>0. /\ TRUE
        /\ UNCHANGED <<job, next, status, inputLock, main, restarted, created, poolLock, cur, done, nap, slept, pc>>
    BY <1>0, <1>18, PlacesType DEF WaitNext, Delay, Goto, TypeOK, mainVars, fileVars, delayVars, Running, Holding
  <2>1. TypeOK'
    <3>1. upto[t] + 1 \in Threads /\ upto[t] \in Nat
      BY <1>0, <1>00, <1>18, SMTT(30) DEF WaitNext
    <3>2. /\ wait' = [wait EXCEPT ![upto[t] + 1] = @ + 1] /\ asked' = [asked EXCEPT ![upto[t] + 1] = @ + 1]
          /\ upto' = [upto EXCEPT ![t] = @ + 1] /\ pc' = pc
      BY <1>18 DEF WaitNext, Delay
    <3>3. wait' \in [Threads -> Nat] /\ asked' \in [Threads -> Nat]
      BY <1>0, <3>1, <3>2, TypeParts, Sums
    <3>4. upto' \in [Threads -> 0 .. NThreads]
      <4>1. upto[t] + 1 \in 0 .. NThreads
        BY <1>0, <3>1
      <4> QED BY <1>00, <3>2, <4>1
    <3> QED BY <1>0, <2>0, <3>2, <3>3, <3>4 DEF TypeOK
  <2>2. PoolOK'
    BY <1>0, <2>0 DEF Inv, PoolOK, Ended, Holding, Running
  <2>3. LockOK'
    BY <1>0, <2>0 DEF Inv, LockOK, Holding, Holding
  <2>4. ReadOK'
    BY <1>0, <2>0 DEF Inv, ReadOK, Holding, Running
  <2>5. StatusOK'
    BY <1>0, <2>0 DEF Inv, StatusOK, Ended
  <2>6. Progress'
    BY <1>0, <2>0 DEF Inv, Progress, Running, Holding
  <2>7. Barriers'
    BY <1>0, <2>0 DEF Inv, Barriers, Passed
  <2>8. RunOK'
    BY <1>0, <2>0 DEF Inv, RunOK, Passed, Running
  <2> QED BY <2>1, <2>2, <2>3, <2>4, <2>5, <2>6, <2>7, <2>8 DEF Inv
<1>19. ASSUME NEW t \in Threads, WaitEnd(t) PROVE Inv'
  <2>0. /\ pc'[t] \in {"top"} /\ pc' \in [Threads -> Places]
        /\ \A u \in Threads \ {t} : pc'[u] = pc[u]
        /\ pc[t] \in Running /\ done' = done \cup {cur[t]}
        /\ UNCHANGED <<job, next, status, inputLock, main, restarted, created, poolLock, cur, wait, nap, upto, asked, slept>>
    BY <1>0, <1>19, PlacesType DEF WaitEnd, Complete, Goto, TypeOK, mainVars, fileVars, delayVars, Running, Holding
  <2>1. TypeOK'
    <3>1. cur[t] \in 1 .. Len(job)
      <4>1. cur[t] \in 1 .. next - 1
        BY <2>0 DEF Inv, RunOK
      <4> QED BY <1>0, <4>1, TypeParts
    <3> QED BY <1>0, <2>0, <3>1 DEF TypeOK
  <2>2. PoolOK'
    BY <1>0, <2>0 DEF Inv, PoolOK, Ended, Holding, Running
  <2>3. LockOK'
    BY <1>0, <2>0 DEF Inv, LockOK, Holding, Running
  <2>4. ReadOK'
    BY <1>0, <2>0 DEF Inv, ReadOK, Holding, Running
  <2>5. StatusOK'
    BY <1>0, <2>0 DEF Inv, StatusOK, Ended
  <2>6. Progress'
    <3>1. cur[t] \in 1 .. next - 1
      BY <1>0, <2>0 DEF Inv, RunOK
    <3> QED BY <1>0, <2>0, <3>1 DEF Inv, Progress
  <2>7. Barriers'
    BY <1>0, <2>0 DEF Inv, Barriers, Passed
  <2>8. RunOK'
    BY <1>0, <2>0 DEF Inv, RunOK, Passed, Running
  <2> QED BY <2>1, <2>2, <2>3, <2>4, <2>5, <2>6, <2>7, <2>8 DEF Inv
<1>20. CASE UNCHANGED vars
  BY <1>20, SMTT(30) DEF vars, Inv, TypeOK, PoolOK, LockOK, ReadOK, StatusOK, Progress, Barriers, RunOK, Passed
<1> QED
  BY <1>1, <1>2, <1>3, <1>4, <1>5, <1>6, <1>7, <1>8, <1>9, <1>10, <1>11, <1>12, <1>13, <1>14, <1>15, <1>16, <1>17, <1>18, <1>19, <1>20 DEF Next, Main, Step, Terminated

\* The invariant holds in every reachable state.
THEOREM Invariance == Spec => []Inv
<1>1. Init => Inv
  <2> SUFFICES ASSUME Init PROVE Inv
    OBVIOUS
  <2>0. Len(job) \in Nat /\ 0 \notin Threads /\ NThreads \in Nat /\ NThreads >= 1
    BY NThreadsType DEF Init
  <2>1. TypeOK
    <3>1. Zero \in [Threads -> Nat] /\ Zero \in [Threads -> 0 .. NThreads]
      BY <2>0 DEF Zero
    <3>2. pc \in [Threads -> Places] /\ next \in 1 .. Len(job) + 1 /\ created \in 0 .. NThreads
      BY <2>0, PlacesType DEF Init
    <3> QED BY <3>1, <3>2 DEF Init, TypeOK
  <2>2. PoolOK /\ LockOK /\ ReadOK /\ StatusOK
    BY <2>0, NThreadsType DEF Init, PoolOK, LockOK, ReadOK, StatusOK, Holding, Running, Ended
  <2>3. Progress /\ Barriers /\ RunOK
    BY <2>0 DEF Init, Progress, Barriers, RunOK, Passed, Running
  <2> QED BY <2>1, <2>2, <2>3 DEF Inv
<1>2. Inv /\ [Next]_vars => Inv'
  BY StepInv
<1> QED BY <1>1, <1>2, PTL DEF Spec

\* Type correctness; the input file is never read beyond its end.
THEOREM TypeCorrect == Spec => []TypeOK
<1>1. Inv => TypeOK
  BY DEF Inv
<1> QED BY <1>1, Invariance, PTL

\* The barrier of the job file holds.
THEOREM BarriersHold == Spec => []BarrierHolds
<1>1. Inv => BarrierHolds
  BY DEF Inv, RunOK, Passed, BarrierHolds
<1> QED BY <1>1, Invariance, PTL

\* Commands are executed once.
THEOREM CommandsRunOnce == Spec => []EachOnce
<1>1. Inv => EachOnce
  BY DEF Inv, RunOK, EachOnce
<1> QED BY <1>1, Invariance, PTL

\* No command of the file is skipped.
THEOREM JobsAreComplete == Spec => []CompleteAtEnd
<1>1. Inv => CompleteAtEnd
  <2> SUFFICES ASSUME Inv, main = "done" PROVE done = 1 .. Len(job)
    BY DEF CompleteAtEnd
  <2>0. job \in Jobs /\ Len(job) \in Nat /\ created \in 0 .. NThreads /\ Threads = 1 .. NThreads
    BY TypeParts, NThreadsType DEF Inv
  <2>1. created = NThreads /\ \A t \in Threads : pc[t] = "exit"
    BY <2>0 DEF Inv, PoolOK, Ended
  <2>2. 1 \in Threads
    BY <2>0, NThreadsType
  <2>3. status = "EOC_FOUND"
    BY <2>1, <2>2 DEF Inv, PoolOK, StatusOK, TypeOK
  <2>4. next - 1 = Len(job)
    BY <2>0, <2>3 DEF Inv, StatusOK
  <2>5. 1 .. next - 1 \subseteq done /\ done \subseteq 1 .. next - 1
    BY <2>1 DEF Inv, Progress, Running
  <2> QED BY <2>4, <2>5
<1> QED BY <1>1, Invariance, PTL

\* Each command of the file is executed exactly once by a job that ends.
THEOREM FileRunsExactlyOnce == Spec => []ExactlyOnce
<1>1. EachOnce /\ CompleteAtEnd => ExactlyOnce
  BY DEF ExactlyOnce
<1> QED BY <1>1, CommandsRunOnce, JobsAreComplete, PTL

\* A pool that cannot be completed executes nothing.
THEOREM FailedPoolsAreIdle == Spec => []FailedPoolReadsNothing
<1>1. Inv => FailedPoolReadsNothing
  BY DEF Inv, PoolOK, FailedPoolReadsNothing
<1> QED BY <1>1, Invariance, PTL

\* No delay is lost or slept twice while the pool lasts: only a thread that is
\* about to sleep has a delay in its hands.
THEOREM DelaysAreKept == Spec => []DelaysConserved
<1> DEFINE NapOK == \A t \in Threads : pc[t] # "nap" => nap[t] = 0
<1>1. Init => DelaysConserved /\ NapOK
  BY DEF Init, DelaysConserved, Zero
<1>2. Inv /\ DelaysConserved /\ NapOK /\ [Next]_vars => DelaysConserved' /\ NapOK'
  <2> SUFFICES ASSUME Inv, DelaysConserved, NapOK, [Next]_vars PROVE DelaysConserved' /\ NapOK'
    OBVIOUS
  <2>0. /\ wait \in [Threads -> Nat] /\ nap \in [Threads -> Nat] /\ pc \in [Threads -> Places]
        /\ asked \in [Threads -> Nat] /\ slept \in [Threads -> Nat]
        /\ upto \in [Threads -> 0 .. NThreads] /\ Threads = 1 .. NThreads /\ NThreads \in Nat
    BY TypeParts, NThreadsType DEF Inv
  <2>1. CASE /\ UNCHANGED <<wait, nap, asked, slept>>
             /\ \A t \in Threads : pc[t] = "nap" => pc'[t] = "nap"
    BY <2>1 DEF DelaysConserved
  <2>2. CASE JoinAtBarrier
    BY <2>2 DEF JoinAtBarrier, RestartPool, EmptyPool, Zero, DelaysConserved
  <2>3. ASSUME NEW t \in Threads, GetWait(t) PROVE DelaysConserved' /\ NapOK'
    <3>1. nap[t] = 0
      BY <2>3 DEF GetWait
    <3>2. /\ nap' = [nap EXCEPT ![t] = wait[t]] /\ wait' = [wait EXCEPT ![t] = 0]
          /\ pc' = [pc EXCEPT ![t] = IF wait[t] = 0 THEN "want" ELSE "nap"]
          /\ UNCHANGED <<asked, slept>>
      BY <2>3 DEF GetWait, Goto
    <3>3. DelaysConserved'
      <4>1. asked[t] = slept[t] + nap[t] + wait[t]
        BY DEF DelaysConserved
      <4>2. wait[t] \in Nat /\ slept[t] \in Nat /\ asked[t] = slept[t] + wait[t] + 0
        BY <2>0, <3>1, <4>1
      <4>3. \A u \in Threads \ {t} : nap'[u] = nap[u] /\ wait'[u] = wait[u]
        BY <2>0, <3>2
      <4>4. nap'[t] = wait[t] /\ wait'[t] = 0
        BY <2>0, <3>2
      <4> QED BY <3>2, <4>2, <4>3, <4>4 DEF DelaysConserved
    <3>4. NapOK'
      BY <2>0, <3>2
    <3> QED BY <3>3, <3>4
  <2>4. ASSUME NEW t \in Threads, Nap(t) PROVE DelaysConserved' /\ NapOK'
    <3>1. /\ nap' = [nap EXCEPT ![t] = 0] /\ slept' = [slept EXCEPT ![t] = @ + nap[t]]
          /\ pc' = [pc EXCEPT ![t] = "want"] /\ UNCHANGED <<asked, wait>>
      BY <2>4 DEF Nap, Goto
    <3>2. DelaysConserved'
      <4>1. asked[t] = slept[t] + nap[t] + wait[t]
        BY DEF DelaysConserved
      <4>2. wait[t] \in Nat /\ slept[t] \in Nat /\ nap[t] \in Nat /\ asked[t] = (slept[t] + nap[t]) + 0 + wait[t]
        BY <2>0, <4>1
      <4>3. \A u \in Threads \ {t} : nap'[u] = nap[u] /\ slept'[u] = slept[u]
        BY <2>0, <3>1
      <4>4. slept'[t] = slept[t] + nap[t] /\ nap'[t] = 0
        BY <2>0, <3>1
      <4> QED BY <3>1, <4>2, <4>3, <4>4 DEF DelaysConserved
    <3>3. NapOK'
      BY <2>0, <3>1
    <3> QED BY <3>2, <3>3
  <2>5. ASSUME NEW u \in Threads, Delay(u), UNCHANGED <<nap, slept>>,
               \A t \in Threads : pc[t] = "nap" => pc'[t] = "nap"
        PROVE  DelaysConserved' /\ NapOK'
    <3>1. asked[u] = slept[u] + nap[u] + wait[u]
      BY DEF DelaysConserved
    <3>2. wait[u] \in Nat /\ slept[u] \in Nat /\ nap[u] \in Nat /\ asked[u] + 1 = slept[u] + nap[u] + (wait[u] + 1)
      BY <2>0, <3>1
    <3>3. \A v \in Threads \ {u} : wait'[v] = wait[v] /\ asked'[v] = asked[v]
      BY <2>0, <2>5 DEF Delay
    <3>4. wait'[u] = wait[u] + 1 /\ asked'[u] = asked[u] + 1
      BY <2>0, <2>5 DEF Delay
    <3>5. DelaysConserved'
      BY <2>5, <3>2, <3>3, <3>4 DEF DelaysConserved
    <3>6. NapOK'
      BY <2>5
    <3> QED BY <3>5, <3>6
  <2>6. ASSUME NEW t \in Threads, WaitOne(t) PROVE DelaysConserved' /\ NapOK'
    <3>1. \A u \in Threads : pc[u] = "nap" => pc'[u] = "nap"
      BY <2>0, <2>6 DEF WaitOne, Complete, Goto
    <3> QED BY <2>1, <2>5, <2>6, <3>1 DEF WaitOne
  <2>7. ASSUME NEW t \in Threads, WaitNext(t) PROVE DelaysConserved' /\ NapOK'
    <3>1. upto[t] + 1 \in Threads
      <4>1. upto[t] < NThreads
        BY <2>7 DEF WaitNext
      <4>2. upto[t] \in 0 .. NThreads
        BY <2>0
      <4>3. Threads = 1 .. NThreads /\ NThreads \in Nat
        BY <2>0
      <4> QED BY <4>1, <4>2, <4>3
    <3> QED BY <2>5, <2>7, <3>1 DEF WaitNext
  <2>8. CASE CreateThread
    <3>1. created + 1 \in Threads /\ pc[created + 1] = "none"
      <4>1. created \in 0 .. NThreads /\ created < NThreads
        BY <2>8, TypeParts DEF CreateThread, Inv
      <4>2. created + 1 \in Threads /\ created + 1 > created
        BY <2>0, <4>1
      <4> QED BY <4>2 DEF Inv, PoolOK
    <3>2. \A t \in Threads : pc[t] = "nap" => pc'[t] = "nap"
      BY <2>0, <2>8, <3>1 DEF CreateThread, Goto
    <3> QED BY <2>1, <2>8, <3>2 DEF CreateThread, delayVars
  <2>9. CASE CreateFails \/ PoolReady \/ JoinFailedPool \/ JoinAtEnd \/ Terminated \/ UNCHANGED vars
    BY <2>1, <2>9 DEF CreateFails, PoolReady, JoinFailedPool, JoinAtEnd, Terminated, vars, delayVars
  <2>10. ASSUME NEW t \in Threads,
                Begin(t) \/ Acquire(t) \/ Check(t) \/ Read(t) \/ Parse(t) \/ LeaveBarrier(t)
                  \/ EndOfFile(t) \/ Execute(t) \/ WaitEnd(t)
         PROVE  DelaysConserved' /\ NapOK'
    <3>1. pc[t] # "nap" /\ (pc' = pc \/ \E place : Goto(t, place))
      BY <2>10 DEF Begin, Acquire, Check, Read, Parse, LeaveBarrier, EndOfFile, Execute, WaitEnd,
                   Complete, Release
    <3>2. \A u \in Threads : pc[u] = "nap" => pc'[u] = "nap"
      BY <2>0, <3>1 DEF Goto
    <3>3. UNCHANGED <<wait, nap, asked, slept>>
      BY <2>10 DEF Begin, Acquire, Check, Read, Parse, LeaveBarrier, EndOfFile, Execute, WaitEnd, delayVars
    <3> QED BY <2>1, <3>2, <3>3
  <2> QED BY <2>2, <2>3, <2>4, <2>6, <2>7, <2>8, <2>9, <2>10 DEF Next, Main, Step
<1>3. Spec => [](DelaysConserved /\ NapOK)
  BY <1>1, <1>2, Invariance, PTL DEF Spec
<1> QED BY <1>3, PTL

\* The pools of threads implement the order of the job file.
THEOREM Refinement == Spec => KeepsOrder
<1>0. Inv /\ [Next]_vars => [Order!Next]_(Order!vars)
  <2> SUFFICES ASSUME Inv, [Next]_vars PROVE [Order!Next]_(Order!vars)
    OBVIOUS
  <2>0. /\ job \in Jobs /\ Len(job) \in Nat /\ next \in Nat /\ next \in 1 .. Len(job) + 1
        /\ (next - 1) + 1 = next /\ (next + 1) - 1 = next
    BY TypeParts DEF Inv
  <2>1. ASSUME NEW t \in Threads, Parse(t) PROVE Order!Start
    <3>1. /\ next <= Len(job) /\ job[next].kind # "barrier" /\ Passed(next)
          /\ next' = next + 1 /\ UNCHANGED <<job, done>>
      BY <2>1 DEF Parse, Inv, ReadOK, Barriers
    <3>2. (next - 1) + 1 = next /\ next' - 1 = (next - 1) + 1 /\ next - 1 < Len(job)
      BY <2>0, <3>1
    <3>3. Order!BarriersPassed
      BY <3>1 DEF Passed, Order!BarriersPassed
    <3> QED BY <3>1, <3>2, <3>3 DEF Order!Start
  <2>2. ASSUME NEW t \in Threads, LeaveBarrier(t) PROVE Order!Barrier
    <3>1. /\ next <= Len(job) /\ job[next].kind = "barrier" /\ Passed(next) /\ cur[t] = next
          /\ next' = next + 1 /\ done' = done \cup {cur[t]} /\ job' = job
      BY <2>2 DEF LeaveBarrier, Inv, ReadOK, Barriers
    <3>2. (next - 1) + 1 = next /\ next' - 1 = (next - 1) + 1 /\ next - 1 < Len(job)
      BY <2>0, <3>1
    <3>3. Order!BarriersPassed
      BY <3>1 DEF Passed, Order!BarriersPassed
    <3> QED BY <3>1, <3>2, <3>3 DEF Order!Barrier
  <2>3. ASSUME NEW t \in Threads, pc[t] \in Running, Complete(t)
        PROVE  \E k \in 1 .. next - 1 : Order!Finish(k)
    <3>1. cur[t] \in 1 .. next - 1 /\ cur[t] \notin done
      BY <2>3 DEF Inv, RunOK
    <3>2. done' = done \cup {cur[t]} /\ UNCHANGED <<job, next>>
      BY <2>3 DEF Complete, fileVars
    <3> QED BY <3>1, <3>2 DEF Order!Finish
  <2>4. ASSUME NEW t \in Threads, Execute(t) \/ WaitOne(t) \/ WaitEnd(t) PROVE Order!Next
    <3>1. pc[t] \in Running /\ Complete(t)
      BY <2>4 DEF Execute, WaitOne, WaitEnd, Running
    <3> QED BY <2>3, <3>1 DEF Order!Next
  <2>5. ASSUME NEW t \in Threads, Begin(t) \/ GetWait(t) \/ Nap(t) \/ Acquire(t) \/ Check(t)
                                  \/ Read(t) \/ EndOfFile(t) \/ WaitNext(t)
        PROVE  UNCHANGED <<job, next, done>>
    BY <2>5 DEF Begin, GetWait, Nap, Acquire, Check, Read, EndOfFile, WaitNext, fileVars
  <2>6. CASE Main \/ Terminated \/ UNCHANGED vars
    BY <2>6 DEF Main, CreateThread, CreateFails, PoolReady, JoinFailedPool, JoinAtBarrier, JoinAtEnd,
                Terminated, fileVars, vars, Order!vars
  <2> QED BY <2>1, <2>2, <2>4, <2>5, <2>6 DEF Next, Step, Order!Next, Order!vars
<1>1. Init => Order!Init
  BY DEF Init, Order!Init
<1> QED BY <1>0, <1>1, Invariance, PTL DEF Spec, KeepsOrder, Order!Spec

------------------------------------------------------------------------------
(* The processes of a batch *)

\* Where each file is: not read yet, in the hands of the parent, with its child, waited
\* for or given up.
FilesOK ==
  /\ unread \cup entry \cup Children \cup reaped \cup failed = Files
  /\ running \cap zombies = {}
  /\ Children \cap (unread \cup entry) = {}
  /\ entry \cap unread = {}

\* What the place of the parent says of the count and of the entry in its hands.
PlaceOK ==
  /\ parent \in {"wait", "dispatch"} => \E f \in Files : entry = {f}
  /\ parent \in {"read", "drain", "exit"} => entry = {}
  /\ parent \in {"drain", "exit"} => unread = {}
  /\ parent = "wait" => procCount = MaxProc
  /\ parent = "dispatch" => procCount < MaxProc
  /\ parent = "exit" => procCount = 0

BatchInv == BatchTypeOK /\ CountExact /\ FilesOK /\ PlaceOK

------------------------------------------------------------------------------

\* The children are finitely many.
LEMMA ChildrenFinite == ASSUME BatchTypeOK PROVE IsFiniteSet(Children) /\ Cardinality(Children) \in Nat
<1>1. Children \subseteq Files
  BY DEF BatchTypeOK, Children
<1>2. IsFiniteSet(Children)
  BY <1>1, FS_Subset, FilesAssumption
<1> QED BY <1>2, FS_CardinalityType

\* A wait of a parent that has children takes exactly one of them: the count and the
\* number of children fall together.
LEMMA ReapTakesOne ==
  ASSUME BatchTypeOK, CountExact, FilesOK, procCount > 0, NEW place, Reap(place)
  PROVE  /\ \E f \in zombies : /\ zombies' = zombies \ {f}
                               /\ reaped' = reaped \cup {f}
                               /\ Children' = Children \ {f}
         /\ procCount' = procCount - 1
         /\ CountExact'
<1>1. Children # {}
  BY FS_EmptySet DEF CountExact
<1>2. Waitable = {{f} : f \in zombies}
  BY <1>1 DEF Waitable, Children
<1>3. PICK f \in zombies : zombies' = zombies \ {f} /\ reaped' = reaped \cup {f}
  BY <1>2 DEF Reap
<1>4. Children' = Children \ {f} /\ f \in Children
  BY <1>3 DEF Reap, FilesOK, Children
<1>5. Cardinality(Children') = Cardinality(Children) - 1
  BY <1>4, ChildrenFinite, FS_RemoveElement
<1> QED BY <1>3, <1>4, <1>5 DEF Reap, CountExact

\* The invariant holds at the start.
LEMMA BatchInitInv == BatchInit => BatchInv
<1> SUFFICES ASSUME BatchInit PROVE BatchInv
  OBVIOUS
<1>1. Cardinality(Children) = 0
  BY FS_EmptySet DEF BatchInit, Children
<1> QED BY <1>1, MaxProcAssumption
        DEF BatchInit, BatchInv, BatchTypeOK, CountExact, FilesOK, PlaceOK, Children

\* Every step keeps the invariant.
LEMMA BatchStepInv == BatchInv /\ [BatchNext]_(batchVars) => BatchInv'
<1> SUFFICES ASSUME BatchInv, [BatchNext]_(batchVars) PROVE BatchInv'
  OBVIOUS
<1> USE MaxProcAssumption
<1>0. BatchTypeOK /\ CountExact /\ FilesOK /\ PlaceOK /\ procCount \in 0 .. MaxProc
  BY DEF BatchInv, BatchTypeOK
<1>1. CASE ReadEntry
  <2>1. Children' = Children /\ CountExact'
    BY <1>0, <1>1 DEF ReadEntry, Children, CountExact
  <2>2. PICK f \in unread : unread' = unread \ {f} /\ entry' = {f}
    BY <1>1 DEF ReadEntry
  <2>3. BatchTypeOK' /\ FilesOK'
    BY <1>0, <1>1, <2>1, <2>2 DEF ReadEntry, BatchTypeOK, FilesOK, PlaceOK
  <2>4. PlaceOK'
    BY <1>0, <1>1, <2>2 DEF ReadEntry, PlaceOK, BatchTypeOK
  <2> QED BY <2>1, <2>3, <2>4 DEF BatchInv
<1>2. CASE NoEntry
  BY <1>0, <1>2 DEF NoEntry, BatchInv, BatchTypeOK, CountExact, FilesOK, PlaceOK, Children
<1>3. CASE WaitForRoom
  <2>1. procCount > 0 /\ procCount = MaxProc /\ Reap("dispatch")
    BY <1>0, <1>3 DEF WaitForRoom, PlaceOK
  <2>2. PICK f \in zombies : zombies' = zombies \ {f} /\ reaped' = reaped \cup {f} /\ Children' = Children \ {f}
    BY <1>0, <2>1, ReapTakesOne
  <2>3. CountExact' /\ procCount' = procCount - 1
    BY <1>0, <2>1, ReapTakesOne
  <2>4. BatchTypeOK' /\ FilesOK' /\ PlaceOK'
    BY <1>0, <1>3, <2>1, <2>2, <2>3 DEF WaitForRoom, Reap, BatchTypeOK, FilesOK, PlaceOK
  <2> QED BY <2>3, <2>4 DEF BatchInv
<1>4. CASE WaitForLast
  <2>1. procCount > 0 /\ Reap("drain")
    BY <1>4 DEF WaitForLast
  <2>2. PICK f \in zombies : zombies' = zombies \ {f} /\ reaped' = reaped \cup {f} /\ Children' = Children \ {f}
    BY <1>0, <2>1, ReapTakesOne
  <2>3. CountExact' /\ procCount' = procCount - 1
    BY <1>0, <2>1, ReapTakesOne
  <2>4. BatchTypeOK' /\ FilesOK' /\ PlaceOK'
    BY <1>0, <1>4, <2>1, <2>2, <2>3 DEF WaitForLast, Reap, BatchTypeOK, FilesOK, PlaceOK
  <2> QED BY <2>3, <2>4 DEF BatchInv
<1>5. CASE Dispatch
  <2>1. PICK f \in Files : entry = {f}
    BY <1>0, <1>5 DEF Dispatch, PlaceOK
  <2>2. Children' = Children \cup {f} /\ f \notin Children
    BY <1>0, <1>5, <2>1 DEF Dispatch, Children, FilesOK
  <2>3. Cardinality(Children') = Cardinality(Children) + 1
    BY <1>0, <2>2, ChildrenFinite, FS_AddElement
  <2>4. CountExact'
    BY <1>0, <1>5, <2>3 DEF Dispatch, CountExact
  <2>5. BatchTypeOK' /\ FilesOK' /\ PlaceOK'
    BY <1>0, <1>5, <2>1, <2>2 DEF Dispatch, BatchTypeOK, FilesOK, PlaceOK, Children
  <2> QED BY <2>4, <2>5 DEF BatchInv
<1>6. CASE DispatchFails
  BY <1>0, <1>6 DEF DispatchFails, BatchInv, BatchTypeOK, CountExact, FilesOK, PlaceOK, Children
<1>7. CASE Leave
  BY <1>0, <1>7 DEF Leave, BatchInv, BatchTypeOK, CountExact, FilesOK, PlaceOK, Children
<1>8. ASSUME NEW f \in Files, ChildEnds(f) PROVE BatchInv'
  <2>1. Children' = Children
    BY <1>8 DEF ChildEnds, Children
  <2>2. CountExact'
    BY <1>0, <1>8, <2>1 DEF ChildEnds, CountExact
  <2>3. BatchTypeOK' /\ FilesOK' /\ PlaceOK'
    BY <1>0, <1>8, <2>1 DEF ChildEnds, BatchTypeOK, FilesOK, PlaceOK
  <2> QED BY <2>2, <2>3 DEF BatchInv
<1>9. CASE UNCHANGED batchVars
  BY <1>0, <1>9 DEF batchVars, BatchInv, BatchTypeOK, CountExact, FilesOK, PlaceOK, Children
<1> QED BY <1>1, <1>2, <1>3, <1>4, <1>5, <1>6, <1>7, <1>8, <1>9 DEF BatchNext, Parent, BatchTerminated

\* The invariant always holds.
LEMMA BatchInvariance == BatchSpec => []BatchInv
<1> QED BY BatchInitInv, BatchStepInv, PTL DEF BatchSpec

------------------------------------------------------------------------------

\* Type correctness of process_batch, for every directory and max_proc: the count
\* stays within 0 .. max_proc.
THEOREM ProcessTypes == BatchSpec => []BatchTypeOK
<1>1. BatchInv => BatchTypeOK
  BY DEF BatchInv
<1> QED BY <1>1, BatchInvariance, PTL

\* The count is the number of children, the limit holds, and the batch leaves no child
\* behind and no file out, whatever fork answers and in whatever order children end.
THEOREM ChildrenAreAccounted == BatchSpec => []ChildrenAccounted
<1>1. BatchInv => ChildrenAccounted
  <2> SUFFICES ASSUME BatchInv PROVE ChildrenAccounted
    OBVIOUS
  <2>1. CountExact /\ AtMostMaxProc
    BY MaxProcAssumption DEF BatchInv, BatchTypeOK, CountExact, AtMostMaxProc
  <2>2. ASSUME parent = "exit" PROVE Children = {} /\ reaped \cup failed = Files
    <3>1. Cardinality(Children) = 0 /\ unread = {} /\ entry = {}
      BY <2>2 DEF BatchInv, PlaceOK, CountExact
    <3>2. Children = {}
      BY <3>1, ChildrenFinite, FS_EmptySet DEF BatchInv
    <3> QED BY <3>1, <3>2 DEF BatchInv, FilesOK
  <2> QED BY <2>1, <2>2 DEF ChildrenAccounted, AllReaped
<1> QED BY <1>1, BatchInvariance, PTL
=============================================================================

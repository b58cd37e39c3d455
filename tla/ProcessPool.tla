---------------------------- MODULE ProcessPool -----------------------------
(***************************************************************************)
(* The processes of the first EMS project: process_batch, dispatch and     *)
(* wait_child_processes (2nd year/OS/P1/main.c).  The parent forks one     *)
(* child for each job file and waits for any child when max_proc of them   *)
(* exist.  A child ends on its own (ThreadPool is what it does), normally  *)
(* or by a signal, and stays a zombie until it is waited for.              *)
(***************************************************************************)
EXTENDS Integers, FiniteSets

CONSTANTS
  Files,          \* the job files of the directory
  MaxProc,        \* max_proc of the command line
  ForkMayFail     \* whether fork, or the copy of the path, may fail

ASSUME FilesAssumption   == IsFiniteSet(Files)
ASSUME MaxProcAssumption == MaxProc \in Nat \ {0}      \* main.c:96
ASSUME ForkAssumption    == ForkMayFail \in BOOLEAN

VARIABLES
  parent,      \* where process_batch is
  unread,      \* entries of the directory that readdir has not returned
  entry,       \* the file that is being dispatched, {} or a singleton
  procCount,   \* proc_count
  running,     \* the jobs whose child runs
  zombies,     \* the jobs whose child has ended and was not waited for
  failed,      \* the jobs that could not be dispatched
  reaped       \* the jobs whose child was waited for

batchVars == <<parent, unread, entry, procCount, running, zombies, failed, reaped>>

BatchTypeOK ==
  /\ parent \in {"read", "wait", "dispatch", "drain", "exit"}
  /\ unread \subseteq Files /\ entry \subseteq Files
  /\ procCount \in 0 .. MaxProc
  /\ running \subseteq Files /\ zombies \subseteq Files
  /\ failed \subseteq Files /\ reaped \subseteq Files

BatchInit ==
  /\ parent = "read" /\ unread = Files /\ entry = {}
  /\ procCount = 0
  /\ running = {} /\ zombies = {} /\ failed = {} /\ reaped = {}

\* What wait can return: any child that has ended, or at once nobody if there is
\* no child at all.
Waitable == IF running \cup zombies = {} THEN {{}} ELSE {{f} : f \in zombies}

------------------------------------------------------------------------------
(* Mutants of the actions, for the checks of the properties *)

DispatchFailsCounted ==       \* proc_count grows although there is no child
  /\ ForkMayFail
  /\ parent = "dispatch"
  /\ failed' = failed \cup entry
  /\ procCount' = procCount + 1
  /\ parent' = "read" /\ entry' = {}
  /\ UNCHANGED <<unread, running, zombies, reaped>>

ReadEntryOneMore ==           \* max_proc is off by one
  /\ parent = "read"
  /\ \E f \in unread : unread' = unread \ {f} /\ entry' = {f}
  /\ parent' = IF procCount > MaxProc THEN "wait" ELSE "dispatch"
  /\ UNCHANGED <<procCount, running, zombies, failed, reaped>>

ReapKeepsCount(place) ==      \* proc_count stays when wait fails, or always
  /\ \E child \in Waitable : zombies' = zombies \ child /\ reaped' = reaped \cup child
  /\ parent' = place
  /\ UNCHANGED <<unread, entry, procCount, running, failed>>

LeaveWithChildren ==          \* the last children are not waited for
  /\ parent = "drain"
  /\ parent' = "exit"
  /\ UNCHANGED <<unread, entry, procCount, running, zombies, failed, reaped>>

------------------------------------------------------------------------------

\* readdir returns the entries in an order of its own.
ReadEntry ==
  /\ parent = "read"
  /\ \E f \in unread : unread' = unread \ {f} /\ entry' = {f}
  /\ parent' = IF procCount >= MaxProc THEN "wait" ELSE "dispatch"
  /\ UNCHANGED <<procCount, running, zombies, failed, reaped>>

NoEntry ==
  /\ parent = "read" /\ unread = {}
  /\ parent' = "drain"
  /\ UNCHANGED <<unread, entry, procCount, running, zombies, failed, reaped>>

\* wait_child_processes.  How the child ended only changes what is printed.
Reap(place) ==
  /\ \E child \in Waitable : zombies' = zombies \ child /\ reaped' = reaped \cup child
  /\ procCount' = procCount - 1
  /\ parent' = place
  /\ UNCHANGED <<unread, entry, running, failed>>

\* One wait, and the file is dispatched whatever it answered.
WaitForRoom == parent = "wait" /\ Reap("dispatch")

WaitForLast == parent = "drain" /\ procCount > 0 /\ Reap("drain")

Dispatch ==
  /\ parent = "dispatch"
  /\ running' = running \cup entry
  /\ procCount' = procCount + 1
  /\ parent' = "read" /\ entry' = {}
  /\ UNCHANGED <<unread, zombies, failed, reaped>>

DispatchFails ==
  /\ ForkMayFail
  /\ parent = "dispatch"
  /\ failed' = failed \cup entry
  /\ parent' = "read" /\ entry' = {}
  /\ UNCHANGED <<unread, procCount, running, zombies, reaped>>

Leave ==
  /\ parent = "drain" /\ procCount = 0
  /\ parent' = "exit"
  /\ UNCHANGED <<unread, entry, procCount, running, zombies, failed, reaped>>

\* execute_job returns, or the child is killed.
ChildEnds(f) ==
  /\ f \in running
  /\ running' = running \ {f} /\ zombies' = zombies \cup {f}
  /\ UNCHANGED <<parent, unread, entry, procCount, failed, reaped>>

Parent == ReadEntry \/ NoEntry \/ WaitForRoom \/ WaitForLast \/ Dispatch \/ DispatchFails \/ Leave

BatchTerminated == parent = "exit" /\ running = {} /\ UNCHANGED batchVars

BatchNext == Parent \/ (\E f \in Files : ChildEnds(f)) \/ BatchTerminated

BatchSpec == BatchInit /\ [][BatchNext]_batchVars

\* The kernel runs the parent and the children, and every job ends.
FairBatchSpec ==
  BatchSpec /\ WF_batchVars(Parent) /\ \A f \in Files : WF_batchVars(ChildEnds(f))

------------------------------------------------------------------------------
(* Properties *)

Children == running \cup zombies

\* proc_count is the number of children that were not waited for, although it is
\* changed without looking at what wait and fork answered.
CountExact == procCount = Cardinality(Children)

\* There are never more than max_proc children.
AtMostMaxProc == Cardinality(Children) <= MaxProc

\* At the end every file has had its child, or its message, and no child is left.
AllReaped == parent = "exit" => Children = {} /\ reaped \cup failed = Files

\* The three together: the count that decides when to wait is the number of children,
\* which stays within max_proc, and the last waits leave none behind (main.c:112-193).
ChildrenAccounted == CountExact /\ AtMostMaxProc /\ AllReaped

\* The batch ends.
BatchEnds == <>(parent = "exit")
==============================================================================

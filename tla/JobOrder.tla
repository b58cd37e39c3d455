------------------------------ MODULE JobOrder ------------------------------
(***************************************************************************)
(* What a job file promises: its commands start in the order of the file,  *)
(* each once; they may overlap, but none starts before everything above    *)
(* the last BARRIER has finished.                                          *)
(***************************************************************************)
EXTENDS Integers, Sequences

CONSTANT Jobs        \* the job files: sequences of commands with a kind

VARIABLES
  job,               \* the file that is executed
  started,           \* number of commands that have started
  done               \* positions of the commands that have finished

vars == <<job, started, done>>

Init == job \in Jobs /\ started = 0 /\ done = {}

\* All the commands above the BARRIERs passed so far have finished.
BarriersPassed ==
  \A b \in 1 .. started : job[b].kind = "barrier" => 1 .. b - 1 \subseteq done

Start ==
  /\ started < Len(job) /\ job[started + 1].kind # "barrier"
  /\ BarriersPassed
  /\ started' = started + 1
  /\ UNCHANGED <<job, done>>

Barrier ==
  /\ started < Len(job) /\ job[started + 1].kind = "barrier"
  /\ BarriersPassed
  /\ started' = started + 1
  /\ done' = done \cup {started + 1}
  /\ UNCHANGED job

Finish(k) ==
  /\ k \notin done
  /\ done' = done \cup {k}
  /\ UNCHANGED <<job, started>>

Next == Start \/ Barrier \/ \E k \in 1 .. started : Finish(k)

Spec == Init /\ [][Next]_vars
==============================================================================

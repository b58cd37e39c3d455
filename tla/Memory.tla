------------------------------- MODULE Memory --------------------------------
(* What the cache simulators of 3rd year/CO/lab1 promise (l2_2wcache.h, the     *)
(* interfaces read and write): one memory of words, behind any hierarchy.      *)

CONSTANTS Blocks, Words, Values, Zero

VARIABLES mem,      \* [Blocks -> [Words -> Values]]
          answer    \* what the last operation accessed, and the word it read

vars == <<mem, answer>>

None == [kind |-> "none"]
Word(b, w, v) == [kind |-> "word", block |-> b, word |-> w, value |-> v]
Written(b) == [kind |-> "write", block |-> b]

Init ==
  /\ mem = [b \in Blocks |-> [w \in Words |-> Zero]]
  /\ answer = None

Read(b, w) ==
  /\ answer' = Word(b, w, mem[b][w])
  /\ UNCHANGED mem

Write(b, w, v) ==
  /\ answer' = Written(b)
  /\ mem' = [mem EXCEPT ![b][w] = v]

\* A new initialisation may forget any write.
Reset ==
  /\ answer' = None
  /\ mem' \in [Blocks -> [Words -> Values]]

Next ==
  \/ \E b \in Blocks, w \in Words :
       Read(b, w) \/ \E v \in Values : Write(b, w, v)
  \/ Reset

Spec == Init /\ [][Next]_vars

==============================================================================

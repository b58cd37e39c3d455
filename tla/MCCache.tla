------------------------------- MODULE MCCache -------------------------------
(* The three hierarchies of tasks 4.1, 4.2 and 4.3, with their ratios: L2 has    *)
(* twice the blocks of L1, so as many sets as L1 when it is two way             *)
(* associative.                                                                 *)
EXTENDS Cache

L1(n) == [sets |-> n, ways |-> 1, read |-> 1, write |-> 1]
L2(n, k) == [sets |-> n \div k, ways |-> k, read |-> 10, write |-> 5]

SmallHierarchies == {<<L1(2)>>, <<L1(1), L2(2, 1)>>, <<L1(1), L2(2, 2)>>}

OneWord == {0}
Bits == {0, 1}
SlowDram == [read |-> 100, write |-> 50]

==============================================================================

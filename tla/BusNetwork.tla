------------------------------ MODULE BusNetwork ------------------------------
(***************************************************************************)
(* The two programs of 1st year/IADS, given the same commands.  The second *)
(* one also removes stops and lines; from then on the first one, which     *)
(* cannot, is no longer asked.                                             *)
(***************************************************************************)
EXTENDS Integers, Sequences, FiniteSets, FiniteSetsExt, SequencesExt

CONSTANTS Stops,      \* names of stops,
          Lines,      \* names of lines, as numbers in their order
          Costs,
          MaxCost,    \* bound of a run: the cost of all connections together
          Null, Undefined

ASSUME NetworkAssumption == Lines \subseteq Nat /\ Costs \subseteq Nat \ {0} /\ MaxCost \in Nat

VARIABLES stops1, routes1,           \* project1.c
          stops2, routes2, conns2,   \* project2
          parted                     \* the first program is no longer asked
first == <<stops1, routes1>>
second == <<stops2, routes2, conns2>>
vars == <<first, second, parted>>

T == INSTANCE BusTables WITH stops <- stops1, routes <- routes1, Cap <- MaxCost + 1
L == INSTANCE BusLists WITH stops <- stops2, routes <- routes2, conns <- conns2

Init ==
  /\ stops1 = <<>> /\ routes1 = <<>>
  /\ stops2 = <<>> /\ routes2 = <<>> /\ conns2 = <<>>
  /\ parted = FALSE

Part == parted' = TRUE /\ stops1' = <<>> /\ routes1' = <<>>

\* p: a stop.
NewStop(s) ==
  /\ L!CreateStop(s)
  /\ IF parted THEN UNCHANGED first ELSE T!CreateStop(s)
  /\ UNCHANGED parted

\* c: a line.
NewLine(l) ==
  /\ L!CreateRoute(l)
  /\ IF parted THEN UNCHANGED first ELSE T!CreateRoute(l)
  /\ UNCHANGED parted

\* A first connection from a stop to itself: project1.c counts the line twice.
Round(l, from, to) == from = to /\ L!PrintStops(l) = <<>>

\* l: a connection.
NewLink(l, from, to, cost) ==
  /\ MapThenSumSet(LAMBDA c : conns2[c] * c.cost, DOMAIN conns2) + cost <= MaxCost
  /\ L!Link(l, from, to, cost)
  /\ IF parted THEN UNCHANGED <<first, parted>>
     ELSE IF Round(l, from, to) THEN Part ELSE T!Link(l, from, to, cost) /\ UNCHANGED parted

\* r, e and a.
EndLine(l) == L!RemoveRoute(l) /\ Part
EndStop(s) == L!RemoveStop(s) /\ Part
EndAll == L!RemoveAll /\ Part

Next ==
  \/ \E s \in Stops : NewStop(s) \/ EndStop(s)
  \/ \E l \in Lines : NewLine(l) \/ EndLine(l)
  \/ \E l \in Lines, from, to \in Stops, cost \in Costs : NewLink(l, from, to, cost)
  \/ EndAll

Spec == Init /\ [][Next]_vars
-----------------------------------------------------------------------------
Conns == [route : Lines, start : Stops, end : Stops, cost : Nat]
Nodes == [stop : Stops, back : {"none", "node", "freed"}, left : Conns \cup {Null}, right : Conns \cup {Null}]

\* The values have their types: names are known, a stop counts no more lines than there
\* are, a line has no single stop, as many stops as it counts, and room for them.
TypeOK ==
  /\ \A s \in DOMAIN stops1 : stops1[s].name \in Stops /\ stops1[s].num_routes \in 0..Len(routes1)
  /\ \A r \in DOMAIN routes1 :
       /\ routes1[r].name \in Lines /\ routes1[r].route_num_stops \in {0} \cup 2..(MaxCost + 1)
       /\ \A i \in 1..routes1[r].route_num_stops : routes1[r].route_stops[i] \in DOMAIN stops1
  /\ \A s \in DOMAIN stops2 : stops2[s].name \in Stops /\ stops2[s].numRoutes \in 0..Len(routes2)
  /\ \A r \in DOMAIN routes2 :
       /\ routes2[r].name \in Lines /\ routes2[r].nodes \in Seq(Nodes)
       /\ routes2[r].numStops = Len(routes2[r].nodes) /\ routes2[r].numStops # 1
  /\ DOMAIN conns2 \subseteq Conns
  /\ parted \in BOOLEAN

\* A stop counts the lines through it, each one once, however often the line passes and
\* in whatever order its stops came and went; no line has a stop that is not there.
CountsExact ==
  /\ \A s \in DOMAIN stops2 : stops2[s].numRoutes =
       Cardinality({r \in DOMAIN routes2 : L!StopInRoute(routes2[r].nodes, stops2[s].name) > 0})
  /\ \A r \in DOMAIN routes2 : \A i \in DOMAIN routes2[r].nodes : L!Exists(stops2, routes2[r].nodes[i].stop)

\* Both print all stops, all lines, and the stops of a line in both orders alike.
SameLists ==
  /\ T!PrintAllStops = L!PrintAllStops /\ T!PrintAllRoutes = L!PrintAllRoutes
  /\ \A r \in DOMAIN routes2 : LET l == routes2[r].name IN
       T!PrintStops(l) = L!PrintStops(l) /\ T!PrintReverse(l) = L!PrintReverse(l)

\* The two programs print the same: all stops, all lines, the stops of a line in both
\* orders, and the interchanges with their lines sorted.
SameNetwork == ~parted => SameLists /\ T!PrintInterchanges = L!PrintInterchanges

Copies(c, bag) == IF c \in DOMAIN bag THEN bag[c] ELSE 0

\* Two stops that follow one another share one connection, which is among all of them and
\* joins these two; the ends of the line have none; and the cost of the line is the sum.
PathsJoin ==
  \A r \in DOMAIN routes2 :
    LET nodes == routes2[r].nodes
        n == Len(nodes)
        used == [i \in 1..(n - 1) |-> nodes[i].right]
        times(c) == Cardinality({i \in DOMAIN used : used[i] = c})
    IN /\ \A i \in DOMAIN used :
            /\ nodes[i].right = nodes[i + 1].left
            /\ used[i] # Null => /\ used[i].start = nodes[i].stop /\ used[i].end = nodes[i + 1].stop
                                 /\ used[i].route = routes2[r].name
            /\ Copies(used[i], conns2) >= times(used[i])
       /\ n > 0 => nodes[1].left = Null /\ nodes[n].right = Null
       /\ routes2[r].cost = FoldLeft(LAMBDA sum, c : sum + c.cost, 0, used)

\* 'Outputs the stops of a given route in reverse order' (routes.c:224).
ReverseShown ==
  \A r \in DOMAIN routes2 : LET l == routes2[r].name IN L!PrintReverse(l) = Reverse(L!PrintStops(l))
=============================================================================

------------------------------- MODULE BusLists -------------------------------
(***************************************************************************)
(* 1st year/IADS/project2: the same lines in linked structures, and the    *)
(* removal of stops and lines.  A line is a list of nodes; its order is    *)
(* that of the next pointers.  A node has the pointer back (prev): "none", *)
(* "node" for the node before it, or "freed" for one that was freed, and   *)
(* the connections to its left and right.  A connection is never changed,  *)
(* so that one with the same content stands for the pointer to it; all are *)
(* in conns, a bag, for they are only looked for.  The hash tables hold    *)
(* what the lists hold, and finding a name in them is finding it there.    *)
(***************************************************************************)
EXTENDS Integers, Sequences, FiniteSets, SequencesExt

CONSTANTS Null, Undefined

VARIABLES stops, routes, conns

IndexOf(list, name) == SelectInSeq(list, LAMBDA e : e.name = name)
Exists(list, name) == IndexOf(list, name) # 0

\* stopInRoute.
StopInRoute(nodes, stop) == Cardinality({i \in DOMAIN nodes : nodes[i].stop = stop})
-----------------------------------------------------------------------------
\* stopCreation.
CreateStop(name) ==
  /\ ~Exists(stops, name)
  /\ stops' = Append(stops, [name |-> name, numRoutes |-> 0])
  /\ UNCHANGED <<routes, conns>>

\* createRouteOrPrintStops of a new name.
CreateRoute(name) ==
  /\ ~Exists(routes, name)
  /\ routes' = Append(routes, [name |-> name, cost |-> 0, numStops |-> 0, nodes |-> <<>>])
  /\ UNCHANGED <<stops, conns>>

\* validInput and connectionValid, for a cost that is not negative.
LinkValid(route, from, to) ==
  /\ Exists(routes, route) /\ Exists(stops, from) /\ Exists(stops, to)
  /\ LET r == routes[IndexOf(routes, route)] IN
       r.numStops # 0 => r.nodes[1].stop = to \/ Last(r.nodes).stop = from

\* createNewConn and newConn.
NewConn(route, from, to, cost) == [route |-> route, start |-> from, end |-> to, cost |-> cost]
NewNode(stop) == [stop |-> stop, back |-> "none", left |-> Null, right |-> Null]

\* A bug: a stop that is on the line is counted again.
CountAgain(r, stop) == [stops EXCEPT ![IndexOf(stops, stop)].numRoutes = @ + 1]

\* A stop that was not on the line is on one line more.
Count(r, stop) ==
  IF StopInRoute(routes[r].nodes, stop) > 0 THEN stops
  ELSE [stops EXCEPT ![IndexOf(stops, stop)].numRoutes = @ + 1]

Extend(r, nodes, cost) ==
  routes' = [routes EXCEPT ![r].nodes = nodes, ![r].numStops = Len(nodes), ![r].cost = @ + cost]

\* addInitialStopsToRoute.
LinkFirst(r, conn) ==
  /\ routes[r].nodes = <<>>
  /\ Extend(r, <<[NewNode(conn.start) EXCEPT !.right = conn],
                 [NewNode(conn.end) EXCEPT !.back = "node", !.left = conn]>>, conn.cost)
  /\ stops' = [s \in DOMAIN stops |->
       IF stops[s].name \in {conn.start, conn.end} THEN [stops[s] EXCEPT !.numRoutes = @ + 1] ELSE stops[s]]

\* addStopToRouteEnd.
LinkEnd(r, conn) ==
  LET nodes == routes[r].nodes IN
  /\ nodes # <<>> /\ Last(nodes).stop = conn.start
  /\ Extend(r, Append([nodes EXCEPT ![Len(nodes)].right = conn],
                      [NewNode(conn.end) EXCEPT !.back = "node", !.left = conn]), conn.cost)
  /\ stops' = Count(r, conn.end)

\* addStopToRouteBeginning.
LinkBeginning(r, conn) ==
  LET nodes == routes[r].nodes IN
  /\ nodes # <<>> /\ Last(nodes).stop # conn.start
  /\ Extend(r, <<[NewNode(conn.start) EXCEPT !.right = conn]>>
                 \o [nodes EXCEPT ![1].left = conn, ![1].back = "node"], conn.cost)
  /\ stops' = Count(r, conn.start)

\* connectionsCommand and updateData.
Link(route, from, to, cost) ==
  LET r == IndexOf(routes, route)
      conn == NewConn(route, from, to, cost)
  IN /\ LinkValid(route, from, to)
     /\ LinkFirst(r, conn) \/ LinkEnd(r, conn) \/ LinkBeginning(r, conn)
     /\ conns' = conns (+) SetToBag({conn})
-----------------------------------------------------------------------------
\* freeRouteNode frees the nodes from the first one: each stop is on one line less when
\* its last node goes.
FreeRoute(r) ==
  LET nodes == routes[r].nodes
      Lost(s) == Cardinality({i \in DOMAIN nodes :
                    nodes[i].stop = s /\ StopInRoute(SubSeq(nodes, i, Len(nodes)), s) = 1})
  IN [s \in DOMAIN stops |-> [stops[s] EXCEPT !.numRoutes = @ - Lost(stops[s].name)]]

\* removeRouteCommand and removeRoute.
RemoveRoute(name) ==
  /\ Exists(routes, name)
  /\ stops' = FreeRoute(IndexOf(routes, name))
  /\ routes' = RemoveAt(routes, IndexOf(routes, name))
  /\ conns' = [c \in {d \in DOMAIN conns : d.route # name} |-> conns[c]]

\* freeSystem.
RemoveAll == stops' = <<>> /\ routes' = <<>> /\ conns' = EmptyBag

Without(bag, conn) == bag (-) SetToBag({conn})

\* deleteStopOfRoute of the first node: removeConnAtRightOfStop with the cost; what is the
\* first node now keeps its pointer back.
DeleteHead(st) ==
  LET r == st.route
      conn == r.nodes[1].right
      rest == Tail(r.nodes)
  IN [st EXCEPT !.route = [r EXCEPT !.nodes = [rest EXCEPT ![1].left = Null, ![1].back = "freed"],
                                    !.cost = @ - conn.cost, !.numStops = @ - 1],
                !.conns = Without(@, conn)]

\* ... of the last node: removeConnAtLeftOfStop with the cost.
DeleteTail(st) ==
  LET r == st.route
      conn == Last(r.nodes).left
      rest == Front(r.nodes)
  IN [st EXCEPT !.route = [r EXCEPT !.nodes = [rest EXCEPT ![Len(rest)].right = Null],
                                    !.cost = @ - conn.cost, !.numStops = @ - 1],
                !.conns = Without(@, conn)]

\* A bug: the new connection has the cost of one of the two.
DeleteMiddleCheap(st, i) ==
  LET r == st.route
      left == r.nodes[i].left
      right == r.nodes[i].right
      conn == NewConn(r.name, left.start, right.end, left.cost)
  IN [st EXCEPT !.route = [r EXCEPT !.nodes = RemoveAt([@ EXCEPT ![i - 1].right = conn,
                                                                 ![i + 1].left = conn], i),
                                    !.numStops = @ - 1],
                !.conns = Without(Without(@ (+) SetToBag({conn}), left), right)]

\* ... of another: removeBothConnsOfStop joins the two connections.
DeleteMiddle(st, i) ==
  LET r == st.route
      left == r.nodes[i].left
      right == r.nodes[i].right
      conn == NewConn(r.name, left.start, right.end, left.cost + right.cost)
  IN [st EXCEPT !.route = [r EXCEPT !.nodes = RemoveAt([@ EXCEPT ![i - 1].right = conn,
                                                                 ![i + 1].left = conn], i),
                                    !.numStops = @ - 1],
                !.conns = Without(Without(@ (+) SetToBag({conn}), left), right)]

\* checkStopConditions: a line whose two stops both go is emptied, but its connection stays.
Empty(st) == [st EXCEPT !.route = [@ EXCEPT !.nodes = <<>>, !.numStops = 0, !.cost = 0]]

\* One round of updateRouteStops, from the first node of the line.
DeleteOne(st, stop) ==
  LET nodes == st.route.nodes
      i == SelectInSeq(nodes, LAMBDA n : n.stop = stop)
  IN IF i = 0 \/ st.route.numStops = 1 THEN st
     ELSE IF st.route.numStops = 2 /\ StopInRoute(nodes, stop) = 2 THEN Empty(st)
     ELSE IF i = 1 THEN DeleteHead(st)
     ELSE IF i = Len(nodes) THEN DeleteTail(st) ELSE DeleteMiddle(st, i)

\* A bug: a line may be left with one stop.
LeaveOne(st) == st

\* resetRouteWithOneStop: freeRouteStopNode takes the line off the count of its stop.
ResetOne(st) ==
  IF st.route.numStops # 1 THEN st
  ELSE [st EXCEPT !.route = [@ EXCEPT !.nodes = <<>>, !.numStops = 0],
                  !.lost = Append(@, st.route.nodes[1].stop)]

\* updateRouteStops of one line.
UpdateRoute(st, stop) ==
  ResetOne(FoldLeft(LAMBDA s, k : DeleteOne(s, stop), st, st.route.nodes))

\* removeStopCommand.  The count of the stop itself is changed too, but goes with it.
RemoveStop(name) ==
  LET Update(st, r) ==
        LET new == UpdateRoute([route |-> r, conns |-> st.conns, lost |-> st.lost], name)
        IN [routes |-> Append(st.routes, new.route), conns |-> new.conns, lost |-> new.lost]
      after == FoldLeft(Update, [routes |-> <<>>, conns |-> conns, lost |-> <<>>], routes)
      Less(s) == [s EXCEPT !.numRoutes = @ - Cardinality({i \in DOMAIN after.lost : after.lost[i] = s.name})]
      kept == RemoveAt(stops, IndexOf(stops, name))
  IN /\ Exists(stops, name)
     /\ routes' = after.routes /\ conns' = after.conns
     /\ stops' = [s \in DOMAIN kept |-> Less(kept[s])]
-----------------------------------------------------------------------------
Named(name) == routes[IndexOf(routes, name)]

\* printRouteStopsNormal.
PrintStops(name) == [i \in DOMAIN Named(name).nodes |-> Named(name).nodes[i].stop]

\* printRouteStopsReverse follows the pointers back from the tail, into freed memory if
\* one of them leads there.
PrintReverse(name) ==
  LET nodes == Named(name).nodes
      n == Len(nodes)
      stop == {0} \cup {i \in DOMAIN nodes : nodes[i].back # "node"}
      i == CHOOSE k \in stop : \A j \in stop : j <= k
  IN IF n = 0 THEN <<>>
     ELSE IF i > 0 /\ nodes[i].back = "freed" THEN Undefined
     ELSE [k \in 1..(n + 1 - i) |-> nodes[n + 1 - k].stop]

\* printAllStops.
PrintAllStops == [s \in DOMAIN stops |-> <<stops[s].name, stops[s].numRoutes>>]

\* printAllRoutes.
PrintAllRoutes ==
  [r \in DOMAIN routes |-> LET x == routes[r] IN
     IF x.numStops = 0 THEN <<x.name, 0, x.cost>>
     ELSE <<x.name, x.nodes[1].stop, Last(x.nodes).stop, x.numStops, x.cost>>]

\* findRoutesOfStop: the last line first.
FindRoutes(stop) ==
  Reverse(SelectSeq([r \in DOMAIN routes |-> routes[r].name],
                    LAMBDA name : StopInRoute(Named(name).nodes, stop) > 0))

\* sortListAlphabetically, by bubble sort: a round over the first k swaps neighbours.
SortRoutes(list) ==
  LET Swap(l, i) == IF l[i] > l[i + 1] THEN [l EXCEPT ![i] = l[i + 1], ![i + 1] = l[i]] ELSE l
      Round(l, k) == FoldLeft(Swap, l, [i \in 1..(k - 1) |-> i])
  IN FoldLeft(Round, list, [k \in DOMAIN list |-> Len(list) + 1 - k])

\* interchangePointsCommnand.
PrintInterchanges ==
  LET busy == SelectSeq(stops, LAMBDA s : s.numRoutes > 1)
  IN [i \in DOMAIN busy |-> <<busy[i].name, busy[i].numRoutes, SortRoutes(FindRoutes(busy[i].name))>>]
=============================================================================

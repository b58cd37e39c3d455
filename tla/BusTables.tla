------------------------------ MODULE BusTables ------------------------------
(***************************************************************************)
(* 1st year/IADS/project1.c: bus lines over stops, kept in arrays.  A line *)
(* holds the indexes of its stops, a stop the number of lines through it.  *)
(* Indexes start at 1.  A cost stands for a cost and a duration, which are *)
(* treated alike; the place of a stop is left out.  What is only printed   *)
(* is an operator.  Lines are numbers, in the order of their names.        *)
(***************************************************************************)
EXTENDS Integers, Sequences, FiniteSets, SequencesExt

CONSTANTS Cap,       \* MAX_STOPS, the length of route_stops
          Undefined  \* what is read from memory that was never written

VARIABLES stops, routes   \* the parts of the arrays that are in use

\* get_stop_index and get_route_index: one past the last for a name that is not there.
IndexOf(list, name) ==
  LET i == SelectInSeq(list, LAMBDA e : e.name = name) IN IF i = 0 THEN Len(list) + 1 ELSE i
Exists(list, name) == IndexOf(list, name) # Len(list) + 1

\* get_route_origin, get_route_destination.
Origin(r) == routes[r].route_stops[1]
Destination(r) == routes[r].route_stops[routes[r].route_num_stops]

IsStopInRoute(arr, num, stop) == \E i \in 1..num : arr[i] = stop
-----------------------------------------------------------------------------
\* stop_creation; a global array is zero before it is used.
CreateStop(name) ==
  /\ ~Exists(stops, name)
  /\ stops' = Append(stops, [name |-> name, num_routes |-> 0])
  /\ UNCHANGED routes

\* create_route_or_print_stops of a new name.
CreateRoute(name) ==
  /\ ~Exists(routes, name)
  /\ routes' = Append(routes, [name |-> name, route_stops |-> [i \in 1..Cap |-> 1],
                               route_num_stops |-> 0, total_cost |-> 0])
  /\ UNCHANGED stops

\* invalid_input_checker and connection_valid, for a cost that is not negative.
LinkValid(route, from, to) ==
  /\ Exists(routes, route) /\ Exists(stops, from) /\ Exists(stops, to)
  /\ LET r == IndexOf(routes, route) IN
       routes[r].route_num_stops # 0 =>
         Destination(r) = IndexOf(stops, from) \/ Origin(r) = IndexOf(stops, to)

Through(s) == [stops EXCEPT ![s].num_routes = @ + 1]

\* add_initial_stops_to_route.
LinkFirst(r, from, to, cost) ==
  /\ routes[r].route_num_stops = 0
  /\ routes' = [routes EXCEPT ![r].route_stops[1] = from, ![r].route_stops[2] = to,
                              ![r].route_num_stops = 2, ![r].total_cost = @ + cost]
  /\ stops' = [stops EXCEPT ![from].num_routes = @ + 1, ![to].num_routes = @ + 1]

\* add_stop, at the end.
LinkEnd(r, from, to, cost) ==
  LET num == routes[r].route_num_stops IN
  /\ num # 0 /\ Destination(r) = from
  /\ stops' = IF IsStopInRoute(routes[r].route_stops, num, to) THEN stops ELSE Through(to)
  /\ routes' = [routes EXCEPT ![r].route_stops[num + 1] = to, ![r].route_num_stops = num + 1,
                              ![r].total_cost = @ + cost]

\* A bug: the first stop is overwritten.
ShiftNothing(arr, num) == arr

\* shift_indexes_position.
Shift(arr, num) == [i \in DOMAIN arr |-> IF i \in 2..(num + 1) THEN arr[i - 1] ELSE arr[i]]

\* add_stop, at the beginning: it looks for the stop after the shift, which leaves the
\* last stop of the line out.
LinkBeginning(r, from, to, cost) ==
  LET num == routes[r].route_num_stops
      shifted == Shift(routes[r].route_stops, num)
  IN /\ num # 0 /\ Destination(r) # from
     /\ stops' = IF IsStopInRoute(shifted, num, from) THEN stops ELSE Through(from)
     /\ routes' = [routes EXCEPT ![r].route_stops = [shifted EXCEPT ![1] = from],
                                 ![r].route_num_stops = num + 1, ![r].total_cost = @ + cost]

\* connections_command and update_data.
Link(route, from, to, cost) ==
  LET r == IndexOf(routes, route)
      f == IndexOf(stops, from)
      t == IndexOf(stops, to)
  IN /\ LinkValid(route, from, to)
     /\ LinkFirst(r, f, t, cost) \/ LinkEnd(r, f, t, cost) \/ LinkBeginning(r, f, t, cost)
-----------------------------------------------------------------------------
NamesOf(r) == [i \in 1..routes[r].route_num_stops |-> stops[routes[r].route_stops[i]].name]

\* print_route_stops_normal and print_route_stops_reverse.
PrintStops(name) == NamesOf(IndexOf(routes, name))
PrintReverse(name) ==
  LET path == NamesOf(IndexOf(routes, name)) IN [i \in DOMAIN path |-> path[Len(path) + 1 - i]]

\* print_all_stops.
PrintAllStops == [s \in DOMAIN stops |-> <<stops[s].name, stops[s].num_routes>>]

\* print_all_routes.
PrintAllRoutes ==
  [r \in DOMAIN routes |->
     IF routes[r].route_num_stops = 0 THEN <<routes[r].name, 0, routes[r].total_cost>>
     ELSE <<routes[r].name, stops[Origin(r)].name, stops[Destination(r)].name,
            routes[r].route_num_stops, routes[r].total_cost>>]

\* find_routes_of_stop: each line once.
FindRoutes(s) ==
  SelectSeq([r \in DOMAIN routes |-> r],
            LAMBDA r : IsStopInRoute(routes[r].route_stops, routes[r].route_num_stops, s))

CompareNames(r, q) == routes[r].name < routes[q].name

\* merge: the right half is turned round, so that the two ends meet.
Merge(a, b) ==
  LET aux == a \o Reverse(b)
      Take(st, k) ==
        IF CompareNames(aux[st.j], aux[st.i]) \/ st.i = Len(a) + 1
        THEN [st EXCEPT !.j = @ - 1, !.out = Append(@, aux[st.j])]
        ELSE [st EXCEPT !.i = @ + 1, !.out = Append(@, aux[st.i])]
  IN FoldLeft(Take, [i |-> 1, j |-> Len(aux), out |-> <<>>], [k \in DOMAIN aux |-> k]).out

\* sort_routes_alphabetically.
SortRoutes(list) ==
  LET sort[left \in 1..(Len(list) + 1), right \in 0..Len(list)] ==
        IF right <= left THEN SubSeq(list, left, right)
        ELSE LET middle == (left + right) \div 2
             IN Merge(sort[left, middle], sort[middle + 1, right])
  IN sort[1, Len(list)]

\* print_routes_of_stop: as many lines as the stop has counted, found or not.
PrintRoutesOf(s) ==
  LET found == FindRoutes(s)
      num == stops[s].num_routes
  IN IF num > Len(found) THEN Undefined
     ELSE [i \in 1..num |-> routes[SortRoutes(SubSeq(found, 1, num))[i]].name]

\* interchange_points_command.
PrintInterchanges ==
  LET busy == SelectSeq([s \in DOMAIN stops |-> s], LAMBDA s : stops[s].num_routes > 1)
  IN [i \in DOMAIN busy |-> <<stops[busy[i]].name, stops[busy[i]].num_routes, PrintRoutesOf(busy[i])>>]
=============================================================================

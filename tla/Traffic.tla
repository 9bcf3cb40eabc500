------------------------------ MODULE Traffic ------------------------------
(***************************************************************************)
(* The traffic model (models/traffic): cars cross a torus of               *)
(* intersections, each by an arrival, a choice of direction and a          *)
(* departure.  A car is always in one message.  Delays are left out: the   *)
(* pending messages are handled in any order.  The last one handled may be *)
(* rolled back by its reverse handler.                                     *)
(***************************************************************************)
EXTENDS Integers, FiniteSetsExt

CONSTANTS
  g_num_x, g_num_y,                      \* the grid
  g_total_cars, start_cars,              \* start_cars: g_percent_start of them
  g_start_size, g_start_x, g_start_y,    \* the block where those start
  g_end_size, g_end_x, g_end_y           \* the block where cars go: g_percent_end = 1

Assumptions ==
  /\ {g_num_x, g_num_y, g_start_size, g_end_size} \subseteq Nat \ {0}
  /\ {g_total_cars, start_cars, g_start_x, g_start_y, g_end_x, g_end_y} \subseteq Nat
  /\ start_cars <= g_total_cars
  /\ g_start_x + g_start_size <= g_num_x /\ g_start_y + g_start_size <= g_num_y
  /\ g_end_x + g_end_size <= g_num_x /\ g_end_y + g_end_size <= g_num_y

VARIABLES
  lps,       \* lps[gid]: the counters of an intersection and its draws
  messages,  \* pending messages
  last       \* the message handled last, its bit field and what it sent

vars == <<lps, messages, last>>

Gid == 0..g_num_x * g_num_y - 1

NORTH == 0

EAST == 1

SOUTH == 2

WEST == 3

Lane == {NORTH, EAST, SOUTH, WEST}

this_x(gid) == gid % g_num_x

this_y(gid) == gid \div g_num_x

neighbors(gid, lane) ==
  LET x == this_x(gid)
      y == this_y(gid)
  IN  CASE lane = NORTH -> ((y - 1 + g_num_y) % g_num_y) * g_num_x + x
        [] lane = SOUTH -> ((y + 1) % g_num_y) * g_num_x + x
        [] lane = EAST -> y * g_num_x + ((x + 1) % g_num_x)
        [] lane = WEST -> y * g_num_x + ((x - 1 + g_num_x) % g_num_x)

-----------------------------------------------------------------------------
(***************************************************************************)
(* How many cars an intersection starts with.                              *)
(***************************************************************************)
UniformFactory(total_intersections, total_cars, id) ==
  (total_cars \div total_intersections) + (IF id < total_cars % total_intersections THEN 1 ELSE 0)

InStart(x, y) ==
  x \in g_start_x..g_start_x + g_start_size - 1 /\ y \in g_start_y..g_start_y + g_start_size - 1

\* The numbers of the intersections outside the start block have no gap.
other_id(x, y) ==
  LET flat_id == x + y * g_num_x
  IN  IF y >= g_start_y + g_start_size THEN flat_id - g_start_size * g_start_size
      ELSE IF y >= g_start_y
      THEN flat_id - g_start_size * (y - g_start_y) - (IF x > g_start_x THEN g_start_size ELSE 0)
      ELSE flat_id

UnbalancedFactory(gid) ==
  LET x == this_x(gid)
      y == this_y(gid)
      size == g_start_size * g_start_size
  IN  IF InStart(x, y)
      THEN UniformFactory(size, start_cars, (x - g_start_x) + (y - g_start_y) * g_start_size)
      ELSE UniformFactory(g_num_x * g_num_y - size, g_total_cars - start_cars, other_id(x, y))

-----------------------------------------------------------------------------
(***************************************************************************)
(* The handlers: each the outcomes [lp, sent, cv] for an intersection and  *)
(* a message, where sent is {} or one message.                             *)
(***************************************************************************)
Here(m) == this_x(m.at) = m.dest_x /\ this_y(m.at) = m.dest_y

Opposite(lane) == (lane + 2) % 4

ArrivalMsgSameLane(lp, m) ==
  IF Here(m)
  THEN {[lp |-> [lp EXCEPT !.total_cars_finished = @ + 1], sent |-> {}, cv |-> {}]}
  ELSE {[lp |-> [lp EXCEPT !.total_cars_arrived = @ + 1, !.in_lane[m.current_lane] = @ + 1,
                           !.draws = @ + 1],
         sent |-> {[m EXCEPT !.kind = "Direction", !.current_lane = Opposite(m.current_lane)]},
         cv |-> {}]}

ArrivalMsg(lp, m) ==
  IF Here(m)
  THEN {[lp |-> [lp EXCEPT !.total_cars_finished = @ + 1], sent |-> {}, cv |-> {}]}
  ELSE {[lp |-> [lp EXCEPT !.total_cars_arrived = @ + 1, !.in_lane[Opposite(m.current_lane)] = @ + 1,
                           !.draws = @ + 1],
         sent |-> {[m EXCEPT !.kind = "Direction", !.current_lane = Opposite(m.current_lane)]},
         cv |-> {}]}

DepartureMsg(lp, m) ==
  {[lp |-> [lp EXCEPT !.out_lane[m.current_lane] = @ - 1, !.draws = @ + 1],
    sent |-> {[m EXCEPT !.kind = "Arrival", !.at = neighbors(m.at, m.current_lane)]},
    cv |-> {}]}

\* 0 is horizontal and 1 vertical; there is a choice when both coordinates differ.
Decisions(m) ==
  (IF this_x(m.at) # m.dest_x THEN {0} ELSE {}) \union (IF this_y(m.at) # m.dest_y THEN {1} ELSE {})

new_lane(cv) ==
  IF "c0" \notin cv THEN IF "c1" \notin cv THEN EAST ELSE WEST
                    ELSE IF "c1" \notin cv THEN SOUTH ELSE NORTH

Drawn(m) == IF Cardinality(Decisions(m)) = 2 THEN 2 ELSE 1

DirectionMsg(lp, m) ==
  {LET cv == IF d = 0 THEN IF this_x(m.at) < m.dest_x THEN {} ELSE {"c1"}
                      ELSE IF this_y(m.at) < m.dest_y THEN {"c0"} ELSE {"c0", "c1"}
   IN  [lp |-> [lp EXCEPT !.in_lane[m.current_lane] = @ - 1, !.out_lane[new_lane(cv)] = @ + 1,
                          !.draws = @ + Drawn(m)],
        sent |-> {[m EXCEPT !.kind = "Departure", !.current_lane = new_lane(cv)]},
        cv |-> cv] : d \in Decisions(m)}

forward(lp, m) ==
  CASE m.kind = "Arrival" -> ArrivalMsg(lp, m)
    [] m.kind = "Departure" -> DepartureMsg(lp, m)
    [] m.kind = "Direction" -> DirectionMsg(lp, m)

reverseArrivalMsg(lp, m) ==
  IF Here(m) THEN [lp EXCEPT !.total_cars_finished = @ - 1]
  ELSE [lp EXCEPT !.total_cars_arrived = @ - 1, !.in_lane[Opposite(m.current_lane)] = @ - 1, !.draws = @ - 1]

reverseDepartureMsg(lp, m) == [lp EXCEPT !.out_lane[m.current_lane] = @ + 1, !.draws = @ - 1]

reverseDirectionMsg(lp, m, cv) ==
  [lp EXCEPT !.in_lane[m.current_lane] = @ + 1, !.out_lane[new_lane(cv)] = @ - 1, !.draws = @ - Drawn(m)]

reverse(lp, m, cv) ==
  CASE m.kind = "Arrival" -> reverseArrivalMsg(lp, m)
    [] m.kind = "Departure" -> reverseDepartureMsg(lp, m)
    [] m.kind = "Direction" -> reverseDirectionMsg(lp, m, cv)

-----------------------------------------------------------------------------
Fresh ==
  [total_cars_arrived |-> 0, total_cars_finished |-> 0, draws |-> 0,
   in_lane |-> [l \in Lane |-> 0], out_lane |-> [l \in Lane |-> 0]]

Nothing == [at |-> -1]

\* initialize() sends one arrival per car, in any lane, to any place of the end block.
Cars == UNION {{[src |-> g, id |-> i] : i \in 0..UnbalancedFactory(g) - 1} : g \in Gid}

Init ==
  /\ lps = [g \in Gid |-> Fresh]
  /\ \E f \in [Cars -> Lane \X (g_end_x..g_end_x + g_end_size - 1) \X (g_end_y..g_end_y + g_end_size - 1)] :
       messages = {[kind |-> "Arrival", at |-> c.src, car |-> c, current_lane |-> f[c][1],
                    dest_x |-> f[c][2], dest_y |-> f[c][3]] : c \in Cars}
  /\ last = Nothing

Handle(m) ==
  \E o \in forward(lps[m.at], m) :
    /\ lps' = [lps EXCEPT ![m.at] = o.lp]
    /\ messages' = (messages \ {m}) \union o.sent
    /\ last' = [at |-> m.at, msg |-> m, sent |-> o.sent, cv |-> o.cv]

RollBack ==
  /\ last # Nothing
  /\ lps' = [lps EXCEPT ![last.at] = reverse(@, last.msg, last.cv)]
  /\ messages' = (messages \ last.sent) \union {last.msg}
  /\ last' = Nothing

Next == (\E m \in messages : Handle(m)) \/ RollBack

Spec == Init /\ [][Next]_vars

-----------------------------------------------------------------------------
(***************************************************************************)
(* Properties.                                                             *)
(***************************************************************************)

\* The lanes of an intersection count the cars that wait in them, and the cars on
\* the way and those that finished are all the cars the simulation was to have,
\* however the factories spread them and whatever is rolled back.
LanesHoldTheCars ==
  /\ \A g \in Gid :
       LET here == {m \in messages : m.at = g}
       IN  \A l \in Lane :
             /\ lps[g].in_lane[l] = Cardinality({m \in here : m.kind = "Direction" /\ m.current_lane = l})
             /\ lps[g].out_lane[l] = Cardinality({m \in here : m.kind = "Departure" /\ m.current_lane = l})
  /\ Cardinality(messages) + MapThenSumSet(LAMBDA g : lps[g].total_cars_finished, Gid) = g_total_cars

\* Each reverse handler restores what its handler has changed, the number of random
\* draws included.
ReverseRestores ==
  last' # Nothing => reverse(lps'[last'.at], last'.msg, last'.cv) = lps[last'.at]
=============================================================================

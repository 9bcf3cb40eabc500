-------------------------------- MODULE PCS --------------------------------
(***************************************************************************)
(* The model of a mobile phone network (models/pcs): cells with channels,  *)
(* and portables that call and move from cell to cell.  A portable is      *)
(* always in one message, which holds the times of its next call, of its   *)
(* next move and of the end of its call.  Every handler has a reverse      *)
(* handler that must restore the cell, statistics and random numbers.      *)
(*                                                                         *)
(* Events are handled in the order of their times; the last one may be     *)
(* rolled back.  Random numbers are any of the sets below; draws counts    *)
(* them.                                                                   *)
(***************************************************************************)
EXTENDS Integers, FiniteSetsExt

CONSTANTS
  NUM_CELLS_X, NUM_CELLS_Y,                   \* the grid of cells, a torus
  NUM_VP_X, NUM_VP_Y,                         \* the grid of chares over it
  MAX_NORMAL_CHANNELS, MAX_RESERVE_CHANNELS,
  Portable, HomeCell,                         \* the portables and where each starts
  MOVE_CALL, NEXT_CALL, CALL_TIME,            \* what tw_rand_exponential() returns
  EndTime                                     \* g_tw_ts_end

Assumptions ==
  /\ {NUM_CELLS_X, NUM_CELLS_Y, NUM_VP_X, NUM_VP_Y} \subseteq Nat \ {0}
  /\ NUM_CELLS_X % NUM_VP_X = 0 /\ NUM_CELLS_Y % NUM_VP_Y = 0
  /\ {MAX_NORMAL_CHANNELS, MAX_RESERVE_CHANNELS, EndTime} \subseteq Nat
  /\ MOVE_CALL \union NEXT_CALL \union CALL_TIME \subseteq Nat \ {0}
  /\ HomeCell \in [Portable -> 0..NUM_CELLS_X * NUM_CELLS_Y - 1]

VARIABLES
  cells,    \* cells[c]: the State of cell c, and its draws
  pending,  \* events not handled yet
  last      \* the event handled last, with its bit field, wl1 and what it sent

vars == <<cells, pending, last>>

Cell == 0..NUM_CELLS_X * NUM_CELLS_Y - 1

HUGE_VAL == 1000  \* no call in progress

Direction == 0..3

Cell_ComputeMove(lpid, direction) ==
  LET x == lpid % NUM_CELLS_X
      y == lpid \div NUM_CELLS_X
      n_x == CASE direction = 0 -> (x - 1 + NUM_CELLS_X) % NUM_CELLS_X
               [] direction = 1 -> (x + 1) % NUM_CELLS_X
               [] OTHER -> x
      n_y == CASE direction = 2 -> (y - 1 + NUM_CELLS_Y) % NUM_CELLS_Y
               [] direction = 3 -> (y + 1) % NUM_CELLS_Y
               [] OTHER -> y
  IN  n_x + n_y * NUM_CELLS_X

\* The side a call and a move compete on: a tie goes to the move.
Cell_MinTS(m) ==
  IF m.CompletionCallTS < m.NextCallTS
  THEN IF m.CompletionCallTS < m.MoveCallTS THEN "COMPLETECALL" ELSE "MOVECALL"
  ELSE IF m.NextCallTS < m.MoveCallTS THEN "NEXTCALL" ELSE "MOVECALL"

-----------------------------------------------------------------------------
(***************************************************************************)
(* Mapping of cells to chares.                                             *)
(***************************************************************************)
cell_vp_x == NUM_CELLS_X \div NUM_VP_X
cell_vp_y == NUM_CELLS_Y \div NUM_VP_Y

pcs_grid_map(gid) ==
  LET x == ((gid % NUM_CELLS_X) \div cell_vp_x) % NUM_VP_X
      y == ((gid \div NUM_CELLS_X) \div cell_vp_y) % NUM_VP_Y
  IN  y * NUM_VP_X + x

pcs_local_map(gid) ==
  (((gid \div NUM_CELLS_X) % cell_vp_y) * cell_vp_x) + ((gid % NUM_CELLS_X) % cell_vp_x)

pcs_init_map(chare, local_id) ==
  LET x == ((chare % NUM_VP_X) * cell_vp_x) + (local_id % cell_vp_x)
      y == (chare \div NUM_VP_X) * cell_vp_y + local_id \div cell_vp_x
  IN  y * NUM_CELLS_X + x

-----------------------------------------------------------------------------
(***************************************************************************)
(* The loops of the handlers, each outcome with the number wl1 of turns.   *)
(***************************************************************************)
RECURSIVE Moves(_, _, _, _), Call(_, _)

\* A portable that does not call moves until it does: it ends in currentcell,
\* which is one move behind newcell, and cell 0 if there is no move.
Moves(m, newcell, currentcell, wl1) ==
  IF m.MoveCallTS < m.NextCallTS
  THEN UNION {Moves([m EXCEPT !.MoveCallTS = m.MoveCallTS + d], Cell_ComputeMove(newcell, i), newcell, wl1 + 1)
                : d \in MOVE_CALL, i \in Direction}
  ELSE {[msg |-> m, cell |-> currentcell, wl1 |-> wl1]}

Event(c, t, method, m) == [cell |-> c, ts |-> t, msg |-> [m EXCEPT !.MethodName = method]]

\* No call is in progress: the next event is the next call.
Waits(c, m) ==
  {[sent |-> Event(o.cell, o.msg.NextCallTS, "NEXTCALL", o.msg), wl1 |-> o.wl1] :
     o \in IF Cell_MinTS(m) = "NEXTCALL" THEN {[msg |-> m, cell |-> c, wl1 |-> 0]}
                                         ELSE Moves(m, c, 0, 0)}

\* A call is in progress: calls that come meanwhile find the line busy.
Call(m, wl1) ==
  IF Cell_MinTS(m) = "NEXTCALL"
  THEN UNION {Call([m EXCEPT !.NextCallTS = m.NextCallTS + d], wl1 + 1) : d \in NEXT_CALL}
  ELSE {[msg |-> m, wl1 |-> wl1]}

Talks(c, m) ==
  {[sent |-> IF Cell_MinTS(o.msg) = "COMPLETECALL"
             THEN Event(c, o.msg.CompletionCallTS, "COMPLETIONCALL", o.msg)
             ELSE Event(c, o.msg.MoveCallTS, "MOVECALLOUT", o.msg),
    wl1 |-> o.wl1] : o \in Call(m, 0)}

-----------------------------------------------------------------------------
(***************************************************************************)
(* The handlers.  Each is the set of its outcomes [state, sent, wl1, cv]   *)
(* for the state of a cell and a message; cv is the bit field.             *)
(***************************************************************************)
Outcome(s, o, cv) == [state |-> s, sent |-> o.sent, wl1 |-> o.wl1, cv |-> cv]

NORM_CH_BUSY(s) == s.Normal_Channels = 0

RESERVE_CH_BUSY(s) == s.Reserve_Channels = 0

\* A waiting portable has drawn twice a turn, a talking one once.
Waiting(c, s, m, n, cv) == {Outcome([s EXCEPT !.draws = s.draws + n + 2 * o.wl1], o, cv) : o \in Waits(c, m)}

Talking(c, s, m, n, cv) ==
  {Outcome([s EXCEPT !.draws = s.draws + n + o.wl1,
                     !.Busy_Lines = s.Busy_Lines + o.wl1,
                     !.Call_Attempts = s.Call_Attempts + o.wl1], o, cv) : o \in Talks(c, m)}

Cell_NextCall(c, s, m) ==
  LET attempt == [s EXCEPT !.Call_Attempts = s.Call_Attempts + 1]
      blocked == [attempt EXCEPT !.Channel_Blocks = s.Channel_Blocks + 1]
      taken == [attempt EXCEPT !.Normal_Channels = s.Normal_Channels - 1]
      call(d, n) == [m EXCEPT !.ChannelType = "NORMAL_CH", !.CompletionCallTS = m.NextCallTS + d,
                              !.NextCallTS = m.NextCallTS + n]
  IN  IF NORM_CH_BUSY(s)
      THEN UNION {Waiting(c, blocked, [m EXCEPT !.NextCallTS = m.NextCallTS + d], 1, {"c1"}) : d \in NEXT_CALL}
      ELSE UNION {Talking(c, taken, call(d, n), 2, {}) : d \in CALL_TIME, n \in NEXT_CALL}

Hung(m) == [m EXCEPT !.CompletionCallTS = HUGE_VAL]

Cell_CompletionCall(c, s, m) ==
  LET idle == [Hung(m) EXCEPT !.ChannelType = "NONE"]
  IN  IF m.ChannelType = "NORMAL_CH"
      THEN Waiting(c, [s EXCEPT !.Normal_Channels = s.Normal_Channels + 1], idle, 0, {"c1"})
      ELSE Waiting(c, [s EXCEPT !.Reserve_Channels = s.Reserve_Channels + 1], idle, 0, {"c2"})

\* A call that finds no channel in the new cell is dropped.
Cell_MoveCallIn(c, s, m) ==
  LET moved(d) == [m EXCEPT !.MoveCallTS = m.MoveCallTS + d]
      blocked == [s EXCEPT !.Handoff_Blocks = s.Handoff_Blocks + 1]
      normal == [s EXCEPT !.Normal_Channels = s.Normal_Channels - 1]
      reserve == [s EXCEPT !.Reserve_Channels = s.Reserve_Channels - 1]
  IN  UNION {
        IF NORM_CH_BUSY(s) /\ RESERVE_CH_BUSY(s)
        THEN Waiting(c, blocked, Hung(moved(d)), 1, {"c1", "c2"})
        ELSE IF ~NORM_CH_BUSY(s)
        THEN Talking(c, normal, [moved(d) EXCEPT !.ChannelType = "NORMAL_CH"], 1, {"c1", "c3"})
        ELSE Talking(c, reserve, [moved(d) EXCEPT !.ChannelType = "RESERVE"], 1, {"c1"}) : d \in MOVE_CALL}

Cell_MoveCallOutNormal(c, s, m) ==
  {Outcome([s EXCEPT !.Normal_Channels = s.Normal_Channels + 1, !.draws = s.draws + 1],
           [sent |-> Event(Cell_ComputeMove(c, i), m.MoveCallTS, "MOVECALLIN",
                           [m EXCEPT !.ChannelType = "NONE"]), wl1 |-> 0], {"c1", "c2"}) : i \in Direction}

Cell_MoveCallOut(c, s, m) ==
  LET left == IF m.ChannelType = "NORMAL_CH"
              THEN [s EXCEPT !.Normal_Channels = s.Normal_Channels + 1]
              ELSE [s EXCEPT !.Reserve_Channels = s.Reserve_Channels + 1]
      cv == IF m.ChannelType = "NORMAL_CH" THEN {"c1", "c2"} ELSE {"c1"}
      out == [m EXCEPT !.ChannelType = "NONE"]
  IN  {Outcome([left EXCEPT !.draws = s.draws + 1],
               [sent |-> Event(Cell_ComputeMove(c, i), m.MoveCallTS, "MOVECALLIN", out), wl1 |-> 0], cv)
         : i \in Direction}

Cell_EventHandler(c, s, m) ==
  CASE m.MethodName = "NEXTCALL" -> Cell_NextCall(c, s, m)
    [] m.MethodName = "COMPLETIONCALL" -> Cell_CompletionCall(c, s, m)
    [] m.MethodName = "MOVECALLIN" -> Cell_MoveCallIn(c, s, m)
    [] m.MethodName = "MOVECALLOUT" -> Cell_MoveCallOut(c, s, m)

-----------------------------------------------------------------------------
(***************************************************************************)
(* The reverse handlers.                                                   *)
(***************************************************************************)
Unblocked(s, wl1, n) == [s EXCEPT !.draws = s.draws - n - 2 * wl1]

Untalked(s, wl1, n) ==
  [s EXCEPT !.draws = s.draws - n - wl1, !.Busy_Lines = s.Busy_Lines - wl1,
            !.Call_Attempts = s.Call_Attempts - wl1]

RC_Cell_NextCall(s, cv, wl1) ==
  LET r == [s EXCEPT !.Call_Attempts = s.Call_Attempts - 1]
  IN  IF "c1" \in cv
      THEN [Unblocked(r, wl1, 1) EXCEPT !.Channel_Blocks = s.Channel_Blocks - 1]
      ELSE [Untalked(r, wl1, 2) EXCEPT !.Normal_Channels = s.Normal_Channels + 1]

RC_Cell_CompletionCall(s, cv, wl1) ==
  IF "c1" \in cv THEN [Unblocked(s, wl1, 0) EXCEPT !.Normal_Channels = s.Normal_Channels - 1]
                 ELSE [Unblocked(s, wl1, 0) EXCEPT !.Reserve_Channels = s.Reserve_Channels - 1]

RC_Cell_MoveCallInNormal(s, cv, wl1) ==
  IF "c2" \in cv THEN [Unblocked(s, wl1, 1) EXCEPT !.Handoff_Blocks = s.Handoff_Blocks - 1]
  ELSE [Untalked(s, wl1, 1) EXCEPT !.Normal_Channels = s.Normal_Channels + 1]

RC_Cell_MoveCallIn(s, cv, wl1) ==
  IF "c2" \in cv THEN [Unblocked(s, wl1, 1) EXCEPT !.Handoff_Blocks = s.Handoff_Blocks - 1]
  ELSE IF "c3" \in cv THEN [Untalked(s, wl1, 1) EXCEPT !.Normal_Channels = s.Normal_Channels + 1]
  ELSE [Untalked(s, wl1, 1) EXCEPT !.Reserve_Channels = s.Reserve_Channels + 1]

RC_Cell_MoveCallOut(s, cv) ==
  LET r == [s EXCEPT !.draws = s.draws - 1]
  IN  IF "c2" \in cv THEN [r EXCEPT !.Normal_Channels = s.Normal_Channels - 1]
                     ELSE [r EXCEPT !.Reserve_Channels = s.Reserve_Channels - 1]

RC_Cell_EventHandler(s, l) ==
  CASE l.event.msg.MethodName = "NEXTCALL" -> RC_Cell_NextCall(s, l.cv, l.wl1)
    [] l.event.msg.MethodName = "COMPLETIONCALL" -> RC_Cell_CompletionCall(s, l.cv, l.wl1)
    [] l.event.msg.MethodName = "MOVECALLIN" -> RC_Cell_MoveCallIn(s, l.cv, l.wl1)
    [] l.event.msg.MethodName = "MOVECALLOUT" -> RC_Cell_MoveCallOut(s, l.cv)

-----------------------------------------------------------------------------
\* Cell_StartUp gives a portable the times of its first call and first move.
Starts(c, p) ==
  {o.sent : o \in UNION {Waits(c, [MethodName |-> "NEXTCALL", CompletionCallTS |-> HUGE_VAL,
                                    NextCallTS |-> n, MoveCallTS |-> v, ChannelType |-> "NONE",
                                    portable |-> p]) : n \in NEXT_CALL, v \in MOVE_CALL}}

Fresh ==
  [Normal_Channels |-> MAX_NORMAL_CHANNELS, Reserve_Channels |-> MAX_RESERVE_CHANNELS,
   Call_Attempts |-> 0, Channel_Blocks |-> 0, Busy_Lines |-> 0, Handoff_Blocks |-> 0, draws |-> 0]

Nothing == [cell |-> -1]

Init ==
  /\ cells = [c \in Cell |-> Fresh]
  /\ \E f \in [Portable -> UNION {Starts(HomeCell[p], p) : p \in Portable}] :
       /\ \A p \in Portable : f[p] \in Starts(HomeCell[p], p)
       /\ pending = {f[p] : p \in Portable}
  /\ last = Nothing

\* The events that tw_event_new() does not replace by the abort event.
InTime(E) == {e \in E : e.ts < EndTime}

\* The first event is handled by its cell.
forward(e) ==
  /\ \A d \in pending : e.ts <= d.ts
  /\ \E o \in Cell_EventHandler(e.cell, cells[e.cell], e.msg) :
       /\ cells' = [cells EXCEPT ![e.cell] = o.state]
       /\ pending' = (pending \ {e}) \union InTime({o.sent})
       /\ last' = [cell |-> e.cell, event |-> e, sent |-> o.sent, cv |-> o.cv, wl1 |-> o.wl1]

\* The last event is rolled back, and what it sent is cancelled.
reverse ==
  /\ last # Nothing
  /\ cells' = [cells EXCEPT ![last.cell] = RC_Cell_EventHandler(cells[last.cell], last)]
  /\ pending' = (pending \ {last.sent}) \union {last.event}
  /\ last' = Nothing

Next == (\E e \in InTime(pending) : forward(e)) \/ reverse

Spec == Init /\ [][Next]_vars
-----------------------------------------------------------------------------
(***************************************************************************)
(* Properties.                                                             *)
(***************************************************************************)

Talkers(c, type) ==
  {e \in pending : e.cell = c /\ e.msg.ChannelType = type
                   /\ e.msg.MethodName \in {"COMPLETIONCALL", "MOVECALLOUT"}}

\* Over calls, dropped calls, moves during calls and rollbacks, no channel of a
\* cell is lost and none is given twice: until calls outlast the simulation, the
\* free ones and the calls in progress add up (APP_ERROR(3) of CompletionCall).
ChannelsAccounted ==
  LET all == Cardinality(pending) = Cardinality(Portable)
  IN  \A c \in Cell :
        LET normal == cells[c].Normal_Channels + Cardinality(Talkers(c, "NORMAL_CH"))
            reserve == cells[c].Reserve_Channels + Cardinality(Talkers(c, "RESERVE"))
        IN  /\ normal <= MAX_NORMAL_CHANNELS /\ reserve <= MAX_RESERVE_CHANNELS
            /\ all => normal = MAX_NORMAL_CHANNELS /\ reserve = MAX_RESERVE_CHANNELS
            /\ cells[c].Normal_Channels >= 0 /\ cells[c].Reserve_Channels >= 0

\* Each reverse handler restores what its handler has changed in the cell, the
\* statistics and the number of random draws included.
ReverseRestores ==
  last' # Nothing => RC_Cell_EventHandler(cells'[last'.cell], last') = cells[last'.cell]

\* The three maps of cells agree: a cell is where an event for it is sent.
MapsAgree ==
  \A gid \in Cell : pcs_init_map(pcs_grid_map(gid), pcs_local_map(gid)) = gid
=============================================================================

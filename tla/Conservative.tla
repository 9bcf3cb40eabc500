---------------------------- MODULE Conservative ----------------------------
(***************************************************************************)
(* The ConservativeScheduler (scheduler/conservative.C) with the path of   *)
(* an event through LPChare when nothing is ever undone.                   *)
(*                                                                         *)
(* Each execute() runs the events of its PE that lie within g_tw_lookahead *)
(* of the GVT and then waits for the next GVT: gvt_trigger is a            *)
(* ConstTrigger, and gvt_resume() does nothing in this scheduler.  The GVT *)
(* is an oracle.  Since no PE runs while one is computed, SyncGVT (at      *)
(* quiescence), PhaseGVT and CdGVT (when the phase is complete) all give   *)
(* the minimum of get_min_time() with nothing in flight.                   *)
(*                                                                         *)
(* Events of one time and destination are counted, not named: SimModel     *)
(* sends the same whichever of them comes first.                           *)
(***************************************************************************)
EXTENDS SimModel

CONSTANTS
  Home,       \* Home[c]: the PE that c lives on
  Lookahead   \* g_tw_lookahead

\* TW_ASSERT in tw_event_send(): no offset is shorter than the lookahead.
Assumptions ==
  /\ Home \in [Chare -> PE]
  /\ Lookahead \in Nat \ {0}
  /\ \A c \in Chare, s \in LPState, t \in EventTime : \A x \in Sends(c, s, t) : x[2] >= Lookahead

VARIABLES
  chare,     \* chare[c]: pending events and executed ones, by time, and the LP state
  net,       \* net[c][t]: recv_remote_event messages for c in flight
  mode,      \* mode[p]: what the scheduler of p does
  gvt,       \* the last GVT computed
  g_last_gvt \* g_last_gvt[p]: the last GVT p has been told

vars == <<chare, net, mode, gvt, g_last_gvt>>

\* execute() is in flight; in its loop; in gvt_begin() until the GVT is there;
\* gvt_done() is in flight; end_simulation() was called.
Mode == {"resumed", "executing", "waiting", "told", "over"}

Counts == [EventTime -> Nat]

LPChare == [events : Counts, executed : Counts, state : LPState]

NoEvents == [t \in EventTime |-> 0]

Init ==
  /\ chare = [c \in Chare |->
       [events |-> [t \in EventTime |-> IF t \in Initial(c) THEN 1 ELSE 0],
        executed |-> NoEvents, state |-> 0]]
  /\ net = [c \in Chare |-> NoEvents]
  /\ mode = [p \in PE |-> "resumed"]
  /\ gvt = 0
  /\ g_last_gvt = [p \in PE |-> 0]

-----------------------------------------------------------------------------
\* events.min(), the token of the chare in next_lps; EndTime is TIME_MAX.
Token(c) == Min({t \in EventTime : chare[c].events[t] > 0} \union {EndTime})

ChareOn(p) == {c \in Chare : Home[c] = p}

get_min_time(p) == Min({Token(c) : c \in ChareOn(p)} \union {EndTime})

\* The loop condition, and that schedule_next_lp() finds an event.
WithinLookaheadInclusive(p) ==
  get_min_time(p) < EndTime /\ get_min_time(p) <= g_last_gvt[p] + Lookahead

WithinLookahead(p) ==
  get_min_time(p) < EndTime /\ get_min_time(p) < g_last_gvt[p] + Lookahead

execute(p) ==
  /\ mode[p] = "resumed"
  /\ mode' = [mode EXCEPT ![p] = "executing"]
  /\ UNCHANGED <<chare, net, gvt, g_last_gvt>>

\* How many events for d at time u an event of c at time t sends.
Sending(c, t, d, u) == IF <<d, u - t>> \in Sends(c, chare[c].state, t) THEN 1 ELSE 0

\* execute_me(): the event is executed and committed; what it sends to its own
\* chare is pending at once, what it sends elsewhere is in flight.
execute_me(c, t) ==
  /\ chare' = [chare EXCEPT ![c] =
       [events |-> [u \in EventTime |->
                      chare[c].events[u] - (IF u = t THEN 1 ELSE 0) + Sending(c, t, c, u)],
        executed |-> [chare[c].executed EXCEPT ![t] = @ + 1],
        state |-> forward_state(chare[c].state)]]
  /\ net' = [d \in Chare |->
               IF d = c THEN net[c] ELSE [u \in EventTime |-> net[d][u] + Sending(c, t, d, u)]]

schedule_next_lp(p) ==
  /\ mode[p] = "executing"
  /\ WithinLookahead(p)
  /\ \E c \in ChareOn(p) : Token(c) = get_min_time(p) /\ execute_me(c, Token(c))
  /\ UNCHANGED <<mode, gvt, g_last_gvt>>

\* iteration_done() calls gvt_begin() after every execute().
iteration_done(p) ==
  /\ mode[p] = "executing"
  /\ ~WithinLookahead(p)
  /\ mode' = [mode EXCEPT ![p] = "waiting"]
  /\ UNCHANGED <<chare, net, gvt, g_last_gvt>>

\* Messages are delivered between entry methods, never inside execute().
recv_remote_event(c, t) ==
  /\ mode[Home[c]] # "executing"
  /\ net[c][t] > 0
  /\ net' = [net EXCEPT ![c][t] = @ - 1]
  /\ chare' = [chare EXCEPT ![c].events[t] = @ + 1]
  /\ UNCHANGED <<mode, gvt, g_last_gvt>>

gvt_computed ==
  /\ \A p \in PE : mode[p] = "waiting"
  /\ \A c \in Chare : net[c] = NoEvents
  /\ gvt' = Min({get_min_time(p) : p \in PE})
  /\ mode' = [p \in PE |-> "told"]
  /\ UNCHANGED <<chare, net, g_last_gvt>>

gvt_done(p) ==
  /\ mode[p] = "told"
  /\ g_last_gvt' = [g_last_gvt EXCEPT ![p] = gvt]
  /\ mode' = [mode EXCEPT ![p] = IF gvt >= EndTime THEN "over" ELSE "resumed"]
  /\ UNCHANGED <<chare, net, gvt>>

Next ==
  \/ \E p \in PE : execute(p) \/ schedule_next_lp(p) \/ iteration_done(p) \/ gvt_done(p)
  \/ \E c \in Chare, t \in EventTime : recv_remote_event(c, t)
  \/ gvt_computed

Spec == Init /\ [][Next]_vars

-----------------------------------------------------------------------------
TypeOK ==
  /\ chare \in [Chare -> LPChare]
  /\ net \in [Chare -> Counts]
  /\ mode \in [PE -> Mode]
  /\ gvt \in Time
  /\ g_last_gvt \in [PE -> Time]

\* Nothing is rolled back in this scheduler, and recv_local_event() does not look:
\* what is still to be executed is never earlier than what its chare has executed,
\* and what is still in flight is later (of events of one time, the heap takes them
\* in a fixed order, if it has them all).
NothingComesTooLate ==
  \A c \in Chare, t, u \in EventTime :
    chare[c].executed[u] > 0 =>
      /\ chare[c].events[t] > 0 => u <= t
      /\ net[c][t] > 0 => u < t

\* So below the GVT every chare has executed what the sequential run executes.
ExecutesInOrder ==
  /\ NothingComesTooLate
  /\ \A c \in Chare, t \in EventTime : t < gvt => chare[c].executed[t] = SequentialRun[gvt][c][t]

\* The events in flight to chares of p for time t.
InFlight(p, t) == UNION {{c} \X (1..net[c][t]) : c \in ChareOn(p)}

VT == INSTANCE VirtualTime WITH
        low <- [p \in PE |-> get_min_time(p)],
        net <- [p \in PE |-> [t \in EventTime |-> Cardinality(InFlight(p, t))]],
        gvt <- g_last_gvt

\* The conservative engine, with the GVT it waits for, keeps the contract too: its
\* minimum only goes back for a message, and what it sends is not earlier.
ImplementsVirtualTime == VT!Spec
=============================================================================

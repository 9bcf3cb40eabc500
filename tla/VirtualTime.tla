---------------------------- MODULE VirtualTime ----------------------------
(***************************************************************************)
(* What the schedulers and the GVT managers of Charades promise one        *)
(* another, with no algorithm in it.                                       *)
(*                                                                         *)
(* A scheduler promises that the time get_min_time() reports for its PE    *)
(* only goes back when a message with an earlier timestamp or a chare with *)
(* earlier work arrives, and that it sends nothing below the time of what  *)
(* it is working on.  A GVT manager promises that the GVT it passes to     *)
(* gvt_done() never goes back and never passes an event that is still to   *)
(* be executed or cancelled, on whatever PE or in whatever message that    *)
(* event is: this is what lets fossil_me() commit events and free the      *)
(* memory that undoes them.                                                *)
(***************************************************************************)
EXTENDS SimTime

VARIABLES
  low,  \* low[p]: time of p's earliest unprocessed event or pending cancellation
  net,  \* net[p][t]: messages for p with timestamp t in flight
  gvt   \* gvt[p]: the last GVT p has been told (g_last_gvt)

vars == <<low, net, gvt>>

Init ==
  /\ low \in [PE -> Time]
  /\ net \in Flights
  /\ gvt = [p \in PE |-> 0]

\* Whatever is in flight after the step and was not before carries a time >= f.
SendsFrom(f, before) ==
  /\ net' \in Flights
  /\ \A q \in PE, t \in EventTime :
       /\ net'[q][t] >= before[q][t]
       /\ net'[q][t] > before[q][t] => t >= f

\* p's minimum is now some time >= f.
MinimumFrom(p, f) ==
  /\ low' \in [PE -> Time]
  /\ low'[p] >= f
  /\ \A q \in PE \ {p} : low'[q] = low[q]

\* One execute() of p: events run forward and cancellations are carried out.
Work(p) ==
  /\ MinimumFrom(p, low[p])
  /\ SendsFrom(low[p], net)
  /\ UNCHANGED gvt

\* An event or anti-event arrives at p; a straggler rolls p back, which may
\* send anti-events for what the undone events had caused.
Receive(p, t) ==
  /\ net[p][t] > 0
  /\ LET f == Earlier(low[p], t)
     IN  MinimumFrom(p, f) /\ SendsFrom(f, Take(net, p, t))
  /\ UNCHANGED gvt

\* p is told a new GVT.
Commit(p) ==
  /\ \E g \in Time :
       /\ g >= gvt[p]
       /\ IsFloor(g, low, net)
       /\ gvt' = [gvt EXCEPT ![p] = g]
  /\ UNCHANGED <<low, net>>

\* Load balancing moves chares, and the messages for them, to other PEs.
Migrate ==
  /\ low' \in [PE -> Time]
  /\ \A p \in PE : \E q \in PE : low[q] <= low'[p]
  /\ net' \in Flights
  /\ \A p \in PE, t \in EventTime : net'[p][t] > 0 => \E q \in PE : net[q][t] > 0
  /\ UNCHANGED gvt

Next ==
  \/ Migrate
  \/ \E p \in PE : Work(p) \/ Commit(p)
  \/ \E p \in PE, t \in EventTime : Receive(p, t)

Spec == Init /\ [][Next]_vars

-----------------------------------------------------------------------------
TypeOK ==
  /\ low \in [PE -> Time]
  /\ net \in Flights
  /\ gvt \in [PE -> Time]

\* No PE has been told a GVT later than an event that can still be executed
\* or cancelled anywhere (the reason fossil collection is safe).
GVTIsFloor == \A p \in PE : IsFloor(gvt[p], low, net)
=============================================================================

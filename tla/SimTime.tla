------------------------------ MODULE SimTime ------------------------------
(***************************************************************************)
(* Virtual time and the processing elements (PEs) of a Charades run.       *)
(*                                                                         *)
(* Time is a uint64_t in the source (typedefs.h) with TIME_MAX standing    *)
(* for "no event".  No event is ever created at or past g_tw_ts_end (the   *)
(* abort event takes its place), so every time from g_tw_ts_end up to      *)
(* TIME_MAX is told apart from none other: EndTime stands for all of them. *)
(***************************************************************************)
EXTENDS Integers

CONSTANTS
  PE,       \* the processing elements; each has one scheduler and one GVT manager
  Root,     \* CkMyPe() == 0
  EndTime   \* g_tw_ts_end, and TIME_MAX

ASSUME RootAssumption == Root \in PE
ASSUME EndTimeAssumption == EndTime \in Nat \ {0}

Time == 0..EndTime

\* The timestamps an event can carry.
EventTime == 0..(EndTime - 1)

Earlier(s, t) == IF s <= t THEN s ELSE t

\* The result of a min reduction over one value per PE.
MinOver(f) == CHOOSE m \in Time : (\E p \in PE : f[p] = m) /\ (\A p \in PE : m <= f[p])

\* Messages in flight: how many there are for each PE at each timestamp.
\* Charm++ delivers them in any order, each exactly once.
Flights == [PE -> [EventTime -> Nat]]

NothingInFlight(n) == \A p \in PE, t \in EventTime : n[p][t] = 0

\* S is the set of <<destination, timestamp>> pairs of the messages added.
Put(n, S) ==
  [p \in PE |-> [t \in EventTime |-> IF <<p, t>> \in S THEN n[p][t] + 1 ELSE n[p][t]]]

Take(n, p, t) == [n EXCEPT ![p] = [n[p] EXCEPT ![t] = n[p][t] - 1]]

\* Chares change PEs: where the earliest of their work lies may change, not when.
Redistributed(lows, lows2) == MinOver(lows2) = MinOver(lows)

\* g bounds from below every unprocessed event, held or in flight.
IsFloor(g, lows, n) ==
  /\ \A p \in PE : g <= lows[p]
  /\ \A p \in PE, t \in EventTime : n[p][t] > 0 => g <= t
=============================================================================

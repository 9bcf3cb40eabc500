------------------------------ MODULE TimeWarp ------------------------------
(***************************************************************************)
(* The optimistic engine: LPChare (simcore/lp.C), the sending and undoing  *)
(* of events (simcore/event.C) and the OptimisticScheduler of each PE.     *)
(*                                                                         *)
(* A chare executes its pending events speculatively.  A straggler rolls   *)
(* it back, an anti-event cancels one event, and both may send anti-events *)
(* in turn; when a GVT passes an event, fossil_me() commits it for good.   *)
(* The GVT itself is an oracle here: any floor of what is unprocessed, as  *)
(* VirtualTime requires of a GVT manager.                                  *)
(***************************************************************************)
EXTENDS SimModel, Sequences

CONSTANTS
  Home,    \* Home[c]: the PE that c lives on
  MBlock   \* g_tw_mblock: events one execute() runs at most

ASSUME HomeAssumption == Home \in [Chare -> PE]
ASSUME MBlockAssumption == MBlock \in Nat \ {0}

VARIABLES
  chare,       \* chare[c]: the LPChare c, a record
  net,         \* recv_remote_event and recv_anti_event messages in flight
  batch,       \* batch[p]: events run by the execute() under way on p, if any
  gvt,         \* the last GVT computed
  g_last_gvt,  \* g_last_gvt[p]: the last GVT p has been told
  committed    \* committed[c][t]: events of time t that c has committed

vars == <<chare, net, batch, gvt, g_last_gvt, committed>>

\* An event.  The id tells apart the events of one source, destination and time.
Event == [src : Chare, dest : Chare, ts : EventTime, id : Nat]

Remote(e) == e.src # e.dest

\* An entry of the processed queue: the event, the LP state it found and the
\* events on its caused_by_me list.
Entry == [event : Event, before : LPState, caused : SUBSET Event]

(***************************************************************************)
(* A chare: pending heap (events), processed queue (newest first), the     *)
(* cancel queue, the anti-events in the AVL tree all_events that still     *)
(* wait for their event, the time of next_token in the scheduler's queue,  *)
(* the LP state, and current_time.  The other keys of all_events are the   *)
(* remote events held and not in the cancel queue (Cancellable).           *)
(***************************************************************************)
LPChare ==
  [events : SUBSET Event, processed : Seq(Entry), cancel_q : SUBSET Event,
   antis : SUBSET Event, token : Time, state : LPState, current_time : Time]

Message == [kind : {"event", "anti"}, event : Event]

Positive(e) == [kind |-> "event", event |-> e]
Anti(e) == [kind |-> "anti", event |-> e]

MinTime(S) == IF S = {} THEN EndTime ELSE Min({e.ts : e \in S})

Processed(h) == {h.processed[i].event : i \in DOMAIN h.processed}

Held(h) == h.events \union Processed(h)

Cancellable(h) == {e \in Held(h) \ h.cancel_q : Remote(e)}

\* scheduler->update_next(&next_token, events.min()).
update_next(h) == [h EXCEPT !.token = MinTime(h.events)]

TypeOK ==
  /\ chare \in [Chare -> LPChare]
  /\ net \subseteq Message
  /\ batch \in [PE -> 0..MBlock]
  /\ gvt \in Time
  /\ g_last_gvt \in [PE -> Time]
  /\ committed \in [Chare -> [EventTime -> Nat]]

Init ==
  /\ chare = [c \in Chare |-> update_next(
       [events |-> {[src |-> c, dest |-> c, ts |-> t, id |-> 0] : t \in Initial(c)},
        processed |-> << >>, cancel_q |-> {}, antis |-> {}, token |-> EndTime,
        state |-> 0, current_time |-> 0])]
  /\ net = {}
  /\ batch = [p \in PE |-> 0]
  /\ gvt = 0
  /\ g_last_gvt = [p \in PE |-> 0]
  /\ committed = [c \in Chare |-> [t \in EventTime |-> 0]]

-----------------------------------------------------------------------------
(***************************************************************************)
(* Executing events.                                                       *)
(***************************************************************************)

\* Every event something still refers to.
Known ==
  {m.event : m \in net} \union
  UNION {Held(chare[c]) \union chare[c].antis
         \union UNION {chare[c].processed[i].caused : i \in DOMAIN chare[c].processed}
         : c \in Chare}

get_next_event_idRolledBack(c, d, t) == 0

\* get_next_event_id() never returns an id twice; here, none still in use.
get_next_event_id(c, d, t) ==
  LET used == {e.id : e \in {k \in Known : k.src = c /\ k.dest = d /\ k.ts = t}}
  IN  Min((0..Cardinality(used)) \ used)

\* What forward() sends from c at time t in state s; the abort event stands
\* for everything at or past the end.
Sent(c, s, t) ==
  {[src |-> c, dest |-> x[1], ts |-> t + x[2], id |-> get_next_event_id(c, x[1], t + x[2])]
     : x \in {y \in Sends(c, s, t) : t + y[2] < EndTime}}

execute_me(c) ==
  LET h == chare[c] IN
  \E e \in h.events :
    /\ e.ts = MinTime(h.events)
    /\ LET sent == Sent(c, h.state, e.ts)
       IN  /\ chare' = [chare EXCEPT ![c] = update_next(
                [h EXCEPT !.events = (h.events \ {e}) \union {k \in sent : ~Remote(k)},
                          !.processed = <<[event |-> e, before |-> h.state, caused |-> sent]>>
                                        \o h.processed,
                          !.state = forward_state(h.state),
                          !.current_time = e.ts])]
           /\ net' = net \union {Positive(k) : k \in {k \in sent : Remote(k)}}

ChareOn(p) == {c \in Chare : Home[c] = p}

\* next_lps.top(): a chare whose token is the earliest; any, if several are.
Top(p) == {c \in ChareOn(p) : \A d \in ChareOn(p) : chare[c].token <= chare[d].token}

\* OptimisticScheduler::get_min_time: what p contributes to a GVT.
get_min_time(p) ==
  Earlier(Min({chare[c].token : c \in ChareOn(p)} \union {EndTime}),
          MinTime(UNION {chare[c].cancel_q : c \in ChareOn(p)}))

RoomInBlock(p) == batch[p] < MBlock

\* One turn of the loop in OptimisticScheduler::execute().
schedule_next_lp(p) ==
  /\ RoomInBlock(p)
  /\ \E c \in Top(p) : execute_me(c)
  /\ batch' = [batch EXCEPT ![p] = batch[p] + 1]
  /\ UNCHANGED <<gvt, g_last_gvt, committed>>

(***************************************************************************)
(* Undoing events.  Undone(h, n) rolls back the n newest entries: their    *)
(* events are pending again, what they sent to their own chare is deleted  *)
(* from there, and Antis(h, n) are the anti-events for what left it.       *)
(***************************************************************************)
CausedBy(h, n) == UNION {h.processed[i].caused : i \in 1..n}

LocalChildren(h, n) == {k \in CausedBy(h, n) : ~Remote(k)}

StateNotReversed(h, n) == h.state

\* reverse() on each of them, or the checkpoint of the oldest.
StateBefore(h, n) == IF n = 0 THEN h.state ELSE h.processed[n].before

Undone(h, n, g) ==
  LET rest == SubSeq(h.processed, n + 1, Len(h.processed))
  IN  [h EXCEPT !.events = (h.events \union {h.processed[i].event : i \in 1..n}) \ LocalChildren(h, n),
                !.processed = rest,
                !.state = StateBefore(h, n),
                !.current_time = IF rest = << >> THEN g ELSE rest[1].event.ts]

Antis(h, n) == {Anti(k) : k \in {k \in CausedBy(h, n) : Remote(k)}}

UndoneSinceOneShort(h, ts) ==
  LET kept == {i \in DOMAIN h.processed : h.processed[i].event.ts < ts}
  IN  IF kept = {} THEN Max({Len(h.processed) - 1, 0}) ELSE Max({Min(kept) - 2, 0})

\* rollback_me(ts) undoes from the front up to the first event before ts.
UndoneSince(h, ts) ==
  LET kept == {i \in DOMAIN h.processed : h.processed[i].event.ts < ts}
  IN  IF kept = {} THEN Len(h.processed) ELSE Min(kept) - 1

UndoneToCancelOvershooting(h) == IF h.cancel_q = {} THEN 0 ELSE Len(h.processed)

\* process_cancel_q() undoes down to the oldest cancelled event.
UndoneToCancel(h) ==
  LET cancelled == {i \in DOMAIN h.processed : h.processed[i].event \in h.cancel_q}
  IN  IF cancelled = {} THEN 0 ELSE Max(cancelled)

process_cancel_qNever(h, g) == h

\* LPChare::process_cancel_q: in whatever order the queue is taken, the oldest
\* cancelled event is rolled back to and each cancelled event is deleted.
process_cancel_q(h, g) ==
  LET n == UndoneToCancel(h)
      u == IF n = 0 THEN h ELSE Undone(h, n, g)
  IN  IF h.cancel_q = {} THEN h
      ELSE update_next([u EXCEPT !.events = u.events \ h.cancel_q, !.cancel_q = {}])

\* The end of execute(): the block is full or the next chare has nothing.
end_iteration(p) ==
  /\ batch[p] = MBlock \/ \E c \in Top(p) : chare[c].events = {}
  /\ batch[p] > 0 \/ \E c \in ChareOn(p) : chare[c].cancel_q # {}
  /\ chare' = [c \in Chare |-> IF Home[c] = p THEN process_cancel_q(chare[c], g_last_gvt[p])
                                              ELSE chare[c]]
  /\ net' = net \union UNION {Antis(chare[c], UndoneToCancel(chare[c])) : c \in ChareOn(p)}
  /\ batch' = [batch EXCEPT ![p] = 0]
  /\ UNCHANGED <<gvt, g_last_gvt, committed>>

-----------------------------------------------------------------------------
(***************************************************************************)
(* Receiving events and anti-events.                                       *)
(***************************************************************************)

\* recv_local_event: the token follows the event, then a rollback sets it to
\* the earliest pending event, and only then is the event pushed.
recv_local_event(c, e) ==
  LET h == chare[c]
      n == UndoneSince(h, e.ts)
      first == [h EXCEPT !.token = IF e.ts < MinTime(h.events) THEN e.ts ELSE h.token]
      back == update_next(Undone(h, n, g_last_gvt[Home[c]]))
  IN  IF e.ts <= h.current_time
      THEN /\ chare' = [chare EXCEPT ![c] = [back EXCEPT !.events = back.events \union {e}]]
           /\ net' = (net \ {Positive(e)}) \union Antis(h, n)
      ELSE /\ chare' = [chare EXCEPT ![c] = [first EXCEPT !.events = h.events \union {e}]]
           /\ net' = net \ {Positive(e)}

AnnihilatesNothing(h, e) == FALSE

\* A key of e in all_events is its anti-event, already here.
Annihilates(h, e) == e \in h.antis

recv_remote_event(c, e) ==
  /\ Positive(e) \in net /\ e.dest = c
  /\ batch[Home[c]] = 0
  /\ IF Annihilates(chare[c], e)
     THEN /\ chare' = [chare EXCEPT ![c].antis = chare[c].antis \ {e}]
          /\ net' = net \ {Positive(e)}
     ELSE recv_local_event(c, e)
  /\ UNCHANGED <<batch, gvt, g_last_gvt, committed>>

\* cancel_event: a pending event is deleted at once, a processed one waits in
\* the cancel queue for the end of the next execute().
cancel_event(h, e) ==
  IF e \in h.events THEN update_next([h EXCEPT !.events = h.events \ {e}])
                    ELSE [h EXCEPT !.cancel_q = h.cancel_q \union {e}]

recv_anti_event(c, e) ==
  /\ Anti(e) \in net /\ e.dest = c
  /\ batch[Home[c]] = 0
  /\ chare' = [chare EXCEPT ![c] =
       IF e \in Cancellable(chare[c]) THEN cancel_event(chare[c], e)
       ELSE [chare[c] EXCEPT !.antis = chare[c].antis \union {e}]]
  /\ net' = net \ {Anti(e)}
  /\ UNCHANGED <<batch, gvt, g_last_gvt, committed>>

-----------------------------------------------------------------------------
(***************************************************************************)
(* The GVT and the commit of what it has passed.                           *)
(***************************************************************************)

\* The time of p's earliest pending or cancelled event.
Low(p) == MinTime(UNION {chare[c].events \union chare[c].cancel_q : c \in ChareOn(p)})

Floor == Min({Low(p) : p \in PE} \union {m.event.ts : m \in net} \union {EndTime})

\* A GVT manager computes some floor, once every PE has been told the last one.
compute_gvt ==
  /\ \A p \in PE : g_last_gvt[p] = gvt
  /\ \E g \in (gvt + 1)..Floor : gvt' = g
  /\ UNCHANGED <<chare, net, batch, g_last_gvt, committed>>

\* fossil_me: the entries before g, at the back of the processed queue.
Fossils(h, g) == {i \in DOMAIN h.processed : \A j \in i..Len(h.processed) : h.processed[j].event.ts < g}

fossil_me(h, g) ==
  [h EXCEPT !.processed = SubSeq(h.processed, 1, Len(h.processed) - Cardinality(Fossils(h, g)))]

\* OptimisticScheduler::gvt_done, which collects fossils first.
gvt_done(p) ==
  /\ batch[p] = 0
  /\ g_last_gvt[p] < gvt
  /\ g_last_gvt' = [g_last_gvt EXCEPT ![p] = gvt]
  /\ chare' = [c \in Chare |-> IF Home[c] = p THEN fossil_me(chare[c], gvt) ELSE chare[c]]
  /\ committed' = [c \in Chare |-> [t \in EventTime |-> committed[c][t] +
       IF Home[c] = p
       THEN Cardinality({i \in Fossils(chare[c], gvt) : chare[c].processed[i].event.ts = t})
       ELSE 0]]
  /\ UNCHANGED <<net, batch, gvt>>

\* end_simulation() has run on every PE.
over ==
  /\ \A p \in PE : g_last_gvt[p] = EndTime
  /\ UNCHANGED vars

Next ==
  \/ \E p \in PE : schedule_next_lp(p) \/ end_iteration(p) \/ gvt_done(p)
  \/ \E m \in net : recv_remote_event(m.event.dest, m.event)
  \/ \E m \in net : recv_anti_event(m.event.dest, m.event)
  \/ compute_gvt
  \/ over

Spec == Init /\ [][Next]_vars

\* Each PE goes on executing, Charm++ delivers every message, and a GVT that
\* has risen is computed and announced.
Fairness ==
  /\ \A p \in PE : /\ WF_vars(schedule_next_lp(p))
                   /\ WF_vars(end_iteration(p))
                   /\ WF_vars(gvt_done(p))
  /\ \A c \in Chare, t \in EventTime :
       WF_vars(\E m \in net : m.event.ts = t /\ \/ recv_remote_event(c, m.event)
                                                 \/ recv_anti_event(c, m.event))
  /\ WF_vars(compute_gvt)

FairSpec == Spec /\ Fairness
-----------------------------------------------------------------------------
(***************************************************************************)
(* Properties.                                                             *)
(***************************************************************************)

\* What the engine has committed is exactly what the sequential scheduler
\* executes before the GVT its PE was told: no event lost, duplicated, or run
\* in the wrong state, whatever was rolled back and cancelled on the way.
CommittedIsSequential ==
  \A c \in Chare : LET g == g_last_gvt[Home[c]] IN
    \A t \in EventTime :
      committed[c][t] = IF t < g THEN SequentialRun[EndTime][c][t] ELSE 0

\* An anti-event always has its event to meet: one that is in flight or held,
\* uncancelled; once it waits in the cancel queue its event is still held, so
\* the CkAbort branches of cancel_event() and process_cancel_q() are dead.
AntisMeetTheirEvent ==
  \A c \in Chare : LET h == chare[c] IN
    /\ h.cancel_q \subseteq Held(h)
    /\ \A e \in h.antis : Positive(e) \in net
    /\ \A m \in net : m.kind = "anti" /\ m.event.dest = c =>
         /\ Positive(m.event) \in net <=> m.event \notin Cancellable(h)
         /\ m.event \notin h.antis \union h.cancel_q

\* A sent event is claimed by a processed entry of its sender or cancelled,
\* never both: no anti-event is sent twice and none is sent for an event that
\* is kept (tw_event_rollback unlinks caused_by_me as it cancels).
ClaimedOrCancelled ==
  \A c \in Chare : \A i \in DOMAIN chare[c].processed :
    \A k \in chare[c].processed[i].caused :
      LET h == chare[k.dest] IN
      /\ Anti(k) \notin net /\ k \notin h.antis \union h.cancel_q
      /\ Positive(k) \in net \/ k \in Held(h) \/ k.ts < g_last_gvt[Home[k.dest]]
      /\ ~Remote(k) => k \in h.events \/ \E j \in 1..(i - 1) : h.processed[j].event = k

\* A cancelled event is rolled back before any GVT can commit it, and what is
\* left to undo is in timestamp order (rollback_me and fossil_me stop at the
\* first entry that is out of their range).
NothingCancelledCommits ==
  /\ TypeOK
  /\ \A c \in Chare : LET h == chare[c] IN
       /\ \A e \in h.cancel_q \union h.events : e.ts >= g_last_gvt[Home[c]]
       /\ \A i, j \in DOMAIN h.processed : i < j => h.processed[i].event.ts >= h.processed[j].event.ts

\* "Return the time of the minimum unexecuted event on this PE" (scheduler.C,
\* Scheduler::get_min_time, which a PE contributes between two executions).
MinTimeIsEarliest == \A p \in PE : batch[p] = 0 => get_min_time(p) <= Low(p)

\* The engine keeps its half of the contract with the GVT managers.
VT == INSTANCE VirtualTime WITH
        low <- [p \in PE |-> Low(p)],
        net <- [p \in PE |-> [t \in EventTime |->
                  Cardinality({m \in net : Home[m.event.dest] = p /\ m.event.ts = t})]],
        gvt <- g_last_gvt

ImplementsVirtualTime == VT!Spec

\* Rollbacks and cancellations die out: the GVT reaches the end everywhere.
Terminates == <>(\A p \in PE : g_last_gvt[p] = EndTime)
=============================================================================

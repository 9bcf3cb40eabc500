--------------------------- MODULE ChareMigration ---------------------------
(***************************************************************************)
(* One optimistic LPChare with the data structures it really keeps, and    *)
(* its migration between PEs (simcore/lp_pup.C, simcore/event_pup.C).      *)
(*                                                                         *)
(* Where TimeWarp has sets, there are here the heap of pending events, the *)
(* list of processed events, the list of the events each one has caused,   *)
(* the cancel queue and the AVL tree.  The pointers between them are lost  *)
(* when the chare is packed; what is packed for them are flags and indices *)
(* of events, from which the lists and the tree are built again.           *)
(***************************************************************************)
EXTENDS Naturals, Sequences, SequencesExt

CONSTANTS
  Event,       \* the events, numbered in the order that breaks ties
  Ts(_),       \* the timestamp of an event
  Lp(_),       \* the LP of this chare an event is for
  Sends(_),    \* the events that the handler of an event sends, in order
  Local,       \* the events for this chare; the others are for other chares
  EndTime,     \* g_tw_ts_end, later than every event
  IndexRange   \* 2^8: how many values Event::index has

\* An event is later than the one whose handler sends it, and sent by one only.
Assumptions ==
  /\ Local \subseteq Event
  /\ \A e \in Event : \A k \in ToSet(Sends(e)) : Ts(e) < Ts(k)
  /\ \A d, e \in Event : d # e => ToSet(Sends(d)) \intersect ToSet(Sends(e)) = {}

VARIABLE chare

Heap == INSTANCE PendingHeap WITH pending <- chare.events
Tree == INSTANCE AvlTree WITH
          Key <- Event, MaxNodes <- Cardinality(Event), all_events <- chare.all_events

Children(e) == ToSet(Sends(e))

\* The events that come from other chares.
Arriving == Local \ UNION {Children(e) : e \in Event}

Time == 0..EndTime

(***************************************************************************)
(* events is the heap, with the field index of all events; caused[e] is    *)
(* caused_by_me of e; processed and cancel_q are lists, newest first.      *)
(***************************************************************************)
TypeOK == [chare EXCEPT !.all_events = << >>] \in
  [events : [elems : Seq(Local), index : [Event -> 0..IndexRange - 1]],
   processed : Seq(Local), caused : [Event -> Seq(Event)], all_events : {<< >>},
   cancel_q : Seq(Local), min_cancel_q : Time, gvt : Time]

Init ==
  chare = [events |-> [elems |-> << >>, index |-> [e \in Event |-> 0]],
           processed |-> << >>, caused |-> [e \in Event |-> << >>],
           cancel_q |-> << >>, min_cancel_q |-> EndTime,
           all_events |-> [tree |-> Tree!AVL_EMPTY, flagged |-> {}, free |-> Cardinality(Event)],
           gvt |-> 0]

Held(h) == ToSet(h.events.elems) \union ToSet(h.processed)

IsPending(h, e) == e \in ToSet(h.events.elems)

-----------------------------------------------------------------------------
push(h, e) == [h EXCEPT !.events = Heap!push(h.events, e)]

delete_pending(h, e) == [h EXCEPT !.events = Heap!erase(h.events, e)]

add_to_cancel_q(h, e) ==
  [h EXCEPT !.cancel_q = <<e>> \o h.cancel_q,
            !.min_cancel_q = IF Ts(e) < h.min_cancel_q THEN Ts(e) ELSE h.min_cancel_q]

cancel_event(h, e) == IF IsPending(h, e) THEN delete_pending(h, e) ELSE add_to_cancel_q(h, e)

\* What was sent to another chare is cancelled by an anti-event.
charm_event_cancel(h, e) ==
  IF e \in ToSet(h.cancel_q) \/ e \notin Local THEN h ELSE cancel_event(h, e)

tw_event_rollbackSparing(h) ==
  [h EXCEPT !.processed = Tail(h.processed), !.caused[Head(h.processed)] = << >>]

\* Rolls back the newest processed event and takes it from the queue.
tw_event_rollback(h) ==
  LET e == Head(h.processed)
      undone == FoldLeft(charm_event_cancel, h, h.caused[e])
  IN  [undone EXCEPT !.processed = Tail(h.processed), !.caused[e] = << >>]

RECURSIVE rollback_to_time(_, _), rollback_to_event(_, _), process_cancelled(_, _)

rollback_to_time(h, t) ==
  IF h.processed # << >> /\ Ts(Head(h.processed)) >= t
  THEN rollback_to_time(push(tw_event_rollback(h), Head(h.processed)), t)
  ELSE h

rollback_to_event(h, e) ==
  IF Head(h.processed) = e THEN tw_event_rollback(h)
  ELSE rollback_to_event(push(tw_event_rollback(h), Head(h.processed)), e)

\* A cancelled event may have been rolled back meanwhile and be pending again.
process_cancelled(h, q) ==
  IF q = << >> THEN h
  ELSE process_cancelled(IF IsPending(h, Head(q)) THEN delete_pending(h, Head(q))
                         ELSE rollback_to_event(h, Head(q)), Tail(q))

current_time(h) == IF h.processed = << >> THEN h.gvt ELSE Ts(Head(h.processed))

recv_local_event(h, e) ==
  push(IF Ts(e) <= current_time(h) THEN rollback_to_time(h, Ts(e)) ELSE h, e)

\* An event that has an anti-event waiting in the tree is annihilated.
recv_remote_event(e) ==
  LET annihilated == Tree!avlSearch(chare.all_events.tree, e)
      h == [chare EXCEPT !.all_events = Tree!avlInsertOrDelete(chare.all_events, e)]
  IN  /\ e \in Arriving \ Held(chare) /\ Ts(e) >= chare.gvt
      /\ chare' = IF annihilated THEN h ELSE recv_local_event(h, e)

\* An anti-event, whose event may come later; there is one for an event.
recv_anti_event(e) ==
  LET found == Tree!avlSearch(chare.all_events.tree, e)
      h == [chare EXCEPT !.all_events = Tree!avlInsertOrDelete(chare.all_events, e)]
  IN  /\ e \in Arriving \ ToSet(chare.cancel_q) /\ Ts(e) >= chare.gvt
      /\ found <=> e \in Held(chare)
      /\ chare' = IF found THEN charm_event_cancel(h, e) ELSE h

\* forward() sends its events while the event is the current one.
execute_me ==
  /\ chare.events.elems # << >>
  /\ LET e == Head(chare.events.elems)
         popped == [chare EXCEPT !.events = Heap!pop(chare.events), !.caused[e] = Reverse(Sends(e))]
         received == FoldLeft(push, popped, SelectSeq(Sends(e), LAMBDA k : k \in Local))
     IN  chare' = [received EXCEPT !.processed = <<e>> \o chare.processed]

process_cancel_q ==
  /\ chare.cancel_q # << >>
  /\ chare' = process_cancelled([chare EXCEPT !.cancel_q = << >>, !.min_cancel_q = EndTime],
                                chare.cancel_q)

EarliestUndone(h) ==
  Min({h.min_cancel_q, EndTime} \union {Ts(e) : e \in ToSet(h.events.elems)})

\* tw_event_free() of a committed event that is still in the tree.
Freed(s, e) == IF e \in s.flagged THEN Tree!avlDelete(s, e) ELSE s

\* A GVT no later than what the chare still has to do.
fossil_me ==
  \E g \in chare.gvt + 1 .. EarliestUndone(chare) :
    LET kept == SelectSeq(chare.processed, LAMBDA e : Ts(e) >= g)
        fossils == ToSet(chare.processed) \ ToSet(kept)
    IN  chare' = [chare EXCEPT
          !.processed = kept,
          !.caused = [e \in Event |-> IF e \in fossils THEN << >> ELSE chare.caused[e]],
          !.all_events = FoldRight(LAMBDA e, s : IF e \in fossils THEN Freed(s, e) ELSE s,
                                   chare.processed, chare.all_events),
          !.gvt = g]

-----------------------------------------------------------------------------
(***************************************************************************)
(* Migration.                                                              *)
(***************************************************************************)

\* ProcessedQueue::pup numbers its events when the size of the pack is taken.
Numbered(h) ==
  [e \in Event |-> IF e \in ToSet(h.processed)
                   THEN ((CHOOSE i \in DOMAIN h.processed : h.processed[i] = e) - 1) % IndexRange
                   ELSE h.events.index[e]]

\* pup_causality when packing: the list of e in three parts, indices for the
\* events this chare holds and the events themselves for those it has sent.
pup_causality(h, e) ==
  LET index == Numbered(h)
      pending == SelectSeq(h.caused[e], LAMBDA k : IsPending(h, k))
      processed == SelectSeq(h.caused[e], LAMBDA k : k \in ToSet(h.processed))
  IN  [pending_indices |-> [i \in DOMAIN pending |-> index[pending[i]]],
       processed_indices |-> [i \in DOMAIN processed |-> index[processed[i]]],
       sent |-> SelectSeq(h.caused[e], LAMBDA k : k \notin Local)]

\* The message: the events in the order of the heap and of the queue, with
\* their indices and flags.
Packed(h) ==
  [elems |-> h.events.elems, processed |-> h.processed, index |-> Numbered(h),
   causes |-> [e \in ToSet(h.processed) |-> pup_causality(h, e)],
   avl_tree |-> h.all_events.flagged \intersect Held(h),
   cancel_q |-> ToSet(h.cancel_q), gvt |-> h.gvt]

\* The array temp_event_buffer, counted from 0.
temp_event_buffer(m) ==
  [i \in 0..Len(m.processed) - 1 |-> CHOOSE e \in ToSet(m.processed) : m.index[e] = i]

reconstruct_causalitySent(m, e) == m.causes[e].sent

\* reconstruct_causality: every event found is put in front of the list.
reconstruct_causality(m, e) ==
  LET c == m.causes[e]
      processed == [i \in DOMAIN c.processed_indices |-> temp_event_buffer(m)[c.processed_indices[i]]]
      pending == [i \in DOMAIN c.pending_indices |-> m.elems[c.pending_indices[i] + 1]]
  IN  Reverse(pending) \o Reverse(processed) \o Reverse(c.sent)

reconstruct_eventNotCancelled(m, h, e) ==
  IF e \in m.avl_tree THEN [h EXCEPT !.all_events = Tree!avlInsert(h.all_events, e)] ELSE h

reconstruct_event(m, h, e) ==
  LET t == IF e \in m.avl_tree THEN [h EXCEPT !.all_events = Tree!avlInsert(h.all_events, e)] ELSE h
  IN  IF e \in m.cancel_q THEN add_to_cancel_q(t, e) ELSE t

\* LPChare::pup when unpacking, into what the constructor has made.
Unpacked(m) ==
  LET fresh == [events |-> [elems |-> m.elems, index |-> m.index],
                processed |-> m.processed,
                caused |-> [e \in Event |-> IF e \in ToSet(m.processed)
                                            THEN reconstruct_causality(m, e) ELSE << >>],
                cancel_q |-> << >>, min_cancel_q |-> EndTime,
                all_events |-> [tree |-> Tree!AVL_EMPTY, flagged |-> {}, free |-> Cardinality(Event)],
                gvt |-> m.gvt]
  IN  FoldLeft(LAMBDA h, e : reconstruct_event(m, h, e), fresh, m.elems \o m.processed)

\* With more events than IndexRange the indices would name the wrong ones.
migrate ==
  /\ Len(chare.events.elems) <= IndexRange /\ Len(chare.processed) <= IndexRange
  /\ chare' = Unpacked(Packed(chare))

Next ==
  \/ \E e \in Event : recv_remote_event(e) \/ recv_anti_event(e)
  \/ execute_me \/ process_cancel_q \/ fossil_me \/ migrate

Spec == Init /\ [][Next]_chare
-----------------------------------------------------------------------------
(***************************************************************************)
(* Properties.                                                             *)
(***************************************************************************)

\* Through rollbacks, cancellations, commits and migrations, a processed event
\* is linked to all that it has caused and to nothing else, and no event is
\* left that a rolled back event has caused: no pointer dangles.
CausalityLinked ==
  /\ \A e \in ToSet(chare.processed) :
       ToSet(chare.caused[e]) = Children(e) /\ IsInjective(chare.caused[e])
  /\ \A e \in Event : \A k \in Children(e) \intersect Local :
       e \in ToSet(chare.processed) <=> k \in Held(chare) /\ Ts(e) >= chare.gvt

\* An event from another chare is in the tree, where its anti-event finds it,
\* or in the cancel queue, and never in both; the cancel queue holds each event
\* once, none that is gone, and min_cancel_q, which goes into the GVT, is the
\* time of its earliest.
RemoteEventsTracked ==
  LET cancelled == ToSet(chare.cancel_q) IN
  /\ \A e \in Held(chare) \intersect Arriving :
       e \in cancelled <=> ~Tree!avlSearch(chare.all_events.tree, e)
  /\ cancelled \subseteq Held(chare) /\ IsInjective(chare.cancel_q)
  /\ chare.min_cancel_q = Min({Ts(e) : e \in cancelled} \union {EndTime})

\* Migration moves a chare as it is, but for the order of lists that is free.
MigrationKeepsEvents ==
  chare' = Unpacked(Packed(chare)) =>
    /\ chare'.events.elems = chare.events.elems
    /\ \A i \in DOMAIN chare'.events.elems : chare'.events.index[chare'.events.elems[i]] = i - 1
    /\ chare'.processed = chare.processed
    /\ \A e \in Event : ToSet(chare'.caused[e]) = ToSet(chare.caused[e])
    /\ ToSet(chare'.cancel_q) = ToSet(chare.cancel_q)
    /\ \A e \in Held(chare) : Tree!avlSearch(chare'.all_events.tree, e)
                                <=> Tree!avlSearch(chare.all_events.tree, e)
=============================================================================

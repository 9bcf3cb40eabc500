---------------------------- MODULE PendingHeap ----------------------------
(***************************************************************************)
(* The heap of a chare's pending events (collections/pending_heap.h).      *)
(* An event holds its slot in Event::index, a uint8_t, by which erase()    *)
(* finds it when it is cancelled.  Slots are counted from 1 here; index    *)
(* holds the slot counted from 0, as in the code.                          *)
(***************************************************************************)
EXTENDS Naturals, Sequences, SequencesExt

CONSTANTS
  Event,       \* the events, numbered in the order that breaks ties
  Ts(_),       \* the timestamp of an event
  Lp(_),       \* the LP an event is for
  IndexRange   \* 2^8: how many values Event::index has

Assumptions == Event \subseteq Nat /\ IndexRange \in Nat \ {0}

VARIABLE pending  \* the array elems, and the index field of the events

TypeOK == pending \in [elems : Seq(Event), index : [Event -> 0..IndexRange - 1]]

Init == pending = [elems |-> << >>, index |-> [e \in Event |-> 0]]

\* CustomEventComparator: events of one time for different LPs are not ordered.
comparator(d, e) ==
  \/ Ts(d) < Ts(e)
  \/ Ts(d) = Ts(e) /\ Lp(d) = Lp(e) /\ d < e

nelems(h) == Len(h.elems)

PlaceUnindexed(h, i, e) == [h EXCEPT !.elems = [h.elems EXCEPT ![i] = e]]

\* elems[i] = e; e->index = i, for the slot counted from 0.
Place(h, i, e) ==
  [h EXCEPT !.elems = [h.elems EXCEPT ![i] = e], !.index[e] = (i - 1) % IndexRange]

SWAP(h, i, j) == Place(Place(h, i, h.elems[j]), j, h.elems[i])

RECURSIVE sift_down(_, _), percolate_up(_, _)

\* The slot that must be above the children of slot i and slot i itself.
Uppermost(h, i) ==
  LET l == 2 * i
      u == IF l <= nelems(h) /\ comparator(h.elems[l], h.elems[i]) THEN l ELSE i
  IN  IF l + 1 <= nelems(h) /\ comparator(h.elems[l + 1], h.elems[u]) THEN l + 1 ELSE u

sift_down(h, i) ==
  LET u == Uppermost(h, i)
  IN  IF u = i THEN h ELSE sift_down(SWAP(h, i, u), u)

percolate_up(h, i) ==
  LET up == i \div 2
  IN  IF i > 1 /\ comparator(h.elems[i], h.elems[up]) THEN percolate_up(SWAP(h, i, up), up) ELSE h

Shortened(h) == [h EXCEPT !.elems = Front(h.elems)]

push(h, e) ==
  LET n == nelems(h) + 1
  IN  percolate_up([elems |-> Append(h.elems, e),
                    index |-> [h.index EXCEPT ![e] = (n - 1) % IndexRange]], n)

pop(h) ==
  IF nelems(h) = 1 THEN Shortened(h)
  ELSE sift_down(Shortened(Place(h, 1, Last(h.elems))), 1)

\* The slot erase() takes the victim to be in.
SlotOf(h, victim) == h.index[victim] + 1

\* The assertions of erase() on the index of its victim.
Erasable(h, victim) ==
  /\ SlotOf(h, victim) <= nelems(h)
  /\ h.index[h.elems[SlotOf(h, victim)]] = h.index[victim]

eraseDownOnly(h, victim) ==
  LET i == SlotOf(h, victim)
      last == Last(h.elems)
  IN  IF i = nelems(h) THEN Shortened(h) ELSE sift_down(Shortened(Place(h, i, last)), i)

\* The last event takes the victim's slot and moves up or down from there.
erase(h, victim) ==
  LET i == SlotOf(h, victim)
      last == Last(h.elems)
      r == Shortened(Place(h, i, last))
  IN  IF i = nelems(h) THEN Shortened(h)
      ELSE IF Ts(last) <= Ts(victim) THEN percolate_up(r, i) ELSE sift_down(r, i)

Pending(h) == ToSet(h.elems)

-----------------------------------------------------------------------------
\* An event reaches the chare, or one it has executed is rolled back.
add(e) ==
  /\ e \notin Pending(pending)
  /\ pending' = push(pending, e)

\* LPChare::execute_me() takes the first event.
take ==
  /\ pending.elems # << >>
  /\ pending' = pop(pending)

\* LPChare::delete_pending(): an event is cancelled.
delete_pending(e) ==
  /\ e \in Pending(pending)
  /\ Erasable(pending, e)
  /\ pending' = erase(pending, e)

Next == take \/ \E e \in Event : add(e) \/ delete_pending(e)

Spec == Init /\ [][Next]_pending
-----------------------------------------------------------------------------
(***************************************************************************)
(* Properties.                                                             *)
(***************************************************************************)

\* Whatever is erased, with the replacement going up or down by its timestamp
\* only, the first event never has a later timestamp than another: min() is the
\* time of the earliest pending event.
FirstIsEarliest ==
  \A i \in 2..nelems(pending) : Ts(pending.elems[i \div 2]) <= Ts(pending.elems[i])

\* Cancelling an event takes that event from the heap and no other, and its
\* assertions hold, as long as a uint8_t can count the pending events.
ErasesTheVictim ==
  \A e \in Event :
    e \in Pending(pending) /\ nelems(pending) <= IndexRange
      => /\ Erasable(pending, e)
         /\ pending' = erase(pending, e) => Pending(pending') = Pending(pending) \ {e}
=============================================================================

------------------------------ MODULE PEQueue ------------------------------
(***************************************************************************)
(* The queue of tokens by which a PE picks the chare to execute next       *)
(* (collections/pe_queue.C): a binary heap in an array.  Each token holds  *)
(* its slot and its timestamp, so that it is found when it is updated or   *)
(* removed.  Slots are counted from 1 here.                                *)
(*                                                                         *)
(* Chares come to the PE, have their earliest time updated, and leave it   *)
(* again when they migrate.                                                *)
(***************************************************************************)
EXTENDS Naturals, Sequences, SequencesExt

CONSTANTS
  Chare,     \* the chares, each with its token
  LastTime   \* bound: timestamps are 0..LastTime

Assumptions == LastTime \in Nat

VARIABLE queue  \* the heap, and the index and ts fields of the tokens

Timestamp == 0..LastTime

TypeOK ==
  queue \in [heap : Seq(Chare), index : [Chare -> Nat], ts : [Chare -> Timestamp]]

Init == queue = [heap |-> << >>, index |-> [c \in Chare |-> 0], ts |-> [c \in Chare |-> 0]]

Queued(q) == ToSet(q.heap)

size(q) == Len(q.heap)

-----------------------------------------------------------------------------
parent(i) == i \div 2
left(i) == 2 * i
right(i) == 2 * i + 1

TsAt(q, i) == q.ts[q.heap[i]]

\* Of two slots with equal timestamps each operator picks the one that makes
\* pull_up() stay and push_down() go on.
smallest(q, i, j) == IF TsAt(q, i) < TsAt(q, j) THEN i ELSE j
largest(q, i, j) == IF TsAt(q, i) < TsAt(q, j) THEN j ELSE i

swapHeapOnly(q, i, j) ==
  [q EXCEPT !.heap = [q.heap EXCEPT ![i] = q.heap[j], ![j] = q.heap[i]]]

swap(q, i, j) ==
  [q EXCEPT !.heap = [q.heap EXCEPT ![i] = q.heap[j], ![j] = q.heap[i]],
            !.index = [q.index EXCEPT ![q.heap[j]] = i, ![q.heap[i]] = j]]

RECURSIVE pull_up(_, _), push_down(_, _)

pull_up(q, i) ==
  IF i > 1 /\ largest(q, i, parent(i)) # i
  THEN pull_up(swap(q, parent(i), i), parent(i))
  ELSE q

DescentLeftOnly(q, i) == smallest(q, i, left(i))

\* The child that takes the place of slot i, or i itself.
Descent(q, i) ==
  LET l == smallest(q, i, left(i))
  IN  IF right(i) <= size(q) THEN smallest(q, l, right(i)) ELSE l

push_down(q, i) ==
  IF left(i) <= size(q) /\ Descent(q, i) # i
  THEN push_down(swap(q, Descent(q, i), i), Descent(q, i))
  ELSE q

\* The array grows without limit.
insert(q, c, t) ==
  LET n == size(q) + 1
  IN  pull_up([heap |-> Append(q.heap, c),
               index |-> [q.index EXCEPT ![c] = n],
               ts |-> [q.ts EXCEPT ![c] = t]], n)

\* The last token takes the place of c and is pushed down, never pulled up.
remove(q, c) ==
  LET i == q.index[c]
      n == size(q)
      s == swap(q, i, n)
  IN  IF i = n THEN [q EXCEPT !.heap = Front(q.heap)]
               ELSE push_down([s EXCEPT !.heap = Front(s.heap)], i)

update(q, c, t) ==
  LET u == [q EXCEPT !.ts[c] = t]
  IN  IF t < q.ts[c] THEN pull_up(u, u.index[c]) ELSE push_down(u, u.index[c])

top(q) == q.heap[1]

second(q) == IF size(q) = 2 THEN q.heap[2] ELSE q.heap[smallest(q, 2, 3)]

-----------------------------------------------------------------------------
\* A chare is created or unpacked: register_lp(&next_token, 0.0), then
\* update_next() with the time of its earliest event.
arrive(c) ==
  /\ c \notin Queued(queue)
  /\ \E t \in Timestamp : queue' = update(insert(queue, c, 0), c, t)

\* Scheduler::update_next().
update_next(c) ==
  /\ c \in Queued(queue)
  /\ \E t \in Timestamp : queue' = update(queue, c, t)

\* A chare is packed: Scheduler::unregister_lp().  Its token goes with it.
unregister_lp(c) ==
  /\ c \in Queued(queue)
  /\ queue' = [remove(queue, c) EXCEPT !.index[c] = 0, !.ts[c] = 0]

Next == \E c \in Chare : arrive(c) \/ update_next(c) \/ unregister_lp(c)

Spec == Init /\ [][Next]_queue
-----------------------------------------------------------------------------
(***************************************************************************)
(* Properties.                                                             *)
(***************************************************************************)

\* The token of every registered chare is in the slot its index says, whatever
\* swaps have moved it: update() and remove() find it there without a search.
TokensIndexed ==
  /\ IsInjective(queue.heap)
  /\ \A i \in DOMAIN queue.heap : queue.index[queue.heap[i]] = i

Ordered(q) == \A i \in 2..size(q) : TsAt(q, parent(i)) <= TsAt(q, i)

\* What schedule_next_lp() and get_min_time() take the top token for.
TopIsEarliest == \A c \in Queued(queue) : queue.ts[top(queue)] <= queue.ts[c]

\* Registering chares and updating their times keeps an ordered queue ordered,
\* with the second token earlier than all but the top one.
OrderKeptUntilUnregister ==
  Ordered(queue) /\ Queued(queue) \subseteq Queued(queue')
    => /\ Ordered(queue')
       /\ \A c \in Queued(queue') \ {top(queue')} : queue'.ts[second(queue')] <= queue'.ts[c]
=============================================================================

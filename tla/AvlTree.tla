------------------------------ MODULE AvlTree ------------------------------
(***************************************************************************)
(* The AVL tree all_events (collections/avl_tree.C), in which a chare      *)
(* finds the event an anti-event cancels.  Its nodes come from a list of   *)
(* fixed length, and the flag state.avl_tree of an event says that it is   *)
(* in the tree.                                                            *)
(*                                                                         *)
(* Events are numbered in the order of ts, event_id and src_lp, in which   *)
(* the code compares them.  A subtree is a record; child 1 is the left one *)
(* (child[0] in the code) and child 2 the right one.                       *)
(***************************************************************************)
EXTENDS Naturals, FiniteSetsExt

CONSTANTS
  Key,      \* the events, numbered in the order of the tree
  MaxNodes  \* g_tw_avl_node_count

Assumptions == Key \subseteq Nat /\ MaxNodes \in Nat

VARIABLE all_events  \* the tree, the events flagged avl_tree, and the free nodes

AVL_EMPTY == [height |-> 0]

Node(l, k, r, h) == [height |-> h, key |-> k, child |-> <<l, r>>]

Init == all_events = [tree |-> AVL_EMPTY, flagged |-> {}, free |-> MaxNodes]

RECURSIVE Keys(_)
Keys(t) ==
  IF t = AVL_EMPTY THEN {} ELSE {t.key} \union Keys(t.child[1]) \union Keys(t.child[2])

TypeOK ==
  /\ all_events.flagged \subseteq Key /\ Keys(all_events.tree) \subseteq Key
  /\ all_events.free \in 0..MaxNodes

-----------------------------------------------------------------------------
\* The child of t on whose side k is.
Side(k, t) == IF k > t.key THEN 2 ELSE 1

Opposite(d) == 3 - d

RECURSIVE avlSearch(_, _)
avlSearch(t, k) ==
  IF t = AVL_EMPTY THEN FALSE ELSE k = t.key \/ avlSearch(t.child[Side(k, t)], k)

avlFixHeight(t) == [t EXCEPT !.height = 1 + Max({t.child[1].height, t.child[2].height})]

\* child[d] becomes the root.
avlRotate(t, d) ==
  LET x == t.child[d]
      y == avlFixHeight([t EXCEPT !.child[d] = x.child[Opposite(d)]])
  IN  avlFixHeight([x EXCEPT !.child[Opposite(d)] = y])

TooTall(t, d) == t.child[d].height > t.child[Opposite(d)].height + 1

LiftedOnce(t, d) == avlRotate(t, d)

\* Of two grandchildren of one height the opposite one moves up.
Lifted(t, d) ==
  LET x == t.child[d]
  IN  IF x.child[d].height > x.child[Opposite(d)].height
      THEN avlRotate(t, d)
      ELSE avlRotate([t EXCEPT !.child[d] = avlRotate(x, Opposite(d))], d)

avlRebalance(t) ==
  IF t = AVL_EMPTY THEN t
  ELSE IF TooTall(t, 1) THEN Lifted(t, 1)
  ELSE IF TooTall(t, 2) THEN Lifted(t, 2)
  ELSE avlFixHeight(t)

-----------------------------------------------------------------------------
(***************************************************************************)
(* The operations take and return a record like all_events, whose tree is  *)
(* a subtree: Within(s, d) is s with its child d as the tree, and          *)
(* Above(s, d, c) is s after an operation on that child has returned c.    *)
(***************************************************************************)
avl_alloc(s) == s.free - 1

avl_free(s) == s.free + 1

Within(s, d) == [s EXCEPT !.tree = s.tree.child[d]]

Above(s, d, c) == [c EXCEPT !.tree = avlRebalance([s.tree EXCEPT !.child[d] = c.tree])]

RECURSIVE avlInsert(_, _), avlDeleteMin(_), avlDelete(_, _), Lowest(_)

avlInsert(s, k) ==
  IF s.tree = AVL_EMPTY
  THEN [tree |-> Node(AVL_EMPTY, k, AVL_EMPTY, 1), flagged |-> s.flagged \union {k},
        free |-> avl_alloc(s)]
  ELSE Above(s, Side(k, s.tree), avlInsert(Within(s, Side(k, s.tree)), k))

Lowest(t) == IF t.child[1] = AVL_EMPTY THEN t.key ELSE Lowest(t.child[1])

avlDeleteMin(s) ==
  IF s.tree.child[1] = AVL_EMPTY
  THEN [tree |-> avlRebalance(s.tree.child[2]), flagged |-> s.flagged \ {s.tree.key},
        free |-> avl_free(s)]
  ELSE Above(s, 1, avlDeleteMin(Within(s, 1)))

RootDeletedUnflagged(s, k) ==
  IF s.tree.child[2] # AVL_EMPTY
  THEN LET k2 == Lowest(s.tree.child[2])
       IN  Above([s EXCEPT !.tree.key = k2], 2, avlDeleteMin(Within(s, 2)))
  ELSE [tree |-> avlRebalance(s.tree.child[1]), flagged |-> s.flagged \ {k}, free |-> avl_free(s)]

\* The root k is replaced by the lowest event on its right, flagged again, or
\* spliced out.
RootDeleted(s, k) ==
  IF s.tree.child[2] # AVL_EMPTY
  THEN LET k2 == Lowest(s.tree.child[2])
           c == avlDeleteMin(Within(s, 2))
       IN  Above([s EXCEPT !.tree.key = k2], 2, [c EXCEPT !.flagged = (c.flagged \union {k2}) \ {k}])
  ELSE [tree |-> avlRebalance(s.tree.child[1]), flagged |-> s.flagged \ {k}, free |-> avl_free(s)]

avlDelete(s, k) ==
  IF k = s.tree.key THEN RootDeleted(s, k)
  ELSE Above(s, Side(k, s.tree), avlDelete(Within(s, Side(k, s.tree)), k))

\* The rebalancing on the way back does what avlInsert() and avlDelete() do.
avlInsertOrDelete(s, k) == IF avlSearch(s.tree, k) THEN avlDelete(s, k) ELSE avlInsert(s, k)

-----------------------------------------------------------------------------
\* recv_remote_event and recv_anti_event, for the event k or its anti-event.
receive(k) ==
  /\ all_events.free > 0 \/ avlSearch(all_events.tree, k)
  /\ all_events' = avlInsertOrDelete(all_events, k)

\* tw_event_free: an event with the flag set is committed.
tw_event_free(k) ==
  /\ k \in all_events.flagged
  /\ all_events' = avlDelete(all_events, k)

Next == \E k \in Key : receive(k) \/ tw_event_free(k)

Spec == Init /\ [][Next]_all_events
-----------------------------------------------------------------------------
(***************************************************************************)
(* Properties.                                                             *)
(***************************************************************************)

\* Through all rotations and replaced roots, the search finds the events whose
\* flag is set, each in one node, and no other: an anti-event finds its event,
\* and tw_event_free() does not look for one that is not there.
SearchFindsFlagged ==
  /\ \A k \in Key : avlSearch(all_events.tree, k) <=> k \in all_events.flagged
  /\ all_events.free + Cardinality(all_events.flagged) = MaxNodes

RECURSIVE Depth(_), Balanced(_)

Depth(t) == IF t = AVL_EMPTY THEN 0 ELSE 1 + Max({Depth(t.child[1]), Depth(t.child[2])})

\* avlSanityCheck(), and no child more than one level deeper than the other.
Balanced(t) ==
  t = AVL_EMPTY \/ /\ t.height = Depth(t)
                   /\ Depth(t.child[1]) <= Depth(t.child[2]) + 1
                   /\ Depth(t.child[2]) <= Depth(t.child[1]) + 1
                   /\ Balanced(t.child[1]) /\ Balanced(t.child[2])

\* Insertion keeps a balanced tree balanced (avlRebalance); deletion may not.
InsertionKeepsBalance ==
  Balanced(all_events.tree) /\ all_events'.free < all_events.free => Balanced(all_events'.tree)
=============================================================================

----------------------------- MODULE MCTimeWarp -----------------------------
(***************************************************************************)
(* TimeWarp on two small models whose LPs send different events depending  *)
(* on their state.  EndTime bounds virtual time and with it everything     *)
(* else: rollbacks and cancellations are limited by nothing but the code.  *)
(***************************************************************************)
EXTENDS TimeWarp, TLC

CONSTANTS a, b, c, p1, p2

\* Two chares, each on its own PE.  Out of order, a sends two events where it
\* should send one, so that several events of one sender are cancelled at
\* once, among them one that a has sent itself.
FanHomes == a :> p1 @@ b :> p2

FanInitial(x) == IF x = a THEN {0, 1} ELSE {0}

FanSends(x, s, t) ==
  IF x = a THEN IF s = 0 THEN {<<b, 1>>} ELSE {<<b, 2>>, <<a, 1>>}
           ELSE IF s = 0 THEN {<<a, 1>>} ELSE {}

\* Three chares, two of them sharing a PE, in a ring.
RingHomes == a :> p1 @@ b :> p2 @@ c :> p1

RingInitial(x) == IF x = b THEN {1} ELSE {0}

Successor(x) == CASE x = a -> b [] x = b -> c [] x = c -> a

RingSends(x, s, t) == IF s = 0 THEN {<<Successor(x), 1>>} ELSE {<<Successor(x), 2>>, <<x, 1>>}
=============================================================================

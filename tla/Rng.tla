-------------------------------- MODULE Rng --------------------------------
(***************************************************************************)
(* The random number generators of the LPs: clcg4 (util/clcg4.h), four     *)
(* linear congruential generators run side by side, and xoroshiro128plus   *)
(* (util/xoroshiro.h).  A reverse handler gives back the draws its event   *)
(* has made with prev(), so prev() must undo operator() exactly.           *)
(*                                                                         *)
(* The arithmetic of clcg4 has the constants of the code and its width:    *)
(* TLC stops at a result that does not fit in 32 bits, as the int32_t of   *)
(* the code do.  A word of xoroshiro128plus is the set of its bits.        *)
(***************************************************************************)
EXTENDS Integers, Sequences, SequencesExt

CONSTANTS
  V, W,     \* the arguments of init: streams start 2^(V+W) draws apart
  Ids,      \* LPs whose clcg4 is checked
  Words,    \* initial states of the xoroshiro128plus that are checked
  MaxDraws  \* bound: draws not undone

Assumptions == {V, W, MaxDraws} \union Ids \subseteq Nat

VARIABLE rng  \* a generator: which, from what seed, its state and its _count

-----------------------------------------------------------------------------
Generator == 1..4

m == <<2147483647, 2147483543, 2147483423, 2147483323>>
a == <<45991, 207707, 138556, 49689>>
default_seed == <<11111111, 22222222, 33333333, 44444444>>

\* m[j] divided by a[j], and the rest.
Quotient == <<46693, 10339, 15499, 43218>>
Rest == <<25884, 870, 3979, 24121>>

RECURSIVE Raised(_, _)
Raised(r, M) == IF r < 0 THEN Raised(r + M, M) ELSE r

H == 32768

\* R + S * t modulo M for S < H, without a product of more than 31 bits.
PlusProduct(R, S, t, M) ==
  LET q == M \div S
      k == t \div q
      r == R - k * (M - S * q)
  IN  IF S = 0 THEN R ELSE Raised((IF r > 0 THEN r - M ELSE r) + S * (t - k * q), M)

\* H * R modulo M.
TimesH(R, M) ==
  LET qh == M \div H
      k == R \div qh
  IN  Raised(H * (R - k * qh) - k * (M - H * qh), M)

mult_mod_MLow(s, t, M) == PlusProduct(0, s % H, t, M)

mult_mod_M(s, t, M) ==
  LET S1 == s \div H
      high == IF S1 >= H THEN PlusProduct(TimesH(t, M), S1 - H, t, M) ELSE PlusProduct(0, S1, t, M)
  IN  PlusProduct(IF s < H THEN 0 ELSE TimesH(high, M), s % H, t, M)

\* x^(2^n) modulo M, by squaring n times.
RECURSIVE SquaredTimes(_, _, _)
SquaredTimes(x, n, M) ==
  IF n = 0 THEN x ELSE SquaredTimes(mult_mod_M(x, x, M), n - 1, M)

aw == [j \in Generator |-> SquaredTimes(a[j], W, m[j])]
avw == [j \in Generator |-> SquaredTimes(aw[j], V, m[j])]

\* x * y modulo M: a product and a remainder of int64_t in the code.
MulMod(x, y, M) ==
  LET plus[c, d \in Nat] == IF c >= M - d THEN c - (M - d) ELSE c + d
      twice[c \in Nat] == plus[c, c]
      times[c, n \in Nat] ==
        IF n = 0 THEN 0 ELSE plus[twice[times[c, n \div 2]], IF n % 2 = 1 THEN c ELSE 0]
  IN  times[x, y]

\* x^k modulo M, from the squares of x that the bits of k select.
find_b(x, k, M) ==
  LET product[y, z \in Nat] == MulMod(y, z, M)
      power[y, n, r \in Nat] ==
        IF n = 0 THEN r
        ELSE power[product[y, y], n \div 2, IF n % 2 = 1 THEN product[y, r] ELSE r]
  IN  power[x, k, 1]

b == [j \in Generator |-> find_b(a[j], m[j] - 2, m[j])]

\* The bits of id, from the highest: each multiplies by avw^(2^position).
RECURSIVE Shifted(_, _, _, _)
Shifted(s, id, position, j) ==
  IF id = 0 THEN s
  ELSE LET t == IF id % 2 = 1 THEN mult_mod_M(SquaredTimes(avw[j], position, m[j]), s, m[j]) ELSE s
       IN  Shifted(t, id \div 2, position + 1, j)

seed(id) == [j \in Generator |-> Shifted(default_seed[j], id, 0, j)]

\* operator() of clcg4, on Cg.
clcg4_next(Cg) ==
  [j \in Generator |->
     LET k == Cg[j] \div Quotient[j]
         s == a[j] * (Cg[j] - k * Quotient[j]) - k * Rest[j]
     IN  IF s < 0 THEN s + m[j] ELSE s]

clcg4_prev(Cg) == [j \in Generator |-> MulMod(b[j], Cg[j], m[j])]

-----------------------------------------------------------------------------
Bit == 0..63

XOR(x, y) == (x \ y) \union (y \ x)

rotl(x, k) == {(i + k) % 64 : i \in x}

ShiftedLeft(x, k) == {i + k : i \in x} \intersect Bit

\* operator() of xoroshiro128plus, on _s.
xoroshiro_next(s) ==
  LET x == XOR(s[1], s[2])
  IN  <<XOR(XOR(rotl(s[1], 24), x), ShiftedLeft(x, 16)), rotl(x, 37)>>

xoroshiro_prev(s) ==
  LET x == rotl(s[2], 27)
      s0 == rotl(XOR(XOR(s[1], x), ShiftedLeft(x, 16)), 40)
  IN  <<s0, XOR(s0, x)>>

-----------------------------------------------------------------------------
Seeded(kind, from) ==
  [kind |-> kind, from |-> from, count |-> 0,
   state |-> IF kind = "clcg4" THEN seed(from) ELSE from]

Init ==
  \/ \E id \in Ids : rng = Seeded("clcg4", id)
  \/ \E s \in Words : rng = Seeded("xoroshiro", s)

next(kind, s) == IF kind = "clcg4" THEN clcg4_next(s) ELSE xoroshiro_next(s)

prev(kind, s) == IF kind = "clcg4" THEN clcg4_prev(s) ELSE xoroshiro_prev(s)

\* A handler draws a number.
draw ==
  /\ rng.count < MaxDraws
  /\ rng' = [rng EXCEPT !.state = next(rng.kind, rng.state), !.count = rng.count + 1]

\* A reverse handler takes one back.
undraw ==
  /\ rng.count > 0
  /\ rng' = [rng EXCEPT !.state = prev(rng.kind, rng.state), !.count = rng.count - 1]

Next == draw \/ undraw

Spec == Init /\ [][Next]_rng
-----------------------------------------------------------------------------
(***************************************************************************)
(* Properties.                                                             *)
(***************************************************************************)

RECURSIVE After(_, _, _)
After(kind, s, n) == IF n = 0 THEN s ELSE After(kind, next(kind, s), n - 1)

\* Whatever was drawn and given back, the state is the one after _count draws
\* (test_reverse of tests/rng): an event executed again draws the same numbers.
CountDeterminesState == rng.state = After(rng.kind, Seeded(rng.kind, rng.from).state, rng.count)

\* The streams of two LPs do not overlap: that of id + 1 starts where that of
\* id is after 2^(V+W) draws.
StreamsFollow ==
  rng.kind = "clcg4" => After("clcg4", seed(rng.from), 2^(V + W)) = seed(rng.from + 1)
=============================================================================

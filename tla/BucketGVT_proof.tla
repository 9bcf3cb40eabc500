--------------------------- MODULE BucketGVT_proof ---------------------------
(***************************************************************************)
(* What the bucketed GVT manager keeps, for any number of PEs, any end     *)
(* time that the buckets fill, any number of phases and any trigger,       *)
(* whoever attempts a GVT and whenever.                                    *)
(*                                                                         *)
(* Whatever is sent, what is reduced together belongs together (Core):     *)
(* PEs are one reduction or one result apart (Staged, Follows, Together),  *)
(* and the counts of all PEs for a phase add up to what is in flight under *)
(* it (Accounted).  This needs buckets whose size is a power of two, since *)
(* a PE before its current bucket counts the buckets it has passed by an   *)
(* unsigned division; the default, 8, is one.                              *)
(*                                                                         *)
(* In the runs in which nothing is sent into the bucket that its sender    *)
(* works in, or past the phases (SpecAhead), the manager keeps the         *)
(* contract of VirtualTime as well.  The delays of events and the size of  *)
(* buckets are not bounded for that.  Why the invariant is what it is: a   *)
(* reduction adds up counts that PEs read at different moments.  Such a    *)
(* sum is good for the buckets that all had passed: a PE that has passed a *)
(* bucket sends nothing more that lies in it, so its count can only fall,  *)
(* and falls first for the first bucket that a message is received in.     *)
(* Hence Untouched: what a PE contributed is what its counts still are for *)
(* the first r buckets reduced, and, if r is not all of those that are     *)
(* valid, its count of bucket r was higher.  The PE with the least r would *)
(* make a sum of zero there disagree with the number in flight.  So no GVT *)
(* held is above what is unprocessed (Floors).                             *)
(***************************************************************************)
EXTENDS BucketGVT, GVTManager_proof, SequenceTheorems

Start(b) == b * BucketSize

\* The division of a time by the size of a bucket, as the provers need it.
LEMMA Division ==
  ASSUME NEW n \in Int
  PROVE  /\ n \div BucketSize \in Int
         /\ n \in Nat => n \div BucketSize \in Nat
         /\ (n \div BucketSize) * BucketSize <= n
         /\ n < (n \div BucketSize) * BucketSize + BucketSize
BY BucketsFillTime

\* Buckets begin one after the other, and together they are all of time.
LEMMA Starts ==
  /\ BucketSize \in Nat /\ BucketSize > 0 /\ total_buckets \in Nat
  /\ Start(total_buckets) = EndTime
  /\ \A b \in Nat : Start(b) \in Nat /\ Start(b + 1) = Start(b) + BucketSize
  /\ \A a, b \in Nat : a <= b => Start(a) <= Start(b)
<1>1. BucketSize \in Nat /\ BucketSize > 0 /\ total_buckets \in Nat
  BY BucketsFillTime, EndTimeAssumption, Division DEF total_buckets
<1>2. Start(total_buckets) = EndTime
  BY BucketsFillTime, EndTimeAssumption DEF total_buckets, Start
<1>3. ASSUME NEW b \in Nat PROVE Start(b) \in Nat /\ Start(b + 1) = Start(b) + BucketSize
  BY <1>1 DEF Start
<1>4. ASSUME NEW a \in Nat, NEW b \in Nat, a <= b PROVE Start(a) <= Start(b)
  <2>1. PICK k \in Nat : b = a + k
    BY <1>4
  <2>2. b * BucketSize = a * BucketSize + k * BucketSize /\ k * BucketSize >= 0
    BY <1>1, <2>1
  <2>3. QED
    BY <1>1, <2>2 DEF Start
<1>5. QED
  BY <1>1, <1>2, <1>3, <1>4

\* How many buckets there are, and until when time runs, are numbers.
LEMMA Totals == total_buckets \in Nat /\ EndTime \in Nat /\ Time = 0..EndTime
BY Starts, EndTimeAssumption DEF Time

\* The bucket of an event is the one whose times it lies among, and its phase is
\* the index of a bucket, of its own if that is one of the first.
LEMMA BucketOfTime ==
  /\ \A t \in Nat : /\ BucketOf(t) \in Nat
                    /\ Start(BucketOf(t)) <= t /\ t < Start(BucketOf(t)) + BucketSize
                    /\ \A b \in Nat : Start(b) <= t <=> b <= BucketOf(t)
  /\ \A t \in EventTime : /\ BucketOf(t) \in Bucket /\ phase(t) \in Bucket
                          /\ BucketOf(t) < PhaseValues => phase(t) = BucketOf(t)
<1>1. ASSUME NEW t \in Nat
      PROVE  /\ BucketOf(t) \in Nat
             /\ Start(BucketOf(t)) <= t /\ t < Start(BucketOf(t)) + BucketSize
  BY Division DEF BucketOf, Start
<1>2. ASSUME NEW t \in Nat, NEW b \in Nat PROVE Start(b) <= t <=> b <= BucketOf(t)
  <2>1. CASE b <= BucketOf(t)
    <3>1. Start(b) <= Start(BucketOf(t))
      BY <1>1, <2>1, Starts
    <3>2. QED
      BY <1>1, <2>1, <3>1, Starts
  <2>2. CASE ~(b <= BucketOf(t))
    <3>1. BucketOf(t) + 1 <= b /\ BucketOf(t) + 1 \in Nat
      BY <1>1, <2>2
    <3>2. Start(BucketOf(t) + 1) <= Start(b)
      BY <3>1, Starts
    <3>3. Start(BucketOf(t) + 1) = Start(BucketOf(t)) + BucketSize
      BY <1>1, Starts
    <3>4. QED
      BY <1>1, <2>2, <3>2, <3>3, Starts
  <2>3. QED
    BY <2>1, <2>2
<1>3. ASSUME NEW t \in EventTime
      PROVE  /\ BucketOf(t) \in Bucket /\ phase(t) \in Bucket
             /\ BucketOf(t) < PhaseValues => phase(t) = BucketOf(t)
  <2>1. t \in Nat /\ t < EndTime
    BY EndTimeAssumption DEF EventTime
  <2>2. ~(Start(total_buckets) <= t)
    BY <2>1, Starts, EndTimeAssumption
  <2>3. BucketOf(t) \in Nat /\ ~(total_buckets <= BucketOf(t))
    BY <1>1, <1>2, <2>1, <2>2, Starts
  <2>4. /\ BucketOf(t) % PhaseValues \in 0..BucketOf(t)
        /\ BucketOf(t) < PhaseValues => BucketOf(t) % PhaseValues = BucketOf(t)
    BY <2>3, PhaseAssumption
  <2>5. total_buckets \in Nat
    BY Starts
  <2>6. \A n \in 0..BucketOf(t) : n \in Bucket
    BY <2>3, <2>5 DEF Bucket
  <2>7. phase(t) = BucketOf(t) % PhaseValues
    BY DEF phase
  <2>8. BucketOf(t) \in 0..BucketOf(t)
    BY <2>3
  <2>9. QED
    BY <2>4, <2>6, <2>7, <2>8
<1>4. QED
  BY <1>1, <1>2, <1>3

\* Where buckets_passed() counts buckets: not before the current one, or
\* anywhere with buckets of the right size.
Measured(m, lo) == PowerOfTwo \/ Start(m.curr_bucket) <= lo

\* buckets_passed() is how far the bucket of the minimum is from the current one.
LEMMA BucketsPassed ==
  ASSUME NEW m, m.curr_bucket \in 0..total_buckets, NEW lo \in Time, Measured(m, lo)
  PROVE  /\ buckets_passed(m, lo) = BucketOf(lo) - m.curr_bucket
         /\ BucketOf(lo) \in 0..total_buckets /\ m.curr_bucket \in Nat /\ lo \in Nat
<1> DEFINE c == m.curr_bucket
           k == buckets_passed(m, lo)
           q == BucketOf(lo)
<1>1. total_buckets \in Nat /\ BucketSize \in Nat /\ BucketSize > 0 /\ EndTime \in Nat
  BY Starts, Totals
<1>2. c \in Nat /\ lo \in Nat /\ lo <= EndTime
  BY <1>1, Totals
<1>3. q \in Nat /\ q * BucketSize <= lo /\ lo < q * BucketSize + BucketSize
  BY <1>2, BucketOfTime DEF Start
<1>4. k = (lo - c * BucketSize) \div BucketSize
  <2>1. c * BucketSize \in Nat
    BY <1>1, <1>2
  <2>2. lo - c * BucketSize >= 0 \/ PowerOfTwo
    BY <1>2, <2>1 DEF Measured, Start
  <2>3. QED
    BY <2>2 DEF buckets_passed
<1> HIDE DEF c, k, q
<1>5. k \in Int /\ k * BucketSize <= lo - c * BucketSize
      /\ lo - c * BucketSize < k * BucketSize + BucketSize
  <2>1. lo - c * BucketSize \in Int
    BY <1>1, <1>2
  <2>2. QED
    BY <1>4, <2>1, Division
<1>6. k = q - c
  <2> DEFINE e == q - c - k
  <2>1. e \in Int /\ q = c + k + e
    BY <1>2, <1>3, <1>5
  <2> HIDE DEF e
  <2>2. q * BucketSize = c * BucketSize + k * BucketSize + e * BucketSize
    BY <1>1, <1>2, <1>5, <2>1
  <2>3. -BucketSize < e * BucketSize /\ e * BucketSize < BucketSize
    <3>1. /\ q * BucketSize \in Int /\ c * BucketSize \in Int
          /\ k * BucketSize \in Int /\ e * BucketSize \in Int
      BY <1>1, <1>2, <1>3, <1>5, <2>1
    <3> DEFINE u == q * BucketSize
               v == c * BucketSize
               w == k * BucketSize
               z == e * BucketSize
    <3>2. /\ u \in Int /\ v \in Int /\ w \in Int /\ z \in Int
          /\ u = v + w + z /\ u <= lo /\ lo < u + BucketSize
          /\ w <= lo - v /\ lo - v < w + BucketSize
      BY <1>3, <1>5, <2>2, <3>1
    <3> HIDE DEF u, v, w, z
    <3>3. -BucketSize < z /\ z < BucketSize
      BY <1>1, <1>2, <3>2
    <3>4. QED
      BY <3>3 DEF z
  <2>4. e = 0
    <3>1. CASE e >= 1
      <4>1. e * BucketSize >= BucketSize
        BY <1>1, <2>1, <3>1
      <4>2. QED
        BY <1>1, <2>1, <2>3, <4>1
    <3>2. CASE e <= -1
      <4>1. e * BucketSize <= -BucketSize
        BY <1>1, <2>1, <3>2
      <4>2. QED
        BY <1>1, <2>1, <2>3, <4>1
    <3>3. QED
      BY <2>1, <3>1, <3>2
  <2>5. QED
    BY <1>2, <1>3, <1>5, <2>1, <2>4
<1>7. q <= total_buckets
  <2>1. total_buckets + 1 \in Nat /\ Start(total_buckets + 1) = EndTime + BucketSize
    BY <1>1, Starts
  <2>2. total_buckets + 1 <= q => Start(total_buckets + 1) <= lo
    BY <1>2, <2>1, BucketOfTime DEF q
  <2>3. QED
    BY <1>1, <1>2, <1>3, <2>1, <2>2
<1>8. q \in 0..total_buckets
  BY <1>1, <1>3, <1>7
<1>9. QED
  BY <1>2, <1>6, <1>8 DEF c, k, q

\* A set of numbers that are bounded from below has a least one.
LEMMA MinIsLeastFrom ==
  ASSUME NEW n \in Nat, NEW S \in SUBSET (-n..n), S # {}
  PROVE  Min(S) \in S /\ \A x \in S : Min(S) <= x
<1> DEFINE T == {x + n : x \in S}
<1>1. T \in SUBSET Nat /\ T # {}
  <2>1. ASSUME NEW x \in S PROVE x + n \in Nat
    OBVIOUS
  <2>2. QED
    BY <2>1
<1>2. \A x \in S : x + n \in T /\ x \in Int
  OBVIOUS
<1>3. \A y \in T : \E x \in S : y = x + n
  OBVIOUS
<1> HIDE DEF T
<1>4. Min(T) \in T /\ \A y \in T : Min(T) <= y
  BY <1>1, MinIsLeast
<1>5. PICK m \in S : Min(T) = m + n
  BY <1>3, <1>4
<1>6. \A x \in S : m <= x
  <2> TAKE x \in S
  <2>1. m + n <= x + n
    BY <1>2, <1>4, <1>5
  <2>2. QED
    BY <1>2, <2>1
<1>7. Min(S) = CHOOSE x \in S : \A y \in S : x <= y
  BY DEF Min
<1>8. QED
  BY <1>6, <1>7

-----------------------------------------------------------------------------
(***************************************************************************)
(* Sums over the PEs of numbers that may be negative, and the messages in  *)
(* flight in one bucket.                                                   *)
(***************************************************************************)
Above(f) == [p \in PE |-> IF f[p] > 0 THEN f[p] ELSE 0]
Below(f) == [p \in PE |-> IF f[p] < 0 THEN -f[p] ELSE 0]

\* The two sums Balance is the difference of.
LEMMA BalanceIs ==
  ASSUME NEW f \in [PE -> Int]
  PROVE  /\ Above(f) \in [PE -> Nat] /\ Below(f) \in [PE -> Nat]
         /\ \A p \in PE : Above(f)[p] - Below(f)[p] = f[p]
         /\ \A p \in PE : Above(f)[p] = IF f[p] > 0 THEN f[p] ELSE 0
         /\ \A p \in PE : Below(f)[p] = IF f[p] < 0 THEN -f[p] ELSE 0
         /\ Total(Above(f)) \in Nat /\ Total(Below(f)) \in Nat
         /\ Balance(f) = Total(Above(f)) - Total(Below(f)) /\ Balance(f) \in Int
<1>1. Above(f) \in [PE -> Nat] /\ Below(f) \in [PE -> Nat]
  BY DEF Above, Below
<1>2. \A p \in PE : Above(f)[p] - Below(f)[p] = f[p]
  BY DEF Above, Below
<1>3. Total(Above(f)) \in Nat /\ Total(Below(f)) \in Nat
  BY <1>1, TotalIs
<1>4. Balance(f) = Total(Above(f)) - Total(Below(f))
  BY DEF Balance, Above, Below
<1>5. QED
  BY <1>1, <1>2, <1>3, <1>4 DEF Above, Below

\* The sum of nothing but zeros.
LEMMA BalanceZero ==
  ASSUME NEW f \in [PE -> Int], \A p \in PE : f[p] = 0
  PROVE  Balance(f) = 0
<1>1. \A p \in PE : Above(f)[p] = 0 /\ Below(f)[p] = 0
  <2>1. ASSUME NEW p \in PE PROVE Above(f)[p] = 0 /\ Below(f)[p] = 0
    <3>1. f[p] = 0
      OBVIOUS
    <3>2. QED
      BY <3>1 DEF Above, Below
  <2>2. QED
    BY <2>1
<1>2. Total(Above(f)) = 0 /\ Total(Below(f)) = 0
  BY <1>1, BalanceIs, TotalIs
<1>3. QED
  BY <1>2, BalanceIs

\* A sum over the PEs moves with the only term that moves.
LEMMA TotalMoves ==
  ASSUME NEW f \in [PE -> Nat], NEW g \in [PE -> Nat], NEW p \in PE,
         \A q \in PE : q # p => g[q] = f[q]
  PROVE  Total(g) - Total(f) = g[p] - f[p]
<1>1. Total(f) \in Nat /\ Total(g) \in Nat /\ f[p] \in Nat /\ g[p] \in Nat
  BY TotalIs
<1>2. CASE f[p] <= g[p]
  <2> DEFINE k == g[p] - f[p]
  <2>1. k \in Nat /\ g[p] = f[p] + k
    BY <1>1, <1>2
  <2> HIDE DEF k
  <2>2. Total(g) = Total(f) + k
    BY <2>1, TotalAdd
  <2>3. QED
    BY <1>1, <2>1, <2>2
<1>3. CASE g[p] <= f[p]
  <2> DEFINE k == f[p] - g[p]
  <2>1. k \in Nat /\ f[p] = g[p] + k
    BY <1>1, <1>3
  <2> HIDE DEF k
  <2>2. Total(f) = Total(g) + k
    BY <2>1, TotalAdd
  <2>3. QED
    BY <1>1, <2>1, <2>2
<1>4. QED
  BY <1>1, <1>2, <1>3

\* So does a sum of numbers that may be negative.
LEMMA BalanceMoves ==
  ASSUME NEW f \in [PE -> Int], NEW g \in [PE -> Int], NEW p \in PE,
         \A q \in PE : q # p => g[q] = f[q]
  PROVE  Balance(g) - Balance(f) = g[p] - f[p]
<1>1. \A q \in PE : q # p => Above(g)[q] = Above(f)[q] /\ Below(g)[q] = Below(f)[q]
  BY BalanceIs
<1>2. /\ Total(Above(g)) - Total(Above(f)) = Above(g)[p] - Above(f)[p]
      /\ Total(Below(g)) - Total(Below(f)) = Below(g)[p] - Below(f)[p]
  BY <1>1, BalanceIs, TotalMoves
<1>3. /\ Above(g)[p] \in Nat /\ Above(f)[p] \in Nat /\ Below(g)[p] \in Nat /\ Below(f)[p] \in Nat
      /\ Above(g)[p] - Below(g)[p] = g[p] /\ Above(f)[p] - Below(f)[p] = f[p]
  BY BalanceIs
<1>4. /\ Balance(g) = Total(Above(g)) - Total(Below(g)) /\ Balance(f) = Total(Above(f)) - Total(Below(f))
      /\ Total(Above(g)) \in Nat /\ Total(Below(g)) \in Nat
      /\ Total(Above(f)) \in Nat /\ Total(Below(f)) \in Nat
  BY BalanceIs
<1>5. QED
  BY <1>2, <1>3, <1>4

\* When no term is less and one is greater, the sum is greater.
LEMMA BalanceGreater ==
  ASSUME NEW f \in [PE -> Int], NEW g \in [PE -> Int], \A p \in PE : f[p] <= g[p],
         NEW q \in PE, f[q] < g[q]
  PROVE  Balance(f) < Balance(g)
<1> DEFINE h == [f EXCEPT ![q] = g[q]]
<1>1. /\ h \in [PE -> Int] /\ h[q] = g[q] /\ \A p \in PE : p # q => h[p] = f[p]
      /\ \A p \in PE : h[p] <= g[p]
  OBVIOUS
<1> HIDE DEF h
<1>2. Balance(h) - Balance(f) = g[q] - f[q]
  BY <1>1, BalanceMoves
<1>3. Total(Above(h)) <= Total(Above(g)) /\ Total(Below(g)) <= Total(Below(h))
  <2>1. ASSUME NEW p \in PE PROVE Above(h)[p] <= Above(g)[p] /\ Below(g)[p] <= Below(h)[p]
    <3>1. h[p] \in Int /\ g[p] \in Int /\ h[p] <= g[p]
      BY <1>1
    <3>2. QED
      BY <3>1 DEF Above, Below
  <2>2. QED
    BY <1>1, <2>1, BalanceIs, TotalMonotone
<1>4. /\ Balance(h) = Total(Above(h)) - Total(Below(h)) /\ Balance(g) = Total(Above(g)) - Total(Below(g))
      /\ Total(Above(h)) \in Nat /\ Total(Below(h)) \in Nat
      /\ Total(Above(g)) \in Nat /\ Total(Below(g)) \in Nat
  BY <1>1, BalanceIs
<1>5. Balance(f) \in Int /\ f[q] \in Int /\ g[q] \in Int
  BY BalanceIs
<1>6. QED
  BY <1>2, <1>3, <1>4, <1>5

\* The messages of n that are counted in bucket b, and what PEs have counted there.
Inside(n, b) == [p \in PE |-> [t \in EventTime |-> IF phase(t) = b THEN n[p][t] ELSE 0]]
Held(b) == [p \in PE |-> manager[p].counts[b]]

\* They are a set of messages again.
LEMMA InsideType ==
  ASSUME NEW n \in Flights
  PROVE  \A b : /\ Inside(n, b) \in Flights
                /\ \A p \in PE, t \in EventTime :
                     Inside(n, b)[p][t] = IF phase(t) = b THEN n[p][t] ELSE 0
BY DEF Inside, Flights

\* What is sent is in flight under its phase.
LEMMA InsidePut ==
  ASSUME NEW n \in Flights, NEW S \in SUBSET (PE \X EventTime), NEW b
  PROVE  Flying(Inside(Put(n, S), b)) = Flying(Inside(n, b)) + SentIn(S, b)
<1> DEFINE T == {s \in S : phase(s[2]) = b}
<1>1. Inside(Put(n, S), b) = Put(Inside(n, b), T)
  <2>1. \A p \in PE, t \in EventTime : <<p, t>> \in T <=> <<p, t>> \in S /\ phase(t) = b
    OBVIOUS
  <2> HIDE DEF T
  <2>2. \A p \in PE, t \in EventTime :
          (IF phase(t) = b THEN (IF <<p, t>> \in S THEN n[p][t] + 1 ELSE n[p][t]) ELSE 0)
          = IF <<p, t>> \in T THEN (IF phase(t) = b THEN n[p][t] ELSE 0) + 1
                              ELSE (IF phase(t) = b THEN n[p][t] ELSE 0)
    BY <2>1
  <2>3. QED
    BY <2>2 DEF Put, Inside
<1>2. T \in SUBSET (PE \X EventTime)
  OBVIOUS
<1>3. Inside(n, b) \in Flights
  BY InsideType
<1> HIDE DEF T
<1>4. Flying(Put(Inside(n, b), T)) = Flying(Inside(n, b)) + Cardinality(T)
  BY <1>2, <1>3, FlyingPut
<1>5. QED
  BY <1>1, <1>4 DEF SentIn, T

\* What is received is in flight under its phase no longer.
LEMMA InsideTake ==
  ASSUME NEW n \in Flights, NEW p \in PE, NEW t \in EventTime, n[p][t] > 0, NEW b
  PROVE  Flying(Inside(n, b))
         = Flying(Inside(Take(n, p, t), b)) + IF phase(t) = b THEN 1 ELSE 0
<1>1. /\ Take(n, p, t) \in Flights
      /\ \A q \in PE, u \in EventTime :
           Take(n, p, t)[q][u] = IF q = p /\ u = t THEN n[q][u] - 1 ELSE n[q][u]
  BY TakeType
<1>2. Inside(n, b) \in Flights
  BY InsideType
<1>3. CASE phase(t) = b
  <2>1. Inside(n, b)[p][t] > 0
    BY <1>3, InsideType
  <2>2. Inside(Take(n, p, t), b) = Take(Inside(n, b), p, t)
    <3>1. Take(Inside(n, b), p, t) \in Flights
          /\ \A q \in PE, u \in EventTime :
               Take(Inside(n, b), p, t)[q][u]
               = IF q = p /\ u = t THEN Inside(n, b)[q][u] - 1 ELSE Inside(n, b)[q][u]
      BY <1>2, <2>1, TakeType
    <3>2. \A q \in PE, u \in EventTime : Inside(Take(n, p, t), b)[q][u] = Take(Inside(n, b), p, t)[q][u]
      BY <1>1, <1>3, <3>1, InsideType
    <3>3. Inside(Take(n, p, t), b) \in Flights
      BY <1>1, InsideType
    <3>4. QED
      BY <3>1, <3>2, <3>3 DEF Flights
  <2>3. QED
    BY <1>2, <1>3, <2>1, <2>2, FlyingTake
<1>4. CASE phase(t) # b
  <2>1. \A q \in PE, u \in EventTime :
          (IF phase(u) = b THEN Take(n, p, t)[q][u] ELSE 0) = IF phase(u) = b THEN n[q][u] ELSE 0
    BY <1>1, <1>4
  <2>2. Inside(Take(n, p, t), b) = Inside(n, b)
    BY <2>1 DEF Inside
  <2>3. QED
    BY <1>2, <1>4, <2>2, FlyingNone
<1>5. QED
  BY <1>3, <1>4

\* Where nothing is counted no message of that phase is in flight.
LEMMA InsideNone ==
  ASSUME NEW n \in Flights, NEW b
  PROVE  /\ Flying(Inside(n, b)) \in Nat
         /\ Flying(Inside(n, b)) = 0 => \A p \in PE, t \in EventTime : phase(t) = b => n[p][t] = 0
<1>1. Inside(n, b) \in Flights
  BY InsideType
<1>2. Flying(Inside(n, b)) \in Nat /\ (Flying(Inside(n, b)) = 0 <=> NothingInFlight(Inside(n, b)))
  BY <1>1, FlyingNone
<1>3. NothingInFlight(Inside(n, b)) => \A p \in PE, t \in EventTime : phase(t) = b => n[p][t] = 0
  BY InsideType DEF NothingInFlight
<1>4. QED
  BY <1>2, <1>3

-----------------------------------------------------------------------------
(***************************************************************************)
(* The invariant.                                                          *)
(***************************************************************************)
\* The smaller of the buckets that were counted and the buckets p had passed.
Valid(c) == IF c.passed <= Len(c.d) THEN c.passed ELSE Len(c.d)

\* r buckets from the current one on are as they were when c was contributed by
\* a PE that is m and at lo now, and the next one, if valid, has been received
\* in since.  What is after that may have changed in any way.
UntouchedUpTo(r, m, lo, c) ==
  /\ \A i \in 1..r : c.d[i] = m.counts[m.curr_bucket + i - 1]
  /\ Start(m.curr_bucket + r) <= lo
  /\ r < Valid(c) => m.counts[m.curr_bucket + r] < c.d[r + 1]

Untouched(m, lo, c) == \E r \in 0..Valid(c) : UntouchedUpTo(r, m, lo, c)

\* A PE in a round has contributed, or has a result to come.
Staged(p) ==
  LET m == manager[p] IN
  \/ ~m.active /\ m.contributed = << >> /\ results[p] = << >>
  \/ m.active /\ m.contributed = <<m.contributed[1]>> /\ results[p] = << >>
  \/ m.active /\ m.contributed = << >> /\ results[p] = <<results[p][1]>>

Given(p) == manager[p].contributed # << >>
Told(p)  == results[p] # << >>
contribution(p) == manager[p].contributed[1]
result(p) == results[p][1]

\* No bucket is past the last, and a PE that is ready is not before its current one.
Within(c, cur) ==
  /\ c \in Reduced
  /\ cur + c.passed <= total_buckets /\ cur + Len(c.d) <= total_buckets
  /\ c.of = "ready" => Len(c.d) = 0 /\ c.passed >= 0

Fits(p) ==
  /\ Given(p) => Within(contribution(p), manager[p].curr_bucket)
  /\ Told(p) => Within(result(p), manager[p].curr_bucket)

\* What p has contributed has not been sent to since, before it was received in.
Snapshot(p) ==
  Given(p) /\ contribution(p).of = "counts" => Untouched(manager[p], low[p], contribution(p))

\* Where the current bucket of p is once what it has been told is done.
advanced(p) ==
  manager[p].curr_bucket
  + IF Told(p) /\ result(p).of = "counts" THEN Completed(result(p)) ELSE 0

\* p has contributed n counts, or, n being 0, is ready.
Gives(p, kind, n) == Given(p) /\ contribution(p).of = kind /\ Len(contribution(p).d) = n

\* q has done what r asks for.
Follows(q, r) ==
  \/ r.of = "ready" /\ Gives(q, "counts", r.passed)
  \/ r.of = "counts" /\ r.passed > Completed(r) /\ Gives(q, "counts", r.passed - Completed(r))
  \/ r.of = "counts" /\ r.passed <= Completed(r) /\ (~Given(q) \/ Gives(q, "ready", 0))

\* Any two PEs are a result apart at most, and otherwise in one reduction.
Together(p, q) ==
  /\ advanced(p) = advanced(q)
  /\ Told(p) => (Told(q) /\ results[q] = results[p]) \/ (~Told(q) /\ Follows(q, result(p)))
  /\ ~Told(p) /\ ~Told(q) /\ Given(p) =>
       \/ Gives(q, contribution(p).of, Len(contribution(p).d))
       \/ ~Given(q) /\ contribution(p).of = "ready"

\* The GVT a PE has been told is where its current bucket starts.
Placed(p) == sched[p].g_last_gvt = Start(manager[p].curr_bucket)

Controlled(p) == sched[p].execs = IF sched[p].running THEN 1 ELSE 0

\* What all have sent under a phase and not received is in flight there.
Accounted == \A b \in Bucket : Balance(Held(b)) = Flying(Inside(net, b))

\* The GVT a PE has or is to be told is a floor of all that is unprocessed.
Floors == \A p \in PE : IsFloor(Start(advanced(p)), low, net)

\* What is in flight is counted in its own bucket.
InPhase == \A p \in PE, t \in EventTime : net[p][t] > 0 => BucketOf(t) < PhaseValues

\* What holds whatever is sent.
Core ==
  /\ TypeOK
  /\ \A p \in PE : Staged(p) /\ Fits(p) /\ Placed(p) /\ Controlled(p)
  /\ \A p, q \in PE : Together(p, q)
  /\ Accounted

\* And what holds as well as long as all is sent past the bucket of its sender.
IInv ==
  /\ Core
  /\ \A p \in PE : Snapshot(p)
  /\ Floors
  /\ InPhase

-----------------------------------------------------------------------------
\* The number of buckets completed exists: it ends before the first sum that is
\* not zero, or bucket that is not passed.
LEMMA CompletedIs ==
  ASSUME NEW c \in Reduced
  PROVE  /\ Completed(c) \in Nat /\ Completed(c) <= Len(c.d)
         /\ c.passed >= 0 => Completed(c) <= c.passed
         /\ \A i \in 1..Completed(c) : i <= c.passed /\ c.d[i] = 0
         /\ c.passed \in Int /\ Len(c.d) \in Nat /\ DOMAIN c.d = 1..Len(c.d)
         /\ \A i \in 1..Len(c.d) : c.d[i] \in Int
<1> DEFINE v == Len(c.d)
           P(n) == /\ \A i \in 1..n : i <= c.passed /\ c.d[i] = 0
                   /\ n < v => ~(n + 1 <= c.passed /\ c.d[n + 1] = 0)
<1>1. /\ c.passed \in Int /\ c.d \in Seq(Int) /\ v \in Nat /\ DOMAIN c.d = 1..v
      /\ \A i \in 1..v : c.d[i] \in Int
  <2>1. c.passed \in -total_buckets..total_buckets /\ c.d \in Seq(Int) /\ total_buckets \in Nat
    BY Starts DEF Reduced
  <2>2. Len(c.d) \in Nat /\ DOMAIN c.d = 1..Len(c.d) /\ \A i \in 1..Len(c.d) : c.d[i] \in Int
    BY <2>1
  <2>3. QED
    BY <2>1, <2>2
<1>2. Completed(c) = CHOOSE n \in 0..v : P(n)
  BY DEF Completed
<1> HIDE DEF v
<1>3. \E n \in 0..v : P(n)
  <2> DEFINE Z == {i \in 1..v : ~(i <= c.passed /\ c.d[i] = 0)}
  <2>1. CASE Z = {}
    <3>1. P(v)
      BY <1>1, <2>1
    <3>2. QED
      BY <1>1, <3>1
  <2>2. CASE Z # {}
    <3> DEFINE z == Min(Z)
    <3>1. Z \in SUBSET Nat
      BY <1>1
    <3>2. z \in Z /\ \A i \in Z : z <= i
      BY <2>2, <3>1, MinIsLeast
    <3>3. z \in 1..v /\ ~(z <= c.passed /\ c.d[z] = 0)
      BY <3>2
    <3>4. ASSUME NEW i \in 1..(z - 1) PROVE i <= c.passed /\ c.d[i] = 0
      <4>1. i \in 1..v /\ ~(z <= i)
        BY <1>1, <3>3
      <4>2. i \notin Z
        BY <3>2, <4>1
      <4>3. QED
        BY <4>1, <4>2
    <3> HIDE DEF z, Z
    <3>5. z - 1 \in 0..v /\ (z - 1) + 1 = z
      BY <1>1, <3>3
    <3>6. P(z - 1)
      BY <3>3, <3>4, <3>5
    <3>7. QED
      BY <3>5, <3>6
  <2>3. QED
    BY <2>1, <2>2
<1>4. Completed(c) \in 0..v /\ P(Completed(c))
  BY <1>2, <1>3
<1> DEFINE n == Completed(c)
<1>5. n \in Nat /\ n <= v /\ \A i \in 1..n : i <= c.passed /\ c.d[i] = 0
  BY <1>1, <1>4
<1>6. c.passed >= 0 => n <= c.passed
  <2> HIDE DEF n
  <2>1. n = 0 \/ n \in 1..n
    BY <1>5
  <2>2. QED
    BY <1>1, <1>5, <2>1
<1>7. QED
  BY <1>1, <1>5, <1>6 DEF v

\* An attempt changes nothing, or contributes that buckets are passed.
Attempted(m, a) ==
  /\ a \in Manager /\ a.curr_bucket = m.curr_bucket
  /\ \/ a.active = m.active /\ a.contributed = m.contributed
     \/ /\ ~m.active /\ a.active
        /\ \E k \in 0..total_buckets :
             a.contributed = Append(m.contributed, Ready(k)) /\ m.curr_bucket + k <= total_buckets

\* attempt_gvt() where buckets can be counted.
LEMMA AttemptIs ==
  ASSUME NEW m \in Manager, NEW lo \in Time, Measured(m, lo)
  PROVE  Attempted(m, attempt_gvt(m, lo)) /\ attempt_gvt(m, lo).counts = m.counts
<1> DEFINE k == buckets_passed(m, lo)
           a == contribute([m EXCEPT !.active = TRUE], Ready(k))
<1>1. m.curr_bucket \in 0..total_buckets /\ m.contributed \in Seq(Reduced)
  BY DEF Manager
<1>2. k \in Int /\ k <= total_buckets - m.curr_bucket
  BY <1>1, BucketsPassed, Totals
<1>3. CASE ~m.active /\ k > 0
  <2>1. attempt_gvt(m, lo) = a
    BY <1>3 DEF attempt_gvt
  <2>2. Ready(k) \in Reduced /\ k \in 0..total_buckets /\ m.curr_bucket + k <= total_buckets
    <3> HIDE DEF k
    <3>1. k \in 0..total_buckets /\ m.curr_bucket + k <= total_buckets
      <4>1. total_buckets \in Nat /\ m.curr_bucket \in Nat
        BY <1>1, Totals
      <4>2. QED
        BY <1>1, <1>2, <1>3, <4>1
    <3>2. << >> \in Seq(Int)
      OBVIOUS
    <3>3. k \in -total_buckets..total_buckets
      BY <3>1, Totals
    <3>4. QED
      BY <3>1, <3>2, <3>3 DEF Ready, Reduced
  <2> HIDE DEF k
  <2>3. a = [m EXCEPT !.active = TRUE, !.contributed = Append(m.contributed, Ready(k))]
    BY DEF contribute, Manager
  <2>4. Append(m.contributed, Ready(k)) \in Seq(Reduced)
    BY <1>1, <2>2
  <2>5. /\ a \in Manager /\ a.counts = m.counts /\ a.curr_bucket = m.curr_bucket
        /\ a.active /\ a.contributed = Append(m.contributed, Ready(k))
    BY <2>3, <2>4 DEF Manager
  <2>6. QED
    BY <1>3, <2>1, <2>2, <2>5 DEF Attempted
<1>4. CASE ~(~m.active /\ k > 0)
  <2>1. attempt_gvt(m, lo) = m
    BY <1>4 DEF attempt_gvt
  <2>2. QED
    BY <2>1 DEF Attempted
<1>5. QED
  BY <1>3, <1>4

\* The counts contributed are the counts of the moment.
LEMMA SendCountsIs ==
  ASSUME NEW m \in Manager, NEW lo \in Time, Measured(m, lo),
         NEW n \in Nat, m.curr_bucket + n <= total_buckets
  PROVE  LET s == send_counts(m, lo, n) IN
         /\ s \in Manager /\ s.counts = m.counts /\ s.curr_bucket = m.curr_bucket
         /\ s.active = m.active
         /\ \E c \in Reduced :
              /\ s.contributed = Append(m.contributed, c)
              /\ c.of = "counts" /\ Len(c.d) = n /\ Within(c, m.curr_bucket)
              /\ Start(m.curr_bucket) <= lo => Untouched(m, lo, c)
<1> DEFINE k == buckets_passed(m, lo)
           d == [i \in 1..n |-> m.counts[m.curr_bucket + i - 1]]
           c == Counts(d, k)
           s == send_counts(m, lo, n)
<1>1. /\ m.curr_bucket \in 0..total_buckets /\ m.contributed \in Seq(Reduced)
      /\ m.counts \in [Bucket -> Int] /\ total_buckets \in Nat
  BY Starts DEF Manager
<1>2. /\ k \in -total_buckets..total_buckets /\ m.curr_bucket + k <= total_buckets
      /\ m.curr_bucket + k = BucketOf(lo) /\ BucketOf(lo) \in Nat
      /\ lo \in Nat /\ m.curr_bucket \in Nat
  <2>1. k = BucketOf(lo) - m.curr_bucket /\ BucketOf(lo) \in 0..total_buckets
        /\ m.curr_bucket \in 0..total_buckets /\ lo \in Nat
    BY <1>1, BucketsPassed
  <2> HIDE DEF k
  <2>2. QED
    BY <1>1, <2>1
<1>3. d \in Seq(Int) /\ Len(d) = n /\ \A i \in 1..n : d[i] = m.counts[m.curr_bucket + i - 1]
  <2>1. \A i \in 1..n : m.curr_bucket + i - 1 \in Bucket
    BY <1>1 DEF Bucket
  <2>2. \A i \in 1..n : m.counts[m.curr_bucket + i - 1] \in Int
    BY <1>1, <2>1
  <2>3. QED
    BY <2>2
<1> HIDE DEF k, d
<1>4. k \in -total_buckets..total_buckets /\ k \in Int /\ m.curr_bucket + k <= total_buckets
  BY <1>1, <1>2
<1>5. c \in Reduced /\ c.of = "counts" /\ c.d = d /\ c.passed = k
  BY <1>3, <1>4 DEF Counts, Reduced
<1> HIDE DEF c
<1>6. s = [m EXCEPT !.contributed = Append(m.contributed, c)]
  BY DEF send_counts, contribute, c, d, k
<1>7. Append(m.contributed, c) \in Seq(Reduced)
  BY <1>1, <1>5
<1>8. /\ s \in Manager /\ s.counts = m.counts /\ s.curr_bucket = m.curr_bucket
      /\ s.active = m.active /\ s.contributed = Append(m.contributed, c)
  BY <1>6, <1>7 DEF Manager
<1>9. Within(c, m.curr_bucket)
  BY <1>1, <1>3, <1>4, <1>5 DEF Within
<1>10. ASSUME Start(m.curr_bucket) <= lo PROVE Untouched(m, lo, c)
  <2> DEFINE r == Valid(c)
  <2>0. k \in Nat
    <3>1. m.curr_bucket <= BucketOf(lo)
      BY <1>2, <1>10, BucketOfTime
    <3>2. QED
      BY <1>2, <1>4, <3>1
  <2>1. r \in Nat /\ r <= k /\ r <= n
    BY <1>3, <1>4, <1>5, <2>0 DEF Valid
  <2> HIDE DEF r
  <2>2. \A i \in 1..r : c.d[i] = m.counts[m.curr_bucket + i - 1]
    BY <1>3, <1>5, <2>1
  <2>3. Start(m.curr_bucket + r) <= lo
    <3>1. m.curr_bucket + r \in Nat /\ m.curr_bucket + r <= BucketOf(lo)
      BY <1>2, <1>4, <2>1
    <3>2. QED
      BY <1>2, <3>1, BucketOfTime
  <2>4. r \in 0..Valid(c) /\ ~(r < Valid(c))
    BY <2>1 DEF r
  <2>5. QED
    BY <2>2, <2>3, <2>4 DEF Untouched, UntouchedUpTo
<1>11. QED
  BY <1>3, <1>5, <1>8, <1>9, <1>10

\* Two attempts are as good as one.
LEMMA AttemptedTwice ==
  ASSUME NEW m, NEW a, NEW b, Attempted(m, a), Attempted(a, b)
  PROVE  Attempted(m, b)
BY DEF Attempted

\* What is sent is counted under its phase, and a GVT may be attempted.
LEMMA ProducedIs ==
  ASSUME NEW m \in Manager, NEW S \in SUBSET (PE \X EventTime), IsFiniteSet(S),
         NEW f \in Time, Measured(m, f), NEW a \in produced(m, S, f)
  PROVE  /\ Attempted(m, a)
         /\ \A b \in Bucket : SentIn(S, b) \in Nat /\ a.counts[b] = m.counts[b] + SentIn(S, b)
<1> DEFINE n == counted(m, S)
<1>1. \A b \in Bucket : SentIn(S, b) \in Nat
  <2> TAKE b \in Bucket
  <2>1. IsFiniteSet({s \in S : phase(s[2]) = b})
    BY FS_Subset
  <2>2. QED
    BY <2>1, FS_CardinalityType DEF SentIn
<1>2. n = [m EXCEPT !.counts = [b \in Bucket |-> m.counts[b] + SentIn(S, b)]]
  BY DEF counted
<1>3. [b \in Bucket |-> m.counts[b] + SentIn(S, b)] \in [Bucket -> Int]
  BY <1>1 DEF Manager
<1>4. /\ n \in Manager /\ n.curr_bucket = m.curr_bucket /\ n.active = m.active
      /\ n.contributed = m.contributed
      /\ \A b \in Bucket : n.counts[b] = m.counts[b] + SentIn(S, b)
  BY <1>2, <1>3 DEF Manager
<1>5. CASE S = {}
  <2>1. a = m
    BY <1>5 DEF produced
  <2>2. \A b \in Bucket : SentIn(S, b) = 0
    BY <1>5, FS_EmptySet DEF SentIn
  <2>3. \A b \in Bucket : m.counts[b] \in Int
    BY DEF Manager
  <2>4. QED
    BY <1>1, <2>1, <2>2, <2>3 DEF Attempted
<1>6. CASE S # {}
  <2>1. PICK lo \in f..EndTime : a = attempt_gvt(n, lo)
    BY <1>6 DEF produced
  <2>2. lo \in Time /\ Measured(n, lo)
    <3>1. m.curr_bucket \in Nat /\ Start(m.curr_bucket) \in Nat
      BY Starts DEF Manager
    <3>2. f \in Nat
      BY Totals
    <3>3. lo \in Time /\ (Start(m.curr_bucket) <= f => Start(m.curr_bucket) <= lo)
      BY <3>1, <3>2, Totals
    <3>4. QED
      BY <1>4, <3>3 DEF Measured
  <2> HIDE DEF n
  <2>3. Attempted(n, a) /\ a.counts = n.counts
    BY <1>4, <2>1, <2>2, AttemptIs
  <2>4. QED
    BY <1>1, <1>4, <2>3 DEF Attempted
<1>7. QED
  BY <1>5, <1>6

\* What is received is counted off its phase, and a GVT may be attempted.
LEMMA ConsumeIs ==
  ASSUME NEW m \in Manager, NEW t \in EventTime, NEW lo \in Time, Measured(m, lo)
  PROVE  LET a == consume(m, t, lo) IN
         /\ Attempted(m, a)
         /\ \A b \in Bucket : a.counts[b] = m.counts[b] - IF b = phase(t) THEN 1 ELSE 0
<1> DEFINE k == phase(t)
           n == [m EXCEPT !.counts[k] = m.counts[k] - 1]
<1>1. k \in Bucket
  BY BucketOfTime
<1>2. consume(m, t, lo) = attempt_gvt(n, lo)
  BY DEF consume
<1> HIDE DEF k
<1>3. /\ n \in Manager /\ n.curr_bucket = m.curr_bucket /\ n.active = m.active
      /\ n.contributed = m.contributed
      /\ \A b \in Bucket : n.counts[b] = IF b = k THEN m.counts[k] - 1 ELSE m.counts[b]
  <2> DEFINE c == [m.counts EXCEPT ![k] = m.counts[k] - 1]
  <2>1. m.counts \in [Bucket -> Int]
    BY DEF Manager
  <2>2. /\ c \in [Bucket -> Int]
        /\ \A b \in Bucket : c[b] = IF b = k THEN m.counts[k] - 1 ELSE m.counts[b]
    BY <1>1, <2>1
  <2>3. n = [m EXCEPT !.counts = c]
    BY DEF Manager
  <2> HIDE DEF c, n
  <2>4. QED
    BY <2>2, <2>3 DEF Manager
<1> HIDE DEF n
<1>4. Attempted(n, attempt_gvt(n, lo)) /\ attempt_gvt(n, lo).counts = n.counts
  BY <1>3, AttemptIs DEF Measured
<1>5. \A b \in Bucket : m.counts[b] \in Int
  BY DEF Manager
<1>6. \A b \in Bucket : n.counts[b] = m.counts[b] - IF b = k THEN 1 ELSE 0
  BY <1>3, <1>5
<1>7. QED
  BY <1>2, <1>3, <1>4, <1>6 DEF Attempted, k

-----------------------------------------------------------------------------
(***************************************************************************)
(* The rounds: what a step of one PE, or a reduction, does to where PEs    *)
(* are.                                                                    *)
(***************************************************************************)
Rounds == \A p \in PE : Staged(p) /\ Fits(p) /\ \A q \in PE : Together(p, q)

\* Sending and receiving begins a round, if anything.
LEMMA AttemptRounds ==
  ASSUME Core, NEW p \in PE, NEW a, Attempted(manager[p], a),
         manager' = [manager EXCEPT ![p] = a], results' = results
  PROVE  Rounds' /\ \A q \in PE : advanced(q)' = advanced(q)
<1>0. /\ manager \in [PE -> Manager] /\ results \in [PE -> Seq(Reduced)]
      /\ \A q \in PE : Staged(q) /\ Fits(q) /\ \A r \in PE : Together(q, r)
  BY DEF Core, TypeOK
<1>1. /\ manager'[p] = a /\ \A q \in PE : q # p => manager'[q] = manager[q]
      /\ \A q \in PE : manager'[q].curr_bucket = manager[q].curr_bucket
  BY <1>0 DEF Attempted
<1>2. \A q \in PE : (Told(q)' <=> Told(q)) /\ result(q)' = result(q) /\ results'[q] = results[q]
  BY DEF Told, result
<1>3. \A q \in PE : advanced(q)' = advanced(q)
  BY <1>1, <1>2 DEF advanced
<1>4. \A q \in PE : q # p => (Given(q)' <=> Given(q)) /\ contribution(q)' = contribution(q)
  BY <1>1 DEF Given, contribution
<1>5. CASE a.active = manager[p].active /\ a.contributed = manager[p].contributed
  <2>1. \A q \in PE : (Given(q)' <=> Given(q)) /\ contribution(q)' = contribution(q)
    BY <1>1, <1>4, <1>5 DEF Given, contribution
  <2>2. \A q \in PE : Staged(q)'
    BY <1>0, <1>1, <1>2, <1>5 DEF Staged
  <2>3. \A q \in PE : Fits(q)'
    BY <1>0, <1>1, <1>2, <2>1 DEF Fits
  <2>4. \A q, r \in PE : Together(q, r)'
    BY <1>0, <1>2, <1>3, <2>1 DEF Together, Follows, Gives
  <2>5. QED
    BY <1>3, <2>2, <2>3, <2>4 DEF Rounds
<1>6. CASE ~(a.active = manager[p].active /\ a.contributed = manager[p].contributed)
  <2>1. PICK k \in 0..total_buckets :
          /\ ~manager[p].active /\ a.active
          /\ a.contributed = Append(manager[p].contributed, Ready(k))
          /\ manager[p].curr_bucket + k <= total_buckets
    BY <1>6 DEF Attempted
  <2>2. manager[p].contributed = << >> /\ results[p] = << >>
    BY <1>0, <2>1 DEF Staged
  <2>3. a.contributed = <<Ready(k)>>
    BY <2>1, <2>2
  <2>4. ~Given(p) /\ ~Told(p) /\ Given(p)' /\ contribution(p)' = Ready(k)
    BY <1>1, <2>2, <2>3 DEF Given, Told, contribution
  <2>5. Ready(k) \in Reduced /\ Ready(k).of = "ready" /\ Ready(k).passed = k /\ Len(Ready(k).d) = 0
    <3>1. k \in -total_buckets..total_buckets /\ << >> \in Seq(Int)
      BY Totals
    <3>2. QED
      BY <3>1 DEF Ready, Reduced
  <2>6. Gives(p, "ready", 0)'
    BY <2>4, <2>5 DEF Gives
  <2>7. \A q \in PE : Staged(q)'
    BY <1>0, <1>1, <1>2, <2>1, <2>2, <2>3 DEF Staged
  <2>8. Within(Ready(k), manager[p].curr_bucket)
    <3>1. manager[p].curr_bucket \in Nat /\ manager[p].curr_bucket <= total_buckets
      BY <1>0, Totals DEF Manager
    <3>2. QED
      BY <2>1, <2>5, <3>1, Totals DEF Within
  <2>9. \A q \in PE : Fits(q)'
    BY <1>0, <1>1, <1>2, <1>4, <2>4, <2>8 DEF Fits
  <2>10. \A q \in PE : Given(q) /\ contribution(q).of = "ready" => Len(contribution(q).d) = 0
    BY <1>0 DEF Fits, Within
  <2>11. \A q, r \in PE : Together(q, r)'
    <3>1. ASSUME NEW q \in PE, NEW r \in PE PROVE Together(q, r)'
      <4>1. advanced(q)' = advanced(r)'
        BY <1>0, <1>3 DEF Together
      <4>2. ASSUME Told(q)' PROVE (Told(r)' /\ results'[r] = results'[q]) \/ (~Told(r)' /\ Follows(r, result(q))')
        <5>1. (Told(r) /\ results[r] = results[q]) \/ (~Told(r) /\ Follows(r, result(q)))
          BY <1>0, <1>2, <4>2 DEF Together
        <5>2. CASE r = p
          BY <1>2, <2>4, <2>6, <5>1, <5>2 DEF Follows, Gives
        <5>3. CASE r # p
          BY <1>2, <1>4, <5>1, <5>3 DEF Follows, Gives
        <5>4. QED
          BY <5>2, <5>3
      <4>3. ASSUME ~Told(q)', ~Told(r)', Given(q)'
            PROVE  \/ Gives(r, contribution(q).of, Len(contribution(q).d))'
                   \/ ~Given(r)' /\ contribution(q)'.of = "ready"
        <5>1. ~Told(q) /\ ~Told(r)
          BY <1>2, <4>3
        <5>2. CASE q = p
          <6>1. CASE r = p
            BY <2>4, <2>5, <2>6, <5>2, <6>1
          <6>2. CASE r # p
            <7>1. Given(r) => contribution(r).of = "ready" /\ Len(contribution(r).d) = 0
              BY <1>0, <2>4, <2>10, <5>1, <5>2 DEF Together, Gives
            <7>2. QED
              BY <1>4, <2>4, <2>5, <5>2, <6>2, <7>1 DEF Gives
          <6>3. QED
            BY <6>1, <6>2
        <5>3. CASE q # p
          <6>1. Given(q) /\ contribution(q)' = contribution(q)
            BY <1>4, <4>3, <5>3
          <6>2. \/ Gives(r, contribution(q).of, Len(contribution(q).d))
                \/ ~Given(r) /\ contribution(q).of = "ready"
            BY <1>0, <5>1, <6>1 DEF Together
          <6>3. CASE r = p
            BY <2>4, <2>6, <2>10, <6>1, <6>2, <6>3 DEF Gives
          <6>4. CASE r # p
            BY <1>4, <6>1, <6>2, <6>4 DEF Gives
          <6>5. QED
            BY <6>3, <6>4
        <5>4. QED
          BY <5>2, <5>3
      <4>4. QED
        BY <4>1, <4>2, <4>3 DEF Together
    <3>2. QED
      BY <3>1
  <2>12. QED
    BY <1>3, <2>7, <2>9, <2>11 DEF Rounds
<1>7. QED
  BY <1>5, <1>6

\* A PE that does what it is told goes where those that have done it are.
LEMMA FollowingRounds ==
  ASSUME Core, NEW p \in PE, NEW a \in Manager, NEW r, Told(p), r = result(p),
         manager' = [manager EXCEPT ![p] = a],
         results' = [results EXCEPT ![p] = Tail(results[p])],
         a.curr_bucket = advanced(p),
         \/ ~a.active /\ a.contributed = << >>
         \/ a.active /\ a.contributed = <<a.contributed[1]>>,
         Follows(p, r)',
         a.contributed # << >> => Within(a.contributed[1], a.curr_bucket)
  PROVE  Rounds' /\ \A q \in PE : advanced(q)' = advanced(q)
<1>0. /\ manager \in [PE -> Manager] /\ results \in [PE -> Seq(Reduced)]
      /\ \A q \in PE : Staged(q) /\ Fits(q) /\ \A s \in PE : Together(q, s)
  BY DEF Core, TypeOK
<1>1. /\ manager'[p] = a /\ \A q \in PE : q # p => manager'[q] = manager[q]
      /\ \A q \in PE : q # p => results'[q] = results[q]
  BY <1>0
<1>2. results'[p] = << >>
  <2> DEFINE x == results[p][1]
  <2>1. results[p] = <<x>>
    BY <1>0 DEF Staged, Told
  <2> HIDE DEF x
  <2>2. Tail(results[p]) = << >>
    BY <2>1
  <2>3. QED
    BY <1>0, <2>2
<1>3. ~Told(p)' /\ \A q \in PE : q # p => /\ (Told(q)' <=> Told(q)) /\ result(q)' = result(q)
                                          /\ (Given(q)' <=> Given(q)) /\ contribution(q)' = contribution(q)
  BY <1>1, <1>2 DEF Told, result, Given, contribution
<1>4. \A q \in PE : advanced(q)' = advanced(q)
  <2>1. advanced(p)' = advanced(p)
    <3>1. a.curr_bucket \in Nat
      BY Totals DEF Manager
    <3>2. advanced(p)' = a.curr_bucket + 0
      BY <1>1, <1>3 DEF advanced
    <3>3. QED
      BY <3>1, <3>2
  <2>2. \A q \in PE : q # p => advanced(q)' = advanced(q)
    BY <1>1, <1>3 DEF advanced
  <2>3. QED
    BY <2>1, <2>2
<1>5. \A q \in PE : Staged(q)'
  <2>1. Staged(p)'
    BY <1>1, <1>2 DEF Staged
  <2>2. \A q \in PE : q # p => Staged(q)'
    BY <1>0, <1>1 DEF Staged
  <2>3. QED
    BY <2>1, <2>2
<1>6. \A q \in PE : Fits(q)'
  <2>1. Fits(p)'
    BY <1>1, <1>3 DEF Fits, Given, contribution
  <2>2. \A q \in PE : q # p => Fits(q)'
    BY <1>0, <1>1, <1>3 DEF Fits
  <2>3. QED
    BY <2>1, <2>2
<1>7. \A q \in PE : Told(q) => result(q) = r /\ results[q] = results[p]
  BY <1>0 DEF Together, result
<1>8. \A q \in PE : ~Told(q) => Follows(q, r)
  BY <1>0 DEF Together
<1>9. \A q \in PE : q # p /\ ~Told(q) => Follows(q, r)'
  BY <1>3, <1>8 DEF Follows, Gives
<1>10. /\ Completed(r) \in Nat /\ r.passed \in Int
       /\ ~(r.passed > Completed(r) /\ r.passed <= Completed(r)) /\ "ready" # "counts"
  <2>1. r \in Reduced
    BY <1>0 DEF Fits, Within
  <2>2. QED
    BY <2>1, CompletedIs
<1>11. \A q, s \in PE : Together(q, s)'
  <2>1. ASSUME NEW q \in PE, NEW s \in PE PROVE Together(q, s)'
    <3>1. advanced(q)' = advanced(s)'
      BY <1>0, <1>4 DEF Together
    <3>2. ASSUME Told(q)' PROVE (Told(s)' /\ results'[s] = results'[q]) \/ (~Told(s)' /\ Follows(s, result(q))')
      <4>1. q # p /\ Told(q) /\ result(q)' = r /\ results'[q] = results[p]
        BY <1>1, <1>3, <1>7, <3>2
      <4>2. CASE s # p /\ Told(s)
        BY <1>1, <1>3, <1>7, <4>1, <4>2
      <4>3. CASE s = p \/ ~Told(s)
        <5>1. ~Told(s)' /\ Follows(s, r)'
          BY <1>3, <1>9, <4>3
        <5>2. Follows(s, result(q))'
          BY <4>1, <5>1 DEF Follows
        <5>3. QED
          BY <5>1, <5>2
      <4>4. QED
        BY <4>2, <4>3
    <3>3. ASSUME ~Told(q)', ~Told(s)', Given(q)'
          PROVE  \/ Gives(s, contribution(q).of, Len(contribution(q).d))'
                 \/ ~Given(s)' /\ contribution(q)'.of = "ready"
      <4>1. CASE q # p /\ s # p
        BY <1>0, <1>3, <3>3, <4>1 DEF Together, Gives
      <4>2. CASE q = p \/ s = p
        <5>1. Follows(q, r)' /\ Follows(s, r)'
          <6>1. (q = p \/ ~Told(q)) /\ (s = p \/ ~Told(s))
            BY <1>3, <3>3
          <6>2. QED
            BY <1>9, <6>1
        <5>2. \/ \E n : Gives(q, "counts", n)' /\ Gives(s, "counts", n)'
              \/ (~Given(q)' \/ Gives(q, "ready", 0)') /\ (~Given(s)' \/ Gives(s, "ready", 0)')
          <6>1. CASE r.of = "ready"
            <7>1. Gives(q, "counts", r.passed)' /\ Gives(s, "counts", r.passed)'
              BY <5>1, <6>1 DEF Follows
            <7>2. QED
              BY <7>1
          <6>2. CASE r.of = "counts" /\ r.passed > Completed(r)
            <7>1. /\ Gives(q, "counts", r.passed - Completed(r))'
                  /\ Gives(s, "counts", r.passed - Completed(r))'
              BY <5>1, <6>2, <1>10 DEF Follows
            <7>2. QED
              BY <7>1
          <6>3. CASE r.of = "counts" /\ r.passed <= Completed(r)
            BY <5>1, <6>3, <1>10 DEF Follows
          <6>4. QED
            BY <5>1, <6>1, <6>2, <6>3 DEF Follows
        <5>3. QED
          BY <3>3, <5>2 DEF Gives
      <4>3. QED
        BY <4>1, <4>2
    <3>4. QED
      BY <3>1, <3>2, <3>3 DEF Together
  <2>2. QED
    BY <2>1
<1>12. QED
  BY <1>4, <1>5, <1>6, <1>11 DEF Rounds

\* A reduction ends: all have contributed counts of the same buckets, or all
\* are ready, and all are to be told the sums and the fewest buckets passed.
Summed(c) ==
  /\ c \in Reduced
  /\ \A p \in PE : /\ Given(p) /\ ~Told(p) /\ contribution(p) \in Reduced
                   /\ c.of = contribution(p).of /\ Len(c.d) = Len(contribution(p).d)
                   /\ c.passed <= contribution(p).passed
  /\ \E p \in PE : c.passed = contribution(p).passed
  /\ \A i \in 1..Len(c.d) : c.d[i] = Balance([p \in PE |-> contribution(p).d[i]])

\* What a reduction computes, and what it leaves with the managers.
LEMMA ReduceIs ==
  ASSUME Core, reduce
  PROVE  \E c \in Reduced :
           /\ Summed(c)
           /\ results' = [p \in PE |-> <<c>>]
           /\ \A p \in PE : /\ manager'[p] \in Manager /\ manager'[p].contributed = << >>
                            /\ manager'[p].active /\ manager'[p].counts = manager[p].counts
                            /\ manager'[p].curr_bucket = manager[p].curr_bucket
<1> DEFINE first == [p \in PE |-> Head(manager[p].contributed)]
           ds == [i \in DOMAIN first[Root].d |-> Balance([p \in PE |-> first[p].d[i]])]
           k == Min({first[p].passed : p \in PE})
           c == [of |-> first[Root].of, d |-> ds, passed |-> k]
<1>0. /\ manager \in [PE -> Manager] /\ results \in [PE -> Seq(Reduced)]
      /\ \A q \in PE : Staged(q) /\ Fits(q) /\ \A s \in PE : Together(q, s)
  BY DEF Core, TypeOK
<1>1. \A p \in PE : Given(p)
  BY DEF reduce, Given
<1>2. ASSUME NEW p \in PE
      PROVE  /\ first[p] = contribution(p) /\ ~Told(p) /\ contribution(p) \in Reduced
             /\ manager[p].active /\ Tail(manager[p].contributed) = << >>
  <2> DEFINE x == manager[p].contributed[1]
  <2>1. manager[p].contributed = <<x>> /\ results[p] = << >> /\ manager[p].active
    BY <1>0, <1>1 DEF Staged, Given
  <2>2. x \in Reduced
    BY <1>0, <1>1 DEF Fits, Within, contribution
  <2>3. x = contribution(p)
    BY DEF contribution
  <2> HIDE DEF x
  <2>4. Head(manager[p].contributed) = x /\ Tail(manager[p].contributed) = << >>
    BY <2>1
  <2>5. QED
    BY <2>1, <2>2, <2>3, <2>4 DEF Told
<1>3. ASSUME NEW p \in PE, NEW q \in PE
      PROVE  contribution(q).of = contribution(p).of /\ Len(contribution(q).d) = Len(contribution(p).d)
  BY <1>0, <1>1, <1>2 DEF Together, Gives
<1>4. results' = [p \in PE |-> Append(results[p], c)]
  BY DEF reduce
<1>5. manager' = [p \in PE |-> [manager[p] EXCEPT !.contributed = Tail(manager[p].contributed)]]
  BY DEF reduce
<1>6. \A p \in PE : first[p].passed \in -total_buckets..total_buckets /\ first[p].of \in {"ready", "counts"}
                    /\ first[p].d \in Seq(Int)
  BY <1>2 DEF Reduced
<1>7. /\ k \in -total_buckets..total_buckets
      /\ \E p \in PE : k = contribution(p).passed
      /\ \A p \in PE : k <= contribution(p).passed
  <2> DEFINE K == {first[p].passed : p \in PE}
  <2>1. K \in SUBSET (-total_buckets..total_buckets) /\ K # {}
    BY <1>6, RootAssumption
  <2>2. \A x : x \in K <=> \E p \in PE : x = contribution(p).passed
    BY <1>2
  <2> HIDE DEF K
  <2>3. Min(K) \in K /\ \A x \in K : Min(K) <= x
    BY <2>1, Totals, MinIsLeastFrom
  <2>4. /\ Min(K) \in -total_buckets..total_buckets
        /\ \E p \in PE : Min(K) = contribution(p).passed
        /\ \A p \in PE : Min(K) <= contribution(p).passed
    BY <2>1, <2>2, <2>3
  <2>5. QED
    BY <2>4 DEF K
<1>8. ds \in Seq(Int) /\ Len(ds) = Len(first[Root].d)
      /\ \A i \in 1..Len(ds) : ds[i] = Balance([p \in PE |-> contribution(p).d[i]])
  <2> DEFINE n == Len(first[Root].d)
  <2>1. n \in Nat /\ DOMAIN first[Root].d = 1..n
    BY <1>6, RootAssumption
  <2>2. \A p \in PE : Len(contribution(p).d) = n /\ contribution(p).d \in Seq(Int)
    BY <1>2, <1>3, <1>6, RootAssumption
  <2>3. ASSUME NEW i \in 1..n
        PROVE  /\ Balance([p \in PE |-> contribution(p).d[i]]) \in Int
               /\ [p \in PE |-> first[p].d[i]] = [p \in PE |-> contribution(p).d[i]]
    <3>1. ASSUME NEW p \in PE PROVE contribution(p).d[i] \in Int
      <4> DEFINE s == contribution(p).d
      <4>1. s \in Seq(Int) /\ i \in 1..Len(s)
        BY <2>1, <2>2
      <4> HIDE DEF s
      <4>2. s[i] \in Int
        BY <4>1
      <4>3. QED
        BY <4>2 DEF s
    <3>2. [p \in PE |-> contribution(p).d[i]] \in [PE -> Int]
      BY <3>1
    <3>3. [p \in PE |-> first[p].d[i]] = [p \in PE |-> contribution(p).d[i]]
      BY <1>2
    <3>4. QED
      BY <3>2, <3>3, BalanceIs
  <2> DEFINE t(i) == Balance([p \in PE |-> contribution(p).d[i]])
  <2>4. ds = [i \in 1..n |-> t(i)]
    BY <2>1, <2>3
  <2>5. \A i \in 1..n : t(i) \in Int
    BY <2>3
  <2> HIDE DEF first, t, ds, n
  <2>6. ds \in Seq(Int) /\ Len(ds) = n /\ \A i \in 1..Len(ds) : ds[i] = t(i)
    BY <2>1, <2>4, <2>5
  <2>7. QED
    BY <2>6 DEF n, t
<1> HIDE DEF ds, k
<1>9. c \in Reduced /\ c.of = first[Root].of /\ c.d = ds /\ c.passed = k
  BY <1>6, <1>7, <1>8, RootAssumption DEF Reduced
<1> HIDE DEF c, first
<1>10. \A p \in PE : c.of = contribution(p).of /\ Len(c.d) = Len(contribution(p).d)
  BY <1>2, <1>3, <1>8, <1>9, RootAssumption
<1>11. Summed(c)
  BY <1>1, <1>2, <1>7, <1>8, <1>9, <1>10 DEF Summed
<1>12. results' = [p \in PE |-> <<c>>]
  <2>1. \A p \in PE : results[p] = << >>
    BY <1>2 DEF Told
  <2>2. results' = [p \in PE |-> Append(<< >>, c)]
    BY <1>4, <2>1
  <2>3. QED
    BY <2>2
<1>13. \A p \in PE : /\ manager'[p] \in Manager /\ manager'[p].contributed = << >>
                     /\ manager'[p].active /\ manager'[p].counts = manager[p].counts
                     /\ manager'[p].curr_bucket = manager[p].curr_bucket
  <2> TAKE p \in PE
  <2>1. manager'[p] = [manager[p] EXCEPT !.contributed = << >>]
    BY <1>2, <1>5
  <2>2. << >> \in Seq(Reduced) /\ manager[p] \in Manager
    BY <1>0
  <2>3. QED
    BY <1>2, <2>1, <2>2 DEF Manager
<1>14. QED
  BY <1>9, <1>11, <1>12, <1>13

\* After it all PEs are to be told one thing.
LEMMA ReduceRounds ==
  ASSUME Core, NEW c \in Reduced, Summed(c),
         \A p \in PE : results'[p] = <<c>>,
         \A p \in PE : /\ manager'[p].contributed = << >> /\ manager'[p].active
                       /\ manager'[p].curr_bucket = manager[p].curr_bucket
  PROVE  /\ Rounds'
         /\ \A p, q \in PE : manager[p].curr_bucket = manager[q].curr_bucket
         /\ \A p \in PE : /\ Told(p)' /\ result(p)' = c /\ Within(c, manager[p].curr_bucket)
                          /\ advanced(p)' = manager[p].curr_bucket
                                            + IF c.of = "counts" THEN Completed(c) ELSE 0
<1>0. /\ manager \in [PE -> Manager]
      /\ \A q \in PE : Staged(q) /\ Fits(q) /\ \A s \in PE : Together(q, s)
  BY DEF Core, TypeOK
<1>1. ASSUME NEW p \in PE, NEW q \in PE PROVE manager[p].curr_bucket = manager[q].curr_bucket
  <2>1. manager[p].curr_bucket \in Nat /\ manager[q].curr_bucket \in Nat
    BY <1>0, Totals DEF Manager
  <2>2. manager[p].curr_bucket + 0 = manager[q].curr_bucket + 0
    BY <1>0 DEF Together, advanced, Summed
  <2>3. QED
    BY <2>1, <2>2
<1>2. \A p \in PE : Told(p)' /\ result(p)' = c /\ ~Given(p)'
  BY DEF Told, result, Given
<1>3. ASSUME NEW p \in PE PROVE Within(c, manager[p].curr_bucket)
  <2>1. Within(contribution(p), manager[p].curr_bucket) /\ contribution(p) \in Reduced
    BY <1>0 DEF Fits, Summed
  <2>2. /\ c.passed \in Int /\ contribution(p).passed \in Int /\ Len(c.d) \in Nat
        /\ manager[p].curr_bucket \in Nat /\ total_buckets \in Nat
    BY <1>0, <2>1, CompletedIs, Totals DEF Manager
  <2>3. /\ c.of = contribution(p).of /\ Len(c.d) = Len(contribution(p).d)
        /\ c.passed <= contribution(p).passed
    BY DEF Summed
  <2>4. c.of = "ready" => c.passed >= 0
    <3>1. PICK q \in PE : c.passed = contribution(q).passed
      BY DEF Summed
    <3>2. c.of = contribution(q).of /\ Within(contribution(q), manager[q].curr_bucket)
      BY <1>0 DEF Summed, Fits
    <3>3. QED
      BY <3>1, <3>2 DEF Within
  <2>5. QED
    BY <2>1, <2>2, <2>3, <2>4 DEF Within
<1>4. ASSUME NEW p \in PE
      PROVE  /\ Staged(p)' /\ Fits(p)'
             /\ advanced(p)' = manager[p].curr_bucket + IF c.of = "counts" THEN Completed(c) ELSE 0
  <2>1. results'[p] = <<c>> /\ results'[p][1] = c
    OBVIOUS
  <2>2. Staged(p)'
    BY <2>1 DEF Staged
  <2>3. Fits(p)'
    BY <1>2, <1>3 DEF Fits
  <2>4. advanced(p)' = manager[p].curr_bucket + IF c.of = "counts" THEN Completed(c) ELSE 0
    BY <1>2 DEF advanced
  <2>5. QED
    BY <2>2, <2>3, <2>4
<1>5. ASSUME NEW p \in PE, NEW q \in PE PROVE Together(p, q)'
  BY <1>1, <1>2, <1>4 DEF Together
<1>6. QED
  BY <1>1, <1>2, <1>3, <1>4, <1>5 DEF Rounds

-----------------------------------------------------------------------------
(***************************************************************************)
(* The counts: what work and messages do to those that are contributed and *)
(* wait for their reduction.                                               *)
(***************************************************************************)

\* A bucket among those counted, or the next one, is a bucket.
LEMMA Reached ==
  ASSUME NEW m \in Manager, NEW c \in Reduced, Within(c, m.curr_bucket), NEW r \in 0..Valid(c)
  PROVE  /\ r \in Nat /\ m.curr_bucket \in Nat /\ m.curr_bucket + r \in Nat
         /\ Valid(c) \in Nat /\ r <= Valid(c) /\ Valid(c) <= Len(c.d) /\ Valid(c) <= c.passed
         /\ m.curr_bucket + r <= total_buckets
         /\ r < Valid(c) => m.curr_bucket + r \in Bucket
         /\ \A i \in 1..r : /\ m.curr_bucket + i - 1 \in Bucket /\ m.curr_bucket + i - 1 \in Nat
                            /\ m.curr_bucket + i - 1 < m.curr_bucket + r
<1>1. m.curr_bucket \in Nat /\ total_buckets \in Nat
  BY Totals DEF Manager
<1>2. c.passed \in Int /\ Len(c.d) \in Nat /\ 0 <= Valid(c)
  <2>1. c.passed \in Int /\ Len(c.d) \in Nat
    BY CompletedIs
  <2>2. QED
    BY <2>1 DEF Valid
<1>3. m.curr_bucket + c.passed <= total_buckets /\ m.curr_bucket + Len(c.d) <= total_buckets
  BY DEF Within
<1>4. Valid(c) \in Nat /\ Valid(c) <= Len(c.d) /\ Valid(c) <= c.passed
  BY <1>2 DEF Valid
<1>5. QED
  BY <1>1, <1>2, <1>3, <1>4 DEF Bucket

\* Work sends into no bucket that has begun, so it leaves the counts contributed
\* as fresh as they were.
LEMMA UntouchedWork ==
  ASSUME NEW m \in Manager, NEW a \in Manager, a.curr_bucket = m.curr_bucket,
         NEW c \in Reduced, Within(c, m.curr_bucket),
         NEW lo \in Time, NEW lo2 \in Time, lo <= lo2,
         \A b \in Bucket : Start(b) <= lo => a.counts[b] = m.counts[b],
         Untouched(m, lo, c)
  PROVE  Untouched(a, lo2, c)
<1>1. PICK r \in 0..Valid(c) : UntouchedUpTo(r, m, lo, c)
  BY DEF Untouched
<1> DEFINE cur == m.curr_bucket
<1>2. /\ r \in Nat /\ cur \in Nat /\ cur + r \in Nat
      /\ r < Valid(c) => cur + r \in Bucket
      /\ \A i \in 1..r : cur + i - 1 \in Bucket /\ cur + i - 1 \in Nat /\ cur + i - 1 < cur + r
  BY Reached
<1>3. /\ \A i \in 1..r : c.d[i] = m.counts[cur + i - 1]
      /\ Start(cur + r) <= lo
      /\ r < Valid(c) => m.counts[cur + r] < c.d[r + 1]
  BY <1>1 DEF UntouchedUpTo
<1> HIDE DEF cur
<1>4. lo \in Nat /\ lo2 \in Nat /\ Start(cur + r) \in Nat
  <2>1. Start(cur + r) \in Nat
    BY <1>2, Starts
  <2>2. QED
    BY <2>1, Totals
<1>5. Start(cur + r) <= lo2
  BY <1>3, <1>4
<1>6. ASSUME NEW i \in 1..r PROVE c.d[i] = a.counts[cur + i - 1]
  <2> DEFINE x == cur + i - 1
  <2>1. x \in Nat /\ x <= cur + r /\ x \in Bucket
    <3>1. x \in Nat /\ x < cur + r /\ x \in Bucket
      BY <1>2, Zenon
    <3>2. QED
      BY <1>2, <3>1
  <2> HIDE DEF x
  <2>2. Start(x) <= Start(cur + r) /\ Start(x) \in Nat
    BY <1>2, <2>1, Starts
  <2>3. Start(x) <= lo
    BY <1>3, <1>4, <2>2
  <2>4. a.counts[x] = m.counts[x]
    BY <2>1, <2>3
  <2>5. QED
    BY <1>3, <2>4 DEF x
<1>7. r < Valid(c) => a.counts[cur + r] < c.d[r + 1]
  BY <1>2, <1>3
<1>8. UntouchedUpTo(r, a, lo2, c)
  BY <1>5, <1>6, <1>7 DEF UntouchedUpTo, cur
<1>9. QED
  BY <1>8 DEF Untouched

\* A message received takes one off its bucket: if that was still as contributed,
\* it is the first that no longer is.  The messages that the rollback sends are
\* in later buckets.
LEMMA UntouchedReceive ==
  ASSUME NEW m \in Manager, NEW a \in Manager, a.curr_bucket = m.curr_bucket,
         NEW c \in Reduced, Within(c, m.curr_bucket),
         NEW t \in EventTime, Start(m.curr_bucket) <= t,
         NEW lo \in Time, NEW lo2 \in Time, Earlier(lo, t) <= lo2,
         \A b \in Bucket : Start(b) <= t =>
           a.counts[b] = m.counts[b] - IF b = BucketOf(t) THEN 1 ELSE 0,
         Untouched(m, lo, c)
  PROVE  Untouched(a, lo2, c)
<1>1. PICK r \in 0..Valid(c) : UntouchedUpTo(r, m, lo, c)
  BY DEF Untouched
<1> DEFINE cur == m.curr_bucket
           at == BucketOf(t)
<1>2. /\ r \in Nat /\ cur \in Nat /\ cur + r \in Nat /\ Valid(c) \in Nat /\ r <= Valid(c)
      /\ r < Valid(c) => cur + r \in Bucket
      /\ \A i \in 1..r : cur + i - 1 \in Bucket /\ cur + i - 1 \in Nat /\ cur + i - 1 < cur + r
  BY Reached
<1>3. /\ \A i \in 1..r : c.d[i] = m.counts[cur + i - 1]
      /\ Start(cur + r) <= lo
      /\ r < Valid(c) => m.counts[cur + r] < c.d[r + 1]
  BY <1>1 DEF UntouchedUpTo
<1>4. \A b \in Bucket : m.counts[b] \in Int
  BY DEF Manager
<1>5. /\ lo \in Nat /\ lo2 \in Nat /\ t \in Nat
      /\ Start(cur + r) \in Nat
      /\ Earlier(lo, t) = IF lo <= t THEN lo ELSE t
  <2>1. Start(cur + r) \in Nat
    BY <1>2, Starts
  <2>2. QED
    BY <2>1, Totals DEF EventTime, Earlier
<1>6. /\ at \in Bucket /\ at \in Nat /\ Start(at) <= t
      /\ \A b \in Nat : Start(b) <= t <=> b <= at
  <2>1. at \in Bucket
    BY BucketOfTime
  <2>2. QED
    BY <1>5, <2>1, BucketOfTime, Zenon
<1>7. cur <= at
  BY <1>2, <1>6
<1>8. \A b \in Bucket : b < at => a.counts[b] = m.counts[b]
  <2>1. ASSUME NEW b \in Bucket, b < at PROVE a.counts[b] = m.counts[b]
    <3>1. b \in Nat /\ b # at /\ b <= at
      BY <1>6, <2>1, Totals DEF Bucket
    <3>2. Start(b) <= t
      BY <1>6, <3>1
    <3>3. a.counts[b] = m.counts[b] - 0
      BY <3>1, <3>2
    <3>4. QED
      BY <1>4, <3>3
  <2>2. QED
    BY <2>1
<1>9. a.counts[at] = m.counts[at] - 1
  BY <1>6
<1> HIDE DEF cur, at
<1>10. CASE cur + r <= at
  <2>1. Start(cur + r) <= t
    BY <1>2, <1>6, <1>10
  <2>2. Start(cur + r) <= lo2
    BY <1>3, <1>5, <2>1
  <2>3. \A i \in 1..r : c.d[i] = a.counts[cur + i - 1]
    <3>1. ASSUME NEW i \in 1..r PROVE c.d[i] = a.counts[cur + i - 1]
      <4>1. cur + i - 1 \in Bucket /\ cur + i - 1 < at
        BY <1>2, <1>6, <1>10
      <4>2. QED
        BY <1>3, <1>8, <4>1
    <3>2. QED
      BY <3>1
  <2>4. r < Valid(c) => a.counts[cur + r] < c.d[r + 1]
    <3>1. SUFFICES ASSUME r < Valid(c) PROVE a.counts[cur + r] < c.d[r + 1]
      OBVIOUS
    <3>2. cur + r \in Bucket /\ m.counts[cur + r] \in Int /\ m.counts[cur + r] < c.d[r + 1]
      BY <1>2, <1>3, <1>4, <3>1
    <3>3. CASE cur + r < at
      BY <1>8, <3>2, <3>3
    <3>4. CASE cur + r = at
      <4>1. r + 1 \in 1..Len(c.d) /\ c.d[r + 1] \in Int
        <5>1. r + 1 \in 1..Len(c.d)
          BY <1>2, <3>1, Reached
        <5>2. QED
          BY <5>1, CompletedIs
      <4>2. QED
        BY <1>9, <3>2, <3>4, <4>1
    <3>5. QED
      BY <1>2, <1>6, <1>10, <3>3, <3>4
  <2>5. UntouchedUpTo(r, a, lo2, c)
    BY <2>2, <2>3, <2>4 DEF UntouchedUpTo, cur
  <2>6. QED
    BY <2>5 DEF Untouched
<1>11. CASE ~(cur + r <= at)
  <2> DEFINE k == at - cur
  <2>1. k \in Nat /\ k < r /\ cur + k = at /\ k \in 0..Valid(c)
    BY <1>2, <1>6, <1>7, <1>11
  <2>2. Start(cur + k) <= lo2
    <3>1. Start(at) <= Start(cur + r) /\ Start(at) \in Nat
      BY <1>2, <1>6, <1>11, Starts
    <3>2. Start(at) <= lo2
      BY <1>3, <1>5, <1>6, <3>1
    <3>3. QED
      BY <2>1, <3>2
  <2> HIDE DEF k
  <2>3. \A i \in 1..k : c.d[i] = a.counts[cur + i - 1]
    <3>1. ASSUME NEW i \in 1..k PROVE c.d[i] = a.counts[cur + i - 1]
      <4>1. i \in 1..r /\ cur + i - 1 < at
        BY <1>2, <2>1
      <4>2. cur + i - 1 \in Bucket
        BY <1>2, <4>1
      <4>3. QED
        BY <1>3, <1>8, <4>1, <4>2
    <3>2. QED
      BY <3>1
  <2>4. a.counts[cur + k] < c.d[k + 1]
    <3>1. k + 1 \in 1..r /\ cur + (k + 1) - 1 = at
      BY <1>2, <1>6, <2>1
    <3>2. c.d[k + 1] = m.counts[at]
      BY <1>3, <3>1
    <3>3. m.counts[at] \in Int
      BY <1>4, <1>6
    <3>4. QED
      BY <1>9, <2>1, <3>2, <3>3
  <2>5. UntouchedUpTo(k, a, lo2, c)
    BY <2>2, <2>3, <2>4 DEF UntouchedUpTo, cur
  <2>6. QED
    BY <2>1, <2>5 DEF Untouched
<1>12. QED
  BY <1>10, <1>11

\* What is sent is past the bucket of the time it is sent on behalf of.
SetPast(f, S) ==
  \A s \in S : BucketOf(f) < BucketOf(s[2]) /\ BucketOf(s[2]) < PhaseValues

\* SentPast() speaks of the messages added to those in flight.
LEMMA SentPastIs ==
  ASSUME NEW f, NEW before \in Flights, NEW S \in SUBSET (PE \X EventTime),
         net' = Put(before, S), SentPast(f, before)
  PROVE  SetPast(f, S)
<1> SUFFICES ASSUME NEW s \in S
             PROVE  BucketOf(f) < BucketOf(s[2]) /\ BucketOf(s[2]) < PhaseValues
  BY DEF SetPast
<1>1. PICK q \in PE, t \in EventTime : s = <<q, t>>
  OBVIOUS
<1>2. before[q][t] \in Nat /\ net'[q][t] = before[q][t] + 1
  BY <1>1, PutType DEF Flights
<1>3. BucketOf(f) < BucketOf(t) /\ BucketOf(t) < PhaseValues
  BY <1>2 DEF SentPast
<1>4. s[2] = t
  BY <1>1
<1>5. QED
  BY <1>3, <1>4

\* Such messages are counted in no bucket that has begun.
LEMMA SentAhead ==
  ASSUME NEW f \in Time, NEW S \in SUBSET (PE \X EventTime), SetPast(f, S),
         NEW b \in Bucket, Start(b) <= f
  PROVE  SentIn(S, b) = 0
<1>1. ASSUME NEW s \in S PROVE phase(s[2]) # b
  <2>1. s[2] \in EventTime /\ BucketOf(f) < BucketOf(s[2]) /\ BucketOf(s[2]) < PhaseValues
    BY DEF SetPast
  <2>2. f \in Nat /\ b \in Nat
    BY Totals DEF Bucket
  <2>3. phase(s[2]) = BucketOf(s[2]) /\ BucketOf(s[2]) \in Nat
    BY <2>1, Totals, BucketOfTime DEF Bucket
  <2>4. b <= BucketOf(f) /\ BucketOf(f) \in Nat
    BY <2>2, BucketOfTime
  <2>5. QED
    BY <2>1, <2>2, <2>3, <2>4
<1>2. {s \in S : phase(s[2]) = b} = {}
  BY <1>1
<1>3. QED
  BY <1>2, FS_EmptySet DEF SentIn

\* When the sums of all PEs agree up to some bucket, no PE has changed its counts
\* there since it contributed them: the first to receive in such a bucket would
\* have left fewer counted than are in flight.
LEMMA NoneTouched ==
  ASSUME IInv, NEW c \in Reduced, Summed(c), c.of = "counts",
         NEW cur \in Nat, \A p \in PE : manager[p].curr_bucket = cur,
         NEW p \in PE, NEW r \in 0..Valid(contribution(p)),
         UntouchedUpTo(r, manager[p], low[p], contribution(p))
  PROVE  Completed(c) <= r
<1> DEFINE n == Completed(c)
           e(q) == contribution(q)
           W == {x \in Nat : x < n /\ \E q \in PE : UntouchedUpTo(x, manager[q], low[q], e(q))}
<1>0. /\ manager \in [PE -> Manager] /\ net \in Flights /\ Accounted
      /\ \A q \in PE : Given(q) /\ Snapshot(q) /\ Within(e(q), cur) /\ e(q) \in Reduced
  BY DEF IInv, Core, TypeOK, Summed, Fits
<1>1. /\ n \in Nat /\ (n = 0 \/ n <= c.passed) /\ n <= Len(c.d) /\ \A i \in 1..n : c.d[i] = 0
      /\ c.passed \in Int /\ Len(c.d) \in Nat
  <2>1. n \in Nat /\ (n = 0 \/ n \in 1..n)
    BY CompletedIs
  <2>2. QED
    BY <2>1, CompletedIs
<1>2. ASSUME NEW q \in PE
      PROVE  /\ Valid(e(q)) \in Nat /\ n <= Valid(e(q)) /\ Valid(e(q)) <= Len(e(q).d)
             /\ Untouched(manager[q], low[q], e(q))
  <2>1. e(q).of = "counts" /\ Len(e(q).d) = Len(c.d) /\ c.passed <= e(q).passed
    BY DEF Summed
  <2>2. e(q).passed \in Int /\ Len(e(q).d) \in Nat
    BY <1>0, CompletedIs
  <2>3. Untouched(manager[q], low[q], e(q))
    BY <1>0, <2>1 DEF Snapshot
  <2> HIDE DEF e, n
  <2>4. Valid(e(q)) \in Nat /\ n <= Valid(e(q)) /\ Valid(e(q)) <= Len(e(q).d)
    <3>1. PICK x \in 0..Valid(e(q)) : TRUE
      BY <2>3 DEF Untouched
    <3>2. 0 <= Valid(e(q))
      BY <2>2, <3>1 DEF Valid
    <3>3. QED
      BY <1>1, <2>1, <2>2, <3>2 DEF Valid
  <2>5. QED
    BY <2>3, <2>4
<1> HIDE DEF n, e
<1>3. SUFFICES ASSUME ~(n <= r) PROVE FALSE
  BY DEF n
<1>4. r \in Nat
  BY <1>2 DEF e
<1>5. r \in W
  BY <1>1, <1>3, <1>4 DEF e
<1> DEFINE s == Min(W)
<1>6. s \in W /\ \A x \in W : s <= x
  <2>1. W \in SUBSET Nat /\ W # {}
    BY <1>5
  <2> HIDE DEF W
  <2>2. QED
    BY <2>1, MinIsLeast
<1>7. s \in Nat /\ s < n
  BY <1>6
<1>8. PICK q \in PE : UntouchedUpTo(s, manager[q], low[q], e(q))
  BY <1>6
<1>9. ASSUME NEW k \in PE PROVE \E x \in 0..Valid(e(k)) : s <= x /\ UntouchedUpTo(x, manager[k], low[k], e(k))
  <2>1. PICK x \in 0..Valid(e(k)) : UntouchedUpTo(x, manager[k], low[k], e(k))
    BY <1>2 DEF Untouched
  <2>2. x \in Nat
    BY <1>2
  <2>3. s <= x
    <3>1. CASE x < n
      BY <1>6, <2>1, <2>2, <3>1
    <3>2. CASE ~(x < n)
      BY <1>1, <1>7, <2>2, <3>2
    <3>3. QED
      BY <3>1, <3>2
  <2>4. QED
    BY <2>1, <2>3
<1> HIDE DEF s, W
<1> DEFINE b == cur + s
           F == Held(b)
           G == [k \in PE |-> e(k).d[s + 1]]
<1>10. b \in Bucket /\ s + 1 \in 1..n
  <2>1. cur + Len(e(p).d) <= total_buckets /\ n <= Valid(e(p)) /\ Valid(e(p)) <= Len(e(p).d)
        /\ Len(e(p).d) \in Nat
    BY <1>0, <1>2, CompletedIs DEF Within
  <2>2. QED
    BY <1>1, <1>2, <1>7, <2>1, Totals DEF Bucket
<1>11. ASSUME NEW k \in PE
       PROVE  /\ manager[k].counts[b] \in Int /\ e(k).d[s + 1] \in Int
              /\ manager[k].counts[b] <= e(k).d[s + 1]
              /\ UntouchedUpTo(s, manager[k], low[k], e(k)) => manager[k].counts[b] < e(k).d[s + 1]
  <2>1. manager[k].counts[b] \in Int
    BY <1>0, <1>10 DEF Manager
  <2>2. s + 1 \in 1..Len(e(k).d) /\ s < Valid(e(k))
    <3>1. Len(e(k).d) \in Nat
      BY <1>0, CompletedIs
    <3>2. QED
      BY <1>1, <1>2, <1>7, <3>1
  <2>3. e(k).d[s + 1] \in Int
    BY <1>0, <2>2, CompletedIs
  <2>4. UntouchedUpTo(s, manager[k], low[k], e(k)) => manager[k].counts[b] < e(k).d[s + 1]
    BY <2>2 DEF UntouchedUpTo
  <2>5. PICK x \in 0..Valid(e(k)) : s <= x /\ UntouchedUpTo(x, manager[k], low[k], e(k))
    BY <1>9
  <2>6. CASE x = s
    BY <2>1, <2>3, <2>4, <2>5, <2>6
  <2>7. CASE x # s
    <3>1. x \in Nat /\ s + 1 \in 1..x /\ cur + (s + 1) - 1 = b
      BY <1>2, <1>7, <2>5, <2>7
    <3>2. e(k).d[s + 1] = manager[k].counts[b]
      BY <2>5, <3>1 DEF UntouchedUpTo
    <3>3. QED
      BY <2>1, <2>3, <2>4, <3>2
  <2>8. QED
    BY <2>1, <2>3, <2>4, <2>6, <2>7
<1> HIDE DEF b
<1>12. /\ F \in [PE -> Int] /\ G \in [PE -> Int] /\ \A k \in PE : F[k] <= G[k]
       /\ F[q] < G[q]
  BY <1>8, <1>11 DEF Held
<1> HIDE DEF F, G
<1>13. Balance(F) < Balance(G) /\ Balance(F) \in Int /\ Balance(G) \in Int
  BY <1>12, BalanceGreater, BalanceIs
<1>14. Balance(G) = 0
  <2>1. c.d[s + 1] = 0 /\ s + 1 \in 1..Len(c.d)
    BY <1>1, <1>10
  <2>2. c.d[s + 1] = Balance([k \in PE |-> contribution(k).d[s + 1]])
    BY <2>1 DEF Summed
  <2>3. QED
    BY <2>1, <2>2 DEF G, e
<1>15. Balance(F) = Flying(Inside(net, b)) /\ Flying(Inside(net, b)) \in Nat
  BY <1>0, <1>10, InsideNone DEF Accounted, F
<1>16. QED
  BY <1>13, <1>14, <1>15

\* So the buckets whose sums agree are over: every PE is past them, and nothing
\* in flight is in them.
LEMMA ReduceFloors ==
  ASSUME IInv, NEW c \in Reduced, Summed(c), c.of = "counts",
         NEW cur \in Nat, \A p \in PE : manager[p].curr_bucket = cur
  PROVE  IsFloor(Start(cur + Completed(c)), low, net)
<1> DEFINE n == Completed(c)
           e(q) == contribution(q)
<1>0. /\ manager \in [PE -> Manager] /\ net \in Flights /\ Accounted /\ low \in [PE -> Time]
      /\ \A q \in PE : /\ Given(q) /\ ~Told(q) /\ Snapshot(q) /\ Within(e(q), cur) /\ e(q) \in Reduced
                       /\ e(q).of = "counts" /\ Len(e(q).d) = Len(c.d)
      /\ Floors /\ InPhase
  BY DEF IInv, Core, TypeOK, Summed, Fits
<1>1. /\ n \in Nat /\ n <= Len(c.d) /\ \A i \in 1..n : c.d[i] = 0
      /\ Len(c.d) \in Nat /\ \A i \in 1..Len(c.d) : c.d[i] \in Int
  BY CompletedIs
<1>2. ASSUME NEW p \in PE
      PROVE  /\ Start(cur + n) <= low[p]
             /\ \A i \in 1..n : e(p).d[i] = manager[p].counts[cur + i - 1]
  <2>1. PICK r \in 0..Valid(e(p)) : UntouchedUpTo(r, manager[p], low[p], e(p))
    BY <1>0 DEF Snapshot, Untouched
  <2>2. n <= r
    BY <2>1, NoneTouched
  <2>3. r \in Nat
    <3>1. Len(e(p).d) \in Nat /\ e(p).passed \in Int
      BY <1>0, CompletedIs
    <3>2. QED
      BY <3>1 DEF Valid
  <2> HIDE DEF n, e
  <2>4. Start(cur + r) <= low[p] /\ \A i \in 1..r : e(p).d[i] = manager[p].counts[cur + i - 1]
    BY <2>1 DEF UntouchedUpTo
  <2>5. Start(cur + n) <= low[p]
    <3>1. cur + n \in Nat /\ cur + r \in Nat /\ cur + n <= cur + r
      BY <1>1, <2>2, <2>3
    <3>2. Start(cur + n) <= Start(cur + r) /\ Start(cur + n) \in Nat /\ Start(cur + r) \in Nat
      BY <3>1, Starts
    <3>3. low[p] \in Nat
      BY <1>0, Totals
    <3>4. QED
      BY <2>4, <3>2, <3>3
  <2>6. QED
    BY <1>1, <2>2, <2>3, <2>4, <2>5
<1>3. ASSUME NEW i \in 1..n, NEW p \in PE, NEW t \in EventTime, phase(t) = cur + i - 1
      PROVE  net[p][t] = 0
  <2> DEFINE b == cur + i - 1
             F == Held(b)
             G == [k \in PE |-> e(k).d[i]]
  <2>1. b \in Bucket /\ i \in 1..Len(c.d)
    <3>1. phase(t) \in Bucket
      BY BucketOfTime
    <3>2. QED
      BY <1>1, <1>3, <3>1
  <2>2. F = G
    BY <1>2 DEF Held
  <2>3. Balance(G) = 0
    BY <1>1, <2>1 DEF Summed
  <2>4. Balance(F) = Flying(Inside(net, b))
    BY <1>0, <2>1 DEF Accounted
  <2> HIDE DEF b, F, G
  <2>5. Flying(Inside(net, b)) = 0
    BY <2>2, <2>3, <2>4
  <2>6. phase(t) = b
    BY <1>3 DEF b
  <2>7. QED
    BY <1>0, <2>5, <2>6, InsideNone
<1>4. ASSUME NEW p \in PE, NEW t \in EventTime, net[p][t] > 0 PROVE Start(cur + n) <= t
  <2>1. advanced(p) = cur
    <3>1. advanced(p) = cur + 0
      BY <1>0 DEF advanced
    <3>2. QED
      BY <3>1
  <2>2. Start(cur) <= t
    BY <1>0, <1>4, <2>1 DEF Floors, IsFloor
  <2>3. t \in Nat /\ BucketOf(t) \in Nat /\ \A x \in Nat : Start(x) <= t <=> x <= BucketOf(t)
    BY BucketOfTime DEF EventTime
  <2> HIDE DEF n
  <2>4. cur <= BucketOf(t)
    BY <2>2, <2>3
  <2> DEFINE i == BucketOf(t) - cur + 1
  <2>5. CASE BucketOf(t) < cur + n
    <3>1. i \in 1..n /\ BucketOf(t) = cur + i - 1
      BY <1>1, <2>3, <2>4, <2>5
    <3> HIDE DEF i
    <3>2. phase(t) = BucketOf(t)
      BY <1>0, <1>4, BucketOfTime DEF InPhase
    <3>3. net[p][t] = 0
      BY <1>3, <3>1, <3>2
    <3>4. QED
      BY <1>4, <3>3
  <2>6. CASE ~(BucketOf(t) < cur + n)
    <3>1. cur + n <= BucketOf(t) /\ cur + n \in Nat
      BY <1>1, <2>3, <2>6
    <3>2. QED
      BY <2>3, <3>1
  <2>7. QED
    BY <2>5, <2>6
<1>5. QED
  BY <1>2, <1>4 DEF IsFloor

-----------------------------------------------------------------------------
(***************************************************************************)
(* The steps.                                                              *)
(***************************************************************************)

\* Where a PE is, and where it is to be, are buckets or the end.
LEMMA AdvancedIs ==
  ASSUME Core, NEW p \in PE
  PROVE  /\ manager[p] \in Manager /\ manager[p].curr_bucket \in Nat
         /\ manager[p].curr_bucket <= total_buckets /\ low[p] \in Time
         /\ advanced(p) \in Nat /\ manager[p].curr_bucket <= advanced(p) /\ advanced(p) <= total_buckets
         /\ Start(advanced(p)) \in Time
         /\ Start(manager[p].curr_bucket) \in Nat
         /\ Start(manager[p].curr_bucket) <= Start(advanced(p))
<1> DEFINE cur == manager[p].curr_bucket
<1>1. manager[p] \in Manager /\ low \in [PE -> Time] /\ Fits(p) /\ total_buckets \in Nat
  BY Totals DEF Core, TypeOK
<1>2. cur \in Nat /\ cur <= total_buckets
  BY <1>1 DEF Manager
<1>3. advanced(p) \in Nat /\ cur <= advanced(p) /\ advanced(p) <= total_buckets
  <2>1. Told(p) => /\ Completed(result(p)) \in Nat /\ Len(result(p).d) \in Nat
                   /\ Completed(result(p)) <= Len(result(p).d)
                   /\ cur + Len(result(p).d) <= total_buckets
    BY <1>1, CompletedIs DEF Fits, Within
  <2>2. CASE Told(p) /\ result(p).of = "counts"
    <3> DEFINE n == Completed(result(p))
               l == Len(result(p).d)
    <3>1. advanced(p) = cur + n /\ n \in Nat /\ l \in Nat /\ n <= l /\ cur + l <= total_buckets
      BY <2>1, <2>2 DEF advanced
    <3> HIDE DEF n, l, cur
    <3>2. QED
      BY <1>1, <1>2, <3>1
  <2>3. CASE ~(Told(p) /\ result(p).of = "counts")
    BY <1>2, <2>3 DEF advanced
  <2>4. QED
    BY <2>2, <2>3
<1> HIDE DEF cur
<1>4. /\ Start(cur) <= Start(advanced(p)) /\ Start(cur) \in Nat /\ Start(advanced(p)) \in Nat
      /\ Start(advanced(p)) <= EndTime
  BY <1>1, <1>2, <1>3, Starts
<1>5. Start(advanced(p)) \in Time
  BY <1>4, Totals
<1>6. QED
  BY <1>1, <1>2, <1>3, <1>4, <1>5 DEF cur

\* No PE is below its current bucket, nor is a message for whatever PE.
LEMMA NoneBelow ==
  ASSUME IInv, NEW p \in PE
  PROVE  /\ IsFloor(Start(advanced(p)), low, net)
         /\ IsFloor(Start(manager[p].curr_bucket), low, net)
<1> DEFINE cur == manager[p].curr_bucket
<1>1. low \in [PE -> Time] /\ net \in Flights /\ IsFloor(Start(advanced(p)), low, net)
  BY DEF IInv, Core, TypeOK, Floors
<1> HIDE DEF cur
<1>2. Start(cur) <= Start(advanced(p)) /\ Start(cur) \in Nat /\ Start(advanced(p)) \in Nat
  BY AdvancedIs, Totals DEF IInv, cur
<1>3. IsFloor(Start(cur), low, net)
  <2>1. \A q \in PE : low[q] \in Nat
    BY <1>1, Totals
  <2>2. \A t \in EventTime : t \in Nat
    BY DEF EventTime
  <2>3. \A x \in Nat : Start(advanced(p)) <= x => Start(cur) <= x
    BY <1>2
  <2>4. QED
    BY <1>1, <2>1, <2>2, <2>3 DEF IsFloor
<1>4. QED
  BY <1>1, <1>3 DEF cur

\* p has worked at time f or later, sent S, and is at x; its manager, now a, may
\* have attempted a GVT.
Handled(p, f, before, S, a, x) ==
  /\ S \in SUBSET (PE \X EventTime) /\ \A s \in S : s[2] >= f
  /\ net' = Put(before, S)
  /\ x \in f..EndTime /\ low' = [low EXCEPT ![p] = x]
  /\ Attempted(manager[p], a) /\ manager' = [manager EXCEPT ![p] = a]
  /\ results' = results
  /\ sched' \in [PE -> Scheduler]
  /\ \A q \in PE : sched'[q].g_last_gvt = sched[q].g_last_gvt /\ Controlled(q)'

\* It has counted what went out and came in.
Tallied(p, a) ==
  \A b \in Bucket : a.counts[b] - manager[p].counts[b]
                    = Flying(Inside(net', b)) - Flying(Inside(net, b))

\* Such a step leaves the rounds alone, and the counts true.
LEMMA HandledCore ==
  ASSUME Core, NEW p \in PE, NEW f \in Time, NEW before \in Flights, NEW S, NEW a, NEW x,
         Handled(p, f, before, S, a, x), Tallied(p, a)
  PROVE  Core' /\ \A q \in PE : advanced(q)' = advanced(q)
<1>0. /\ manager \in [PE -> Manager] /\ results \in [PE -> Seq(Reduced)] /\ low \in [PE -> Time]
      /\ net \in Flights /\ sched \in [PE -> Scheduler] /\ Accounted
      /\ \A q \in PE : Placed(q)
  BY DEF Core, TypeOK
<1>1. Rounds' /\ \A q \in PE : advanced(q)' = advanced(q)
  BY AttemptRounds DEF Handled
<1>2. a \in Manager /\ a.curr_bucket = manager[p].curr_bucket
  BY DEF Attempted, Handled
<1>3. x \in Time
  BY Totals DEF Handled
<1>4. net' \in Flights
  BY PutType DEF Handled
<1>5. TypeOK'
  BY <1>0, <1>2, <1>3, <1>4 DEF TypeOK, Handled
<1>6. /\ manager'[p] = a /\ \A q \in PE : q # p => manager'[q] = manager[q]
      /\ \A q \in PE : manager'[q].curr_bucket = manager[q].curr_bucket
  BY <1>0, <1>2 DEF Handled
<1>7. \A q \in PE : Placed(q)' /\ Controlled(q)'
  BY <1>0, <1>6 DEF Placed, Handled, Start
<1>8. Accounted'
  <2> SUFFICES ASSUME NEW b \in Bucket PROVE Balance(Held(b))' = Flying(Inside(net, b))'
    BY DEF Accounted
  <2> DEFINE F == Held(b)
             G == [q \in PE |-> manager'[q].counts[b]]
             y == Flying(Inside(net', b))
             z == Flying(Inside(net, b))
  <2>1. F \in [PE -> Int] /\ G \in [PE -> Int] /\ G[p] = a.counts[b] /\ F[p] = manager[p].counts[b]
        /\ \A q \in PE : q # p => G[q] = F[q]
    <3>1. \A q \in PE : manager'[q] \in Manager
      BY <1>0, <1>2, <1>6
    <3>2. QED
      BY <1>0, <1>6, <3>1 DEF Held, Manager
  <2>2. Balance(F) = z /\ Balance(Held(b))' = Balance(G)
    BY <1>0 DEF Accounted, Held, Balance
  <2>3. z \in Nat /\ y \in Nat
    BY <1>0, <1>4, InsideNone
  <2>4. a.counts[b] - manager[p].counts[b] = y - z
    BY DEF Tallied
  <2>5. Flying(Inside(net, b))' = y
    BY DEF Flying, Pairs, Inside
  <2> HIDE DEF F, G, y, z
  <2>6. Balance(G) - Balance(F) = G[p] - F[p] /\ Balance(G) \in Int
    BY <2>1, BalanceMoves, BalanceIs
  <2>7. Balance(G) = y
    BY <2>1, <2>2, <2>3, <2>4, <2>6
  <2>8. QED
    BY <2>2, <2>5, <2>7
<1>9. QED
  BY <1>1, <1>5, <1>7, <1>8 DEF Core, Rounds

\* It keeps the invariant if what is sent is past the bucket of some time, and
\* what p has contributed stays untouched.
LEMMA HandledIInv ==
  ASSUME IInv, NEW p \in PE, NEW f \in Time, NEW before \in Flights, NEW S, NEW a, NEW x,
         Handled(p, f, before, S, a, x), Tallied(p, a),
         \A q \in PE, t \in EventTime : before[q][t] <= net[q][t],
         \A g \in Time : IsFloor(g, low, net) => g <= f,
         NEW u, SetPast(u, S),
         Given(p) /\ contribution(p).of = "counts" => Untouched(a, x, contribution(p))
  PROVE  IInv'
<1>0. /\ Core /\ manager \in [PE -> Manager] /\ low \in [PE -> Time] /\ net \in Flights
      /\ \A q \in PE : Staged(q) /\ Snapshot(q)
      /\ Floors /\ InPhase
  BY DEF IInv, Core, TypeOK
<1>1. Core' /\ \A q \in PE : advanced(q)' = advanced(q)
  BY <1>0, HandledCore
<1>2. /\ S \in SUBSET (PE \X EventTime) /\ \A s \in S : s[2] >= f
      /\ net' = Put(before, S)
      /\ x \in f..EndTime /\ low' = [low EXCEPT ![p] = x]
      /\ Attempted(manager[p], a) /\ manager' = [manager EXCEPT ![p] = a]
  BY DEF Handled
<1>3. /\ manager'[p] = a /\ low'[p] = x
      /\ \A q \in PE : q # p => manager'[q] = manager[q] /\ low'[q] = low[q]
  BY <1>0, <1>2
<1>4. Floors'
  <2>1. ASSUME NEW q \in PE PROVE IsFloor(Start(advanced(q)), low, net)'
    <3> DEFINE g == Start(advanced(q))
    <3>1. g \in Time /\ IsFloor(g, low, net)
      BY <1>0, AdvancedIs DEF Floors
    <3>2. Start(advanced(q))' = g
      BY <1>1 DEF Start
    <3> HIDE DEF g
    <3>3. g <= f
      BY <3>1
    <3>4. IsFloor(g, [low EXCEPT ![p] = x], Put(before, S))
      BY <1>0, <1>2, <3>1, <3>3, WorkKeepsFloor
    <3>5. QED
      BY <1>2, <3>2, <3>4 DEF IsFloor
  <2>2. QED
    BY <2>1 DEF Floors
<1>5. InPhase'
  <2> SUFFICES ASSUME NEW q \in PE, NEW t \in EventTime, net'[q][t] > 0
               PROVE  BucketOf(t) < PhaseValues
    BY DEF InPhase, BucketOf
  <2>1. net'[q][t] = IF <<q, t>> \in S THEN before[q][t] + 1 ELSE before[q][t]
    BY <1>2, PutType
  <2>2. CASE <<q, t>> \in S
    <3>1. BucketOf(<<q, t>>[2]) < PhaseValues
      BY <2>2, Zenon DEF SetPast
    <3>2. QED
      BY <3>1
  <2>3. CASE <<q, t>> \notin S
    <3>1. before[q][t] \in Nat /\ net[q][t] \in Nat /\ before[q][t] <= net[q][t]
      BY <1>0 DEF Flights
    <3>2. net[q][t] > 0
      BY <2>1, <2>3, <3>1
    <3>3. QED
      BY <1>0, <3>2 DEF InPhase
  <2>4. QED
    BY <2>2, <2>3
<1>6. ASSUME NEW q \in PE PROVE Snapshot(q)'
  <2>1. CASE q # p
    <3>1. (Given(q)' <=> Given(q)) /\ contribution(q)' = contribution(q)
      BY <1>3, <2>1 DEF Given, contribution
    <3>2. manager'[q] = manager[q] /\ low'[q] = low[q] /\ Snapshot(q)
      BY <1>0, <1>3, <2>1
    <3>3. QED
      BY <3>1, <3>2 DEF Snapshot, Untouched, UntouchedUpTo
  <2>2. CASE q = p
    <3>1. CASE a.contributed = manager[p].contributed
      <4>1. (Given(p)' <=> Given(p)) /\ contribution(p)' = contribution(p)
        BY <1>3, <3>1 DEF Given, contribution
      <4>2. QED
        BY <1>3, <2>2, <4>1 DEF Snapshot, Untouched, UntouchedUpTo
    <3>2. CASE a.contributed # manager[p].contributed
      <4>1. PICK k \in 0..total_buckets :
              ~manager[p].active /\ a.contributed = Append(manager[p].contributed, Ready(k))
        BY <1>2, <3>2 DEF Attempted
      <4>2. manager[p].contributed = << >>
        BY <1>0, <4>1 DEF Staged
      <4>3. contribution(p)' = Ready(k) /\ Ready(k).of = "ready"
        <5>1. a.contributed = <<Ready(k)>>
          BY <4>1, <4>2
        <5>2. QED
          BY <1>3, <5>1 DEF contribution, Ready
      <4>4. QED
        BY <2>2, <4>3 DEF Snapshot
    <3>3. QED
      BY <3>1, <3>2
  <2>3. QED
    BY <2>1, <2>2
<1>7. QED
  BY <1>1, <1>4, <1>5, <1>6 DEF IInv

\* execute(), with the attempt at its end.
LEMMA ExecuteIs ==
  ASSUME Core, NEW p \in PE, execute(p), Measured(manager[p], low[p])
  PROVE  \E S, a, x :
           /\ Handled(p, low[p], net, S, a, x) /\ Tallied(p, a)
           /\ \A b \in Bucket : /\ SentIn(S, b) \in Nat /\ manager[p].counts[b] \in Int
                                /\ a.counts[b] = manager[p].counts[b] + SentIn(S, b)
<1> DEFINE f == low[p]
<1>1. PICK S \in Emissions(manager[p], f) :
        /\ net' = Put(net, S)
        /\ \E x \in f..EndTime, m \in produced(manager[p], S, f) :
             low' = [low EXCEPT ![p] = x] /\ iteration_done(p, m, x)
  BY DEF execute
<1>2. PICK x \in f..EndTime, m \in produced(manager[p], S, f) :
        low' = [low EXCEPT ![p] = x] /\ iteration_done(p, m, x)
  BY <1>1
<1>3. results' = results /\ sched[p].execs > 0
  BY DEF execute
<1>4. /\ manager[p] \in Manager /\ manager[p].curr_bucket \in Nat /\ f \in Time
      /\ Start(manager[p].curr_bucket) \in Nat /\ Measured(manager[p], f)
  BY AdvancedIs
<1>5. sched \in [PE -> Scheduler] /\ net \in Flights /\ \A q \in PE : Controlled(q)
  BY DEF Core, TypeOK
<1> HIDE DEF f
<1>6. S \in EmissionsWithin(f, net)
  BY DEF Emissions
<1>7. S \in SUBSET (PE \X EventTime) /\ IsFiniteSet(S) /\ \A s \in S : s[2] >= f
  BY <1>4, <1>6, EmissionsFrom
<1>8. /\ Attempted(manager[p], m)
      /\ \A b \in Bucket : SentIn(S, b) \in Nat /\ m.counts[b] = manager[p].counts[b] + SentIn(S, b)
  BY <1>4, <1>7, ProducedIs
<1> DEFINE c == iteration_counted(sched[p])
           r == gvt_trigger_reset(c)
           a == IF gvt_trigger_ready(c) THEN attempt_gvt(m, x) ELSE m
           s == IF gvt_trigger_ready(c) THEN gvt_resume(r) ELSE next_iteration(c)
<1>9. manager' = [manager EXCEPT ![p] = a] /\ sched' = [sched EXCEPT ![p] = s]
  BY <1>2 DEF iteration_done
<1>10. s \in Scheduler /\ s.g_last_gvt = sched[p].g_last_gvt /\ s.execs = IF s.running THEN 1 ELSE 0
  <2>1. sched[p] \in Scheduler /\ sched[p].running /\ sched[p].execs = 1
    BY <1>3, <1>5 DEF Controlled
  <2>2. /\ ~gvt_trigger_ready(c) => c \in Scheduler
        /\ r \in Scheduler
        /\ ~c.running /\ c.execs = 0 /\ c.g_last_gvt = sched[p].g_last_gvt
        /\ ~r.running /\ r.execs = 0 /\ r.g_last_gvt = sched[p].g_last_gvt
    BY <2>1, IterationDone
  <2> HIDE DEF c, r
  <2>3. CASE gvt_trigger_ready(c)
    BY <2>2, <2>3, NextIteration DEF gvt_resume
  <2>4. CASE ~gvt_trigger_ready(c)
    BY <2>2, <2>4, NextIteration
  <2>5. QED
    BY <2>3, <2>4
<1> HIDE DEF c, s
<1>11. x \in Time /\ Measured(manager[p], x)
  <2>1. x \in Time /\ (Start(manager[p].curr_bucket) <= f => Start(manager[p].curr_bucket) <= x)
    BY <1>4, Totals
  <2>2. QED
    BY <1>4, <2>1 DEF Measured
<1>12. Attempted(manager[p], a) /\ a.counts = m.counts
  <2>1. m \in Manager /\ m.curr_bucket = manager[p].curr_bucket
    BY <1>8 DEF Attempted
  <2>2. Attempted(m, attempt_gvt(m, x)) /\ attempt_gvt(m, x).counts = m.counts
    BY <1>11, <2>1, AttemptIs DEF Measured
  <2>3. QED
    BY <1>8, <2>2, AttemptedTwice
<1> HIDE DEF a
<1>13. \A b \in Bucket : /\ SentIn(S, b) \in Nat /\ manager[p].counts[b] \in Int
                         /\ a.counts[b] = manager[p].counts[b] + SentIn(S, b)
  BY <1>4, <1>8, <1>12 DEF Manager
<1>14. Tallied(p, a)
  <2> SUFFICES ASSUME NEW b \in Bucket
               PROVE  a.counts[b] - manager[p].counts[b]
                      = Flying(Inside(net', b)) - Flying(Inside(net, b))
    BY DEF Tallied
  <2>1. Flying(Inside(net', b)) = Flying(Inside(net, b)) + SentIn(S, b)
    BY <1>1, <1>5, <1>7, InsidePut
  <2>2. Flying(Inside(net, b)) \in Nat
    BY <1>5, InsideNone
  <2>3. SentIn(S, b) \in Nat /\ manager[p].counts[b] \in Int
        /\ a.counts[b] = manager[p].counts[b] + SentIn(S, b)
    BY <1>13
  <2>4. QED
    BY <2>1, <2>2, <2>3
<1>15. /\ sched' \in [PE -> Scheduler]
       /\ \A q \in PE : sched'[q].g_last_gvt = sched[q].g_last_gvt /\ Controlled(q)'
  <2>1. ASSUME NEW q \in PE PROVE sched'[q].g_last_gvt = sched[q].g_last_gvt /\ Controlled(q)'
    <3>1. CASE q = p
      BY <1>5, <1>9, <1>10, <3>1 DEF Controlled
    <3>2. CASE q # p
      BY <1>5, <1>9, <3>2 DEF Controlled
    <3>3. QED
      BY <3>1, <3>2
  <2>2. QED
    BY <1>5, <1>9, <1>10, <2>1
<1>16. Handled(p, f, net, S, a, x)
  BY <1>1, <1>2, <1>3, <1>7, <1>9, <1>12, <1>15 DEF Handled
<1>17. QED
  BY <1>13, <1>14, <1>16 DEF f

\* What is sent past the bucket p works in leaves what p has contributed untouched.
LEMMA ExecuteIInv ==
  ASSUME IInv, NEW p \in PE, executeAhead(p)
  PROVE  IInv'
<1> DEFINE f == low[p]
<1>1. /\ Core /\ execute(p) /\ SentPast(f, net) /\ net \in Flights /\ Snapshot(p) /\ Fits(p)
      /\ manager[p] \in Manager /\ f \in Time /\ Start(manager[p].curr_bucket) <= f
  BY AdvancedIs, NoneBelow DEF IInv, Core, TypeOK, executeAhead, IsFloor
<1>2. PICK S, a, x :
        /\ Handled(p, f, net, S, a, x) /\ Tallied(p, a)
        /\ \A b \in Bucket : /\ SentIn(S, b) \in Nat /\ manager[p].counts[b] \in Int
                             /\ a.counts[b] = manager[p].counts[b] + SentIn(S, b)
  BY <1>1, ExecuteIs DEF Measured
<1>3. /\ S \in SUBSET (PE \X EventTime) /\ net' = Put(net, S) /\ x \in f..EndTime
      /\ a \in Manager /\ a.curr_bucket = manager[p].curr_bucket
  BY <1>2 DEF Handled, Attempted
<1>4. \A g \in Time : IsFloor(g, low, net) => g <= f
  BY DEF IsFloor
<1> HIDE DEF f
<1>5. SetPast(f, S)
  BY <1>1, <1>3, SentPastIs
<1>6. x \in Time /\ f <= x
  BY <1>1, <1>3, Totals
<1>7. ASSUME Given(p) /\ contribution(p).of = "counts" PROVE Untouched(a, x, contribution(p))
  <2> DEFINE e == contribution(p)
  <2>1. e \in Reduced /\ Within(e, manager[p].curr_bucket) /\ Untouched(manager[p], f, e)
    BY <1>1, <1>7 DEF Fits, Within, Snapshot, f
  <2>2. \A b \in Bucket : Start(b) <= f => a.counts[b] = manager[p].counts[b]
    <3>1. ASSUME NEW b \in Bucket, Start(b) <= f PROVE a.counts[b] = manager[p].counts[b]
      <4>1. SentIn(S, b) = 0
        BY <1>1, <1>3, <1>5, <3>1, SentAhead
      <4>2. a.counts[b] = manager[p].counts[b] + 0 /\ manager[p].counts[b] \in Int
        BY <1>2, <4>1
      <4>3. QED
        BY <4>2
    <3>2. QED
      BY <3>1
  <2> HIDE DEF e
  <2>3. Untouched(a, x, e)
    BY <1>1, <1>3, <1>6, <2>1, <2>2, UntouchedWork
  <2>4. QED
    BY <2>3 DEF e
<1>8. \A q \in PE, t \in EventTime : net[q][t] <= net[q][t]
  BY <1>1 DEF Flights
<1>9. QED
  BY <1>1, <1>2, <1>4, <1>5, <1>7, <1>8, HandledIInv

\* recv_remote_event() and recv_anti_event().
LEMMA ReceiveIs ==
  ASSUME Core, NEW p \in PE, NEW t \in EventTime, receive(p, t),
         Measured(manager[p], Earlier(low[p], t))
  PROVE  \E S, a, x :
           /\ Handled(p, Earlier(low[p], t), Take(net, p, t), S, a, x) /\ Tallied(p, a)
           /\ \A b \in Bucket :
                /\ SentIn(S, b) \in Nat /\ manager[p].counts[b] \in Int
                /\ a.counts[b] = manager[p].counts[b] - (IF b = phase(t) THEN 1 ELSE 0) + SentIn(S, b)
<1> DEFINE m == consume(manager[p], t, low[p])
           f == Earlier(low[p], t)
           n == Take(net, p, t)
<1>1. net[p][t] > 0 /\ sched' = sched /\ results' = results
  BY DEF receive
<1>2. PICK S \in Emissions(m, t) : /\ net' = Put(n, S)
                                   /\ \E s \in produced(m, S, f) : manager' = [manager EXCEPT ![p] = s]
  BY DEF receive
<1>3. PICK a \in produced(m, S, f) : manager' = [manager EXCEPT ![p] = a]
  BY <1>2
<1>4. PICK x \in f..EndTime : low' = [low EXCEPT ![p] = x]
  BY DEF receive
<1>5. /\ manager[p] \in Manager /\ manager[p].curr_bucket \in Nat /\ low[p] \in Time
      /\ Start(manager[p].curr_bucket) \in Nat
  BY AdvancedIs
<1>6. sched \in [PE -> Scheduler] /\ net \in Flights /\ \A q \in PE : Controlled(q)
  BY DEF Core, TypeOK
<1>7. t \in Time /\ t \in Nat /\ low[p] \in Nat
  BY <1>5, Totals DEF EventTime
<1>8. f \in Time /\ f <= t /\ f <= low[p] /\ Measured(manager[p], f)
  BY <1>5, <1>7 DEF Earlier
<1>9. S \in EmissionsWithin(t, net)
  BY DEF Emissions
<1>10. S \in SUBSET (PE \X EventTime) /\ IsFiniteSet(S) /\ \A s \in S : s[2] >= f
  <2>1. S \in SUBSET (PE \X EventTime) /\ IsFiniteSet(S) /\ \A s \in S : s[2] >= t
    BY <1>7, <1>9, EmissionsFrom
  <2> HIDE DEF f
  <2>2. ASSUME NEW s \in S PROVE s[2] >= f
    <3>1. s[2] \in Nat /\ s[2] >= t /\ f \in Nat
      BY <1>8, <2>1, Totals DEF EventTime
    <3>2. QED
      BY <1>7, <1>8, <3>1
  <2>3. QED
    BY <2>1, <2>2
<1>11. Measured(manager[p], low[p])
  <2> HIDE DEF f
  <2>1. f \in Nat
    BY <1>8, Totals
  <2>2. QED
    BY <1>5, <1>7, <1>8, <2>1 DEF Measured
<1>12. /\ Attempted(manager[p], m)
       /\ \A b \in Bucket : m.counts[b] = manager[p].counts[b] - IF b = phase(t) THEN 1 ELSE 0
  BY <1>5, <1>11, ConsumeIs
<1> HIDE DEF m
<1>13. m \in Manager /\ m.curr_bucket = manager[p].curr_bucket
  BY <1>12 DEF Attempted
<1>14. /\ Attempted(m, a)
       /\ \A b \in Bucket : SentIn(S, b) \in Nat /\ a.counts[b] = m.counts[b] + SentIn(S, b)
  <2> HIDE DEF f
  <2>1. Measured(m, f)
    BY <1>8, <1>13 DEF Measured
  <2>2. QED
    BY <1>3, <1>8, <1>10, <1>13, <2>1, ProducedIs
<1>15. Attempted(manager[p], a)
  BY <1>12, <1>14, AttemptedTwice
<1>16. \A b \in Bucket :
         /\ SentIn(S, b) \in Nat /\ manager[p].counts[b] \in Int
         /\ a.counts[b] = manager[p].counts[b] - (IF b = phase(t) THEN 1 ELSE 0) + SentIn(S, b)
  <2>1. \A b \in Bucket : SentIn(S, b) \in Nat /\ manager[p].counts[b] \in Int
    BY <1>5, <1>14 DEF Manager
  <2>2. QED
    BY <1>12, <1>14, <2>1
<1>17. n \in Flights
  BY <1>1, <1>6, TakeType
<1>18. Tallied(p, a)
  <2> SUFFICES ASSUME NEW b \in Bucket
               PROVE  a.counts[b] - manager[p].counts[b]
                      = Flying(Inside(net', b)) - Flying(Inside(net, b))
    BY DEF Tallied
  <2> DEFINE one == IF phase(t) = b THEN 1 ELSE 0
  <2>1. Flying(Inside(net, b)) = Flying(Inside(n, b)) + one
    BY <1>1, <1>6, InsideTake
  <2>2. Flying(Inside(net', b)) = Flying(Inside(n, b)) + SentIn(S, b)
    <3> HIDE DEF n
    <3>1. QED
      BY <1>2, <1>10, <1>17, InsidePut
  <2>3. Flying(Inside(n, b)) \in Nat /\ one \in Nat
    BY <1>17, InsideNone
  <2>4. /\ SentIn(S, b) \in Nat /\ manager[p].counts[b] \in Int
        /\ a.counts[b] = manager[p].counts[b] - one + SentIn(S, b)
    BY <1>16
  <2> HIDE DEF one, n
  <2>5. QED
    BY <2>1, <2>2, <2>3, <2>4
<1>19. /\ sched' \in [PE -> Scheduler]
       /\ \A q \in PE : sched'[q].g_last_gvt = sched[q].g_last_gvt /\ Controlled(q)'
  BY <1>1, <1>6 DEF Controlled
<1> HIDE DEF f, n
<1>20. Handled(p, f, n, S, a, x)
  BY <1>1, <1>2, <1>3, <1>4, <1>10, <1>15, <1>19 DEF Handled
<1>21. QED
  BY <1>16, <1>18, <1>20 DEF f, n

\* A message is received in the bucket it is counted in, and what it makes p send
\* is past that bucket.
LEMMA ReceiveIInv ==
  ASSUME IInv, NEW p \in PE, NEW t \in EventTime, receiveAhead(p, t)
  PROVE  IInv'
<1> DEFINE f == Earlier(low[p], t)
           n == Take(net, p, t)
           one(b) == IF b = phase(t) THEN 1 ELSE 0
<1>1. /\ Core /\ receive(p, t) /\ SentPast(t, n) /\ net[p][t] > 0
      /\ net \in Flights /\ Snapshot(p) /\ Fits(p) /\ InPhase
  BY DEF IInv, Core, TypeOK, receiveAhead, receive
<1>2. /\ manager[p] \in Manager /\ low[p] \in Time
      /\ Start(manager[p].curr_bucket) <= low[p] /\ Start(manager[p].curr_bucket) <= t
      /\ Start(manager[p].curr_bucket) \in Nat
  BY <1>1, AdvancedIs, NoneBelow DEF IsFloor
<1>3. t \in Time /\ t \in Nat /\ low[p] \in Nat
  BY <1>2, Totals DEF EventTime
<1>4. f \in Time /\ Start(manager[p].curr_bucket) <= f
  BY <1>2, <1>3 DEF Earlier
<1>5. PICK S, a, x :
        /\ Handled(p, f, n, S, a, x) /\ Tallied(p, a)
        /\ \A b \in Bucket : /\ SentIn(S, b) \in Nat /\ manager[p].counts[b] \in Int
                             /\ a.counts[b] = manager[p].counts[b] - one(b) + SentIn(S, b)
  BY <1>1, <1>4, ReceiveIs DEF Measured
<1>6. /\ n \in Flights
      /\ \A q \in PE, u \in EventTime : n[q][u] <= net[q][u]
  <2>1. /\ n \in Flights
        /\ \A q \in PE, u \in EventTime : n[q][u] = IF q = p /\ u = t THEN net[q][u] - 1 ELSE net[q][u]
    BY <1>1, TakeType
  <2> HIDE DEF n
  <2>2. \A q \in PE, u \in EventTime : net[q][u] \in Nat
    BY <1>1 DEF Flights
  <2>3. QED
    BY <2>1, <2>2
<1>7. \A g \in Time : IsFloor(g, low, net) => g <= f
  BY <1>1 DEF IsFloor, Earlier
<1>8. phase(t) = BucketOf(t)
  BY <1>1, BucketOfTime DEF InPhase
<1> HIDE DEF n, f
<1>9. /\ S \in SUBSET (PE \X EventTime) /\ net' = Put(n, S) /\ x \in f..EndTime
      /\ a \in Manager /\ a.curr_bucket = manager[p].curr_bucket
  BY <1>5 DEF Handled, Attempted
<1>10. SetPast(t, S)
  BY <1>1, <1>6, <1>9, SentPastIs
<1>11. x \in Time /\ f <= x
  BY <1>4, <1>9, Totals
<1>12. ASSUME Given(p) /\ contribution(p).of = "counts" PROVE Untouched(a, x, contribution(p))
  <2> DEFINE e == contribution(p)
  <2>1. e \in Reduced /\ Within(e, manager[p].curr_bucket) /\ Untouched(manager[p], low[p], e)
    BY <1>1, <1>12 DEF Fits, Within, Snapshot
  <2>2. \A b \in Bucket : Start(b) <= t =>
          a.counts[b] = manager[p].counts[b] - IF b = BucketOf(t) THEN 1 ELSE 0
    <3>1. ASSUME NEW b \in Bucket, Start(b) <= t
          PROVE  a.counts[b] = manager[p].counts[b] - one(b)
      <4>1. SentIn(S, b) = 0
        BY <1>3, <1>9, <1>10, <3>1, SentAhead
      <4>2. /\ a.counts[b] = manager[p].counts[b] - one(b) + 0
            /\ manager[p].counts[b] \in Int /\ one(b) \in Int
        BY <1>5, <4>1
      <4> HIDE DEF one
      <4>3. QED
        BY <4>2
    <3>2. QED
      BY <1>8, <3>1
  <2> HIDE DEF e
  <2>3. Earlier(low[p], t) <= x
    BY <1>11 DEF f
  <2>4. Untouched(a, x, e)
    BY <1>2, <1>9, <1>11, <2>1, <2>2, <2>3, UntouchedReceive
  <2>5. QED
    BY <2>4 DEF e
<1> HIDE DEF one
<1>13. QED
  BY <1>4, <1>5, <1>6, <1>7, <1>10, <1>12, HandledIInv

\* The counts are those of what is in flight while neither changes.
LEMMA CountsStay ==
  ASSUME Accounted, \A q \in PE : manager'[q].counts = manager[q].counts, net' = net
  PROVE  Accounted'
<1> SUFFICES ASSUME NEW b \in Bucket PROVE Balance(Held(b))' = Flying(Inside(net, b))'
  BY DEF Accounted
<1> DEFINE G == [q \in PE |-> manager'[q].counts[b]]
<1>1. G = Held(b)
  BY DEF Held
<1>2. Balance(Held(b))' = Balance(G)
  BY DEF Held, Balance
<1>3. Flying(Inside(net, b))' = Flying(Inside(net, b))
  BY DEF Flying, Pairs, Inside
<1>4. QED
  BY <1>1, <1>2, <1>3 DEF Accounted

\* p has done what r tells it, and its manager is now a.
Followed(p, a, r) ==
  /\ a \in Manager /\ a.curr_bucket = advanced(p) /\ a.counts = manager[p].counts
  /\ manager' = [manager EXCEPT ![p] = a]
  /\ results' = [results EXCEPT ![p] = Tail(results[p])]
  /\ \/ ~a.active /\ a.contributed = << >>
     \/ a.active /\ a.contributed = <<a.contributed[1]>>
  /\ Follows(p, r)'
  /\ a.contributed # << >> => Within(a.contributed[1], a.curr_bucket)
  /\ low' = low /\ net' = net
  /\ sched' \in [PE -> Scheduler] /\ \A q \in PE : q # p => sched'[q] = sched[q]
  /\ sched'[p].g_last_gvt = Start(a.curr_bucket)
  /\ sched'[p].execs = IF sched'[p].running THEN 1 ELSE 0

\* Counts that a has contributed are those of this moment.
Fresh(a, lo) ==
  a.contributed # << >> /\ a.contributed[1].of = "counts" => Untouched(a, lo, a.contributed[1])

\* Such a step goes to where those that have done it are, and counts nothing.
LEMMA FollowingCore ==
  ASSUME Core, NEW p \in PE, NEW a, NEW r, Told(p), r = result(p), Followed(p, a, r)
  PROVE  Core' /\ \A q \in PE : advanced(q)' = advanced(q)
<1>0. /\ manager \in [PE -> Manager] /\ results \in [PE -> Seq(Reduced)] /\ low \in [PE -> Time]
      /\ net \in Flights /\ Accounted
      /\ \A q \in PE : Placed(q) /\ Controlled(q)
  BY DEF Core, TypeOK
<1>1. Rounds' /\ \A q \in PE : advanced(q)' = advanced(q)
  BY FollowingRounds DEF Followed
<1>2. /\ manager'[p] = a /\ \A q \in PE : q # p => manager'[q] = manager[q]
      /\ \A q \in PE : manager'[q].counts = manager[q].counts
  BY <1>0 DEF Followed
<1>3. TypeOK'
  <2>1. Tail(results[p]) \in Seq(Reduced)
    <3>1. results[p] \in Seq(Reduced) /\ results[p] # << >>
      BY <1>0 DEF Told
    <3>2. QED
      BY <3>1
  <2>2. results' \in [PE -> Seq(Reduced)]
    BY <1>0, <2>1 DEF Followed
  <2>3. QED
    BY <1>0, <2>2 DEF TypeOK, Followed
<1>4. ASSUME NEW q \in PE PROVE Placed(q)' /\ Controlled(q)'
  <2>1. CASE q = p
    BY <1>2, <2>1 DEF Placed, Controlled, Followed, Start
  <2>2. CASE q # p
    BY <1>0, <1>2, <2>2 DEF Placed, Controlled, Followed, Start
  <2>3. QED
    BY <2>1, <2>2
<1>5. Accounted'
  BY <1>0, <1>2, CountsStay DEF Followed
<1>6. QED
  BY <1>1, <1>3, <1>4, <1>5 DEF Core, Rounds

\* It keeps the invariant when what it contributes is of this moment.
LEMMA FollowingKeeps ==
  ASSUME IInv, NEW p \in PE, NEW a, NEW r, Told(p), r = result(p), Followed(p, a, r),
         Fresh(a, low[p])
  PROVE  IInv'
<1>0. /\ Core /\ manager \in [PE -> Manager] /\ \A q \in PE : Snapshot(q)
      /\ Floors /\ InPhase
  BY DEF IInv, Core, TypeOK
<1>1. Core' /\ \A q \in PE : advanced(q)' = advanced(q)
  BY <1>0, FollowingCore
<1>2. /\ manager'[p] = a /\ \A q \in PE : q # p => manager'[q] = manager[q]
      /\ low' = low /\ net' = net
  BY <1>0 DEF Followed
<1>3. Floors'
  <2>1. ASSUME NEW q \in PE PROVE Start(advanced(q))' = Start(advanced(q))
    BY <1>1 DEF Start
  <2>2. QED
    BY <1>0, <1>2, <2>1 DEF Floors, IsFloor
<1>4. InPhase'
  BY <1>0, <1>2 DEF InPhase, BucketOf
<1>5. ASSUME NEW q \in PE PROVE Snapshot(q)'
  <2>1. CASE q = p
    <3> DEFINE c == a.contributed[1]
    <3>1. (Given(p)' <=> a.contributed # << >>) /\ contribution(p)' = c
      BY <1>2 DEF Given, contribution
    <3>2. a.contributed # << >> /\ c.of = "counts" => Untouched(a, low[p], c)
      BY DEF Fresh
    <3> HIDE DEF c
    <3>3. Untouched(manager[p], low[p], contribution(p))' <=> Untouched(a, low[p], c)
      BY <1>2, <3>1 DEF Untouched, UntouchedUpTo
    <3>4. QED
      BY <2>1, <3>1, <3>2, <3>3 DEF Snapshot
  <2>2. CASE q # p
    <3>1. (Given(q)' <=> Given(q)) /\ contribution(q)' = contribution(q)
      BY <1>2, <2>2 DEF Given, contribution
    <3>2. manager'[q] = manager[q] /\ low'[q] = low[q] /\ Snapshot(q)
      BY <1>0, <1>2, <2>2
    <3>3. Untouched(manager[q], low[q], contribution(q))'
          <=> Untouched(manager[q], low[q], contribution(q))
      BY <3>1, <3>2 DEF Untouched, UntouchedUpTo
    <3>4. QED
      BY <3>1, <3>2, <3>3 DEF Snapshot
  <2>3. QED
    BY <2>1, <2>2
<1>6. QED
  BY <1>1, <1>3, <1>4, <1>5 DEF IInv

\* What a PE is told is the result it waited for, and it has contributed nothing
\* since.
LEMMA ToldIs ==
  ASSUME Core, NEW p \in PE, results[p] # << >>
  PROVE  /\ Told(p) /\ Head(results[p]) = result(p)
         /\ manager[p].active /\ manager[p].contributed = << >>
         /\ Within(result(p), manager[p].curr_bucket) /\ result(p) \in Reduced
<1>1. /\ manager \in [PE -> Manager] /\ results \in [PE -> Seq(Reduced)] /\ Staged(p) /\ Fits(p)
  BY DEF Core, TypeOK
<1> DEFINE x == results[p][1]
<1>2. results[p] = <<x>> /\ manager[p].active /\ manager[p].contributed = << >>
  BY <1>1 DEF Staged
<1>3. x = result(p)
  BY DEF result
<1> HIDE DEF x
<1>4. Head(results[p]) = x
  BY <1>2
<1>5. QED
  BY <1>1, <1>2, <1>3, <1>4 DEF Told, Fits, Within

\* all_ready(): every PE has passed buckets, and p contributes its counts of them.
LEMMA AllReadyIs ==
  ASSUME Core, NEW p \in PE, all_ready(p), PowerOfTwo \/ Start(advanced(p)) <= low[p]
  PROVE  \E a, r : /\ Told(p) /\ r = result(p) /\ Followed(p, a, r)
                   /\ Start(advanced(p)) <= low[p] => Fresh(a, low[p])
<1>0. PICK r : r = result(p)
  OBVIOUS
<1> DEFINE a == send_counts(manager[p], low[p], r.passed)
<1>1. results[p] # << >> /\ Head(results[p]).of = "ready" /\ sched' = sched /\ low' = low /\ net' = net
  BY DEF all_ready, Arrives
<1>2. /\ Told(p) /\ Head(results[p]) = r /\ Within(r, manager[p].curr_bucket) /\ r \in Reduced
      /\ manager[p].active /\ manager[p].contributed = << >>
  BY <1>0, <1>1, ToldIs
<1>3. /\ manager' = [manager EXCEPT ![p] = a] /\ results' = [results EXCEPT ![p] = Tail(results[p])]
  BY <1>2 DEF all_ready
<1>4. r.of = "ready" /\ r.passed \in Nat /\ manager[p].curr_bucket + r.passed <= total_buckets
  <2>1. r.of = "ready" /\ r.passed \in Int /\ r.passed >= 0
    BY <1>1, <1>2, CompletedIs DEF Within
  <2>2. QED
    BY <1>2, <2>1 DEF Within
<1>5. manager[p] \in Manager /\ manager[p].curr_bucket \in Nat /\ low[p] \in Time
  BY AdvancedIs
<1>6. advanced(p) = manager[p].curr_bucket
  <2>1. advanced(p) = manager[p].curr_bucket + 0
    BY <1>0, <1>4 DEF advanced
  <2>2. QED
    BY <1>5, <2>1
<1>7. Measured(manager[p], low[p])
  BY <1>6 DEF Measured
<1>8. /\ manager \in [PE -> Manager] /\ sched \in [PE -> Scheduler] /\ Controlled(p) /\ Placed(p)
  BY DEF Core, TypeOK
<1>9. /\ a \in Manager /\ a.counts = manager[p].counts /\ a.curr_bucket = manager[p].curr_bucket
      /\ a.active = manager[p].active
      /\ \E c \in Reduced :
           /\ a.contributed = Append(manager[p].contributed, c)
           /\ c.of = "counts" /\ Len(c.d) = r.passed /\ Within(c, manager[p].curr_bucket)
           /\ Start(manager[p].curr_bucket) <= low[p] => Untouched(manager[p], low[p], c)
  BY <1>4, <1>5, <1>7, SendCountsIs
<1> HIDE DEF a
<1>10. PICK c \in Reduced :
           /\ a.contributed = Append(manager[p].contributed, c)
           /\ c.of = "counts" /\ Len(c.d) = r.passed /\ Within(c, manager[p].curr_bucket)
           /\ Start(manager[p].curr_bucket) <= low[p] => Untouched(manager[p], low[p], c)
  BY <1>9
<1>11. a.contributed = <<c>>
  BY <1>2, <1>10
<1>12. a.contributed[1] = c /\ a.contributed # << >>
  BY <1>11
<1>13. manager'[p] = a
  BY <1>3, <1>8
<1>14. Follows(p, r)'
  BY <1>4, <1>10, <1>12, <1>13 DEF Follows, Gives, Given, contribution
<1>15. Start(advanced(p)) <= low[p] => Untouched(a, low[p], c)
  BY <1>6, <1>9, <1>10 DEF Untouched, UntouchedUpTo
<1>16. sched'[p].g_last_gvt = Start(a.curr_bucket) /\ sched'[p].execs = IF sched'[p].running THEN 1 ELSE 0
  BY <1>1, <1>8, <1>9 DEF Placed, Controlled
<1>17. Followed(p, a, r)
  BY <1>1, <1>2, <1>3, <1>6, <1>8, <1>9, <1>10, <1>11, <1>12, <1>14, <1>16 DEF Followed
<1>18. Start(advanced(p)) <= low[p] => Fresh(a, low[p])
  BY <1>12, <1>15 DEF Fresh
<1>19. QED
  BY <1>0, <1>2, <1>17, <1>18

\* check_counts() begins with a result whose completed buckets are those up to
\* where p is to be.
LEMMA CheckCountsIs ==
  ASSUME Core, NEW p \in PE, check_counts(p), NEW r, r = result(p), NEW n, n = Completed(r)
  PROVE  /\ Told(p) /\ r.of = "counts" /\ r \in Reduced /\ Within(r, manager[p].curr_bucket)
         /\ n \in Nat /\ r.passed \in Nat
         /\ manager[p].curr_bucket + n = advanced(p)
         /\ low' = low /\ net' = net
         /\ Head(results[p]) = r /\ manager[p].active /\ manager[p].contributed = << >>
<1>1. /\ results[p] # << >> /\ Head(results[p]).of = "counts" /\ Head(results[p]).passed >= 0
      /\ low' = low /\ net' = net
  BY DEF check_counts, Arrives
<1>2. /\ Told(p) /\ Head(results[p]) = r /\ Within(r, manager[p].curr_bucket) /\ r \in Reduced
      /\ manager[p].active /\ manager[p].contributed = << >>
  BY <1>1, ToldIs
<1>3. r.of = "counts" /\ r.passed \in Nat /\ n \in Nat
  <2>1. r.passed \in Int /\ r.passed >= 0 /\ n \in Nat
    BY <1>1, <1>2, CompletedIs
  <2>2. QED
    BY <1>1, <1>2, <2>1
<1>4. manager[p].curr_bucket + n = advanced(p)
  BY <1>2, <1>3 DEF advanced
<1>5. QED
  BY <1>1, <1>2, <1>3, <1>4

\* It is where the GVT moves: past the buckets whose sums agree.
LEMMA CheckCountsSched ==
  ASSUME Core, NEW p \in PE, check_counts(p)
  PROVE  /\ low' = low /\ net' = net
         /\ sched' \in [PE -> Scheduler] /\ \A q \in PE : q # p => sched'[q] = sched[q]
         /\ sched'[p].g_last_gvt = Start(advanced(p))
         /\ sched'[p].execs = IF sched'[p].running THEN 1 ELSE 0
<1>0. PICK r : r = result(p)
  OBVIOUS
<1>1. PICK n : n = Completed(r)
  OBVIOUS
<1>2. /\ n \in Nat /\ manager[p].curr_bucket + n = advanced(p)
      /\ low' = low /\ net' = net /\ Head(results[p]) = r
  BY <1>0, <1>1, CheckCountsIs
<1>3. manager[p].curr_bucket \in Nat /\ Start(advanced(p)) \in Time
  BY AdvancedIs
<1>4. sched \in [PE -> Scheduler] /\ Controlled(p) /\ Placed(p)
  BY DEF Core, TypeOK
<1> DEFINE d == gvt_done(sched[p], Start(advanced(p)), FALSE)
<1>5. d \in Scheduler /\ d.g_last_gvt = Start(advanced(p)) /\ d.execs = IF d.running THEN 1 ELSE 0
  <2>1. sched[p] \in Scheduler /\ sched[p].execs = IF sched[p].running THEN 1 ELSE 0
    BY <1>4 DEF Controlled
  <2>2. QED
    BY <1>3, <2>1, GvtDone
<1>6. sched' = [sched EXCEPT ![p] = IF n > 0 THEN d ELSE sched[p]]
  <2>1. advance_gvt(manager[p], n).curr_bucket * BucketSize = Start(advanced(p))
    <3>1. manager[p] \in Manager
      BY AdvancedIs
    <3>2. advance_gvt(manager[p], n).curr_bucket = advanced(p)
      BY <1>2, <3>1 DEF advance_gvt, Manager
    <3>3. QED
      BY <3>2 DEF Start
  <2>2. sched' = [sched EXCEPT ![p] =
          IF n > 0 THEN gvt_done(sched[p], advance_gvt(manager[p], n).curr_bucket * BucketSize, FALSE)
                   ELSE sched[p]]
    BY <1>1, <1>2 DEF check_counts
  <2>3. QED
    BY <2>1, <2>2
<1> HIDE DEF d
<1>7. CASE n > 0
  BY <1>2, <1>4, <1>5, <1>6, <1>7
<1>8. CASE ~(n > 0)
  <2>1. sched' = sched
    BY <1>4, <1>6, <1>8
  <2>2. manager[p].curr_bucket = advanced(p)
    BY <1>2, <1>3, <1>8
  <2>3. QED
    BY <1>2, <1>4, <2>1, <2>2 DEF Placed, Controlled
<1>9. QED
  BY <1>7, <1>8

\* check_counts(): the GVT moves past the buckets whose sums agree, and those
\* that do not are counted again.
LEMMA CheckCountsFollows ==
  ASSUME Core, NEW p \in PE, check_counts(p), PowerOfTwo \/ Start(advanced(p)) <= low[p]
  PROVE  \E a, r : /\ Told(p) /\ r = result(p) /\ Followed(p, a, r)
                   /\ Start(advanced(p)) <= low[p] => Fresh(a, low[p])
<1>0. PICK r : r = result(p)
  OBVIOUS
<1>1. PICK n : n = Completed(r)
  OBVIOUS
<1> DEFINE m == advance_gvt(manager[p], n)
<1>2. /\ Told(p) /\ r.of = "counts" /\ r \in Reduced /\ Within(r, manager[p].curr_bucket)
      /\ n \in Nat /\ r.passed \in Nat
      /\ manager[p].curr_bucket + n = advanced(p)
      /\ low' = low /\ net' = net
      /\ Head(results[p]) = r /\ manager[p].active /\ manager[p].contributed = << >>
  BY <1>0, <1>1, CheckCountsIs
<1>3. /\ m \in Manager /\ m.curr_bucket = advanced(p) /\ m.counts = manager[p].counts
      /\ m.active /\ m.contributed = << >>
  <2>1. manager[p] \in Manager /\ manager[p].curr_bucket \in Nat /\ advanced(p) \in 0..total_buckets
    BY AdvancedIs, Totals
  <2>2. m = [manager[p] EXCEPT !.curr_bucket = advanced(p)]
    BY <1>2 DEF advance_gvt
  <2>3. QED
    BY <1>2, <2>1, <2>2 DEF Manager
<1>4. /\ results' = [results EXCEPT ![p] = Tail(results[p])]
      /\ manager' = [manager EXCEPT ![p] =
           IF r.passed > n THEN send_counts(m, low[p], r.passed - n)
                           ELSE attempt_gvt([m EXCEPT !.active = FALSE], low[p])]
  BY <1>1, <1>2 DEF check_counts
<1> HIDE DEF m
<1>5. /\ manager[p].curr_bucket \in Nat /\ advanced(p) \in Nat /\ low[p] \in Time
      /\ advanced(p) <= total_buckets /\ Measured(m, low[p])
  BY <1>3, AdvancedIs DEF Measured
<1>6. /\ manager \in [PE -> Manager] /\ total_buckets \in Nat
  BY Totals DEF Core, TypeOK
<1>7. /\ sched' \in [PE -> Scheduler] /\ \A q \in PE : q # p => sched'[q] = sched[q]
      /\ sched'[p].g_last_gvt = Start(advanced(p))
      /\ sched'[p].execs = IF sched'[p].running THEN 1 ELSE 0
  BY CheckCountsSched
<1>8. CASE r.passed > n
  <2> DEFINE k == r.passed - n
             a == send_counts(m, low[p], k)
  <2>1. k \in Nat /\ m.curr_bucket + k <= total_buckets
    BY <1>2, <1>3, <1>5, <1>6, <1>8 DEF Within
  <2>2. manager' = [manager EXCEPT ![p] = a]
    BY <1>4, <1>8
  <2> HIDE DEF k
  <2>3. /\ a \in Manager /\ a.counts = m.counts /\ a.curr_bucket = m.curr_bucket
        /\ a.active = m.active
        /\ \E c \in Reduced :
             /\ a.contributed = Append(m.contributed, c)
             /\ c.of = "counts" /\ Len(c.d) = k /\ Within(c, m.curr_bucket)
             /\ Start(m.curr_bucket) <= low[p] => Untouched(m, low[p], c)
    BY <1>3, <1>5, <2>1, SendCountsIs
  <2> HIDE DEF a
  <2>4. PICK c \in Reduced :
             /\ a.contributed = Append(m.contributed, c)
             /\ c.of = "counts" /\ Len(c.d) = k /\ Within(c, m.curr_bucket)
             /\ Start(m.curr_bucket) <= low[p] => Untouched(m, low[p], c)
    BY <2>3
  <2>5. a.contributed = <<c>>
    BY <1>3, <2>4
  <2>6. a.contributed[1] = c /\ a.contributed # << >>
    BY <2>5
  <2>7. manager'[p] = a
    BY <1>6, <2>2
  <2>8. Follows(p, r)'
    <3>1. Gives(p, "counts", r.passed - n)'
      BY <2>4, <2>6, <2>7 DEF Gives, Given, contribution, k
    <3>2. QED
      BY <1>1, <1>2, <1>8, <3>1 DEF Follows
  <2>9. Start(advanced(p)) <= low[p] => Fresh(a, low[p])
    BY <1>3, <2>3, <2>4, <2>6 DEF Untouched, UntouchedUpTo, Fresh
  <2>10. a.curr_bucket = advanced(p) /\ a.counts = manager[p].counts /\ a.active
    BY <1>3, <2>3
  <2>11. /\ a \in Manager /\ a.contributed = <<a.contributed[1]>>
         /\ Within(a.contributed[1], a.curr_bucket)
    BY <2>3, <2>4, <2>5, <2>6
  <2>12. Followed(p, a, r)
    BY <1>2, <1>4, <1>7, <2>2, <2>8, <2>10, <2>11 DEF Followed
  <2>13. QED
    BY <1>0, <1>2, <2>9, <2>12
<1>9. CASE ~(r.passed > n)
  <2> DEFINE o == [m EXCEPT !.active = FALSE]
             a == attempt_gvt(o, low[p])
  <2>1. /\ o \in Manager /\ ~o.active /\ o.curr_bucket = m.curr_bucket /\ o.counts = m.counts
        /\ o.contributed = << >>
    BY <1>3 DEF Manager
  <2>2. manager' = [manager EXCEPT ![p] = a]
    BY <1>4, <1>9
  <2> HIDE DEF o
  <2>3. Attempted(o, a) /\ a.counts = o.counts
    BY <1>5, <2>1, AttemptIs DEF Measured
  <2> HIDE DEF a
  <2>4. a \in Manager /\ a.curr_bucket = advanced(p) /\ a.counts = manager[p].counts
    BY <1>3, <2>1, <2>3 DEF Attempted
  <2>5. manager'[p] = a
    BY <1>6, <2>2
  <2>6. r.passed <= n
    BY <1>2, <1>9
  <2>7. CASE a.contributed = << >> /\ ~a.active
    <3>1. Follows(p, r)'
      BY <1>1, <1>2, <2>5, <2>6, <2>7 DEF Follows, Given
    <3>2. Followed(p, a, r)
      BY <1>2, <1>4, <1>7, <2>2, <2>4, <2>7, <3>1 DEF Followed
    <3>3. Fresh(a, low[p])
      BY <2>7 DEF Fresh
    <3>4. QED
      BY <1>0, <1>2, <3>2, <3>3
  <2>8. CASE ~(a.contributed = << >> /\ ~a.active)
    <3>1. PICK k \in 0..total_buckets :
            a.active /\ a.contributed = Append(<< >>, Ready(k)) /\ o.curr_bucket + k <= total_buckets
      BY <2>1, <2>3, <2>8 DEF Attempted
    <3>2. a.contributed = <<Ready(k)>>
      BY <3>1
    <3>3. /\ Ready(k) \in Reduced /\ Ready(k).of = "ready" /\ Len(Ready(k).d) = 0
          /\ Ready(k).passed = k
      <4>1. k \in -total_buckets..total_buckets
        BY <1>6
      <4>2. QED
        BY <4>1 DEF Ready, Reduced
    <3> DEFINE c == Ready(k)
    <3> HIDE DEF c
    <3>4. a.contributed = <<c>> /\ c \in Reduced /\ c.of = "ready" /\ Len(c.d) = 0 /\ c.passed = k
      BY <3>2, <3>3 DEF c
    <3>5. a.contributed[1] = c /\ a.contributed # << >>
      BY <3>4
    <3>6. Within(c, a.curr_bucket)
      <4>1. a.curr_bucket \in Nat /\ a.curr_bucket <= total_buckets /\ a.curr_bucket = o.curr_bucket
        BY <1>3, <1>5, <1>6, <2>1, <2>4
      <4>2. QED
        BY <1>6, <3>1, <3>4, <4>1 DEF Within
    <3>7. Gives(p, "ready", 0)'
      BY <2>5, <3>4, <3>5 DEF Gives, Given, contribution
    <3>8. Follows(p, r)'
      BY <1>1, <1>2, <2>6, <3>7 DEF Follows
    <3>9. /\ a.contributed = <<a.contributed[1]>> /\ Within(a.contributed[1], a.curr_bucket)
          /\ a.contributed[1].of # "counts" /\ a.active
      BY <3>1, <3>4, <3>5, <3>6
    <3>10. Followed(p, a, r)
      BY <1>2, <1>4, <1>7, <2>2, <2>4, <3>8, <3>9 DEF Followed
    <3>11. QED
      BY <1>0, <1>2, <3>9, <3>10 DEF Fresh
  <2>9. QED
    BY <2>7, <2>8
<1>10. QED
  BY <1>8, <1>9

\* The end of a reduction.
LEMMA ReduceCore ==
  ASSUME Core, reduce
  PROVE  /\ Core'
         /\ \E c \in Reduced :
              /\ Summed(c)
              /\ \A p \in PE : /\ ~Given(p)'
                               /\ \A q \in PE : manager[q].curr_bucket = manager[p].curr_bucket
                               /\ advanced(p)' = manager[p].curr_bucket
                                                 + IF c.of = "counts" THEN Completed(c) ELSE 0
<1>1. PICK c \in Reduced :
        /\ Summed(c)
        /\ results' = [p \in PE |-> <<c>>]
        /\ \A p \in PE : /\ manager'[p] \in Manager /\ manager'[p].contributed = << >>
                         /\ manager'[p].active /\ manager'[p].counts = manager[p].counts
                         /\ manager'[p].curr_bucket = manager[p].curr_bucket
  BY ReduceIs
<1>2. /\ Rounds'
      /\ \A p, q \in PE : manager[p].curr_bucket = manager[q].curr_bucket
      /\ \A p \in PE : /\ Told(p)' /\ result(p)' = c /\ Within(c, manager[p].curr_bucket)
                       /\ advanced(p)' = manager[p].curr_bucket
                                         + IF c.of = "counts" THEN Completed(c) ELSE 0
  <2>1. \A p \in PE : results'[p] = <<c>>
    BY <1>1
  <2>2. QED
    BY <1>1, <2>1, ReduceRounds
<1>3. sched' = sched /\ low' = low /\ net' = net
  BY DEF reduce
<1>4. /\ TypeOK /\ Accounted /\ \A p \in PE : Controlled(p) /\ Placed(p)
  BY DEF Core
<1>5. TypeOK'
  <2>1. manager' \in [PE -> Manager]
    <3>1. manager' = [p \in PE |-> [manager[p] EXCEPT !.contributed = Tail(manager[p].contributed)]]
      BY DEF reduce
    <3>2. QED
      BY <1>1, <3>1
  <2>2. results' \in [PE -> Seq(Reduced)]
    <3>1. <<c>> \in Seq(Reduced)
      OBVIOUS
    <3>2. QED
      BY <1>1, <3>1
  <2>3. QED
    BY <1>3, <1>4, <2>1, <2>2 DEF TypeOK
<1>6. Accounted'
  BY <1>1, <1>3, <1>4, CountsStay
<1>7. \A p \in PE : Controlled(p)' /\ Placed(p)' /\ ~Given(p)'
  BY <1>1, <1>3, <1>4 DEF Controlled, Placed, Start, Given
<1>8. Core'
  BY <1>2, <1>5, <1>6, <1>7 DEF Core, Rounds
<1>9. QED
  BY <1>1, <1>2, <1>7, <1>8

\* The buckets that it completes are over.
LEMMA ReduceIInv ==
  ASSUME IInv, reduce
  PROVE  IInv'
<1>0. Core /\ Floors /\ InPhase
  BY DEF IInv
<1>1. PICK c \in Reduced :
        /\ Summed(c)
        /\ \A p \in PE : /\ ~Given(p)'
                         /\ \A q \in PE : manager[q].curr_bucket = manager[p].curr_bucket
                         /\ advanced(p)' = manager[p].curr_bucket
                                           + IF c.of = "counts" THEN Completed(c) ELSE 0
  BY <1>0, ReduceCore
<1>2. Core'
  BY <1>0, ReduceCore
<1>3. low' = low /\ net' = net
  BY DEF reduce
<1>4. Floors'
  <2>1. ASSUME NEW p \in PE PROVE IsFloor(Start(advanced(p)'), low, net)
    <3> DEFINE cur == manager[p].curr_bucket
    <3>1. cur \in Nat /\ IsFloor(Start(cur), low, net)
      BY <1>0, AdvancedIs, NoneBelow
    <3>2. /\ \A q \in PE : manager[q].curr_bucket = cur
          /\ advanced(p)' = cur + IF c.of = "counts" THEN Completed(c) ELSE 0
      BY <1>1
    <3> HIDE DEF cur
    <3>3. CASE c.of = "counts"
      BY <1>1, <3>1, <3>2, <3>3, ReduceFloors
    <3>4. CASE c.of # "counts"
      <4>1. advanced(p)' = cur
        BY <3>1, <3>2, <3>4
      <4>2. QED
        BY <3>1, <4>1
    <3>5. QED
      BY <3>3, <3>4
  <2>2. QED
    BY <1>3, <2>1 DEF Floors, IsFloor, Start
<1>5. InPhase'
  BY <1>0, <1>3 DEF InPhase, BucketOf
<1>6. \A p \in PE : Snapshot(p)'
  BY <1>1 DEF Snapshot
<1>7. QED
  BY <1>2, <1>4, <1>5, <1>6 DEF IInv

\* Nothing is counted or in flight when the simulation starts.
LEMMA InitIInv ==
  ASSUME Init
  PROVE  IInv
<1> DEFINE m == [active |-> FALSE, curr_bucket |-> 0,
                 counts |-> [b \in Bucket |-> 0], contributed |-> << >>]
           n == [p \in PE |-> [t \in EventTime |-> 0]]
<1>1. /\ sched = [p \in PE |-> start_simulation] /\ manager = [p \in PE |-> m]
      /\ low \in [PE -> Time] /\ net = n /\ results = [p \in PE |-> << >>]
  BY DEF Init
<1>2. m \in Manager
  BY Totals DEF Manager
<1>3. start_simulation \in Scheduler /\ start_simulation.g_last_gvt = 0
      /\ start_simulation.running /\ start_simulation.execs = 1
  BY EndTimeAssumption, GvtIntervalAssumption DEF start_simulation, Scheduler, Mode, Time
<1>4. n \in Flights
  BY DEF Flights
<1>5. TypeOK
  BY <1>1, <1>2, <1>3, <1>4 DEF TypeOK
<1>6. ASSUME NEW p \in PE
      PROVE  /\ ~Given(p) /\ ~Told(p) /\ ~manager[p].active /\ manager[p].curr_bucket = 0
             /\ \A b \in Bucket : manager[p].counts[b] = 0
  BY <1>1 DEF Given, Told
<1>7. ASSUME NEW p \in PE PROVE advanced(p) = 0
  BY <1>6 DEF advanced
<1>8. \A p \in PE : Staged(p) /\ Fits(p) /\ Snapshot(p) /\ Controlled(p)
  <2>1. \A p \in PE : Controlled(p)
    BY <1>1, <1>3 DEF Controlled
  <2>2. QED
    BY <1>6, <2>1 DEF Staged, Fits, Snapshot, Given, Told
<1>9. \A p, q \in PE : Together(p, q)
  BY <1>6, <1>7 DEF Together
<1>10. (\A p \in PE : Placed(p)) /\ Floors /\ InPhase
  <2>1. Start(0) = 0
    BY BucketsFillTime DEF Start
  <2>2. IsFloor(0, low, net)
    <3>1. ASSUME NEW p \in PE PROVE low[p] \in Nat
      <4>1. low[p] \in Time
        BY <1>1
      <4>2. QED
        BY <4>1, Totals
    <3>2. \A p \in PE : 0 <= low[p]
      <4> TAKE p \in PE
      <4>1. low[p] \in Nat
        BY <3>1
      <4>2. QED
        BY <4>1
    <3>3. \A t \in EventTime : 0 <= t
      BY DEF EventTime
    <3>4. QED
      BY <3>2, <3>3 DEF IsFloor
  <2>3. ASSUME NEW p \in PE PROVE Placed(p) /\ IsFloor(Start(advanced(p)), low, net)
    <3>1. sched[p].g_last_gvt = 0
      BY <1>1, <1>3
    <3>2. QED
      BY <1>6, <1>7, <2>1, <2>2, <3>1 DEF Placed
  <2>4. InPhase
    BY <1>1 DEF InPhase
  <2>5. QED
    BY <2>3, <2>4 DEF Floors
<1>11. Accounted
  <2> SUFFICES ASSUME NEW b \in Bucket PROVE Balance(Held(b)) = Flying(Inside(net, b))
    BY DEF Accounted
  <2>1. Held(b) \in [PE -> Int] /\ \A p \in PE : Held(b)[p] = 0
    BY <1>6 DEF Held
  <2>2. Balance(Held(b)) = 0
    BY <2>1, BalanceZero
  <2>3. Inside(net, b) \in Flights /\ NothingInFlight(Inside(net, b))
    <3>1. net \in Flights /\ \A p \in PE, t \in EventTime : net[p][t] = 0
      BY <1>1, <1>4
    <3>2. QED
      BY <3>1, InsideType DEF NothingInFlight
  <2>4. QED
    BY <2>2, <2>3, FlyingNone
<1>12. QED
  BY <1>5, <1>8, <1>9, <1>10, <1>11 DEF IInv, Core

\* A step in which nothing changes.
LEMMA StutterCore ==
  ASSUME Core, UNCHANGED vars
  PROVE  Core' /\ \A q \in PE : advanced(q)' = advanced(q)
<1>1. sched' = sched /\ manager' = manager /\ low' = low /\ net' = net /\ results' = results
  BY DEF vars
<1>2. \A p \in PE : /\ (Given(p)' <=> Given(p)) /\ contribution(p)' = contribution(p)
                    /\ (Told(p)' <=> Told(p)) /\ result(p)' = result(p) /\ advanced(p)' = advanced(p)
  BY <1>1 DEF Given, Told, contribution, result, advanced
<1>3. /\ TypeOK /\ Accounted
      /\ \A p \in PE : Staged(p) /\ Fits(p) /\ Placed(p) /\ Controlled(p)
      /\ \A p, q \in PE : Together(p, q)
  BY DEF Core
<1>4. TypeOK'
  BY <1>1, <1>3 DEF TypeOK
<1>5. \A p \in PE : Staged(p)' /\ Fits(p)' /\ Placed(p)' /\ Controlled(p)'
  BY <1>1, <1>2, <1>3 DEF Staged, Fits, Placed, Controlled, Start
<1>6. \A p, q \in PE : Together(p, q)'
  BY <1>1, <1>2, <1>3 DEF Together, Follows, Gives
<1>7. Accounted'
  BY <1>1, <1>3, CountsStay
<1>8. QED
  BY <1>2, <1>4, <1>5, <1>6, <1>7 DEF Core

\* It keeps the whole invariant.
LEMMA StutterIInv ==
  ASSUME IInv, UNCHANGED vars
  PROVE  IInv'
<1>0. Core /\ Floors /\ InPhase /\ \A p \in PE : Snapshot(p)
  BY DEF IInv
<1>1. manager' = manager /\ low' = low /\ net' = net
  BY DEF vars
<1>2. Core' /\ \A q \in PE : advanced(q)' = advanced(q)
  BY <1>0, StutterCore
<1>3. ASSUME NEW p \in PE PROVE Snapshot(p)'
  <2>1. (Given(p)' <=> Given(p)) /\ contribution(p)' = contribution(p) /\ Snapshot(p)
    BY <1>0, <1>1 DEF Given, contribution
  <2>2. QED
    BY <1>1, <2>1 DEF Snapshot, Untouched, UntouchedUpTo
<1>4. Floors' /\ InPhase'
  BY <1>0, <1>1, <1>2 DEF Floors, InPhase, Start, IsFloor, BucketOf
<1>5. QED
  BY <1>2, <1>3, <1>4 DEF IInv

\* Every step keeps what holds whatever is sent, if a PE can count the buckets it
\* has passed wherever it is.
LEMMA NextCore ==
  ASSUME PowerOfTwo, Core, [Next]_vars
  PROVE  Core'
<1>1. ASSUME NEW p \in PE, execute(p) PROVE Core'
  <2>1. PICK S, a, x : Handled(p, low[p], net, S, a, x) /\ Tallied(p, a)
    BY <1>1, ExecuteIs DEF Measured
  <2>2. low[p] \in Time /\ net \in Flights
    BY DEF Core, TypeOK
  <2>3. QED
    BY <2>1, <2>2, HandledCore
<1>2. ASSUME NEW p \in PE, NEW t \in EventTime, receive(p, t) PROVE Core'
  <2> DEFINE f == Earlier(low[p], t)
             n == Take(net, p, t)
  <2>1. PICK S, a, x : Handled(p, f, n, S, a, x) /\ Tallied(p, a)
    BY <1>2, ReceiveIs DEF Measured
  <2>2. f \in Time
    <3>1. low[p] \in Time /\ t \in Time
      BY Totals DEF Core, TypeOK, EventTime
    <3>2. QED
      BY <3>1 DEF Earlier
  <2>3. n \in Flights
    BY <1>2, TakeType DEF Core, TypeOK, receive
  <2> HIDE DEF f, n
  <2>4. QED
    BY <2>1, <2>2, <2>3, HandledCore
<1>3. ASSUME NEW p \in PE, all_ready(p) PROVE Core'
  <2>1. PICK a, r : Told(p) /\ r = result(p) /\ Followed(p, a, r)
    BY <1>3, AllReadyIs
  <2>2. QED
    BY <2>1, FollowingCore
<1>4. ASSUME NEW p \in PE, check_counts(p) PROVE Core'
  <2>1. PICK a, r : Told(p) /\ r = result(p) /\ Followed(p, a, r)
    BY <1>4, CheckCountsFollows
  <2>2. QED
    BY <2>1, FollowingCore
<1>5. CASE reduce
  BY <1>5, ReduceCore
<1>6. CASE over \/ UNCHANGED vars
  BY <1>6, StutterCore DEF over
<1>7. QED
  BY <1>1, <1>2, <1>3, <1>4, <1>5, <1>6 DEF Next

\* Every step keeps the invariant when what is sent is past the bucket of its
\* sender.
LEMMA NextIInv ==
  ASSUME IInv, [NextAhead]_vars
  PROVE  IInv'
<1>0. ASSUME NEW p \in PE PROVE Core /\ Start(advanced(p)) <= low[p]
  BY NoneBelow DEF IInv, IsFloor
<1>1. ASSUME NEW p \in PE, executeAhead(p) PROVE IInv'
  BY <1>1, ExecuteIInv
<1>2. ASSUME NEW p \in PE, NEW t \in EventTime, receiveAhead(p, t) PROVE IInv'
  BY <1>2, ReceiveIInv
<1>3. ASSUME NEW p \in PE, all_ready(p) PROVE IInv'
  <2>1. PICK a, r : Told(p) /\ r = result(p) /\ Followed(p, a, r) /\ Fresh(a, low[p])
    BY <1>0, <1>3, AllReadyIs
  <2>2. QED
    BY <2>1, FollowingKeeps
<1>4. ASSUME NEW p \in PE, check_counts(p) PROVE IInv'
  <2>1. PICK a, r : Told(p) /\ r = result(p) /\ Followed(p, a, r) /\ Fresh(a, low[p])
    BY <1>0, <1>4, CheckCountsFollows
  <2>2. QED
    BY <2>1, FollowingKeeps
<1>5. CASE reduce
  BY <1>5, ReduceIInv
<1>6. CASE over \/ UNCHANGED vars
  BY <1>6, StutterIInv DEF over
<1>7. QED
  BY <1>1, <1>2, <1>3, <1>4, <1>5, <1>6 DEF NextAhead

-----------------------------------------------------------------------------
(***************************************************************************)
(* The theorems.                                                           *)
(***************************************************************************)

\* The rounds hold together and the counts are true in every run, if the size of
\* a bucket is one that PEs before their current bucket can count with.
LEMMA CoreInductive ==
  ASSUME PowerOfTwo
  PROVE  Spec => []Core
<1>1. Init => Core
  BY InitIInv DEF IInv
<1>2. Core /\ [Next]_vars => Core'
  BY NextCore
<1>3. QED
  BY <1>1, <1>2, PTL DEF Spec

\* The whole invariant holds in the runs in which nothing is sent into the bucket
\* its sender works in.
LEMMA IInvInductive == SpecAhead => []IInv
<1>1. Init => IInv
  BY InitIInv
<1>2. IInv /\ [NextAhead]_vars => IInv'
  BY NextIInv
<1>3. QED
  BY <1>1, <1>2, PTL DEF SpecAhead

\* PEs that are where Core says contribute to one reduction.
LEMMA CoreMatches ==
  ASSUME Core
  PROVE  ReductionsMatch
<1>1. TypeOK /\ \A p \in PE : Staged(p) /\ Fits(p) /\ \A q \in PE : Together(p, q)
  BY DEF Core
<1>2. ASSUME NEW p \in PE
      PROVE  /\ Len(manager[p].contributed) + Len(results[p]) <= 1
             /\ Given(p) => ~Told(p) /\ advanced(p) = manager[p].curr_bucket
  <2>1. manager[p].curr_bucket + 0 = manager[p].curr_bucket
    BY AdvancedIs
  <2> DEFINE x == manager[p].contributed[1]
             y == results[p][1]
  <2>2. \/ manager[p].contributed = << >> /\ results[p] = << >>
        \/ manager[p].contributed = <<x>> /\ results[p] = << >>
        \/ manager[p].contributed = << >> /\ results[p] = <<y>>
    BY <1>1 DEF Staged
  <2> HIDE DEF x, y
  <2>3. Len(manager[p].contributed) + Len(results[p]) <= 1
    <3>1. Len(<<x>>) = 1 /\ Len(<<y>>) = 1 /\ Len(<< >>) = 0
      OBVIOUS
    <3>2. \/ Len(manager[p].contributed) = 0 /\ Len(results[p]) = 0
          \/ Len(manager[p].contributed) = 1 /\ Len(results[p]) = 0
          \/ Len(manager[p].contributed) = 0 /\ Len(results[p]) = 1
      BY <2>2, <3>1
    <3> DEFINE k == Len(manager[p].contributed)
               l == Len(results[p])
    <3>3. (k = 0 /\ l = 0) \/ (k = 1 /\ l = 0) \/ (k = 0 /\ l = 1)
      BY <3>2
    <3> HIDE DEF k, l
    <3>4. k + l <= 1
      BY <3>3
    <3>5. QED
      BY <3>4 DEF k, l
  <2>4. Given(p) => ~Told(p)
    BY <2>2 DEF Given, Told
  <2>5. QED
    BY <2>1, <2>3, <2>4 DEF advanced
<1>3. ASSUME NEW p \in PE, NEW q \in PE, Given(p), Given(q)
      PROVE  /\ contribution(p).of = contribution(q).of
             /\ Len(contribution(p).d) = Len(contribution(q).d)
             /\ manager[p].curr_bucket = manager[q].curr_bucket
  BY <1>1, <1>2, <1>3 DEF Together, Gives
<1>4. QED
  BY <1>1, <1>2, <1>3 DEF ReductionsMatch, Given, contribution

\* Every reduction adds up contributions of one kind, and counts of the same
\* buckets, although each PE enters it when it happens to: whatever is sent if
\* the size of a bucket is a power of two (the default is 8), and with any size
\* while nothing is sent into the bucket that its sender works in.
THEOREM ReductionsAgree ==
  /\ PowerOfTwo => (Spec => []ReductionsMatch)
  /\ SpecAhead => []ReductionsMatch
<1>1. ASSUME PowerOfTwo PROVE Spec => []ReductionsMatch
  <2>1. Spec => []Core
    BY <1>1, CoreInductive
  <2>2. Core => ReductionsMatch
    BY CoreMatches
  <2>3. QED
    BY <2>1, <2>2, PTL
<1>2. SpecAhead => []ReductionsMatch
  <2>1. IInv => ReductionsMatch
    BY CoreMatches DEF IInv
  <2>2. QED
    BY IInvInductive, <2>1, PTL
<1>3. QED
  BY <1>1, <1>2

-----------------------------------------------------------------------------
(***************************************************************************)
(* Every step of the manager and the schedulers is a step of VirtualTime,  *)
(* or changes nothing that the contract speaks of.                         *)
(***************************************************************************)
gvt == [p \in PE |-> sched[p].g_last_gvt]

\* What is sent is added to what is in flight, at f or later.
LEMMA WorkIsAbstract ==
  ASSUME NEW p \in PE, NEW f \in Time, NEW before \in Flights, low \in [PE -> Time],
         NEW x \in f..EndTime, low' = [low EXCEPT ![p] = x],
         NEW S \in SUBSET (PE \X EventTime), \A s \in S : s[2] >= f, net' = Put(before, S)
  PROVE  VT!MinimumFrom(p, f) /\ VT!SendsFrom(f, before)
<1>1. low' \in [PE -> Time] /\ low'[p] >= f /\ \A q \in PE \ {p} : low'[q] = low[q]
  BY Totals
<1>2. VT!MinimumFrom(p, f)
  BY <1>1 DEF VT!MinimumFrom, VT!Time, Time
<1>3. /\ net' \in Flights
      /\ \A q \in PE, t \in EventTime :
           net'[q][t] = IF <<q, t>> \in S THEN before[q][t] + 1 ELSE before[q][t]
  BY PutType
<1>4. \A q \in PE, t \in EventTime :
        net'[q][t] >= before[q][t] /\ (net'[q][t] > before[q][t] => t >= f)
  <2> SUFFICES ASSUME NEW q \in PE, NEW t \in EventTime
               PROVE  net'[q][t] >= before[q][t] /\ (net'[q][t] > before[q][t] => t >= f)
    OBVIOUS
  <2>1. before[q][t] \in Nat
    BY DEF Flights
  <2>2. CASE <<q, t>> \in S
    <3>1. <<q, t>>[2] >= f
      BY <2>2, Zenon
    <3>2. net'[q][t] = before[q][t] + 1
      BY <1>3, <2>2
    <3>3. QED
      BY <2>1, <3>1, <3>2
  <2>3. CASE <<q, t>> \notin S
    <3>1. net'[q][t] = before[q][t]
      BY <1>3, <2>3
    <3>2. QED
      BY <2>1, <3>1
  <2>4. QED
    BY <2>2, <2>3
<1>5. VT!SendsFrom(f, before)
  BY <1>3, <1>4 DEF VT!SendsFrom, VT!Flights, VT!EventTime, Flights, EventTime
<1>6. QED
  BY <1>2, <1>5

\* As long as no PE is told a GVT, the abstract ones stay.
LEMMA GvtStays ==
  ASSUME \A p \in PE : sched'[p].g_last_gvt = sched[p].g_last_gvt
  PROVE  gvt' = gvt
BY DEF gvt

\* execute() is Work.
LEMMA ExecuteRefines ==
  ASSUME IInv, NEW p \in PE, execute(p)
  PROVE  VT!Work(p)
<1>1. /\ low \in [PE -> Time] /\ low[p] \in Time /\ net \in Flights
      /\ sched \in [PE -> Scheduler] /\ sched[p] \in Scheduler
  BY DEF IInv, Core, TypeOK
<1>2. PICK S \in Emissions(manager[p], low[p]) :
        /\ net' = Put(net, S)
        /\ \E x \in low[p]..EndTime, m \in produced(manager[p], S, low[p]) :
             low' = [low EXCEPT ![p] = x] /\ iteration_done(p, m, x)
  BY DEF execute
<1>3. PICK x \in low[p]..EndTime, m \in produced(manager[p], S, low[p]) :
        low' = [low EXCEPT ![p] = x] /\ iteration_done(p, m, x)
  BY <1>2
<1>4. S \in SUBSET (PE \X EventTime) /\ \A s \in S : s[2] >= low[p]
  BY <1>1, EmissionsFrom DEF Emissions
<1> DEFINE f == low[p]
<1>5. f \in Time /\ x \in f..EndTime
  BY <1>1
<1> HIDE DEF f
<1>6. VT!MinimumFrom(p, f) /\ VT!SendsFrom(f, net)
  BY <1>1, <1>2, <1>3, <1>4, <1>5, WorkIsAbstract DEF f
<1>7. \A q \in PE : sched'[q].g_last_gvt = sched[q].g_last_gvt
  <2> DEFINE c == iteration_counted(sched[p])
             r == gvt_trigger_reset(c)
  <2>1. \/ sched' = [sched EXCEPT ![p] = gvt_resume(r)]
        \/ sched' = [sched EXCEPT ![p] = next_iteration(c)]
    BY <1>3 DEF iteration_done
  <2>2. /\ gvt_resume(r).g_last_gvt = sched[p].g_last_gvt
        /\ next_iteration(c).g_last_gvt = sched[p].g_last_gvt
    BY <1>1 DEF iteration_counted, gvt_trigger_reset, gvt_resume, next_iteration, Scheduler
  <2> HIDE DEF c, r
  <2>3. QED
    BY <1>1, <2>1, <2>2
<1>8. QED
  BY <1>6, <1>7, GvtStays DEF VT!Work, gvt, f

\* recv_remote_event() and recv_anti_event() are Receive.
LEMMA ReceiveRefines ==
  ASSUME IInv, NEW p \in PE, NEW t \in EventTime, receive(p, t)
  PROVE  VT!Receive(p, t)
<1> DEFINE f == Earlier(low[p], t)
           n == Take(net, p, t)
           m == consume(manager[p], t, low[p])
<1>1. net[p][t] > 0 /\ sched' = sched
  BY DEF receive
<1>2. PICK S \in Emissions(m, t) : net' = Put(n, S)
  BY DEF receive
<1>3. PICK x \in f..EndTime : low' = [low EXCEPT ![p] = x]
  BY DEF receive
<1>4. low \in [PE -> Time] /\ low[p] \in Time /\ net \in Flights
  BY DEF IInv, Core, TypeOK
<1>5. t \in Time /\ t \in Nat /\ low[p] \in Nat
  BY <1>4, Totals DEF EventTime
<1>6. f \in Time /\ f <= t
  BY <1>4, <1>5 DEF Earlier
<1>7. S \in EmissionsWithin(t, net)
  BY DEF Emissions
<1>8. S \in SUBSET (PE \X EventTime) /\ \A s \in S : s[2] >= t
  BY <1>5, <1>7, EmissionsFrom
<1>9. n \in Flights
  BY <1>1, <1>4, TakeType
<1> HIDE DEF f, n, m
<1>10. \A s \in S : s[2] >= f
  <2> TAKE s \in S
  <2>1. s[2] \in Nat /\ s[2] >= t /\ f \in Nat
    BY <1>6, <1>8, Totals DEF EventTime
  <2>2. QED
    BY <1>5, <1>6, <2>1
<1>11. VT!MinimumFrom(p, f) /\ VT!SendsFrom(f, n)
  BY <1>2, <1>3, <1>4, <1>6, <1>8, <1>9, <1>10, WorkIsAbstract
<1>12. gvt' = gvt
  BY <1>1 DEF gvt
<1>13. QED
  BY <1>1, <1>11, <1>12
  DEF VT!Receive, VT!Earlier, VT!Take, Earlier, Take, VT!EventTime, EventTime, f, n, gvt

\* check_counts() is Commit, also when no bucket is complete: the GVT is then
\* told once more.
LEMMA CheckCountsRefines ==
  ASSUME IInv, NEW p \in PE, check_counts(p)
  PROVE  VT!Commit(p)
<1> DEFINE g == Start(advanced(p))
<1>0. Core
  BY DEF IInv
<1>1. /\ low' = low /\ net' = net /\ \A q \in PE : q # p => sched'[q] = sched[q]
      /\ sched'[p].g_last_gvt = g
  BY <1>0, CheckCountsSched
<1>2. /\ manager[p].curr_bucket \in Nat /\ manager[p].curr_bucket <= advanced(p)
      /\ advanced(p) \in Nat /\ g \in Time /\ IsFloor(g, low, net)
  BY <1>0, AdvancedIs, NoneBelow
<1>3. sched[p].g_last_gvt = Start(manager[p].curr_bucket)
  BY <1>0 DEF Core, Placed
<1>4. g >= sched[p].g_last_gvt
  BY <1>2, <1>3, Starts
<1> HIDE DEF g
<1>5. \A q \in PE : sched'[q].g_last_gvt = IF q = p THEN g ELSE sched[q].g_last_gvt
  BY <1>1
<1>6. gvt' = [gvt EXCEPT ![p] = g]
  BY <1>5 DEF gvt
<1>7. VT!IsFloor(g, low, net)
  BY <1>2 DEF IsFloor, VT!IsFloor, EventTime, VT!EventTime
<1>8. QED
  BY <1>1, <1>2, <1>4, <1>6, <1>7 DEF VT!Commit, gvt, VT!Time, Time

\* Every step is a step of VirtualTime or changes nothing it sees.
LEMMA StepRefines ==
  ASSUME IInv, [NextAhead]_vars
  PROVE  VT!Next \/ UNCHANGED <<low, net, gvt>>
<1>1. ASSUME NEW p \in PE, executeAhead(p) PROVE VT!Next
  <2>1. VT!Work(p)
    BY <1>1, ExecuteRefines DEF executeAhead
  <2>2. QED
    BY <2>1 DEF VT!Next
<1>2. ASSUME NEW p \in PE, NEW t \in EventTime, receiveAhead(p, t) PROVE VT!Next
  <2>1. VT!Receive(p, t)
    BY <1>2, ReceiveRefines DEF receiveAhead
  <2>2. QED
    BY <2>1 DEF VT!Next, VT!EventTime, EventTime
<1>3. ASSUME NEW p \in PE, check_counts(p) PROVE VT!Next
  <2>1. VT!Commit(p)
    BY <1>3, CheckCountsRefines
  <2>2. QED
    BY <2>1 DEF VT!Next
<1>4. ASSUME NEW p \in PE, all_ready(p) PROVE UNCHANGED <<low, net, gvt>>
  BY <1>4 DEF all_ready, gvt
<1>5. CASE reduce \/ over \/ UNCHANGED vars
  BY <1>5 DEF reduce, over, vars, gvt
<1>6. QED
  BY <1>1, <1>2, <1>3, <1>4, <1>5 DEF NextAhead

\* As long as nothing is sent into the bucket that its sender works in, or past
\* the phases, BucketGVT implements VirtualTime: the sums of counts that PEs read
\* at moments of their own yield no GVT later than what is still to be executed
\* or cancelled, and none earlier than the one before.  This is a condition on
\* what is sent, not on the constants, and a run keeps the contract for as long
\* as it meets the condition.
THEOREM Refinement == SpecAhead => ImplementsVirtualTime
<1>1. Init => VT!Init
  <2> SUFFICES ASSUME Init PROVE VT!Init
    OBVIOUS
  <2>1. low \in [PE -> Time] /\ net \in Flights
    BY DEF Init, Flights
  <2>2. gvt = [p \in PE |-> 0]
    BY DEF Init, start_simulation, gvt
  <2>3. QED
    BY <2>1, <2>2 DEF VT!Init, VT!Time, VT!Flights, VT!EventTime, Time, Flights, EventTime, gvt
<1>2. IInv /\ [NextAhead]_vars => [VT!Next]_(VT!vars)
  BY StepRefines DEF VT!vars, gvt
<1>3. QED
  BY IInvInductive, <1>1, <1>2, PTL DEF SpecAhead, ImplementsVirtualTime, VT!Spec
=============================================================================

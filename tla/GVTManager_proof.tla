-------------------------- MODULE GVTManager_proof --------------------------
(***************************************************************************)
(* Facts about virtual time, the schedulers and the messages that the GVT  *)
(* managers share (SimTime, DistributedScheduler, GVTManager), cited by    *)
(* the proofs about each.                                                  *)
(***************************************************************************)
EXTENDS GVTManager, FiniteSetsExt, FiniteSetTheorems, WellFoundedInduction, TLAPS

\* A min reduction returns one of the values contributed, and none is less:
\* what CkReduction::min_ulong_long computes for gvt_contribute().
LEMMA MinOverIsMinimum ==
  ASSUME NEW f \in [PE -> Time]
  PROVE  /\ MinOver(f) \in Time
         /\ \E p \in PE : f[p] = MinOver(f)
         /\ \A p \in PE : MinOver(f) <= f[p]
<1> DEFINE S == {f[p] : p \in PE}
<1>1. S \subseteq Nat /\ S # {}
  BY RootAssumption, EndTimeAssumption DEF Time
<1>2. PICK m \in S : \A n \in S : m <= n
  <2> DEFINE R == OpToRel(<, Nat)
  <2>1. IsWellFoundedOn(R, Nat)
    BY NatLessThanWellFounded
  <2>2. \A m, n \in Nat : m < n => <<m, n>> \in R
    BY DEF OpToRel
  <2> HIDE DEF R, S
  <2>3. PICK m \in S : \A n \in S : ~ (<<n, m>> \in R)
    BY <1>1, <2>1, WFMin
  <2>4. ASSUME NEW n \in S PROVE m <= n
    <3>1. m \in Nat /\ n \in Nat
      BY <1>1
    <3>2. ~ (n < m)
      BY <2>2, <2>3, <3>1, Zenon
    <3>3. QED
      BY <3>1, <3>2
  <2>5. QED
    BY <2>4
<1>3. m \in Time /\ (\E p \in PE : f[p] = m) /\ (\A p \in PE : m <= f[p])
  BY <1>2
<1>4. QED
  BY <1>3 DEF MinOver

\* When chares change PEs every minimum after is at or above one before.
LEMMA RedistributedFloors ==
  ASSUME NEW f \in [PE -> Time], NEW g \in [PE -> Time], Redistributed(f, g)
  PROVE  \A p \in PE : \E q \in PE : f[q] <= g[p]
<1>1. PICK q \in PE : f[q] = MinOver(f)
  BY MinOverIsMinimum
<1>2. \A p \in PE : MinOver(g) <= g[p]
  BY MinOverIsMinimum
<1>3. QED
  BY <1>1, <1>2 DEF Redistributed

\* Sending and delivering keep the count of messages in flight well-formed.
LEMMA PutType ==
  ASSUME NEW n \in Flights, NEW S
  PROVE  /\ Put(n, S) \in Flights
         /\ \A p \in PE, t \in EventTime :
              Put(n, S)[p][t] = IF <<p, t>> \in S THEN n[p][t] + 1 ELSE n[p][t]
BY DEF Flights, Put

\* Take removes one message and touches no other.
LEMMA TakeType ==
  ASSUME NEW n \in Flights, NEW p \in PE, NEW t \in EventTime, n[p][t] > 0
  PROVE  /\ Take(n, p, t) \in Flights
         /\ \A q \in PE, u \in EventTime :
              Take(n, p, t)[q][u] = IF q = p /\ u = t THEN n[q][u] - 1 ELSE n[q][u]
BY DEF Flights, Take

\* A floor stays one when a PE at or above it works or receives: its minimum
\* and what it sends are no earlier than f.
LEMMA FloorKept ==
  ASSUME NEW lows \in [PE -> Time], NEW n \in Flights, NEW g \in Time, IsFloor(g, lows, n),
         NEW p \in PE, NEW f \in Time, g <= f,
         NEW lows2 \in [PE -> Time], lows2[p] >= f, \A q \in PE \ {p} : lows2[q] = lows[q],
         NEW n2 \in Flights,
         \A q \in PE, t \in EventTime : n2[q][t] > 0 => n[q][t] > 0 \/ t >= f
  PROVE  IsFloor(g, lows2, n2)
<1>1. ASSUME NEW q \in PE PROVE g <= lows2[q]
  BY DEF IsFloor, Time
<1>2. ASSUME NEW q \in PE, NEW t \in EventTime, n2[q][t] > 0 PROVE g <= t
  BY <1>2, EndTimeAssumption DEF IsFloor, Time, EventTime
<1>3. QED
  BY <1>1, <1>2 DEF IsFloor

\* The earliest of some times (events.min(), the minimum of the cancel queue).
LEMMA MinIsLeast ==
  ASSUME NEW S \in SUBSET Nat, S # {}
  PROVE  Min(S) \in S /\ \A x \in S : Min(S) <= x
<1> DEFINE R == OpToRel(<, Nat)
<1>1. IsWellFoundedOn(R, Nat)
  BY NatLessThanWellFounded
<1>2. \A m, n \in Nat : m < n => <<m, n>> \in R
  BY DEF OpToRel
<1> HIDE DEF R
<1>3. PICK m \in S : \A n \in S : ~ (<<n, m>> \in R)
  BY <1>1, WFMin
<1>4. \A x \in S : m <= x
  <2> TAKE x \in S
  <2>1. m \in Nat /\ x \in Nat
    OBVIOUS
  <2>2. ~ (x < m)
    BY <1>2, <1>3, <2>1, Zenon
  <2>3. QED
    BY <2>1, <2>2
<1>5. QED
  BY <1>4 DEF Min

\* What a function takes on a finite domain is finite.
LEMMA FiniteImage ==
  ASSUME NEW S, IsFiniteSet(S), NEW f, DOMAIN f = S
  PROVE  IsFiniteSet({f[x] : x \in S})
<1> DEFINE T == {f[x] : x \in S}
           g == [x \in S |-> f[x]]
<1>1. g \in Surjection(S, T)
  BY DEF Surjection
<1> HIDE DEF g, T
<1>2. IsFiniteSet(T)
  BY <1>1, FS_Surjection
<1>3. QED
  BY <1>2 DEF T

-----------------------------------------------------------------------------
\* What each method of the scheduler does to the fields the invariant speaks
\* of (scheduler.C 185-274).
LEMMA NextIteration ==
  ASSUME NEW s \in Scheduler, s.execs = IF s.running THEN 1 ELSE 0
  PROVE  LET n == next_iteration(s) IN
         /\ n \in Scheduler /\ n.running /\ n.execs = 1
         /\ n.mode = s.mode /\ n.g_last_gvt = s.g_last_gvt
<1>1. CASE s.running
  BY <1>1 DEF Scheduler, next_iteration
<1>2. CASE ~s.running
  <2>1. next_iteration(s) = [s EXCEPT !.running = TRUE, !.execs = s.execs + 1]
    BY <1>2 DEF next_iteration
  <2>2. s.execs = 0
    BY <1>2
  <2>3. next_iteration(s) \in Scheduler
    <3> DEFINE t == [s EXCEPT !.execs = s.execs + 1]
    <3>1. t \in Scheduler
      BY <2>2 DEF Scheduler
    <3>2. [t EXCEPT !.running = TRUE] \in Scheduler
      BY <3>1 DEF Scheduler
    <3>3. QED
      BY <2>1, <3>2
  <2>4. next_iteration(s).running = TRUE /\ next_iteration(s).execs = 1
    BY <2>1, <2>2 DEF Scheduler
  <2>5. next_iteration(s).mode = s.mode /\ next_iteration(s).g_last_gvt = s.g_last_gvt
    BY <2>1 DEF Scheduler
  <2>6. QED
    BY <2>3, <2>4, <2>5, Zenon
<1>3. QED
  BY <1>1, <1>2

\* The end of an execute(): the flag falls, and the PE either begins a GVT
\* with its trigger reset or goes on with the next iteration.
LEMMA IterationDone ==
  ASSUME NEW s \in Scheduler, s.running, s.execs = 1
  PROVE  LET c == iteration_counted(s) IN
         /\ ~gvt_trigger_ready(c) => c \in Scheduler
         /\ gvt_trigger_reset(c) \in Scheduler
         /\ ~c.running /\ c.execs = 0 /\ c.mode = s.mode /\ c.g_last_gvt = s.g_last_gvt
         /\ LET r == gvt_trigger_reset(c) IN
            ~r.running /\ r.execs = 0 /\ r.mode = s.mode /\ r.g_last_gvt = s.g_last_gvt
<1> DEFINE c == [s EXCEPT !.execs = s.execs - 1, !.running = FALSE, !.iter_cnt = s.iter_cnt + 1]
           r == [c EXCEPT !.iter_cnt = 0]
<1>1. iteration_counted(s) = c /\ gvt_trigger_reset(iteration_counted(s)) = r
  BY DEF iteration_counted, gvt_trigger_reset
<1>2. /\ c.running = FALSE /\ c.execs = 0 /\ c.mode = s.mode /\ c.g_last_gvt = s.g_last_gvt
      /\ r.running = FALSE /\ r.execs = 0 /\ r.mode = s.mode /\ r.g_last_gvt = s.g_last_gvt
  BY DEF Scheduler
<1> DEFINE t == [s EXCEPT !.execs = s.execs - 1]
           u == [t EXCEPT !.running = FALSE]
<1>3. t \in Scheduler /\ u \in Scheduler
  <2>1. t \in Scheduler
    BY DEF Scheduler
  <2>2. QED
    BY <2>1 DEF Scheduler
<1>4. c.iter_cnt < GvtInterval => c \in Scheduler
  <2>1. c = [u EXCEPT !.iter_cnt = s.iter_cnt + 1]
    OBVIOUS
  <2>2. s.iter_cnt \in Nat /\ c.iter_cnt = s.iter_cnt + 1
    BY GvtIntervalAssumption DEF Scheduler
  <2> HIDE DEF c, u
  <2>3. QED
    BY <1>3, <2>1, <2>2, GvtIntervalAssumption DEF Scheduler
<1>8. r \in Scheduler
  <2>1. r = [[u EXCEPT !.iter_cnt = s.iter_cnt + 1] EXCEPT !.iter_cnt = 0]
    OBVIOUS
  <2>2. [u EXCEPT !.iter_cnt = 0] \in Scheduler
    <3> HIDE DEF u
    <3>1. QED
      BY <1>3, GvtIntervalAssumption DEF Scheduler
  <2>3. [[u EXCEPT !.iter_cnt = s.iter_cnt + 1] EXCEPT !.iter_cnt = 0] = [u EXCEPT !.iter_cnt = 0]
    BY <1>3 DEF Scheduler
  <2> HIDE DEF r, u
  <2>4. QED
    BY <2>1, <2>2, <2>3
<1>5. c.iter_cnt \in Nat
  BY GvtIntervalAssumption DEF Scheduler
<1> HIDE DEF c, r, t, u
<1>6. ~gvt_trigger_ready(c) => c.iter_cnt < GvtInterval
  BY <1>5, GvtIntervalAssumption DEF gvt_trigger_ready
<1>7. QED
  BY <1>1, <1>2, <1>4, <1>6, <1>8, Zenon

\* The end of a GVT: the PE holds it, and ends, balances or goes on.
LEMMA GvtDone ==
  ASSUME NEW s \in Scheduler, s.execs = (IF s.running THEN 1 ELSE 0),
         NEW g \in Time, NEW lb \in BOOLEAN
  PROVE  LET d == gvt_done(s, g, lb) IN
         /\ d \in Scheduler
         /\ d.g_last_gvt = g
         /\ d.execs = IF d.running THEN 1 ELSE 0
         /\ d.running /\ ~s.running => d.mode = s.mode
         /\ ~s.running => d.running \/ d.mode \in {"lb", "over"}
<1> DEFINE t == [s EXCEPT !.g_last_gvt = g]
<1>1. t \in Scheduler /\ t.execs = (IF t.running THEN 1 ELSE 0)
      /\ t.mode = s.mode /\ t.g_last_gvt = g /\ t.running = s.running
  BY DEF Scheduler
<1>2. CASE g >= EndTime
  <2>1. gvt_done(s, g, lb) = [t EXCEPT !.mode = "over"]
    BY <1>2 DEF gvt_done
  <2>2. QED
    BY <1>1, <2>1 DEF Scheduler, Mode
<1>3. CASE ~(g >= EndTime) /\ lb
  <2>1. gvt_done(s, g, lb) = [t EXCEPT !.mode = "lb"]
    BY <1>3 DEF gvt_done
  <2>2. QED
    BY <1>1, <2>1 DEF Scheduler, Mode
<1>4. CASE ~(g >= EndTime) /\ ~lb
  <2>1. gvt_done(s, g, lb) = next_iteration(t)
    BY <1>4 DEF gvt_done
  <2>2. QED
    BY <1>1, <2>1, NextIteration
<1>5. QED
  BY <1>2, <1>3, <1>4

\* A PE that is to balance starts no iteration, and only such a PE balances.
LEMMA GvtDoneMode ==
  ASSUME NEW s \in Scheduler, NEW g \in Time, NEW lb
  PROVE  /\ lb => (gvt_done(s, g, lb).running <=> s.running)
         /\ ~lb => gvt_done(s, g, lb).mode \in {s.mode, "over"}
<1> DEFINE t == [s EXCEPT !.g_last_gvt = g]
<1>1. t \in Scheduler /\ t.mode = s.mode /\ t.running = s.running
  BY DEF Scheduler
<1> HIDE DEF t
<1>2. \A m \in Mode : /\ [t EXCEPT !.mode = m].running = s.running
                      /\ [t EXCEPT !.mode = m].mode = m
  BY <1>1 DEF Scheduler
<1>3. next_iteration(t).mode = s.mode
  BY <1>1 DEF Scheduler, next_iteration
<1>4. gvt_done(s, g, lb) = IF g >= EndTime THEN [t EXCEPT !.mode = "over"]
                           ELSE IF lb THEN [t EXCEPT !.mode = "lb"] ELSE next_iteration(t)
  BY DEF gvt_done, t
<1>5. CASE g >= EndTime
  BY <1>2, <1>4, <1>5 DEF Mode
<1>6. CASE ~(g >= EndTime)
  <2>1. CASE lb
    BY <1>2, <1>4, <1>6, <2>1 DEF Mode
  <2>2. CASE ~lb
    BY <1>3, <1>4, <1>6, <2>2
  <2>3. QED
    BY <2>1, <2>2
<1>7. QED
  BY <1>5, <1>6

\* balancing_complete() starts the next iteration.
LEMMA BalancingComplete ==
  ASSUME NEW s \in Scheduler, s.execs = IF s.running THEN 1 ELSE 0
  PROVE  LET b == balancing_complete(s) IN
         /\ b \in Scheduler /\ b.running /\ b.execs = 1
         /\ b.mode = "sim" /\ b.g_last_gvt = s.g_last_gvt
<1> DEFINE t == [s EXCEPT !.mode = "sim"]
<1>1. t \in Scheduler /\ t.execs = (IF t.running THEN 1 ELSE 0)
      /\ t.mode = "sim" /\ t.g_last_gvt = s.g_last_gvt
  BY DEF Scheduler, Mode
<1>2. balancing_complete(s) = next_iteration(t)
  BY DEF balancing_complete
<1>3. QED
  BY <1>1, <1>2, NextIteration

-----------------------------------------------------------------------------
\* A handler working at time f sends finitely many messages, none earlier.
LEMMA EmissionsFrom ==
  ASSUME NEW f \in Time, NEW n, NEW S \in EmissionsWithin(f, n)
  PROVE  /\ S \in SUBSET (PE \X EventTime) /\ \A s \in S : s[2] >= f
         /\ IsFiniteSet(S) /\ Cardinality(S) \in Nat
<1>1. S \in SUBSET {s \in PE \X EventTime : s[2] >= f + MinDelay /\ n[s[1]][s[2]] < MaxCopies}
  BY DEF EmissionsWithin
<1>2. ASSUME NEW s \in S PROVE s \in PE \X EventTime /\ s[2] >= f
  <2>1. s \in PE \X EventTime /\ s[2] >= f + MinDelay
    BY <1>1
  <2>2. s[2] \in Nat /\ f \in Nat /\ MinDelay \in Nat
    BY <2>1, EndTimeAssumption, BoundsAssumption DEF EventTime, Time
  <2>3. QED
    BY <2>1, <2>2
<1>3. S \in SUBSET (PE \X EventTime)
  BY <1>2
<1>4. IsFiniteSet(PE \X EventTime)
  <2>1. 0 \in Int /\ EndTime - 1 \in Int
    BY EndTimeAssumption
  <2>2. IsFiniteSet(EventTime)
    BY <2>1, FS_Interval DEF EventTime
  <2>3. QED
    BY <2>2, PEAssumption, FS_Product
<1>5. IsFiniteSet(S)
  BY <1>3, <1>4, FS_Subset
<1>6. Cardinality(S) \in Nat
  BY <1>5, FS_CardinalityType
<1>7. QED
  BY <1>2, <1>3, <1>5, <1>6

\* What a PE sends at f or later, from a minimum that was no earlier, leaves
\* every floor up to f a floor.
LEMMA WorkKeepsFloor ==
  ASSUME NEW lows \in [PE -> Time], NEW n \in Flights, NEW before \in Flights,
         \A q \in PE, t \in EventTime : before[q][t] <= n[q][t],
         NEW p \in PE, NEW f \in Time, NEW x \in f..EndTime,
         NEW S \in SUBSET (PE \X EventTime), \A s \in S : s[2] >= f,
         NEW g \in Time, g <= f, IsFloor(g, lows, n)
  PROVE  IsFloor(g, [lows EXCEPT ![p] = x], Put(before, S))
<1> DEFINE lows2 == [lows EXCEPT ![p] = x]
           n2 == Put(before, S)
<1>1. lows2 \in [PE -> Time] /\ lows2[p] >= f /\ \A q \in PE \ {p} : lows2[q] = lows[q]
  BY EndTimeAssumption DEF Time
<1>2. n2 \in Flights
  BY PutType
<1>3. ASSUME NEW q \in PE, NEW t \in EventTime, n2[q][t] > 0 PROVE n[q][t] > 0 \/ t >= f
  <2>1. CASE <<q, t>> \in S
    BY <2>1
  <2>2. CASE <<q, t>> \notin S
    <3>1. n2[q][t] = before[q][t]
      BY <2>2, PutType
    <3>2. before[q][t] \in Nat /\ n[q][t] \in Nat
      BY DEF Flights
    <3>3. QED
      BY <1>3, <3>1, <3>2
  <2>3. QED
    BY <2>1, <2>2
<1> HIDE DEF lows2, n2
<1>4. IsFloor(g, lows2, n2)
  BY <1>1, <1>2, <1>3, FloorKept
<1>5. QED
  BY <1>4 DEF lows2, n2

-----------------------------------------------------------------------------
(***************************************************************************)
(* How many units there are of f[x] for each x, as a sum reduction yields: *)
(* the sum of f without an induction, since its units are a set.           *)
(***************************************************************************)
Units(I, f) == UNION {{x} \X (1..f[x]) : x \in I}

\* The units of f: one pair <<x, i>> for each of the f[x] that x stands for.
LEMMA UnitIs ==
  ASSUME NEW I, NEW f
  PROVE  \A u : u \in Units(I, f) <=> \E x \in I, i \in Nat : i \in 1..f[x] /\ u = <<x, i>>
BY DEF Units

\* Finitely many indices with a number each have finitely many units.
LEMMA UnitsAreFinite ==
  ASSUME NEW I, IsFiniteSet(I), NEW f \in [I -> Nat]
  PROVE  IsFiniteSet(Units(I, f)) /\ Cardinality(Units(I, f)) \in Nat
<1> DEFINE g == [x \in I |-> {x} \X (1..f[x])]
<1>1. IsFiniteSet({g[x] : x \in I})
  <2>1. DOMAIN g = I
    OBVIOUS
  <2> HIDE DEF g
  <2>2. QED
    BY <2>1, FiniteImage
<1>2. ASSUME NEW x \in I PROVE IsFiniteSet(g[x])
  <2>1. 1 \in Int /\ f[x] \in Int
    OBVIOUS
  <2>2. IsFiniteSet(1..f[x]) /\ IsFiniteSet({x})
    BY <2>1, FS_Interval, FS_Singleton
  <2>3. QED
    BY <2>2, FS_Product
<1>3. \A T \in {g[x] : x \in I} : IsFiniteSet(T)
  BY <1>2
<1>4. IsFiniteSet(UNION {g[x] : x \in I})
  BY <1>1, <1>3, FS_UNION
<1>5. UNION {g[x] : x \in I} = Units(I, f)
  BY DEF Units
<1>6. QED
  BY <1>4, <1>5, FS_CardinalityType

\* The more of each, the more in all; and if no more in all, no more of any.
LEMMA UnitsMonotone ==
  ASSUME NEW I, IsFiniteSet(I), NEW f \in [I -> Nat], NEW g \in [I -> Nat],
         \A x \in I : f[x] <= g[x]
  PROVE  Cardinality(Units(I, f)) <= Cardinality(Units(I, g))
<1>1. IsFiniteSet(Units(I, g))
  BY UnitsAreFinite
<1>2. ASSUME NEW u \in Units(I, f) PROVE u \in Units(I, g)
  <2>1. PICK x \in I, i \in Nat : i \in 1..f[x] /\ u = <<x, i>>
    BY UnitIs
  <2>2. i \in 1..g[x]
    BY <2>1
  <2>3. QED
    BY <2>1, <2>2, UnitIs
<1>3. Units(I, f) \in SUBSET Units(I, g)
  BY <1>2
<1>4. QED
  BY <1>1, <1>3, FS_Subset

\* There is no unit exactly when every number is zero.
LEMMA NoUnits ==
  ASSUME NEW I, IsFiniteSet(I), NEW f \in [I -> Nat]
  PROVE  Cardinality(Units(I, f)) = 0 <=> \A x \in I : f[x] = 0
<1>1. Cardinality(Units(I, f)) = 0 <=> Units(I, f) = {}
  BY UnitsAreFinite, FS_EmptySet
<1>2. ASSUME Units(I, f) = {}, NEW x \in I PROVE f[x] = 0
  <2>1. CASE f[x] # 0
    <3>1. 1 \in 1..f[x]
      BY <2>1
    <3>2. <<x, 1>> \in Units(I, f)
      BY <3>1, UnitIs
    <3>3. QED
      BY <1>2, <3>2
  <2>2. QED
    BY <2>1
<1>3. ASSUME \A x \in I : f[x] = 0, NEW u \in Units(I, f) PROVE FALSE
  <2>1. PICK x \in I, i \in Nat : i \in 1..f[x] /\ u = <<x, i>>
    BY UnitIs
  <2>2. QED
    BY <1>3, <2>1
<1>4. QED
  BY <1>1, <1>2, <1>3

\* One more for each member of S.
LEMMA UnitsPut ==
  ASSUME NEW I, IsFiniteSet(I), NEW f \in [I -> Nat], NEW g \in [I -> Nat], NEW S \in SUBSET I,
         \A x \in I : g[x] = IF x \in S THEN f[x] + 1 ELSE f[x]
  PROVE  Cardinality(Units(I, g)) = Cardinality(Units(I, f)) + Cardinality(S)
<1> DEFINE new == {<<x, f[x] + 1>> : x \in S}
           b == [x \in S |-> <<x, f[x] + 1>>]
<1>1. Units(I, g) = Units(I, f) \union new
  <2>1. ASSUME NEW u \in Units(I, g) PROVE u \in Units(I, f) \union new
    <3>1. PICK x \in I, i \in Nat : i \in 1..g[x] /\ u = <<x, i>>
      BY UnitIs
    <3>2. f[x] \in Nat /\ g[x] \in Nat
      OBVIOUS
    <3>3. i \in 1..f[x] \/ (x \in S /\ i = f[x] + 1)
      BY <3>1, <3>2
    <3>4. QED
      BY <3>1, <3>3, UnitIs
  <2>2. ASSUME NEW u \in Units(I, f) PROVE u \in Units(I, g)
    <3>1. PICK x \in I, i \in Nat : i \in 1..f[x] /\ u = <<x, i>>
      BY UnitIs
    <3>2. f[x] \in Nat /\ g[x] \in Nat /\ f[x] <= g[x]
      OBVIOUS
    <3>3. i \in 1..g[x]
      BY <3>1, <3>2
    <3>4. QED
      BY <3>1, <3>3, UnitIs
  <2>3. ASSUME NEW u \in new PROVE u \in Units(I, g)
    <3>1. PICK x \in S : u = <<x, f[x] + 1>>
      OBVIOUS
    <3>2. x \in I /\ g[x] = f[x] + 1 /\ f[x] \in Nat
      OBVIOUS
    <3>3. f[x] + 1 \in 1..g[x]
      BY <3>2
    <3>4. QED
      BY <3>1, <3>2, <3>3, UnitIs
  <2>4. QED
    BY <2>1, <2>2, <2>3
<1>2. Units(I, f) \intersect new = {}
  <2> SUFFICES ASSUME NEW u \in Units(I, f), u \in new PROVE FALSE
    OBVIOUS
  <2>1. PICK x \in I, i \in Nat : i \in 1..f[x] /\ u = <<x, i>>
    BY UnitIs
  <2>2. PICK y \in S : u = <<y, f[y] + 1>>
    OBVIOUS
  <2>3. x = y /\ i = f[x] + 1 /\ f[x] \in Nat
    BY <2>1, <2>2
  <2>4. QED
    BY <2>1, <2>3
<1>3. IsFiniteSet(S) /\ IsFiniteSet(Units(I, f))
  BY FS_Subset, UnitsAreFinite
<1>4. b \in Bijection(S, new)
  <2>1. b \in Surjection(S, new)
    BY DEF Surjection
  <2>2. b \in Injection(S, new)
    BY DEF Injection, IsInjective
  <2>3. QED
    BY <2>1, <2>2 DEF Bijection
<1> HIDE DEF new, b
<1>5. IsFiniteSet(new) /\ Cardinality(new) = Cardinality(S)
  BY <1>3, <1>4, FS_Bijection DEF ExistsBijection
<1>6. Cardinality(Units(I, g)) = Cardinality(Units(I, f)) + Cardinality(new) - Cardinality({})
  BY <1>1, <1>2, <1>3, <1>5, FS_Union
<1>7. Cardinality({}) = 0 /\ Cardinality(Units(I, f)) \in Nat /\ Cardinality(S) \in Nat
  BY <1>3, FS_EmptySet, FS_CardinalityType
<1>8. QED
  BY <1>5, <1>6, <1>7

\* k more for one x.
LEMMA UnitsAdd ==
  ASSUME NEW I, IsFiniteSet(I), NEW f \in [I -> Nat], NEW g \in [I -> Nat], NEW x \in I,
         NEW k \in Nat, g[x] = f[x] + k, \A y \in I : y # x => g[y] = f[y]
  PROVE  Cardinality(Units(I, g)) = Cardinality(Units(I, f)) + k
<1> DEFINE new == {x} \X (f[x] + 1..g[x])
<1>1. f[x] \in Nat /\ g[x] \in Nat
  OBVIOUS
<1>2. Units(I, g) = Units(I, f) \union new
  <2>1. ASSUME NEW u \in Units(I, g) PROVE u \in Units(I, f) \union new
    <3>1. PICK y \in I, i \in Nat : i \in 1..g[y] /\ u = <<y, i>>
      BY UnitIs
    <3>2. i \in 1..f[y] \/ (y = x /\ i \in f[x] + 1..g[x])
      BY <1>1, <3>1
    <3>3. QED
      BY <3>1, <3>2, UnitIs
  <2>2. ASSUME NEW u \in Units(I, f) PROVE u \in Units(I, g)
    <3>1. PICK y \in I, i \in Nat : i \in 1..f[y] /\ u = <<y, i>>
      BY UnitIs
    <3>2. i \in 1..g[y]
      BY <1>1, <3>1
    <3>3. QED
      BY <3>1, <3>2, UnitIs
  <2>3. ASSUME NEW u \in new PROVE u \in Units(I, g)
    <3>1. PICK i \in f[x] + 1..g[x] : u = <<x, i>>
      OBVIOUS
    <3>2. i \in 1..g[x]
      BY <1>1
    <3>3. QED
      BY <3>1, <3>2, UnitIs
  <2>4. QED
    BY <2>1, <2>2, <2>3
<1>3. Units(I, f) \intersect new = {}
  <2> SUFFICES ASSUME NEW u \in Units(I, f), u \in new PROVE FALSE
    OBVIOUS
  <2>1. PICK y \in I, i \in Nat : i \in 1..f[y] /\ u = <<y, i>>
    BY UnitIs
  <2>2. PICK j \in f[x] + 1..g[x] : u = <<x, j>>
    OBVIOUS
  <2>3. x = y /\ i = j
    BY <2>1, <2>2
  <2>4. QED
    BY <1>1, <2>1, <2>2, <2>3
<1>4. IsFiniteSet(new) /\ Cardinality(new) = k
  <2>1. f[x] + 1 \in Int /\ g[x] \in Int
    BY <1>1
  <2>2. IsFiniteSet(f[x] + 1..g[x]) /\ Cardinality(f[x] + 1..g[x]) = k
    <3> DEFINE a == f[x] + 1
               z == g[x]
    <3>1. a \in Int /\ z \in Int /\ (IF a > z THEN 0 ELSE z - a + 1) = k
      BY <1>1
    <3> HIDE DEF a, z
    <3>2. IsFiniteSet(a..z) /\ Cardinality(a..z) = k
      BY <3>1, FS_Interval
    <3>3. QED
      BY <3>2 DEF a, z
  <2>3. IsFiniteSet({x}) /\ Cardinality({x}) = 1
    BY FS_Singleton
  <2> DEFINE J == f[x] + 1..g[x]
  <2> HIDE DEF J
  <2>4. IsFiniteSet({x} \X J) /\ Cardinality({x} \X J) = 1 * k
    BY <2>2, <2>3, FS_Product DEF J
  <2>5. QED
    BY <2>4 DEF J
<1> HIDE DEF new
<1>5. IsFiniteSet(Units(I, f)) /\ Cardinality(Units(I, f)) \in Nat
  BY UnitsAreFinite
<1>6. Cardinality(Units(I, g)) = Cardinality(Units(I, f)) + k - Cardinality({})
  BY <1>2, <1>3, <1>4, <1>5, FS_Union
<1>7. Cardinality({}) = 0
  BY FS_EmptySet
<1>8. QED
  BY <1>5, <1>6, <1>7

-----------------------------------------------------------------------------
\* How many messages of n are in flight in all.
Pairs(n) == [x \in PE \X EventTime |-> n[x[1]][x[2]]]
Flying(n) == Cardinality(Units(PE \X EventTime, Pairs(n)))

\* The messages of a set of flights, as numbers indexed by target and time.
LEMMA PairsAreFinite ==
  /\ IsFiniteSet(EventTime) /\ IsFiniteSet(PE \X EventTime)
  /\ \A n \in Flights : /\ Pairs(n) \in [PE \X EventTime -> Nat]
                        /\ \A p \in PE, t \in EventTime : Pairs(n)[<<p, t>>] = n[p][t]
<1>1. 0 \in Int /\ EndTime - 1 \in Int
  BY EndTimeAssumption
<1>2. IsFiniteSet(EventTime)
  BY <1>1, FS_Interval DEF EventTime
<1>3. IsFiniteSet(PE \X EventTime)
  BY <1>2, PEAssumption, FS_Product
<1>4. ASSUME NEW n \in Flights
      PROVE  /\ Pairs(n) \in [PE \X EventTime -> Nat]
             /\ \A p \in PE, t \in EventTime : Pairs(n)[<<p, t>>] = n[p][t]
  BY DEF Pairs, Flights
<1>5. QED
  BY <1>2, <1>3, <1>4

\* Flying counts messages: it is zero exactly when nothing is in flight.
LEMMA FlyingNone ==
  ASSUME NEW n \in Flights
  PROVE  Flying(n) \in Nat /\ (Flying(n) = 0 <=> NothingInFlight(n))
<1>1. Flying(n) \in Nat
  BY PairsAreFinite, UnitsAreFinite DEF Flying
<1>2. Flying(n) = 0 <=> \A x \in PE \X EventTime : Pairs(n)[x] = 0
  <2> DEFINE I == PE \X EventTime
             F == Pairs(n)
  <2>1. IsFiniteSet(I) /\ F \in [I -> Nat]
    BY PairsAreFinite
  <2> HIDE DEF I, F
  <2>2. Cardinality(Units(I, F)) = 0 <=> \A x \in I : F[x] = 0
    BY <2>1, NoUnits
  <2>3. QED
    BY <2>2 DEF I, F, Flying
<1>3. (\A x \in PE \X EventTime : Pairs(n)[x] = 0) <=> NothingInFlight(n)
  <2>1. \A p \in PE, t \in EventTime : Pairs(n)[<<p, t>>] = n[p][t]
    BY PairsAreFinite
  <2>2. (\A x \in PE \X EventTime : Pairs(n)[x] = 0)
           <=> \A p \in PE, t \in EventTime : Pairs(n)[<<p, t>>] = 0
    OBVIOUS
  <2>3. (\A p \in PE, t \in EventTime : Pairs(n)[<<p, t>>] = 0)
           <=> \A p \in PE, t \in EventTime : n[p][t] = 0
    BY <2>1, Zenon
  <2>4. QED
    BY <2>2, <2>3, Zenon DEF NothingInFlight
<1>4. QED
  BY <1>1, <1>2, <1>3

\* Sending a set of messages adds its size to what is in flight.
LEMMA FlyingPut ==
  ASSUME NEW n \in Flights, NEW S \in SUBSET (PE \X EventTime)
  PROVE  Flying(Put(n, S)) = Flying(n) + Cardinality(S)
<1>1. /\ Put(n, S) \in Flights
      /\ \A p \in PE, t \in EventTime :
           Put(n, S)[p][t] = IF <<p, t>> \in S THEN n[p][t] + 1 ELSE n[p][t]
  BY PutType
<1>2. \A x \in PE \X EventTime :
        Pairs(Put(n, S))[x] = IF x \in S THEN Pairs(n)[x] + 1 ELSE Pairs(n)[x]
  BY <1>1 DEF Pairs
<1>3. /\ IsFiniteSet(PE \X EventTime)
      /\ Pairs(n) \in [PE \X EventTime -> Nat] /\ Pairs(Put(n, S)) \in [PE \X EventTime -> Nat]
  BY <1>1, PairsAreFinite
<1>4. QED
  BY <1>2, <1>3, UnitsPut DEF Flying

\* Taking one message leaves one less in flight.
LEMMA FlyingTake ==
  ASSUME NEW n \in Flights, NEW p \in PE, NEW t \in EventTime, n[p][t] > 0
  PROVE  Flying(n) = Flying(Take(n, p, t)) + 1
<1> DEFINE m == Take(n, p, t)
<1>1. /\ m \in Flights
      /\ \A q \in PE, u \in EventTime :
           m[q][u] = IF q = p /\ u = t THEN n[q][u] - 1 ELSE n[q][u]
  BY TakeType
<1> HIDE DEF m
<1>2. \A x \in PE \X EventTime :
        IF x = <<p, t>> THEN Pairs(n)[x] = Pairs(m)[x] + 1 ELSE Pairs(n)[x] = Pairs(m)[x]
  <2> SUFFICES ASSUME NEW q \in PE, NEW u \in EventTime
               PROVE  IF <<q, u>> = <<p, t>> THEN Pairs(n)[<<q, u>>] = Pairs(m)[<<q, u>>] + 1
                                             ELSE Pairs(n)[<<q, u>>] = Pairs(m)[<<q, u>>]
    OBVIOUS
  <2>1. n[q][u] \in Nat
    BY DEF Flights
  <2>2. m[q][u] = IF q = p /\ u = t THEN n[q][u] - 1 ELSE n[q][u]
    BY <1>1
  <2>3. Pairs(n)[<<q, u>>] = n[q][u] /\ Pairs(m)[<<q, u>>] = m[q][u]
    BY <1>1, PairsAreFinite
  <2>4. QED
    BY <2>1, <2>2, <2>3
<1>3. /\ IsFiniteSet(PE \X EventTime) /\ <<p, t>> \in PE \X EventTime /\ 1 \in Nat
      /\ Pairs(n) \in [PE \X EventTime -> Nat] /\ Pairs(m) \in [PE \X EventTime -> Nat]
  BY <1>1, PairsAreFinite
<1>4. Flying(n) = Flying(m) + 1
  BY <1>2, <1>3, UnitsAdd DEF Flying
<1>5. QED
  BY <1>4 DEF m

\* Messages that follow their chares are as many as before at each timestamp.
LEMMA ForwardedMessages ==
  ASSUME NEW n \in Flights, NEW f \in Forwarded(n)
  PROVE  /\ f \in Flights
         /\ \A q \in PE, t \in EventTime : f[q][t] > 0 => \E r \in PE : n[r][t] > 0
         /\ Flying(f) = Flying(n)
<1> DEFINE At(m, t) == [p \in PE |-> m[p][t]]
           U(m, t) == Units(PE, At(m, t))
<1>1. f \in Flights
  <2>1. f \in [PE -> [EventTime -> 0..MaxCopies]]
    BY DEF Forwarded
  <2>2. \A p \in PE : f[p] \in [EventTime -> Nat]
    <3> SUFFICES ASSUME NEW p \in PE PROVE f[p] \in [EventTime -> Nat]
      OBVIOUS
    <3>1. f[p] \in [EventTime -> 0..MaxCopies] /\ 0..MaxCopies \subseteq Nat
      BY <2>1, BoundsAssumption
    <3>2. QED
      BY <3>1
  <2>3. QED
    BY <2>1, <2>2 DEF Flights
<1>2. ASSUME NEW t \in EventTime PROVE Cardinality(U(f, t)) = Cardinality(U(n, t))
  <2>1. Total([p \in PE |-> f[p][t]]) = Total([p \in PE |-> n[p][t]])
    BY DEF Forwarded
  <2>2. QED
    BY <2>1 DEF Total, Units
<1>3. ASSUME NEW m \in Flights, NEW t \in EventTime
      PROVE  At(m, t) \in [PE -> Nat] /\ \A p \in PE : At(m, t)[p] = m[p][t]
  BY DEF Flights
<1>4. ASSUME NEW q \in PE, NEW t \in EventTime, f[q][t] > 0 PROVE \E r \in PE : n[r][t] > 0
  <2>1. At(f, t) \in [PE -> Nat] /\ At(n, t) \in [PE -> Nat]
        /\ At(f, t)[q] = f[q][t] /\ \A r \in PE : At(n, t)[r] = n[r][t]
    BY <1>1, <1>3
  <2> HIDE DEF At
  <2>2. At(f, t)[q] # 0
    BY <1>4, <2>1
  <2>3. Cardinality(U(f, t)) # 0
    BY <2>1, <2>2, NoUnits, PEAssumption
  <2>4. PICK r \in PE : At(n, t)[r] # 0
    BY <1>2, <2>1, <2>3, NoUnits, PEAssumption
  <2>5. n[r][t] # 0 /\ n[r][t] \in Nat
    BY <2>1, <2>4
  <2>6. QED
    BY <2>5
<1>5. ASSUME NEW t \in EventTime PROVE \E b : b \in Bijection(U(f, t), U(n, t))
  <2>1. At(f, t) \in [PE -> Nat] /\ At(n, t) \in [PE -> Nat]
    BY <1>1, <1>3
  <2> HIDE DEF At
  <2>2. IsFiniteSet(U(f, t)) /\ IsFiniteSet(U(n, t))
    BY <2>1, UnitsAreFinite, PEAssumption
  <2> HIDE DEF U
  <2>3. QED
    BY <1>2, <2>2, FS_SameCardinalityBij DEF ExistsBijection
<1> DEFINE W(m) == Units(PE \X EventTime, Pairs(m))
           b(t) == CHOOSE g : g \in Bijection(U(f, t), U(n, t))
           c == [u \in W(f) |-> LET v == b(u[1][2])[<<u[1][1], u[2]>>] IN <<<<v[1], u[1][2]>>, v[2]>>]
<1>6. ASSUME NEW m \in Flights, NEW p \in PE, NEW t \in EventTime, NEW i
      PROVE  <<<<p, t>>, i>> \in W(m) <=> <<p, i>> \in U(m, t)
  <2>1. Pairs(m)[<<p, t>>] = m[p][t] /\ At(m, t)[p] = m[p][t] /\ <<p, t>> \in PE \X EventTime
    BY <1>3, PairsAreFinite
  <2> HIDE DEF At
  <2>2. <<<<p, t>>, i>> \in W(m) <=> i \in 1..Pairs(m)[<<p, t>>] /\ i \in Nat
    BY <2>1, UnitIs
  <2>3. <<p, i>> \in U(m, t) <=> i \in 1..At(m, t)[p] /\ i \in Nat
    BY <2>1, UnitIs
  <2>4. QED
    BY <2>1, <2>2, <2>3
<1>7. ASSUME NEW m \in Flights, NEW u \in W(m)
      PROVE  \E p \in PE, t \in EventTime, i \in Nat : u = <<<<p, t>>, i>>
  BY UnitIs
<1>8. ASSUME NEW m \in Flights, NEW t \in EventTime, NEW v \in U(m, t)
      PROVE  \E p \in PE, i \in Nat : v = <<p, i>>
  BY UnitIs
<1>9. ASSUME NEW t \in EventTime PROVE b(t) \in Bijection(U(f, t), U(n, t))
  BY <1>5
<1> HIDE DEF At, U, W, b, c
<1> DEFINE v(p, t, i) == b(t)[<<p, i>>]
<1>10. ASSUME NEW p \in PE, NEW t \in EventTime, NEW i \in Nat, <<<<p, t>>, i>> \in W(f)
       PROVE  /\ v(p, t, i) \in PE \X Nat
              /\ <<p, i>> \in U(f, t)
              /\ c[<<<<p, t>>, i>>] = <<<<v(p, t, i)[1], t>>, v(p, t, i)[2]>>
              /\ c[<<<<p, t>>, i>>] \in W(n)
  <2>1. <<p, i>> \in U(f, t)
    BY <1>1, <1>6, <1>10
  <2>2. b(t)[<<p, i>>] \in U(n, t)
    BY <1>9, <2>1 DEF Bijection, Injection
  <2>3. PICK q \in PE, j \in Nat : b(t)[<<p, i>>] = <<q, j>>
    BY <1>8, <2>2
  <2>4. <<<<q, t>>, j>> \in W(n)
    BY <1>6, <2>2, <2>3
  <2>5. QED
    BY <1>10, <2>1, <2>3, <2>4 DEF c
<1> HIDE DEF v
<1>11. c \in Injection(W(f), W(n))
  <2>1. c \in [W(f) -> W(n)]
    <3> SUFFICES ASSUME NEW u \in W(f) PROVE c[u] \in W(n)
      BY DEF c
    <3>1. PICK p \in PE, t \in EventTime, i \in Nat : u = <<<<p, t>>, i>>
      BY <1>1, <1>7
    <3>2. <<<<p, t>>, i>> \in W(f)
      BY <3>1
    <3>3. QED
      BY <1>10, <3>1, <3>2
  <2>2. ASSUME NEW u \in W(f), NEW w \in W(f), c[u] = c[w] PROVE u = w
    <3>1. PICK p \in PE, t \in EventTime, i \in Nat : u = <<<<p, t>>, i>>
      BY <1>1, <1>7
    <3>2. PICK p2 \in PE, t2 \in EventTime, i2 \in Nat : w = <<<<p2, t2>>, i2>>
      BY <1>1, <1>7
    <3>3. <<<<p, t>>, i>> \in W(f) /\ <<<<p2, t2>>, i2>> \in W(f)
      BY <3>1, <3>2
    <3>4. /\ v(p, t, i) \in PE \X Nat /\ <<p, i>> \in U(f, t)
          /\ c[u] = <<<<v(p, t, i)[1], t>>, v(p, t, i)[2]>>
      BY <1>10, <3>1, <3>3
    <3>5. /\ v(p2, t2, i2) \in PE \X Nat /\ <<p2, i2>> \in U(f, t2)
          /\ c[w] = <<<<v(p2, t2, i2)[1], t2>>, v(p2, t2, i2)[2]>>
      BY <1>10, <3>2, <3>3
    <3>6. t = t2 /\ v(p, t, i)[1] = v(p2, t2, i2)[1] /\ v(p, t, i)[2] = v(p2, t2, i2)[2]
      <4> DEFINE a == v(p, t, i)[1]
                 k == v(p, t, i)[2]
                 a2 == v(p2, t2, i2)[1]
                 k2 == v(p2, t2, i2)[2]
      <4>1. <<<<a, t>>, k>> = <<<<a2, t2>>, k2>>
        BY <2>2, <3>4, <3>5
      <4> HIDE DEF a, k, a2, k2
      <4>2. t = t2 /\ a = a2 /\ k = k2
        BY <4>1
      <4>3. QED
        BY <4>2 DEF a, k, a2, k2
    <3>7. v(p, t, i) = v(p2, t2, i2)
      BY <3>4, <3>5, <3>6
    <3>8. <<p, i>> = <<p2, i2>>
      BY <1>9, <3>4, <3>5, <3>6, <3>7 DEF v, Bijection, Injection, IsInjective
    <3>9. QED
      BY <3>1, <3>2, <3>6, <3>8
  <2>3. QED
    BY <2>1, <2>2 DEF Injection, IsInjective
<1>12. c \in Surjection(W(f), W(n))
  <2>1. ASSUME NEW w \in W(n) PROVE \E u \in W(f) : c[u] = w
    <3>1. PICK q \in PE, t \in EventTime, j \in Nat : w = <<<<q, t>>, j>>
      BY <1>7
    <3>2. <<q, j>> \in U(n, t)
      BY <1>6, <3>1
    <3>3. PICK x \in U(f, t) : b(t)[x] = <<q, j>>
      BY <1>9, <3>2 DEF Bijection, Surjection
    <3>4. PICK p \in PE, i \in Nat : x = <<p, i>>
      BY <1>1, <1>8
    <3>5. <<<<p, t>>, i>> \in W(f)
      BY <1>1, <1>6, <3>4
    <3>6. c[<<<<p, t>>, i>>] = <<<<v(p, t, i)[1], t>>, v(p, t, i)[2]>>
      BY <1>10, <3>5
    <3>7. c[<<<<p, t>>, i>>] = w
      BY <3>1, <3>3, <3>4, <3>6 DEF v
    <3>8. QED
      BY <3>5, <3>7
  <2>2. QED
    BY <1>11, <2>1 DEF Surjection, Injection
<1>13. IsFiniteSet(W(f))
  BY <1>1, PairsAreFinite, UnitsAreFinite DEF W
<1>14. Cardinality(W(n)) = Cardinality(W(f))
  BY <1>11, <1>12, <1>13, FS_Bijection DEF ExistsBijection, Bijection
<1>15. QED
  BY <1>1, <1>4, <1>14 DEF W, Flying

\* The same of the totals that PEs reduce.
LEMMA TotalIs ==
  ASSUME NEW f \in [PE -> Nat]
  PROVE  Total(f) \in Nat /\ (Total(f) = 0 <=> \A p \in PE : f[p] = 0)
<1>1. Total(f) = Cardinality(Units(PE, f))
  BY DEF Total, Units
<1>2. QED
  BY <1>1, PEAssumption, UnitsAreFinite, NoUnits

\* A sum over the PEs does not fall when no term does.
LEMMA TotalMonotone ==
  ASSUME NEW f \in [PE -> Nat], NEW g \in [PE -> Nat], \A p \in PE : f[p] <= g[p]
  PROVE  Total(f) <= Total(g)
<1>1. Total(f) = Cardinality(Units(PE, f)) /\ Total(g) = Cardinality(Units(PE, g))
  BY DEF Total, Units
<1>2. QED
  BY <1>1, PEAssumption, UnitsMonotone

\* A sum over the PEs grows by as much as the only term that grows.
LEMMA TotalAdd ==
  ASSUME NEW f \in [PE -> Nat], NEW g \in [PE -> Nat], NEW p \in PE, NEW k \in Nat,
         g[p] = f[p] + k, \A q \in PE : q # p => g[q] = f[q]
  PROVE  Total(g) = Total(f) + k
<1>1. Total(f) = Cardinality(Units(PE, f)) /\ Total(g) = Cardinality(Units(PE, g))
  BY DEF Total, Units
<1>2. QED
  BY <1>1, PEAssumption, UnitsAdd
=============================================================================

----------------------------- MODULE BucketGVT -----------------------------
(***************************************************************************)
(* The bucketed GVT manager (gvt/bucketed.C) on every PE, with optimistic  *)
(* schedulers that never stop for it.                                      *)
(*                                                                         *)
(* Virtual time is cut into buckets.  Sends and receives are counted per   *)
(* bucket of the event.  A PE whose minimum has passed the current bucket  *)
(* contributes how many buckets it has passed; once all have, every PE     *)
(* contributes its counts of that many buckets, again and again while the  *)
(* sums of a bucket disagree, and the GVT moves past the buckets whose     *)
(* sums agree.                                                             *)
(*                                                                         *)
(* Left out: buckets that adapt (g_tw_adaptive_buckets), and load          *)
(* balancing, which this manager only starts with g_tw_ldb_continuous and  *)
(* then while its scheduler is running, where start_balancing() asserts.   *)
(* What a scheduler does to events is abstract, as in SyncGVT.             *)
(***************************************************************************)
EXTENDS GVTManager, FiniteSetsExt

CONSTANTS
  BucketSize,   \* g_tw_gvt_bucket_size
  PhaseValues,  \* how many values RemoteEvent::phase, a uint8_t, has
  MaxCount      \* bound: what a PE has sent beyond what it has received, or the reverse

\* ceil(g_tw_ts_end / bucket_size) divides integers: only such a size makes sense.
ASSUME BucketsFillTime == BucketSize \in Nat \ {0} /\ EndTime % BucketSize = 0
ASSUME PhaseAssumption == PhaseValues \in Nat \ {0}
ASSUME CountBound == MaxCount \in Nat

total_buckets == EndTime \div BucketSize

Bucket == 0..(total_buckets - 1)

VARIABLES
  sched,    \* sched[p]: p's scheduler
  manager,  \* manager[p]: p's BucketGVT, a record
  low,      \* low[p]: what get_min_time() returns on p between two handlers
  net,      \* events and anti-events in flight
  results   \* results[p]: results of reductions on their way to p

vars == <<sched, manager, low, net, results>>

\* Ready(n), to all_ready(): n buckets passed.  Counts(d, n), to check_counts():
\* of each of Len(d) buckets the messages sent less those received (the sums of
\* the two are only compared), and n buckets passed, or below zero when the PE is
\* before its current bucket.
Ready(n) == [of |-> "ready", d |-> << >>, passed |-> n]
Counts(d, n) == [of |-> "counts", d |-> d, passed |-> n]
Reduced == [of : {"ready", "counts"}, d : Seq(Int), passed : -total_buckets..total_buckets]

\* counts[b] is what p has sent less what it has received under phase b;
\* contributed is what p has contributed to reductions not complete yet.
Manager ==
  [active : BOOLEAN, curr_bucket : 0..total_buckets, counts : [Bucket -> Int], contributed : Seq(Reduced)]

TypeOK ==
  /\ sched \in [PE -> Scheduler]
  /\ manager \in [PE -> Manager]
  /\ low \in [PE -> Time]
  /\ net \in Flights
  /\ results \in [PE -> Seq(Reduced)]

Init ==
  /\ sched = [p \in PE |-> start_simulation]
  /\ manager = [p \in PE |-> [active |-> FALSE, curr_bucket |-> 0,
                              counts |-> [b \in Bucket |-> 0], contributed |-> << >>]]
  /\ low \in [PE -> Time]
  /\ net = [p \in PE |-> [t \in EventTime |-> 0]]
  /\ results = [p \in PE |-> << >>]

-----------------------------------------------------------------------------
BucketOf(t) == t \div BucketSize

\* RemoteEvent::phase of an event of time t: under it the event is counted, when
\* it is sent and when it is received.
phase(t) == BucketOf(t) % PhaseValues

PowerOfTwo == \E k \in 0..30 : BucketSize = 2^k

\* The int a uint64_t is converted to.
as_int(n) == LET low_bits == n % 2^32
             IN  IF low_bits < 2^31 THEN low_bits ELSE low_bits - 2^32

\* The whole buckets from the GVT to lo.  Before the GVT the difference, a
\* uint64_t, wraps around: the quotient is then the number of buckets, below
\* zero, only if their size is a power of two.
buckets_passed(m, lo) ==
  LET ahead == lo - m.curr_bucket * BucketSize
  IN  IF ahead >= 0 \/ PowerOfTwo THEN ahead \div BucketSize
                                 ELSE as_int((ahead + 2^64) \div BucketSize)

contribute(m, c) == [m EXCEPT !.contributed = Append(m.contributed, c)]

attempt_gvtAlways(m, lo) ==
  IF buckets_passed(m, lo) > 0
  THEN contribute([m EXCEPT !.active = TRUE], Ready(buckets_passed(m, lo)))
  ELSE m

\* attempt_gvt() when get_min_time() returns lo.
attempt_gvt(m, lo) ==
  IF ~m.active /\ buckets_passed(m, lo) > 0
  THEN contribute([m EXCEPT !.active = TRUE], Ready(buckets_passed(m, lo)))
  ELSE m

send_counts(m, lo, n) ==
  contribute(m, Counts([i \in 1..n |-> m.counts[m.curr_bucket + i - 1]], buckets_passed(m, lo)))

SentIn(S, b) == Cardinality({s \in S : phase(s[2]) = b})

counted(m, S) == [m EXCEPT !.counts = [b \in Bucket |-> m.counts[b] + SentIn(S, b)]]

\* What produce() of each message of S may leave.  By then get_min_time() is
\* anything from f to the end: while the cancel queue is processed, what waits
\* in it is not counted in.
produced(m, S, f) ==
  IF S = {} THEN {m} ELSE {attempt_gvt(counted(m, S), lo) : lo \in f..EndTime}

consumeInCurrentBucket(m, t, lo) ==
  attempt_gvt([m EXCEPT !.counts[m.curr_bucket] = m.counts[m.curr_bucket] - 1], lo)

\* consume() of a message of time t, before the event is looked at.
consume(m, t, lo) ==
  attempt_gvt([m EXCEPT !.counts[phase(t)] = m.counts[phase(t)] - 1], lo)

Emissions(m, f) ==
  {S \in EmissionsWithin(f, net) :
     \A b \in Bucket : m.counts[b] + SentIn(S, b) <= MaxCount}

\* iteration_done() on p, whose manager is m and whose minimum is lo after the
\* events executed: gvt_begin() attempts a GVT and goes on.
iteration_done(p, m, lo) ==
  LET s == iteration_counted(sched[p])
  IN  \/ /\ gvt_trigger_ready(s)
         /\ manager' = [manager EXCEPT ![p] = attempt_gvt(m, lo)]
         /\ sched' = [sched EXCEPT ![p] = gvt_resume(gvt_trigger_reset(s))]
      \/ /\ ~gvt_trigger_ready(s)
         /\ manager' = [manager EXCEPT ![p] = m]
         /\ sched' = [sched EXCEPT ![p] = next_iteration(s)]

\* An execute() message: a batch of events, and the end of the iteration.
execute(p) ==
  /\ sched[p].execs > 0
  /\ \E S \in Emissions(manager[p], low[p]) :
       /\ net' = Put(net, S)
       /\ \E x \in low[p]..EndTime, m \in produced(manager[p], S, low[p]) :
            /\ low' = [low EXCEPT ![p] = x]
            /\ iteration_done(p, m, x)
  /\ UNCHANGED results

\* recv_remote_event or recv_anti_event: the message is consumed first; then a
\* rollback may send anti-events.
receive(p, t) ==
  LET m == consume(manager[p], t, low[p])
      f == Earlier(low[p], t)
  IN  /\ net[p][t] > 0
      /\ m.counts[phase(t)] >= -MaxCount
      /\ \E S \in Emissions(m, t) :
           /\ net' = Put(Take(net, p, t), S)
           /\ \E s \in produced(m, S, f) : manager' = [manager EXCEPT ![p] = s]
      /\ \E x \in f..EndTime : low' = [low EXCEPT ![p] = x]
      /\ UNCHANGED <<sched, results>>

\* What a sum reduction of integers f[p] yields: as Total, with those below
\* zero taken off.
Balance(f) ==
  Total([p \in PE |-> IF f[p] > 0 THEN f[p] ELSE 0])
  - Total([p \in PE |-> IF f[p] < 0 THEN -f[p] ELSE 0])

\* A reduction completes once every PE has contributed to it: the minimum of
\* the buckets passed, and of counts the sum for each bucket.
reduce ==
  /\ \A p \in PE : manager[p].contributed # << >>
  /\ LET first == [p \in PE |-> Head(manager[p].contributed)]
         result == [of |-> first[Root].of,
                    d |-> [i \in DOMAIN first[Root].d |-> Balance([p \in PE |-> first[p].d[i]])],
                    passed |-> Min({first[p].passed : p \in PE})]
     IN  results' = [p \in PE |-> Append(results[p], result)]
  /\ manager' = [p \in PE |-> [manager[p] EXCEPT !.contributed = Tail(manager[p].contributed)]]
  /\ UNCHANGED <<sched, low, net>>

Arrives(p, kind) == results[p] # << >> /\ Head(results[p]).of = kind

all_ready(p) ==
  /\ Arrives(p, "ready")
  /\ results' = [results EXCEPT ![p] = Tail(results[p])]
  /\ manager' = [manager EXCEPT ![p] = send_counts(manager[p], low[p], Head(results[p]).passed)]
  /\ UNCHANGED <<sched, low, net>>

CompletedWhateverIsPassed(c) ==
  CHOOSE n \in 0..Len(c.d) :
    /\ \A i \in 1..n : c.d[i] = 0
    /\ n < Len(c.d) => c.d[n + 1] # 0

\* How many of the buckets reduced, from the first, all PEs have passed and
\* have sums that agree.
Completed(c) ==
  LET complete(i) == i <= c.passed /\ c.d[i] = 0
  IN  CHOOSE n \in 0..Len(c.d) :
        /\ \A i \in 1..n : complete(i)
        /\ n < Len(c.d) => ~complete(n + 1)

\* advance_gvt() in the manager; gvt_done() is its last call.
advance_gvt(m, n) == [m EXCEPT !.curr_bucket = m.curr_bucket + n]

\* Valid buckets that are not completed are counted again.  When some PE is
\* before its current bucket there are less than none, and the program ends in
\* send_counts(), which copies that many counts.
check_counts(p) ==
  LET c == Head(results[p])
      n == Completed(c)
      m == advance_gvt(manager[p], n)
  IN  /\ Arrives(p, "counts")
      /\ c.passed >= 0
      /\ results' = [results EXCEPT ![p] = Tail(results[p])]
      /\ sched' = [sched EXCEPT ![p] =
           IF n > 0 THEN gvt_done(sched[p], m.curr_bucket * BucketSize, FALSE) ELSE sched[p]]
      /\ manager' = [manager EXCEPT ![p] =
           IF c.passed > n THEN send_counts(m, low[p], c.passed - n)
                           ELSE attempt_gvt([m EXCEPT !.active = FALSE], low[p])]
      /\ UNCHANGED <<low, net>>

\* end_simulation() has run everywhere: the program exits.
over ==
  /\ \A p \in PE : sched[p].mode = "over"
  /\ UNCHANGED vars

Next ==
  \/ \E p \in PE : execute(p) \/ all_ready(p) \/ check_counts(p)
  \/ \E p \in PE, t \in EventTime : receive(p, t)
  \/ reduce \/ over

Spec == Init /\ [][Next]_vars

\* Charm++ delivers every message and completes every reduction it can, and a
\* PE with events to execute gets on with them.
Fairness ==
  /\ \A p \in PE : /\ WF_vars(execute(p))
                   /\ WF_vars(execute(p) /\ low'[p] > low[p])
                   /\ WF_vars(all_ready(p))
                   /\ WF_vars(check_counts(p))
  /\ \A p \in PE, t \in EventTime : WF_vars(receive(p, t))
  /\ WF_vars(reduce)

\* What the counts need, and nothing in the code ensures (tw_event_send() asserts
\* the lookahead for the conservative protocol only): what is sent on behalf of
\* time f lies past the bucket of f, in a bucket that is its own phase.
SentPast(f, before) ==
  \A q \in PE, t \in EventTime :
    net'[q][t] > before[q][t] => BucketOf(f) < BucketOf(t) /\ BucketOf(t) < PhaseValues

executeAhead(p) == execute(p) /\ SentPast(low[p], net)

receiveAhead(p, t) == receive(p, t) /\ SentPast(t, Take(net, p, t))

\* The runs in which that is so of all that is sent.  In all others it is so up to
\* some step.
NextAhead ==
  \/ \E p \in PE : executeAhead(p) \/ all_ready(p) \/ check_counts(p)
  \/ \E p \in PE, t \in EventTime : receiveAhead(p, t)
  \/ reduce \/ over

SpecAhead == Init /\ [][NextAhead]_vars

\* Sending nothing is always allowed, so NextAhead takes nothing away from what
\* is fair.
FairSpecAhead == SpecAhead /\ Fairness
-----------------------------------------------------------------------------
(***************************************************************************)
(* Properties.                                                             *)
(***************************************************************************)

VT == INSTANCE VirtualTime WITH gvt <- [p \in PE |-> sched[p].g_last_gvt]

\* "Advance the GVT past the completed buckets" (check_counts): no PE holds a
\* GVT later than an event still to be executed or cancelled.
GVTIsFloor == VT!GVTIsFloor

\* As long as no event is sent into the bucket that its sender works in, counts
\* that PEs read at moments of their own, while events move, yield GVTs that
\* keep the contract of VirtualTime.
ImplementsVirtualTime == VT!Spec

\* What is reduced together is of one kind, and counts are of the same buckets
\* on every PE, though PEs start and continue at moments of their own.
ReductionsMatch ==
  TypeOK /\ \A p, q \in PE :
    /\ Len(manager[p].contributed) + Len(results[p]) <= 1
    /\ manager[p].contributed # << >> /\ manager[q].contributed # << >> =>
         LET c == manager[p].contributed[1]
             k == manager[q].contributed[1]
         IN  /\ c.of = k.of /\ Len(c.d) = Len(k.d)
             /\ c.of = "counts" => manager[p].curr_bucket = manager[q].curr_bucket

\* A GVT computation is attempted by whoever happens to send, receive or
\* iterate: each bucket finds somebody on every PE and the end is reached.
Terminates == <>(\A p \in PE : sched[p].mode = "over")
=============================================================================

--------------------------- MODULE PhaseGVT_proof ---------------------------
(***************************************************************************)
(* The multi-phase GVT is sound, as long as PEs stop for load balancing    *)
(* (~g_tw_ldb_continuous): for any number of PEs, any end time, trigger    *)
(* and balancing interval, whatever is sent and in whatever order messages *)
(* and reductions arrive, it keeps the contract of VirtualTime.            *)
(*                                                                         *)
(* Why the invariant is what it is.  A PE that has begun a round sends no  *)
(* more in the phase it left, so what it has contributed as sent is final, *)
(* while what it has contributed as received can only be too low: equal    *)
(* sums therefore mean that nothing of that phase is in flight (Accounted, *)
(* Delivered), provided that the counts of the last round of the phase,    *)
(* which PEs clear at moments of their own, are left out (Stale).  What is *)
(* in flight in the other phase was sent after its sender's gvt_begin(),   *)
(* so the minimum that PE contributes bounds it; and what a PE that has    *)
(* contributed still receives is bounded by the sender's minimum, or that  *)
(* of whoever sent what the sender received (Tracked).  All of it needs    *)
(* the PEs never to be more than one reduction apart (Together).  A GVT    *)
(* that has been announced must stay below what is still contributed to    *)
(* the next one (Bounded), or the next one could be earlier.               *)
(***************************************************************************)
EXTENDS PhaseGVT, GVTManager_proof, SequenceTheorems

\* Where a PE is in a round, by what it last contributed or was sent.
Agree(c) == c.s = c.r

Counting(p) == contributions[p] # << >> /\ contributions[p][1].of = "counts"
Settled(p)  == contributions[p] # << >> /\ contributions[p][1].of = "min"
Checking(p) == results[p] # << >> /\ results[p][1].of = "counts"
Ending(p)   == results[p] # << >> /\ results[p][1].of = "min"

\* A PE in a round has one contribution or one result, of the phase it left.
Staged(p) ==
  /\ Len(contributions[p]) + Len(results[p]) = IF manager[p].active THEN 1 ELSE 0
  /\ manager[p].active => /\ manager[p].active_phase \in Phase
                          /\ manager[p].producing_phase = NextPhase(manager[p].active_phase)

\* The phase that is being counted, or will be once p has begun the next round.
InRound(p) == manager[p].active /\ ~Ending(p)
Detected(p) == IF InRound(p) THEN manager[p].active_phase ELSE manager[p].producing_phase

Together(p, q) ==
  /\ Detected(p) = Detected(q)
  /\ Settled(p) => Settled(q) \/ (Checking(q) /\ Agree(results[q][1]))
  /\ Checking(p) => \/ results[q] = results[p]
                    \/ IF Agree(results[p][1]) THEN Settled(q) ELSE Counting(q)
  /\ Ending(p) => results[q] = results[p] \/ Counting(q) \/ ~manager[q].active

\* Once p has been told equal sums, what was sent in the phase it has left has
\* been received.
Known(p) == Settled(p) \/ (Checking(p) /\ Agree(results[p][1]))

Delivered == \A p \in PE : Known(p) => NothingInFlight(net[manager[p].active_phase])

\* What p has contributed is what it has sent for good, and received at least.
Contributed(p) ==
  Counting(p) => /\ contributions[p][1].s = manager[p].sent[manager[p].active_phase]
                 /\ contributions[p][1].r <= manager[p].received[manager[p].active_phase]

\* Counts of h of a round that has ended stand for nothing any more.
Stale(p, h) == Ending(p) /\ manager[p].active_phase = h
SentLive(h) == [p \in PE |-> IF Stale(p, h) THEN 0 ELSE manager[p].sent[h]]
ReceivedLive(h) == [p \in PE |-> IF Stale(p, h) THEN 0 ELSE manager[p].received[h]]

Accounted ==
  \A h \in Phase : Total(SentLive(h)) >= Total(ReceivedLive(h)) + Flying(net[h])

\* The bound p puts on all it has sent since it began the round.
Cover(p) == IF Settled(p) THEN contributions[p][1].t ELSE manager[p].min_sent
Covered(t) == \E p \in PE : InRound(p) /\ Cover(p) <= t

Tracked ==
  /\ \A h \in Phase, q \in PE, t \in EventTime :
       net[h][q][t] > 0 => h = Detected(Root) \/ Covered(t)
  /\ \A q \in PE : Settled(q) => Covered(low[q])

\* Whether g bounds all that is unprocessed, in whatever phase it was sent.
Floor(g, lows, n) == \A h \in Phase : IsFloor(g, lows, n[h])

\* A GVT: one that p has been told, or that is on its way to p.
Given(p, g) == sched[p].g_last_gvt = g \/ (Ending(p) /\ results[p][1].t = g)

\* What every PE in a round is yet to contribute, or has, is no earlier than g.
Bounded(g) ==
  /\ Floor(g, low, net)
  /\ \A p \in PE : InRound(p) => g <= manager[p].min_sent
  /\ \A p \in PE : Settled(p) => g <= contributions[p][1].t

Floors ==
  /\ \A p \in PE, g \in Time : Given(p, g) => Bounded(g)
  /\ \A p \in PE : Ending(p) => sched[p].g_last_gvt <= results[p][1].t

\* A PE that is to balance in this round has stopped, and balances after it.
Stopped(p) ==
  /\ sched[p].execs = IF sched[p].running THEN 1 ELSE 0
  /\ manager[p].active /\ lb_trigger_ready(manager[p].lb_cnt) => ~sched[p].running
  /\ sched[p].mode \in {"lb", "lbdone"} => ~sched[p].running /\ ~manager[p].active

IInv ==
  /\ TypeOK
  /\ \A p \in PE : Staged(p) /\ Contributed(p) /\ Stopped(p)
  /\ \A p, q \in PE : Together(p, q)
  /\ Delivered
  /\ Accounted
  /\ Tracked
  /\ Floors

-----------------------------------------------------------------------------
\* What a sequence of one element is.
LEMMA OneElement ==
  ASSUME NEW E, NEW s \in Seq(E), Len(s) = 1
  PROVE  s = <<s[1]>> /\ s[1] \in E /\ Head(s) = s[1] /\ Tail(s) = << >>
<1>1. 1 \in 1..Len(s)
  OBVIOUS
<1>2. s[1] \in E
  BY <1>1, ElementOfSeq
<1>3. <<s[1]>> \in Seq(E) /\ Len(<<s[1]>>) = 1 /\ <<s[1]>>[1] = s[1]
  BY <1>2
<1>4. \A i \in 1..Len(s) : i = 1
  OBVIOUS
<1>5. s = <<s[1]>>
  BY <1>3, <1>4, SeqEqual
<1>6. s # << >>
  BY EmptySeq
<1>7. Tail(s) \in Seq(E) /\ Len(Tail(s)) = 0
  BY <1>6, HeadTailProperties
<1>8. Tail(s) = << >>
  BY <1>7, EmptySeq
<1>9. Head(s) = s[1]
  BY DEF Head
<1>10. QED
  BY <1>2, <1>5, <1>8, <1>9

\* The stages exclude one another.
LEMMA Stages ==
  ASSUME TypeOK, NEW p \in PE, Staged(p)
  PROVE  /\ contributions[p] # << >> =>
              /\ contributions[p] = <<contributions[p][1]>> /\ contributions[p][1] \in Reduced
              /\ Head(contributions[p]) = contributions[p][1]
              /\ Tail(contributions[p]) = << >> /\ results[p] = << >>
         /\ results[p] # << >> =>
              /\ results[p] = <<results[p][1]>> /\ results[p][1] \in Reduced
              /\ Head(results[p]) = results[p][1]
              /\ Tail(results[p]) = << >> /\ contributions[p] = << >>
         /\ manager[p].active <=> contributions[p] # << >> \/ results[p] # << >>
         /\ contributions[p] # << >> <=> Counting(p) \/ Settled(p)
         /\ results[p] # << >> <=> Checking(p) \/ Ending(p)
         /\ ~(Counting(p) /\ Settled(p)) /\ ~(Checking(p) /\ Ending(p))
         /\ Counting(p) => contributions[p][1].s \in Nat /\ contributions[p][1].r \in Nat
         /\ Settled(p) => contributions[p][1].t \in Time
         /\ Checking(p) => results[p][1].s \in Nat /\ results[p][1].r \in Nat
         /\ Ending(p) => results[p][1].t \in Time
<1> DEFINE c == contributions[p]
           r == results[p]
<1>1. c \in Seq(Reduced) /\ r \in Seq(Reduced) /\ Len(c) \in Nat /\ Len(r) \in Nat
  BY DEF TypeOK
<1>2. Len(c) + Len(r) = IF manager[p].active THEN 1 ELSE 0
  BY DEF Staged
<1>3. \A s \in Seq(Reduced) : s # << >> <=> Len(s) # 0
  BY EmptySeq
<1>4. \A s \in Seq(Reduced) : Len(s) = 1 =>
        s = <<s[1]>> /\ s[1] \in Reduced /\ Head(s) = s[1] /\ Tail(s) = << >>
  BY OneElement
<1>5. \A x \in Reduced : /\ x.of \in {"counts", "min"}
                         /\ x.of = "counts" => x.s \in Nat /\ x.r \in Nat
                         /\ x.of = "min" => x.t \in Time
  BY DEF Reduced
<1> HIDE DEF c, r
<1>6. /\ c # << >> => Len(c) = 1 /\ r = << >> /\ manager[p].active
      /\ r # << >> => Len(r) = 1 /\ c = << >> /\ manager[p].active
      /\ manager[p].active => c # << >> \/ r # << >>
  <2> DEFINE i == Len(c)
             j == Len(r)
  <2>1. (c # << >> <=> i # 0) /\ (r # << >> <=> j # 0)
    BY <1>1, <1>3
  <2>2. i \in Nat /\ j \in Nat /\ i + j = IF manager[p].active THEN 1 ELSE 0
    BY <1>1, <1>2
  <2> HIDE DEF i, j
  <2>3. CASE manager[p].active
    <3>1. i + j = 1
      BY <2>2, <2>3
    <3>2. (i = 1 /\ j = 0) \/ (i = 0 /\ j = 1)
      BY <2>2, <3>1
    <3>3. QED
      BY <2>1, <2>3, <3>2 DEF i, j
  <2>4. CASE ~manager[p].active
    <3>1. i + j = 0
      BY <2>2, <2>4
    <3>2. i = 0 /\ j = 0
      BY <2>2, <3>1
    <3>3. QED
      BY <2>1, <2>4, <3>2
  <2>5. QED
    BY <2>3, <2>4
<1>7. /\ c # << >> => /\ c = <<c[1]>> /\ c[1] \in Reduced /\ Head(c) = c[1] /\ Tail(c) = << >>
                      /\ r = << >> /\ manager[p].active
      /\ r # << >> => /\ r = <<r[1]>> /\ r[1] \in Reduced /\ Head(r) = r[1] /\ Tail(r) = << >>
                      /\ c = << >> /\ manager[p].active
  BY <1>1, <1>4, <1>6
<1>8. QED
  BY <1>5, <1>6, <1>7 DEF c, r, Counting, Settled, Checking, Ending

\* The two phases alternate.
LEMMA Alternate ==
  ASSUME NEW h \in Phase
  PROVE  /\ NextPhase(h) \in Phase /\ NextPhase(h) # h
         /\ \A k \in Phase : k = h \/ k = NextPhase(h)
<1>1. h = 0 \/ h = 1
  BY DEF Phase
<1>2. NextPhase(0) = 1 /\ NextPhase(1) = 0
  BY DEF NextPhase
<1>3. QED
  BY <1>1, <1>2 DEF Phase

-----------------------------------------------------------------------------
(***************************************************************************)
(* A PE that works: it may consume a message, sends messages, and may      *)
(* begin a round.                                                          *)
(***************************************************************************)

\* m and n are p's manager and what is in flight once p has consumed what it
\* receives, if it receives anything; f is the earliest time it goes on from.
Consumed(p, f, m, n) ==
  /\ f \in Time /\ f <= low[p]
  /\ n \in [Phase -> Flights]
  /\ \A h \in Phase, q \in PE, t \in EventTime : n[h][q][t] <= net[h][q][t]
  /\ m \in Manager
  /\ m.active = manager[p].active /\ m.active_phase = manager[p].active_phase
  /\ m.producing_phase = manager[p].producing_phase /\ m.min_sent = manager[p].min_sent
  /\ m.sent = manager[p].sent /\ m.lb_cnt = manager[p].lb_cnt
  /\ \A h \in Phase : /\ m.received[h] >= manager[p].received[h]
                      /\ m.received[h] + Flying(n[h]) = manager[p].received[h] + Flying(net[h])
  /\ \A g \in Time : Floor(g, low, net) => g <= f
  /\ Settled(p) => Covered(f)

\* A PE that executes goes on from its own minimum and consumes nothing.
LEMMA NothingConsumed ==
  ASSUME IInv, NEW p \in PE
  PROVE  Consumed(p, low[p], manager[p], net)
<1>1. /\ low[p] \in Time /\ manager[p] \in Manager /\ net \in [Phase -> Flights]
      /\ \A h \in Phase : net[h] \in Flights
  BY DEF IInv, TypeOK
<1>2. low[p] <= low[p]
  BY <1>1, EndTimeAssumption DEF Time
<1>3. \A h \in Phase, q \in PE, t \in EventTime : net[h][q][t] <= net[h][q][t]
  BY <1>1 DEF Flights
<1>4. \A h \in Phase : /\ manager[p].received[h] >= manager[p].received[h]
                       /\ manager[p].received[h] + Flying(net[h]) = manager[p].received[h] + Flying(net[h])
  BY <1>1 DEF Manager
<1>5. \A g \in Time : Floor(g, low, net) => g <= low[p]
  BY DEF Floor, IsFloor, Phase
<1>6. Settled(p) => Covered(low[p])
  BY DEF IInv, Tracked
<1>7. QED
  BY <1>1, <1>2, <1>3, <1>4, <1>5, <1>6 DEF Consumed

\* A message that reaches a PE after its contribution is of the other phase,
\* since all of the phase that is counted has been delivered.
LEMMA SettledCovers ==
  ASSUME IInv, NEW p \in PE, Settled(p), NEW h \in Phase, NEW t \in EventTime, net[h][p][t] > 0
  PROVE  Covered(t)
<1>1. /\ Staged(p) /\ TypeOK
  BY DEF IInv
<1>2. InRound(p)
  BY <1>1, Stages DEF InRound
<1>3. Detected(p) = manager[p].active_phase
  BY <1>2 DEF Detected
<1>4. NothingInFlight(net[manager[p].active_phase])
  BY DEF IInv, Delivered, Known
<1>5. net[h][p][t] # 0
  OBVIOUS
<1>6. h # manager[p].active_phase
  BY <1>4, <1>5 DEF NothingInFlight
<1>7. Detected(p) = Detected(Root)
  BY RootAssumption DEF IInv, Together
<1>8. QED
  BY <1>3, <1>6, <1>7 DEF IInv, Tracked

\* What is bounded by a contribution yet to come stays so at a later time.
LEMMA CoveredUp ==
  ASSUME TypeOK, \A p \in PE : Staged(p), NEW t \in Time, NEW u \in Time, t <= u, Covered(t)
  PROVE  Covered(u)
<1>1. PICK p \in PE : InRound(p) /\ Cover(p) <= t
  BY DEF Covered
<1>2. Cover(p) \in Time
  BY Stages DEF Cover, TypeOK, Manager
<1>3. Cover(p) <= u
  BY <1>1, <1>2, EndTimeAssumption DEF Time
<1>4. QED
  BY <1>1, <1>3 DEF Covered

\* Times of events are times, and times are naturals.
LEMMA EventTimes == EventTime \subseteq Time /\ Time \subseteq Nat
BY EndTimeAssumption DEF EventTime, Time

\* A PE that receives an event counts it in the phase of the message and goes
\* on from the earlier of its minimum and the time of the event.
LEMMA MessageConsumed ==
  ASSUME IInv, NEW p \in PE, NEW h \in Phase, NEW t \in EventTime, net[h][p][t] > 0
  PROVE  Consumed(p, Earlier(low[p], t), consume(manager[p], h),
                  [net EXCEPT ![h] = Take(net[h], p, t)])
<1> DEFINE f == Earlier(low[p], t)
           m == consume(manager[p], h)
           n == [net EXCEPT ![h] = Take(net[h], p, t)]
<1>1. /\ low[p] \in Time /\ manager[p] \in Manager /\ net \in [Phase -> Flights]
      /\ net[h] \in Flights /\ TypeOK /\ \A q \in PE : Staged(q)
  BY DEF IInv, TypeOK
<1>2. f \in Time /\ f <= low[p] /\ f <= t /\ (f = low[p] \/ f = t)
  <2>1. t \in Time /\ t \in Nat /\ low[p] \in Nat
    BY <1>1, EventTimes
  <2>2. QED
    BY <1>1, <2>1 DEF Earlier
<1>3. /\ Take(net[h], p, t) \in Flights
      /\ \A q \in PE, u \in EventTime :
           Take(net[h], p, t)[q][u] = IF q = p /\ u = t THEN net[h][q][u] - 1 ELSE net[h][q][u]
  BY <1>1, TakeType
<1>4. n \in [Phase -> Flights] /\ n[h] = Take(net[h], p, t) /\ \A k \in Phase : k # h => n[k] = net[k]
  BY <1>1, <1>3
<1>5. ASSUME NEW k \in Phase, NEW q \in PE, NEW u \in EventTime PROVE n[k][q][u] <= net[k][q][u]
  <2>1. net[k][q][u] \in Nat
    BY <1>1 DEF Flights
  <2>2. QED
    BY <1>3, <1>4, <2>1
<1>6. /\ m \in Manager
      /\ m.active = manager[p].active /\ m.active_phase = manager[p].active_phase
      /\ m.producing_phase = manager[p].producing_phase /\ m.min_sent = manager[p].min_sent
      /\ m.sent = manager[p].sent /\ m.lb_cnt = manager[p].lb_cnt
      /\ m.received = [manager[p].received EXCEPT ![h] = manager[p].received[h] + 1]
  <2>1. manager[p].received \in [Phase -> Nat]
    BY <1>1 DEF Manager
  <2>2. m.received = [manager[p].received EXCEPT ![h] = manager[p].received[h] + 1]
    BY <1>1, <2>1 DEF consume, Manager
  <2>3. m.received \in [Phase -> Nat]
    BY <2>1, <2>2
  <2>4. QED
    BY <1>1, <2>2, <2>3 DEF consume, Manager
<1>7. ASSUME NEW k \in Phase
      PROVE  /\ m.received[k] >= manager[p].received[k]
             /\ m.received[k] + Flying(n[k]) = manager[p].received[k] + Flying(net[k])
  <2>1. manager[p].received \in [Phase -> Nat]
    BY <1>1 DEF Manager
  <2>2. Flying(net[k]) \in Nat /\ Flying(n[k]) \in Nat
    BY <1>1, <1>4, FlyingNone
  <2>3. CASE k = h
    <3>1. Flying(net[h]) = Flying(n[h]) + 1
      BY <1>1, <1>4, FlyingTake
    <3>2. m.received[h] = manager[p].received[h] + 1
      BY <1>6, <2>1
    <3> HIDE DEF m, n
    <3>3. QED
      BY <2>1, <2>2, <2>3, <3>1, <3>2
  <2>4. CASE k # h
    <3>1. n[k] = net[k] /\ m.received[k] = manager[p].received[k]
      BY <1>4, <1>6, <2>1, <2>4
    <3> HIDE DEF m, n
    <3>2. QED
      BY <2>1, <2>2, <3>1
  <2>5. QED
    BY <2>3, <2>4
<1>8. ASSUME NEW g \in Time, Floor(g, low, net) PROVE g <= f
  BY <1>2, <1>8 DEF Floor, IsFloor
<1>9. ASSUME Settled(p) PROVE Covered(f)
  <2>1. Covered(t)
    BY <1>9, SettledCovers
  <2>2. Covered(low[p])
    BY <1>9 DEF IInv, Tracked
  <2>3. QED
    BY <1>2, <2>1, <2>2
<1> HIDE DEF f, m, n
<1>10. Consumed(p, f, m, n)
  BY <1>2, <1>4, <1>5, <1>6, <1>7, <1>8, <1>9 DEF Consumed
<1>11. QED
  BY <1>10 DEF f, m, n

\* A PE sends S, and may begin the next round.
Sends(p, f, m, n, S) ==
  /\ S \in SUBSET (PE \X EventTime) /\ IsFiniteSet(S) /\ Cardinality(S) \in Nat
  /\ \A s \in S : s[2] >= f
  /\ \E x \in f..EndTime : low' = [low EXCEPT ![p] = x]
  /\ net' = [n EXCEPT ![m.producing_phase] = Put(n[m.producing_phase], S)]
  /\ results' = results
  /\ LET M == produce(m, S) IN
     \/ manager' = [manager EXCEPT ![p] = M] /\ contributions' = contributions
     \/ /\ ~M.active
        /\ manager' = [manager EXCEPT ![p] = enter_round(M)]
        /\ contributions' = [contributions EXCEPT
             ![p] = Append(contributions[p], ActiveCounts(enter_round(M)))]

\* produce() for a set of messages: min_sent becomes the least of it and of
\* their times, and they are counted in the phase the PE produces in.
LEMMA Produced ==
  ASSUME NEW m \in Manager, NEW S \in SUBSET (PE \X EventTime), Cardinality(S) \in Nat
  PROVE  LET M == produce(m, S) IN
         /\ M \in Manager
         /\ M.active = m.active /\ M.active_phase = m.active_phase
         /\ M.producing_phase = m.producing_phase /\ M.received = m.received
         /\ M.lb_cnt = m.lb_cnt
         /\ M.min_sent <= m.min_sent /\ \A s \in S : M.min_sent <= s[2]
         /\ \A g \in Time : g <= m.min_sent /\ (\A s \in S : g <= s[2]) => g <= M.min_sent
         /\ M.sent = [m.sent EXCEPT ![m.producing_phase] = m.sent[m.producing_phase] + Cardinality(S)]
<1> DEFINE T == {m.min_sent} \union {s[2] : s \in S}
           M == produce(m, S)
           sent == [m.sent EXCEPT ![m.producing_phase] = m.sent[m.producing_phase] + Cardinality(S)]
<1>1. m.min_sent \in Time /\ \A s \in S : s[2] \in Time
  BY EventTimes DEF Manager
<1>2. T \in SUBSET Nat /\ T # {} /\ T \in SUBSET Time
  BY <1>1, EventTimes
<1>3. Min(T) \in T /\ \A x \in T : Min(T) <= x
  <2> HIDE DEF T
  <2>1. QED
    BY <1>2, MinIsLeast
<1>4. Min(T) \in Time /\ Min(T) <= m.min_sent /\ \A s \in S : Min(T) <= s[2]
  BY <1>2, <1>3
<1>5. \A g \in Time : g <= m.min_sent /\ (\A s \in S : g <= s[2]) => g <= Min(T)
  BY <1>3
<1>6. sent \in [Phase -> Nat]
  BY DEF Manager
<1>7. M = [[m EXCEPT !.min_sent = Min(T)] EXCEPT !.sent = sent]
  BY DEF produce, Manager
<1> HIDE DEF T, sent, M
<1>8. /\ M \in Manager /\ M.sent = sent /\ M.min_sent = Min(T)
      /\ M.active = m.active /\ M.active_phase = m.active_phase
      /\ M.producing_phase = m.producing_phase /\ M.received = m.received
      /\ M.lb_cnt = m.lb_cnt
  BY <1>4, <1>6, <1>7 DEF Manager
<1>9. QED
  BY <1>4, <1>5, <1>8 DEF M, sent

\* gvt_begin() of a PE that is in no round.
LEMMA Entered ==
  ASSUME NEW m \in Manager
  PROVE  LET b == enter_round(m) IN
         /\ b \in Manager /\ b.active /\ b.active_phase = m.producing_phase
         /\ b.producing_phase = NextPhase(m.producing_phase) /\ b.active_phase \in Phase
         /\ b.sent = m.sent /\ b.received = m.received /\ b.min_sent = EndTime
         /\ b.lb_cnt = lb_trigger_counted(m.lb_cnt)
         /\ ActiveCounts(b) \in Reduced /\ ActiveCounts(b).of = "counts"
         /\ ActiveCounts(b).s = m.sent[m.producing_phase]
         /\ ActiveCounts(b).r = m.received[m.producing_phase]
<1> DEFINE b == enter_round(m)
<1>1. lb_trigger_counted(m.lb_cnt) \in 0..LBInterval
  BY LBAssumption DEF lb_trigger_counted, Manager
<1>2. NextPhase(m.producing_phase) \in Phase /\ m.producing_phase \in Phase
  BY Alternate DEF Manager
<1>3. EndTime \in Time
  BY EndTimeAssumption DEF Time
<1>4. /\ b = [m EXCEPT !.active = TRUE, !.min_sent = EndTime, !.active_phase = m.producing_phase,
                       !.producing_phase = NextPhase(m.producing_phase),
                       !.lb_cnt = lb_trigger_counted(m.lb_cnt)]
  BY DEF enter_round
<1>5. /\ b \in Manager /\ b.active = TRUE /\ b.active_phase = m.producing_phase
      /\ b.producing_phase = NextPhase(m.producing_phase)
      /\ b.sent = m.sent /\ b.received = m.received /\ b.min_sent = EndTime
      /\ b.lb_cnt = lb_trigger_counted(m.lb_cnt)
  BY <1>1, <1>2, <1>3, <1>4 DEF Manager
<1>6. m.sent \in [Phase -> Nat] /\ m.received \in [Phase -> Nat]
  BY DEF Manager
<1> HIDE DEF b
<1>7. ActiveCounts(b) = [of |-> "counts", s |-> m.sent[m.producing_phase], r |-> m.received[m.producing_phase]]
  BY <1>5 DEF ActiveCounts, Counts
<1>8. ActiveCounts(b) \in Reduced
  BY <1>2, <1>6, <1>7 DEF Reduced
<1>9. QED
  BY <1>2, <1>5, <1>7, <1>8 DEF b

\* What such a step leaves of every PE's place in the round: the sender may go
\* from no round to counting, and nothing else changes.
LEMMA SendsStages ==
  ASSUME IInv, NEW p \in PE, NEW f, NEW m, NEW n, NEW S, Consumed(p, f, m, n), Sends(p, f, m, n, S)
  PROVE  /\ manager' \in [PE -> Manager] /\ contributions' \in [PE -> Seq(Reduced)]
         /\ \A q \in PE : q # p => manager'[q] = manager[q] /\ contributions'[q] = contributions[q]
         /\ manager'[p].sent = [manager[p].sent EXCEPT
              ![manager[p].producing_phase] = manager[p].sent[manager[p].producing_phase] + Cardinality(S)]
         /\ manager'[p].received = m.received
         /\ \/ /\ contributions'[p] = contributions[p]
               /\ manager'[p].active = manager[p].active
               /\ manager'[p].active_phase = manager[p].active_phase
               /\ manager'[p].producing_phase = manager[p].producing_phase
               /\ manager'[p].lb_cnt = manager[p].lb_cnt
               /\ manager'[p].min_sent <= manager[p].min_sent
               /\ \A s \in S : manager'[p].min_sent <= s[2]
               /\ \A g \in Time : g <= manager[p].min_sent /\ g <= f => g <= manager'[p].min_sent
            \/ /\ ~manager[p].active /\ contributions[p] = << >>
               /\ manager'[p].active
               /\ manager'[p].active_phase = manager[p].producing_phase
               /\ manager'[p].producing_phase = NextPhase(manager[p].producing_phase)
               /\ manager'[p].lb_cnt = lb_trigger_counted(manager[p].lb_cnt)
               /\ manager'[p].min_sent = EndTime
               /\ contributions'[p] # << >> /\ Len(contributions'[p]) = 1
               /\ contributions'[p][1].of = "counts"
               /\ contributions'[p][1].s = manager'[p].sent[manager'[p].active_phase]
               /\ contributions'[p][1].r = manager'[p].received[manager'[p].active_phase]
<1> DEFINE M == produce(m, S)
           b == enter_round(M)
<1>1. /\ manager \in [PE -> Manager] /\ contributions \in [PE -> Seq(Reduced)] /\ TypeOK /\ Staged(p)
  BY DEF IInv, TypeOK
<1>2. /\ m \in Manager /\ f \in Time
      /\ m.active = manager[p].active /\ m.active_phase = manager[p].active_phase
      /\ m.producing_phase = manager[p].producing_phase /\ m.min_sent = manager[p].min_sent
      /\ m.sent = manager[p].sent /\ m.lb_cnt = manager[p].lb_cnt
  BY DEF Consumed
<1>3. /\ S \in SUBSET (PE \X EventTime) /\ Cardinality(S) \in Nat /\ \A s \in S : s[2] >= f
  BY DEF Sends
<1>4. /\ M \in Manager
      /\ M.active = m.active /\ M.active_phase = m.active_phase
      /\ M.producing_phase = m.producing_phase /\ M.received = m.received
      /\ M.lb_cnt = m.lb_cnt
      /\ M.min_sent <= m.min_sent /\ \A s \in S : M.min_sent <= s[2]
      /\ \A g \in Time : g <= m.min_sent /\ (\A s \in S : g <= s[2]) => g <= M.min_sent
      /\ M.sent = [m.sent EXCEPT ![m.producing_phase] = m.sent[m.producing_phase] + Cardinality(S)]
  BY <1>2, <1>3, Produced
<1>5. /\ b \in Manager /\ b.active /\ b.active_phase = M.producing_phase
      /\ b.producing_phase = NextPhase(M.producing_phase) /\ b.active_phase \in Phase
      /\ b.sent = M.sent /\ b.received = M.received /\ b.min_sent = EndTime
      /\ b.lb_cnt = lb_trigger_counted(M.lb_cnt)
      /\ ActiveCounts(b) \in Reduced /\ ActiveCounts(b).of = "counts"
      /\ ActiveCounts(b).s = M.sent[M.producing_phase]
      /\ ActiveCounts(b).r = M.received[M.producing_phase]
  <2> HIDE DEF M
  <2>1. QED
    BY <1>4, Entered
<1>6. \A g \in Time : g <= m.min_sent /\ g <= f => g <= M.min_sent
  <2> SUFFICES ASSUME NEW g \in Time, g <= m.min_sent, g <= f PROVE g <= M.min_sent
    OBVIOUS
  <2>1. ASSUME NEW s \in S PROVE g <= s[2]
    <3>1. s[2] \in Nat /\ g \in Nat /\ f \in Nat /\ s[2] >= f
      BY <1>2, <1>3, EventTimes
    <3>2. QED
      BY <3>1
  <2>2. QED
    BY <1>4, <2>1
<1>7. \/ manager' = [manager EXCEPT ![p] = M] /\ contributions' = contributions
      \/ /\ ~M.active
         /\ manager' = [manager EXCEPT ![p] = b]
         /\ contributions' = [contributions EXCEPT ![p] = Append(contributions[p], ActiveCounts(b))]
  BY DEF Sends
<1> HIDE DEF M, b
<1>8. CASE manager' = [manager EXCEPT ![p] = M] /\ contributions' = contributions
  <2>1. manager'[p] = M /\ manager' \in [PE -> Manager] /\ \A q \in PE : q # p => manager'[q] = manager[q]
    BY <1>1, <1>4, <1>8
  <2>2. QED
    BY <1>1, <1>2, <1>4, <1>6, <1>8, <2>1
<1>9. CASE /\ ~M.active
           /\ manager' = [manager EXCEPT ![p] = b]
           /\ contributions' = [contributions EXCEPT ![p] = Append(contributions[p], ActiveCounts(b))]
  <2>1. manager'[p] = b /\ manager' \in [PE -> Manager] /\ \A q \in PE : q # p => manager'[q] = manager[q]
    BY <1>1, <1>5, <1>9
  <2>2. contributions[p] = << >>
    BY <1>1, <1>2, <1>4, <1>9, Stages
  <2>3. /\ contributions' \in [PE -> Seq(Reduced)]
        /\ contributions'[p] = Append(<< >>, ActiveCounts(b))
        /\ \A q \in PE : q # p => contributions'[q] = contributions[q]
    <3>1. Append(contributions[p], ActiveCounts(b)) \in Seq(Reduced)
      BY <1>1, <1>5
    <3>2. QED
      BY <1>1, <1>9, <2>2, <3>1
  <2>4. contributions'[p] = <<ActiveCounts(b)>>
    BY <2>3
  <2>5. contributions'[p] # << >> /\ Len(contributions'[p]) = 1 /\ contributions'[p][1] = ActiveCounts(b)
    BY <2>4
  <2>6. /\ ~manager[p].active /\ manager'[p].active
        /\ manager'[p].active_phase = manager[p].producing_phase
        /\ manager'[p].producing_phase = NextPhase(manager[p].producing_phase)
        /\ manager'[p].lb_cnt = lb_trigger_counted(manager[p].lb_cnt)
        /\ manager'[p].min_sent = EndTime
    BY <1>2, <1>4, <1>5, <1>9, <2>1
  <2>7. /\ manager'[p].sent = [manager[p].sent EXCEPT
             ![manager[p].producing_phase] = manager[p].sent[manager[p].producing_phase] + Cardinality(S)]
        /\ manager'[p].received = m.received
    BY <1>2, <1>4, <1>5, <2>1
  <2>8. /\ contributions'[p][1].of = "counts"
        /\ contributions'[p][1].s = manager'[p].sent[manager'[p].active_phase]
        /\ contributions'[p][1].r = manager'[p].received[manager'[p].active_phase]
    BY <1>5, <2>1, <2>5
  <2>9. QED
    BY <2>1, <2>2, <2>3, <2>5, <2>6, <2>7, <2>8, Zenon
<1>10. QED
  BY <1>7, <1>8, <1>9

\* A PE that works moves no PE to an earlier stage: the only thing that may
\* change is that it begins the next round.
LEMMA SendsPlaces ==
  ASSUME IInv, NEW p \in PE, NEW f, NEW m, NEW n, NEW S, Consumed(p, f, m, n), Sends(p, f, m, n, S)
  PROVE  /\ \A q \in PE : Staged(q)' /\ Contributed(q)'
         /\ results' = results
         /\ \A q \in PE :
              /\ Settled(q)' <=> Settled(q)
              /\ Checking(q)' <=> Checking(q)
              /\ Ending(q)' <=> Ending(q)
              /\ Counting(q) => Counting(q)'
              /\ Detected(q)' = Detected(q)
              /\ InRound(q) => InRound(q)' /\ Cover(q)' <= Cover(q)
              /\ manager'[q].active => manager[q].active \/ Counting(q)'
              /\ manager[q].active => manager'[q].active_phase = manager[q].active_phase
              /\ Settled(q) => contributions'[q] = contributions[q]
<1>1. /\ TypeOK /\ \A q \in PE : Staged(q) /\ Contributed(q) /\ manager[q] \in Manager
      /\ \A q \in PE : contributions[q] \in Seq(Reduced)
  BY DEF IInv, TypeOK
<1>2. /\ \A q \in PE : q # p => manager'[q] = manager[q] /\ contributions'[q] = contributions[q]
      /\ results' = results
  BY SendsStages DEF Sends
<1>3. ASSUME NEW q \in PE, q # p
      PROVE  /\ Staged(q)' /\ Contributed(q)'
             /\ Settled(q)' <=> Settled(q)
             /\ Checking(q)' <=> Checking(q)
             /\ Ending(q)' <=> Ending(q)
             /\ Counting(q)' <=> Counting(q)
             /\ Detected(q)' = Detected(q)
             /\ InRound(q)' <=> InRound(q)
             /\ Cover(q)' = Cover(q)
             /\ manager'[q] = manager[q] /\ contributions'[q] = contributions[q]
  <2>1. manager'[q] = manager[q] /\ contributions'[q] = contributions[q] /\ results'[q] = results[q]
    BY <1>2, <1>3
  <2>2. Staged(q)' /\ Contributed(q)'
    BY <1>1, <2>1 DEF Staged, Contributed, Counting
  <2>3. QED
    BY <2>1, <2>2 DEF Settled, Checking, Ending, Counting, Detected, InRound, Cover
<1>4. ASSUME NEW q \in PE PROVE Cover(q) \in Nat
  BY <1>1, Stages, EventTimes DEF Cover, Manager
<1>5. /\ Staged(p)' /\ Contributed(p)'
      /\ Settled(p)' <=> Settled(p)
      /\ Checking(p)' <=> Checking(p)
      /\ Ending(p)' <=> Ending(p)
      /\ Counting(p) => Counting(p)'
      /\ Detected(p)' = Detected(p)
      /\ InRound(p) => InRound(p)' /\ Cover(p)' <= Cover(p)
      /\ manager'[p].active => manager[p].active \/ Counting(p)'
      /\ manager[p].active => manager'[p].active_phase = manager[p].active_phase
      /\ Settled(p) => contributions'[p] = contributions[p]
  <2> DEFINE sent == manager[p].sent
             pp == manager[p].producing_phase
  <2>1. manager'[p].sent = [sent EXCEPT ![pp] = sent[pp] + Cardinality(S)]
        /\ manager'[p].received = m.received
    BY SendsStages
  <2>2. /\ sent \in [Phase -> Nat] /\ pp \in Phase /\ Cardinality(S) \in Nat
        /\ \A h \in Phase : m.received[h] >= manager[p].received[h]
        /\ m \in Manager
    BY <1>1 DEF Manager, Sends, Consumed
  <2>3. CASE /\ contributions'[p] = contributions[p]
             /\ manager'[p].active = manager[p].active
             /\ manager'[p].active_phase = manager[p].active_phase
             /\ manager'[p].producing_phase = manager[p].producing_phase
             /\ manager'[p].min_sent <= manager[p].min_sent
    <3>1. Staged(p)'
      BY <1>1, <1>2, <2>3 DEF Staged
    <3>2. ASSUME Counting(p)
          PROVE  /\ manager'[p].sent[manager[p].active_phase] = sent[manager[p].active_phase]
                 /\ manager'[p].received[manager[p].active_phase] >= manager[p].received[manager[p].active_phase]
      <4>1. manager[p].active /\ manager[p].active_phase \in Phase
            /\ pp = NextPhase(manager[p].active_phase)
        BY <1>1, <3>2, Stages DEF Staged
      <4>2. manager[p].active_phase # pp
        BY <4>1, Alternate
      <4>3. QED
        BY <2>1, <2>2, <4>1, <4>2
    <3>3. Contributed(p)'
      <4> SUFFICES ASSUME Counting(p)
                   PROVE  /\ contributions[p][1].s = manager'[p].sent[manager[p].active_phase]
                          /\ contributions[p][1].r <= manager'[p].received[manager[p].active_phase]
        BY <2>3 DEF Contributed, Counting
      <4> DEFINE r == contributions[p][1].r
                 x == manager[p].received[manager[p].active_phase]
                 y == manager'[p].received[manager[p].active_phase]
      <4>1. contributions[p][1].s = sent[manager[p].active_phase] /\ r <= x /\ x <= y
        BY <1>1, <3>2 DEF Contributed
      <4>2. manager[p].active_phase \in Phase
        BY <1>1, Stages DEF Staged
      <4>3. r \in Nat /\ x \in Nat /\ y \in Nat
        BY <1>1, <2>1, <2>2, <4>2, Stages DEF Manager
      <4> HIDE DEF r, x, y
      <4>4. r <= y
        BY <4>1, <4>3
      <4>5. QED
        BY <3>2, <4>1, <4>4 DEF r, y
    <3>4. Cover(p)' <= Cover(p)
      <4>1. CASE Settled(p)
        <5>1. Cover(p)' = Cover(p)
          BY <2>3, <4>1 DEF Cover, Settled
        <5>2. QED
          BY <1>4, <5>1
      <4>2. CASE ~Settled(p)
        BY <2>3, <4>2 DEF Cover, Settled
      <4>3. QED
        BY <4>1, <4>2
    <3>5. QED
      BY <1>2, <2>3, <3>1, <3>3, <3>4 DEF Settled, Checking, Ending, Counting, Detected, InRound
  <2>4. CASE /\ ~manager[p].active /\ contributions[p] = << >>
             /\ manager'[p].active
             /\ manager'[p].active_phase = manager[p].producing_phase
             /\ manager'[p].producing_phase = NextPhase(manager[p].producing_phase)
             /\ contributions'[p] # << >> /\ Len(contributions'[p]) = 1
             /\ contributions'[p][1].of = "counts"
             /\ contributions'[p][1].s = manager'[p].sent[manager'[p].active_phase]
             /\ contributions'[p][1].r = manager'[p].received[manager'[p].active_phase]
    <3>1. results[p] = << >>
      BY <1>1, <2>4, Stages
    <3>2. Staged(p)'
      BY <1>2, <2>2, <2>4, <3>1 DEF Staged
    <3>3. manager'[p].received[manager'[p].active_phase] \in Nat
      BY <2>1, <2>2, <2>4 DEF Manager
    <3>4. Contributed(p)'
      BY <2>4, <3>3 DEF Contributed
    <3>5. QED
      BY <1>2, <2>4, <3>1, <3>2, <3>4 DEF Settled, Checking, Ending, Counting, Detected, InRound
  <2>5. QED
    BY <2>3, <2>4, SendsStages
<1>6. QED
  <2>1. ASSUME NEW q \in PE
        PROVE /\ Staged(q)' /\ Contributed(q)'
              /\ Settled(q)' <=> Settled(q)
              /\ Checking(q)' <=> Checking(q)
              /\ Ending(q)' <=> Ending(q)
              /\ Counting(q) => Counting(q)'
              /\ Detected(q)' = Detected(q)
              /\ InRound(q) => InRound(q)' /\ Cover(q)' <= Cover(q)
              /\ manager'[q].active => manager[q].active \/ Counting(q)'
              /\ manager[q].active => manager'[q].active_phase = manager[q].active_phase
              /\ Settled(q) => contributions'[q] = contributions[q]
    <3>1. CASE q = p
      BY <1>5, <3>1
    <3>2. CASE q # p
      <4>1. Cover(q) <= Cover(q)
        BY <1>4
      <4>2. QED
        BY <1>3, <3>2, <4>1
    <3>3. QED
      BY <3>1, <3>2
  <2>2. QED
    BY <1>2, <2>1

\* All it sends is in flight in the phase it produces in.
LEMMA SendsInFlight ==
  ASSUME IInv, NEW p \in PE, NEW f, NEW m, NEW n, NEW S, Consumed(p, f, m, n), Sends(p, f, m, n, S)
  PROVE  LET pp == manager[p].producing_phase IN
         /\ pp \in Phase
         /\ net' \in [Phase -> Flights]
         /\ net' = [n EXCEPT ![pp] = Put(n[pp], S)]
         /\ \A h \in Phase, q \in PE, t \in EventTime :
              net'[h][q][t] > 0 => net[h][q][t] > 0 \/ (h = pp /\ <<q, t>> \in S)
         /\ \A h \in Phase :
              Flying(net'[h]) = Flying(n[h]) + (IF h = pp THEN Cardinality(S) ELSE 0)
<1> DEFINE pp == manager[p].producing_phase
<1>1. /\ pp \in Phase /\ n \in [Phase -> Flights] /\ m.producing_phase = pp
      /\ net \in [Phase -> Flights]
      /\ \A h \in Phase, q \in PE, t \in EventTime : n[h][q][t] <= net[h][q][t]
  BY DEF Consumed, IInv, TypeOK, Manager
<1>2. S \in SUBSET (PE \X EventTime) /\ net' = [n EXCEPT ![pp] = Put(n[pp], S)]
      /\ Cardinality(S) \in Nat
  BY <1>1 DEF Sends
<1> HIDE DEF pp
<1>3. /\ Put(n[pp], S) \in Flights
      /\ \A q \in PE, t \in EventTime :
           Put(n[pp], S)[q][t] = IF <<q, t>> \in S THEN n[pp][q][t] + 1 ELSE n[pp][q][t]
  BY <1>1, <1>2, PutType
<1>4. net' \in [Phase -> Flights] /\ net'[pp] = Put(n[pp], S)
      /\ \A h \in Phase : h # pp => net'[h] = n[h]
  BY <1>1, <1>2, <1>3
<1>5. ASSUME NEW h \in Phase, NEW q \in PE, NEW t \in EventTime, net'[h][q][t] > 0
      PROVE  net[h][q][t] > 0 \/ (h = pp /\ <<q, t>> \in S)
  <2>1. n[h][q][t] \in Nat /\ net[h][q][t] \in Nat /\ n[h][q][t] <= net[h][q][t]
    BY <1>1 DEF Flights
  <2>2. CASE h = pp /\ <<q, t>> \in S
    BY <2>2
  <2>3. CASE ~(h = pp /\ <<q, t>> \in S)
    <3>1. net'[h][q][t] = n[h][q][t]
      BY <1>3, <1>4, <2>3
    <3>2. QED
      BY <1>5, <2>1, <3>1
  <2>4. QED
    BY <2>2, <2>3
<1>6. ASSUME NEW h \in Phase
      PROVE  Flying(net'[h]) = Flying(n[h]) + (IF h = pp THEN Cardinality(S) ELSE 0)
  <2>1. n[h] \in Flights /\ Flying(n[h]) \in Nat
    BY <1>1, FlyingNone
  <2>2. CASE h = pp
    <3>1. Flying(Put(n[h], S)) = Flying(n[h]) + Cardinality(S)
      BY <1>2, <2>1, FlyingPut
    <3>2. QED
      BY <1>4, <2>2, <3>1
  <2>3. CASE h # pp
    BY <1>4, <2>1, <2>3
  <2>4. QED
    BY <2>2, <2>3
<1>7. QED
  BY <1>1, <1>2, <1>4, <1>5, <1>6 DEF pp

\* As long as a PE holds equal sums, every PE is in the round.
LEMMA KnownToOne ==
  ASSUME TypeOK, \A q \in PE : Staged(q), \A r, q \in PE : Together(r, q),
         NEW p \in PE, NEW q \in PE, Known(q)
  PROVE  /\ InRound(p) /\ manager[p].active /\ manager[p].active_phase \in Phase
         /\ Detected(p) = manager[p].active_phase
         /\ Detected(p) = manager[q].active_phase
         /\ manager[p].producing_phase # manager[q].active_phase
<1>1. Settled(p) \/ Checking(p)
  <2>1. CASE Settled(q)
    BY <2>1 DEF Together
  <2>2. CASE Checking(q) /\ Agree(results[q][1])
    <3>1. results[p] = results[q] \/ Settled(p)
      BY <2>2 DEF Together
    <3>2. QED
      BY <2>2, <3>1 DEF Checking
  <2>3. QED
    BY <2>1, <2>2 DEF Known
<1>2. InRound(p) /\ InRound(q)
  BY <1>1, Stages DEF InRound, Known
<1>3. /\ Detected(p) = manager[p].active_phase /\ Detected(q) = manager[q].active_phase
      /\ Detected(p) = Detected(q)
  BY <1>2 DEF Detected, Together
<1>4. manager[p].active_phase \in Phase /\ manager[p].producing_phase = NextPhase(manager[p].active_phase)
  BY <1>2 DEF InRound, Staged
<1>5. QED
  BY <1>2, <1>3, <1>4, Alternate DEF InRound

\* It stays in step with the others, and a phase without messages stays so.
LEMMA SendsTogether ==
  ASSUME IInv, NEW p \in PE, NEW f, NEW m, NEW n, NEW S, Consumed(p, f, m, n), Sends(p, f, m, n, S)
  PROVE  (\A q, r \in PE : Together(q, r)') /\ Delivered'
<1>1. /\ results' = results
      /\ \A q \in PE :
           /\ Settled(q)' <=> Settled(q)
           /\ Checking(q)' <=> Checking(q)
           /\ Ending(q)' <=> Ending(q)
           /\ Counting(q) => Counting(q)'
           /\ Detected(q)' = Detected(q)
           /\ manager'[q].active => manager[q].active \/ Counting(q)'
           /\ manager[q].active => manager'[q].active_phase = manager[q].active_phase
  BY SendsPlaces
<1>2. TypeOK /\ (\A q \in PE : Staged(q)) /\ (\A r, q \in PE : Together(r, q))
  BY DEF IInv
<1>3. ASSUME NEW q \in PE, NEW r \in PE PROVE Together(q, r)'
  <2>1. Detected(q)' = Detected(r)'
    BY <1>1, <1>2 DEF Together
  <2>2. Settled(q)' => Settled(r)' \/ (Checking(r)' /\ Agree(results'[r][1]))
    BY <1>1, <1>2 DEF Together
  <2>3. Checking(q)' => \/ results'[r] = results'[q]
                        \/ IF Agree(results'[q][1]) THEN Settled(r)' ELSE Counting(r)'
    BY <1>1, <1>2 DEF Together
  <2>4. Ending(q)' => results'[r] = results'[q] \/ Counting(r)' \/ ~manager'[r].active
    <3>1. Ending(q) => results[r] = results[q] \/ Counting(r) \/ ~manager[r].active
      BY <1>2 DEF Together
    <3>2. QED
      BY <1>1, <3>1
  <2>5. QED
    BY <2>1, <2>2, <2>3, <2>4 DEF Together, Agree
<1>4. ASSUME NEW q \in PE, Known(q)' PROVE NothingInFlight(net'[manager'[q].active_phase])
  <2>1. Known(q)
    BY <1>1, <1>4 DEF Known, Agree
  <2>2. /\ manager'[q].active_phase = manager[q].active_phase
        /\ manager[q].active_phase \in Phase
        /\ manager[p].producing_phase # manager[q].active_phase
    BY <1>1, <1>2, <2>1, KnownToOne
  <2>3. NothingInFlight(net[manager[q].active_phase])
    BY <2>1 DEF IInv, Delivered
  <2>4. ASSUME NEW r \in PE, NEW t \in EventTime PROVE net'[manager[q].active_phase][r][t] = 0
    <3>1. ~(net[manager[q].active_phase][r][t] > 0)
      BY <2>3 DEF NothingInFlight
    <3>2. ~(net'[manager[q].active_phase][r][t] > 0)
      BY <2>2, <3>1, SendsInFlight
    <3>3. net'[manager[q].active_phase][r][t] \in Nat
      BY <2>2, SendsInFlight DEF Flights
    <3>4. QED
      BY <3>2, <3>3
  <2>5. QED
    BY <2>2, <2>4 DEF NothingInFlight
<1>5. QED
  BY <1>3, <1>4 DEF Delivered

\* The counts that are not left over from an earlier round are numbers.
LEMMA LiveIs ==
  ASSUME TypeOK, NEW h \in Phase
  PROVE  SentLive(h) \in [PE -> Nat] /\ ReceivedLive(h) \in [PE -> Nat]
BY DEF SentLive, ReceivedLive, TypeOK, Manager

\* Each message sent counts as sent as long as it is in flight, and as received
\* from then on.
LEMMA SendsAccounted ==
  ASSUME IInv, NEW p \in PE, NEW f, NEW m, NEW n, NEW S, Consumed(p, f, m, n), Sends(p, f, m, n, S)
  PROVE  Accounted'
<1> SUFFICES ASSUME NEW h \in Phase
             PROVE  Total(SentLive(h)') >= Total(ReceivedLive(h)') + Flying(net'[h])
  BY DEF Accounted, Total
<1> DEFINE pp == manager[p].producing_phase
           c == IF h = pp THEN Cardinality(S) ELSE 0
           x == manager[p].received[h]
           y == m.received[h]
           k == y - x
           SL == SentLive(h)
           RL == ReceivedLive(h)
           SL2 == [q \in PE |-> IF Stale(q, h) THEN 0 ELSE manager'[q].sent[h]]
           RL2 == [q \in PE |-> IF Stale(q, h) THEN 0 ELSE manager'[q].received[h]]
<1>1. /\ TypeOK /\ \A q \in PE : Staged(q) /\ manager[q] \in Manager
      /\ net \in [Phase -> Flights]
  BY DEF IInv, TypeOK
<1>2. ASSUME NEW q \in PE PROVE Stale(q, h)' <=> Stale(q, h)
  <2>1. Ending(q)' <=> Ending(q)
    BY SendsPlaces
  <2>2. Ending(q) => manager[q].active
    BY <1>1, Stages
  <2>3. manager[q].active => manager'[q].active_phase = manager[q].active_phase
    BY SendsPlaces
  <2>4. QED
    BY <2>1, <2>2, <2>3 DEF Stale
<1>3. SentLive(h)' = SL2 /\ ReceivedLive(h)' = RL2
  BY <1>2 DEF SentLive, ReceivedLive
<1>4. /\ manager' \in [PE -> Manager]
      /\ \A q \in PE : q # p => manager'[q] = manager[q]
      /\ manager'[p].sent = [manager[p].sent EXCEPT ![pp] = manager[p].sent[pp] + Cardinality(S)]
      /\ manager'[p].received = m.received
  BY SendsStages
<1>5. /\ Cardinality(S) \in Nat /\ x \in Nat /\ y \in Nat /\ y >= x
      /\ n[h] \in Flights /\ y + Flying(n[h]) = x + Flying(net[h])
      /\ m \in Manager
  BY <1>1 DEF Sends, Consumed, Manager
<1>6. k \in Nat /\ c \in Nat /\ y = x + k
  BY <1>5
<1>7. Flying(net[h]) \in Nat /\ Flying(n[h]) \in Nat /\ Flying(net'[h]) = Flying(n[h]) + c
  BY <1>1, <1>5, FlyingNone, SendsInFlight
<1>8. SL \in [PE -> Nat] /\ RL \in [PE -> Nat]
  BY <1>1, LiveIs
<1>9. SL2 \in [PE -> Nat] /\ RL2 \in [PE -> Nat]
  BY <1>4 DEF Manager
<1>10. \A q \in PE : q # p => SL2[q] = SL[q] /\ RL2[q] = RL[q]
  BY <1>4 DEF SentLive, ReceivedLive
<1>11. SL2[p] = SL[p] + c
  <2>1. CASE Stale(p, h)
    <3>1. manager[p].active /\ h = manager[p].active_phase
      BY <1>1, <2>1, Stages DEF Stale
    <3>2. h # pp
      BY <1>1, <3>1, Alternate DEF Staged
    <3>3. QED
      BY <2>1, <3>2 DEF SentLive
  <2>2. CASE ~Stale(p, h)
    <3>1. manager'[p].sent[h] = manager[p].sent[h] + c
      BY <1>1, <1>4, <1>5 DEF Manager
    <3> HIDE DEF c
    <3>2. QED
      BY <2>2, <3>1 DEF SentLive
  <2>3. QED
    BY <2>1, <2>2
<1> DEFINE j == IF Stale(p, h) THEN 0 ELSE k
<1>12. RL2[p] = RL[p] + j /\ j \in Nat /\ j <= k
  <2>1. CASE Stale(p, h)
    BY <1>6, <2>1 DEF ReceivedLive
  <2>2. CASE ~Stale(p, h)
    <3>1. manager'[p].received[h] = x + k
      BY <1>4, <1>6
    <3> HIDE DEF k
    <3>2. QED
      BY <1>6, <2>2, <3>1 DEF ReceivedLive
  <2>3. QED
    BY <2>1, <2>2
<1> HIDE DEF SL, RL, SL2, RL2, c, k, x, y, j
<1>13. Total(SL2) = Total(SL) + c
  BY <1>6, <1>8, <1>9, <1>10, <1>11, TotalAdd
<1>14. Total(RL2) = Total(RL) + j
  BY <1>8, <1>9, <1>10, <1>12, TotalAdd
<1>15. Total(SL) \in Nat /\ Total(RL) \in Nat /\ Total(SL) >= Total(RL) + Flying(net[h])
  BY <1>8, TotalIs DEF IInv, Accounted, SL, RL
<1>16. Total(SL2) >= Total(RL2) + Flying(net'[h])
  BY <1>5, <1>6, <1>7, <1>12, <1>13, <1>14, <1>15
<1>17. QED
  BY <1>3, <1>16

\* What is in flight stays bounded by a minimum somebody still contributes.
LEMMA SendsTracked ==
  ASSUME IInv, NEW p \in PE, NEW f, NEW m, NEW n, NEW S, Consumed(p, f, m, n), Sends(p, f, m, n, S)
  PROVE  Tracked'
<1>1. /\ TypeOK /\ (\A q \in PE : Staged(q)) /\ (\A r, q \in PE : Together(r, q)) /\ Tracked
      /\ low \in [PE -> Time] /\ f \in Time /\ manager \in [PE -> Manager]
  BY DEF IInv, TypeOK, Consumed
<1>2. \A q \in PE : /\ Staged(q)'
                    /\ Settled(q)' <=> Settled(q)
                    /\ Detected(q)' = Detected(q)
                    /\ InRound(q) => InRound(q)' /\ Cover(q)' <= Cover(q)
                    /\ Settled(q) => contributions'[q] = contributions[q]
  BY SendsPlaces
<1>3. manager' \in [PE -> Manager]
  BY SendsStages
<1>4. \A q \in PE : Cover(q) \in Time /\ Cover(q)' \in Time
  <2> SUFFICES ASSUME NEW q \in PE PROVE Cover(q) \in Time /\ Cover(q)' \in Time
    OBVIOUS
  <2>1. Settled(q) => contributions[q][1].t \in Time
    BY <1>1, Stages
  <2>2. QED
    BY <1>1, <1>2, <1>3, <2>1 DEF Cover, Manager
<1>5. ASSUME NEW t \in Time, Covered(t) PROVE Covered(t)'
  <2>1. PICK q \in PE : InRound(q) /\ Cover(q) <= t
    BY <1>5 DEF Covered
  <2>2. Cover(q) \in Nat /\ Cover(q)' \in Nat /\ t \in Nat
    BY <1>4, EventTimes
  <2>3. InRound(q)' /\ Cover(q)' <= Cover(q)
    BY <1>2, <2>1
  <2>4. Cover(q)' <= t
    BY <2>1, <2>2, <2>3
  <2>5. QED
    BY <2>3, <2>4 DEF Covered
<1>6. PICK x \in f..EndTime : low' = [low EXCEPT ![p] = x]
  BY DEF Sends
<1>7. x \in Time /\ f <= x
  BY <1>1, <1>6, EndTimeAssumption DEF Time
<1>8. ASSUME NEW q \in PE, Settled(q)' PROVE Covered(low[q])'
  <2>1. Settled(q)
    BY <1>2, <1>8
  <2>2. Covered(low[q])
    BY <1>1, <2>1 DEF Tracked
  <2>3. CASE q = p
    <3>1. Covered(f)
      BY <2>1, <2>3 DEF Consumed
    <3>2. Covered(x)
      BY <1>1, <1>7, <3>1, CoveredUp
    <3>3. low'[q] = x
      BY <1>1, <1>6, <2>3
    <3>4. Covered(x)'
      BY <1>5, <1>7, <3>2
    <3>5. QED
      BY <3>3, <3>4 DEF Covered
  <2>4. CASE q # p
    <3>1. low'[q] = low[q] /\ low[q] \in Time
      BY <1>1, <1>6, <2>4
    <3>2. Covered(low[q])' <=> \E r \in PE : InRound(r)' /\ Cover(r)' <= low'[q]
      BY <3>1 DEF Covered
    <3>3. \E r \in PE : InRound(r) /\ Cover(r) <= low[q]
      BY <2>2 DEF Covered
    <3>4. PICK r \in PE : InRound(r) /\ Cover(r) <= low[q]
      BY <3>3
    <3>5. Cover(r) \in Nat /\ Cover(r)' \in Nat /\ low[q] \in Nat
      BY <1>4, <3>1, EventTimes
    <3>6. InRound(r)' /\ Cover(r)' <= Cover(r)
      BY <1>2, <3>4
    <3>7. Cover(r)' <= low'[q]
      BY <3>1, <3>4, <3>5, <3>6
    <3>8. QED
      BY <3>6, <3>7 DEF Covered
  <2>5. QED
    BY <2>3, <2>4
<1>9. ASSUME NEW h \in Phase, NEW q \in PE, NEW t \in EventTime, net'[h][q][t] > 0
      PROVE  h = Detected(Root)' \/ Covered(t)'
  <2> DEFINE pp == manager[p].producing_phase
  <2>1. Detected(Root)' = Detected(Root) /\ Detected(Root) = Detected(p) /\ t \in Time
    BY <1>1, <1>2, RootAssumption, EventTimes DEF Together
  <2>2. net[h][q][t] > 0 \/ (h = pp /\ <<q, t>> \in S)
    BY <1>9, SendsInFlight
  <2>3. CASE net[h][q][t] > 0
    BY <1>1, <1>5, <2>1, <2>3 DEF Tracked
  <2>4. CASE h = pp /\ <<q, t>> \in S
    <3>1. CASE ~InRound(p)
      BY <2>1, <2>4, <3>1 DEF Detected
    <3>2. CASE InRound(p) /\ Settled(p)
      <4>1. Covered(f)
        BY <3>2 DEF Consumed
      <4>2. f <= t
        <5>1. <<q, t>>[2] >= f
          BY <2>4 DEF Sends
        <5>2. t \in Nat /\ f \in Nat
          BY <1>1, <2>1, EventTimes
        <5>3. QED
          BY <5>1, <5>2
      <4>3. QED
        BY <1>1, <1>5, <2>1, <4>1, <4>2, CoveredUp
    <3>3. CASE InRound(p) /\ ~Settled(p)
      <4>1. manager[p].active
        BY <3>3 DEF InRound
      <4>2. \A s \in S : manager'[p].min_sent <= s[2]
        BY <4>1, SendsStages
      <4>3. <<q, t>>[2] = t /\ manager'[p].min_sent <= <<q, t>>[2]
        BY <2>4, <4>2
      <4>4. Cover(p)' <= t
        BY <1>2, <3>3, <4>3 DEF Cover
      <4>5. InRound(p)'
        BY <1>2, <3>3
      <4>6. QED
        BY <4>4, <4>5 DEF Covered
    <3>4. QED
      BY <3>1, <3>2, <3>3
  <2>5. QED
    BY <2>2, <2>3, <2>4
<1>10. QED
  BY <1>8, <1>9 DEF Tracked

\* Every floor stays one, and a contributed minimum stays below what is left.
LEMMA SendsFloors ==
  ASSUME IInv, NEW p \in PE, NEW f, NEW m, NEW n, NEW S, Consumed(p, f, m, n), Sends(p, f, m, n, S),
         \A q \in PE : sched'[q].g_last_gvt = sched[q].g_last_gvt
  PROVE  /\ low' \in [PE -> Time] /\ Floors'
         /\ \A g \in Time : Floor(g, low, net) => Floor(g, low', net')
<1>0. /\ manager' \in [PE -> Manager]
      /\ \A q \in PE : q # p => manager'[q] = manager[q] /\ contributions'[q] = contributions[q]
  BY SendsStages
<1>1. /\ TypeOK /\ (\A q \in PE : Staged(q)) /\ low \in [PE -> Time] /\ f \in Time
      /\ manager \in [PE -> Manager] /\ sched \in [PE -> Scheduler]
  BY DEF IInv, TypeOK, Consumed
<1>2. PICK x \in f..EndTime : low' = [low EXCEPT ![p] = x]
  BY DEF Sends
<1>3. x \in Time /\ f <= x
  BY <1>1, <1>2, EndTimeAssumption DEF Time
<1>4. low' \in [PE -> Time]
  BY <1>1, <1>2, <1>3
<1>5. ASSUME NEW g \in Time, Floor(g, low, net) PROVE Floor(g, low', net')
  <2>1. g <= f
    BY <1>5 DEF Consumed
  <2>2. g \in Nat /\ f \in Nat /\ x \in Nat
    BY <1>1, <1>3, EventTimes
  <2>3. ASSUME NEW q \in PE PROVE g <= low'[q]
    <3>1. CASE q = p
      <4>1. low'[q] = x
        BY <1>1, <1>2, <3>1
      <4>2. QED
        BY <1>3, <2>1, <2>2, <4>1
    <3>2. CASE q # p
      <4>1. low'[q] = low[q]
        BY <1>1, <1>2, <3>2
      <4>2. QED
        BY <1>5, <4>1 DEF Floor, IsFloor, Phase
    <3>3. QED
      BY <3>1, <3>2
  <2>4. ASSUME NEW h \in Phase, NEW q \in PE, NEW t \in EventTime, net'[h][q][t] > 0 PROVE g <= t
    <3>1. net[h][q][t] > 0 \/ <<q, t>> \in S
      BY <2>4, SendsInFlight
    <3>2. CASE net[h][q][t] > 0
      BY <1>5, <3>2 DEF Floor, IsFloor
    <3>3. CASE <<q, t>> \in S
      <4>1. <<q, t>>[2] >= f
        BY <3>3 DEF Sends
      <4>2. t \in Nat /\ t >= f
        BY <4>1, EventTimes
      <4>3. QED
        BY <2>1, <2>2, <4>2
    <3>4. QED
      BY <3>1, <3>2, <3>3
  <2>5. QED
    BY <2>3, <2>4 DEF Floor, IsFloor
<1>6. ASSUME NEW g \in Time, Bounded(g) PROVE Bounded(g)'
  <2>1. Floor(g, low, net) /\ Floor(g, low', net')
    BY <1>5, <1>6 DEF Bounded
  <2>2. ASSUME NEW q \in PE, InRound(q)' PROVE g <= manager'[q].min_sent
    <3>1. results' = results /\ (Ending(q)' <=> Ending(q))
      BY SendsPlaces
    <3>2. InRound(q) => g <= manager[q].min_sent
      BY <1>6 DEF Bounded
    <3>3. CASE q = p
      <4>1. g <= f /\ g <= EndTime
        BY <2>1, EndTimeAssumption DEF Consumed, Time
      <4>2. manager'[p].active
        BY <2>2, <3>3 DEF InRound
      <4>3. CASE manager'[p].min_sent = EndTime
        BY <3>3, <4>1, <4>3
      <4>4. CASE manager'[p].min_sent # EndTime
        <5>1. /\ manager'[p].active = manager[p].active
              /\ \A g2 \in Time : g2 <= manager[p].min_sent /\ g2 <= f => g2 <= manager'[p].min_sent
          BY <4>4, SendsStages
        <5>2. InRound(p)
          BY <2>2, <3>1, <3>3, <5>1 DEF InRound
        <5>3. QED
          BY <3>2, <3>3, <4>1, <5>1, <5>2
      <4>5. QED
        BY <4>3, <4>4
    <3>4. CASE q # p
      <4>1. manager'[q] = manager[q]
        BY <1>0, <3>4
      <4>2. QED
        BY <2>2, <3>1, <3>2, <4>1 DEF InRound
    <3>5. QED
      BY <3>3, <3>4
  <2>3. ASSUME NEW q \in PE, Settled(q)' PROVE g <= contributions'[q][1].t
    <3>1. Settled(q) /\ contributions'[q] = contributions[q]
      BY <2>3, SendsPlaces
    <3>2. QED
      BY <1>6, <3>1 DEF Bounded
  <2>4. QED
    BY <2>1, <2>2, <2>3 DEF Bounded
<1>7. ASSUME NEW q \in PE
      PROVE  /\ \A g \in Time : Given(q, g)' => Bounded(g)'
             /\ Ending(q)' => sched'[q].g_last_gvt <= results'[q][1].t
  <2>1. results' = results /\ (Ending(q)' <=> Ending(q))
    BY SendsPlaces
  <2>2. \A g \in Time : Given(q, g)' => Given(q, g)
    BY <2>1 DEF Given
  <2>3. QED
    BY <1>6, <2>1, <2>2 DEF IInv, Floors
<1>8. QED
  BY <1>4, <1>5, <1>7 DEF Floors
-----------------------------------------------------------------------------
(***************************************************************************)
(* Each action keeps the invariant.                                        *)
(***************************************************************************)

\* A step that only changes p's scheduler and does what Sends says.
LEMMA SendsKeep ==
  ASSUME IInv, NEW p \in PE, NEW f, NEW m, NEW n, NEW S, Consumed(p, f, m, n), Sends(p, f, m, n, S),
         \A q \in PE : q # p => sched'[q] = sched[q],
         sched' \in [PE -> Scheduler], sched'[p].g_last_gvt = sched[p].g_last_gvt,
         Stopped(p)'
  PROVE  IInv'
<1>0. /\ manager' \in [PE -> Manager]
      /\ \A q \in PE : q # p => manager'[q] = manager[q] /\ contributions'[q] = contributions[q]
  BY SendsStages
<1>3. \A q \in PE : sched'[q].g_last_gvt = sched[q].g_last_gvt
  OBVIOUS
<1>1. TypeOK'
  <2>1. manager' \in [PE -> Manager] /\ contributions' \in [PE -> Seq(Reduced)]
    BY SendsStages
  <2>2. net' \in [Phase -> Flights]
    BY SendsInFlight
  <2>3. low' \in [PE -> Time]
    BY <1>3, SendsFloors
  <2>4. results' \in [PE -> Seq(Reduced)]
    BY DEF IInv, TypeOK, Sends
  <2>5. QED
    BY <2>1, <2>2, <2>3, <2>4 DEF TypeOK
<1>2. ASSUME NEW q \in PE, q # p PROVE Stopped(q)'
  <2>1. manager'[q] = manager[q] /\ sched'[q] = sched[q]
    BY <1>0, <1>2
  <2>2. Stopped(q)
    BY DEF IInv
  <2>3. QED
    BY <1>2, <2>1, <2>2 DEF Stopped
<1>4. \A q \in PE : Staged(q)' /\ Contributed(q)'
  BY SendsPlaces
<1>5. (\A q, r \in PE : Together(q, r)') /\ Delivered'
  BY SendsTogether
<1>6. Accounted' /\ Tracked'
  BY SendsAccounted, SendsTracked
<1>7. Floors'
  BY <1>3, SendsFloors
<1>8. QED
  BY <1>1, <1>2, <1>4, <1>5, <1>6, <1>7 DEF IInv

\* What iteration_done() makes of the scheduler, for each PE that executes.
LEMMA ExecuteSched ==
  ASSUME IInv, ~LBContinuous, NEW p \in PE, sched[p].execs > 0,
         NEW m \in Manager, m.active = manager[p].active, m.lb_cnt = manager[p].lb_cnt,
         iteration_done(p, m)
  PROVE  /\ sched' \in [PE -> Scheduler] /\ \A q \in PE : q # p => sched'[q] = sched[q]
         /\ sched'[p].g_last_gvt = sched[p].g_last_gvt
         /\ Stopped(p)'
         /\ \/ manager' = [manager EXCEPT ![p] = m] /\ contributions' = contributions
            \/ /\ ~m.active
               /\ manager' = [manager EXCEPT ![p] = enter_round(m)]
               /\ contributions' = [contributions EXCEPT
                    ![p] = Append(contributions[p], ActiveCounts(enter_round(m)))]
<1> DEFINE s == iteration_counted(sched[p])
           b == gvt_begin(m)
           r == gvt_trigger_reset(s)
<1>1. /\ sched \in [PE -> Scheduler] /\ manager \in [PE -> Manager] /\ Stopped(p)
  BY DEF IInv, TypeOK
<1>2. sched[p].running /\ sched[p].execs = 1
  BY <1>1 DEF Stopped
<1>3. /\ ~gvt_trigger_ready(s) => s \in Scheduler
      /\ r \in Scheduler
      /\ ~s.running /\ s.execs = 0 /\ s.mode = sched[p].mode /\ s.g_last_gvt = sched[p].g_last_gvt
      /\ ~r.running /\ r.execs = 0 /\ r.mode = sched[p].mode /\ r.g_last_gvt = sched[p].g_last_gvt
  BY <1>1, <1>2, IterationDone
<1>4. /\ sched[p].mode \notin {"lb", "lbdone"}
      /\ m.active => ~lb_trigger_ready(m.lb_cnt)
  BY <1>1, <1>2 DEF Stopped
<1>5. CASE ~gvt_trigger_ready(s)
  <2>1. /\ manager' = [manager EXCEPT ![p] = m] /\ contributions' = contributions
        /\ sched' = [sched EXCEPT ![p] = next_iteration(s)]
    BY <1>5 DEF iteration_done
  <2> HIDE DEF s
  <2>2. /\ next_iteration(s) \in Scheduler /\ next_iteration(s).running
        /\ next_iteration(s).execs = 1 /\ next_iteration(s).mode = sched[p].mode
        /\ next_iteration(s).g_last_gvt = sched[p].g_last_gvt
    BY <1>3, <1>5, NextIteration
  <2>3. manager'[p] = m /\ sched'[p] = next_iteration(s)
    BY <1>1, <2>1
  <2>4. Stopped(p)'
    BY <1>4, <2>2, <2>3 DEF Stopped
  <2>5. QED
    BY <1>1, <2>1, <2>2, <2>3, <2>4
<1>6. CASE gvt_trigger_ready(s)
  <2>1. /\ manager' = [manager EXCEPT ![p] = b]
        /\ IF m.active THEN UNCHANGED contributions ELSE contribute(p, ActiveCounts(b))
        /\ sched' = [sched EXCEPT ![p] = IF Resumes(b) THEN gvt_resume(r) ELSE r]
    BY <1>6 DEF iteration_done
  <2>2. b = IF m.active THEN m ELSE enter_round(m)
    BY DEF gvt_begin
  <2> HIDE DEF s, r, b
  <2>3. /\ sched'[p] = IF Resumes(b) THEN gvt_resume(r) ELSE r
        /\ manager'[p] = b /\ \A q \in PE : q # p => sched'[q] = sched[q]
    BY <1>1, <2>1
  <2>4. /\ gvt_resume(r) \in Scheduler
        /\ gvt_resume(r).execs = (IF gvt_resume(r).running THEN 1 ELSE 0)
        /\ gvt_resume(r).mode = sched[p].mode /\ gvt_resume(r).g_last_gvt = sched[p].g_last_gvt
    BY <1>3, NextIteration DEF gvt_resume
  <2>5. Resumes(b) <=> ~lb_trigger_ready(b.lb_cnt)
    BY DEF Resumes
  <2>6. Stopped(p)'
    BY <1>3, <1>4, <2>3, <2>4, <2>5 DEF Stopped
  <2>7. sched' \in [PE -> Scheduler] /\ sched'[p].g_last_gvt = sched[p].g_last_gvt
    BY <1>1, <1>3, <2>1, <2>3, <2>4
  <2>8. \/ manager' = [manager EXCEPT ![p] = m] /\ contributions' = contributions
        \/ /\ ~m.active
           /\ manager' = [manager EXCEPT ![p] = enter_round(m)]
           /\ contributions' = [contributions EXCEPT
                ![p] = Append(contributions[p], ActiveCounts(enter_round(m)))]
    BY <2>1, <2>2 DEF contribute
  <2>9. QED
    BY <2>3, <2>6, <2>7, <2>8
<1>7. QED
  BY <1>5, <1>6

\* execute(), with the gvt_begin() at its end.
LEMMA ExecuteIInv ==
  ASSUME IInv, ~LBContinuous, NEW p \in PE, execute(p)
  PROVE  IInv'
<1>1. PICK S \in Emissions(manager[p], low[p]) :
        works(p, S) /\ iteration_done(p, produce(manager[p], S))
  BY DEF execute
<1>2. low[p] \in Time /\ manager[p] \in Manager /\ sched[p].execs > 0 /\ results' = results
  BY DEF IInv, TypeOK, execute
<1>3. /\ S \in SUBSET (PE \X EventTime) /\ \A s \in S : s[2] >= low[p]
      /\ IsFiniteSet(S) /\ Cardinality(S) \in Nat
  BY <1>2, EmissionsFrom DEF Emissions
<1> DEFINE M == produce(manager[p], S)
<1>4. M \in Manager /\ M.active = manager[p].active /\ M.lb_cnt = manager[p].lb_cnt
  BY <1>2, <1>3, Produced
<1> HIDE DEF M
<1>5. /\ sched' \in [PE -> Scheduler] /\ \A q \in PE : q # p => sched'[q] = sched[q]
      /\ sched'[p].g_last_gvt = sched[p].g_last_gvt
      /\ Stopped(p)'
      /\ \/ manager' = [manager EXCEPT ![p] = M] /\ contributions' = contributions
         \/ /\ ~M.active
            /\ manager' = [manager EXCEPT ![p] = enter_round(M)]
            /\ contributions' = [contributions EXCEPT
                 ![p] = Append(contributions[p], ActiveCounts(enter_round(M)))]
  <2>1. iteration_done(p, M)
    BY <1>1 DEF M
  <2>2. QED
    BY <1>2, <1>4, <2>1, ExecuteSched
<1>6. Sends(p, low[p], manager[p], net, S)
  <2>1. /\ \E x \in low[p]..EndTime : low' = [low EXCEPT ![p] = x]
        /\ net' = [net EXCEPT ![manager[p].producing_phase] = Put(net[manager[p].producing_phase], S)]
    BY <1>1 DEF works
  <2>2. QED
    BY <1>2, <1>3, <1>5, <2>1 DEF Sends, M
<1>7. QED
  BY <1>5, <1>6, NothingConsumed, SendsKeep

\* The arrival of an event, with the gvt_begin() it may bring about.
LEMMA ReceiveIInv ==
  ASSUME IInv, NEW p \in PE, NEW h \in Phase, NEW t \in EventTime, receive(p, h, t)
  PROVE  IInv'
<1> DEFINE f == Earlier(low[p], t)
           m == consume(manager[p], h)
           n == [net EXCEPT ![h] = Take(net[h], p, t)]
<1>1. /\ net[h][p][t] > 0
      /\ \E x \in f..EndTime : low' = [low EXCEPT ![p] = x]
      /\ UNCHANGED <<sched, contributions, results>>
  BY DEF receive
<1>2. PICK S \in Emissions(m, t) :
           /\ net' = [n EXCEPT ![m.producing_phase] = Put(n[m.producing_phase], S)]
           /\ manager' = [manager EXCEPT ![p] = produce(m, S)]
  BY DEF receive
<1>3. Consumed(p, f, m, n)
  BY <1>1, MessageConsumed
<1>4. low[p] \in Time /\ t \in Time
  BY EventTimes DEF IInv, TypeOK
<1> HIDE DEF m, n
<1>5. /\ S \in SUBSET (PE \X EventTime) /\ \A s \in S : s[2] >= t
      /\ IsFiniteSet(S) /\ Cardinality(S) \in Nat
  BY <1>4, EmissionsFrom DEF Emissions
<1>6. \A s \in S : s[2] >= f
  <2> SUFFICES ASSUME NEW s \in S PROVE s[2] >= f
    OBVIOUS
  <2>1. s[2] >= t /\ s[2] \in Nat /\ t \in Nat /\ low[p] \in Nat
    BY <1>4, <1>5, EventTimes
  <2>2. QED
    BY <2>1 DEF Earlier
<1> HIDE DEF f
<1>7. Sends(p, f, m, n, S)
  BY <1>1, <1>2, <1>5, <1>6 DEF Sends
<1>8. Stopped(p)'
  <2>1. m \in Manager /\ m.active = manager[p].active /\ m.lb_cnt = manager[p].lb_cnt
    BY <1>3 DEF Consumed
  <2>2. /\ produce(m, S).active = m.active /\ produce(m, S).lb_cnt = m.lb_cnt
    BY <1>5, <2>1, Produced
  <2>3. manager'[p] = produce(m, S)
    BY <1>2 DEF IInv, TypeOK
  <2>4. sched' = sched /\ Stopped(p)
    BY <1>1 DEF IInv
  <2>5. QED
    BY <2>1, <2>2, <2>3, <2>4 DEF Stopped
<1>9. sched' = sched /\ sched' \in [PE -> Scheduler]
  BY <1>1 DEF IInv, TypeOK
<1>10. QED
  BY <1>3, <1>7, <1>8, <1>9, SendsKeep

\* A PE that resumes is in no round; what it cancels is of the phase that is
\* not being counted yet, or that no PE has left.
LEMMA ResumeIInv ==
  ASSUME IInv, NEW p \in PE, resume_balanced(p)
  PROVE  IInv'
<1>1. /\ sched[p].mode = "lbdone" /\ UNCHANGED <<contributions, results>>
      /\ sched' = [sched EXCEPT ![p] = balancing_complete(sched[p])]
  BY DEF resume_balanced
<1>2. sched \in [PE -> Scheduler] /\ Stopped(p) /\ low[p] \in Time /\ manager[p] \in Manager /\ TypeOK
  BY DEF IInv, TypeOK
<1>3. /\ sched'[p] \in Scheduler /\ sched'[p].running /\ sched'[p].execs = 1
      /\ sched'[p].mode = "sim" /\ sched'[p].g_last_gvt = sched[p].g_last_gvt
  <2>1. sched'[p] = balancing_complete(sched[p])
    BY <1>1, <1>2
  <2>2. sched[p] \in Scheduler /\ sched[p].execs = IF sched[p].running THEN 1 ELSE 0
    BY <1>2 DEF Stopped
  <2>3. QED
    BY <2>1, <2>2, BalancingComplete
<1>4. sched' \in [PE -> Scheduler] /\ \A q \in PE : q # p => sched'[q] = sched[q]
  BY <1>1, <1>2, <1>3
<1>5. ~manager[p].active
  BY <1>1, <1>2 DEF Stopped
<1>6. CASE Optimistic
  <2>1. PICK S \in Emissions(manager[p], low[p]) :
          works(p, S) /\ manager' = [manager EXCEPT ![p] = produce(manager[p], S)]
    BY <1>6 DEF resume_balanced
  <2>2. /\ S \in SUBSET (PE \X EventTime) /\ \A s \in S : s[2] >= low[p]
        /\ IsFiniteSet(S) /\ Cardinality(S) \in Nat
    BY <1>2, EmissionsFrom DEF Emissions
  <2>3. produce(manager[p], S).active = manager[p].active
    BY <1>2, <2>2, Produced
  <2>4. manager'[p] = produce(manager[p], S)
    BY <1>2, <2>1 DEF TypeOK
  <2>5. Stopped(p)'
    BY <1>3, <1>5, <2>3, <2>4 DEF Stopped
  <2>6. Sends(p, low[p], manager[p], net, S)
    BY <1>1, <1>2, <2>1, <2>2 DEF Sends, works
  <2>7. QED
    BY <1>3, <1>4, <2>5, <2>6, NothingConsumed, SendsKeep
<1>7. CASE ~Optimistic
  <2>1. UNCHANGED <<manager, low, net, contributions, results>>
    BY <1>1, <1>7 DEF resume_balanced
  <2>2. TypeOK'
    BY <1>2, <1>4, <2>1 DEF TypeOK
  <2>3. ASSUME NEW q \in PE PROVE Staged(q)' /\ Contributed(q)' /\ Stopped(q)'
    <3>1. Staged(q) /\ Contributed(q) /\ Stopped(q)
      BY DEF IInv
    <3>2. Staged(q)' /\ Contributed(q)'
      BY <2>1, <3>1 DEF Staged, Contributed, Counting
    <3>3. CASE q = p
      BY <1>3, <1>5, <2>1, <3>2, <3>3 DEF Stopped
    <3>4. CASE q # p
      BY <1>4, <2>1, <3>1, <3>2, <3>4 DEF Stopped
    <3>5. QED
      BY <3>2, <3>3, <3>4
  <2>4. \A q, r \in PE : Together(q, r)'
    BY <2>1 DEF IInv, Together, Detected, InRound, Settled, Checking, Counting, Ending
  <2>5. Delivered' /\ Accounted' /\ Tracked'
    BY <2>1 DEF IInv, Delivered, Known, Accounted, SentLive, ReceivedLive, Stale, Total, Tracked, Covered, Cover,
                Detected, InRound, Settled, Checking, Ending
  <2>6. \A q \in PE : sched'[q].g_last_gvt = sched[q].g_last_gvt
    BY <1>3, <1>4
  <2>7. Floors'
    <3>1. \A q \in PE, g \in Time : Given(q, g)' => Given(q, g)
      BY <2>1, <2>6 DEF Given, Ending
    <3>2. \A g \in Time : Bounded(g) => Bounded(g)'
      BY <2>1 DEF Bounded, InRound, Settled, Ending
    <3>3. \A q \in PE : Ending(q)' => sched'[q].g_last_gvt <= results'[q][1].t
      BY <2>1, <2>6 DEF IInv, Floors, Ending
    <3>4. QED
      BY <3>1, <3>2, <3>3 DEF IInv, Floors
  <2>8. QED
    BY <2>2, <2>3, <2>4, <2>5, <2>7 DEF IInv
<1>8. QED
  BY <1>6, <1>7

\* A reduction is of counts or of minima, and leaves every PE one result.
LEMMA ReduceShape ==
  ASSUME IInv, reduce
  PROVE  /\ UNCHANGED <<sched, manager, low, net>>
         /\ \A p \in PE : /\ manager[p].active /\ contributions[p] # << >> /\ results[p] = << >>
                          /\ contributions'[p] = << >>
         /\ contributions' \in [PE -> Seq(Reduced)]
         /\ \E x \in Reduced :
              /\ results' = [p \in PE |-> <<x>>]
              /\ \/ /\ \A p \in PE : Counting(p)
                    /\ x.of = "counts"
                    /\ x.s = Total([p \in PE |-> contributions[p][1].s])
                    /\ x.r = Total([p \in PE |-> contributions[p][1].r])
                 \/ /\ \A p \in PE : Settled(p)
                    /\ x.of = "min"
                    /\ \A p \in PE : x.t <= contributions[p][1].t
                    /\ \E p \in PE : x.t = contributions[p][1].t
<1> DEFINE heads == {Head(contributions[p]) : p \in PE}
           counts == Counts(Total([p \in PE |-> Head(contributions[p]).s]),
                            Total([p \in PE |-> Head(contributions[p]).r]))
           minimum == Minimum(Min({c.t : c \in heads}))
           x == IF \A c \in heads : c.of = "counts" THEN counts ELSE minimum
<1>1. /\ TypeOK /\ (\A p \in PE : Staged(p)) /\ (\A p, q \in PE : Together(p, q))
      /\ results \in [PE -> Seq(Reduced)]
  BY DEF IInv, TypeOK
<1>2. /\ \A p \in PE : contributions[p] # << >>
      /\ results' = [p \in PE |-> Append(results[p], x)]
      /\ contributions' = [p \in PE |-> Tail(contributions[p])]
      /\ UNCHANGED <<sched, manager, low, net>>
  BY DEF reduce
<1>3. \A p \in PE : /\ Head(contributions[p]) = contributions[p][1] /\ Tail(contributions[p]) = << >>
                    /\ results[p] = << >> /\ manager[p].active
                    /\ contributions[p][1] \in Reduced
                    /\ Counting(p) \/ Settled(p)
                    /\ Counting(p) => contributions[p][1].s \in Nat /\ contributions[p][1].r \in Nat
                    /\ Settled(p) => contributions[p][1].t \in Time
  BY <1>1, <1>2, Stages
<1>4. /\ \A p \in PE : contributions'[p] = << >>
      /\ contributions' \in [PE -> Seq(Reduced)]
  <2>1. << >> \in Seq(Reduced)
    OBVIOUS
  <2>2. contributions' = [p \in PE |-> << >>]
    BY <1>2, <1>3
  <2>3. QED
    BY <2>1, <2>2
<1>5. results' = [p \in PE |-> <<x>>]
  <2> HIDE DEF x
  <2>1. Append(<< >>, x) = <<x>>
    OBVIOUS
  <2>2. QED
    BY <1>2, <1>3, <2>1
<1>6. heads = {contributions[p][1] : p \in PE}
  BY <1>3
<1>7. (\A p \in PE : Counting(p)) \/ (\A p \in PE : Settled(p))
  <2> SUFFICES ASSUME NEW p \in PE, ~Counting(p), NEW q \in PE PROVE Settled(q)
    OBVIOUS
  <2>1. Settled(p)
    BY <1>3
  <2>2. Settled(q) \/ Checking(q)
    BY <1>1, <2>1 DEF Together
  <2>3. ~Checking(q)
    BY <1>3 DEF Checking
  <2>4. QED
    BY <2>2, <2>3
<1> DEFINE Result(y) ==
      /\ y \in Reduced
      /\ \/ /\ \A p \in PE : Counting(p)
            /\ y.of = "counts"
            /\ y.s = Total([p \in PE |-> contributions[p][1].s])
            /\ y.r = Total([p \in PE |-> contributions[p][1].r])
         \/ /\ \A p \in PE : Settled(p)
            /\ y.of = "min"
            /\ \A p \in PE : y.t <= contributions[p][1].t
            /\ \E p \in PE : y.t = contributions[p][1].t
<1>8. ASSUME \A p \in PE : Counting(p) PROVE Result(x)
  <2> DEFINE s == [p \in PE |-> contributions[p][1].s]
             r == [p \in PE |-> contributions[p][1].r]
  <2>1. x = counts
    BY <1>6, <1>8 DEF Counting
  <2>2. counts = [of |-> "counts", s |-> Total(s), r |-> Total(r)]
    BY <1>3 DEF Counts
  <2>3. s \in [PE -> Nat] /\ r \in [PE -> Nat]
    BY <1>3, <1>8
  <2>4. Total(s) \in Nat /\ Total(r) \in Nat
    <3> HIDE DEF s, r
    <3>1. QED
      BY <2>3, TotalIs
  <2> HIDE DEF s, r, x, counts
  <2>5. x \in Reduced /\ x.of = "counts" /\ x.s = Total(s) /\ x.r = Total(r)
    BY <2>1, <2>2, <2>4 DEF Reduced
  <2>6. QED
    BY <1>8, <2>5 DEF s, r
<1>9. ASSUME \A p \in PE : Settled(p) PROVE Result(x)
  <2> DEFINE T == {c.t : c \in heads}
  <2>1. x = minimum
    BY <1>6, <1>9, RootAssumption DEF Settled
  <2>2. minimum = [of |-> "min", t |-> Min(T)]
    BY DEF Minimum
  <2>3. T = {contributions[p][1].t : p \in PE}
    BY <1>6
  <2> HIDE DEF T, x, minimum
  <2>4. T \in SUBSET Time /\ T # {}
    BY <1>3, <1>9, <2>3, RootAssumption
  <2>5. Min(T) \in T /\ \A t \in T : Min(T) <= t
    BY <2>4, EventTimes, MinIsLeast
  <2>6. x \in Reduced /\ x.of = "min" /\ x.t = Min(T)
    BY <2>1, <2>2, <2>4, <2>5 DEF Reduced
  <2>7. (\A p \in PE : x.t <= contributions[p][1].t) /\ \E p \in PE : x.t = contributions[p][1].t
    BY <2>3, <2>5, <2>6
  <2>8. QED
    BY <1>9, <2>6, <2>7
<1> HIDE DEF x
<1>10. Result(x)
  BY <1>7, <1>8, <1>9
<1>11. QED
  BY <1>2, <1>3, <1>4, <1>5, <1>10

\* A PE in a round is of the phase that is counted on PE 0.
LEMMA OnePhase ==
  ASSUME IInv, NEW p \in PE, InRound(p)
  PROVE  /\ manager[p].active_phase \in Phase /\ manager[p].active_phase = Detected(Root)
         /\ manager[p].producing_phase = NextPhase(Detected(Root))
<1>1. Detected(p) = Detected(Root) /\ Staged(p) /\ manager[p].active
  BY RootAssumption DEF IInv, Together, InRound
<1>2. QED
  BY <1>1 DEF Detected, Staged, InRound

\* Equal sums: all that the PEs have sent in the phase they left has been
\* received, even if some of it only since they were asked.
LEMMA EqualCounts ==
  ASSUME IInv, \A p \in PE : Counting(p),
         Total([p \in PE |-> contributions[p][1].s]) = Total([p \in PE |-> contributions[p][1].r])
  PROVE  \A p \in PE : NothingInFlight(net[manager[p].active_phase])
<1> DEFINE h == Detected(Root)
           s == [p \in PE |-> contributions[p][1].s]
           r == [p \in PE |-> contributions[p][1].r]
<1>1. /\ TypeOK /\ (\A p \in PE : Staged(p) /\ Contributed(p)) /\ Accounted
      /\ net \in [Phase -> Flights]
  BY DEF IInv, TypeOK
<1>2. \A p \in PE : InRound(p) /\ ~Ending(p)
                    /\ contributions[p][1].s \in Nat /\ contributions[p][1].r \in Nat
  BY <1>1, Stages DEF InRound
<1>3. h \in Phase /\ \A p \in PE : manager[p].active_phase = h
  BY <1>2, OnePhase, RootAssumption
<1> HIDE DEF h
<1>4. s \in [PE -> Nat] /\ r \in [PE -> Nat]
  BY <1>2
<1>5. SentLive(h) \in [PE -> Nat] /\ ReceivedLive(h) \in [PE -> Nat]
  BY <1>1, <1>3, LiveIs
<1>6. \A p \in PE : SentLive(h)[p] = s[p] /\ r[p] <= ReceivedLive(h)[p]
  BY <1>1, <1>2, <1>3 DEF SentLive, ReceivedLive, Stale, Contributed
<1>7. SentLive(h) = s
  <2> HIDE DEF s, r
  <2>1. QED
    BY <1>4, <1>5, <1>6
<1>8. Total(s) = Total(r)
  OBVIOUS
<1> HIDE DEF s, r
<1>9. Total(r) <= Total(ReceivedLive(h))
  BY <1>4, <1>5, <1>6, TotalMonotone
<1>10. /\ Total(r) \in Nat /\ Total(ReceivedLive(h)) \in Nat /\ Flying(net[h]) \in Nat
       /\ Total(SentLive(h)) >= Total(ReceivedLive(h)) + Flying(net[h])
  BY <1>1, <1>3, <1>4, <1>5, TotalIs, FlyingNone DEF Accounted
<1>11. Flying(net[h]) = 0
  BY <1>7, <1>8, <1>9, <1>10
<1>12. QED
  BY <1>1, <1>3, <1>11, FlyingNone

\* The completion of a reduction, of counts or of minima: all PEs get the sums,
\* or the least of the minima, which is a floor.
LEMMA ReduceIInv ==
  ASSUME IInv, reduce
  PROVE  IInv'
<1>1. /\ UNCHANGED <<sched, manager, low, net>>
      /\ \A p \in PE : /\ manager[p].active /\ contributions[p] # << >> /\ results[p] = << >>
                       /\ contributions'[p] = << >>
      /\ contributions' \in [PE -> Seq(Reduced)]
  BY ReduceShape
<1>2. PICK x \in Reduced :
        /\ results' = [p \in PE |-> <<x>>]
        /\ \/ /\ \A p \in PE : Counting(p)
              /\ x.of = "counts"
              /\ x.s = Total([p \in PE |-> contributions[p][1].s])
              /\ x.r = Total([p \in PE |-> contributions[p][1].r])
           \/ /\ \A p \in PE : Settled(p)
              /\ x.of = "min"
              /\ \A p \in PE : x.t <= contributions[p][1].t
              /\ \E p \in PE : x.t = contributions[p][1].t
  BY ReduceShape
<1>3. /\ TypeOK /\ \A p \in PE : Staged(p) /\ Contributed(p) /\ Stopped(p)
  BY DEF IInv
<1>4. /\ results' \in [PE -> Seq(Reduced)]
      /\ \A p \in PE : results'[p] = <<x>> /\ results'[p][1] = x /\ results'[p] # << >> /\ Len(results'[p]) = 1
  BY <1>2
<1>5. TypeOK'
  BY <1>1, <1>3, <1>4 DEF TypeOK
<1>6. \A p \in PE : Staged(p)' /\ Contributed(p)' /\ Stopped(p)'
  <2> SUFFICES ASSUME NEW p \in PE PROVE Staged(p)' /\ Contributed(p)' /\ Stopped(p)'
    OBVIOUS
  <2>1. Len(contributions'[p]) = 0 /\ Len(results'[p]) = 1 /\ ~Counting(p)'
    BY <1>1, <1>4 DEF Counting
  <2>2. manager[p].active /\ Staged(p) /\ Stopped(p)
    BY <1>1, <1>3
  <2>3. Staged(p)'
    BY <1>1, <2>1, <2>2 DEF Staged
  <2>4. Stopped(p)'
    BY <1>1, <2>2 DEF Stopped
  <2>5. QED
    BY <2>1, <2>3, <2>4 DEF Contributed
<1>7. \A p \in PE : ~Ending(p) /\ InRound(p) /\ ~Counting(p)' /\ ~Settled(p)'
  BY <1>1 DEF Ending, InRound, Counting, Settled
<1>8. \A p \in PE : /\ manager[p].active_phase \in Phase /\ manager[p].active_phase = Detected(Root)
                    /\ manager[p].producing_phase = NextPhase(Detected(Root))
  BY <1>7, OnePhase
<1>9. CASE /\ \A p \in PE : Counting(p)
           /\ x.of = "counts"
           /\ x.s = Total([p \in PE |-> contributions[p][1].s])
           /\ x.r = Total([p \in PE |-> contributions[p][1].r])
  <2>1. \A p \in PE : /\ Checking(p)' /\ ~Ending(p)' /\ InRound(p)' /\ ~Settled(p)
                      /\ Detected(p)' = Detected(Root) /\ Cover(p)' = Cover(p)
    <3>1. \A p \in PE : Checking(p)' /\ ~Ending(p)' /\ InRound(p)' /\ ~Settled(p)
      BY <1>1, <1>4, <1>9 DEF Checking, Ending, InRound, Counting, Settled
    <3>2. QED
      BY <1>1, <1>7, <1>8, <3>1 DEF Detected, Cover
  <2>2. \A p, q \in PE : Together(p, q)'
    BY <1>4, <1>7, <2>1 DEF Together
  <2>3. Delivered'
    <3> SUFFICES ASSUME NEW p \in PE, Known(p)'
                 PROVE  NothingInFlight(net[manager[p].active_phase])
      BY <1>1 DEF Delivered
    <3>1. x.s = x.r
      BY <1>4, <1>7, <3>1 DEF Known, Agree
    <3>2. QED
      BY <1>9, <3>1, EqualCounts
  <2>4. Accounted'
    <3>1. \A h \in Phase : SentLive(h)' = SentLive(h) /\ ReceivedLive(h)' = ReceivedLive(h)
      BY <1>1, <1>7, <2>1 DEF SentLive, ReceivedLive, Stale
    <3>2. QED
      BY <1>1, <3>1 DEF IInv, Accounted, Total
  <2>5. Tracked'
    <3>1. \A t \in EventTime : Covered(t) => Covered(t)'
      BY <2>1 DEF Covered
    <3>2. Detected(Root)' = Detected(Root)
      BY <2>1, RootAssumption
    <3>3. QED
      BY <1>1, <1>7, <3>1, <3>2 DEF IInv, Tracked
  <2>6. Floors'
    <3>1. \A p \in PE, g \in Time : Given(p, g)' => Given(p, g)
      BY <1>1, <2>1 DEF Given
    <3>2. \A g \in Time : Bounded(g) => Bounded(g)'
      BY <1>1, <1>7 DEF Bounded
    <3>3. QED
      BY <2>1, <3>1, <3>2 DEF IInv, Floors
  <2>7. QED
    BY <1>5, <1>6, <2>2, <2>3, <2>4, <2>5, <2>6 DEF IInv
<1>10. CASE /\ \A p \in PE : Settled(p)
            /\ x.of = "min"
            /\ \A p \in PE : x.t <= contributions[p][1].t
            /\ \E p \in PE : x.t = contributions[p][1].t
  <2> DEFINE h == Detected(Root)
             g == x.t
  <2>1. \A p \in PE : /\ Ending(p)' /\ ~Checking(p)' /\ ~InRound(p)'
                      /\ Detected(p)' = NextPhase(h)
    <3>1. \A p \in PE : Ending(p)' /\ ~Checking(p)' /\ ~InRound(p)'
      BY <1>4, <1>10 DEF Checking, Ending, InRound
    <3>2. QED
      BY <1>1, <1>8, <3>1 DEF Detected
  <2>2. \A p, q \in PE : Together(p, q)'
    BY <1>4, <1>7, <2>1 DEF Together
  <2>3. Delivered'
    BY <1>7, <2>1 DEF Delivered, Known
  <2>4. h \in Phase /\ NothingInFlight(net[h]) /\ net[h] \in Flights /\ net \in [Phase -> Flights]
    BY <1>3, <1>8, <1>10, RootAssumption DEF IInv, Delivered, Known, TypeOK
  <2> HIDE DEF h
  <2>5. Accounted'
    <3> SUFFICES ASSUME NEW k \in Phase
                 PROVE  Total(SentLive(k)') >= Total(ReceivedLive(k)') + Flying(net'[k])
      BY DEF Accounted, Total
    <3>1. CASE k = h
      <4> DEFINE zero == [p \in PE |-> 0]
      <4>1. \A p \in PE : Stale(p, k)'
        BY <1>1, <1>8, <2>1, <3>1 DEF Stale, h
      <4>2. SentLive(k)' = zero /\ ReceivedLive(k)' = zero
        BY <4>1 DEF SentLive, ReceivedLive
      <4>3. zero \in [PE -> Nat] /\ \A p \in PE : zero[p] = 0
        OBVIOUS
      <4> HIDE DEF zero
      <4>4. Total(zero) = 0
        BY <4>3, TotalIs
      <4>5. Flying(net[h]) = 0
        BY <2>4, FlyingNone
      <4>6. QED
        BY <1>1, <3>1, <4>2, <4>4, <4>5
    <3>2. CASE k # h
      <4>1. \A p \in PE : ~Stale(p, k)' /\ ~Stale(p, k)
        BY <1>1, <1>8, <3>2 DEF Stale, h
      <4>2. SentLive(k)' = SentLive(k) /\ ReceivedLive(k)' = ReceivedLive(k)
        BY <1>1, <4>1 DEF SentLive, ReceivedLive
      <4>3. QED
        BY <1>1, <4>2 DEF IInv, Accounted
    <3>3. QED
      BY <3>1, <3>2
  <2>6. Tracked'
    <3> SUFFICES ASSUME NEW k \in Phase, NEW q \in PE, NEW t \in EventTime, net[k][q][t] > 0
                 PROVE  k = Detected(Root)'
      BY <1>1, <1>7 DEF Tracked
    <3>1. net[k][q][t] # 0
      OBVIOUS
    <3>2. k # h
      BY <2>4, <3>1 DEF NothingInFlight
    <3>3. QED
      BY <2>1, <2>4, <3>2, Alternate, RootAssumption
  <2>7. \A p \in PE : contributions[p][1].t \in Time /\ Cover(p) = contributions[p][1].t
    BY <1>3, <1>10, Stages DEF Cover
  <2>8. g \in Time /\ \A p \in PE : g <= contributions[p][1].t
    BY <1>10, <2>7
  <2> HIDE DEF g
  <2>9. ASSUME NEW t \in Time, Covered(t) PROVE g <= t
    <3>1. PICK p \in PE : Cover(p) <= t
      BY <2>9 DEF Covered
    <3>2. contributions[p][1].t <= t /\ g <= contributions[p][1].t
      BY <2>7, <2>8, <3>1
    <3>3. contributions[p][1].t \in Nat /\ g \in Nat /\ t \in Nat
      BY <2>7, <2>8, EventTimes
    <3>4. QED
      BY <3>2, <3>3
  <2>10. Floor(g, low, net)
    <3>1. ASSUME NEW p \in PE PROVE g <= low[p]
      <4>1. Covered(low[p]) /\ low[p] \in Time
        BY <1>3, <1>10 DEF IInv, Tracked, TypeOK
      <4>2. QED
        BY <2>9, <4>1
    <3>2. ASSUME NEW k \in Phase, NEW q \in PE, NEW t \in EventTime, net[k][q][t] > 0 PROVE g <= t
      <4>1. net[k][q][t] # 0
        BY <3>2
      <4>2. k # h
        BY <2>4, <4>1 DEF NothingInFlight
      <4>3. Covered(t)
        BY <3>2, <4>2 DEF IInv, Tracked, h
      <4>4. QED
        BY <2>9, <4>3, EventTimes
    <3>3. QED
      BY <3>1, <3>2 DEF Floor, IsFloor
  <2>11. ASSUME NEW u \in Time, Floor(u, low, net) PROVE Bounded(u)'
    BY <1>1, <1>7, <2>1, <2>11 DEF Bounded
  <2>12. \A p \in PE : sched[p].g_last_gvt \in Time
    BY <1>3 DEF TypeOK, Scheduler
  <2>13. ASSUME NEW p \in PE PROVE sched[p].g_last_gvt <= g /\ Floor(sched[p].g_last_gvt, low, net)
    <3>1. PICK q \in PE : g = contributions[q][1].t
      BY <1>10 DEF g
    <3>2. Bounded(sched[p].g_last_gvt)
      BY <2>12 DEF IInv, Floors, Given
    <3>3. QED
      BY <1>10, <3>1, <3>2 DEF Bounded
  <2>14. Floors'
    <3>1. ASSUME NEW p \in PE, NEW u \in Time, Given(p, u)' PROVE Bounded(u)'
      <4>1. u = sched[p].g_last_gvt \/ u = g
        BY <1>1, <1>4, <3>1 DEF Given, g
      <4>2. Floor(u, low, net)
        BY <2>10, <2>13, <4>1
      <4>3. QED
        BY <2>11, <4>2
    <3>2. ASSUME NEW p \in PE PROVE sched'[p].g_last_gvt <= results'[p][1].t
      BY <1>1, <1>4, <2>13 DEF g
    <3>3. QED
      BY <3>1, <3>2 DEF Floors
  <2>15. QED
    BY <1>5, <1>6, <2>2, <2>3, <2>5, <2>6, <2>14 DEF IInv
<1>11. QED
  BY <1>2, <1>9, <1>10

\* A PE that is told unequal sums counts again; told equal ones, it contributes
\* a bound on all it holds and on all it has sent since it began the round.
LEMMA CheckIInv ==
  ASSUME IInv, NEW p \in PE, check_counts(p)
  PROVE  IInv'
<1> DEFINE x == results[p][1]
           c == IF Agree(x) THEN Minimum(MinimumKnown(p)) ELSE ActiveCounts(manager[p])
<1>1. /\ TypeOK /\ (\A q \in PE : Staged(q) /\ Contributed(q) /\ Stopped(q))
      /\ (\A q, r \in PE : Together(q, r)) /\ Delivered /\ Accounted /\ Tracked /\ Floors
  BY DEF IInv
<1>2. /\ results \in [PE -> Seq(Reduced)] /\ contributions \in [PE -> Seq(Reduced)]
      /\ low[p] \in Time /\ manager[p] \in Manager
  BY <1>1 DEF TypeOK
<1>3. Checking(p) /\ Head(results[p]) = x /\ Tail(results[p]) = << >> /\ contributions[p] = << >>
      /\ manager[p].active
  <2>1. results[p] # << >> /\ Head(results[p]).of = "counts"
    BY DEF check_counts, Arrives
  <2>2. QED
    BY <1>1, <2>1, Stages DEF Checking
<1>4. /\ results' = [results EXCEPT ![p] = << >>]
      /\ contributions' = [contributions EXCEPT ![p] = Append(<< >>, c)]
      /\ UNCHANGED <<sched, manager, low, net>>
  BY <1>3 DEF check_counts, contribute, Agree
<1>5. ~Ending(p) /\ ~Settled(p) /\ ~Counting(p) /\ InRound(p)
  BY <1>1, <1>3, Stages DEF InRound
<1>6. manager[p].active_phase \in Phase /\ Detected(p) = manager[p].active_phase
  BY <1>1, <1>3, <1>5 DEF Staged, Detected
<1>7. MinimumKnown(p) \in Time /\ MinimumKnown(p) <= low[p] /\ MinimumKnown(p) <= manager[p].min_sent
      /\ \A g \in Time : g <= low[p] /\ g <= manager[p].min_sent => g <= MinimumKnown(p)
  <2>1. low[p] \in Nat /\ manager[p].min_sent \in Time /\ manager[p].min_sent \in Nat
    BY <1>2, EventTimes DEF Manager
  <2>2. QED
    BY <1>2, <2>1 DEF MinimumKnown, Earlier
<1>8. /\ c \in Reduced
      /\ Agree(x) => c.of = "min" /\ c.t = MinimumKnown(p)
      /\ ~Agree(x) => /\ c.of = "counts" /\ c.s = manager[p].sent[manager[p].active_phase]
                      /\ c.r = manager[p].received[manager[p].active_phase]
  <2>1. CASE Agree(x)
    <3>1. c = [of |-> "min", t |-> MinimumKnown(p)]
      BY <2>1 DEF Minimum
    <3> HIDE DEF c
    <3>2. QED
      BY <1>7, <2>1, <3>1 DEF Reduced
  <2>2. CASE ~Agree(x)
    <3> DEFINE s == manager[p].sent[manager[p].active_phase]
               r == manager[p].received[manager[p].active_phase]
    <3>1. c = [of |-> "counts", s |-> s, r |-> r]
      BY <2>2 DEF ActiveCounts, Counts
    <3>2. s \in Nat /\ r \in Nat
      BY <1>2, <1>6 DEF Manager
    <3> HIDE DEF c
    <3>3. c \in Reduced
      BY <3>1, <3>2 DEF Reduced
    <3>4. QED
      BY <2>2, <3>1, <3>3
  <2>3. QED
    BY <2>1, <2>2
<1> HIDE DEF c, x
<1>9. /\ results' \in [PE -> Seq(Reduced)] /\ results'[p] = << >>
      /\ contributions' \in [PE -> Seq(Reduced)] /\ contributions'[p] = <<c>>
      /\ contributions'[p] # << >> /\ contributions'[p][1] = c
      /\ Len(contributions'[p]) = 1 /\ Len(results'[p]) = 0
      /\ \A q \in PE : q # p => results'[q] = results[q] /\ contributions'[q] = contributions[q]
  <2>1. <<c>> \in Seq(Reduced) /\ << >> \in Seq(Reduced) /\ Append(<< >>, c) = <<c>>
    BY <1>8
  <2>2. QED
    BY <1>2, <1>4, <2>1
<1>10. TypeOK'
  BY <1>1, <1>4, <1>9 DEF TypeOK
<1>11. /\ ~Checking(p)' /\ ~Ending(p)' /\ InRound(p)'
       /\ Settled(p)' <=> Agree(x)
       /\ Counting(p)' <=> ~Agree(x)
  BY <1>3, <1>4, <1>8, <1>9 DEF Checking, Ending, Settled, Counting, InRound
<1>12. ASSUME NEW q \in PE, q # p
       PROVE  /\ Settled(q)' <=> Settled(q)
              /\ Checking(q)' <=> Checking(q)
              /\ Counting(q)' <=> Counting(q)
              /\ Ending(q)' <=> Ending(q)
              /\ InRound(q)' <=> InRound(q)
              /\ Cover(q)' = Cover(q)
              /\ results'[q] = results[q] /\ contributions'[q] = contributions[q]
  BY <1>4, <1>9, <1>12 DEF Settled, Checking, Counting, Ending, InRound, Cover
<1>13. \A q \in PE : /\ Ending(q)' <=> Ending(q)
                     /\ InRound(q)' <=> InRound(q)
                     /\ Detected(q)' = Detected(q)
  BY <1>4, <1>5, <1>11, <1>12 DEF Detected
<1>14. ASSUME NEW q \in PE PROVE Staged(q)' /\ Contributed(q)' /\ Stopped(q)'
  <2>1. Stopped(q)'
    BY <1>1, <1>4 DEF Stopped
  <2>2. CASE q = p
    <3>1. manager'[p].received[manager[p].active_phase] \in Nat
      BY <1>2, <1>4, <1>6 DEF Manager
    <3>2. Contributed(p)'
      BY <1>4, <1>8, <1>9, <1>11, <3>1 DEF Contributed
    <3>3. Staged(p)'
      BY <1>1, <1>3, <1>4, <1>9 DEF Staged
    <3>4. QED
      BY <2>1, <2>2, <3>2, <3>3
  <2>3. CASE q # p
    BY <1>1, <1>4, <1>12, <2>1, <2>3 DEF Staged, Contributed
  <2>4. QED
    BY <2>2, <2>3
<1>15. ASSUME NEW q \in PE, q # p
       PROVE  /\ Settled(q) => Agree(x)
              /\ Checking(q) => IF Agree(results[q][1]) THEN Agree(x) ELSE ~Agree(x)
              /\ ~Ending(q)
              /\ Agree(x) => Settled(q) \/ (Checking(q) /\ Agree(results[q][1]))
  <2>1. Settled(q) => Agree(x)
    BY <1>1, <1>5 DEF Together, x
  <2>2. Checking(q) => results[p] = results[q]
    BY <1>1, <1>5 DEF Together
  <2>3. ASSUME Ending(q) PROVE FALSE
    <3>1. results[p] = results[q]
      BY <1>1, <1>3, <1>5, <2>3 DEF Together
    <3>2. QED
      BY <1>3, <2>3, <3>1 DEF Checking, Ending
  <2>4. results[q] = results[p] \/ IF Agree(x) THEN Settled(q) ELSE Counting(q)
    BY <1>1, <1>3 DEF Together, x
  <2>5. results[q] = results[p] => Checking(q) /\ results[q][1] = x
    BY <1>3 DEF Checking, x
  <2>6. QED
    BY <2>1, <2>2, <2>3, <2>4, <2>5 DEF x
<1>16. ASSUME NEW q \in PE, NEW r \in PE PROVE Together(q, r)'
  <2>1. Detected(q)' = Detected(r)'
    BY <1>1, <1>13 DEF Together
  <2>2. CASE q = p /\ r = p
    BY <1>11, <2>1, <2>2 DEF Together
  <2>3. CASE q = p /\ r # p
    <3>1. Agree(x) => Settled(r)' \/ (Checking(r)' /\ Agree(results'[r][1]))
      BY <1>12, <1>15, <2>3
    <3>2. QED
      BY <1>11, <2>1, <2>3, <3>1 DEF Together
  <2>4. CASE q # p /\ r = p
    <3>1. Checking(q)' => IF Agree(results'[q][1]) THEN Settled(p)' ELSE Counting(p)'
      BY <1>11, <1>12, <1>15, <2>4
    <3>2. Settled(q)' => Settled(p)'
      BY <1>11, <1>12, <1>15, <2>4
    <3>3. ~Ending(q)'
      BY <1>12, <1>15, <2>4
    <3>4. QED
      BY <2>1, <2>4, <3>1, <3>2, <3>3 DEF Together
  <2>5. CASE q # p /\ r # p
    <3>1. Together(q, r)
      BY <1>1
    <3>2. QED
      BY <1>4, <1>12, <2>1, <2>5, <3>1 DEF Together
  <2>6. QED
    BY <2>2, <2>3, <2>4, <2>5
<1>17. Delivered'
  <2> SUFFICES ASSUME NEW q \in PE, Known(q)' PROVE Known(q)
    BY <1>1, <1>4 DEF Delivered
  <2>1. CASE q = p
    BY <1>3, <1>11, <2>1 DEF Known, x
  <2>2. CASE q # p
    BY <1>12, <2>2 DEF Known
  <2>3. QED
    BY <2>1, <2>2
<1>18. Accounted'
  <2>1. \A h \in Phase : SentLive(h)' = SentLive(h) /\ ReceivedLive(h)' = ReceivedLive(h)
    BY <1>4, <1>13 DEF SentLive, ReceivedLive, Stale
  <2>2. QED
    BY <1>1, <1>4, <2>1 DEF Accounted, Total
<1>19. Cover(p)' <= Cover(p) /\ (Agree(x) => Cover(p)' <= low[p])
  <2>1. Cover(p) = manager[p].min_sent
    BY <1>5 DEF Cover
  <2>2. CASE Agree(x)
    BY <1>7, <1>8, <1>9, <1>11, <2>1, <2>2 DEF Cover
  <2>3. CASE ~Agree(x)
    <3>1. Cover(p)' = manager[p].min_sent /\ manager[p].min_sent \in Nat
      BY <1>2, <1>4, <1>11, <2>3, EventTimes DEF Cover, Manager
    <3>2. QED
      BY <2>1, <2>3, <3>1
  <2>4. QED
    BY <2>2, <2>3
<1>20. Tracked'
  <2>1. ASSUME NEW q \in PE PROVE Cover(q) \in Time /\ Cover(q)' \in Time /\ Cover(q)' <= Cover(q)
    <3>1. Cover(q) \in Time
      BY <1>1, Stages DEF Cover, TypeOK, Manager
    <3>2. CASE q = p
      <4>1. Cover(p)' \in Time
        BY <1>1, <1>4, <1>7, <1>8, <1>9, <1>11 DEF Cover, TypeOK, Manager
      <4>2. QED
        BY <1>19, <3>1, <3>2, <4>1
    <3>3. CASE q # p
      <4>1. Cover(q)' = Cover(q)
        BY <1>12, <3>3
      <4>2. \A c1, c2 \in Time : c1 = c2 => c1 <= c2
        BY EventTimes
      <4>3. QED
        BY <3>1, <4>1, <4>2
    <3>4. QED
      BY <3>2, <3>3
  <2>2. ASSUME NEW t \in Time, Covered(t) PROVE Covered(t)'
    <3>1. PICK q \in PE : InRound(q) /\ Cover(q) <= t
      BY <2>2 DEF Covered
    <3>2. Cover(q)' <= Cover(q)
      BY <2>1
    <3>3. Cover(q) \in Nat /\ Cover(q)' \in Nat /\ t \in Nat
      BY <2>1, EventTimes
    <3>4. Cover(q)' <= t
      BY <3>1, <3>2, <3>3
    <3>5. QED
      BY <1>13, <3>1, <3>4 DEF Covered
  <2>3. \A h \in Phase, q \in PE, t \in EventTime : net[h][q][t] > 0 => h = Detected(Root)' \/ Covered(t)'
    <3>1. Detected(Root)' = Detected(Root)
      BY <1>13, RootAssumption
    <3>2. QED
      BY <1>1, <2>2, <3>1, EventTimes DEF Tracked
  <2>4. ASSUME NEW q \in PE, Settled(q)' PROVE Covered(low[q])'
    <3>1. CASE q = p
      <4>1. InRound(p)' /\ Cover(p)' <= low[p]
        BY <1>11, <1>19, <2>4, <3>1
      <4>2. QED
        BY <1>4, <3>1, <4>1 DEF Covered
    <3>2. CASE q # p
      <4>1. Covered(low[q]) /\ low[q] \in Time
        BY <1>1, <1>12, <2>4, <3>2 DEF Tracked, TypeOK
      <4>2. PICK u \in Time : u = low[q]
        BY <4>1
      <4>3. Covered(u)'
        BY <2>2, <4>1, <4>2
      <4>4. QED
        BY <1>4, <4>2, <4>3 DEF Covered
    <3>3. QED
      BY <3>1, <3>2
  <2>5. QED
    BY <1>4, <2>3, <2>4 DEF Tracked
<1>21. Floors'
  <2>1. ASSUME NEW q \in PE, NEW g \in Time, Given(q, g)' PROVE Given(q, g)
    <3>1. Ending(q)' => q # p
      BY <1>11
    <3>2. QED
      BY <1>4, <1>12, <2>1, <3>1 DEF Given
  <2>2. ASSUME NEW g \in Time, Bounded(g) PROVE Bounded(g)'
    <3>1. g <= low[p] /\ g <= manager[p].min_sent
      BY <1>5, <2>2 DEF Bounded, Floor, IsFloor, Phase
    <3>2. Settled(p)' => g <= contributions'[p][1].t
      BY <1>7, <1>8, <1>9, <1>11, <3>1
    <3>3. \A q \in PE : Settled(q)' => g <= contributions'[q][1].t
      BY <1>12, <2>2, <3>2 DEF Bounded
    <3>4. QED
      BY <1>4, <1>13, <2>2, <3>3 DEF Bounded
  <2>3. \A q \in PE : Ending(q)' => sched'[q].g_last_gvt <= results'[q][1].t
    BY <1>1, <1>4, <1>11, <1>12 DEF Floors
  <2>4. QED
    BY <1>1, <2>1, <2>2, <2>3 DEF Floors
<1>22. QED
  BY <1>10, <1>14, <1>16, <1>17, <1>18, <1>20, <1>21 DEF IInv

\* A PE that ends the round drops the counts of its phase, which stood for
\* nothing, and takes up the GVT that was on its way.
LEMMA EndIInv ==
  ASSUME IInv, NEW p \in PE, gvt_end(p)
  PROVE  IInv'
<1> DEFINE m == manager[p]
           g == results[p][1].t
           lb == lb_trigger_ready(m.lb_cnt)
           h == m.active_phase
           n == manager'[p]
<1>1. /\ TypeOK /\ (\A q \in PE : Staged(q) /\ Contributed(q) /\ Stopped(q))
      /\ (\A q, r \in PE : Together(q, r)) /\ Delivered /\ Accounted /\ Tracked /\ Floors
  BY DEF IInv
<1>2. /\ results \in [PE -> Seq(Reduced)] /\ manager \in [PE -> Manager] /\ m \in Manager
      /\ sched \in [PE -> Scheduler] /\ contributions \in [PE -> Seq(Reduced)]
  BY <1>1 DEF TypeOK
<1>3. /\ Ending(p) /\ Head(results[p]) = results[p][1] /\ Tail(results[p]) = << >>
      /\ contributions[p] = << >> /\ m.active /\ g \in Time
  <2>1. results[p] # << >> /\ Head(results[p]).of = "min"
    BY DEF gvt_end, Arrives
  <2>2. QED
    BY <1>1, <2>1, Stages DEF Ending
<1>4. /\ results' = [results EXCEPT ![p] = << >>]
      /\ manager' = [manager EXCEPT ![p] =
           [m EXCEPT !.active = FALSE, !.sent[h] = 0, !.received[h] = 0,
                     !.lb_cnt = lb_trigger_reset(m.lb_cnt)]]
      /\ sched' = [sched EXCEPT ![p] = gvt_done(sched[p], g, lb)]
      /\ UNCHANGED <<low, net, contributions>>
  BY <1>3 DEF gvt_end
<1>5. h \in Phase /\ m.producing_phase = NextPhase(h)
  BY <1>1, <1>3 DEF Staged
<1>6. /\ results' \in [PE -> Seq(Reduced)] /\ results'[p] = << >> /\ Len(results'[p]) = 0
      /\ \A q \in PE : q # p => results'[q] = results[q] /\ manager'[q] = manager[q] /\ sched'[q] = sched[q]
  <2>1. << >> \in Seq(Reduced) /\ Len(<< >>) = 0
    OBVIOUS
  <2>2. QED
    BY <1>2, <1>4, <2>1
<1>7. n = [m EXCEPT !.active = FALSE, !.sent[h] = 0, !.received[h] = 0,
                    !.lb_cnt = lb_trigger_reset(m.lb_cnt)]
  BY <1>2, <1>4
<1>8. /\ n.active = FALSE /\ n.active_phase = h /\ n.producing_phase = m.producing_phase
      /\ n.min_sent = m.min_sent
      /\ n.sent = [m.sent EXCEPT ![h] = 0] /\ n.received = [m.received EXCEPT ![h] = 0]
      /\ n.lb_cnt = lb_trigger_reset(m.lb_cnt)
  BY <1>2, <1>7 DEF Manager
<1>9. m.sent \in [Phase -> Nat] /\ m.received \in [Phase -> Nat] /\ m.lb_cnt \in 0..LBInterval
      /\ m.active_phase \in Phase \union {NoPhase}
      /\ m.producing_phase \in Phase /\ m.min_sent \in Time
  BY <1>2 DEF Manager
<1>10. manager' \in [PE -> Manager]
  <2>1. lb_trigger_reset(m.lb_cnt) \in 0..LBInterval
    BY <1>9, LBAssumption DEF lb_trigger_reset
  <2>2. /\ [m.sent EXCEPT ![h] = 0] \in [Phase -> Nat]
        /\ [m.received EXCEPT ![h] = 0] \in [Phase -> Nat]
    BY <1>9
  <2>3. n = [active |-> FALSE, producing_phase |-> m.producing_phase, active_phase |-> h,
             min_sent |-> m.min_sent, sent |-> [m.sent EXCEPT ![h] = 0],
             received |-> [m.received EXCEPT ![h] = 0], lb_cnt |-> lb_trigger_reset(m.lb_cnt)]
    BY <1>2, <1>7 DEF Manager
  <2> HIDE DEF n, h
  <2>4. n \in Manager
    BY <1>5, <1>9, <2>1, <2>2, <2>3 DEF Manager
  <2>5. \A q \in PE : manager'[q] \in Manager
    BY <1>2, <1>6, <2>4 DEF n
  <2>6. QED
    BY <1>4, <1>2, <2>5
<1>11. /\ gvt_done(sched[p], g, lb) \in Scheduler
       /\ gvt_done(sched[p], g, lb).g_last_gvt = g
       /\ LET d == gvt_done(sched[p], g, lb)
              s == sched[p]
          IN  /\ d.execs = IF d.running THEN 1 ELSE 0
              /\ d.running /\ ~s.running => d.mode = s.mode
              /\ lb => (d.running <=> s.running)
              /\ ~lb => d.mode \in {s.mode, "over"}
  <2>1. sched[p] \in Scheduler /\ sched[p].execs = IF sched[p].running THEN 1 ELSE 0
    BY <1>1, <1>2 DEF Stopped
  <2>2. lb \in BOOLEAN
    BY DEF lb_trigger_ready
  <2> HIDE DEF lb, g
  <2>3. QED
    BY <1>3, <2>1, <2>2, GvtDone, GvtDoneMode
<1>12. sched' \in [PE -> Scheduler] /\ sched'[p] = gvt_done(sched[p], g, lb)
  BY <1>2, <1>4, <1>11
<1>13. TypeOK'
  BY <1>1, <1>4, <1>6, <1>10, <1>12 DEF TypeOK
<1>14. Stopped(p)'
  <2>1. lb => ~sched[p].running
    BY <1>1, <1>3 DEF Stopped
  <2>2. sched[p].mode \notin {"lb", "lbdone"}
    BY <1>1, <1>3 DEF Stopped
  <2>3. sched'[p].mode \in {"lb", "lbdone"} => ~sched'[p].running
    BY <1>11, <1>12, <2>1, <2>2
  <2>4. QED
    BY <1>8, <1>11, <1>12, <2>3 DEF Stopped
<1>15. ~Checking(p) /\ ~Settled(p) /\ ~Counting(p) /\ ~InRound(p)
  BY <1>1, <1>3, Stages DEF InRound
<1>16. ~Checking(p)' /\ ~Settled(p)' /\ ~Counting(p)' /\ ~Ending(p)' /\ ~InRound(p)'
  BY <1>3, <1>4, <1>6, <1>8 DEF Checking, Settled, Counting, Ending, InRound
<1>17. ASSUME NEW q \in PE, q # p
       PROVE  /\ Settled(q)' <=> Settled(q)
              /\ Checking(q)' <=> Checking(q)
              /\ Counting(q)' <=> Counting(q)
              /\ Ending(q)' <=> Ending(q)
              /\ InRound(q)' <=> InRound(q)
              /\ Cover(q)' = Cover(q)
  BY <1>4, <1>6, <1>17 DEF Settled, Checking, Counting, Ending, InRound, Cover
<1>18. \A q \in PE : /\ InRound(q)' <=> InRound(q)
                     /\ Settled(q)' <=> Settled(q)
                     /\ Detected(q)' = Detected(q)
                     /\ InRound(q) => manager'[q] = manager[q] /\ Cover(q)' = Cover(q)
  BY <1>6, <1>8, <1>15, <1>16, <1>17 DEF Detected
<1>19. ASSUME NEW q \in PE PROVE Staged(q)' /\ Contributed(q)' /\ Stopped(q)'
  <2>1. CASE q = p
    <3>1. Len(contributions'[p]) = 0
      BY <1>3, <1>4
    <3>2. Staged(p)'
      BY <1>6, <1>8, <3>1 DEF Staged
    <3>3. QED
      BY <1>14, <1>16, <2>1, <3>2 DEF Contributed
  <2>2. CASE q # p
    <3>1. Staged(q) /\ Contributed(q) /\ Stopped(q)
      BY <1>1
    <3>2. QED
      BY <1>4, <1>6, <1>17, <2>2, <3>1 DEF Staged, Contributed, Stopped
  <2>3. QED
    BY <2>1, <2>2
<1>20. ASSUME NEW q \in PE PROVE ~Settled(q) /\ ~Checking(q)
  <2>1. ~Settled(q)
    BY <1>1, <1>15 DEF Together
  <2>2. ASSUME Checking(q) PROVE FALSE
    <3>1. results[p] = results[q]
      BY <1>1, <1>15, <2>2 DEF Together
    <3>2. QED
      BY <1>15, <2>2, <3>1 DEF Checking
  <2>3. QED
    BY <2>1, <2>2
<1>21. \A q \in PE : ~Settled(q)' /\ ~Checking(q)'
  BY <1>16, <1>17, <1>20
<1>22. ASSUME NEW q \in PE, NEW r \in PE PROVE Together(q, r)'
  <2>1. Detected(q)' = Detected(r)'
    BY <1>1, <1>18 DEF Together
  <2>2. ASSUME Ending(q)' PROVE results'[r] = results'[q] \/ Counting(r)' \/ ~manager'[r].active
    <3>1. q # p
      BY <1>16, <2>2
    <3>2. Ending(q)
      BY <1>17, <2>2, <3>1
    <3>3. results[r] = results[q] \/ Counting(r) \/ ~manager[r].active
      BY <1>1, <3>2 DEF Together
    <3>4. CASE r = p
      BY <1>8, <3>4
    <3>5. CASE r # p
      BY <1>6, <1>17, <3>1, <3>3, <3>5
    <3>6. QED
      BY <3>4, <3>5
  <2>3. QED
    BY <1>21, <2>1, <2>2 DEF Together
<1>23. Delivered'
  BY <1>21 DEF Delivered, Known
<1>24. Accounted'
  <2> SUFFICES ASSUME NEW k \in Phase
               PROVE  SentLive(k)' = SentLive(k) /\ ReceivedLive(k)' = ReceivedLive(k)
    BY <1>1, <1>4 DEF Accounted, Total
  <2>1. ASSUME NEW q \in PE
        PROVE  /\ (IF Stale(q, k)' THEN 0 ELSE manager'[q].sent[k])
                    = (IF Stale(q, k) THEN 0 ELSE manager[q].sent[k])
               /\ (IF Stale(q, k)' THEN 0 ELSE manager'[q].received[k])
                    = (IF Stale(q, k) THEN 0 ELSE manager[q].received[k])
    <3>1. CASE q # p
      BY <1>6, <1>17, <3>1 DEF Stale
    <3>2. CASE q = p /\ k = h
      <4>1. Stale(p, k) /\ ~Stale(p, k)'
        BY <1>3, <1>16, <3>2 DEF Stale
      <4>2. n.sent[k] = 0 /\ n.received[k] = 0
        BY <1>8, <1>9, <3>2
      <4>3. QED
        BY <3>2, <4>1, <4>2
    <3>3. CASE q = p /\ k # h
      <4>1. ~Stale(p, k) /\ ~Stale(p, k)'
        BY <1>16, <3>3 DEF Stale
      <4>2. n.sent[k] = m.sent[k] /\ n.received[k] = m.received[k]
        BY <1>8, <1>9, <3>3
      <4>3. QED
        BY <3>3, <4>1, <4>2
    <3>4. QED
      BY <3>1, <3>2, <3>3
  <2>2. QED
    BY <2>1 DEF SentLive, ReceivedLive
<1>25. Tracked'
  <2>1. \A t \in EventTime : Covered(t) => Covered(t)'
    BY <1>18 DEF Covered
  <2>2. Detected(Root)' = Detected(Root)
    BY <1>18, RootAssumption
  <2>3. QED
    BY <1>1, <1>4, <1>21, <2>1, <2>2 DEF Tracked
<1>26. Floors'
  <2>1. ASSUME NEW q \in PE, NEW u \in Time, Given(q, u)' PROVE Given(q, u)
    <3>1. CASE q = p
      <4>1. u = g
        BY <1>11, <1>12, <1>16, <2>1, <3>1 DEF Given
      <4>2. QED
        BY <1>3, <3>1, <4>1 DEF Given
    <3>2. CASE q # p
      BY <1>6, <1>17, <2>1, <3>2 DEF Given
    <3>3. QED
      BY <3>1, <3>2
  <2>2. ASSUME NEW u \in Time, Bounded(u) PROVE Bounded(u)'
    BY <1>4, <1>18, <1>21, <2>2 DEF Bounded
  <2>3. \A q \in PE : Ending(q)' => sched'[q].g_last_gvt <= results'[q][1].t
    BY <1>1, <1>6, <1>16, <1>17 DEF Floors
  <2>4. QED
    BY <1>1, <2>1, <2>2, <2>3 DEF Floors
<1>27. QED
  BY <1>13, <1>19, <1>22, <1>23, <1>24, <1>25, <1>26 DEF IInv

\* The messages in flight when PEs balance are all of the phase that is counted
\* next, since no PE is in a round; they go wherever their chares go.
LEMMA Balances ==
  ASSUME IInv, balance
  PROVE  /\ UNCHANGED <<manager, contributions, results>>
         /\ low' \in [PE -> Time] /\ \A p \in PE : \E q \in PE : low[q] <= low'[p]
         /\ net' \in [Phase -> Flights]
         /\ \A h \in Phase : /\ Flying(net'[h]) = Flying(net[h])
                             /\ \A q \in PE, t \in EventTime :
                                  net'[h][q][t] > 0 => \E r \in PE : net[h][r][t] > 0
         /\ sched' \in [PE -> Scheduler]
         /\ \A p \in PE : /\ sched[p].mode = "lb" /\ sched'[p].mode = "lbdone"
                          /\ sched'[p].running = sched[p].running /\ sched'[p].execs = sched[p].execs
                          /\ sched'[p].g_last_gvt = sched[p].g_last_gvt
<1>1. /\ \A p \in PE : sched[p].mode = "lb"
      /\ sched' = [p \in PE |-> [sched[p] EXCEPT !.mode = "lbdone"]]
      /\ low' \in [PE -> Time] /\ Redistributed(low, low')
      /\ UNCHANGED <<manager, contributions, results>>
  BY DEF balance
<1>2. PICK f \in Forwarded(net[0]), g \in Forwarded(net[1]) : net' = [h \in Phase |-> IF h = 0 THEN f ELSE g]
  BY DEF balance
<1>3. /\ low \in [PE -> Time] /\ sched \in [PE -> Scheduler] /\ net \in [Phase -> Flights]
      /\ net[0] \in Flights /\ net[1] \in Flights
  BY DEF IInv, TypeOK, Phase
<1>4. \A p \in PE : \E q \in PE : low[q] <= low'[p]
  BY <1>1, <1>3, RedistributedFloors
<1>5. /\ f \in Flights /\ Flying(f) = Flying(net[0])
      /\ \A q \in PE, t \in EventTime : f[q][t] > 0 => \E r \in PE : net[0][r][t] > 0
  BY <1>3, ForwardedMessages
<1>6. /\ g \in Flights /\ Flying(g) = Flying(net[1])
      /\ \A q \in PE, t \in EventTime : g[q][t] > 0 => \E r \in PE : net[1][r][t] > 0
  BY <1>3, ForwardedMessages
<1>7. net' \in [Phase -> Flights] /\ net'[0] = f /\ net'[1] = g
  BY <1>2, <1>5, <1>6 DEF Phase
<1>8. ASSUME NEW h \in Phase
      PROVE  /\ Flying(net'[h]) = Flying(net[h])
             /\ \A q \in PE, t \in EventTime : net'[h][q][t] > 0 => \E r \in PE : net[h][r][t] > 0
  <2>1. h = 0 \/ h = 1
    BY DEF Phase
  <2>2. QED
    BY <1>5, <1>6, <1>7, <2>1
<1>9. ASSUME NEW p \in PE
      PROVE  /\ sched'[p] \in Scheduler /\ sched'[p].mode = "lbdone"
             /\ sched'[p].running = sched[p].running /\ sched'[p].execs = sched[p].execs
             /\ sched'[p].g_last_gvt = sched[p].g_last_gvt
  <2>1. sched'[p] = [sched[p] EXCEPT !.mode = "lbdone"] /\ sched[p] \in Scheduler
    BY <1>1, <1>3
  <2>2. QED
    BY <2>1 DEF Scheduler, Mode
<1>10. QED
  BY <1>1, <1>4, <1>7, <1>8, <1>9

\* Load balancing moves events between PEs that have all stopped.
LEMMA BalanceIInv ==
  ASSUME IInv, balance
  PROVE  IInv'
<1>1. /\ UNCHANGED <<manager, contributions, results>>
      /\ low' \in [PE -> Time] /\ \A p \in PE : \E q \in PE : low[q] <= low'[p]
      /\ net' \in [Phase -> Flights]
      /\ \A h \in Phase : /\ Flying(net'[h]) = Flying(net[h])
                          /\ \A q \in PE, t \in EventTime :
                               net'[h][q][t] > 0 => \E r \in PE : net[h][r][t] > 0
      /\ sched' \in [PE -> Scheduler]
      /\ \A p \in PE : /\ sched[p].mode = "lb" /\ sched'[p].mode = "lbdone"
                       /\ sched'[p].running = sched[p].running /\ sched'[p].execs = sched[p].execs
                       /\ sched'[p].g_last_gvt = sched[p].g_last_gvt
  BY Balances
<1>2. /\ TypeOK /\ (\A q \in PE : Staged(q) /\ Contributed(q) /\ Stopped(q))
      /\ (\A q, r \in PE : Together(q, r)) /\ Accounted /\ Tracked /\ Floors
  BY DEF IInv
<1>3. \A p \in PE : ~manager[p].active
  BY <1>1, <1>2 DEF Stopped
<1>4. \A p \in PE : /\ ~Counting(p) /\ ~Settled(p) /\ ~Checking(p) /\ ~Ending(p) /\ ~InRound(p)
  BY <1>2, <1>3, Stages DEF InRound
<1>5. \A p \in PE : /\ ~Counting(p)' /\ ~Settled(p)' /\ ~Checking(p)' /\ ~Ending(p)' /\ ~InRound(p)'
                    /\ Detected(p)' = Detected(p)
  BY <1>1, <1>4 DEF Counting, Settled, Checking, Ending, InRound, Detected
<1>6. TypeOK'
  BY <1>1, <1>2 DEF TypeOK
<1>7. ASSUME NEW p \in PE PROVE Staged(p)' /\ Contributed(p)' /\ Stopped(p)'
  <2>1. Staged(p) /\ Stopped(p)
    BY <1>2
  <2>2. Staged(p)'
    BY <1>1, <2>1 DEF Staged
  <2>3. Stopped(p)'
    BY <1>1, <2>1 DEF Stopped
  <2>4. QED
    BY <1>5, <2>2, <2>3 DEF Contributed
<1>8. \A p, q \in PE : Together(p, q)'
  BY <1>2, <1>5 DEF Together
<1>9. Delivered'
  BY <1>5 DEF Delivered, Known
<1>10. Accounted'
  <2>1. \A h \in Phase : SentLive(h)' = SentLive(h) /\ ReceivedLive(h)' = ReceivedLive(h)
    BY <1>1, <1>4, <1>5 DEF SentLive, ReceivedLive, Stale
  <2>2. QED
    BY <1>1, <1>2, <2>1 DEF Accounted, Total
<1>11. Tracked'
  <2> SUFFICES ASSUME NEW h \in Phase, NEW q \in PE, NEW t \in EventTime, net'[h][q][t] > 0
               PROVE  h = Detected(Root)'
    BY <1>5 DEF Tracked
  <2>1. PICK r \in PE : net[h][r][t] > 0
    BY <1>1
  <2>2. ~Covered(t)
    BY <1>4 DEF Covered
  <2>3. QED
    BY <1>2, <1>5, <2>1, <2>2, RootAssumption DEF Tracked
<1>12. Floors'
  <2>1. \A q \in PE, g \in Time : Given(q, g)' => Given(q, g)
    BY <1>1, <1>5 DEF Given
  <2>2. ASSUME NEW g \in Time, Bounded(g) PROVE Bounded(g)'
    <3>1. Floor(g, low, net)
      BY <2>2 DEF Bounded
    <3>2. ASSUME NEW p \in PE PROVE g <= low'[p]
      <4>1. PICK q \in PE : low[q] <= low'[p]
        BY <1>1
      <4>2. g <= low[q] /\ low[q] \in Time /\ low'[p] \in Time
        BY <1>1, <1>2, <3>1 DEF Floor, IsFloor, Phase, TypeOK
      <4>3. low[q] \in Nat /\ low'[p] \in Nat /\ g \in Nat
        BY <4>2, EventTimes
      <4>4. QED
        BY <4>1, <4>2, <4>3
    <3>3. ASSUME NEW h \in Phase, NEW q \in PE, NEW t \in EventTime, net'[h][q][t] > 0 PROVE g <= t
      <4>1. PICK r \in PE : net[h][r][t] > 0
        BY <1>1, <3>3
      <4>2. QED
        BY <3>1, <4>1 DEF Floor, IsFloor
    <3>4. Floor(g, low', net')
      BY <3>2, <3>3 DEF Floor, IsFloor
    <3>5. QED
      BY <1>5, <3>4 DEF Bounded
  <2>3. QED
    BY <1>2, <1>5, <2>1, <2>2 DEF Floors
<1>13. QED
  BY <1>6, <1>7, <1>8, <1>9, <1>10, <1>11, <1>12 DEF IInv

\* A step that changes nothing.
LEMMA StutterIInv ==
  ASSUME IInv, UNCHANGED vars
  PROVE  IInv'
<1>1. UNCHANGED <<sched, manager, low, net, contributions, results>>
  BY DEF vars
<1>2. \A p \in PE : /\ Counting(p)' <=> Counting(p)
                    /\ Settled(p)' <=> Settled(p)
                    /\ Checking(p)' <=> Checking(p)
                    /\ Ending(p)' <=> Ending(p)
  BY <1>1 DEF Counting, Settled, Checking, Ending
<1>3. \A p \in PE : /\ InRound(p)' <=> InRound(p)
                    /\ Detected(p)' = Detected(p)
                    /\ Cover(p)' = Cover(p)
                    /\ Known(p)' <=> Known(p)
  BY <1>1, <1>2 DEF InRound, Detected, Cover, Known
<1>4. TypeOK'
  BY <1>1 DEF IInv, TypeOK
<1>5. \A p \in PE : Staged(p)' /\ Contributed(p)' /\ Stopped(p)'
  BY <1>1, <1>2 DEF IInv, Staged, Contributed, Stopped
<1>6. \A p, q \in PE : Together(p, q)'
  BY <1>1, <1>2, <1>3 DEF IInv, Together
<1>7. Delivered'
  BY <1>1, <1>3 DEF IInv, Delivered
<1>8. Accounted'
  <2>1. \A h \in Phase : SentLive(h)' = SentLive(h) /\ ReceivedLive(h)' = ReceivedLive(h)
    BY <1>1, <1>2 DEF SentLive, ReceivedLive, Stale
  <2>2. QED
    BY <1>1, <2>1 DEF IInv, Accounted, Total
<1>9. Tracked'
  BY <1>1, <1>2, <1>3, RootAssumption DEF IInv, Tracked, Covered
<1>10. Floors'
  <2>1. \A p \in PE, g \in Time : Given(p, g)' => Given(p, g)
    BY <1>1, <1>2 DEF Given
  <2>2. \A g \in Time : Bounded(g) => Bounded(g)'
    BY <1>1, <1>2, <1>3 DEF Bounded
  <2>3. QED
    BY <1>1, <1>2, <2>1, <2>2 DEF IInv, Floors
<1>11. QED
  BY <1>4, <1>5, <1>6, <1>7, <1>8, <1>9, <1>10 DEF IInv

-----------------------------------------------------------------------------
\* At the start nothing is in flight.
LEMMA NoFlightsIs ==
  /\ NoFlights \in Flights /\ NothingInFlight(NoFlights)
  /\ Flying(NoFlights) = 0
<1>1. NoFlights \in Flights /\ NothingInFlight(NoFlights)
  BY DEF NoFlights, Flights, NothingInFlight
<1>2. QED
  BY <1>1, FlyingNone

\* The initial state, where every PE runs and nobody is in a round.
LEMMA InitIInv == Init => IInv
<1> SUFFICES ASSUME Init PROVE IInv
  OBVIOUS
<1> DEFINE m == [active |-> FALSE, producing_phase |-> 0, active_phase |-> NoPhase, min_sent |-> EndTime,
                 sent |-> [h \in Phase |-> 0], received |-> [h \in Phase |-> 0], lb_cnt |-> 0]
<1>1. /\ sched = [p \in PE |-> start_simulation] /\ manager = [p \in PE |-> m]
      /\ low \in [PE -> Time] /\ net = [h \in Phase |-> NoFlights]
      /\ contributions = [p \in PE |-> << >>] /\ results = [p \in PE |-> << >>]
  BY DEF Init
<1>2. m \in Manager /\ m.active = FALSE /\ m.producing_phase = 0
      /\ \A h \in Phase : m.sent[h] = 0 /\ m.received[h] = 0
  <2>1. EndTime \in Time /\ 0 \in Phase /\ 0 \in 0..LBInterval
    BY EndTimeAssumption, LBAssumption DEF Time, Phase
  <2>2. QED
    BY <2>1 DEF Manager
<1>3. start_simulation \in Scheduler /\ start_simulation.running /\ start_simulation.execs = 1
      /\ start_simulation.mode = "sim" /\ start_simulation.g_last_gvt = 0
  BY GvtIntervalAssumption, EndTimeAssumption DEF start_simulation, Scheduler, Mode, Time
<1> HIDE DEF m
<1>4. \A p \in PE : /\ manager[p] = m /\ sched[p] = start_simulation
                    /\ contributions[p] = << >> /\ results[p] = << >>
  BY <1>1
<1>5. \A p \in PE : /\ ~Counting(p) /\ ~Settled(p) /\ ~Checking(p) /\ ~Ending(p) /\ ~InRound(p)
                    /\ Detected(p) = 0
  BY <1>2, <1>4 DEF Counting, Settled, Checking, Ending, InRound, Detected
<1>6. TypeOK
  <2>1. << >> \in Seq(Reduced)
    OBVIOUS
  <2>2. QED
    BY <1>1, <1>2, <1>3, <2>1, NoFlightsIs DEF TypeOK
<1>7. \A p \in PE : Staged(p) /\ Contributed(p) /\ Stopped(p)
  <2>1. Len(<< >>) = 0
    OBVIOUS
  <2> SUFFICES ASSUME NEW p \in PE PROVE Staged(p) /\ Contributed(p) /\ Stopped(p)
    OBVIOUS
  <2>2. Staged(p)
    <3>1. contributions[p] = << >> /\ results[p] = << >> /\ ~manager[p].active
      BY <1>2, <1>4
    <3>2. Len(contributions[p]) = 0 /\ Len(results[p]) = 0
      BY <2>1, <3>1
    <3>3. QED
      BY <3>1, <3>2 DEF Staged
  <2>3. Stopped(p)
    <3>1. /\ sched[p].running /\ sched[p].execs = 1 /\ sched[p].mode = "sim" /\ ~manager[p].active
      BY <1>2, <1>3, <1>4
    <3>2. QED
      BY <3>1 DEF Stopped
  <2>4. QED
    BY <1>5, <2>2, <2>3 DEF Contributed
<1>8. \A p, q \in PE : Together(p, q)
  BY <1>5 DEF Together
<1>9. Delivered
  BY <1>5 DEF Delivered, Known
<1>10. Accounted
  <2> SUFFICES ASSUME NEW h \in Phase
               PROVE  Total(SentLive(h)) >= Total(ReceivedLive(h)) + Flying(net[h])
    BY DEF Accounted
  <2> DEFINE zero == [p \in PE |-> 0]
  <2>1. SentLive(h) = zero /\ ReceivedLive(h) = zero
    BY <1>2, <1>4, <1>5 DEF SentLive, ReceivedLive, Stale
  <2>2. zero \in [PE -> Nat] /\ \A p \in PE : zero[p] = 0
    OBVIOUS
  <2> HIDE DEF zero
  <2>3. Total(zero) = 0
    BY <2>2, TotalIs
  <2>4. Flying(net[h]) = 0
    BY <1>1, NoFlightsIs
  <2>5. QED
    BY <2>1, <2>3, <2>4
<1>11. \A h \in Phase, q \in PE, t \in EventTime : ~(net[h][q][t] > 0)
  BY <1>1, NoFlightsIs DEF NothingInFlight
<1>12. Tracked
  BY <1>5, <1>11 DEF Tracked
<1>13. Floors
  <2>1. ASSUME NEW p \in PE, NEW g \in Time, Given(p, g) PROVE Bounded(g)
    <3>1. g = 0
      BY <1>3, <1>4, <1>5, <2>1 DEF Given
    <3>2. \A q \in PE : 0 <= low[q]
      BY <1>1, EndTimeAssumption DEF Time
    <3>3. QED
      BY <1>5, <1>11, <3>1, <3>2 DEF Bounded, Floor, IsFloor
  <2>2. QED
    BY <1>5, <2>1 DEF Floors
<1>14. QED
  BY <1>6, <1>7, <1>8, <1>9, <1>10, <1>12, <1>13 DEF IInv

\* Every step keeps the invariant, action by action.
LEMMA NextIInv ==
  ASSUME ~LBContinuous, IInv, [Next]_vars
  PROVE  IInv'
<1>1. ASSUME NEW p \in PE, execute(p) PROVE IInv'
  BY <1>1, ExecuteIInv
<1>2. ASSUME NEW p \in PE, check_counts(p) PROVE IInv'
  BY <1>2, CheckIInv
<1>3. ASSUME NEW p \in PE, gvt_end(p) PROVE IInv'
  BY <1>3, EndIInv
<1>4. ASSUME NEW p \in PE, resume_balanced(p) PROVE IInv'
  BY <1>4, ResumeIInv
<1>5. ASSUME NEW p \in PE, NEW h \in Phase, NEW t \in EventTime, receive(p, h, t) PROVE IInv'
  BY <1>5, ReceiveIInv
<1>6. CASE reduce
  BY <1>6, ReduceIInv
<1>7. CASE balance
  BY <1>7, BalanceIInv
<1>8. CASE over \/ UNCHANGED vars
  BY <1>8, StutterIInv DEF over
<1>9. QED
  BY <1>1, <1>2, <1>3, <1>4, <1>5, <1>6, <1>7, <1>8 DEF Next

\* The invariant is inductive when PEs stop for load balancing.
THEOREM Inductive ==
  ASSUME ~LBContinuous
  PROVE  Spec => []IInv
<1>1. Init => IInv
  BY InitIInv
<1>2. IInv /\ [Next]_vars => IInv'
  BY NextIInv
<1>3. QED
  BY <1>1, <1>2, PTL DEF Spec

\* Types: no count goes below zero, and no GVT lies past the end of the run.
THEOREM TypeCorrect ==
  ASSUME ~LBContinuous
  PROVE  Spec => []TypeOK
<1>1. IInv => TypeOK
  BY DEF IInv
<1>2. QED
  BY <1>1, Inductive, PTL

\* Equal sums prove delivery: when check_counts() finds as many messages
\* received as sent, none of the phase the PE has left is in flight anywhere.
THEOREM EqualSumsMeanDelivered ==
  ASSUME ~LBContinuous
  PROVE  Spec => []EqualCountsMeanDelivered
<1>1. ASSUME IInv PROVE EqualCountsMeanDelivered
  <2> SUFFICES ASSUME NEW p \in PE, Arrives(p, "counts"), Head(results[p]).s = Head(results[p]).r
               PROVE  NothingInFlight(net[manager[p].active_phase])
    BY DEF EqualCountsMeanDelivered
  <2>1. TypeOK /\ Staged(p) /\ Delivered
    BY <1>1 DEF IInv
  <2>2. Head(results[p]) = results[p][1]
    BY <2>1, Stages DEF Arrives
  <2>3. Known(p)
    BY <2>2 DEF Known, Checking, Arrives, Agree
  <2>4. QED
    BY <2>1, <2>3 DEF Delivered
<1>2. QED
  BY <1>1, Inductive, PTL

\* CkAssert(min_time >= curr_gvt): what a PE contributes is never below the GVT
\* it holds, though it goes on executing and receiving while it is asked.
THEOREM ContributionsKeepTheGVT ==
  ASSUME ~LBContinuous
  PROVE  Spec => []ContributionNotBelowGVT
<1>1. ASSUME IInv PROVE ContributionNotBelowGVT
  <2> SUFFICES ASSUME NEW p \in PE, NEW i \in DOMAIN contributions[p], contributions[p][i].of = "min"
               PROVE  contributions[p][i].t >= sched[p].g_last_gvt
    BY DEF ContributionNotBelowGVT
  <2>1. /\ TypeOK /\ Staged(p) /\ Floors /\ contributions[p] \in Seq(Reduced)
        /\ sched[p].g_last_gvt \in Time
    BY <1>1 DEF IInv, TypeOK, Scheduler
  <2>2. contributions[p] # << >>
    OBVIOUS
  <2>3. contributions[p] = <<contributions[p][1]>>
    BY <2>1, <2>2, Stages
  <2>4. i = 1
    BY <2>3
  <2>5. Settled(p) /\ contributions[p][1].t \in Time
    BY <2>1, <2>2, <2>4, Stages DEF Settled
  <2>6. Bounded(sched[p].g_last_gvt)
    BY <2>1 DEF Floors, Given
  <2>7. sched[p].g_last_gvt <= contributions[p][1].t
    BY <2>5, <2>6 DEF Bounded
  <2>8. QED
    BY <2>1, <2>4, <2>5, <2>7, EventTimes
<1>2. QED
  BY <1>1, Inductive, PTL

\* No PE is ever more than one reduction ahead of another: what is reduced
\* together is of one kind and of one phase.
THEOREM RoundsStayAligned ==
  ASSUME ~LBContinuous
  PROVE  Spec => []RoundsAligned
<1>1. ASSUME IInv PROVE RoundsAligned
  <2> SUFFICES ASSUME NEW p \in PE, NEW q \in PE
               PROVE  /\ Len(contributions[p]) + Len(results[p]) <= 1
                      /\ contributions[p] # << >> /\ contributions[q] # << >>
                           => /\ contributions[p][1].of = contributions[q][1].of
                              /\ manager[p].active_phase = manager[q].active_phase
    BY DEF RoundsAligned
  <2>1. /\ TypeOK /\ Staged(p) /\ Staged(q) /\ Together(p, q) /\ Together(q, p)
    BY <1>1 DEF IInv
  <2>2. Len(contributions[p]) + Len(results[p]) <= 1
    <3> DEFINE k == Len(contributions[p]) + Len(results[p])
    <3>1. k = 0 \/ k = 1
      BY <2>1 DEF Staged
    <3> HIDE DEF k
    <3>2. k <= 1
      BY <3>1
    <3>3. QED
      BY <3>2 DEF k
  <2>3. ASSUME contributions[p] # << >>, contributions[q] # << >>
        PROVE  /\ contributions[p][1].of = contributions[q][1].of
               /\ manager[p].active_phase = manager[q].active_phase
    <3>1. /\ Counting(p) \/ Settled(p)
          /\ Counting(q) \/ Settled(q)
          /\ results[p] = << >> /\ results[q] = << >> /\ manager[p].active /\ manager[q].active
      BY <2>1, <2>3, Stages
    <3>2. ~Checking(p) /\ ~Checking(q) /\ InRound(p) /\ InRound(q)
      BY <3>1 DEF Checking, Ending, InRound
    <3>3. Settled(p) <=> Settled(q)
      BY <2>1, <3>2 DEF Together
    <3>4. contributions[p][1].of = contributions[q][1].of
      BY <3>1, <3>3 DEF Counting, Settled
    <3>5. QED
      BY <2>1, <3>2, <3>4 DEF Together, Detected
  <2>4. QED
    BY <2>2, <2>3
<1>2. QED
  BY <1>1, Inductive, PTL

\* TW_ASSERT(!running): a PE that waits for load balancing has stopped, though
\* gvt_begin() lets the others go on until they are told the GVT.
THEOREM StoppedWhenBalancing ==
  ASSUME ~LBContinuous
  PROVE  Spec => []NotRunningWhenBalancing
<1>1. IInv => NotRunningWhenBalancing
  BY DEF IInv, Stopped, NotRunningWhenBalancing
<1>2. QED
  BY <1>1, Inductive, PTL

-----------------------------------------------------------------------------
(***************************************************************************)
(* PhaseGVT implements VirtualTime, where the messages in flight are those *)
(* of both phases.                                                         *)
(***************************************************************************)
BothPhases(n) == [p \in PE |-> [t \in EventTime |-> n[0][p][t] + n[1][p][t]]]
gvt == [p \in PE |-> sched[p].g_last_gvt]

\* What is in flight in both phases together.
LEMMA BothPhasesType ==
  ASSUME NEW n \in [Phase -> Flights]
  PROVE  /\ BothPhases(n) \in Flights
         /\ \A q \in PE, t \in EventTime : /\ n[0][q][t] \in Nat /\ n[1][q][t] \in Nat
                                           /\ BothPhases(n)[q][t] = n[0][q][t] + n[1][q][t]
<1>1. n[0] \in Flights /\ n[1] \in Flights
  BY DEF Phase
<1>2. \A q \in PE, t \in EventTime : n[0][q][t] \in Nat /\ n[1][q][t] \in Nat
  BY <1>1 DEF Flights
<1>3. QED
  BY <1>2 DEF BothPhases, Flights

\* A message is in flight when it is in either phase.
LEMMA InEitherPhase ==
  ASSUME NEW n \in [Phase -> Flights], NEW q \in PE, NEW t \in EventTime
  PROVE  BothPhases(n)[q][t] > 0 <=> \E h \in Phase : n[h][q][t] > 0
<1>1. /\ n[0][q][t] \in Nat /\ n[1][q][t] \in Nat
      /\ BothPhases(n)[q][t] = n[0][q][t] + n[1][q][t]
  BY BothPhasesType
<1>2. BothPhases(n)[q][t] > 0 <=> n[0][q][t] > 0 \/ n[1][q][t] > 0
  BY <1>1
<1>3. QED
  BY <1>2 DEF Phase

\* A floor of the two phases is a floor of their union, as VirtualTime has it.
LEMMA FloorOfBoth ==
  ASSUME NEW n \in [Phase -> Flights], NEW lows, NEW g, Floor(g, lows, n)
  PROVE  IsFloor(g, lows, BothPhases(n))
BY InEitherPhase DEF Floor, IsFloor, Phase

\* What a PE does when it works is Work of VirtualTime, from f on.
LEMMA SendsIsWork ==
  ASSUME IInv, NEW p \in PE, NEW f, NEW m, NEW n, NEW S, Consumed(p, f, m, n), Sends(p, f, m, n, S)
  PROVE  /\ low' \in [PE -> Time] /\ low'[p] >= f /\ \A q \in PE \ {p} : low'[q] = low[q]
         /\ BothPhases(net') \in Flights
         /\ \A q \in PE, t \in EventTime :
              /\ BothPhases(net')[q][t] >= BothPhases(n)[q][t]
              /\ BothPhases(net')[q][t] > BothPhases(n)[q][t] => t >= f
<1> DEFINE pp == manager[p].producing_phase
<1>1. /\ low \in [PE -> Time] /\ f \in Time /\ n \in [Phase -> Flights]
  BY DEF IInv, TypeOK, Consumed
<1>2. PICK x \in f..EndTime : low' = [low EXCEPT ![p] = x]
  BY DEF Sends
<1>3. x \in Time /\ x >= f
  BY <1>1, <1>2, EndTimeAssumption DEF Time
<1>4. low' \in [PE -> Time] /\ low'[p] >= f /\ \A q \in PE \ {p} : low'[q] = low[q]
  BY <1>1, <1>2, <1>3
<1>5. /\ pp \in Phase /\ net' \in [Phase -> Flights] /\ net' = [n EXCEPT ![pp] = Put(n[pp], S)]
  BY SendsInFlight
<1> HIDE DEF pp
<1>6. /\ Put(n[pp], S) \in Flights
      /\ \A q \in PE, t \in EventTime :
           Put(n[pp], S)[q][t] = IF <<q, t>> \in S THEN n[pp][q][t] + 1 ELSE n[pp][q][t]
  BY <1>1, <1>5, PutType
<1>7. ASSUME NEW q \in PE, NEW t \in EventTime
      PROVE  /\ BothPhases(net')[q][t] >= BothPhases(n)[q][t]
             /\ BothPhases(net')[q][t] > BothPhases(n)[q][t] => t >= f
  <2> DEFINE a0 == n[0][q][t]
             a1 == n[1][q][t]
             b0 == net'[0][q][t]
             b1 == net'[1][q][t]
  <2>1. /\ a0 \in Nat /\ a1 \in Nat /\ b0 \in Nat /\ b1 \in Nat
        /\ BothPhases(n)[q][t] = a0 + a1 /\ BothPhases(net')[q][t] = b0 + b1
    BY <1>1, <1>5, BothPhasesType
  <2>2. pp = 0 \/ pp = 1
    BY <1>5 DEF Phase
  <2>3. \A h \in Phase : net'[h][q][t] = IF h = pp /\ <<q, t>> \in S THEN n[h][q][t] + 1 ELSE n[h][q][t]
    BY <1>1, <1>5, <1>6
  <2>4. /\ b0 = IF 0 = pp /\ <<q, t>> \in S THEN a0 + 1 ELSE a0
        /\ b1 = IF 1 = pp /\ <<q, t>> \in S THEN a1 + 1 ELSE a1
    BY <2>3 DEF Phase
  <2>5. <<q, t>> \in S => t >= f
    <3>1. <<q, t>> \in S => <<q, t>>[2] >= f
      BY DEF Sends
    <3>2. QED
      BY <3>1
  <2> HIDE DEF a0, a1, b0, b1
  <2>6. QED
    BY <2>1, <2>2, <2>4, <2>5
<1>8. BothPhases(net') \in Flights
  BY <1>5, BothPhasesType
<1>9. QED
  BY <1>4, <1>7, <1>8

\* As long as no PE is told a GVT, the abstract ones stay.
LEMMA GvtStays ==
  ASSUME \A p \in PE : sched'[p].g_last_gvt = sched[p].g_last_gvt
  PROVE  gvt' = gvt
BY DEF gvt

\* execute() is Work.
LEMMA ExecuteRefines ==
  ASSUME IInv, ~LBContinuous, NEW p \in PE, execute(p)
  PROVE  VT!Work(p)
<1>1. PICK S \in Emissions(manager[p], low[p]) :
        works(p, S) /\ iteration_done(p, produce(manager[p], S))
  BY DEF execute
<1>2. low[p] \in Time /\ manager[p] \in Manager /\ sched[p].execs > 0 /\ results' = results
  BY DEF IInv, TypeOK, execute
<1>3. /\ S \in SUBSET (PE \X EventTime) /\ \A s \in S : s[2] >= low[p]
      /\ IsFiniteSet(S) /\ Cardinality(S) \in Nat
  BY <1>2, EmissionsFrom DEF Emissions
<1> DEFINE M == produce(manager[p], S)
<1>4. M \in Manager /\ M.active = manager[p].active /\ M.lb_cnt = manager[p].lb_cnt
  BY <1>2, <1>3, Produced
<1> HIDE DEF M
<1>5. /\ \A q \in PE : q # p => sched'[q] = sched[q]
      /\ sched'[p].g_last_gvt = sched[p].g_last_gvt
      /\ \/ manager' = [manager EXCEPT ![p] = M] /\ contributions' = contributions
         \/ /\ ~M.active
            /\ manager' = [manager EXCEPT ![p] = enter_round(M)]
            /\ contributions' = [contributions EXCEPT
                 ![p] = Append(contributions[p], ActiveCounts(enter_round(M)))]
  <2>1. iteration_done(p, M)
    BY <1>1 DEF M
  <2>2. QED
    BY <1>2, <1>4, <2>1, ExecuteSched
<1>6. Sends(p, low[p], manager[p], net, S)
  <2>1. /\ \E x \in low[p]..EndTime : low' = [low EXCEPT ![p] = x]
        /\ net' = [net EXCEPT ![manager[p].producing_phase] = Put(net[manager[p].producing_phase], S)]
    BY <1>1 DEF works
  <2>2. QED
    BY <1>2, <1>3, <1>5, <2>1 DEF Sends, M
<1>7. VT!MinimumFrom(p, low[p]) /\ VT!SendsFrom(low[p], BothPhases(net))
  <2>1. Consumed(p, low[p], manager[p], net)
    BY NothingConsumed
  <2>2. QED
    <3>1. /\ low' \in [PE -> Time] /\ low'[p] >= low[p] /\ \A q \in PE \ {p} : low'[q] = low[q]
      BY <1>6, <2>1, SendsIsWork
    <3>2. BothPhases(net') \in Flights
      BY <1>6, <2>1, SendsIsWork
    <3>3. \A q \in PE, t \in EventTime :
           /\ BothPhases(net')[q][t] >= BothPhases(net)[q][t]
           /\ BothPhases(net')[q][t] > BothPhases(net)[q][t] => t >= low[p]
      BY <1>6, <2>1, SendsIsWork
    <3>4. VT!MinimumFrom(p, low[p])
      BY <3>1 DEF VT!MinimumFrom, VT!Time, Time
    <3>5. VT!SendsFrom(low[p], BothPhases(net))
      BY <3>2, <3>3 DEF VT!SendsFrom, VT!Flights, VT!EventTime, Flights, EventTime, BothPhases
    <3>6. QED
      BY <3>4, <3>5
<1>8. gvt' = gvt
  BY <1>5, GvtStays
<1>9. QED
  BY <1>7, <1>8 DEF VT!Work, BothPhases, gvt

\* An arrival is Receive, in whichever phase the message was sent.
LEMMA ReceiveRefines ==
  ASSUME IInv, NEW p \in PE, NEW h \in Phase, NEW t \in EventTime, receive(p, h, t)
  PROVE  VT!Receive(p, t)
<1> DEFINE f == Earlier(low[p], t)
           m == consume(manager[p], h)
           n == [net EXCEPT ![h] = Take(net[h], p, t)]
           N == BothPhases(net)
<1>1. /\ net[h][p][t] > 0
      /\ \E x \in f..EndTime : low' = [low EXCEPT ![p] = x]
      /\ UNCHANGED <<sched, contributions, results>>
  BY DEF receive
<1>2. PICK S \in Emissions(m, t) :
           /\ net' = [n EXCEPT ![m.producing_phase] = Put(n[m.producing_phase], S)]
           /\ manager' = [manager EXCEPT ![p] = produce(m, S)]
  BY DEF receive
<1>3. Consumed(p, f, m, n)
  BY <1>1, MessageConsumed
<1>4. low[p] \in Time /\ t \in Time /\ net \in [Phase -> Flights] /\ net[h] \in Flights
  BY EventTimes DEF IInv, TypeOK
<1>5. N \in Flights /\ N[p][t] > 0
  BY <1>1, <1>4, BothPhasesType, InEitherPhase
<1>6. BothPhases(n) = Take(N, p, t)
  <2>1. Take(N, p, t) \in Flights
        /\ \A q \in PE, u \in EventTime :
             Take(N, p, t)[q][u] = IF q = p /\ u = t THEN N[q][u] - 1 ELSE N[q][u]
    <3> HIDE DEF N
    <3>1. QED
      BY <1>5, TakeType
  <2>2. Take(net[h], p, t) \in Flights
        /\ \A q \in PE, u \in EventTime :
             Take(net[h], p, t)[q][u] = IF q = p /\ u = t THEN net[h][q][u] - 1 ELSE net[h][q][u]
    BY <1>1, <1>4, TakeType
  <2>3. n \in [Phase -> Flights] /\ n[h] = Take(net[h], p, t) /\ \A k \in Phase : k # h => n[k] = net[k]
    BY <1>4, <2>2
  <2> HIDE DEF n, N
  <2>4. BothPhases(n) \in Flights
    BY <2>3, BothPhasesType
  <2>5. ASSUME NEW q \in PE, NEW u \in EventTime PROVE BothPhases(n)[q][u] = Take(N, p, t)[q][u]
    <3> DEFINE a0 == net[0][q][u]
               a1 == net[1][q][u]
               b0 == n[0][q][u]
               b1 == n[1][q][u]
    <3>1. /\ a0 \in Nat /\ a1 \in Nat /\ b0 \in Nat /\ b1 \in Nat
          /\ N[q][u] = a0 + a1 /\ BothPhases(n)[q][u] = b0 + b1
      BY <1>4, <2>3, BothPhasesType DEF N
    <3>2. \A k \in Phase : n[k][q][u] = IF k = h /\ q = p /\ u = t THEN net[k][q][u] - 1 ELSE net[k][q][u]
      BY <2>2, <2>3
    <3>3. /\ b0 = IF 0 = h /\ q = p /\ u = t THEN a0 - 1 ELSE a0
          /\ b1 = IF 1 = h /\ q = p /\ u = t THEN a1 - 1 ELSE a1
      BY <3>2 DEF Phase
    <3>4. h = 0 \/ h = 1
      BY DEF Phase
    <3>5. Take(N, p, t)[q][u] = IF q = p /\ u = t THEN N[q][u] - 1 ELSE N[q][u]
      BY <2>1
    <3> HIDE DEF a0, a1, b0, b1
    <3>6. QED
      BY <3>1, <3>3, <3>4, <3>5
  <2>6. QED
    BY <2>1, <2>4, <2>5 DEF Flights
<1> HIDE DEF m, n
<1>7. /\ S \in SUBSET (PE \X EventTime) /\ \A s \in S : s[2] >= t
      /\ IsFiniteSet(S) /\ Cardinality(S) \in Nat
  BY <1>4, EmissionsFrom DEF Emissions
<1>8. \A s \in S : s[2] >= f
  <2> SUFFICES ASSUME NEW s \in S PROVE s[2] >= f
    OBVIOUS
  <2>1. s[2] >= t /\ s[2] \in Nat /\ t \in Nat /\ low[p] \in Nat
    BY <1>4, <1>7, EventTimes
  <2>2. QED
    BY <2>1 DEF Earlier
<1> HIDE DEF f, N
<1>9. Sends(p, f, m, n, S)
  BY <1>1, <1>2, <1>7, <1>8 DEF Sends
<1>10. /\ low' \in [PE -> Time] /\ low'[p] >= f /\ \A q \in PE \ {p} : low'[q] = low[q]
       /\ BothPhases(net') \in Flights
       /\ \A q \in PE, u \in EventTime :
            /\ BothPhases(net')[q][u] >= BothPhases(n)[q][u]
            /\ BothPhases(net')[q][u] > BothPhases(n)[q][u] => u >= f
  BY <1>3, <1>9, SendsIsWork
<1>11. VT!MinimumFrom(p, f)
  BY <1>10 DEF VT!MinimumFrom, VT!Time, Time
<1>12. VT!SendsFrom(f, Take(N, p, t))
  BY <1>6, <1>10 DEF VT!SendsFrom, VT!Flights, VT!EventTime, Flights, EventTime, BothPhases
<1>13. gvt' = gvt
  BY <1>1, GvtStays
<1>14. QED
  BY <1>5, <1>11, <1>12, <1>13
  DEF VT!Receive, VT!Earlier, VT!Take, Earlier, Take, VT!EventTime, EventTime, f, N, BothPhases, gvt

\* gvt_end() is Commit: the GVT it brings is a floor and not below the last.
LEMMA EndRefines ==
  ASSUME IInv, NEW p \in PE, gvt_end(p)
  PROVE  VT!Commit(p)
<1> DEFINE g == results[p][1].t
           lb == lb_trigger_ready(manager[p].lb_cnt)
<1>1. TypeOK /\ Staged(p) /\ Stopped(p) /\ Floors /\ sched \in [PE -> Scheduler]
      /\ net \in [Phase -> Flights]
  BY DEF IInv, TypeOK
<1>2. results[p] # << >> /\ Head(results[p]).of = "min"
  BY DEF gvt_end, Arrives
<1>3. Ending(p) /\ Head(results[p]) = results[p][1] /\ g \in Time
  BY <1>1, <1>2, Stages DEF Ending
<1>4. UNCHANGED <<low, net>> /\ sched' = [sched EXCEPT ![p] = gvt_done(sched[p], g, lb)]
  BY <1>3 DEF gvt_end
<1>5. gvt_done(sched[p], g, lb).g_last_gvt = g
  <2>1. sched[p] \in Scheduler /\ sched[p].execs = IF sched[p].running THEN 1 ELSE 0
    BY <1>1 DEF Stopped
  <2>2. lb \in BOOLEAN
    BY DEF lb_trigger_ready
  <2> HIDE DEF lb, g
  <2>3. QED
    BY <1>3, <2>1, <2>2, GvtDone
<1>6. g >= sched[p].g_last_gvt
  BY <1>1, <1>3, EventTimes DEF Floors, Scheduler
<1>7. IsFloor(g, low, BothPhases(net))
  <2>1. Floor(g, low, net)
    BY <1>1, <1>3 DEF Floors, Given, Bounded
  <2>2. QED
    BY <1>1, <2>1, FloorOfBoth
<1> HIDE DEF g, lb
<1>8. \A q \in PE : sched'[q].g_last_gvt = IF q = p THEN g ELSE sched[q].g_last_gvt
  BY <1>1, <1>4, <1>5
<1>9. gvt' = [gvt EXCEPT ![p] = g]
  BY <1>8 DEF gvt
<1>10. VT!IsFloor(g, low, BothPhases(net))
  BY <1>7 DEF IsFloor, VT!IsFloor, EventTime, VT!EventTime
<1>11. QED
  BY <1>3, <1>4, <1>6, <1>9, <1>10 DEF VT!Commit, gvt, VT!Time, Time, BothPhases

\* Resuming after load balancing is Work, or changes nothing abstract.
LEMMA ResumeRefines ==
  ASSUME IInv, NEW p \in PE, resume_balanced(p)
  PROVE  VT!Work(p) \/ UNCHANGED <<low, net, gvt>>
<1>1. /\ UNCHANGED <<contributions, results>>
      /\ sched' = [sched EXCEPT ![p] = balancing_complete(sched[p])]
  BY DEF resume_balanced
<1>2. sched \in [PE -> Scheduler] /\ Stopped(p) /\ low[p] \in Time /\ manager[p] \in Manager
  BY DEF IInv, TypeOK
<1>3. \A q \in PE : sched'[q].g_last_gvt = sched[q].g_last_gvt
  <2>1. sched[p] \in Scheduler /\ sched[p].execs = IF sched[p].running THEN 1 ELSE 0
    BY <1>2 DEF Stopped
  <2>2. balancing_complete(sched[p]).g_last_gvt = sched[p].g_last_gvt
    BY <2>1, BalancingComplete
  <2>3. QED
    BY <1>1, <1>2, <2>2
<1>4. gvt' = gvt
  BY <1>3, GvtStays
<1>5. CASE Optimistic
  <2>1. PICK S \in Emissions(manager[p], low[p]) :
          works(p, S) /\ manager' = [manager EXCEPT ![p] = produce(manager[p], S)]
    BY <1>5 DEF resume_balanced
  <2>2. /\ S \in SUBSET (PE \X EventTime) /\ \A s \in S : s[2] >= low[p]
        /\ IsFiniteSet(S) /\ Cardinality(S) \in Nat
    BY <1>2, EmissionsFrom DEF Emissions
  <2>3. Sends(p, low[p], manager[p], net, S)
    BY <1>1, <1>2, <2>1, <2>2 DEF Sends, works
  <2>4. Consumed(p, low[p], manager[p], net)
    BY NothingConsumed
  <2>5. /\ low' \in [PE -> Time] /\ low'[p] >= low[p] /\ \A q \in PE \ {p} : low'[q] = low[q]
        /\ BothPhases(net') \in Flights
        /\ \A q \in PE, t \in EventTime :
             /\ BothPhases(net')[q][t] >= BothPhases(net)[q][t]
             /\ BothPhases(net')[q][t] > BothPhases(net)[q][t] => t >= low[p]
    BY <2>3, <2>4, SendsIsWork
  <2>6. VT!MinimumFrom(p, low[p])
    BY <2>5 DEF VT!MinimumFrom, VT!Time, Time
  <2>7. VT!SendsFrom(low[p], BothPhases(net))
    BY <2>5 DEF VT!SendsFrom, VT!Flights, VT!EventTime, Flights, EventTime, BothPhases
  <2>8. QED
    BY <1>4, <2>6, <2>7 DEF VT!Work, BothPhases, gvt
<1>6. CASE ~Optimistic
  BY <1>4, <1>6 DEF resume_balanced
<1>7. QED
  BY <1>5, <1>6

\* Load balancing is Migrate.
LEMMA BalanceRefines ==
  ASSUME IInv, balance
  PROVE  VT!Migrate
<1>1. /\ low' \in [PE -> Time] /\ \A p \in PE : \E q \in PE : low[q] <= low'[p]
      /\ net' \in [Phase -> Flights]
      /\ \A h \in Phase, q \in PE, t \in EventTime : net'[h][q][t] > 0 => \E r \in PE : net[h][r][t] > 0
      /\ \A p \in PE : sched'[p].g_last_gvt = sched[p].g_last_gvt
  BY Balances
<1>2. net \in [Phase -> Flights]
  BY DEF IInv, TypeOK
<1>3. BothPhases(net') \in Flights
  BY <1>1, BothPhasesType
<1>4. ASSUME NEW q \in PE, NEW t \in EventTime, BothPhases(net')[q][t] > 0
      PROVE  \E r \in PE : BothPhases(net)[r][t] > 0
  <2>1. PICK h \in Phase : net'[h][q][t] > 0
    BY <1>1, <1>4, InEitherPhase
  <2>2. PICK r \in PE : net[h][r][t] > 0
    BY <1>1, <2>1
  <2>3. QED
    BY <1>2, <2>2, InEitherPhase
<1>5. gvt' = gvt
  BY <1>1, GvtStays
<1>6. QED
  BY <1>1, <1>3, <1>4, <1>5
  DEF VT!Migrate, VT!Time, VT!Flights, VT!EventTime, Time, Flights, EventTime, BothPhases, gvt

\* Every step is a step of VirtualTime or changes nothing it sees.
LEMMA StepRefines ==
  ASSUME IInv, ~LBContinuous, [Next]_vars
  PROVE  VT!Next \/ UNCHANGED <<low, net, gvt>>
<1>1. ASSUME NEW p \in PE, execute(p) PROVE VT!Next
  <2>1. VT!Work(p)
    BY <1>1, ExecuteRefines
  <2>2. QED
    BY <2>1 DEF VT!Next
<1>2. ASSUME NEW p \in PE, NEW h \in Phase, NEW t \in EventTime, receive(p, h, t) PROVE VT!Next
  <2>1. VT!Receive(p, t)
    BY <1>2, ReceiveRefines
  <2>2. QED
    BY <2>1 DEF VT!Next, VT!EventTime, EventTime
<1>3. ASSUME NEW p \in PE, gvt_end(p) PROVE VT!Next
  <2>1. VT!Commit(p)
    BY <1>3, EndRefines
  <2>2. QED
    BY <2>1 DEF VT!Next
<1>4. ASSUME NEW p \in PE, resume_balanced(p) PROVE VT!Next \/ UNCHANGED <<low, net, gvt>>
  <2>1. VT!Work(p) \/ UNCHANGED <<low, net, gvt>>
    BY <1>4, ResumeRefines
  <2>2. QED
    BY <2>1 DEF VT!Next
<1>5. ASSUME NEW p \in PE, check_counts(p) PROVE UNCHANGED <<low, net, gvt>>
  BY <1>5 DEF check_counts, gvt
<1>6. CASE balance
  BY <1>6, BalanceRefines DEF VT!Next
<1>7. CASE reduce \/ over \/ UNCHANGED vars
  BY <1>7 DEF reduce, over, vars, gvt
<1>8. QED
  BY <1>1, <1>2, <1>3, <1>4, <1>5, <1>6, <1>7 DEF Next

\* PhaseGVT implements VirtualTime: no GVT it tells a PE is later than an event
\* that is still to be executed or cancelled, in whatever phase, on whatever PE
\* or in flight, and none is earlier than the one before.
THEOREM Refinement ==
  ASSUME ~LBContinuous
  PROVE  Spec => ImplementsVirtualTime
<1>1. Init => VT!Init
  <2> SUFFICES ASSUME Init PROVE VT!Init
    OBVIOUS
  <2>1. low \in [PE -> Time] /\ net \in [Phase -> Flights]
    BY InitIInv DEF IInv, TypeOK
  <2>2. BothPhases(net) \in Flights
    BY <2>1, BothPhasesType
  <2>3. gvt = [p \in PE |-> 0]
    BY DEF Init, start_simulation, gvt
  <2>4. QED
    BY <2>1, <2>2, <2>3
    DEF VT!Init, VT!Time, VT!Flights, VT!EventTime, Time, Flights, EventTime, BothPhases, gvt
<1>2. IInv /\ [Next]_vars => [VT!Next]_(VT!vars)
  <2> SUFFICES ASSUME IInv, [Next]_vars PROVE [VT!Next]_(VT!vars)
    OBVIOUS
  <2>1. VT!Next \/ UNCHANGED <<low, net, gvt>>
    BY StepRefines
  <2>2. UNCHANGED <<low, net, gvt>> => UNCHANGED VT!vars
    BY DEF VT!vars, gvt
  <2>3. QED
    BY <2>1, <2>2
<1>3. QED
  BY Inductive, <1>1, <1>2, PTL DEF Spec, ImplementsVirtualTime, VT!Spec
=============================================================================

--------------------------- MODULE CdGVT_proof ---------------------------
(***************************************************************************)
(* The GVT manager on completion detectors is sound when it has the two    *)
(* phases it has by default and PEs stop for load balancing                *)
(* (~g_tw_ldb_continuous): for any number of PEs, any end time, trigger    *)
(* and balancing interval, whatever is sent and in whatever order messages *)
(* and callbacks arrive, it keeps the contract of VirtualTime.             *)
(*                                                                         *)
(* Why the invariant is what it is.  Here nobody counts: that nothing of   *)
(* the phase is left in flight is what a detector promises when it calls   *)
(* gvt_contribute(), and it stays so because no PE sends in that phase     *)
(* any more (Delivered).  What must be shown is the rest.  A PE of a round *)
(* is at one place of it (Staged), and no two PEs are further apart than   *)
(* one callback or one reduction (Together), although two detectors are    *)
(* used in turn and PEs begin and end a round at moments of their own.     *)
(* What is in flight in the other phase, and the minimum of a PE that has  *)
(* contributed its own, are bounded by a contribution made or to be made   *)
(* (Tracked); and a GVT that has been announced stays below what the next  *)
(* round collects (Bounded).                                               *)
(***************************************************************************)
EXTENDS CdGVT, GVTManager_proof, SequenceTheorems

\* Where a PE is in a round: done and waiting for the detector of the phase it
\* has left, called by it, with its minimum contributed, or with a result.
Active(p)  == ~Ready(manager[p])
Waiting(p) == p \in detectors[manager[p].next_phase].done
Called(p)  == completions[p] > 0
Settled(p) == contributions[p] # << >>
Ending(p)  == results[p] # << >>

At(p, waiting, called, settled, ending) ==
  /\ Waiting(p) <=> waiting
  /\ completions[p] = called
  /\ Len(contributions[p]) = settled
  /\ Len(results[p]) = ending

Staged(p) ==
  /\ manager[p].next_phase = NextPhase(manager[p].current_phase)
  /\ manager[p].detector_ready[manager[p].current_phase]
  /\ p \notin detectors[manager[p].current_phase].done
  /\ IF Active(p) THEN \/ At(p, TRUE, 0, 0, 0)  \/ At(p, FALSE, 1, 0, 0)
                       \/ At(p, FALSE, 0, 1, 0) \/ At(p, FALSE, 0, 0, 1)
                  ELSE At(p, FALSE, 0, 0, 0)

\* The phase that is being detected, or will be once p has begun the next round.
InRound(p) == Active(p) /\ ~Ending(p)
Detected(p) == IF InRound(p) THEN manager[p].next_phase ELSE manager[p].current_phase

\* Once p has been called, all that was sent in the phase it left is received.
Known(p) == Called(p) \/ Settled(p)

Together(p, q) ==
  /\ Detected(p) = Detected(q)
  /\ Known(p) => Known(q)
  /\ Ending(p) => results[q] = results[p] \/ Waiting(q) \/ ~Active(q)

Delivered == \A p \in PE : Known(p) => NothingInFlight(net[manager[p].next_phase])

\* The bound p puts on all it has sent since it began the round.
Cover(p) == IF Settled(p) THEN contributions[p][1] ELSE manager[p].min_sent
Covered(t) == \E p \in PE : InRound(p) /\ Cover(p) <= t

Tracked ==
  /\ \A h \in Phase, q \in PE, t \in EventTime :
       net[h][q][t] > 0 => h = Detected(Root) \/ Covered(t)
  /\ \A q \in PE : Settled(q) => Covered(low[q])

\* Whether g bounds all that is unprocessed, in whatever phase it was sent.
Floor(g, lows, n) ==
  /\ \A p \in PE : g <= lows[p]
  /\ \A h \in Phase, p \in PE, t \in EventTime : n[h][p][t] > 0 => g <= t

\* A GVT: one that p has been told, or that is on its way to p.
Given(p, g) == sched[p].g_last_gvt = g \/ (Ending(p) /\ results[p][1] = g)

\* What every PE in a round is yet to contribute, or has, is no earlier than g.
Bounded(g) ==
  /\ Floor(g, low, net)
  /\ \A p \in PE : InRound(p) => g <= manager[p].min_sent
  /\ \A p \in PE : Settled(p) => g <= contributions[p][1]

Floors ==
  /\ \A p \in PE, g \in Time : Given(p, g) => Bounded(g)
  /\ \A p \in PE : Ending(p) => sched[p].g_last_gvt <= results[p][1]

\* A PE that is to balance in this round has stopped, and balances after it.
Stopped(p) ==
  /\ sched[p].execs = IF sched[p].running THEN 1 ELSE 0
  /\ Active(p) /\ lb_trigger_ready(manager[p].lb_cnt) => ~sched[p].running
  /\ sched[p].mode \in {"lb", "lbdone"} => ~sched[p].running /\ ~Active(p)

IInv ==
  /\ TypeOK
  /\ \A p \in PE : Staged(p) /\ Stopped(p)
  /\ \A p, q \in PE : Together(p, q)
  /\ Delivered
  /\ Tracked
  /\ Floors

-----------------------------------------------------------------------------
\* Times of events are times, and times are naturals.
LEMMA EventTimes == EventTime \subseteq Time /\ Time \subseteq Nat
BY EndTimeAssumption DEF EventTime, Time

\* What a sequence of one time is.
LEMMA OneElement ==
  ASSUME NEW s \in Seq(Time), Len(s) = 1
  PROVE  s = <<s[1]>> /\ s[1] \in Time /\ Head(s) = s[1] /\ Tail(s) = << >>
<1>1. 1 \in 1..Len(s)
  OBVIOUS
<1>2. s[1] \in Time
  BY <1>1, ElementOfSeq
<1>3. <<s[1]>> \in Seq(Time) /\ Len(<<s[1]>>) = 1 /\ <<s[1]>>[1] = s[1]
  BY <1>2
<1>4. \A i \in 1..Len(s) : i = 1
  OBVIOUS
<1>5. s = <<s[1]>>
  BY <1>3, <1>4, SeqEqual
<1>6. s # << >>
  BY EmptySeq
<1>7. Tail(s) \in Seq(Time) /\ Len(Tail(s)) = 0
  BY <1>6, HeadTailProperties
<1>8. Tail(s) = << >>
  BY <1>7, EmptySeq
<1>9. Head(s) = s[1]
  BY DEF Head
<1>10. QED
  BY <1>2, <1>5, <1>8, <1>9

\* The places exclude one another.
LEMMA Stages ==
  ASSUME TypeOK, NEW p \in PE, Staged(p)
  PROVE  /\ Settled(p) => /\ contributions[p] = <<contributions[p][1]>> /\ contributions[p][1] \in Time
                          /\ Head(contributions[p]) = contributions[p][1] /\ Tail(contributions[p]) = << >>
                          /\ Active(p) /\ ~Waiting(p) /\ ~Called(p) /\ ~Ending(p)
         /\ Ending(p) => /\ results[p] = <<results[p][1]>> /\ results[p][1] \in Time
                         /\ Head(results[p]) = results[p][1] /\ Tail(results[p]) = << >>
                         /\ Active(p) /\ ~Waiting(p) /\ ~Called(p) /\ ~Settled(p)
         /\ Called(p) => completions[p] = 1 /\ Active(p) /\ ~Waiting(p) /\ ~Settled(p) /\ ~Ending(p)
         /\ Waiting(p) => Active(p) /\ ~Called(p) /\ ~Settled(p) /\ ~Ending(p)
         /\ Active(p) => Waiting(p) \/ Called(p) \/ Settled(p) \/ Ending(p)
         /\ ~Called(p) => completions[p] = 0
<1> DEFINE c == contributions[p]
           r == results[p]
<1>1. c \in Seq(Time) /\ r \in Seq(Time)
  BY DEF TypeOK
<1>2. \A s \in Seq(Time) : s # << >> <=> Len(s) # 0
  BY EmptySeq
<1>3. \A s \in Seq(Time) : Len(s) = 1 =>
        s = <<s[1]>> /\ s[1] \in Time /\ Head(s) = s[1] /\ Tail(s) = << >>
  BY OneElement
<1>4. (Settled(p) <=> Len(c) # 0) /\ (Ending(p) <=> Len(r) # 0)
  BY <1>1, <1>2 DEF Settled, Ending
<1>5. IF Active(p) THEN \/ At(p, TRUE, 0, 0, 0)  \/ At(p, FALSE, 1, 0, 0)
                        \/ At(p, FALSE, 0, 1, 0) \/ At(p, FALSE, 0, 0, 1)
                   ELSE At(p, FALSE, 0, 0, 0)
  BY DEF Staged
<1>6. /\ Settled(p) => Len(c) = 1 /\ Active(p) /\ ~Waiting(p) /\ ~Called(p) /\ ~Ending(p)
      /\ Ending(p) => Len(r) = 1 /\ Active(p) /\ ~Waiting(p) /\ ~Called(p) /\ ~Settled(p)
      /\ Called(p) => completions[p] = 1 /\ Active(p) /\ ~Waiting(p) /\ ~Settled(p) /\ ~Ending(p)
      /\ Waiting(p) => Active(p) /\ ~Called(p) /\ ~Settled(p) /\ ~Ending(p)
      /\ Active(p) => Waiting(p) \/ Called(p) \/ Settled(p) \/ Ending(p)
      /\ ~Called(p) => completions[p] = 0
  BY <1>4, <1>5 DEF At, Called
<1>7. QED
  BY <1>1, <1>3, <1>6

\* The two phases are used in turn.
LEMMA Alternate ==
  ASSUME Phases = 2, NEW h \in Phase
  PROVE  /\ NextPhase(h) \in Phase /\ NextPhase(h) # h /\ NextPhase(NextPhase(h)) = h
         /\ \A k \in Phase : k = h \/ k = NextPhase(h)
<1>1. h = 0 \/ h = 1
  BY DEF Phase
<1>2. NextPhase(0) = 1 /\ NextPhase(1) = 0
  BY DEF NextPhase
<1>3. QED
  BY <1>1, <1>2 DEF Phase

-----------------------------------------------------------------------------
(***************************************************************************)
(* A PE that works: it may consume a message, sends messages, and may      *)
(* begin a round.                                                          *)
(***************************************************************************)

\* n is what is in flight once p has consumed what it receives, if it receives
\* anything; f is the earliest time it goes on from.
Consumed(p, f, n) ==
  /\ f \in Time /\ f <= low[p]
  /\ n \in [Phase -> Flights]
  /\ \A h \in Phase, q \in PE, t \in EventTime : n[h][q][t] <= net[h][q][t]
  /\ \A g \in Time : Floor(g, low, net) => g <= f
  /\ Settled(p) => Covered(f)

\* A PE that executes goes on from its own minimum and consumes nothing.
LEMMA NothingConsumed ==
  ASSUME IInv, NEW p \in PE
  PROVE  Consumed(p, low[p], net)
<1>1. low[p] \in Time /\ net \in [Phase -> Flights]
  BY DEF IInv, TypeOK
<1>2. low[p] <= low[p]
  BY <1>1, EndTimeAssumption DEF Time
<1>3. \A h \in Phase, q \in PE, t \in EventTime : net[h][q][t] <= net[h][q][t]
  BY <1>1 DEF Flights
<1>4. \A g \in Time : Floor(g, low, net) => g <= low[p]
  BY DEF Floor
<1>5. Settled(p) => Covered(low[p])
  BY DEF IInv, Tracked
<1>6. QED
  BY <1>1, <1>2, <1>3, <1>4, <1>5 DEF Consumed

\* A message that reaches a PE after its contribution is of the other phase,
\* since all of the phase that is detected has been received.
LEMMA SettledCovers ==
  ASSUME IInv, NEW p \in PE, Settled(p), NEW h \in Phase, NEW t \in EventTime, net[h][p][t] > 0
  PROVE  Covered(t)
<1>1. Staged(p) /\ TypeOK
  BY DEF IInv
<1>2. InRound(p)
  BY <1>1, Stages DEF InRound
<1>3. Detected(p) = manager[p].next_phase
  BY <1>2 DEF Detected
<1>4. NothingInFlight(net[manager[p].next_phase])
  BY DEF IInv, Delivered, Known
<1>5. net[h][p][t] # 0
  OBVIOUS
<1>6. h # manager[p].next_phase
  BY <1>4, <1>5 DEF NothingInFlight
<1>7. Detected(p) = Detected(Root)
  BY RootAssumption DEF IInv, Together
<1>8. QED
  BY <1>3, <1>6, <1>7 DEF IInv, Tracked

\* What a PE in a round is to contribute is a time.
LEMMA CoverIsTime ==
  ASSUME TypeOK, NEW p \in PE, Staged(p)
  PROVE  Cover(p) \in Time
BY Stages DEF Cover, TypeOK, Manager

\* What is bounded by a contribution stays so at a later time.
LEMMA CoveredUp ==
  ASSUME TypeOK, \A p \in PE : Staged(p), NEW t \in Time, NEW u \in Time, t <= u, Covered(t)
  PROVE  Covered(u)
<1>1. PICK p \in PE : InRound(p) /\ Cover(p) <= t
  BY DEF Covered
<1>2. Cover(p) \in Time
  BY CoverIsTime
<1>3. Cover(p) <= u
  BY <1>1, <1>2, EndTimeAssumption DEF Time
<1>4. QED
  BY <1>1, <1>3 DEF Covered

\* A PE that receives an event goes on from the earlier of its minimum and the
\* time of the event.
LEMMA MessageConsumed ==
  ASSUME IInv, NEW p \in PE, NEW h \in Phase, NEW t \in EventTime, net[h][p][t] > 0
  PROVE  Consumed(p, Earlier(low[p], t), [net EXCEPT ![h] = Take(net[h], p, t)])
<1> DEFINE f == Earlier(low[p], t)
           n == [net EXCEPT ![h] = Take(net[h], p, t)]
<1>1. /\ low[p] \in Time /\ net \in [Phase -> Flights]
      /\ net[h] \in Flights /\ TypeOK /\ \A q \in PE : Staged(q)
  BY DEF IInv, TypeOK
<1>2. f \in Time /\ f <= low[p] /\ f <= t /\ (f = low[p] \/ f = t)
  <2>1. t \in Time /\ t \in Nat /\ low[p] \in Nat
    BY <1>1, EventTimes
  <2>2. QED
    BY <1>1, <2>1 DEF Earlier
<1>3. /\ Take(net[h], p, t) \in Flights
      /\ \A q \in PE, u \in EventTime :
           Take(net[h], p, t)[q][u] = IF q = p /\ u = t THEN net[h][q][u] - 1 ELSE net[h][q][u]
  BY <1>1, TakeType
<1>4. n \in [Phase -> Flights] /\ n[h] = Take(net[h], p, t) /\ \A k \in Phase : k # h => n[k] = net[k]
  BY <1>1, <1>3
<1>5. ASSUME NEW k \in Phase, NEW q \in PE, NEW u \in EventTime PROVE n[k][q][u] <= net[k][q][u]
  <2>1. net[k][q][u] \in Nat
    BY <1>1 DEF Flights
  <2>2. QED
    BY <1>3, <1>4, <2>1
<1>6. ASSUME NEW g \in Time, Floor(g, low, net) PROVE g <= f
  BY <1>2, <1>6 DEF Floor
<1>7. ASSUME Settled(p) PROVE Covered(f)
  <2>1. Covered(t)
    BY <1>7, SettledCovers
  <2>2. Covered(low[p])
    BY <1>7 DEF IInv, Tracked
  <2>3. QED
    BY <1>2, <2>1, <2>2
<1> HIDE DEF f, n
<1>8. Consumed(p, f, n)
  BY <1>2, <1>4, <1>5, <1>6, <1>7 DEF Consumed
<1>9. QED
  BY <1>8 DEF f, n

\* A PE sends S, and may begin the next round.
Sends(p, f, n, S) ==
  /\ S \in SUBSET (PE \X EventTime)
  /\ \A s \in S : s[2] >= f
  /\ \E x \in f..EndTime : low' = [low EXCEPT ![p] = x]
  /\ LET h == manager[p].current_phase IN net' = [n EXCEPT ![h] = Put(n[h], S)]
  /\ UNCHANGED <<completions, contributions, results>>
  /\ LET M == produce(manager[p], S) IN
     \/ manager' = [manager EXCEPT ![p] = M] /\ detectors' = detectors
     \/ /\ Ready(M)
        /\ manager' = [manager EXCEPT ![p] = enter_phase(M)]
        /\ done(p, M.current_phase)

\* produce() for a set of messages: min_sent becomes the least of it and of
\* their times.
LEMMA Produced ==
  ASSUME NEW m \in Manager, NEW S \in SUBSET (PE \X EventTime)
  PROVE  LET M == produce(m, S) IN
         /\ M \in Manager
         /\ M.current_phase = m.current_phase /\ M.next_phase = m.next_phase
         /\ M.detector_ready = m.detector_ready /\ M.lb_cnt = m.lb_cnt
         /\ M.min_sent <= m.min_sent /\ \A s \in S : M.min_sent <= s[2]
         /\ \A g \in Time : g <= m.min_sent /\ (\A s \in S : g <= s[2]) => g <= M.min_sent
<1> DEFINE T == {m.min_sent} \union {s[2] : s \in S}
           M == produce(m, S)
<1>1. m.min_sent \in Time /\ \A s \in S : s[2] \in Time
  BY EventTimes DEF Manager
<1>2. T \in SUBSET Nat /\ T # {} /\ T \in SUBSET Time
  BY <1>1, EventTimes
<1>3. Min(T) \in T /\ \A x \in T : Min(T) <= x
  <2> HIDE DEF T
  <2>1. QED
    BY <1>2, MinIsLeast
<1>4. Min(T) \in Time /\ Min(T) <= m.min_sent /\ \A s \in S : Min(T) <= s[2]
  BY <1>2, <1>3
<1>5. \A g \in Time : g <= m.min_sent /\ (\A s \in S : g <= s[2]) => g <= Min(T)
  BY <1>3
<1>6. M = [m EXCEPT !.min_sent = Min(T)]
  BY DEF produce
<1> HIDE DEF T, M
<1>7. /\ M \in Manager /\ M.min_sent = Min(T)
      /\ M.current_phase = m.current_phase /\ M.next_phase = m.next_phase
      /\ M.detector_ready = m.detector_ready /\ M.lb_cnt = m.lb_cnt
  BY <1>4, <1>6 DEF Manager
<1>8. QED
  BY <1>4, <1>5, <1>7 DEF M

\* gvt_begin() of a PE that is in no round.
LEMMA Entered ==
  ASSUME Phases = 2, NEW m \in Manager
  PROVE  LET b == enter_phase(m) IN
         /\ b \in Manager /\ b.current_phase = m.next_phase
         /\ b.next_phase = NextPhase(m.next_phase)
         /\ b.detector_ready = [m.detector_ready EXCEPT ![m.current_phase] = FALSE]
         /\ b.min_sent = EndTime /\ b.lb_cnt = lb_trigger_counted(m.lb_cnt)
<1> DEFINE b == enter_phase(m)
<1>1. lb_trigger_counted(m.lb_cnt) \in 0..LBInterval
  BY LBAssumption DEF lb_trigger_counted, Manager
<1>2. NextPhase(m.next_phase) \in Phase /\ m.next_phase \in Phase
  BY Alternate DEF Manager
<1>3. EndTime \in Time
  BY EndTimeAssumption DEF Time
<1>4. [m.detector_ready EXCEPT ![m.current_phase] = FALSE] \in [Phase -> BOOLEAN]
  BY DEF Manager
<1>5. QED
  BY <1>1, <1>2, <1>3, <1>4 DEF enter_phase, Manager

\* What such a step leaves of the managers and the detectors: the sender may
\* declare itself done with its phase and enter the other one.
LEMMA SendsStages ==
  ASSUME Phases = 2, IInv, NEW p \in PE, NEW f, NEW n, NEW S, Consumed(p, f, n), Sends(p, f, n, S)
  PROVE  /\ manager' \in [PE -> Manager] /\ detectors' \in [Phase -> Detector]
         /\ \A q \in PE : q # p => manager'[q] = manager[q]
         /\ \A q \in PE, h \in Phase : q # p => (q \in detectors'[h].done <=> q \in detectors[h].done)
         /\ \/ /\ detectors' = detectors
               /\ manager'[p].current_phase = manager[p].current_phase
               /\ manager'[p].next_phase = manager[p].next_phase
               /\ manager'[p].detector_ready = manager[p].detector_ready
               /\ manager'[p].lb_cnt = manager[p].lb_cnt
               /\ manager'[p].min_sent <= manager[p].min_sent
               /\ \A s \in S : manager'[p].min_sent <= s[2]
               /\ \A g \in Time : g <= manager[p].min_sent /\ g <= f => g <= manager'[p].min_sent
            \/ /\ Ready(manager[p])
               /\ manager'[p].current_phase = manager[p].next_phase
               /\ manager'[p].next_phase = manager[p].current_phase
               /\ manager'[p].detector_ready
                    = [manager[p].detector_ready EXCEPT ![manager[p].current_phase] = FALSE]
               /\ manager'[p].lb_cnt = lb_trigger_counted(manager[p].lb_cnt)
               /\ manager'[p].min_sent = EndTime
               /\ p \in detectors'[manager[p].current_phase].done
               /\ detectors'[manager[p].next_phase] = detectors[manager[p].next_phase]
<1> DEFINE M == produce(manager[p], S)
           b == enter_phase(M)
           h0 == manager[p].current_phase
<1>1. /\ manager \in [PE -> Manager] /\ manager[p] \in Manager /\ detectors \in [Phase -> Detector]
      /\ Staged(p) /\ f \in Time
  BY DEF IInv, TypeOK, Consumed
<1>2. S \in SUBSET (PE \X EventTime) /\ \A s \in S : s[2] >= f
  BY DEF Sends
<1>3. /\ M \in Manager
      /\ M.current_phase = h0 /\ M.next_phase = manager[p].next_phase
      /\ M.detector_ready = manager[p].detector_ready /\ M.lb_cnt = manager[p].lb_cnt
      /\ M.min_sent <= manager[p].min_sent /\ \A s \in S : M.min_sent <= s[2]
      /\ \A g \in Time : g <= manager[p].min_sent /\ (\A s \in S : g <= s[2]) => g <= M.min_sent
  BY <1>1, <1>2, Produced
<1>4. \A g \in Time : g <= manager[p].min_sent /\ g <= f => g <= M.min_sent
  <2> SUFFICES ASSUME NEW g \in Time, g <= manager[p].min_sent, g <= f PROVE g <= M.min_sent
    OBVIOUS
  <2>1. ASSUME NEW s \in S PROVE g <= s[2]
    <3>1. s[2] \in Nat /\ g \in Nat /\ f \in Nat /\ s[2] >= f
      BY <1>1, <1>2, EventTimes
    <3>2. QED
      BY <3>1
  <2>2. QED
    BY <1>3, <2>1
<1>5. /\ b \in Manager /\ b.current_phase = M.next_phase /\ b.next_phase = NextPhase(M.next_phase)
      /\ b.detector_ready = [M.detector_ready EXCEPT ![M.current_phase] = FALSE]
      /\ b.min_sent = EndTime /\ b.lb_cnt = lb_trigger_counted(M.lb_cnt)
  <2> HIDE DEF M
  <2>1. QED
    BY <1>3, Entered
<1>6. /\ h0 \in Phase /\ manager[p].next_phase = NextPhase(h0)
      /\ NextPhase(h0) \in Phase /\ NextPhase(h0) # h0 /\ NextPhase(NextPhase(h0)) = h0
  <2>1. h0 \in Phase /\ manager[p].next_phase = NextPhase(h0)
    BY <1>1 DEF Staged, Manager
  <2>2. QED
    BY <2>1, Alternate
<1>7. \/ manager' = [manager EXCEPT ![p] = M] /\ detectors' = detectors
      \/ Ready(M) /\ manager' = [manager EXCEPT ![p] = b] /\ done(p, M.current_phase)
  BY DEF Sends
<1> HIDE DEF M, b, h0
<1>8. CASE manager' = [manager EXCEPT ![p] = M] /\ detectors' = detectors
  <2>1. manager'[p] = M /\ manager' \in [PE -> Manager] /\ \A q \in PE : q # p => manager'[q] = manager[q]
    BY <1>1, <1>3, <1>8
  <2>2. QED
    BY <1>1, <1>3, <1>4, <1>8, <2>1 DEF h0
<1>9. CASE Ready(M) /\ manager' = [manager EXCEPT ![p] = b] /\ done(p, M.current_phase)
  <2>1. manager'[p] = b /\ manager' \in [PE -> Manager] /\ \A q \in PE : q # p => manager'[q] = manager[q]
    BY <1>1, <1>5, <1>9
  <2> DEFINE d == [detecting |-> detectors[h0].detecting \/ p = Root,
                   done |-> detectors[h0].done \union {p}]
  <2>2. detectors' = [detectors EXCEPT ![h0] = d]
    BY <1>3, <1>9 DEF done
  <2>3. d \in Detector /\ d.done = detectors[h0].done \union {p}
    <3>1. detectors[h0] \in Detector
      BY <1>1, <1>6
    <3>2. QED
      BY <3>1 DEF Detector
  <2> HIDE DEF d
  <2>4. /\ detectors' \in [Phase -> Detector] /\ detectors'[h0] = d
        /\ \A h \in Phase : h # h0 => detectors'[h] = detectors[h]
    BY <1>1, <1>6, <2>2, <2>3
  <2>5. \A q \in PE, h \in Phase : q # p => (q \in detectors'[h].done <=> q \in detectors[h].done)
    BY <2>3, <2>4
  <2>6. Ready(manager[p])
    BY <1>3, <1>9 DEF Ready
  <2>7. p \in detectors'[h0].done /\ detectors'[manager[p].next_phase] = detectors[manager[p].next_phase]
    BY <1>6, <2>3, <2>4
  <2>8. /\ manager'[p].current_phase = manager[p].next_phase
        /\ manager'[p].next_phase = h0
        /\ manager'[p].detector_ready = [manager[p].detector_ready EXCEPT ![h0] = FALSE]
        /\ manager'[p].lb_cnt = lb_trigger_counted(manager[p].lb_cnt)
        /\ manager'[p].min_sent = EndTime
    BY <1>3, <1>5, <1>6, <2>1
  <2>9. QED
    BY <2>1, <2>4, <2>5, <2>6, <2>7, <2>8 DEF h0
<1>10. QED
  BY <1>7, <1>8, <1>9

\* A PE that works moves no PE along: the only thing that may change is that it
\* begins the next round itself.
LEMMA SendsPlaces ==
  ASSUME Phases = 2, IInv, NEW p \in PE, NEW f, NEW n, NEW S, Consumed(p, f, n), Sends(p, f, n, S)
  PROVE  /\ \A q \in PE : Staged(q)'
         /\ results' = results
         /\ \A q \in PE :
              /\ Settled(q)' <=> Settled(q)
              /\ Known(q)' <=> Known(q)
              /\ Ending(q)' <=> Ending(q)
              /\ Waiting(q) => Waiting(q)'
              /\ Detected(q)' = Detected(q)
              /\ InRound(q) => InRound(q)' /\ Cover(q)' <= Cover(q)
              /\ Active(q)' => Active(q) \/ Waiting(q)'
              /\ Active(q) => manager'[q].next_phase = manager[q].next_phase
              /\ contributions'[q] = contributions[q]
<1>1. /\ TypeOK /\ \A q \in PE : Staged(q) /\ manager[q] \in Manager
  BY DEF IInv, TypeOK
<1>2. /\ \A q \in PE : q # p => manager'[q] = manager[q]
      /\ \A q \in PE, h \in Phase : q # p => (q \in detectors'[h].done <=> q \in detectors[h].done)
      /\ manager' \in [PE -> Manager]
      /\ completions' = completions /\ contributions' = contributions /\ results' = results
  BY SendsStages DEF Sends
<1>3. ASSUME NEW q \in PE PROVE Cover(q) \in Nat
  BY <1>1, CoverIsTime, EventTimes
<1>4. \A q \in PE : /\ Settled(q)' <=> Settled(q)
                    /\ Known(q)' <=> Known(q)
                    /\ Ending(q)' <=> Ending(q)
                    /\ \A w, x, y, z : (Waiting(q)' <=> Waiting(q)) /\ At(q, w, x, y, z) => At(q, w, x, y, z)'
  BY <1>2 DEF Settled, Known, Called, Ending, At
<1>5. ASSUME NEW q \in PE, q # p
      PROVE  /\ Staged(q)'
             /\ Waiting(q)' <=> Waiting(q)
             /\ Detected(q)' = Detected(q)
             /\ InRound(q)' <=> InRound(q)
             /\ Cover(q)' = Cover(q)
             /\ Active(q)' <=> Active(q)
             /\ manager'[q] = manager[q]
  <2>1. manager'[q] = manager[q]
    BY <1>2, <1>5
  <2>2. /\ Active(q)' <=> Active(q)
        /\ Waiting(q)' <=> Waiting(q)
        /\ q \notin detectors'[manager[q].current_phase].done
    BY <1>1, <1>2, <1>5, <2>1 DEF Active, Waiting, Staged, Manager
  <2>3. Staged(q)
    BY <1>1
  <2>4. Staged(q)'
    BY <1>4, <2>1, <2>2, <2>3 DEF Staged
  <2>5. QED
    BY <1>2, <1>4, <2>1, <2>2, <2>4 DEF Detected, InRound, Cover
<1>6. /\ Staged(p)'
      /\ Waiting(p) => Waiting(p)'
      /\ Detected(p)' = Detected(p)
      /\ InRound(p) => InRound(p)' /\ Cover(p)' <= Cover(p)
      /\ Active(p)' => Active(p) \/ Waiting(p)'
      /\ Active(p) => manager'[p].next_phase = manager[p].next_phase
  <2>1. CASE /\ detectors' = detectors
             /\ manager'[p].current_phase = manager[p].current_phase
             /\ manager'[p].next_phase = manager[p].next_phase
             /\ manager'[p].detector_ready = manager[p].detector_ready
             /\ manager'[p].min_sent <= manager[p].min_sent
    <3>1. (Active(p)' <=> Active(p)) /\ (Waiting(p)' <=> Waiting(p))
      BY <2>1 DEF Active, Waiting, Ready
    <3>2. Staged(p)
      BY <1>1
    <3>3. Staged(p)'
      BY <1>4, <2>1, <3>1, <3>2 DEF Staged
    <3>4. Cover(p)' <= Cover(p)
      <4>1. CASE Settled(p)
        <5>1. Cover(p)' = Cover(p)
          BY <1>2, <1>4, <4>1 DEF Cover
        <5>2. QED
          BY <1>3, <5>1
      <4>2. CASE ~Settled(p)
        BY <1>4, <2>1, <4>2 DEF Cover
      <4>3. QED
        BY <4>1, <4>2
    <3>5. QED
      BY <1>4, <2>1, <3>1, <3>3, <3>4 DEF Detected, InRound
  <2>2. CASE /\ Ready(manager[p])
             /\ manager'[p].current_phase = manager[p].next_phase
             /\ manager'[p].next_phase = manager[p].current_phase
             /\ manager'[p].detector_ready
                  = [manager[p].detector_ready EXCEPT ![manager[p].current_phase] = FALSE]
             /\ p \in detectors'[manager[p].current_phase].done
             /\ detectors'[manager[p].next_phase] = detectors[manager[p].next_phase]
    <3> DEFINE h == manager[p].current_phase
               k == manager[p].next_phase
               r == manager[p].detector_ready
    <3>1. /\ h \in Phase /\ k = NextPhase(h) /\ r \in [Phase -> BOOLEAN] /\ k \in Phase
          /\ ~Active(p) /\ At(p, FALSE, 0, 0, 0)
      BY <1>1, <2>2 DEF Staged, Active, Manager
    <3>2. k # h /\ h = NextPhase(k)
      BY <3>1, Alternate
    <3>3. r[k] /\ manager'[p].detector_ready[h] = FALSE /\ manager'[p].detector_ready[k]
      BY <2>2, <3>1, <3>2 DEF Ready
    <3>4. Active(p)' /\ Waiting(p)' /\ ~Waiting(p)
      BY <2>2, <3>1, <3>3 DEF Active, Waiting, Ready, At
    <3>5. At(p, TRUE, 0, 0, 0)'
      BY <1>2, <3>1, <3>4 DEF At
    <3>6. p \notin detectors'[k].done
      BY <2>2, <3>4 DEF Waiting
    <3>7. Staged(p)'
      BY <2>2, <3>2, <3>3, <3>4, <3>5, <3>6 DEF Staged
    <3>8. ~Ending(p)
      BY <1>1, <3>1, Stages
    <3>9. Detected(p)' = Detected(p) /\ ~InRound(p)
      BY <1>4, <2>2, <3>1, <3>4, <3>8 DEF Detected, InRound
    <3>10. QED
      BY <3>1, <3>4, <3>7, <3>9
  <2>3. QED
    BY <2>1, <2>2, SendsStages
<1>7. QED
  <2>1. ASSUME NEW q \in PE
        PROVE /\ Staged(q)'
              /\ Waiting(q) => Waiting(q)'
              /\ Detected(q)' = Detected(q)
              /\ InRound(q) => InRound(q)' /\ Cover(q)' <= Cover(q)
              /\ Active(q)' => Active(q) \/ Waiting(q)'
              /\ Active(q) => manager'[q].next_phase = manager[q].next_phase
    <3>1. CASE q = p
      BY <1>6, <3>1
    <3>2. CASE q # p
      <4>1. Cover(q) <= Cover(q)
        BY <1>3
      <4>2. QED
        BY <1>5, <3>2, <4>1
    <3>3. QED
      BY <3>1, <3>2
  <2>2. QED
    BY <1>2, <1>4, <2>1

\* All it sends is in flight in the phase it was in.
LEMMA SendsInFlight ==
  ASSUME IInv, NEW p \in PE, NEW f, NEW n, NEW S, Consumed(p, f, n), Sends(p, f, n, S)
  PROVE  LET pp == manager[p].current_phase IN
         /\ pp \in Phase
         /\ net' \in [Phase -> Flights]
         /\ net' = [n EXCEPT ![pp] = Put(n[pp], S)]
         /\ \A h \in Phase, q \in PE, t \in EventTime :
              net'[h][q][t] = IF h = pp /\ <<q, t>> \in S THEN n[h][q][t] + 1 ELSE n[h][q][t]
         /\ \A h \in Phase, q \in PE, t \in EventTime :
              net'[h][q][t] > 0 => net[h][q][t] > 0 \/ (h = pp /\ <<q, t>> \in S)
<1> DEFINE pp == manager[p].current_phase
<1>1. /\ pp \in Phase /\ n \in [Phase -> Flights]
      /\ net \in [Phase -> Flights]
      /\ \A h \in Phase, q \in PE, t \in EventTime : n[h][q][t] <= net[h][q][t]
  BY DEF Consumed, IInv, TypeOK, Manager
<1>2. S \in SUBSET (PE \X EventTime) /\ net' = [n EXCEPT ![pp] = Put(n[pp], S)]
  BY <1>1 DEF Sends
<1> HIDE DEF pp
<1>3. /\ Put(n[pp], S) \in Flights
      /\ \A q \in PE, t \in EventTime :
           Put(n[pp], S)[q][t] = IF <<q, t>> \in S THEN n[pp][q][t] + 1 ELSE n[pp][q][t]
  BY <1>1, <1>2, PutType
<1>4. net' \in [Phase -> Flights] /\ net'[pp] = Put(n[pp], S)
      /\ \A h \in Phase : h # pp => net'[h] = n[h]
  BY <1>1, <1>2, <1>3
<1>5. ASSUME NEW h \in Phase, NEW q \in PE, NEW t \in EventTime
      PROVE  net'[h][q][t] = IF h = pp /\ <<q, t>> \in S THEN n[h][q][t] + 1 ELSE n[h][q][t]
  BY <1>3, <1>4
<1>6. ASSUME NEW h \in Phase, NEW q \in PE, NEW t \in EventTime, net'[h][q][t] > 0
      PROVE  net[h][q][t] > 0 \/ (h = pp /\ <<q, t>> \in S)
  <2>1. n[h][q][t] \in Nat /\ net[h][q][t] \in Nat /\ n[h][q][t] <= net[h][q][t]
    BY <1>1 DEF Flights
  <2>2. QED
    BY <1>5, <1>6, <2>1
<1>7. QED
  BY <1>1, <1>2, <1>4, <1>5, <1>6 DEF pp

\* As long as a PE has been called, every PE is in the round.
LEMMA KnownToOne ==
  ASSUME Phases = 2, TypeOK, \A q \in PE : Staged(q), \A r, q \in PE : Together(r, q),
         NEW p \in PE, NEW q \in PE, Known(q)
  PROVE  /\ InRound(p) /\ Active(p) /\ manager[p].next_phase \in Phase
         /\ Detected(p) = manager[p].next_phase
         /\ Detected(p) = manager[q].next_phase
         /\ manager[p].current_phase # manager[q].next_phase
<1>1. Known(p)
  BY DEF Together
<1>2. InRound(p) /\ InRound(q)
  BY <1>1, Stages DEF InRound, Known
<1>3. /\ Detected(p) = manager[p].next_phase /\ Detected(q) = manager[q].next_phase
      /\ Detected(p) = Detected(q)
  BY <1>2 DEF Detected, Together
<1>4. manager[p].current_phase \in Phase /\ manager[p].next_phase = NextPhase(manager[p].current_phase)
  BY DEF Staged, TypeOK, Manager
<1>5. QED
  BY <1>2, <1>3, <1>4, Alternate DEF InRound

\* It stays in step with the others, and a phase without messages stays so.
LEMMA SendsTogether ==
  ASSUME Phases = 2, IInv, NEW p \in PE, NEW f, NEW n, NEW S, Consumed(p, f, n), Sends(p, f, n, S)
  PROVE  (\A q, r \in PE : Together(q, r)') /\ Delivered'
<1>1. /\ results' = results
      /\ \A q \in PE :
           /\ Known(q)' <=> Known(q)
           /\ Ending(q)' <=> Ending(q)
           /\ Waiting(q) => Waiting(q)'
           /\ Detected(q)' = Detected(q)
           /\ Active(q)' => Active(q) \/ Waiting(q)'
           /\ Active(q) => manager'[q].next_phase = manager[q].next_phase
  BY SendsPlaces
<1>2. TypeOK /\ (\A q \in PE : Staged(q)) /\ (\A r, q \in PE : Together(r, q))
  BY DEF IInv
<1>2a. \A h \in Phase, q \in PE, t \in EventTime :
         net'[h][q][t] > 0 => net[h][q][t] > 0 \/ (h = manager[p].current_phase /\ <<q, t>> \in S)
  BY SendsInFlight
<1>3. ASSUME NEW q \in PE, NEW r \in PE PROVE Together(q, r)'
  <2>1. Detected(q)' = Detected(r)'
    BY <1>1, <1>2 DEF Together
  <2>2. Known(q)' => Known(r)'
    BY <1>1, <1>2 DEF Together
  <2>3. Ending(q)' => results'[r] = results'[q] \/ Waiting(r)' \/ ~Active(r)'
    <3>1. Ending(q) => results[r] = results[q] \/ Waiting(r) \/ ~Active(r)
      BY <1>2 DEF Together
    <3>2. QED
      BY <1>1, <3>1
  <2>4. QED
    BY <2>1, <2>2, <2>3 DEF Together
<1>4. ASSUME NEW q \in PE, Known(q)' PROVE NothingInFlight(net'[manager'[q].next_phase])
  <2>1. Known(q)
    BY <1>1, <1>4
  <2>2. /\ manager'[q].next_phase = manager[q].next_phase
        /\ manager[q].next_phase \in Phase
        /\ manager[p].current_phase # manager[q].next_phase
    BY <1>1, <1>2, <2>1, KnownToOne
  <2>3. NothingInFlight(net[manager[q].next_phase])
    BY <2>1 DEF IInv, Delivered
  <2>4. ASSUME NEW r \in PE, NEW t \in EventTime PROVE net'[manager[q].next_phase][r][t] = 0
    <3>1. ~(net[manager[q].next_phase][r][t] > 0)
      BY <2>3 DEF NothingInFlight
    <3>2. ~(net'[manager[q].next_phase][r][t] > 0)
      BY <1>2a, <2>2, <3>1
    <3>3. net'[manager[q].next_phase][r][t] \in Nat
      BY <2>2, SendsInFlight DEF Flights
    <3>4. QED
      BY <3>2, <3>3
  <2>5. QED
    BY <2>2, <2>4 DEF NothingInFlight
<1>5. QED
  BY <1>3, <1>4 DEF Delivered

\* What is in flight stays bounded by a minimum somebody still contributes.
LEMMA SendsTracked ==
  ASSUME Phases = 2, IInv, NEW p \in PE, NEW f, NEW n, NEW S, Consumed(p, f, n), Sends(p, f, n, S)
  PROVE  Tracked'
<1>1. /\ TypeOK /\ (\A q \in PE : Staged(q)) /\ (\A r, q \in PE : Together(r, q)) /\ Tracked
      /\ low \in [PE -> Time] /\ f \in Time
  BY DEF IInv, TypeOK, Consumed
<1>2. \A q \in PE : /\ Staged(q)'
                    /\ Settled(q)' <=> Settled(q)
                    /\ Detected(q)' = Detected(q)
                    /\ InRound(q) => InRound(q)' /\ Cover(q)' <= Cover(q)
                    /\ contributions'[q] = contributions[q]
  BY SendsPlaces
<1>3. manager' \in [PE -> Manager]
  BY SendsStages
<1>4. \A q \in PE : Cover(q) \in Time /\ Cover(q)' \in Time
  <2> SUFFICES ASSUME NEW q \in PE PROVE Cover(q) \in Time /\ Cover(q)' \in Time
    OBVIOUS
  <2>1. Settled(q) => contributions[q][1] \in Time
    BY <1>1, Stages
  <2>2. Cover(q) \in Time
    BY <1>1, CoverIsTime
  <2>3. QED
    BY <1>2, <1>3, <2>1, <2>2 DEF Cover, Manager
<1>5. ASSUME NEW t \in Time, Covered(t) PROVE \E r \in PE : InRound(r)' /\ Cover(r)' <= t
  <2>1. PICK q \in PE : InRound(q) /\ Cover(q) <= t
    BY <1>5 DEF Covered
  <2>2. Cover(q) \in Nat /\ Cover(q)' \in Nat /\ t \in Nat
    BY <1>4, EventTimes
  <2>3. InRound(q)' /\ Cover(q)' <= Cover(q)
    BY <1>2, <2>1
  <2>4. Cover(q)' <= t
    BY <2>1, <2>2, <2>3
  <2>5. QED
    BY <2>3, <2>4
<1>6. PICK x \in f..EndTime : low' = [low EXCEPT ![p] = x]
  BY DEF Sends
<1>7. x \in Time /\ f <= x
  BY <1>1, <1>6, EndTimeAssumption DEF Time
<1>8. ASSUME NEW q \in PE, Settled(q)' PROVE \E r \in PE : InRound(r)' /\ Cover(r)' <= low'[q]
  <2>1. Settled(q)
    BY <1>2, <1>8
  <2>2. Covered(low[q])
    BY <1>1, <2>1 DEF Tracked
  <2>3. CASE q = p
    <3>1. Covered(f)
      BY <2>1, <2>3 DEF Consumed
    <3>2. Covered(x)
      BY <1>1, <1>7, <3>1, CoveredUp
    <3>3. low'[q] = x
      BY <1>1, <1>6, <2>3
    <3>4. QED
      BY <1>5, <1>7, <3>2, <3>3
  <2>4. CASE q # p
    <3>1. low'[q] = low[q] /\ low[q] \in Time
      BY <1>1, <1>6, <2>4
    <3>2. QED
      BY <1>5, <2>2, <3>1
  <2>5. QED
    BY <2>3, <2>4
<1>9. ASSUME NEW h \in Phase, NEW q \in PE, NEW t \in EventTime, net'[h][q][t] > 0
      PROVE  h = Detected(Root)' \/ \E r \in PE : InRound(r)' /\ Cover(r)' <= t
  <2> DEFINE pp == manager[p].current_phase
  <2>1. Detected(Root)' = Detected(Root) /\ Detected(Root) = Detected(p) /\ t \in Time
    BY <1>1, <1>2, RootAssumption, EventTimes DEF Together
  <2>2. net[h][q][t] > 0 \/ (h = pp /\ <<q, t>> \in S)
    BY <1>9, SendsInFlight
  <2>3. CASE net[h][q][t] > 0
    BY <1>1, <1>5, <2>1, <2>3 DEF Tracked
  <2>4. CASE h = pp /\ <<q, t>> \in S
    <3>1. CASE ~InRound(p)
      BY <2>1, <2>4, <3>1 DEF Detected
    <3>2. CASE InRound(p) /\ Settled(p)
      <4>1. Covered(f)
        BY <3>2 DEF Consumed
      <4>2. f <= t
        <5>1. <<q, t>>[2] >= f
          BY <2>4 DEF Sends
        <5>2. t \in Nat /\ f \in Nat
          BY <1>1, <2>1, EventTimes
        <5>3. QED
          BY <5>1, <5>2
      <4>3. QED
        BY <1>1, <1>5, <2>1, <4>1, <4>2, CoveredUp
    <3>3. CASE InRound(p) /\ ~Settled(p)
      <4>1. ~Ready(manager[p])
        BY <3>3 DEF InRound, Active
      <4>2. \A s \in S : manager'[p].min_sent <= s[2]
        BY <4>1, SendsStages
      <4>3. <<q, t>>[2] = t /\ manager'[p].min_sent <= <<q, t>>[2]
        BY <2>4, <4>2
      <4>4. Cover(p)' <= t
        BY <1>2, <3>3, <4>3 DEF Cover
      <4>5. InRound(p)'
        BY <1>2, <3>3
      <4>6. QED
        BY <4>4, <4>5
    <3>4. QED
      BY <3>1, <3>2, <3>3
  <2>5. QED
    BY <2>2, <2>3, <2>4
<1>10. QED
  BY <1>8, <1>9 DEF Tracked, Covered

\* Every floor stays one, and a contributed minimum stays below what is left.
LEMMA SendsFloors ==
  ASSUME Phases = 2, IInv, NEW p \in PE, NEW f, NEW n, NEW S, Consumed(p, f, n), Sends(p, f, n, S),
         \A q \in PE : sched'[q].g_last_gvt = sched[q].g_last_gvt
  PROVE  low' \in [PE -> Time] /\ Floors'
<1>0. \A q \in PE : q # p => manager'[q] = manager[q]
  BY SendsStages
<1>1. /\ TypeOK /\ (\A q \in PE : Staged(q)) /\ low \in [PE -> Time] /\ f \in Time
      /\ manager \in [PE -> Manager] /\ sched \in [PE -> Scheduler]
  BY DEF IInv, TypeOK, Consumed
<1>2. PICK x \in f..EndTime : low' = [low EXCEPT ![p] = x]
  BY DEF Sends
<1>3. x \in Time /\ f <= x
  BY <1>1, <1>2, EndTimeAssumption DEF Time
<1>4. low' \in [PE -> Time]
  BY <1>1, <1>2, <1>3
<1>5. ASSUME NEW g \in Time, Floor(g, low, net) PROVE Floor(g, low', net')
  <2>1. g <= f
    BY <1>5 DEF Consumed
  <2>2. g \in Nat /\ f \in Nat /\ x \in Nat
    BY <1>1, <1>3, EventTimes
  <2>3. ASSUME NEW q \in PE PROVE g <= low'[q]
    <3>1. CASE q = p
      <4>1. low'[q] = x
        BY <1>1, <1>2, <3>1
      <4>2. QED
        BY <1>3, <2>1, <2>2, <4>1
    <3>2. CASE q # p
      <4>1. low'[q] = low[q]
        BY <1>1, <1>2, <3>2
      <4>2. QED
        BY <1>5, <4>1 DEF Floor
    <3>3. QED
      BY <3>1, <3>2
  <2>4. ASSUME NEW h \in Phase, NEW q \in PE, NEW t \in EventTime, net'[h][q][t] > 0 PROVE g <= t
    <3>1. net[h][q][t] > 0 \/ <<q, t>> \in S
      BY <2>4, SendsInFlight
    <3>2. CASE net[h][q][t] > 0
      BY <1>5, <3>2 DEF Floor
    <3>3. CASE <<q, t>> \in S
      <4>1. <<q, t>>[2] >= f
        BY <3>3 DEF Sends
      <4>2. t \in Nat /\ t >= f
        BY <4>1, EventTimes
      <4>3. QED
        BY <2>1, <2>2, <4>2
    <3>4. QED
      BY <3>1, <3>2, <3>3
  <2>5. QED
    BY <2>3, <2>4 DEF Floor
<1>6. ASSUME NEW g \in Time, Bounded(g) PROVE Bounded(g)'
  <2>1. Floor(g, low, net) /\ Floor(g, low', net')
    BY <1>5, <1>6 DEF Bounded
  <2>2. ASSUME NEW q \in PE, InRound(q)' PROVE g <= manager'[q].min_sent
    <3>1. Ending(q)' <=> Ending(q)
      BY SendsPlaces
    <3>2. InRound(q) => g <= manager[q].min_sent
      BY <1>6 DEF Bounded
    <3>3. CASE q = p
      <4>1. g <= f /\ g <= EndTime
        BY <2>1, EndTimeAssumption DEF Consumed, Time
      <4>2. CASE manager'[p].min_sent = EndTime
        BY <3>3, <4>1, <4>2
      <4>3. CASE manager'[p].min_sent # EndTime
        <5>1. /\ manager'[p].next_phase = manager[p].next_phase
              /\ manager'[p].detector_ready = manager[p].detector_ready
              /\ \A g2 \in Time : g2 <= manager[p].min_sent /\ g2 <= f => g2 <= manager'[p].min_sent
          BY <4>3, SendsStages
        <5>2. InRound(p)
          BY <2>2, <3>1, <3>3, <5>1 DEF InRound, Active, Ready
        <5>3. QED
          BY <3>2, <3>3, <4>1, <5>1, <5>2
      <4>4. QED
        BY <4>2, <4>3
    <3>4. CASE q # p
      <4>1. manager'[q] = manager[q]
        BY <1>0, <3>4
      <4>2. QED
        BY <2>2, <3>1, <3>2, <4>1 DEF InRound, Active
    <3>5. QED
      BY <3>3, <3>4
  <2>3. ASSUME NEW q \in PE, Settled(q)' PROVE g <= contributions'[q][1]
    <3>1. Settled(q) /\ contributions'[q] = contributions[q]
      BY <2>3, SendsPlaces
    <3>2. QED
      BY <1>6, <3>1 DEF Bounded
  <2>4. QED
    BY <2>1, <2>2, <2>3 DEF Bounded
<1>7. ASSUME NEW q \in PE
      PROVE  /\ \A g \in Time : Given(q, g)' => Bounded(g)'
             /\ Ending(q)' => sched'[q].g_last_gvt <= results'[q][1]
  <2>1. results' = results /\ (Ending(q)' <=> Ending(q))
    BY SendsPlaces
  <2>2. \A g \in Time : Given(q, g)' => Given(q, g)
    BY <2>1 DEF Given
  <2>3. QED
    BY <1>6, <2>1, <2>2 DEF IInv, Floors
<1>8. QED
  BY <1>4, <1>7 DEF Floors

-----------------------------------------------------------------------------
(***************************************************************************)
(* Each action keeps the invariant.                                        *)
(***************************************************************************)

\* A step that only changes p's scheduler and does what Sends says.
LEMMA SendsKeep ==
  ASSUME Phases = 2, IInv, NEW p \in PE, NEW f, NEW n, NEW S, Consumed(p, f, n), Sends(p, f, n, S),
         \A q \in PE : q # p => sched'[q] = sched[q],
         sched' \in [PE -> Scheduler], sched'[p].g_last_gvt = sched[p].g_last_gvt,
         Stopped(p)'
  PROVE  IInv'
<1>1. \A q \in PE : sched'[q].g_last_gvt = sched[q].g_last_gvt
  OBVIOUS
<1>2. TypeOK'
  <2>1. manager' \in [PE -> Manager] /\ detectors' \in [Phase -> Detector]
    BY SendsStages
  <2>2. net' \in [Phase -> Flights]
    BY SendsInFlight
  <2>3. low' \in [PE -> Time]
    BY <1>1, SendsFloors
  <2>4. UNCHANGED <<completions, contributions, results>>
    BY DEF Sends
  <2>5. QED
    BY <2>1, <2>2, <2>3, <2>4 DEF IInv, TypeOK
<1>3. ASSUME NEW q \in PE, q # p PROVE Stopped(q)'
  <2>1. manager'[q] = manager[q] /\ sched'[q] = sched[q]
    BY <1>3, SendsStages
  <2>2. Stopped(q)
    BY DEF IInv
  <2>3. QED
    BY <1>3, <2>1, <2>2 DEF Stopped, Active
<1>4. \A q \in PE : Staged(q)'
  BY SendsPlaces
<1>5. (\A q, r \in PE : Together(q, r)') /\ Delivered'
  BY SendsTogether
<1>6. Tracked'
  BY SendsTracked
<1>7. Floors'
  BY <1>1, SendsFloors
<1>8. QED
  BY <1>2, <1>3, <1>4, <1>5, <1>6, <1>7 DEF IInv

\* What iteration_done() makes of the scheduler, for each PE that executes.
LEMMA ExecuteSched ==
  ASSUME Phases = 2, IInv, ~LBContinuous, NEW p \in PE, sched[p].execs > 0,
         NEW m \in Manager, m.current_phase = manager[p].current_phase,
         m.next_phase = manager[p].next_phase, m.detector_ready = manager[p].detector_ready,
         m.lb_cnt = manager[p].lb_cnt,
         iteration_done(p, m)
  PROVE  /\ sched' \in [PE -> Scheduler] /\ \A q \in PE : q # p => sched'[q] = sched[q]
         /\ sched'[p].g_last_gvt = sched[p].g_last_gvt
         /\ Stopped(p)'
         /\ \/ manager' = [manager EXCEPT ![p] = m] /\ detectors' = detectors
            \/ /\ Ready(m)
               /\ manager' = [manager EXCEPT ![p] = enter_phase(m)]
               /\ done(p, m.current_phase)
<1> DEFINE s == iteration_counted(sched[p])
           b == gvt_begin(m)
           r == gvt_trigger_reset(s)
<1>1. /\ sched \in [PE -> Scheduler] /\ manager \in [PE -> Manager] /\ Stopped(p)
  BY DEF IInv, TypeOK
<1>2. sched[p].running /\ sched[p].execs = 1
  BY <1>1 DEF Stopped
<1>3. /\ ~gvt_trigger_ready(s) => s \in Scheduler
      /\ r \in Scheduler
      /\ ~s.running /\ s.execs = 0 /\ s.mode = sched[p].mode /\ s.g_last_gvt = sched[p].g_last_gvt
      /\ ~r.running /\ r.execs = 0 /\ r.mode = sched[p].mode /\ r.g_last_gvt = sched[p].g_last_gvt
  BY <1>1, <1>2, IterationDone
<1>4. /\ sched[p].mode \notin {"lb", "lbdone"}
      /\ ~Ready(m) => ~lb_trigger_ready(m.lb_cnt)
  BY <1>1, <1>2 DEF Stopped, Active, Ready
<1>5. CASE ~gvt_trigger_ready(s)
  <2>1. /\ manager' = [manager EXCEPT ![p] = m] /\ detectors' = detectors
        /\ sched' = [sched EXCEPT ![p] = next_iteration(s)]
    BY <1>5 DEF iteration_done
  <2> HIDE DEF s
  <2>2. /\ next_iteration(s) \in Scheduler /\ next_iteration(s).running
        /\ next_iteration(s).execs = 1 /\ next_iteration(s).mode = sched[p].mode
        /\ next_iteration(s).g_last_gvt = sched[p].g_last_gvt
    BY <1>3, <1>5, NextIteration
  <2>3. manager'[p] = m /\ sched'[p] = next_iteration(s)
    BY <1>1, <2>1
  <2>4. Stopped(p)'
    BY <1>4, <2>2, <2>3 DEF Stopped, Active
  <2>5. QED
    BY <1>1, <2>1, <2>2, <2>3, <2>4
<1>6. CASE gvt_trigger_ready(s)
  <2>1. /\ manager' = [manager EXCEPT ![p] = b]
        /\ IF Ready(m) THEN done(p, m.current_phase) ELSE detectors' = detectors
        /\ sched' = [sched EXCEPT ![p] = IF Resumes(b) THEN gvt_resume(r) ELSE r]
    BY <1>6 DEF iteration_done
  <2>2. b = IF Ready(m) THEN enter_phase(m) ELSE m
    BY DEF gvt_begin
  <2> HIDE DEF s, r, b
  <2>3. /\ sched'[p] = IF Resumes(b) THEN gvt_resume(r) ELSE r
        /\ manager'[p] = b /\ \A q \in PE : q # p => sched'[q] = sched[q]
    BY <1>1, <2>1
  <2>4. /\ gvt_resume(r) \in Scheduler
        /\ gvt_resume(r).execs = (IF gvt_resume(r).running THEN 1 ELSE 0)
        /\ gvt_resume(r).mode = sched[p].mode /\ gvt_resume(r).g_last_gvt = sched[p].g_last_gvt
    BY <1>3, NextIteration DEF gvt_resume
  <2>5. Resumes(b) <=> ~lb_trigger_ready(b.lb_cnt)
    BY DEF Resumes
  <2>6. Stopped(p)'
    BY <1>3, <1>4, <2>3, <2>4, <2>5 DEF Stopped, Active
  <2>7. sched' \in [PE -> Scheduler] /\ sched'[p].g_last_gvt = sched[p].g_last_gvt
    BY <1>1, <1>3, <2>1, <2>3, <2>4
  <2>8. \/ manager' = [manager EXCEPT ![p] = m] /\ detectors' = detectors
        \/ /\ Ready(m)
           /\ manager' = [manager EXCEPT ![p] = enter_phase(m)]
           /\ done(p, m.current_phase)
    BY <2>1, <2>2
  <2>9. QED
    BY <2>3, <2>6, <2>7, <2>8
<1>7. QED
  BY <1>5, <1>6

\* execute(), with the gvt_begin() at its end.
LEMMA ExecuteIInv ==
  ASSUME Phases = 2, IInv, ~LBContinuous, NEW p \in PE, execute(p)
  PROVE  IInv'
<1>1. PICK S \in Emissions(manager[p], net, low[p]) :
        works(p, S) /\ iteration_done(p, produce(manager[p], S))
  BY DEF execute
<1>2. /\ low[p] \in Time /\ manager[p] \in Manager /\ sched[p].execs > 0
      /\ UNCHANGED <<completions, contributions, results>>
  BY DEF IInv, TypeOK, execute
<1>3. S \in SUBSET (PE \X EventTime) /\ \A s \in S : s[2] >= low[p]
  BY <1>2, EmissionsFrom DEF Emissions
<1> DEFINE M == produce(manager[p], S)
<1>4. /\ M \in Manager /\ M.current_phase = manager[p].current_phase
      /\ M.next_phase = manager[p].next_phase /\ M.detector_ready = manager[p].detector_ready
      /\ M.lb_cnt = manager[p].lb_cnt
  BY <1>2, <1>3, Produced
<1>5. iteration_done(p, M)
  BY <1>1
<1> HIDE DEF M
<1>6. /\ sched' \in [PE -> Scheduler] /\ \A q \in PE : q # p => sched'[q] = sched[q]
      /\ sched'[p].g_last_gvt = sched[p].g_last_gvt
      /\ Stopped(p)'
      /\ \/ manager' = [manager EXCEPT ![p] = M] /\ detectors' = detectors
         \/ /\ Ready(M)
            /\ manager' = [manager EXCEPT ![p] = enter_phase(M)]
            /\ done(p, M.current_phase)
  BY <1>2, <1>4, <1>5, ExecuteSched
<1>7. Sends(p, low[p], net, S)
  BY <1>1, <1>2, <1>3, <1>6 DEF Sends, works, M
<1>8. QED
  BY <1>6, <1>7, NothingConsumed, SendsKeep

\* The arrival of an event, which begins no round.
LEMMA ReceiveIInv ==
  ASSUME Phases = 2, IInv, NEW p \in PE, NEW h \in Phase, NEW t \in EventTime, receive(p, h, t)
  PROVE  IInv'
<1> DEFINE f == Earlier(low[p], t)
           n == [net EXCEPT ![h] = Take(net[h], p, t)]
           own == manager[p].current_phase
<1>1. /\ net[h][p][t] > 0
      /\ \E x \in f..EndTime : low' = [low EXCEPT ![p] = x]
      /\ UNCHANGED <<sched, detectors, completions, contributions, results>>
  BY DEF receive
<1>2. PICK S \in Emissions(manager[p], n, t) :
           /\ net' = [n EXCEPT ![own] = Put(n[own], S)]
           /\ manager' = [manager EXCEPT ![p] = produce(manager[p], S)]
  BY DEF receive
<1>3. Consumed(p, f, n)
  BY <1>1, MessageConsumed
<1>4. low[p] \in Time /\ t \in Time /\ manager[p] \in Manager /\ manager \in [PE -> Manager]
  BY EventTimes DEF IInv, TypeOK
<1> HIDE DEF n
<1>5. S \in SUBSET (PE \X EventTime) /\ \A s \in S : s[2] >= t
  BY <1>4, EmissionsFrom DEF Emissions
<1>6. \A s \in S : s[2] >= f
  <2> SUFFICES ASSUME NEW s \in S PROVE s[2] >= f
    OBVIOUS
  <2>1. s[2] >= t /\ s[2] \in Nat /\ t \in Nat /\ low[p] \in Nat
    BY <1>4, <1>5, EventTimes
  <2>2. QED
    BY <2>1 DEF Earlier
<1> HIDE DEF f
<1>7. Sends(p, f, n, S)
  BY <1>1, <1>2, <1>5, <1>6 DEF Sends
<1>8. Stopped(p)'
  <2>1. /\ produce(manager[p], S).next_phase = manager[p].next_phase
        /\ produce(manager[p], S).detector_ready = manager[p].detector_ready
        /\ produce(manager[p], S).lb_cnt = manager[p].lb_cnt
    BY <1>4, <1>5, Produced
  <2>2. manager'[p] = produce(manager[p], S)
    BY <1>2, <1>4
  <2>3. (Active(p)' <=> Active(p)) /\ manager'[p].lb_cnt = manager[p].lb_cnt
    BY <2>1, <2>2 DEF Active, Ready
  <2>4. sched' = sched /\ Stopped(p)
    BY <1>1 DEF IInv
  <2>5. QED
    BY <2>3, <2>4 DEF Stopped
<1>9. sched' = sched /\ sched' \in [PE -> Scheduler]
  BY <1>1 DEF IInv, TypeOK
<1>10. QED
  BY <1>3, <1>7, <1>8, <1>9, SendsKeep

\* A step that changes schedulers and nothing else.
LEMMA OnlySchedulers ==
  ASSUME IInv, UNCHANGED <<manager, low, net, detectors, completions, contributions, results>>,
         sched' \in [PE -> Scheduler], \A q \in PE : sched'[q].g_last_gvt = sched[q].g_last_gvt,
         \A q \in PE : Stopped(q)'
  PROVE  IInv'
<1>1. TypeOK'
  BY DEF IInv, TypeOK
<1>2. \A q \in PE : /\ Active(q)' <=> Active(q)
                    /\ Waiting(q)' <=> Waiting(q)
                    /\ Called(q)' <=> Called(q)
                    /\ Settled(q)' <=> Settled(q)
                    /\ Ending(q)' <=> Ending(q)
  BY DEF Active, Waiting, Called, Settled, Ending
<1>3. \A q \in PE : /\ InRound(q)' <=> InRound(q)
                    /\ Detected(q)' = Detected(q)
                    /\ Known(q)' <=> Known(q)
                    /\ Cover(q)' = Cover(q)
  BY <1>2 DEF InRound, Detected, Known, Cover
<1>4. \A q \in PE : Staged(q)'
  BY <1>2 DEF IInv, Staged, At
<1>5. \A q, r \in PE : Together(q, r)'
  BY <1>2, <1>3 DEF IInv, Together
<1>6. Delivered' /\ Tracked'
  BY <1>2, <1>3, RootAssumption DEF IInv, Delivered, Tracked, Covered
<1>7. Floors'
  <2>1. \A q \in PE, g \in Time : Given(q, g)' => Given(q, g)
    BY <1>2 DEF Given
  <2>2. \A g \in Time : Bounded(g) => Bounded(g)'
    BY <1>2, <1>3 DEF Bounded
  <2>3. \A q \in PE : Ending(q)' => sched'[q].g_last_gvt <= results'[q][1]
    BY <1>2 DEF IInv, Floors
  <2>4. QED
    BY <2>1, <2>2, <2>3 DEF IInv, Floors
<1>8. QED
  BY <1>1, <1>4, <1>5, <1>6, <1>7 DEF IInv

\* A PE that resumes is in no round; what it cancels is of the phase that is
\* not being detected yet, or that no PE has left.
LEMMA ResumeIInv ==
  ASSUME Phases = 2, IInv, NEW p \in PE, resume_balanced(p)
  PROVE  IInv'
<1>1. /\ sched[p].mode = "lbdone" /\ UNCHANGED <<detectors, completions, contributions, results>>
      /\ sched' = [sched EXCEPT ![p] = balancing_complete(sched[p])]
  BY DEF resume_balanced
<1>2. sched \in [PE -> Scheduler] /\ Stopped(p) /\ low[p] \in Time /\ manager[p] \in Manager
      /\ manager \in [PE -> Manager] /\ TypeOK
  BY DEF IInv, TypeOK
<1>3. /\ sched'[p] \in Scheduler /\ sched'[p].running /\ sched'[p].execs = 1
      /\ sched'[p].mode = "sim" /\ sched'[p].g_last_gvt = sched[p].g_last_gvt
  <2>1. sched'[p] = balancing_complete(sched[p])
    BY <1>1, <1>2
  <2>2. sched[p] \in Scheduler /\ sched[p].execs = IF sched[p].running THEN 1 ELSE 0
    BY <1>2 DEF Stopped
  <2>3. QED
    BY <2>1, <2>2, BalancingComplete
<1>4. sched' \in [PE -> Scheduler] /\ \A q \in PE : q # p => sched'[q] = sched[q]
  BY <1>1, <1>2, <1>3
<1>5. ~Active(p)
  BY <1>1, <1>2 DEF Stopped
<1>6. CASE Optimistic
  <2>1. PICK S \in Emissions(manager[p], net, low[p]) :
          works(p, S) /\ manager' = [manager EXCEPT ![p] = produce(manager[p], S)]
    BY <1>6 DEF resume_balanced
  <2>2. S \in SUBSET (PE \X EventTime) /\ \A s \in S : s[2] >= low[p]
    BY <1>2, EmissionsFrom DEF Emissions
  <2>3. /\ produce(manager[p], S).next_phase = manager[p].next_phase
        /\ produce(manager[p], S).detector_ready = manager[p].detector_ready
    BY <1>2, <2>2, Produced
  <2>4. manager'[p] = produce(manager[p], S)
    BY <1>2, <2>1
  <2>5. ~Active(p)'
    BY <1>5, <2>3, <2>4 DEF Active, Ready
  <2>6. Stopped(p)'
    BY <1>3, <2>5 DEF Stopped
  <2>7. Sends(p, low[p], net, S)
    BY <1>1, <2>1, <2>2 DEF Sends, works
  <2>8. QED
    BY <1>3, <1>4, <2>6, <2>7, NothingConsumed, SendsKeep
<1>7. CASE ~Optimistic
  <2>1. UNCHANGED <<manager, low, net, detectors, completions, contributions, results>>
    BY <1>1, <1>7 DEF resume_balanced
  <2>2. ASSUME NEW q \in PE PROVE Stopped(q)'
    <3>1. Stopped(q) /\ (Active(q)' <=> Active(q))
      BY <2>1 DEF IInv, Active
    <3>2. CASE q = p
      BY <1>3, <1>5, <3>1, <3>2 DEF Stopped
    <3>3. CASE q # p
      BY <1>4, <2>1, <3>1, <3>3 DEF Stopped
    <3>4. QED
      BY <3>2, <3>3
  <2>3. \A q \in PE : sched'[q].g_last_gvt = sched[q].g_last_gvt
    BY <1>3, <1>4
  <2>4. QED
    BY <1>4, <2>1, <2>2, <2>3, OnlySchedulers
<1>8. QED
  BY <1>6, <1>7

\* A detector completes: every PE has left its phase, and waits for it.
LEMMA CompleteIInv ==
  ASSUME Phases = 2, IInv, NEW h \in Phase, complete(h)
  PROVE  IInv'
<1>1. /\ TypeOK /\ (\A p \in PE : Staged(p) /\ Stopped(p))
      /\ (\A p, q \in PE : Together(p, q)) /\ Tracked /\ Floors
      /\ detectors \in [Phase -> Detector] /\ completions \in [PE -> Nat]
      /\ manager \in [PE -> Manager]
  BY DEF IInv, TypeOK
<1>2. /\ detectors[h].done = PE /\ NothingInFlight(net[h])
      /\ detectors' = [detectors EXCEPT ![h] = Idle]
      /\ completions' = [p \in PE |-> completions[p] + 1]
      /\ UNCHANGED <<sched, manager, low, net, contributions, results>>
  BY DEF complete
<1>3. /\ Idle \in Detector /\ Idle.done = {}
      /\ detectors' \in [Phase -> Detector] /\ detectors'[h].done = {}
      /\ \A k \in Phase : k # h => detectors'[k] = detectors[k]
  <2>1. Idle \in Detector /\ Idle.done = {}
    BY DEF Idle, Detector
  <2>2. QED
    BY <1>1, <1>2, <2>1
<1>4. \A p \in PE : /\ manager[p].current_phase \in Phase
                    /\ manager[p].current_phase # h /\ manager[p].next_phase = h
  <2> SUFFICES ASSUME NEW p \in PE
               PROVE  /\ manager[p].current_phase \in Phase
                      /\ manager[p].current_phase # h /\ manager[p].next_phase = h
    OBVIOUS
  <2>1. /\ manager[p].current_phase \in Phase
        /\ manager[p].next_phase = NextPhase(manager[p].current_phase)
        /\ p \notin detectors[manager[p].current_phase].done
    BY <1>1 DEF Staged, Manager
  <2>2. QED
    BY <1>2, <2>1, Alternate
<1>5. \A p \in PE : Waiting(p) /\ Active(p) /\ ~Called(p) /\ ~Settled(p) /\ ~Ending(p)
                    /\ completions[p] = 0
  <2> SUFFICES ASSUME NEW p \in PE
               PROVE  Waiting(p) /\ Active(p) /\ ~Called(p) /\ ~Settled(p) /\ ~Ending(p) /\ completions[p] = 0
    OBVIOUS
  <2>1. Waiting(p)
    BY <1>2, <1>4 DEF Waiting
  <2>2. QED
    BY <1>1, <2>1, Stages
<1>6. \A p \in PE : /\ Active(p)' /\ ~Waiting(p)' /\ Called(p)' /\ ~Settled(p)' /\ ~Ending(p)'
                    /\ completions'[p] = 1
  BY <1>2, <1>3, <1>4, <1>5 DEF Active, Waiting, Called, Settled, Ending
<1>7. \A p \in PE : /\ InRound(p)' /\ InRound(p) /\ Detected(p)' = Detected(p)
                    /\ Known(p)' /\ Cover(p)' = Cover(p)
  BY <1>2, <1>5, <1>6 DEF InRound, Detected, Known, Cover
<1>8. TypeOK'
  BY <1>1, <1>2, <1>3 DEF TypeOK
<1>9. ASSUME NEW p \in PE PROVE Staged(p)' /\ Stopped(p)'
  <2>1. Staged(p) /\ Stopped(p)
    BY <1>1
  <2>2. At(p, TRUE, 0, 0, 0)
    BY <1>5, <2>1 DEF Staged, At
  <2>3. At(p, FALSE, 1, 0, 0)'
    BY <1>2, <1>6, <2>2 DEF At
  <2>4. Staged(p)'
    BY <1>2, <1>3, <1>4, <1>6, <2>1, <2>3 DEF Staged
  <2>5. Stopped(p)'
    BY <1>2, <1>5, <1>6, <2>1 DEF Stopped
  <2>6. QED
    BY <2>4, <2>5
<1>10. \A p, q \in PE : Together(p, q)'
  BY <1>1, <1>6, <1>7 DEF Together
<1>11. Delivered'
  BY <1>2, <1>4 DEF Delivered
<1>12. Tracked'
  BY <1>1, <1>2, <1>6, <1>7, RootAssumption DEF Tracked, Covered
<1>13. Floors'
  <2>1. \A p \in PE, g \in Time : Given(p, g)' => Given(p, g)
    BY <1>2, <1>6 DEF Given
  <2>2. \A g \in Time : Bounded(g) => Bounded(g)'
    BY <1>2, <1>6, <1>7 DEF Bounded
  <2>3. QED
    BY <1>1, <1>6, <2>1, <2>2 DEF Floors
<1>14. QED
  BY <1>8, <1>9, <1>10, <1>11, <1>12, <1>13 DEF IInv

\* A PE that is called contributes a bound on all it holds and on all it has
\* sent since it began the round.
LEMMA ContributeIInv ==
  ASSUME Phases = 2, IInv, NEW p \in PE, gvt_contribute(p)
  PROVE  IInv'
<1> DEFINE c == MinimumKnown(p)
<1>1. /\ TypeOK /\ (\A q \in PE : Staged(q) /\ Stopped(q))
      /\ (\A q, r \in PE : Together(q, r)) /\ Delivered /\ Tracked /\ Floors
      /\ completions \in [PE -> Nat] /\ contributions \in [PE -> Seq(Time)]
      /\ low[p] \in Time /\ manager[p] \in Manager
  BY DEF IInv, TypeOK
<1>2. /\ completions' = [completions EXCEPT ![p] = completions[p] - 1]
      /\ contributions' = [contributions EXCEPT ![p] = Append(contributions[p], c)]
      /\ UNCHANGED <<sched, manager, low, net, detectors, results>>
  BY DEF gvt_contribute
<1>3. /\ Called(p) /\ completions[p] = 1 /\ Active(p) /\ ~Waiting(p) /\ ~Settled(p) /\ ~Ending(p)
      /\ contributions[p] = << >>
  <2>1. Called(p)
    BY DEF gvt_contribute, Called
  <2>2. QED
    BY <1>1, <2>1, Stages DEF Settled
<1>4. /\ c \in Time /\ c <= low[p] /\ c <= manager[p].min_sent
      /\ \A g \in Time : g <= low[p] /\ g <= manager[p].min_sent => g <= c
  <2>1. low[p] \in Nat /\ manager[p].min_sent \in Time /\ manager[p].min_sent \in Nat
    BY <1>1, EventTimes DEF Manager
  <2>2. QED
    BY <1>1, <2>1 DEF MinimumKnown, Earlier
<1> HIDE DEF c
<1>5. /\ completions' \in [PE -> Nat] /\ completions'[p] = 0
      /\ contributions' \in [PE -> Seq(Time)] /\ contributions'[p] = <<c>>
      /\ contributions'[p] # << >> /\ contributions'[p][1] = c /\ Len(contributions'[p]) = 1
      /\ \A q \in PE : q # p => completions'[q] = completions[q] /\ contributions'[q] = contributions[q]
  <2>1. <<c>> \in Seq(Time) /\ Append(<< >>, c) = <<c>>
    BY <1>4
  <2>2. QED
    BY <1>1, <1>2, <1>3, <2>1
<1>6. TypeOK'
  BY <1>1, <1>2, <1>5 DEF TypeOK
<1>7. /\ Active(p)' /\ ~Waiting(p)' /\ ~Called(p)' /\ Settled(p)' /\ ~Ending(p)'
  BY <1>2, <1>3, <1>5 DEF Active, Waiting, Called, Settled, Ending
<1>8. \A q \in PE : /\ Active(q)' <=> Active(q)
                    /\ Waiting(q)' <=> Waiting(q)
                    /\ Ending(q)' <=> Ending(q)
                    /\ InRound(q)' <=> InRound(q)
                    /\ Detected(q)' = Detected(q)
  BY <1>2 DEF Active, Waiting, Ending, InRound, Detected
<1>9. ASSUME NEW q \in PE, q # p
      PROVE  /\ Called(q)' <=> Called(q)
             /\ Settled(q)' <=> Settled(q)
             /\ Cover(q)' = Cover(q)
  BY <1>2, <1>5, <1>9 DEF Called, Settled, Cover
<1>10. \A q \in PE : Known(q)' <=> Known(q)
  BY <1>3, <1>7, <1>9 DEF Known
<1>11. ASSUME NEW q \in PE PROVE Staged(q)' /\ Stopped(q)'
  <2>1. Stopped(q)'
    BY <1>1, <1>2, <1>8 DEF Stopped
  <2>2. CASE q = p
    <3>1. Len(results[p]) = 0
      BY <1>1, <1>3 DEF Staged, At
    <3>2. At(p, FALSE, 0, 1, 0)'
      BY <1>2, <1>5, <1>7, <3>1 DEF At
    <3>3. QED
      BY <1>1, <1>2, <1>7, <2>1, <2>2, <3>2 DEF Staged
  <2>3. CASE q # p
    <3>1. \A w, x, y, z : At(q, w, x, y, z) => At(q, w, x, y, z)'
      BY <1>2, <1>5, <1>8, <2>3 DEF At
    <3>2. QED
      BY <1>1, <1>2, <1>8, <2>1, <3>1 DEF Staged
  <2>4. QED
    BY <2>2, <2>3
<1>12. \A q, r \in PE : Together(q, r)'
  BY <1>1, <1>2, <1>8, <1>10 DEF Together
<1>13. Delivered'
  BY <1>1, <1>2, <1>10 DEF Delivered
<1>14. ~Settled(p) /\ Cover(p) = manager[p].min_sent /\ Cover(p)' = c /\ InRound(p)
  BY <1>3, <1>5, <1>7 DEF Cover, InRound
<1>15. Tracked'
  <2>1. ASSUME NEW t \in Time, Covered(t) PROVE \E q \in PE : InRound(q)' /\ Cover(q)' <= t
    <3>1. PICK q \in PE : InRound(q) /\ Cover(q) <= t
      BY <2>1 DEF Covered
    <3>2. CASE q = p
      <4>1. manager[p].min_sent \in Nat /\ c \in Nat /\ t \in Nat
        BY <1>1, <1>4, EventTimes DEF Manager
      <4>2. c <= t
        BY <1>4, <1>14, <3>1, <3>2, <4>1
      <4>3. QED
        BY <1>8, <1>14, <4>2
    <3>3. CASE q # p
      BY <1>8, <1>9, <3>1, <3>3
    <3>4. QED
      BY <3>2, <3>3
  <2>2. \A h \in Phase, q \in PE, t \in EventTime :
          net[h][q][t] > 0 => h = Detected(Root)' \/ \E r \in PE : InRound(r)' /\ Cover(r)' <= t
    BY <1>1, <1>8, <2>1, EventTimes, RootAssumption DEF Tracked
  <2>3. ASSUME NEW q \in PE, Settled(q)' PROVE \E r \in PE : InRound(r)' /\ Cover(r)' <= low[q]
    <3>1. CASE q = p
      BY <1>4, <1>8, <1>14, <3>1
    <3>2. CASE q # p
      <4>1. Covered(low[q]) /\ low[q] \in Time
        BY <1>1, <1>9, <2>3, <3>2 DEF Tracked, TypeOK
      <4>2. QED
        BY <2>1, <4>1
    <3>3. QED
      BY <3>1, <3>2
  <2>4. QED
    BY <1>2, <2>2, <2>3 DEF Tracked, Covered
<1>16. Floors'
  <2>1. \A q \in PE, g \in Time : Given(q, g)' => Given(q, g)
    BY <1>2, <1>8 DEF Given
  <2>2. ASSUME NEW g \in Time, Bounded(g) PROVE Bounded(g)'
    <3>1. g <= low[p] /\ g <= manager[p].min_sent
      BY <1>14, <2>2 DEF Bounded, Floor
    <3>2. g <= contributions'[p][1]
      BY <1>4, <1>5, <3>1
    <3>3. \A q \in PE : Settled(q)' => g <= contributions'[q][1]
      BY <1>5, <1>9, <2>2, <3>2 DEF Bounded
    <3>4. QED
      BY <1>2, <1>8, <2>2, <3>3 DEF Bounded
  <2>3. \A q \in PE : Ending(q)' => sched'[q].g_last_gvt <= results'[q][1]
    BY <1>1, <1>2, <1>8 DEF Floors
  <2>4. QED
    BY <1>1, <2>1, <2>2, <2>3 DEF Floors
<1>17. QED
  BY <1>6, <1>11, <1>12, <1>13, <1>15, <1>16 DEF IInv

\* A PE in a round is of the phase that is detected on PE 0.
LEMMA OnePhase ==
  ASSUME Phases = 2, IInv, NEW p \in PE, InRound(p)
  PROVE  /\ manager[p].next_phase \in Phase /\ manager[p].next_phase = Detected(Root)
         /\ manager[p].current_phase = NextPhase(Detected(Root))
<1>1. Detected(p) = Detected(Root) /\ Staged(p) /\ manager[p] \in Manager
  BY RootAssumption DEF IInv, Together, TypeOK
<1>2. Detected(p) = manager[p].next_phase
  BY DEF Detected
<1>3. /\ manager[p].current_phase \in Phase /\ manager[p].next_phase \in Phase
      /\ manager[p].next_phase = NextPhase(manager[p].current_phase)
  BY <1>1 DEF Staged, Manager
<1>4. NextPhase(manager[p].next_phase) = manager[p].current_phase
  BY <1>3, Alternate
<1>5. QED
  BY <1>1, <1>2, <1>3, <1>4

\* The completion of a reduction: every PE gets the least of the minima, which
\* is a floor of all that is unprocessed.
LEMMA ReduceIInv ==
  ASSUME Phases = 2, IInv, reduce
  PROVE  IInv'
<1> DEFINE T == {Head(contributions[q]) : q \in PE}
           g == Min(T)
           h == Detected(Root)
<1>1. /\ TypeOK /\ (\A p \in PE : Staged(p) /\ Stopped(p)) /\ (\A p, q \in PE : Together(p, q))
      /\ Delivered /\ Tracked /\ Floors /\ results \in [PE -> Seq(Time)]
  BY DEF IInv, TypeOK
<1>2. /\ \A p \in PE : contributions[p] # << >>
      /\ results' = [p \in PE |-> Append(results[p], g)]
      /\ contributions' = [p \in PE |-> Tail(contributions[p])]
      /\ UNCHANGED <<sched, manager, low, net, detectors, completions>>
  BY DEF reduce
<1>3. \A p \in PE : /\ Settled(p) /\ contributions[p][1] \in Time
                    /\ Head(contributions[p]) = contributions[p][1] /\ Tail(contributions[p]) = << >>
                    /\ Active(p) /\ ~Waiting(p) /\ ~Called(p) /\ ~Ending(p) /\ results[p] = << >>
                    /\ completions[p] = 0
  <2> SUFFICES ASSUME NEW p \in PE
               PROVE  /\ Settled(p) /\ contributions[p][1] \in Time
                      /\ Head(contributions[p]) = contributions[p][1] /\ Tail(contributions[p]) = << >>
                      /\ Active(p) /\ ~Waiting(p) /\ ~Called(p) /\ ~Ending(p) /\ results[p] = << >>
                      /\ completions[p] = 0
    OBVIOUS
  <2>1. Settled(p) /\ Staged(p)
    BY <1>1, <1>2 DEF Settled
  <2>2. QED
    BY <1>1, <2>1, Stages DEF Ending
<1>4. T \in SUBSET Time /\ T # {} /\ T = {contributions[p][1] : p \in PE}
  BY <1>3, RootAssumption
<1>5. g \in Time /\ (\A p \in PE : g <= contributions[p][1]) /\ \E p \in PE : g = contributions[p][1]
  <2>1. Min(T) \in T /\ \A t \in T : Min(T) <= t
    <3> HIDE DEF T
    <3>1. QED
      BY <1>4, EventTimes, MinIsLeast
  <2>2. QED
    BY <1>4, <2>1
<1> HIDE DEF T, g
<1>6. /\ results' \in [PE -> Seq(Time)] /\ contributions' \in [PE -> Seq(Time)]
      /\ \A p \in PE : /\ results'[p] = <<g>> /\ results'[p][1] = g /\ results'[p] # << >>
                       /\ Len(results'[p]) = 1
                       /\ contributions'[p] = << >> /\ Len(contributions'[p]) = 0
  <2>1. <<g>> \in Seq(Time) /\ Append(<< >>, g) = <<g>> /\ << >> \in Seq(Time)
    BY <1>5
  <2>2. results' = [p \in PE |-> <<g>>] /\ contributions' = [p \in PE |-> << >>]
    BY <1>2, <1>3, <2>1
  <2>3. QED
    BY <2>1, <2>2
<1>7. TypeOK'
  BY <1>1, <1>2, <1>6 DEF TypeOK
<1>8. \A p \in PE : /\ Active(p)' /\ ~Waiting(p)' /\ ~Called(p)' /\ ~Settled(p)' /\ Ending(p)'
  BY <1>2, <1>3, <1>6 DEF Active, Waiting, Called, Settled, Ending
<1>9. \A p \in PE : /\ InRound(p) /\ ~InRound(p)' /\ Known(p) /\ ~Known(p)'
                    /\ Cover(p) = contributions[p][1]
  BY <1>3, <1>8 DEF InRound, Known, Cover
<1>10. \A p \in PE : /\ manager[p].next_phase \in Phase /\ manager[p].next_phase = h
                     /\ manager[p].current_phase = NextPhase(h)
                     /\ Detected(p)' = NextPhase(h)
  <2>1. \A p \in PE : /\ manager[p].next_phase \in Phase /\ manager[p].next_phase = h
                      /\ manager[p].current_phase = NextPhase(h)
    BY <1>9, OnePhase
  <2>2. QED
    BY <1>2, <1>9, <2>1 DEF Detected
<1>11. h \in Phase /\ NothingInFlight(net[h])
  BY <1>1, <1>9, <1>10, RootAssumption DEF Delivered
<1> HIDE DEF h
<1>12. ASSUME NEW p \in PE PROVE Staged(p)' /\ Stopped(p)'
  <2>1. At(p, FALSE, 0, 0, 1)'
    BY <1>2, <1>3, <1>6, <1>8 DEF At
  <2>2. Staged(p)'
    BY <1>1, <1>2, <1>8, <2>1 DEF Staged
  <2>3. Stopped(p)'
    BY <1>1, <1>2, <1>3, <1>8 DEF Stopped
  <2>4. QED
    BY <2>2, <2>3
<1>13. \A p, q \in PE : Together(p, q)'
  BY <1>6, <1>9, <1>10 DEF Together
<1>14. Delivered'
  BY <1>9 DEF Delivered
<1>15. Tracked'
  <2>1. ASSUME NEW k \in Phase, NEW q \in PE, NEW t \in EventTime, net[k][q][t] > 0
        PROVE  k = Detected(Root)'
    <3>1. net[k][q][t] # 0
      BY <2>1
    <3>2. k # h
      BY <1>11, <3>1 DEF NothingInFlight
    <3>3. QED
      BY <1>10, <1>11, <3>2, Alternate, RootAssumption
  <2>2. QED
    BY <1>2, <1>8, <2>1 DEF Tracked
<1>16. ASSUME NEW t \in Time, Covered(t) PROVE g <= t
  <2>1. PICK p \in PE : Cover(p) <= t
    BY <1>16 DEF Covered
  <2>2. contributions[p][1] <= t /\ g <= contributions[p][1]
    BY <1>5, <1>9, <2>1
  <2>3. contributions[p][1] \in Nat /\ g \in Nat /\ t \in Nat
    BY <1>3, <1>5, EventTimes
  <2>4. QED
    BY <2>2, <2>3
<1>17. Floor(g, low, net)
  <2>1. ASSUME NEW p \in PE PROVE g <= low[p]
    <3>1. Covered(low[p]) /\ low[p] \in Time
      BY <1>1, <1>3 DEF Tracked, TypeOK
    <3>2. QED
      BY <1>16, <3>1
  <2>2. ASSUME NEW k \in Phase, NEW q \in PE, NEW t \in EventTime, net[k][q][t] > 0 PROVE g <= t
    <3>1. net[k][q][t] # 0
      BY <2>2
    <3>2. k # h
      BY <1>11, <3>1 DEF NothingInFlight
    <3>3. Covered(t)
      BY <1>1, <2>2, <3>2 DEF Tracked, h
    <3>4. QED
      BY <1>16, <3>3, EventTimes
  <2>3. QED
    BY <2>1, <2>2 DEF Floor
<1>18. ASSUME NEW u \in Time, Floor(u, low, net) PROVE Bounded(u)'
  BY <1>2, <1>8, <1>9, <1>18 DEF Bounded
<1>19. ASSUME NEW p \in PE PROVE sched[p].g_last_gvt <= g /\ Floor(sched[p].g_last_gvt, low, net)
  <2>1. PICK q \in PE : g = contributions[q][1]
    BY <1>5
  <2>2. sched[p].g_last_gvt \in Time
    BY <1>1 DEF TypeOK, Scheduler
  <2>3. Bounded(sched[p].g_last_gvt)
    BY <1>1, <2>2 DEF Floors, Given
  <2>4. QED
    BY <1>3, <2>1, <2>3 DEF Bounded
<1>20. Floors'
  <2>1. ASSUME NEW p \in PE, NEW u \in Time, Given(p, u)' PROVE Bounded(u)'
    <3>1. u = sched[p].g_last_gvt \/ u = g
      BY <1>2, <1>6, <2>1 DEF Given
    <3>2. Floor(u, low, net)
      BY <1>17, <1>19, <3>1
    <3>3. QED
      BY <1>18, <3>2
  <2>2. ASSUME NEW p \in PE PROVE sched'[p].g_last_gvt <= results'[p][1]
    BY <1>2, <1>6, <1>19
  <2>3. QED
    BY <2>1, <2>2 DEF Floors
<1>21. QED
  BY <1>7, <1>12, <1>13, <1>14, <1>15, <1>20 DEF IInv

\* A PE that ends the round is ready for the next one and takes up the GVT that
\* was on its way.
LEMMA EndIInv ==
  ASSUME Phases = 2, IInv, NEW p \in PE, gvt_end(p)
  PROVE  IInv'
<1> DEFINE m == manager[p]
           g == results[p][1]
           lb == lb_trigger_ready(m.lb_cnt)
           h == m.next_phase
           n == manager'[p]
           d == gvt_done(sched[p], g, lb)
<1>1. /\ TypeOK /\ (\A q \in PE : Staged(q) /\ Stopped(q))
      /\ (\A q, r \in PE : Together(q, r)) /\ Delivered /\ Tracked /\ Floors
      /\ results \in [PE -> Seq(Time)] /\ manager \in [PE -> Manager] /\ m \in Manager
      /\ sched \in [PE -> Scheduler]
  BY DEF IInv, TypeOK
<1>2. /\ Ending(p) /\ Head(results[p]) = g /\ Tail(results[p]) = << >>
      /\ g \in Time /\ Active(p) /\ ~Waiting(p) /\ ~Called(p) /\ ~Settled(p)
  <2>1. Ending(p)
    BY DEF gvt_end, Ending
  <2>2. QED
    BY <1>1, <2>1, Stages
<1>3. /\ results' = [results EXCEPT ![p] = << >>]
      /\ manager' = [manager EXCEPT ![p].detector_ready[h] = TRUE,
                                    ![p].lb_cnt = lb_trigger_reset(m.lb_cnt)]
      /\ sched' = [sched EXCEPT ![p] = d]
      /\ UNCHANGED <<low, net, detectors, completions, contributions>>
  BY <1>2 DEF gvt_end
<1>4. /\ m.current_phase \in Phase /\ h \in Phase /\ m.detector_ready \in [Phase -> BOOLEAN]
      /\ m.min_sent \in Time /\ m.lb_cnt \in 0..LBInterval
      /\ m.detector_ready[m.current_phase] /\ h = NextPhase(m.current_phase)
  BY <1>1 DEF Staged, Manager
<1>5. /\ results' \in [PE -> Seq(Time)] /\ results'[p] = << >> /\ Len(results'[p]) = 0
      /\ \A q \in PE : q # p => results'[q] = results[q] /\ manager'[q] = manager[q] /\ sched'[q] = sched[q]
  <2>1. << >> \in Seq(Time) /\ Len(<< >>) = 0
    OBVIOUS
  <2>2. QED
    BY <1>1, <1>3, <2>1
<1>6. n = [[m EXCEPT !.detector_ready = [m.detector_ready EXCEPT ![h] = TRUE]]
             EXCEPT !.lb_cnt = lb_trigger_reset(m.lb_cnt)]
  BY <1>1, <1>3
<1>7. /\ n.current_phase = m.current_phase /\ n.next_phase = h /\ n.min_sent = m.min_sent
      /\ n.detector_ready = [m.detector_ready EXCEPT ![h] = TRUE]
      /\ n.lb_cnt = lb_trigger_reset(m.lb_cnt)
  BY <1>1, <1>6 DEF Manager
<1>8. manager' \in [PE -> Manager]
  <2>1. lb_trigger_reset(m.lb_cnt) \in 0..LBInterval
    BY <1>4, LBAssumption DEF lb_trigger_reset
  <2>2. [m.detector_ready EXCEPT ![h] = TRUE] \in [Phase -> BOOLEAN]
    BY <1>4
  <2>3. n = [current_phase |-> m.current_phase, next_phase |-> h,
             detector_ready |-> [m.detector_ready EXCEPT ![h] = TRUE],
             min_sent |-> m.min_sent, lb_cnt |-> lb_trigger_reset(m.lb_cnt)]
    BY <1>1, <1>6 DEF Manager
  <2> HIDE DEF n, h
  <2>4. n \in Manager
    BY <1>4, <2>1, <2>2, <2>3 DEF Manager
  <2>5. \A q \in PE : manager'[q] \in Manager
    BY <1>1, <1>5, <2>4 DEF n
  <2>6. QED
    BY <1>1, <1>3, <2>5
<1>9. /\ d \in Scheduler /\ d.g_last_gvt = g
      /\ d.execs = IF d.running THEN 1 ELSE 0
      /\ d.running /\ ~sched[p].running => d.mode = sched[p].mode
      /\ lb => (d.running <=> sched[p].running)
      /\ ~lb => d.mode \in {sched[p].mode, "over"}
  <2>1. sched[p] \in Scheduler /\ sched[p].execs = IF sched[p].running THEN 1 ELSE 0
    BY <1>1 DEF Stopped
  <2>2. lb \in BOOLEAN
    BY DEF lb_trigger_ready
  <2> HIDE DEF lb, g
  <2>3. QED
    BY <1>2, <2>1, <2>2, GvtDone, GvtDoneMode
<1> HIDE DEF d
<1>10. sched' \in [PE -> Scheduler] /\ sched'[p] = d
  BY <1>1, <1>3, <1>9
<1>11. TypeOK'
  BY <1>1, <1>3, <1>5, <1>8, <1>10 DEF TypeOK
<1>12. /\ ~Active(p)' /\ ~Waiting(p)' /\ ~Called(p)' /\ ~Settled(p)' /\ ~Ending(p)'
       /\ n.detector_ready[n.current_phase]
  <2>1. n.detector_ready[h] /\ n.detector_ready[n.current_phase]
    BY <1>4, <1>7
  <2>2. ~Active(p)'
    BY <1>7, <2>1 DEF Active, Ready
  <2>3. QED
    BY <1>2, <1>3, <1>5, <1>7, <2>1, <2>2 DEF Waiting, Called, Settled, Ending
<1>13. Stopped(p)'
  <2>1. (lb => ~sched[p].running) /\ sched[p].mode \notin {"lb", "lbdone"}
    BY <1>1, <1>2 DEF Stopped
  <2>2. sched'[p].mode \in {"lb", "lbdone"} => ~sched'[p].running
    BY <1>9, <1>10, <2>1
  <2>3. QED
    BY <1>9, <1>10, <1>12, <2>2 DEF Stopped
<1>14. ASSUME NEW q \in PE, q # p
       PROVE  /\ Active(q)' <=> Active(q)
              /\ Waiting(q)' <=> Waiting(q)
              /\ Ending(q)' <=> Ending(q)
  BY <1>3, <1>5, <1>14 DEF Active, Waiting, Ending
<1>15. \A q \in PE : /\ Called(q)' <=> Called(q)
                     /\ Settled(q)' <=> Settled(q)
                     /\ Known(q)' <=> Known(q)
                     /\ InRound(q)' <=> InRound(q)
                     /\ manager'[q].next_phase = manager[q].next_phase
                     /\ manager'[q].current_phase = manager[q].current_phase
                     /\ manager'[q].min_sent = manager[q].min_sent
  BY <1>2, <1>3, <1>5, <1>7, <1>12, <1>14 DEF Called, Settled, Known, InRound
<1>16. \A q \in PE : Detected(q)' = Detected(q) /\ Cover(q)' = Cover(q)
  BY <1>3, <1>15 DEF Detected, Cover
<1>17. ASSUME NEW q \in PE PROVE Staged(q)' /\ Stopped(q)'
  <2>1. CASE q = p
    <3>1. At(p, FALSE, 0, 0, 1)
      BY <1>1, <1>2 DEF Staged, At, Called, Settled
    <3>2. At(p, FALSE, 0, 0, 0)'
      BY <1>3, <1>5, <1>12, <3>1 DEF At
    <3>3. Staged(p)'
      BY <1>1, <1>3, <1>7, <1>12, <3>2 DEF Staged
    <3>4. QED
      BY <1>13, <2>1, <3>3
  <2>2. CASE q # p
    <3>1. Staged(q) /\ Stopped(q) /\ manager'[q] = manager[q] /\ sched'[q] = sched[q]
      BY <1>1, <1>5, <2>2
    <3>2. \A w, x, y, z : At(q, w, x, y, z) => At(q, w, x, y, z)'
      BY <1>3, <1>5, <1>14, <2>2 DEF At
    <3>3. Staged(q)'
      BY <1>3, <1>14, <2>2, <3>1, <3>2 DEF Staged
    <3>4. Stopped(q)'
      BY <1>14, <2>2, <3>1 DEF Stopped
    <3>5. QED
      BY <3>3, <3>4
  <2>3. QED
    BY <2>1, <2>2
<1>18. ASSUME NEW q \in PE, NEW r \in PE PROVE Together(q, r)'
  <2>1. Detected(q)' = Detected(r)' /\ (Known(q)' => Known(r)')
    BY <1>1, <1>15, <1>16 DEF Together
  <2>2. ASSUME Ending(q)' PROVE results'[r] = results'[q] \/ Waiting(r)' \/ ~Active(r)'
    <3>1. q # p
      BY <1>12, <2>2
    <3>2. Ending(q)
      BY <1>14, <2>2, <3>1
    <3>3. results[r] = results[q] \/ Waiting(r) \/ ~Active(r)
      BY <1>1, <3>2 DEF Together
    <3>4. CASE r = p
      BY <1>12, <3>4
    <3>5. CASE r # p
      BY <1>5, <1>14, <3>1, <3>3, <3>5
    <3>6. QED
      BY <3>4, <3>5
  <2>3. QED
    BY <2>1, <2>2 DEF Together
<1>19. Delivered'
  BY <1>1, <1>3, <1>15 DEF Delivered
<1>20. Tracked'
  <2>1. ASSUME NEW t PROVE Covered(t) => \E q \in PE : InRound(q)' /\ Cover(q)' <= t
    BY <1>15, <1>16 DEF Covered
  <2>2. Detected(Root)' = Detected(Root) /\ low' = low /\ net' = net
    BY <1>3, <1>16, RootAssumption
  <2>3. QED
    BY <1>1, <1>15, <2>1, <2>2 DEF Tracked, Covered
<1>21. Floors'
  <2>1. ASSUME NEW q \in PE, NEW u \in Time, Given(q, u)' PROVE Given(q, u)
    <3>1. CASE q = p
      <4>1. u = g
        BY <1>9, <1>10, <1>12, <2>1, <3>1 DEF Given
      <4>2. QED
        BY <1>2, <3>1, <4>1 DEF Given
    <3>2. CASE q # p
      BY <1>5, <1>14, <2>1, <3>2 DEF Given
    <3>3. QED
      BY <3>1, <3>2
  <2>2. ASSUME NEW u \in Time, Bounded(u) PROVE Bounded(u)'
    BY <1>3, <1>15, <2>2 DEF Bounded
  <2>3. \A q \in PE : Ending(q)' => sched'[q].g_last_gvt <= results'[q][1]
    BY <1>1, <1>5, <1>12, <1>14 DEF Floors
  <2>4. QED
    BY <1>1, <2>1, <2>2, <2>3 DEF Floors
<1>22. QED
  BY <1>11, <1>17, <1>18, <1>19, <1>20, <1>21 DEF IInv

\* The messages in flight when PEs balance are all of the phase that is detected
\* next, since no PE is in a round; they go wherever their chares go.
LEMMA Balances ==
  ASSUME IInv, balance
  PROVE  /\ UNCHANGED <<manager, detectors, completions, contributions, results>>
         /\ low' \in [PE -> Time] /\ \A p \in PE : \E q \in PE : low[q] <= low'[p]
         /\ net' \in [Phase -> Flights]
         /\ \A h \in Phase, q \in PE, t \in EventTime :
              net'[h][q][t] > 0 => \E r \in PE : net[h][r][t] > 0
         /\ sched' \in [PE -> Scheduler]
         /\ \A p \in PE : /\ sched[p].mode = "lb" /\ sched'[p].mode = "lbdone"
                          /\ sched'[p].running = sched[p].running /\ sched'[p].execs = sched[p].execs
                          /\ sched'[p].g_last_gvt = sched[p].g_last_gvt
<1>1. /\ \A p \in PE : sched[p].mode = "lb"
      /\ sched' = [p \in PE |-> [sched[p] EXCEPT !.mode = "lbdone"]]
      /\ low' \in [PE -> Time] /\ Redistributed(low, low')
      /\ net' \in [Phase -> UNION {Forwarded(net[h]) : h \in Phase}]
      /\ \A h \in Phase : net'[h] \in Forwarded(net[h])
      /\ UNCHANGED <<manager, detectors, completions, contributions, results>>
  BY DEF balance
<1>2. /\ low \in [PE -> Time] /\ sched \in [PE -> Scheduler] /\ net \in [Phase -> Flights]
  BY DEF IInv, TypeOK
<1>3. \A p \in PE : \E q \in PE : low[q] <= low'[p]
  BY <1>1, <1>2, RedistributedFloors
<1>4. ASSUME NEW h \in Phase
      PROVE  /\ net'[h] \in Flights
             /\ \A q \in PE, t \in EventTime : net'[h][q][t] > 0 => \E r \in PE : net[h][r][t] > 0
  <2>1. net[h] \in Flights /\ net'[h] \in Forwarded(net[h])
    BY <1>1, <1>2
  <2>2. QED
    BY <2>1, ForwardedMessages
<1>5. net' \in [Phase -> Flights]
  BY <1>1, <1>4
<1>6. ASSUME NEW p \in PE
      PROVE  /\ sched'[p] \in Scheduler /\ sched'[p].mode = "lbdone"
             /\ sched'[p].running = sched[p].running /\ sched'[p].execs = sched[p].execs
             /\ sched'[p].g_last_gvt = sched[p].g_last_gvt
  <2>1. sched'[p] = [sched[p] EXCEPT !.mode = "lbdone"] /\ sched[p] \in Scheduler
    BY <1>1, <1>2
  <2>2. QED
    BY <2>1 DEF Scheduler, Mode
<1>7. QED
  BY <1>1, <1>3, <1>4, <1>5, <1>6

\* Load balancing moves events between PEs that have all stopped.
LEMMA BalanceIInv ==
  ASSUME IInv, balance
  PROVE  IInv'
<1>1. /\ UNCHANGED <<manager, detectors, completions, contributions, results>>
      /\ low' \in [PE -> Time] /\ \A p \in PE : \E q \in PE : low[q] <= low'[p]
      /\ net' \in [Phase -> Flights]
      /\ \A h \in Phase, q \in PE, t \in EventTime :
           net'[h][q][t] > 0 => \E r \in PE : net[h][r][t] > 0
      /\ sched' \in [PE -> Scheduler]
      /\ \A p \in PE : /\ sched[p].mode = "lb" /\ sched'[p].mode = "lbdone"
                       /\ sched'[p].running = sched[p].running /\ sched'[p].execs = sched[p].execs
                       /\ sched'[p].g_last_gvt = sched[p].g_last_gvt
  BY Balances
<1>2. /\ TypeOK /\ (\A q \in PE : Staged(q) /\ Stopped(q))
      /\ (\A q, r \in PE : Together(q, r)) /\ Tracked /\ Floors /\ low \in [PE -> Time]
  BY DEF IInv, TypeOK
<1>3. \A p \in PE : ~Active(p) /\ ~Called(p) /\ ~Settled(p) /\ ~Ending(p) /\ ~InRound(p) /\ ~Known(p)
  <2> SUFFICES ASSUME NEW p \in PE
               PROVE  ~Active(p) /\ ~Called(p) /\ ~Settled(p) /\ ~Ending(p) /\ ~InRound(p) /\ ~Known(p)
    OBVIOUS
  <2>1. ~Active(p) /\ Staged(p)
    BY <1>1, <1>2 DEF Stopped
  <2>2. ~Called(p) /\ ~Settled(p) /\ ~Ending(p)
    BY <1>2, <2>1, Stages
  <2>3. QED
    BY <2>1, <2>2 DEF InRound, Known
<1>4. \A p \in PE : /\ Active(p)' <=> Active(p)
                    /\ Waiting(p)' <=> Waiting(p)
                    /\ ~Settled(p)' /\ ~Ending(p)' /\ ~InRound(p)' /\ ~Known(p)'
                    /\ Detected(p)' = Detected(p)
  <2>1. \A p \in PE : /\ Active(p)' <=> Active(p)
                      /\ Waiting(p)' <=> Waiting(p)
                      /\ ~Called(p)' /\ ~Settled(p)' /\ ~Ending(p)' /\ ~InRound(p)'
    BY <1>1, <1>3 DEF Active, Waiting, Called, Settled, Ending, InRound
  <2>2. QED
    BY <1>1, <1>3, <2>1 DEF Known, Detected
<1>5. TypeOK'
  BY <1>1, <1>2 DEF TypeOK
<1>6. ASSUME NEW p \in PE PROVE Staged(p)' /\ Stopped(p)'
  <2>1. Staged(p) /\ Stopped(p)
    BY <1>2
  <2>2. Staged(p)'
    BY <1>1, <1>4, <2>1 DEF Staged, At
  <2>3. Stopped(p)'
    BY <1>1, <1>3, <1>4, <2>1 DEF Stopped
  <2>4. QED
    BY <2>2, <2>3
<1>7. \A p, q \in PE : Together(p, q)'
  BY <1>2, <1>4 DEF Together
<1>8. Delivered'
  BY <1>4 DEF Delivered
<1>9. Tracked'
  <2> SUFFICES ASSUME NEW h \in Phase, NEW q \in PE, NEW t \in EventTime, net'[h][q][t] > 0
               PROVE  h = Detected(Root)'
    BY <1>4 DEF Tracked
  <2>1. PICK r \in PE : net[h][r][t] > 0
    BY <1>1
  <2>2. ~Covered(t)
    BY <1>3 DEF Covered
  <2>3. QED
    BY <1>2, <1>4, <2>1, <2>2, RootAssumption DEF Tracked
<1>10. Floors'
  <2>1. \A q \in PE, g \in Time : Given(q, g)' => Given(q, g)
    BY <1>1, <1>4 DEF Given
  <2>2. ASSUME NEW g \in Time, Bounded(g) PROVE Bounded(g)'
    <3>1. Floor(g, low, net)
      BY <2>2 DEF Bounded
    <3>2. ASSUME NEW p \in PE PROVE g <= low'[p]
      <4>1. PICK q \in PE : low[q] <= low'[p]
        BY <1>1
      <4>2. g <= low[q] /\ low[q] \in Time /\ low'[p] \in Time
        BY <1>1, <1>2, <3>1 DEF Floor
      <4>3. low[q] \in Nat /\ low'[p] \in Nat /\ g \in Nat
        BY <4>2, EventTimes
      <4>4. QED
        BY <4>1, <4>2, <4>3
    <3>3. ASSUME NEW h \in Phase, NEW q \in PE, NEW t \in EventTime, net'[h][q][t] > 0 PROVE g <= t
      <4>1. PICK r \in PE : net[h][r][t] > 0
        BY <1>1, <3>3
      <4>2. QED
        BY <3>1, <4>1 DEF Floor
    <3>4. Floor(g, low', net')
      BY <3>2, <3>3 DEF Floor
    <3>5. QED
      BY <1>4, <3>4 DEF Bounded
  <2>3. QED
    BY <1>2, <1>4, <2>1, <2>2 DEF Floors
<1>11. QED
  BY <1>5, <1>6, <1>7, <1>8, <1>9, <1>10 DEF IInv

\* A step that changes nothing.
LEMMA StutterIInv ==
  ASSUME IInv, UNCHANGED vars
  PROVE  IInv'
<1>1. UNCHANGED <<sched, manager, low, net, detectors, completions, contributions, results>>
  BY DEF vars
<1>2. sched' \in [PE -> Scheduler] /\ \A q \in PE : sched'[q].g_last_gvt = sched[q].g_last_gvt
  BY <1>1 DEF IInv, TypeOK
<1>3. \A q \in PE : Stopped(q)'
  BY <1>1 DEF IInv, Stopped, Active
<1>4. QED
  BY <1>1, <1>2, <1>3, OnlySchedulers

-----------------------------------------------------------------------------
\* The initial state, where every PE runs and nobody is in a round.
LEMMA InitIInv ==
  ASSUME Phases = 2, Init
  PROVE  IInv
<1> DEFINE m == [current_phase |-> 0, next_phase |-> NextPhase(0),
                 detector_ready |-> [h \in Phase |-> TRUE], min_sent |-> EndTime, lb_cnt |-> 0]
           none == [p \in PE |-> [t \in EventTime |-> 0]]
<1>1. /\ sched = [p \in PE |-> start_simulation] /\ manager = [p \in PE |-> m]
      /\ low \in [PE -> Time] /\ net = [h \in Phase |-> none]
      /\ detectors = [h \in Phase |-> Idle] /\ completions = [p \in PE |-> 0]
      /\ contributions = [p \in PE |-> << >>] /\ results = [p \in PE |-> << >>]
  BY DEF Init
<1>2. /\ m \in Manager /\ m.current_phase = 0 /\ m.next_phase = NextPhase(0)
      /\ m.detector_ready[m.current_phase] /\ m.detector_ready[m.next_phase]
      /\ 0 \in Phase
  <2>1. EndTime \in Time /\ 0 \in Phase /\ 0 \in 0..LBInterval
    BY EndTimeAssumption, LBAssumption DEF Time, Phase
  <2>2. NextPhase(0) \in Phase
    BY <2>1, Alternate
  <2>3. QED
    BY <2>1, <2>2 DEF Manager
<1>3. start_simulation \in Scheduler /\ start_simulation.running /\ start_simulation.execs = 1
      /\ start_simulation.mode = "sim" /\ start_simulation.g_last_gvt = 0
  BY GvtIntervalAssumption, EndTimeAssumption DEF start_simulation, Scheduler, Mode, Time
<1>4. none \in Flights /\ \A q \in PE, t \in EventTime : none[q][t] = 0
  BY DEF Flights
<1>5. Idle \in Detector /\ Idle.done = {}
  BY DEF Idle, Detector
<1> HIDE DEF m, none
<1>6. /\ \A p \in PE : /\ manager[p] = m /\ sched[p] = start_simulation /\ completions[p] = 0
                       /\ contributions[p] = << >> /\ results[p] = << >>
      /\ \A h \in Phase : net[h] = none /\ detectors[h] = Idle
  BY <1>1
<1>7. \A p \in PE : /\ ~Active(p) /\ ~Waiting(p) /\ ~Called(p) /\ ~Settled(p) /\ ~Ending(p)
  <2> SUFFICES ASSUME NEW p \in PE
               PROVE  ~Active(p) /\ ~Waiting(p) /\ ~Called(p) /\ ~Settled(p) /\ ~Ending(p)
    OBVIOUS
  <2>1. m.next_phase \in Phase /\ manager[p] = m
    BY <1>2, <1>6 DEF Manager
  <2>2. detectors[m.next_phase].done = {}
    BY <1>5, <1>6, <2>1
  <2>3. ~Active(p) /\ ~Waiting(p)
    BY <1>2, <2>1, <2>2 DEF Active, Ready, Waiting
  <2>4. ~Called(p) /\ ~Settled(p) /\ ~Ending(p)
    BY <1>6 DEF Called, Settled, Ending
  <2>5. QED
    BY <2>3, <2>4
<1>8. \A p \in PE : ~InRound(p) /\ ~Known(p) /\ Detected(p) = 0
  BY <1>2, <1>6, <1>7 DEF InRound, Known, Detected
<1>9. TypeOK
  <2>1. << >> \in Seq(Time)
    OBVIOUS
  <2>2. QED
    BY <1>1, <1>2, <1>3, <1>4, <1>5, <2>1 DEF TypeOK
<1>10. ASSUME NEW p \in PE PROVE Staged(p) /\ Stopped(p)
  <2>1. Len(contributions[p]) = 0 /\ Len(results[p]) = 0
    <3>1. Len(<< >>) = 0
      OBVIOUS
    <3>2. QED
      BY <1>6, <3>1
  <2>2. At(p, FALSE, 0, 0, 0)
    BY <1>6, <1>7, <2>1 DEF At
  <2>3. Staged(p)
    BY <1>2, <1>5, <1>6, <1>7, <2>2 DEF Staged
  <2>4. Stopped(p)
    BY <1>3, <1>6, <1>7 DEF Stopped
  <2>5. QED
    BY <2>3, <2>4
<1>11. \A p, q \in PE : Together(p, q)
  BY <1>7, <1>8 DEF Together
<1>12. Delivered
  BY <1>8 DEF Delivered
<1>13. \A h \in Phase, q \in PE, t \in EventTime : ~(net[h][q][t] > 0)
  BY <1>4, <1>6
<1>14. Tracked
  BY <1>7, <1>13 DEF Tracked
<1>15. Floors
  <2>1. ASSUME NEW p \in PE, NEW g \in Time, Given(p, g) PROVE Bounded(g)
    <3>1. g = 0
      BY <1>3, <1>6, <1>7, <2>1 DEF Given
    <3>2. \A q \in PE : 0 <= low[q]
      BY <1>1, EndTimeAssumption DEF Time
    <3>3. QED
      BY <1>7, <1>8, <1>13, <3>1, <3>2 DEF Bounded, Floor
  <2>2. QED
    BY <1>7, <2>1 DEF Floors
<1>16. QED
  BY <1>9, <1>10, <1>11, <1>12, <1>14, <1>15 DEF IInv

\* Every step keeps the invariant, action by action.
LEMMA NextIInv ==
  ASSUME Phases = 2, ~LBContinuous, IInv, [Next]_vars
  PROVE  IInv'
<1>1. ASSUME NEW p \in PE, execute(p) PROVE IInv'
  BY <1>1, ExecuteIInv
<1>2. ASSUME NEW p \in PE, gvt_contribute(p) PROVE IInv'
  BY <1>2, ContributeIInv
<1>3. ASSUME NEW p \in PE, gvt_end(p) PROVE IInv'
  BY <1>3, EndIInv
<1>4. ASSUME NEW p \in PE, resume_balanced(p) PROVE IInv'
  BY <1>4, ResumeIInv
<1>5. ASSUME NEW p \in PE, NEW h \in Phase, NEW t \in EventTime, receive(p, h, t) PROVE IInv'
  BY <1>5, ReceiveIInv
<1>6. ASSUME NEW h \in Phase, complete(h) PROVE IInv'
  BY <1>6, CompleteIInv
<1>7. CASE reduce
  BY <1>7, ReduceIInv
<1>8. CASE balance
  BY <1>8, BalanceIInv
<1>9. CASE over \/ UNCHANGED vars
  BY <1>9, StutterIInv DEF over
<1>10. QED
  BY <1>1, <1>2, <1>3, <1>4, <1>5, <1>6, <1>7, <1>8, <1>9 DEF Next

\* The invariant is inductive with the two phases of the default configuration
\* and PEs that stop for load balancing.
THEOREM Inductive ==
  ASSUME Phases = 2, ~LBContinuous
  PROVE  Spec => []IInv
<1>1. Init => IInv
  BY InitIInv
<1>2. IInv /\ [Next]_vars => IInv'
  BY NextIInv
<1>3. QED
  BY <1>1, <1>2, PTL DEF Spec

\* Types: no GVT lies past the end of the run, and no callback is taken that was
\* not made.
THEOREM TypeCorrect ==
  ASSUME Phases = 2, ~LBContinuous
  PROVE  Spec => []TypeOK
<1>1. IInv => TypeOK
  BY DEF IInv
<1>2. QED
  BY <1>1, Inductive, PTL

\* CkAssert(min_time >= curr_gvt) of gvt_contribute(), and no PE ever has two
\* results to come, though two detectors are used in turn.
THEOREM RoundsDoNotOverlap ==
  ASSUME Phases = 2, ~LBContinuous
  PROVE  Spec => []OneRoundAtATime
<1>1. ASSUME IInv PROVE OneRoundAtATime
  <2>1. ASSUME NEW p \in PE PROVE completions[p] + Len(contributions[p]) + Len(results[p]) <= 1
    <3> DEFINE a == completions[p]
               b == Len(contributions[p])
               c == Len(results[p])
    <3>1. Staged(p)
      BY <1>1 DEF IInv
    <3>2. \/ a = 0 /\ b = 0 /\ c = 0
          \/ a = 1 /\ b = 0 /\ c = 0
          \/ a = 0 /\ b = 1 /\ c = 0
          \/ a = 0 /\ b = 0 /\ c = 1
      BY <3>1 DEF Staged, At
    <3> HIDE DEF a, b, c
    <3>3. a + b + c <= 1
      BY <3>2
    <3>4. QED
      BY <3>3 DEF a, b, c
  <2>2. ASSUME NEW p \in PE, NEW i \in DOMAIN contributions[p]
        PROVE  contributions[p][i] >= sched[p].g_last_gvt
    <3>1. /\ TypeOK /\ Staged(p) /\ Floors /\ contributions[p] \in Seq(Time)
          /\ sched[p].g_last_gvt \in Time
      BY <1>1 DEF IInv, TypeOK, Scheduler
    <3>2. contributions[p] # << >>
      BY <2>2
    <3>3. Settled(p)
      BY <3>2 DEF Settled
    <3>4. contributions[p] = <<contributions[p][1]>> /\ contributions[p][1] \in Time
      BY <3>1, <3>3, Stages
    <3>5. i = 1
      BY <2>2, <3>4
    <3>6. Bounded(sched[p].g_last_gvt)
      BY <3>1 DEF Floors, Given
    <3>7. sched[p].g_last_gvt <= contributions[p][1]
      BY <3>3, <3>6 DEF Bounded
    <3>8. QED
      BY <3>1, <3>4, <3>5, <3>7, EventTimes
  <2>3. QED
    BY <2>1, <2>2 DEF OneRoundAtATime
<1>2. QED
  BY <1>1, Inductive, PTL

-----------------------------------------------------------------------------
(***************************************************************************)
(* CdGVT implements VirtualTime, where the messages in flight are those of *)
(* every phase.                                                            *)
(***************************************************************************)
Of(n, q, t) == [h \in Phase |-> n[h][q][t]]
AllPhases(n) ==
  [p \in PE |-> [t \in EventTime |-> Cardinality(UNION {{h} \X (1..n[h][p][t]) : h \in Phase})]]
gvt == [p \in PE |-> sched[p].g_last_gvt]

\* What is in flight in all phases together.
LEMMA AllPhasesType ==
  ASSUME Phases = 2, NEW n \in [Phase -> Flights]
  PROVE  /\ AllPhases(n) \in Flights /\ IsFiniteSet(Phase)
         /\ \A q \in PE, t \in EventTime :
              /\ Of(n, q, t) \in [Phase -> Nat]
              /\ \A h \in Phase : Of(n, q, t)[h] = n[h][q][t]
              /\ AllPhases(n)[q][t] = Cardinality(Units(Phase, Of(n, q, t)))
<1>1. IsFiniteSet(Phase)
  <2>1. 0 \in Int /\ 1 \in Int
    OBVIOUS
  <2>2. Phase = 0..1
    BY DEF Phase
  <2>3. QED
    BY <2>1, <2>2, FS_Interval
<1>2. ASSUME NEW q \in PE, NEW t \in EventTime
      PROVE  /\ Of(n, q, t) \in [Phase -> Nat]
             /\ \A h \in Phase : Of(n, q, t)[h] = n[h][q][t]
  <2>1. ASSUME NEW h \in Phase PROVE n[h][q][t] \in Nat
    <3>1. n[h] \in Flights
      OBVIOUS
    <3>2. QED
      BY <3>1 DEF Flights
  <2>2. QED
    BY <2>1 DEF Of
<1>3. ASSUME NEW q \in PE, NEW t \in EventTime
      PROVE  /\ AllPhases(n)[q][t] = Cardinality(Units(Phase, Of(n, q, t)))
             /\ AllPhases(n)[q][t] \in Nat
  <2>1. UNION {{h} \X (1..n[h][q][t]) : h \in Phase} = Units(Phase, Of(n, q, t))
    BY DEF Units, Of
  <2>2. Cardinality(Units(Phase, Of(n, q, t))) \in Nat
    BY <1>1, <1>2, UnitsAreFinite
  <2>3. QED
    BY <2>1, <2>2 DEF AllPhases
<1>4. AllPhases(n) \in Flights
  <2> DEFINE c(p, t) == Cardinality(UNION {{h} \X (1..n[h][p][t]) : h \in Phase})
  <2>1. \A q \in PE, t \in EventTime : c(q, t) \in Nat
    BY <1>3 DEF AllPhases
  <2> HIDE DEF c
  <2>2. [p \in PE |-> [t \in EventTime |-> c(p, t)]] \in [PE -> [EventTime -> Nat]]
    BY <2>1
  <2>3. QED
    BY <2>2 DEF c, AllPhases, Flights
<1>5. QED
  BY <1>1, <1>2, <1>3, <1>4

\* A message is in flight when it is in some phase.
LEMMA InSomePhase ==
  ASSUME Phases = 2, NEW n \in [Phase -> Flights], NEW q \in PE, NEW t \in EventTime
  PROVE  AllPhases(n)[q][t] > 0 <=> \E h \in Phase : n[h][q][t] > 0
<1> DEFINE f == Of(n, q, t)
<1>1. /\ f \in [Phase -> Nat] /\ IsFiniteSet(Phase) /\ AllPhases(n)[q][t] = Cardinality(Units(Phase, f))
      /\ \A h \in Phase : f[h] = n[h][q][t]
  BY AllPhasesType
<1> HIDE DEF f
<1>2. Cardinality(Units(Phase, f)) = 0 <=> \A h \in Phase : f[h] = 0
  BY <1>1, NoUnits
<1>3. Cardinality(Units(Phase, f)) \in Nat
  BY <1>1, UnitsAreFinite
<1>4. AllPhases(n)[q][t] > 0 <=> \E h \in Phase : f[h] # 0
  BY <1>1, <1>2, <1>3
<1>5. \A h \in Phase : f[h] # 0 <=> n[h][q][t] > 0
  <2>1. \A h \in Phase : f[h] \in Nat
    BY <1>1
  <2>2. QED
    BY <1>1, <2>1
<1>6. QED
  BY <1>4, <1>5

\* k messages more of one phase are k messages more in all.
LEMMA MoreOfOnePhase ==
  ASSUME Phases = 2, NEW n \in [Phase -> Flights], NEW m \in [Phase -> Flights],
         NEW q \in PE, NEW t \in EventTime, NEW h \in Phase, NEW k \in Nat,
         m[h][q][t] = n[h][q][t] + k, \A j \in Phase : j # h => m[j][q][t] = n[j][q][t]
  PROVE  AllPhases(m)[q][t] = AllPhases(n)[q][t] + k
<1> DEFINE f == Of(n, q, t)
           g == Of(m, q, t)
<1>1. /\ f \in [Phase -> Nat] /\ IsFiniteSet(Phase) /\ AllPhases(n)[q][t] = Cardinality(Units(Phase, f))
      /\ \A j \in Phase : f[j] = n[j][q][t]
  BY AllPhasesType
<1>2. /\ g \in [Phase -> Nat] /\ AllPhases(m)[q][t] = Cardinality(Units(Phase, g))
      /\ \A j \in Phase : g[j] = m[j][q][t]
  BY AllPhasesType
<1> HIDE DEF f, g
<1>3. g[h] = f[h] + k /\ \A j \in Phase : j # h => g[j] = f[j]
  BY <1>1, <1>2
<1>4. Cardinality(Units(Phase, g)) = Cardinality(Units(Phase, f)) + k
  BY <1>1, <1>2, <1>3, UnitsAdd
<1>5. QED
  BY <1>1, <1>2, <1>4

\* A floor of every phase is a floor of all that is in flight, as VirtualTime
\* has it.
LEMMA FloorOfAll ==
  ASSUME Phases = 2, net \in [Phase -> Flights], NEW g, Floor(g, low, net)
  PROVE  IsFloor(g, low, AllPhases(net))
BY InSomePhase DEF Floor, IsFloor

\* What Sends does is what VirtualTime lets a PE at time f do.
LEMMA SendsIsWork ==
  ASSUME Phases = 2, IInv, NEW p \in PE, NEW f, NEW n, NEW S, Consumed(p, f, n), Sends(p, f, n, S)
  PROVE  /\ low' \in [PE -> Time] /\ low'[p] >= f /\ \A q \in PE \ {p} : low'[q] = low[q]
         /\ AllPhases(net') \in Flights
         /\ \A q \in PE, t \in EventTime :
              /\ AllPhases(net')[q][t] >= AllPhases(n)[q][t]
              /\ AllPhases(net')[q][t] > AllPhases(n)[q][t] => t >= f
<1> DEFINE pp == manager[p].current_phase
<1>1. low \in [PE -> Time] /\ f \in Time /\ n \in [Phase -> Flights]
  BY DEF IInv, TypeOK, Consumed
<1>2. PICK x \in f..EndTime : low' = [low EXCEPT ![p] = x]
  BY DEF Sends
<1>3. x \in Time /\ x >= f
  BY <1>1, <1>2, EndTimeAssumption DEF Time
<1>4. low' \in [PE -> Time] /\ low'[p] >= f /\ \A q \in PE \ {p} : low'[q] = low[q]
  BY <1>1, <1>2, <1>3
<1>5. /\ pp \in Phase /\ net' \in [Phase -> Flights]
      /\ \A h \in Phase, q \in PE, t \in EventTime :
           net'[h][q][t] = IF h = pp /\ <<q, t>> \in S THEN n[h][q][t] + 1 ELSE n[h][q][t]
  BY SendsInFlight
<1> HIDE DEF pp
<1>6. PICK n2 : n2 = net'
  OBVIOUS
<1>7. ASSUME NEW q \in PE, NEW t \in EventTime
      PROVE  /\ AllPhases(net')[q][t] >= AllPhases(n)[q][t]
             /\ AllPhases(net')[q][t] > AllPhases(n)[q][t] => t >= f
  <2>1. AllPhases(n) \in Flights /\ AllPhases(n)[q][t] \in Nat
    <3>1. AllPhases(n) \in Flights
      BY <1>1, AllPhasesType
    <3>2. QED
      BY <3>1 DEF Flights
  <2> DEFINE k == IF <<q, t>> \in S THEN 1 ELSE 0
  <2>2. k \in Nat
    OBVIOUS
  <2>3. n2[pp][q][t] = n[pp][q][t] + k
    <3>1. n[pp] \in Flights
      BY <1>1, <1>5
    <3>2. n[pp][q][t] \in Nat
      BY <3>1 DEF Flights
    <3>3. QED
      BY <1>5, <1>6, <3>2
  <2>4. \A j \in Phase : j # pp => n2[j][q][t] = n[j][q][t]
    BY <1>5, <1>6
  <2>5. n2 \in [Phase -> Flights]
    BY <1>5, <1>6
  <2> HIDE DEF k
  <2>6. AllPhases(n2)[q][t] = AllPhases(n)[q][t] + k
    <3>1. \A h \in Phase, j \in Nat :
            n2[h][q][t] = n[h][q][t] + j /\ (\A i \in Phase : i # h => n2[i][q][t] = n[i][q][t])
              => AllPhases(n2)[q][t] = AllPhases(n)[q][t] + j
      BY <1>1, <2>5, MoreOfOnePhase
    <3>2. QED
      BY <1>5, <2>2, <2>3, <2>4, <3>1
  <2>7. <<q, t>> \in S => t >= f
    <3>1. <<q, t>> \in S => <<q, t>>[2] >= f
      BY DEF Sends
    <3>2. QED
      BY <3>1
  <2>8. AllPhases(net')[q][t] = AllPhases(n2)[q][t]
    BY <1>6
  <2>9. QED
    BY <2>1, <2>6, <2>7, <2>8 DEF k
<1>8. AllPhases(net') \in Flights
  <2>1. n2 \in [Phase -> Flights]
    BY <1>5, <1>6
  <2>2. AllPhases(n2) \in Flights
    BY <2>1, AllPhasesType
  <2>3. QED
    BY <1>6, <2>2
<1>9. QED
  BY <1>4, <1>7, <1>8

\* The same, in the words of VirtualTime.
LEMMA SendsIsAbstractWork ==
  ASSUME Phases = 2, IInv, NEW p \in PE, NEW f, NEW n, NEW S, Consumed(p, f, n), Sends(p, f, n, S)
  PROVE  VT!MinimumFrom(p, f) /\ VT!SendsFrom(f, AllPhases(n))
<1>1. /\ low' \in [PE -> Time] /\ low'[p] >= f /\ \A q \in PE \ {p} : low'[q] = low[q]
      /\ AllPhases(net') \in Flights
      /\ \A q \in PE, t \in EventTime :
           /\ AllPhases(net')[q][t] >= AllPhases(n)[q][t]
           /\ AllPhases(net')[q][t] > AllPhases(n)[q][t] => t >= f
  BY SendsIsWork
<1>2. VT!MinimumFrom(p, f)
  BY <1>1 DEF VT!MinimumFrom, VT!Time, Time
<1>3. VT!SendsFrom(f, AllPhases(n))
  BY <1>1 DEF VT!SendsFrom, VT!Flights, VT!EventTime, Flights, EventTime, AllPhases, InFlight
<1>4. QED
  BY <1>2, <1>3

\* As long as no PE is told a GVT, the abstract ones stay.
LEMMA GvtStays ==
  ASSUME \A p \in PE : sched'[p].g_last_gvt = sched[p].g_last_gvt
  PROVE  gvt' = gvt
BY DEF gvt

\* execute() is Work.
LEMMA ExecuteRefines ==
  ASSUME Phases = 2, IInv, ~LBContinuous, NEW p \in PE, execute(p)
  PROVE  VT!Work(p)
<1>1. PICK S \in Emissions(manager[p], net, low[p]) :
        works(p, S) /\ iteration_done(p, produce(manager[p], S))
  BY DEF execute
<1>2. /\ low[p] \in Time /\ manager[p] \in Manager /\ sched[p].execs > 0
      /\ UNCHANGED <<completions, contributions, results>>
  BY DEF IInv, TypeOK, execute
<1>3. S \in SUBSET (PE \X EventTime) /\ \A s \in S : s[2] >= low[p]
  BY <1>2, EmissionsFrom DEF Emissions
<1> DEFINE M == produce(manager[p], S)
<1>4. /\ M \in Manager /\ M.current_phase = manager[p].current_phase
      /\ M.next_phase = manager[p].next_phase /\ M.detector_ready = manager[p].detector_ready
      /\ M.lb_cnt = manager[p].lb_cnt
  BY <1>2, <1>3, Produced
<1>5. iteration_done(p, M)
  BY <1>1
<1> HIDE DEF M
<1>6. /\ \A q \in PE : q # p => sched'[q] = sched[q]
      /\ sched'[p].g_last_gvt = sched[p].g_last_gvt
      /\ \/ manager' = [manager EXCEPT ![p] = M] /\ detectors' = detectors
         \/ /\ Ready(M)
            /\ manager' = [manager EXCEPT ![p] = enter_phase(M)]
            /\ done(p, M.current_phase)
  BY <1>2, <1>4, <1>5, ExecuteSched
<1>7. Sends(p, low[p], net, S)
  BY <1>1, <1>2, <1>3, <1>6 DEF Sends, works, M
<1>8. VT!MinimumFrom(p, low[p]) /\ VT!SendsFrom(low[p], AllPhases(net))
  BY <1>7, NothingConsumed, SendsIsAbstractWork
<1>9. gvt' = gvt
  BY <1>6, GvtStays
<1>10. QED
  BY <1>8, <1>9 DEF VT!Work, AllPhases, InFlight, gvt

\* Consuming a message of one phase takes it from all that is in flight.
LEMMA TakesOne ==
  ASSUME Phases = 2, net \in [Phase -> Flights], NEW p \in PE, NEW h \in Phase,
         NEW t \in EventTime, net[h][p][t] > 0
  PROVE  /\ AllPhases(net) \in Flights /\ AllPhases(net)[p][t] > 0
         /\ AllPhases([net EXCEPT ![h] = Take(net[h], p, t)]) = Take(AllPhases(net), p, t)
<1> DEFINE n == [net EXCEPT ![h] = Take(net[h], p, t)]
           N == AllPhases(net)
           M == AllPhases(n)
<1>1. N \in Flights /\ N[p][t] > 0
  BY AllPhasesType, InSomePhase
<1>2. Take(N, p, t) \in Flights
      /\ \A q \in PE, u \in EventTime :
           Take(N, p, t)[q][u] = IF q = p /\ u = t THEN N[q][u] - 1 ELSE N[q][u]
  <2> HIDE DEF N
  <2>1. QED
    BY <1>1, TakeType
<1>3. net[h] \in Flights /\ Take(net[h], p, t) \in Flights
      /\ \A q \in PE, u \in EventTime :
           Take(net[h], p, t)[q][u] = IF q = p /\ u = t THEN net[h][q][u] - 1 ELSE net[h][q][u]
  BY TakeType
<1>4. n \in [Phase -> Flights] /\ n[h] = Take(net[h], p, t) /\ \A k \in Phase : k # h => n[k] = net[k]
  BY <1>3
<1> HIDE DEF n
<1>5. M \in Flights
  BY <1>4, AllPhasesType
<1>6. ASSUME NEW q \in PE, NEW u \in EventTime PROVE M[q][u] = Take(N, p, t)[q][u]
  <2>1. M[q][u] \in Nat /\ N[q][u] \in Nat /\ net[h][q][u] \in Nat /\ n[h][q][u] \in Nat
    BY <1>1, <1>3, <1>4, <1>5 DEF Flights
  <2>2. \A k \in Nat : net[h][q][u] = n[h][q][u] + k => N[q][u] = M[q][u] + k
    <3> SUFFICES ASSUME NEW k \in Nat, net[h][q][u] = n[h][q][u] + k PROVE N[q][u] = M[q][u] + k
      OBVIOUS
    <3>1. \A j \in Phase : j # h => net[j][q][u] = n[j][q][u]
      BY <1>4
    <3> HIDE DEF M, N
    <3>2. AllPhases(net)[q][u] = AllPhases(n)[q][u] + k
      BY <1>4, <3>1, MoreOfOnePhase
    <3>3. QED
      BY <3>2 DEF M, N
  <2> HIDE DEF M, N
  <2>3. CASE q = p /\ u = t
    <3>1. net[h][q][u] = n[h][q][u] + 1
      BY <1>3, <1>4, <2>1, <2>3
    <3>2. N[q][u] = M[q][u] + 1
      BY <2>2, <3>1
    <3>3. QED
      BY <1>2, <2>1, <2>3, <3>2
  <2>4. CASE ~(q = p /\ u = t)
    <3>1. net[h][q][u] = n[h][q][u] + 0
      BY <1>3, <1>4, <2>1, <2>4
    <3>2. N[q][u] = M[q][u] + 0
      BY <2>2, <3>1
    <3>3. QED
      BY <1>2, <2>1, <2>4, <3>2
  <2>5. QED
    BY <2>3, <2>4
<1> HIDE DEF N, M
<1>7. M = Take(N, p, t)
  BY <1>2, <1>5, <1>6 DEF Flights
<1>8. QED
  BY <1>1, <1>7 DEF n, N, M

\* An arrival is Receive, in whichever phase the message was sent.
LEMMA ReceiveRefines ==
  ASSUME Phases = 2, IInv, NEW p \in PE, NEW h \in Phase, NEW t \in EventTime, receive(p, h, t)
  PROVE  VT!Receive(p, t)
<1> DEFINE f == Earlier(low[p], t)
           n == [net EXCEPT ![h] = Take(net[h], p, t)]
           own == manager[p].current_phase
           N == AllPhases(net)
<1>1. /\ net[h][p][t] > 0
      /\ \E x \in f..EndTime : low' = [low EXCEPT ![p] = x]
      /\ UNCHANGED <<sched, detectors, completions, contributions, results>>
  BY DEF receive
<1>2. PICK S \in Emissions(manager[p], n, t) :
           /\ net' = [n EXCEPT ![own] = Put(n[own], S)]
           /\ manager' = [manager EXCEPT ![p] = produce(manager[p], S)]
  BY DEF receive
<1>3. Consumed(p, f, n)
  BY <1>1, MessageConsumed
<1>4. low[p] \in Time /\ t \in Time /\ net \in [Phase -> Flights]
  BY EventTimes DEF IInv, TypeOK
<1>5. N[p][t] > 0 /\ AllPhases(n) = Take(N, p, t)
  BY <1>1, <1>4, TakesOne
<1> HIDE DEF n
<1>6. S \in SUBSET (PE \X EventTime) /\ \A s \in S : s[2] >= t
  BY <1>4, EmissionsFrom DEF Emissions
<1>7. \A s \in S : s[2] >= f
  <2> SUFFICES ASSUME NEW s \in S PROVE s[2] >= f
    OBVIOUS
  <2>1. s[2] >= t /\ s[2] \in Nat /\ t \in Nat /\ low[p] \in Nat
    BY <1>4, <1>6, EventTimes
  <2>2. QED
    BY <2>1 DEF Earlier
<1> HIDE DEF f, N
<1>8. Sends(p, f, n, S)
  BY <1>1, <1>2, <1>6, <1>7 DEF Sends
<1>9. VT!MinimumFrom(p, f) /\ VT!SendsFrom(f, Take(N, p, t))
  BY <1>3, <1>5, <1>8, SendsIsAbstractWork
<1>10. gvt' = gvt
  BY <1>1, GvtStays
<1>11. QED
  BY <1>5, <1>9, <1>10
  DEF VT!Receive, VT!Earlier, VT!Take, Earlier, Take, VT!EventTime, EventTime, f, N, AllPhases, InFlight, gvt

\* gvt_end() is Commit: the GVT it brings is a floor and not below the last.
LEMMA EndRefines ==
  ASSUME Phases = 2, IInv, NEW p \in PE, gvt_end(p)
  PROVE  VT!Commit(p)
<1> DEFINE g == results[p][1]
           lb == lb_trigger_ready(manager[p].lb_cnt)
<1>1. TypeOK /\ Staged(p) /\ Stopped(p) /\ Floors /\ sched \in [PE -> Scheduler]
      /\ net \in [Phase -> Flights]
  BY DEF IInv, TypeOK
<1>2. Ending(p)
  BY DEF gvt_end, Ending
<1>3. Head(results[p]) = g /\ g \in Time
  BY <1>1, <1>2, Stages
<1>4. UNCHANGED <<low, net>> /\ sched' = [sched EXCEPT ![p] = gvt_done(sched[p], g, lb)]
  BY <1>3 DEF gvt_end
<1>5. gvt_done(sched[p], g, lb).g_last_gvt = g
  <2>1. sched[p] \in Scheduler /\ sched[p].execs = IF sched[p].running THEN 1 ELSE 0
    BY <1>1 DEF Stopped
  <2>2. lb \in BOOLEAN
    BY DEF lb_trigger_ready
  <2> HIDE DEF lb, g
  <2>3. QED
    BY <1>3, <2>1, <2>2, GvtDone
<1>6. g >= sched[p].g_last_gvt
  BY <1>1, <1>2, <1>3, EventTimes DEF Floors, Scheduler
<1>7. IsFloor(g, low, AllPhases(net))
  <2>1. Floor(g, low, net)
    BY <1>1, <1>2, <1>3 DEF Floors, Given, Bounded
  <2>2. QED
    BY <1>1, <2>1, FloorOfAll
<1> HIDE DEF g, lb
<1>8. \A q \in PE : sched'[q].g_last_gvt = IF q = p THEN g ELSE sched[q].g_last_gvt
  BY <1>1, <1>4, <1>5
<1>9. gvt' = [gvt EXCEPT ![p] = g]
  BY <1>8 DEF gvt
<1>10. VT!IsFloor(g, low, AllPhases(net))
  BY <1>7 DEF IsFloor, VT!IsFloor, EventTime, VT!EventTime
<1>11. [q \in PE |-> [t \in EventTime |-> InFlight(q, t)]] = AllPhases(net)
  BY DEF AllPhases, InFlight
<1>12. [q \in PE |-> [t \in EventTime |-> InFlight(q, t)]]'
       = [q \in PE |-> [t \in EventTime |-> InFlight(q, t)]]
  BY <1>4 DEF InFlight
<1>13. g \in VT!Time /\ g >= gvt[p] /\ low' = low
  BY <1>3, <1>4, <1>6 DEF gvt, VT!Time, Time
<1>14. VT!IsFloor(g, low, [q \in PE |-> [t \in EventTime |-> InFlight(q, t)]])
  BY <1>10, <1>11
<1>15. QED
  BY <1>9, <1>12, <1>13, <1>14 DEF VT!Commit, gvt

\* Resuming after load balancing is Work, or changes nothing abstract.
LEMMA ResumeRefines ==
  ASSUME Phases = 2, IInv, NEW p \in PE, resume_balanced(p)
  PROVE  VT!Work(p) \/ UNCHANGED <<low, net, gvt>>
<1>1. /\ UNCHANGED <<detectors, completions, contributions, results>>
      /\ sched' = [sched EXCEPT ![p] = balancing_complete(sched[p])]
  BY DEF resume_balanced
<1>2. sched \in [PE -> Scheduler] /\ Stopped(p) /\ low[p] \in Time
  BY DEF IInv, TypeOK
<1>3. \A q \in PE : sched'[q].g_last_gvt = sched[q].g_last_gvt
  <2>1. sched[p] \in Scheduler /\ sched[p].execs = IF sched[p].running THEN 1 ELSE 0
    BY <1>2 DEF Stopped
  <2>2. balancing_complete(sched[p]).g_last_gvt = sched[p].g_last_gvt
    BY <2>1, BalancingComplete
  <2>3. QED
    BY <1>1, <1>2, <2>2
<1>4. gvt' = gvt
  BY <1>3, GvtStays
<1>5. CASE Optimistic
  <2>1. PICK S \in Emissions(manager[p], net, low[p]) :
          works(p, S) /\ manager' = [manager EXCEPT ![p] = produce(manager[p], S)]
    BY <1>5 DEF resume_balanced
  <2>2. S \in SUBSET (PE \X EventTime) /\ \A s \in S : s[2] >= low[p]
    BY <1>2, EmissionsFrom DEF Emissions
  <2>3. Sends(p, low[p], net, S)
    BY <1>1, <2>1, <2>2 DEF Sends, works
  <2>4. VT!MinimumFrom(p, low[p]) /\ VT!SendsFrom(low[p], AllPhases(net))
    BY <2>3, NothingConsumed, SendsIsAbstractWork
  <2>5. QED
    BY <1>4, <2>4 DEF VT!Work, AllPhases, InFlight, gvt
<1>6. CASE ~Optimistic
  BY <1>4, <1>6 DEF resume_balanced
<1>7. QED
  BY <1>5, <1>6

\* Load balancing is Migrate.
LEMMA BalanceRefines ==
  ASSUME Phases = 2, IInv, balance
  PROVE  VT!Migrate
<1>1. /\ low' \in [PE -> Time] /\ \A p \in PE : \E q \in PE : low[q] <= low'[p]
      /\ net' \in [Phase -> Flights]
      /\ \A h \in Phase, q \in PE, t \in EventTime : net'[h][q][t] > 0 => \E r \in PE : net[h][r][t] > 0
      /\ \A p \in PE : sched'[p].g_last_gvt = sched[p].g_last_gvt
  BY Balances
<1>2. net \in [Phase -> Flights]
  BY DEF IInv, TypeOK
<1>3. AllPhases(net') \in Flights
  BY <1>1, AllPhasesType
<1>4. ASSUME NEW q \in PE, NEW t \in EventTime, AllPhases(net')[q][t] > 0
      PROVE  \E r \in PE : AllPhases(net)[r][t] > 0
  <2>1. PICK h \in Phase : net'[h][q][t] > 0
    BY <1>1, <1>4, InSomePhase
  <2>2. PICK r \in PE : net[h][r][t] > 0
    BY <1>1, <2>1
  <2>3. QED
    BY <1>2, <2>2, InSomePhase
<1>5. gvt' = gvt
  BY <1>1, GvtStays
<1>6. QED
  BY <1>1, <1>3, <1>4, <1>5
  DEF VT!Migrate, VT!Time, VT!Flights, VT!EventTime, Time, Flights, EventTime, AllPhases, InFlight, gvt

\* Every step is a step of VirtualTime or changes nothing it sees.
LEMMA StepRefines ==
  ASSUME Phases = 2, IInv, ~LBContinuous, [Next]_vars
  PROVE  VT!Next \/ UNCHANGED <<low, net, gvt>>
<1>1. ASSUME NEW p \in PE, execute(p) PROVE VT!Next
  <2>1. VT!Work(p)
    BY <1>1, ExecuteRefines
  <2>2. QED
    BY <2>1 DEF VT!Next
<1>2. ASSUME NEW p \in PE, NEW h \in Phase, NEW t \in EventTime, receive(p, h, t) PROVE VT!Next
  <2>1. VT!Receive(p, t)
    BY <1>2, ReceiveRefines
  <2>2. QED
    BY <2>1 DEF VT!Next, VT!EventTime, EventTime
<1>3. ASSUME NEW p \in PE, gvt_end(p) PROVE VT!Next
  <2>1. VT!Commit(p)
    BY <1>3, EndRefines
  <2>2. QED
    BY <2>1 DEF VT!Next
<1>4. ASSUME NEW p \in PE, resume_balanced(p) PROVE VT!Next \/ UNCHANGED <<low, net, gvt>>
  <2>1. VT!Work(p) \/ UNCHANGED <<low, net, gvt>>
    BY <1>4, ResumeRefines
  <2>2. QED
    BY <2>1 DEF VT!Next
<1>5. ASSUME NEW p \in PE, gvt_contribute(p) PROVE UNCHANGED <<low, net, gvt>>
  BY <1>5 DEF gvt_contribute, gvt
<1>6. ASSUME NEW h \in Phase, complete(h) PROVE UNCHANGED <<low, net, gvt>>
  BY <1>6 DEF complete, gvt
<1>7. CASE balance
  BY <1>7, BalanceRefines DEF VT!Next
<1>8. CASE reduce \/ over \/ UNCHANGED vars
  BY <1>8 DEF reduce, over, vars, gvt
<1>9. QED
  BY <1>1, <1>2, <1>3, <1>4, <1>5, <1>6, <1>7, <1>8 DEF Next

\* CdGVT implements VirtualTime: no GVT it tells a PE is later than an event
\* that is still to be executed or cancelled, in whatever phase, on whatever PE
\* or in flight, and none is earlier than the one before.
THEOREM Refinement ==
  ASSUME Phases = 2, ~LBContinuous
  PROVE  Spec => ImplementsVirtualTime
<1>1. Init => VT!Init
  <2> SUFFICES ASSUME Init PROVE VT!Init
    OBVIOUS
  <2>1. low \in [PE -> Time] /\ net \in [Phase -> Flights]
    BY InitIInv DEF IInv, TypeOK
  <2>2. AllPhases(net) \in Flights
    BY <2>1, AllPhasesType
  <2>3. gvt = [p \in PE |-> 0]
    BY DEF Init, start_simulation, gvt
  <2>4. QED
    BY <2>1, <2>2, <2>3
    DEF VT!Init, VT!Time, VT!Flights, VT!EventTime, Time, Flights, EventTime, AllPhases, InFlight, gvt
<1>2. IInv /\ [Next]_vars => [VT!Next]_(VT!vars)
  <2> SUFFICES ASSUME IInv, [Next]_vars PROVE [VT!Next]_(VT!vars)
    OBVIOUS
  <2>1. VT!Next \/ UNCHANGED <<low, net, gvt>>
    BY StepRefines
  <2>2. UNCHANGED <<low, net, gvt>> => UNCHANGED VT!vars
    BY DEF VT!vars, gvt, InFlight
  <2>3. QED
    BY <2>1, <2>2
<1>3. QED
  BY Inductive, <1>1, <1>2, PTL DEF Spec, ImplementsVirtualTime, VT!Spec

\* No PE holds a GVT later than an event that is unprocessed on any PE, or in
\* flight in either phase, although no PE ever stops for a round.
THEOREM GVTIsSafe ==
  ASSUME Phases = 2, ~LBContinuous
  PROVE  Spec => []GVTIsFloor
<1>1. ASSUME IInv PROVE GVTIsFloor
  <2>1. /\ low \in [PE -> Time] /\ net \in [Phase -> Flights] /\ sched \in [PE -> Scheduler]
        /\ Floors
    BY <1>1 DEF IInv, TypeOK
  <2>2. ASSUME NEW p \in PE PROVE VT!IsFloor(gvt[p], low, AllPhases(net))
    <3>1. sched[p].g_last_gvt \in Time /\ gvt[p] = sched[p].g_last_gvt
      BY <2>1 DEF Scheduler, gvt
    <3>2. Floor(sched[p].g_last_gvt, low, net)
      BY <2>1, <3>1 DEF Floors, Given, Bounded
    <3>3. IsFloor(gvt[p], low, AllPhases(net))
      BY <1>1, <2>1, <3>1, <3>2, FloorOfAll
    <3>4. QED
      BY <3>3 DEF IsFloor, VT!IsFloor, EventTime, VT!EventTime
  <2>3. QED
    BY <2>2 DEF GVTIsFloor, VT!GVTIsFloor, gvt, AllPhases, InFlight
<1>2. QED
  BY <1>1, Inductive, PTL
=============================================================================

--------------------------- MODULE SyncGVT_proof ---------------------------
(***************************************************************************)
(* The synchronous GVT without g_tw_async_reduction is sound: for any      *)
(* number of PEs, any end time, any trigger and balancing interval and any *)
(* messages, it keeps the contract of VirtualTime.                         *)
(*                                                                         *)
(* Why the invariant is what it is.  GVTIsFloor alone is not inductive: a  *)
(* GVT on its way in a gvt_end() message must be a floor too (Announced),  *)
(* and it is one because between quiescence and the end of the reduction   *)
(* nothing runs and nothing is in flight, so that each contribution still  *)
(* is the minimum of its PE when the reduction completes (Collecting).     *)
(* That in turn needs the round not to be overtaken by another: PE 0 asks  *)
(* for quiescence at most once per round (RootStage), and no PE leaves the *)
(* round before gvt_end() (the barrier of load balancing cannot open, for  *)
(* PE 0 is not balancing).  That load balancing begins with the machine at *)
(* rest needs one more: every PE counts rounds for itself, and the         *)
(* counters agree (LBInv, at the end).                                     *)
(***************************************************************************)
EXTENDS SyncGVT, GVTManager_proof, SequenceTheorems

Idle(p) == ~sched[p].running /\ sched[p].execs = 0

\* PE 0 holds the only right to start a round, in one place at a time: it
\* runs, waits for quiescence, owes or has made a contribution, is owed a
\* result, balances or has ended.
RootStage ==
  LET s == sched[Root] IN
  \/ /\ s.running /\ s.mode = "sim" /\ qd = 0
     /\ contribute[Root] = 0 /\ reduction[Root] = << >> /\ results[Root] = << >>
  \/ /\ ~s.running /\ s.mode = "sim" /\ qd = 1
     /\ contribute[Root] = 0 /\ reduction[Root] = << >> /\ results[Root] = << >>
  \/ /\ ~s.running /\ s.mode = "sim" /\ qd = 0
     /\ \/ contribute[Root] = 1 /\ reduction[Root] = << >> /\ results[Root] = << >>
        \/ contribute[Root] = 0 /\ reduction[Root] # << >> /\ results[Root] = << >>
        \/ contribute[Root] = 0 /\ reduction[Root] = << >> /\ results[Root] # << >>
  \/ /\ ~s.running /\ s.mode # "sim" /\ qd = 0
     /\ contribute[Root] = 0 /\ reduction[Root] = << >> /\ results[Root] = << >>

\* A round is between quiescence and the end of its reduction.
InRound == \E p \in PE : contribute[p] > 0 \/ reduction[p] # << >>

Collecting ==
  InRound =>
    /\ NothingInFlight(net)
    /\ sched[Root].mode = "sim"
    /\ \A p \in PE :
         /\ Idle(p) /\ sched[p].mode # "lbdone" /\ results[p] = << >>
         /\ \/ contribute[p] = 1 /\ reduction[p] = << >>
            \/ contribute[p] = 0 /\ reduction[p] = <<low[p]>>

\* GVTs held and GVTs announced are floors, and an announced one is no
\* earlier than the one held.
Floors == \A p \in PE : IsFloor(sched[p].g_last_gvt, low, net)

Announced ==
  \A p \in PE :
    /\ results[p] # << >> =>
         /\ Len(results[p]) = 1
         /\ results[p][1] >= sched[p].g_last_gvt
         /\ IsFloor(results[p][1], low, net)

IInv ==
  /\ TypeOK
  /\ OneExecuteInFlight
  /\ RootStage
  /\ Collecting
  /\ Floors
  /\ Announced

-----------------------------------------------------------------------------
\* What a PE does to minima and messages in one handler, as execute() and
\* the receive methods do it.
WorkFrom(p, f, before) ==
  /\ \E x \in f..EndTime : low' = [low EXCEPT ![p] = x]
  /\ \E S \in SUBSET (PE \X EventTime) :
       (\A s \in S : s[2] >= f) /\ net' = Put(before, S)

\* Work from f on leaves every floor up to f a floor.
LEMMA WorkKeepsFloors ==
  ASSUME TypeOK, NEW p \in PE, NEW f \in Time, NEW before \in Flights,
         \A q \in PE, t \in EventTime : before[q][t] <= net[q][t],
         WorkFrom(p, f, before)
  PROVE  /\ low' \in [PE -> Time] /\ net' \in Flights
         /\ \A g \in Time : g <= f /\ IsFloor(g, low, net) => IsFloor(g, low', net')
<1>1. PICK x \in f..EndTime : low' = [low EXCEPT ![p] = x]
  BY DEF WorkFrom
<1>2. PICK S \in SUBSET (PE \X EventTime) : (\A s \in S : s[2] >= f) /\ net' = Put(before, S)
  BY DEF WorkFrom
<1>3. /\ low \in [PE -> Time] /\ net \in Flights
      /\ low' \in [PE -> Time] /\ low'[p] >= f /\ \A q \in PE \ {p} : low'[q] = low[q]
  BY <1>1, EndTimeAssumption DEF TypeOK, Time
<1>4. net' \in Flights
  BY <1>2, PutType
<1>5. ASSUME NEW g \in Time, g <= f, IsFloor(g, low, net) PROVE IsFloor(g, low', net')
  BY <1>1, <1>2, <1>3, <1>5, WorkKeepsFloor
<1>6. QED
  BY <1>3, <1>4, <1>5

\* An execution goes on from the minimum of its PE.
LEMMA WorksIsWork ==
  ASSUME TypeOK, NEW p \in PE, works(p)
  PROVE  WorkFrom(p, low[p], net)
<1>1. PICK S \in Emissions(low[p]) : net' = Put(net, S)
  BY DEF works
<1>2. S \in SUBSET (PE \X EventTime) /\ \A s \in S : s[2] >= low[p]
  <2>1. low[p] \in Time
    BY DEF TypeOK
  <2>2. QED
    BY <2>1, EmissionsFrom DEF Emissions
<1>3. QED
  BY <1>1, <1>2 DEF works, WorkFrom

\* A delivery goes on from the earlier of that minimum and the event's time.
LEMMA ReceiveIsWork ==
  ASSUME TypeOK, NEW p \in PE, NEW t \in EventTime, receive(p, t)
  PROVE  /\ Earlier(low[p], t) \in Time /\ Earlier(low[p], t) <= low[p] /\ Earlier(low[p], t) <= t
         /\ Take(net, p, t) \in Flights
         /\ \A q \in PE, u \in EventTime : Take(net, p, t)[q][u] <= net[q][u]
         /\ WorkFrom(p, Earlier(low[p], t), Take(net, p, t))
<1>1. /\ Earlier(low[p], t) \in Time /\ Earlier(low[p], t) <= low[p] /\ Earlier(low[p], t) <= t
      /\ low[p] \in Time
  BY EndTimeAssumption DEF TypeOK, Time, EventTime, Earlier
<1>2. net \in Flights /\ net[p][t] > 0
  BY DEF TypeOK, receive
<1>3. /\ Take(net, p, t) \in Flights
      /\ \A q \in PE, u \in EventTime :
           Take(net, p, t)[q][u] = IF q = p /\ u = t THEN net[q][u] - 1 ELSE net[q][u]
  BY <1>2, TakeType
<1>4. \A q \in PE, u \in EventTime : Take(net, p, t)[q][u] <= net[q][u]
  BY <1>2, <1>3 DEF Flights
<1>5. PICK S \in Emissions(t) : net' = Put(Take(net, p, t), S)
  BY DEF receive
<1>6. S \in SUBSET (PE \X EventTime) /\ \A s \in S : s[2] >= Earlier(low[p], t)
  <2>1. t \in Time
    BY EndTimeAssumption DEF Time, EventTime
  <2>2. S \in SUBSET (PE \X EventTime) /\ \A s \in S : s[2] >= t
    BY <2>1, EmissionsFrom DEF Emissions
  <2>3. \A s \in S : s[2] \in Int /\ t \in Int /\ Earlier(low[p], t) \in Int
    BY <1>1, <2>1, <2>2, EndTimeAssumption DEF Time, EventTime
  <2>4. QED
    BY <1>1, <2>2, <2>3
<1>7. WorkFrom(p, Earlier(low[p], t), Take(net, p, t))
  BY <1>5, <1>6 DEF receive, WorkFrom
<1>8. QED
  BY <1>1, <1>3, <1>4, <1>7

-----------------------------------------------------------------------------
(***************************************************************************)
(* Every step keeps the invariant: one lemma for each action.              *)
(***************************************************************************)
LEMMA InitIInv == Init => IInv
<1> SUFFICES ASSUME Init PROVE IInv
  OBVIOUS
<1>1. start_simulation \in Scheduler
  BY GvtIntervalAssumption, EndTimeAssumption DEF start_simulation, Scheduler, Mode, Time
<1>2. \A p \in PE : /\ sched[p] = start_simulation
                    /\ sched[p].running = TRUE /\ sched[p].execs = 1
                    /\ sched[p].mode = "sim" /\ sched[p].g_last_gvt = 0
  BY DEF Init, start_simulation
<1>3. TypeOK
  BY <1>1, LBAssumption DEF Init, TypeOK, Flights
<1>4. OneExecuteInFlight
  BY <1>2 DEF OneExecuteInFlight
<1>5. RootStage
  BY <1>2, RootAssumption DEF Init, RootStage
<1>6. Collecting /\ Announced
  BY DEF Init, Collecting, InRound, Announced
<1>7. Floors
  <2> SUFFICES ASSUME NEW p \in PE PROVE IsFloor(0, low, net)
    BY <1>2 DEF Floors
  <2>1. \A q \in PE : 0 <= low[q]
    BY <1>3, EndTimeAssumption DEF TypeOK, Time
  <2>2. \A q \in PE, t \in EventTime : ~(net[q][t] > 0)
    BY DEF Init
  <2>3. QED
    BY <2>1, <2>2 DEF IsFloor
<1>8. QED
  BY <1>3, <1>4, <1>5, <1>6, <1>7 DEF IInv

\* What an execute() does to the scheduler of its PE: it runs on, or it has
\* begun a GVT and, on PE 0, asked for quiescence.
LEMMA ExecuteSched ==
  ASSUME IInv, NEW p \in PE, execute(p)
  PROVE  /\ sched[p].running /\ sched[p].execs = 1
         /\ sched' = [sched EXCEPT ![p] = sched'[p]]
         /\ sched'[p] \in Scheduler
         /\ sched'[p].execs = IF sched'[p].running THEN 1 ELSE 0
         /\ sched'[p].mode = sched[p].mode /\ sched'[p].g_last_gvt = sched[p].g_last_gvt
         /\ \/ sched'[p].running /\ qd' = qd /\ lb_cnt' = lb_cnt
            \/ /\ ~sched'[p].running /\ qd' = IF p = Root THEN qd + 1 ELSE qd
               /\ lb_cnt' = [lb_cnt EXCEPT ![p] = lb_counted(p)]
         /\ lb_cnt' \in [PE -> 0..LBInterval]
         /\ UNCHANGED <<contribute, reduction, results>>
<1> DEFINE c == iteration_counted(sched[p])
<1>1. sched \in [PE -> Scheduler] /\ lb_cnt \in [PE -> 0..LBInterval]
  BY DEF IInv, TypeOK
<1>2. sched[p].running /\ sched[p].execs = 1
  BY DEF IInv, OneExecuteInFlight, execute
<1>3. /\ ~gvt_trigger_ready(c) => c \in Scheduler
      /\ gvt_trigger_reset(c) \in Scheduler
      /\ ~c.running /\ c.execs = 0 /\ c.mode = sched[p].mode
      /\ c.g_last_gvt = sched[p].g_last_gvt
      /\ LET r == gvt_trigger_reset(c) IN
         /\ ~r.running /\ r.execs = 0 /\ r.mode = sched[p].mode
         /\ r.g_last_gvt = sched[p].g_last_gvt
  BY <1>1, <1>2, IterationDone
<1>4. iteration_done(p)
  BY DEF execute
<1>5. CASE gvt_trigger_ready(c)
  <2>1. gvt_begin(p) /\ sched' = [sched EXCEPT ![p] = gvt_trigger_reset(c)]
    BY <1>4, <1>5 DEF iteration_done
  <2>2. sched'[p] = gvt_trigger_reset(c) /\ sched' = [sched EXCEPT ![p] = sched'[p]]
    BY <1>1, <2>1
  <2>3. lb_cnt' \in [PE -> 0..LBInterval]
    BY <1>1, <2>1, LBAssumption DEF gvt_begin, lb_counted, lb_trigger_counted
  <2>4. /\ qd' = IF p = Root THEN qd + 1 ELSE qd
        /\ lb_cnt' = [lb_cnt EXCEPT ![p] = lb_counted(p)]
        /\ UNCHANGED <<contribute, reduction, results>>
    BY <2>1 DEF gvt_begin
  <2> HIDE DEF c
  <2>5. QED
    BY <1>2, <1>3, <2>2, <2>3, <2>4
<1>6. CASE ~gvt_trigger_ready(c)
  <2>1. sched' = [sched EXCEPT ![p] = next_iteration(c)] /\ UNCHANGED <<gvts, lb_cnt>>
    BY <1>4, <1>6 DEF iteration_done
  <2>2. sched'[p] = next_iteration(c) /\ sched' = [sched EXCEPT ![p] = sched'[p]]
    BY <1>1, <2>1
  <2> HIDE DEF c
  <2>3. c \in Scheduler /\ c.execs = IF c.running THEN 1 ELSE 0
    BY <1>3, <1>6
  <2>4. QED
    BY <1>1, <1>2, <1>3, <2>1, <2>2, <2>3, NextIteration DEF gvts
<1>7. QED
  BY <1>5, <1>6

\* execute(), with the gvt_begin() at its end.
LEMMA ExecuteIInv ==
  ASSUME IInv, NEW p \in PE, execute(p)
  PROVE  IInv'
<1>1. /\ sched[p].running /\ sched[p].execs = 1
      /\ sched' = [sched EXCEPT ![p] = sched'[p]]
      /\ sched'[p] \in Scheduler
      /\ sched'[p].execs = IF sched'[p].running THEN 1 ELSE 0
      /\ sched'[p].mode = sched[p].mode /\ sched'[p].g_last_gvt = sched[p].g_last_gvt
      /\ \/ sched'[p].running /\ qd' = qd
         \/ ~sched'[p].running /\ qd' = IF p = Root THEN qd + 1 ELSE qd
      /\ lb_cnt' \in [PE -> 0..LBInterval]
      /\ UNCHANGED <<contribute, reduction, results>>
  BY ExecuteSched
<1>2. TypeOK /\ \A q \in PE : sched[q] \in Scheduler
  BY DEF IInv, TypeOK
<1>3. ~InRound
  BY <1>1 DEF IInv, Collecting, Idle
<1>4. /\ low' \in [PE -> Time] /\ net' \in Flights
      /\ \A g \in Time : g <= low[p] /\ IsFloor(g, low, net) => IsFloor(g, low', net')
  <2>1. WorkFrom(p, low[p], net) /\ low[p] \in Time /\ net \in Flights
    BY <1>2, WorksIsWork DEF execute, TypeOK
  <2>2. \A q \in PE, t \in EventTime : net[q][t] <= net[q][t]
    BY <2>1 DEF Flights
  <2>3. QED
    BY <1>2, <2>1, <2>2, WorkKeepsFloors
<1>5. \A q \in PE : q # p => sched'[q] = sched[q]
  BY <1>1, <1>2 DEF TypeOK
<1>6. TypeOK'
  <2>1. qd' \in Nat
    BY <1>1, <1>2 DEF TypeOK
  <2>2. sched' \in [PE -> Scheduler]
    BY <1>1, <1>2 DEF TypeOK
  <2>3. QED
    BY <1>1, <1>2, <1>4, <2>1, <2>2 DEF TypeOK
<1>7. OneExecuteInFlight'
  BY <1>1, <1>5 DEF IInv, OneExecuteInFlight
<1>8. RootStage'
  <2>1. CASE p = Root
    BY <1>1, <2>1 DEF IInv, RootStage
  <2>2. CASE p # Root
    <3>1. sched'[Root] = sched[Root] /\ qd' = qd
      BY <1>1, <1>5, <2>2, RootAssumption
    <3>2. QED
      BY <1>1, <3>1 DEF IInv, RootStage
  <2>3. QED
    BY <2>1, <2>2
<1>9. Collecting'
  BY <1>1, <1>3 DEF Collecting, InRound
<1>10. \A q \in PE : sched'[q].g_last_gvt = sched[q].g_last_gvt
  BY <1>1, <1>5
<1>11. Floors'
  <2> SUFFICES ASSUME NEW q \in PE PROVE IsFloor(sched'[q].g_last_gvt, low', net')
    BY DEF Floors
  <2>1. sched[q].g_last_gvt \in Time /\ IsFloor(sched[q].g_last_gvt, low, net)
    BY <1>2 DEF IInv, Floors, Scheduler
  <2>2. QED
    BY <1>4, <1>10, <2>1 DEF IsFloor
<1>12. Announced'
  <2> SUFFICES ASSUME NEW q \in PE, results[q] # << >>
               PROVE  /\ Len(results[q]) = 1
                      /\ results[q][1] >= sched'[q].g_last_gvt
                      /\ IsFloor(results[q][1], low', net')
    BY <1>1 DEF Announced
  <2>1. /\ Len(results[q]) = 1 /\ results[q][1] >= sched[q].g_last_gvt
        /\ IsFloor(results[q][1], low, net)
    BY DEF IInv, Announced
  <2>2. results[q][1] \in Time
    BY <1>2, <2>1 DEF TypeOK
  <2>3. QED
    BY <1>4, <1>10, <2>1, <2>2 DEF IsFloor
<1>13. QED
  BY <1>6, <1>7, <1>8, <1>9, <1>11, <1>12 DEF IInv

\* The arrival of an event.
LEMMA ReceiveIInv ==
  ASSUME IInv, NEW p \in PE, NEW t \in EventTime, receive(p, t)
  PROVE  IInv'
<1>1. TypeOK /\ UNCHANGED <<sched, gvts, lb_cnt>>
  BY DEF IInv, receive
<1>2. ~InRound
  <2>1. net[p][t] # 0
    BY DEF receive
  <2>2. QED
    BY <2>1 DEF IInv, Collecting, NothingInFlight
<1>3. /\ low' \in [PE -> Time] /\ net' \in Flights
      /\ \A g \in Time : IsFloor(g, low, net) => IsFloor(g, low', net')
  <2> DEFINE f == Earlier(low[p], t)
  <2>1. /\ f \in Time /\ f <= low[p] /\ f <= t
        /\ Take(net, p, t) \in Flights
        /\ \A q \in PE, u \in EventTime : Take(net, p, t)[q][u] <= net[q][u]
        /\ WorkFrom(p, f, Take(net, p, t))
    BY <1>1, ReceiveIsWork
  <2>2. \A g \in Time : IsFloor(g, low, net) => g <= f
    BY DEF receive, IsFloor, Earlier
  <2> HIDE DEF f
  <2>3. /\ low' \in [PE -> Time] /\ net' \in Flights
        /\ \A g \in Time : g <= f /\ IsFloor(g, low, net) => IsFloor(g, low', net')
    BY <1>1, <2>1, WorkKeepsFloors
  <2>4. QED
    BY <2>2, <2>3
<1>4. TypeOK'
  BY <1>1, <1>3 DEF TypeOK, gvts
<1>5. OneExecuteInFlight' /\ RootStage'
  BY <1>1 DEF IInv, OneExecuteInFlight, RootStage, gvts
<1>6. Collecting'
  BY <1>1, <1>2 DEF Collecting, InRound, gvts
<1>7. Floors'
  BY <1>1, <1>3 DEF IInv, Floors, TypeOK, Scheduler
<1>8. Announced'
  <2> SUFFICES ASSUME NEW q \in PE, results[q] # << >>
               PROVE  /\ Len(results[q]) = 1
                      /\ results[q][1] >= sched[q].g_last_gvt
                      /\ IsFloor(results[q][1], low', net')
    BY <1>1 DEF Announced, gvts
  <2>1. /\ Len(results[q]) = 1 /\ results[q][1] >= sched[q].g_last_gvt
        /\ IsFloor(results[q][1], low, net)
    BY DEF IInv, Announced
  <2>2. results[q][1] \in Time
    BY <1>1, <2>1 DEF TypeOK
  <2>3. QED
    BY <1>3, <2>1, <2>2
<1>9. QED
  BY <1>4, <1>5, <1>6, <1>7, <1>8 DEF IInv
\* Quiescence: every PE is told to contribute, and nothing else is under way.
LEMMA QuiescenceIInv ==
  ASSUME IInv, quiescence
  PROVE  IInv'
<1>1. /\ TypeOK /\ UNCHANGED <<sched, low, net, reduction, results, lb_cnt>> /\ qd' = 0
      /\ NothingInFlight(net) /\ qd > 0
      /\ \A p \in PE : /\ sched[p].execs = 0 /\ sched[p].mode # "lbdone"
                       /\ contribute[p] = 0 /\ reduction[p] = << >> /\ results[p] = << >>
  BY DEF IInv, quiescence, Quiescent, work
<1>2. qd = 1 /\ sched[Root].mode = "sim" /\ ~sched[Root].running
  BY <1>1 DEF IInv, RootStage
<1>3. contribute' = [p \in PE |-> 1]
  BY <1>1, <1>2 DEF quiescence
<1>4. \A p \in PE : Idle(p)
  BY <1>1 DEF IInv, OneExecuteInFlight, Idle
<1>5. TypeOK'
  BY <1>1, <1>3 DEF TypeOK
<1>6. OneExecuteInFlight'
  BY <1>1 DEF IInv, OneExecuteInFlight
<1>7. RootStage'
  BY <1>1, <1>2, <1>3, RootAssumption DEF RootStage
<1>8. Collecting'
  BY <1>1, <1>2, <1>3, <1>4 DEF Collecting, Idle
<1>9. Floors' /\ Announced'
  BY <1>1 DEF IInv, Floors, Announced
<1>10. QED
  BY <1>5, <1>6, <1>7, <1>8, <1>9 DEF IInv

\* A contribution is the PE's minimum, which stays so until the reduction ends.
LEMMA ContributeIInv ==
  ASSUME IInv, ~AsyncReduction, NEW p \in PE, gvt_contribute(p)
  PROVE  IInv'
<1>1. /\ TypeOK /\ UNCHANGED <<sched, low, net, qd, results, lb_cnt>>
      /\ contribute[p] > 0
      /\ contribute' = [contribute EXCEPT ![p] = contribute[p] - 1]
      /\ reduction' = [reduction EXCEPT ![p] = Append(reduction[p], low[p])]
  BY DEF IInv, gvt_contribute
<1>2. /\ NothingInFlight(net) /\ sched[Root].mode = "sim"
      /\ \A q \in PE :
           /\ Idle(q) /\ sched[q].mode # "lbdone" /\ results[q] = << >>
           /\ \/ contribute[q] = 1 /\ reduction[q] = << >>
              \/ contribute[q] = 0 /\ reduction[q] = <<low[q]>>
  BY <1>1 DEF IInv, Collecting, InRound
<1>3. contribute[p] = 1 /\ reduction[p] = << >>
  BY <1>1, <1>2
<1>4. /\ contribute'[p] = 0 /\ reduction'[p] = <<low[p]>>
      /\ \A q \in PE : q # p => contribute'[q] = contribute[q] /\ reduction'[q] = reduction[q]
  BY <1>1, <1>3 DEF TypeOK
<1>5. TypeOK'
  <2>1. contribute' \in [PE -> Nat]
    BY <1>1, <1>3 DEF TypeOK
  <2>2. low[p] \in Time /\ reduction[p] \in Seq(Time)
    BY <1>1 DEF TypeOK
  <2>3. reduction' \in [PE -> Seq(Time)]
    BY <1>1, <2>2 DEF TypeOK
  <2>4. QED
    BY <1>1, <2>1, <2>3 DEF TypeOK
<1>6. OneExecuteInFlight'
  BY <1>1 DEF IInv, OneExecuteInFlight
<1>7. Collecting'
  BY <1>1, <1>2, <1>4 DEF Collecting, Idle
<1>8. RootStage'
  <2>1. CASE p = Root
    <3>1. qd = 0 /\ ~sched[Root].running /\ sched[Root].mode = "sim" /\ results[Root] = << >>
      BY <1>2, <1>3, <2>1, RootAssumption DEF IInv, RootStage
    <3>2. reduction'[Root] # << >> /\ contribute'[Root] = 0
      BY <1>4, <2>1
    <3>3. QED
      BY <1>1, <3>1, <3>2 DEF RootStage
  <2>2. CASE p # Root
    <3>1. contribute'[Root] = contribute[Root] /\ reduction'[Root] = reduction[Root]
      BY <1>4, <2>2, RootAssumption
    <3>2. QED
      BY <1>1, <3>1 DEF IInv, RootStage
  <2>3. QED
    BY <2>1, <2>2
<1>9. Floors' /\ Announced'
  BY <1>1 DEF IInv, Floors, Announced
<1>10. QED
  BY <1>5, <1>6, <1>7, <1>8, <1>9 DEF IInv

\* The end of the reduction: its result is the true minimum at that moment.
LEMMA ReduceIInv ==
  ASSUME IInv, reduce
  PROVE  IInv'
<1> DEFINE f == [p \in PE |-> Head(reduction[p])]
           g == MinOver(f)
<1>1. /\ TypeOK /\ UNCHANGED <<sched, low, net, qd, contribute, lb_cnt>>
      /\ \A p \in PE : reduction[p] # << >>
      /\ results' = [p \in PE |-> Append(results[p], g)]
      /\ reduction' = [p \in PE |-> Tail(reduction[p])]
  BY DEF IInv, reduce, work
<1>2. /\ NothingInFlight(net) /\ sched[Root].mode = "sim"
      /\ \A q \in PE :
           /\ Idle(q) /\ results[q] = << >>
           /\ contribute[q] = 0 /\ reduction[q] = <<low[q]>>
  BY <1>1, RootAssumption DEF IInv, Collecting, InRound
<1>3. f = low
  <2>1. \A p \in PE : Head(reduction[p]) = low[p]
    BY <1>2
  <2>2. QED
    BY <1>1, <2>1 DEF TypeOK
<1>4. /\ g \in Time /\ \A p \in PE : g <= low[p]
      /\ \E p \in PE : low[p] = g
  BY <1>1, <1>3, MinOverIsMinimum DEF TypeOK
<1> HIDE DEF g, f
<1>5. /\ \A p \in PE : results'[p] = <<g>> /\ reduction'[p] = << >>
      /\ results' = [p \in PE |-> <<g>>] /\ reduction' = [p \in PE |-> << >>]
  <2>1. ASSUME NEW p \in PE
        PROVE  Append(results[p], g) = <<g>> /\ Tail(reduction[p]) = << >>
    <3>1. results[p] = << >> /\ reduction[p] = <<low[p]>>
      BY <1>2
    <3>2. QED
      BY <3>1
  <2>2. QED
    BY <1>1, <2>1
<1>6. TypeOK'
  BY <1>1, <1>4, <1>5 DEF TypeOK
<1>7. OneExecuteInFlight' /\ Floors'
  BY <1>1 DEF IInv, OneExecuteInFlight, Floors
<1>8. RootStage'
  <2>1. contribute[Root] = 0 /\ ~sched[Root].running /\ results'[Root] # << >>
        /\ reduction'[Root] = << >>
    BY <1>2, <1>5, RootAssumption DEF Idle
  <2>2. qd = 0
    BY <1>1, RootAssumption DEF IInv, RootStage
  <2>3. QED
    BY <1>1, <1>2, <2>1, <2>2 DEF RootStage
<1>9. Collecting'
  <2>1. \A p \in PE : ~(contribute'[p] > 0) /\ reduction'[p] = << >>
    BY <1>1, <1>2, <1>5
  <2>2. QED
    BY <2>1 DEF Collecting, InRound
<1>10. Announced'
  <2> SUFFICES ASSUME NEW p \in PE
               PROVE  g >= sched[p].g_last_gvt /\ IsFloor(g, low, net)
    BY <1>1, <1>5 DEF Announced
  <2>1. IsFloor(g, low, net)
    <3>1. \A q \in PE, t \in EventTime : ~(net[q][t] > 0)
      BY <1>2 DEF NothingInFlight
    <3>2. QED
      BY <1>4, <3>1 DEF IsFloor
  <2>2. PICK q \in PE : low[q] = g
    BY <1>4
  <2>3. sched[p].g_last_gvt <= low[q]
    BY DEF IInv, Floors, IsFloor
  <2>4. QED
    BY <1>1, <1>4, <2>1, <2>2, <2>3 DEF TypeOK, Scheduler, Time
<1>11. QED
  BY <1>6, <1>7, <1>8, <1>9, <1>10 DEF IInv

\* A PE takes the GVT announced to it.
LEMMA EndIInv ==
  ASSUME IInv, NEW p \in PE, gvt_end(p)
  PROVE  IInv'
<1> DEFINE g == results[p][1]
           lb == lb_ready(p)
<1>1. TypeOK /\ UNCHANGED <<low, net, qd, contribute, reduction>> /\ results[p] # << >>
  BY DEF IInv, gvt_end
<1>2. Len(results[p]) = 1 /\ g >= sched[p].g_last_gvt /\ IsFloor(g, low, net)
  BY <1>1 DEF IInv, Announced
<1>3. results[p] \in Seq(Time) /\ g \in Time /\ Head(results[p]) = g
  BY <1>1, <1>2 DEF TypeOK
<1>4. lb \in BOOLEAN
  BY DEF lb_ready, lb_trigger_ready
<1>5. /\ sched' = [sched EXCEPT ![p] = gvt_done(sched[p], g, lb)]
      /\ results' = [results EXCEPT ![p] = Tail(results[p])]
  BY <1>3 DEF gvt_end
<1>6. Tail(results[p]) = << >>
  <2>1. Tail(results[p]) \in Seq(Time) /\ Len(Tail(results[p])) = 0
    BY <1>1, <1>2, <1>3
  <2>2. QED
    BY <2>1, EmptySeq
<1>7. /\ results'[p] = << >> /\ \A q \in PE : q # p => results'[q] = results[q]
      /\ results' \in [PE -> Seq(Time)]
  BY <1>1, <1>5, <1>6 DEF TypeOK
<1> HIDE DEF g, lb
<1>8. /\ sched'[p] = gvt_done(sched[p], g, lb)
      /\ \A q \in PE : q # p => sched'[q] = sched[q]
  BY <1>1, <1>5 DEF TypeOK
<1>9. sched[p] \in Scheduler /\ sched[p].execs = IF sched[p].running THEN 1 ELSE 0
  BY <1>1 DEF IInv, TypeOK, OneExecuteInFlight
<1>10. /\ sched'[p] \in Scheduler
       /\ sched'[p].g_last_gvt = g
       /\ sched'[p].execs = IF sched'[p].running THEN 1 ELSE 0
       /\ sched'[p].running /\ ~sched[p].running => sched'[p].mode = sched[p].mode
       /\ ~sched[p].running => sched'[p].running \/ sched'[p].mode \in {"lb", "over"}
  BY <1>3, <1>4, <1>8, <1>9, GvtDone
<1>11. ~InRound
  BY <1>1 DEF IInv, Collecting
<1>12. TypeOK'
  <2>1. sched' \in [PE -> Scheduler]
    BY <1>1, <1>5, <1>8, <1>10 DEF TypeOK
  <2>2. lb_cnt' \in [PE -> 0..LBInterval]
    BY <1>1, LBAssumption DEF TypeOK, gvt_end, lb_trigger_reset
  <2>3. QED
    BY <1>1, <1>7, <2>1, <2>2 DEF TypeOK
<1>13. OneExecuteInFlight'
  BY <1>8, <1>10 DEF IInv, OneExecuteInFlight
<1>14. RootStage'
  <2>1. CASE p = Root
    <3>1. /\ ~sched[Root].running /\ sched[Root].mode = "sim" /\ qd = 0
          /\ contribute[Root] = 0 /\ reduction[Root] = << >>
      BY <1>1, <2>1 DEF IInv, RootStage
    <3>2. \/ sched'[Root].running /\ sched'[Root].mode = "sim"
          \/ ~sched'[Root].running /\ sched'[Root].mode # "sim"
      BY <1>10, <2>1, <3>1
    <3>3. QED
      BY <1>1, <1>7, <2>1, <3>1, <3>2 DEF RootStage
  <2>2. CASE p # Root
    <3>1. sched'[Root] = sched[Root] /\ results'[Root] = results[Root]
      BY <1>7, <1>8, <2>2, RootAssumption
    <3>2. QED
      BY <1>1, <3>1 DEF IInv, RootStage
  <2>3. QED
    BY <2>1, <2>2
<1>15. Collecting'
  BY <1>1, <1>11 DEF Collecting, InRound
<1>16. Floors'
  BY <1>1, <1>2, <1>8, <1>10 DEF IInv, Floors
<1>17. Announced'
  BY <1>1, <1>7, <1>8 DEF IInv, Announced
<1>18. QED
  BY <1>12, <1>13, <1>14, <1>15, <1>16, <1>17 DEF IInv

\* The barrier of AtSync() opens only when PE 0 is balancing too, so no round
\* is under way.
LEMMA BalanceIInv ==
  ASSUME IInv, balance
  PROVE  IInv'
<1>1. /\ TypeOK /\ UNCHANGED <<net, qd, contribute, reduction, results, lb_cnt>>
      /\ sched[Root].mode = "lb"
      /\ sched' = [p \in PE |-> [sched[p] EXCEPT !.mode = "lbdone"]]
      /\ low' \in [PE -> Time] /\ Redistributed(low, low')
  BY RootAssumption DEF IInv, balance, gvts
<1>2. \A p \in PE : /\ sched'[p] \in Scheduler /\ sched'[p].mode = "lbdone"
                    /\ sched'[p].running = sched[p].running
                    /\ sched'[p].execs = sched[p].execs
                    /\ sched'[p].g_last_gvt = sched[p].g_last_gvt
  <2> SUFFICES ASSUME NEW p \in PE
               PROVE  /\ sched'[p] \in Scheduler /\ sched'[p].mode = "lbdone"
                      /\ sched'[p].running = sched[p].running
                      /\ sched'[p].execs = sched[p].execs
                      /\ sched'[p].g_last_gvt = sched[p].g_last_gvt
    OBVIOUS
  <2>1. sched[p] \in Scheduler /\ sched'[p] = [sched[p] EXCEPT !.mode = "lbdone"]
    BY <1>1 DEF TypeOK
  <2>2. QED
    BY <2>1 DEF Scheduler, Mode
<1>3. ~InRound
  BY <1>1 DEF IInv, Collecting
<1>4. TypeOK'
  BY <1>1, <1>2 DEF TypeOK
<1>5. OneExecuteInFlight'
  BY <1>2 DEF IInv, OneExecuteInFlight
<1>6. RootStage'
  BY <1>1, <1>2, RootAssumption DEF IInv, RootStage
<1>7. Collecting'
  BY <1>1, <1>3 DEF Collecting, InRound
<1>8. ASSUME NEW g \in Time, IsFloor(g, low, net) PROVE IsFloor(g, low', net')
  <2>1. ASSUME NEW p \in PE PROVE g <= low'[p]
    <3>1. PICK q \in PE : low[q] <= low'[p]
      BY <1>1, RedistributedFloors DEF TypeOK
    <3>2. g <= low[q]
      BY <1>8 DEF IsFloor
    <3>3. g \in Nat /\ low[q] \in Nat /\ low'[p] \in Nat
      BY <1>1, EndTimeAssumption DEF TypeOK, Time
    <3>4. QED
      BY <3>1, <3>2, <3>3
  <2>2. QED
    BY <1>1, <1>8, <2>1 DEF IsFloor
<1>9. Floors'
  <2>1. \A p \in PE : sched[p].g_last_gvt \in Time
    BY <1>1 DEF TypeOK, Scheduler
  <2>2. QED
    BY <1>2, <1>8, <2>1 DEF IInv, Floors
<1>10. Announced'
  <2> SUFFICES ASSUME NEW p \in PE, results[p] # << >>
               PROVE  Len(results[p]) = 1 /\ results[p][1] >= sched[p].g_last_gvt
                      /\ IsFloor(results[p][1], low', net')
    BY <1>1, <1>2 DEF Announced
  <2>1. /\ Len(results[p]) = 1 /\ results[p][1] >= sched[p].g_last_gvt
        /\ IsFloor(results[p][1], low, net)
    BY DEF IInv, Announced
  <2>2. results[p][1] \in Time
    BY <1>1, <2>1 DEF TypeOK
  <2>3. QED
    BY <1>8, <2>1, <2>2
<1>11. QED
  BY <1>4, <1>5, <1>6, <1>7, <1>9, <1>10 DEF IInv

\* The step that resumes a PE after load balancing.
LEMMA ResumeIInv ==
  ASSUME IInv, NEW p \in PE, resume_balanced(p)
  PROVE  IInv'
<1>1. /\ TypeOK /\ UNCHANGED <<qd, contribute, reduction, results, lb_cnt>>
      /\ sched[p].mode = "lbdone"
      /\ works(p) \/ UNCHANGED <<low, net>>
      /\ sched' = [sched EXCEPT ![p] = balancing_complete(sched[p])]
  BY DEF IInv, resume_balanced, gvts
<1>2. /\ sched'[p] = balancing_complete(sched[p])
      /\ \A q \in PE : q # p => sched'[q] = sched[q]
      /\ sched[p] \in Scheduler /\ sched[p].execs = IF sched[p].running THEN 1 ELSE 0
  BY <1>1 DEF IInv, TypeOK, OneExecuteInFlight
<1>3. /\ sched'[p] \in Scheduler /\ sched'[p].running /\ sched'[p].execs = 1
      /\ sched'[p].mode = "sim" /\ sched'[p].g_last_gvt = sched[p].g_last_gvt
  BY <1>2, BalancingComplete
<1>4. ~InRound
  BY <1>1 DEF IInv, Collecting
<1>worked. /\ low' \in [PE -> Time] /\ net' \in Flights
           /\ \A g \in Time : IsFloor(g, low, net) => IsFloor(g, low', net')
  <2>1. CASE works(p)
    <3>1. WorkFrom(p, low[p], net) /\ low[p] \in Time /\ net \in Flights
      BY <1>1, <2>1, WorksIsWork DEF TypeOK
    <3>2. \A q \in PE, t \in EventTime : net[q][t] <= net[q][t]
      BY <1>1 DEF TypeOK, Flights
    <3>3. /\ low' \in [PE -> Time] /\ net' \in Flights
          /\ \A g \in Time : g <= low[p] /\ IsFloor(g, low, net) => IsFloor(g, low', net')
      BY <1>1, <3>1, <3>2, WorkKeepsFloors
    <3>4. \A g \in Time : IsFloor(g, low, net) => g <= low[p]
      BY DEF IsFloor
    <3>5. QED
      BY <3>3, <3>4
  <2>2. CASE UNCHANGED <<low, net>>
    BY <1>1, <2>2 DEF TypeOK
  <2>3. QED
    BY <1>1, <2>1, <2>2
<1>5. TypeOK'
  <2>1. sched' \in [PE -> Scheduler]
    BY <1>1, <1>2, <1>3 DEF TypeOK
  <2>2. QED
    BY <1>worked, <1>1, <2>1 DEF TypeOK
<1>6. OneExecuteInFlight'
  BY <1>2, <1>3 DEF IInv, OneExecuteInFlight
<1>7. RootStage'
  <2>1. CASE p = Root
    BY <1>1, <1>3, <2>1 DEF IInv, RootStage
  <2>2. CASE p # Root
    <3>1. sched'[Root] = sched[Root]
      BY <1>2, <2>2, RootAssumption
    <3>2. QED
      BY <1>1, <3>1 DEF IInv, RootStage
  <2>3. QED
    BY <2>1, <2>2
<1>8. Collecting'
  BY <1>1, <1>4 DEF Collecting, InRound
<1>9. \A q \in PE : sched'[q].g_last_gvt = sched[q].g_last_gvt
  BY <1>2, <1>3
<1>10. Floors'
  <2>1. \A q \in PE : sched[q].g_last_gvt \in Time
    BY <1>1 DEF TypeOK, Scheduler
  <2>2. QED
    BY <1>worked, <1>9, <2>1 DEF IInv, Floors
<1>11. Announced'
  <2> SUFFICES ASSUME NEW q \in PE, results[q] # << >>
               PROVE  Len(results[q]) = 1 /\ results[q][1] >= sched[q].g_last_gvt
                      /\ IsFloor(results[q][1], low', net')
    BY <1>1, <1>9 DEF Announced
  <2>1. /\ Len(results[q]) = 1 /\ results[q][1] >= sched[q].g_last_gvt
        /\ IsFloor(results[q][1], low, net)
    BY DEF IInv, Announced
  <2>2. results[q][1] \in Time
    BY <1>1, <2>1 DEF TypeOK
  <2>3. QED
    BY <1>worked, <2>1, <2>2
<1>12. QED
  BY <1>5, <1>6, <1>7, <1>8, <1>10, <1>11 DEF IInv
-----------------------------------------------------------------------------
\* IInv is inductive.
LEMMA NextIInv ==
  ASSUME IInv, ~AsyncReduction, [Next]_vars
  PROVE  IInv'
<1>1. ASSUME NEW p \in PE, execute(p) PROVE IInv'
  BY <1>1, ExecuteIInv
<1>2. ASSUME NEW p \in PE, gvt_contribute(p) PROVE IInv'
  BY <1>2, ContributeIInv
<1>3. ASSUME NEW p \in PE, gvt_end(p) PROVE IInv'
  BY <1>3, EndIInv
<1>4. ASSUME NEW p \in PE, resume_balanced(p) PROVE IInv'
  BY <1>4, ResumeIInv
<1>5. ASSUME NEW p \in PE, NEW t \in EventTime, receive(p, t) PROVE IInv'
  BY <1>5, ReceiveIInv
<1>6. CASE quiescence
  BY <1>6, QuiescenceIInv
<1>7. CASE reduce
  BY <1>7, ReduceIInv
<1>8. CASE balance
  BY <1>8, BalanceIInv
<1>9. CASE over \/ UNCHANGED vars
  <2>1. UNCHANGED <<sched, low, net, qd, contribute, reduction, results, lb_cnt>>
    BY <1>9 DEF over, vars
  <2>2. TypeOK' /\ OneExecuteInFlight' /\ RootStage'
    BY <2>1 DEF IInv, TypeOK, OneExecuteInFlight, RootStage
  <2>3. Collecting' /\ Floors' /\ Announced'
    BY <2>1 DEF IInv, Collecting, InRound, Idle, Floors, Announced
  <2>4. QED
    BY <2>2, <2>3 DEF IInv
<1>10. QED
  BY <1>1, <1>2, <1>3, <1>4, <1>5, <1>6, <1>7, <1>8, <1>9 DEF Next

\* The invariant holds in every state that SyncGVT reaches without
\* asynchronous reduction (sync.C with g_tw_async_reduction off, the default).
THEOREM Inductive ==
  ASSUME ~AsyncReduction
  PROVE  Spec => []IInv
<1>1. IInv /\ [Next]_vars => IInv'
  BY NextIInv
<1>2. QED
  BY InitIInv, <1>1, PTL DEF Spec

\* The variables keep their types, whatever is sent and in whatever order it
\* is delivered.
THEOREM TypeCorrect ==
  ASSUME ~AsyncReduction
  PROVE  Spec => []TypeOK
<1>1. IInv => TypeOK
  BY DEF IInv
<1>2. QED
  BY Inductive, <1>1, PTL

\* No PE ever has two execute() messages in flight, or runs without one
\* (the comment on DistributedScheduler in scheduler.h).
THEOREM AtMostOneExecute ==
  ASSUME ~AsyncReduction
  PROVE  Spec => []OneExecuteInFlight
<1>1. IInv => OneExecuteInFlight
  BY DEF IInv
<1>2. QED
  BY Inductive, <1>1, PTL

\* GVTIsFloor follows from the invariant.
LEMMA FloorsAreVT == ASSUME IInv PROVE GVTIsFloor
BY DEF IInv, Floors, GVTIsFloor, VT!GVTIsFloor, IsFloor, VT!IsFloor, EventTime, VT!EventTime

\* No PE ever holds a GVT later than an event that can still be executed or
\* cancelled: fossil collection in gvt_done() only commits final events.
THEOREM GVTIsSafe ==
  ASSUME ~AsyncReduction
  PROVE  Spec => []GVTIsFloor
<1>1. IInv => GVTIsFloor
  BY FloorsAreVT
<1>2. QED
  BY Inductive, <1>1, PTL
-----------------------------------------------------------------------------
(***************************************************************************)
(* Every step of the manager and the schedulers is a step of VirtualTime:  *)
(* work, a delivery, a commit, or nothing the contract speaks of.          *)
(***************************************************************************)
gvt == [p \in PE |-> sched[p].g_last_gvt]

\* What handlers send is added to what is in flight, at f or later.
LEMMA WorkSends ==
  ASSUME NEW p \in PE, NEW f \in Time, NEW before \in Flights, low \in [PE -> Time],
         WorkFrom(p, f, before)
  PROVE  VT!MinimumFrom(p, f) /\ VT!SendsFrom(f, before)
<1>1. PICK x \in f..EndTime : low' = [low EXCEPT ![p] = x]
  BY DEF WorkFrom
<1>2. PICK S \in SUBSET (PE \X EventTime) : (\A s \in S : s[2] >= f) /\ net' = Put(before, S)
  BY DEF WorkFrom
<1>3. low' \in [PE -> Time] /\ low'[p] >= f /\ \A q \in PE \ {p} : low'[q] = low[q]
  BY <1>1, EndTimeAssumption DEF Time
<1>4. VT!MinimumFrom(p, f)
  BY <1>3 DEF VT!MinimumFrom, VT!Time, Time
<1>5. /\ net' \in Flights
      /\ \A q \in PE, t \in EventTime :
           net'[q][t] = IF <<q, t>> \in S THEN before[q][t] + 1 ELSE before[q][t]
  BY <1>2, PutType
<1>6. \A q \in PE, t \in EventTime : before[q][t] \in Nat
  BY DEF Flights
<1>7. \A q \in PE, t \in EventTime :
        net'[q][t] >= before[q][t] /\ (net'[q][t] > before[q][t] => t >= f)
  <2> SUFFICES ASSUME NEW q \in PE, NEW t \in EventTime
               PROVE  net'[q][t] >= before[q][t] /\ (net'[q][t] > before[q][t] => t >= f)
    OBVIOUS
  <2>1. before[q][t] \in Nat
    BY <1>6
  <2>2. CASE <<q, t>> \in S
    <3>1. <<q, t>>[2] >= f
      BY <1>2, <2>2, Zenon
    <3>2. net'[q][t] = before[q][t] + 1
      BY <1>5, <2>2
    <3>3. QED
      BY <2>1, <3>1, <3>2
  <2>3. CASE <<q, t>> \notin S
    <3>1. net'[q][t] = before[q][t]
      BY <1>5, <2>3
    <3>2. QED
      BY <2>1, <3>1
  <2>4. QED
    BY <2>2, <2>3
<1>8. VT!SendsFrom(f, before)
  BY <1>5, <1>7 DEF VT!SendsFrom, VT!Flights, VT!EventTime, Flights, EventTime
<1>9. QED
  BY <1>4, <1>8

\* As long as no PE is told a GVT, the abstract ones stay.
LEMMA GvtStays ==
  ASSUME TypeOK, \A p \in PE : sched'[p].g_last_gvt = sched[p].g_last_gvt
  PROVE  gvt' = gvt
BY DEF gvt

\* Every step is a step of VirtualTime or changes nothing it sees.
LEMMA StepRefines ==
  ASSUME IInv, IInv', ~AsyncReduction, [Next]_vars
  PROVE  VT!Next \/ UNCHANGED <<low, net, gvt>>
<1>0. TypeOK /\ TypeOK'
  BY DEF IInv
<1>1. ASSUME NEW p \in PE, execute(p) PROVE VT!Next
  <2>1. WorkFrom(p, low[p], net) /\ low[p] \in Time /\ net \in Flights /\ low \in [PE -> Time]
    BY <1>0, <1>1, WorksIsWork DEF execute, TypeOK
  <2>2. VT!MinimumFrom(p, low[p]) /\ VT!SendsFrom(low[p], net)
    BY <2>1, WorkSends
  <2>3. \A q \in PE : sched'[q].g_last_gvt = sched[q].g_last_gvt
    <3>1. /\ sched' = [sched EXCEPT ![p] = sched'[p]]
          /\ sched'[p].g_last_gvt = sched[p].g_last_gvt
      BY <1>1, ExecuteSched
    <3>2. \A q \in PE : q # p => sched'[q] = sched[q]
      BY <1>0, <3>1 DEF TypeOK
    <3>3. QED
      BY <3>1, <3>2
  <2>4. VT!Work(p)
    BY <1>0, <2>2, <2>3, GvtStays DEF VT!Work, gvt
  <2>5. QED
    BY <2>4 DEF VT!Next
<1>2. ASSUME NEW p \in PE, NEW t \in EventTime, receive(p, t) PROVE VT!Next
  <2> DEFINE f == Earlier(low[p], t)
  <2>1. f \in Time /\ Take(net, p, t) \in Flights /\ WorkFrom(p, f, Take(net, p, t))
    BY <1>0, <1>2, ReceiveIsWork
  <2>2. VT!MinimumFrom(p, f) /\ VT!SendsFrom(f, Take(net, p, t))
    <3> HIDE DEF f
    <3>1. QED
      BY <1>0, <2>1, WorkSends DEF TypeOK
  <2>3. net[p][t] > 0 /\ UNCHANGED sched
    BY <1>2 DEF receive
  <2>4. VT!Receive(p, t)
    BY <2>2, <2>3 DEF VT!Receive, VT!Earlier, VT!Take, Earlier, Take, VT!EventTime, EventTime
  <2>5. QED
    BY <2>4 DEF VT!Next, VT!EventTime, EventTime
<1>3. ASSUME NEW p \in PE, gvt_end(p) PROVE VT!Next
  <2> DEFINE g == results[p][1]
  <2>1. results[p] # << >> /\ UNCHANGED <<low, net>>
    BY <1>3 DEF gvt_end
  <2>2. Len(results[p]) = 1 /\ g >= sched[p].g_last_gvt /\ IsFloor(g, low, net)
    BY <2>1 DEF IInv, Announced
  <2>3. results[p] \in Seq(Time) /\ g \in Time /\ Head(results[p]) = g
    BY <1>0, <2>1, <2>2 DEF TypeOK
  <2>4. sched' = [sched EXCEPT ![p] = gvt_done(sched[p], g, lb_ready(p))]
    BY <1>3, <2>3 DEF gvt_end
  <2>5. lb_ready(p) \in BOOLEAN
    BY DEF lb_ready, lb_trigger_ready
  <2>6. sched[p] \in Scheduler /\ sched[p].execs = (IF sched[p].running THEN 1 ELSE 0)
    BY <1>0 DEF IInv, TypeOK, OneExecuteInFlight
  <2> HIDE DEF g
  <2>7. gvt_done(sched[p], g, lb_ready(p)).g_last_gvt = g
    BY <2>3, <2>5, <2>6, GvtDone
  <2>8. \A q \in PE : sched'[q].g_last_gvt = IF q = p THEN g ELSE sched[q].g_last_gvt
    BY <1>0, <2>4, <2>7 DEF TypeOK
  <2>9. gvt' = [gvt EXCEPT ![p] = g]
    BY <2>8 DEF gvt
  <2>10. VT!IsFloor(g, low, net)
    BY <2>2 DEF IsFloor, VT!IsFloor, EventTime, VT!EventTime
  <2>11. VT!Commit(p)
    BY <2>1, <2>2, <2>3, <2>9, <2>10 DEF VT!Commit, gvt, VT!Time, Time
  <2>12. QED
    BY <2>11 DEF VT!Next
<1>4. ASSUME NEW p \in PE, gvt_contribute(p) PROVE UNCHANGED <<low, net, gvt>>
  BY <1>4 DEF gvt_contribute, gvt
<1>5. ASSUME NEW p \in PE, resume_balanced(p) PROVE VT!Next \/ UNCHANGED <<low, net, gvt>>
  <2>1. /\ works(p) \/ UNCHANGED <<low, net>>
        /\ sched' = [sched EXCEPT ![p] = balancing_complete(sched[p])]
    BY <1>5 DEF resume_balanced
  <2>2. balancing_complete(sched[p]).g_last_gvt = sched[p].g_last_gvt
    BY <1>0, BalancingComplete DEF IInv, TypeOK, OneExecuteInFlight
  <2>3. \A q \in PE : sched'[q].g_last_gvt = sched[q].g_last_gvt
    BY <1>0, <2>1, <2>2 DEF TypeOK
  <2>4. CASE works(p)
    <3>1. WorkFrom(p, low[p], net) /\ low[p] \in Time /\ net \in Flights /\ low \in [PE -> Time]
      BY <1>0, <2>4, WorksIsWork DEF TypeOK
    <3>2. VT!MinimumFrom(p, low[p]) /\ VT!SendsFrom(low[p], net)
      BY <3>1, WorkSends
    <3>3. VT!Work(p)
      BY <1>0, <2>3, <3>2, GvtStays DEF VT!Work, gvt
    <3>4. QED
      BY <3>3 DEF VT!Next
  <2>5. QED
    BY <1>0, <2>1, <2>3, <2>4, GvtStays
<1>6. CASE quiescence \/ reduce \/ over \/ UNCHANGED vars
  BY <1>6 DEF quiescence, reduce, over, vars, work, gvt
<1>7. CASE balance
  <2>1. /\ low' \in [PE -> Time] /\ Redistributed(low, low') /\ UNCHANGED net
        /\ sched' = [p \in PE |-> [sched[p] EXCEPT !.mode = "lbdone"]]
    BY <1>7 DEF balance
  <2>2. \A q \in PE : sched'[q].g_last_gvt = sched[q].g_last_gvt
    BY <1>0, <2>1 DEF TypeOK, Scheduler
  <2>3. \A p \in PE : \E q \in PE : low[q] <= low'[p]
    BY <1>0, <2>1, RedistributedFloors DEF TypeOK
  <2>4. net' \in Flights /\ gvt' = gvt
    BY <1>0, <2>2, GvtStays DEF TypeOK
  <2>5. VT!Migrate
    BY <2>1, <2>3, <2>4 DEF VT!Migrate, VT!Time, VT!Flights, VT!EventTime, Time, Flights, EventTime, gvt
  <2>6. QED
    BY <2>5 DEF VT!Next
<1>8. QED
  BY <1>1, <1>2, <1>3, <1>4, <1>5, <1>6, <1>7 DEF Next

\* SyncGVT implements VirtualTime (without g_tw_async_reduction).
THEOREM Refinement ==
  ASSUME ~AsyncReduction
  PROVE  Spec => ImplementsVirtualTime
<1>1. Init => VT!Init
  <2> SUFFICES ASSUME Init PROVE VT!Init
    OBVIOUS
  <2>1. low \in [PE -> Time] /\ net \in Flights
    BY DEF Init, Flights
  <2>2. gvt = [p \in PE |-> 0]
    BY DEF Init, start_simulation, gvt
  <2>3. QED
    BY <2>1, <2>2 DEF VT!Init, VT!Time, VT!Flights, VT!EventTime, Time, Flights, EventTime, gvt
<1>2. IInv /\ IInv' /\ [Next]_vars => [VT!Next]_(VT!vars)
  BY StepRefines DEF VT!vars, gvt
<1>3. QED
  BY Inductive, <1>1, <1>2, PTL DEF Spec, ImplementsVirtualTime, VT!Spec

-----------------------------------------------------------------------------
(***************************************************************************)
(* Load balancing happens on all PEs or on none, with nothing in flight.   *)
(* The PEs count rounds each on its own (lb_trigger), so what has to be    *)
(* shown is that their counters agree (Counted): then the PEs that a       *)
(* result is on its way to are all about to do the same with it (Verdict). *)
(***************************************************************************)
ToBalance(p) == results[p] # << >> /\ results[p][1] < EndTime /\ lb_ready(p)
Balancing(p) == sched[p].mode = "lb" \/ ToBalance(p)

ToEnd(p) == results[p] # << >> /\ results[p][1] >= EndTime
Ended(p) == sched[p].mode = "over" \/ ToEnd(p)

Verdict ==
  /\ \A p \in PE : /\ results[p] # << >> => sched[p].mode = "sim"
                   /\ results[p] # << >> \/ sched[p].mode # "sim" => ~sched[p].running
  /\ \A p, q \in PE : Ended(p) => Ended(q)
  /\ \A p, q \in PE : Balancing(p) => NothingInFlight(net) /\ Balancing(q)

\* p's counter shows the k rounds that have ended, and the one p is in.
CountedTo(p, k) ==
  IF results[p] # << >> THEN lb_trigger_reset(lb_cnt[p]) = k
  ELSE lb_cnt[p] = IF sched[p].mode = "sim" /\ ~sched[p].running
                   THEN lb_trigger_counted(k) ELSE k

Counted == \E k \in 0..LBInterval : \A p \in PE : CountedTo(p, k)

LBInv == Verdict /\ Counted

\* At the start all PEs run and have counted nothing.
LEMMA InitLBInv == Init => LBInv
<1> SUFFICES ASSUME Init PROVE LBInv
  OBVIOUS
<1>1. \A p \in PE : /\ sched[p].mode = "sim" /\ sched[p].running
                    /\ results[p] = << >> /\ lb_cnt[p] = 0
  BY DEF Init, start_simulation
<1>2. Verdict
  BY <1>1 DEF Verdict, Ended, ToEnd, Balancing, ToBalance
<1>3. \A p \in PE : CountedTo(p, 0)
  BY <1>1 DEF CountedTo
<1>4. 0 \in 0..LBInterval
  BY LBAssumption
<1>5. QED
  BY <1>2, <1>3, <1>4 DEF LBInv, Counted

\* A PE that executes is not balancing, so no PE is; if it begins a round, it
\* counts it.
LEMMA ExecuteLBInv ==
  ASSUME IInv, LBInv, NEW p \in PE, execute(p)
  PROVE  LBInv'
<1>1. /\ sched[p].running
      /\ sched' = [sched EXCEPT ![p] = sched'[p]]
      /\ sched'[p].mode = sched[p].mode
      /\ \/ sched'[p].running /\ lb_cnt' = lb_cnt
         \/ ~sched'[p].running /\ lb_cnt' = [lb_cnt EXCEPT ![p] = lb_counted(p)]
      /\ results' = results
  BY ExecuteSched
<1>2. /\ sched \in [PE -> Scheduler] /\ lb_cnt \in [PE -> 0..LBInterval]
      /\ \A q \in PE : q # p => sched'[q] = sched[q] /\ lb_cnt'[q] = lb_cnt[q]
  BY <1>1 DEF IInv, TypeOK
<1>3. results[p] = << >> /\ sched[p].mode = "sim"
  BY <1>1 DEF LBInv, Verdict
<1>4. \A q \in PE : ~Ended(q) /\ ~Balancing(q)
  BY <1>3 DEF LBInv, Verdict, Ended, ToEnd, Balancing, ToBalance
<1>5. \A q \in PE : ~Ended(q)' /\ ~Balancing(q)'
  BY <1>1, <1>2, <1>3, <1>4 DEF Ended, ToEnd, Balancing, ToBalance, lb_ready
<1>6. Verdict'
  BY <1>1, <1>2, <1>3, <1>5 DEF LBInv, Verdict
<1>7. PICK k \in 0..LBInterval : \A q \in PE : CountedTo(q, k)
  BY DEF LBInv, Counted
<1>8. CountedTo(p, k)'
  <2>1. lb_cnt[p] = k
    BY <1>1, <1>3, <1>7 DEF CountedTo
  <2>2. lb_cnt'[p] = IF sched'[p].running THEN k ELSE lb_trigger_counted(k)
    BY <1>1, <1>2, <2>1 DEF lb_counted
  <2>3. QED
    BY <1>1, <1>3, <2>2 DEF CountedTo
<1>9. \A q \in PE : CountedTo(q, k)'
  BY <1>1, <1>2, <1>7, <1>8 DEF CountedTo
<1>10. QED
  BY <1>6, <1>9 DEF LBInv, Counted

\* Before a message arrives one is in flight, so no PE is balancing.
LEMMA ReceiveLBInv ==
  ASSUME LBInv, NEW p \in PE, NEW t \in EventTime, receive(p, t)
  PROVE  LBInv'
<1>1. UNCHANGED <<sched, results, lb_cnt>> /\ ~NothingInFlight(net)
  BY DEF receive, gvts, NothingInFlight
<1>2. \A q \in PE : ~Balancing(q)
  BY <1>1 DEF LBInv, Verdict
<1>3. Verdict'
  BY <1>1, <1>2 DEF LBInv, Verdict, Ended, ToEnd, Balancing, ToBalance, lb_ready
<1>4. Counted'
  BY <1>1 DEF LBInv, Counted, CountedTo
<1>5. QED
  BY <1>3, <1>4 DEF LBInv

\* Until the reduction ends, nothing of this changes.
LEMMA SameLBInv ==
  ASSUME LBInv, UNCHANGED <<sched, net, results, lb_cnt>>
  PROVE  LBInv'
<1>1. Verdict'
  BY DEF LBInv, Verdict, Ended, ToEnd, Balancing, ToBalance, lb_ready
<1>2. Counted'
  BY DEF LBInv, Counted, CountedTo
<1>3. QED
  BY <1>1, <1>2 DEF LBInv

\* The result is the same everywhere, and so are the counters: all PEs are to
\* end, all are to balance, or all are to go on.
LEMMA ReduceLBInv ==
  ASSUME IInv, LBInv, reduce
  PROVE  LBInv'
<1> DEFINE g == MinOver([p \in PE |-> Head(reduction[p])])
<1>1. /\ UNCHANGED <<sched, net, lb_cnt>>
      /\ \A p \in PE : reduction[p] # << >> /\ results'[p] = Append(results[p], g)
      /\ sched \in [PE -> Scheduler]
  BY DEF reduce, work, IInv, TypeOK
<1> HIDE DEF g
<1>2. /\ NothingInFlight(net) /\ sched[Root].mode = "sim"
      /\ \A p \in PE : /\ ~sched[p].running /\ results[p] = << >>
                       /\ sched[p].mode # "lbdone"
  BY <1>1, RootAssumption DEF IInv, Collecting, InRound, Idle
<1>3. ~Ended(Root) /\ ~Balancing(Root)
  BY <1>2, RootAssumption DEF Ended, ToEnd, Balancing, ToBalance
<1>4. \A p \in PE : sched[p].mode = "sim"
  <2>1. \A p \in PE : sched[p].mode \in Mode
    BY <1>1 DEF Scheduler
  <2>2. \A p \in PE : ~Ended(p) /\ ~Balancing(p)
    BY <1>3, RootAssumption DEF LBInv, Verdict
  <2>3. QED
    BY <1>2, <2>1, <2>2 DEF Ended, Balancing, Mode
<1>5. PICK k \in 0..LBInterval : \A p \in PE : CountedTo(p, k)
  BY DEF LBInv, Counted
<1>6. \A p \in PE : lb_cnt[p] = lb_trigger_counted(k)
  BY <1>2, <1>4, <1>5 DEF CountedTo
<1>7. \A p \in PE : results'[p] # << >> /\ results'[p][1] = g
  <2> SUFFICES ASSUME NEW p \in PE PROVE results'[p] # << >> /\ results'[p][1] = g
    OBVIOUS
  <2>1. results'[p] = Append(<< >>, g)
    BY <1>1, <1>2
  <2>2. QED
    BY <2>1
<1>8. /\ \A p \in PE : Ended(p)' <=> g >= EndTime
      /\ \A p \in PE : Balancing(p)' <=> g < EndTime /\ lb_trigger_ready(lb_trigger_counted(k))
  BY <1>1, <1>4, <1>6, <1>7 DEF Ended, ToEnd, Balancing, ToBalance, lb_ready
<1>9. Verdict'
  BY <1>1, <1>2, <1>4, <1>8 DEF Verdict
<1> DEFINE r == lb_trigger_reset(lb_trigger_counted(k))
<1>10. r \in 0..LBInterval
  BY LBAssumption DEF lb_trigger_reset, lb_trigger_counted
<1>11. \A p \in PE : CountedTo(p, r)'
  BY <1>1, <1>6, <1>7 DEF CountedTo
<1> HIDE DEF r
<1>12. QED
  BY <1>9, <1>10, <1>11 DEF LBInv, Counted

\* What gvt_done() makes of a scheduler that has stopped.
LEMMA StoppedIsDone ==
  ASSUME NEW s \in Scheduler, s.mode = "sim", ~s.running, NEW g \in Time, NEW lb
  PROVE  LET d == gvt_done(s, g, lb) IN
         /\ g >= EndTime => d.mode = "over" /\ ~d.running
         /\ g < EndTime /\ lb => d.mode = "lb" /\ ~d.running
         /\ g < EndTime /\ ~lb => d.mode = "sim" /\ d.running
<1> DEFINE t == [s EXCEPT !.g_last_gvt = g]
<1>1. t \in Scheduler /\ t.mode = "sim" /\ ~t.running
  BY DEF Scheduler
<1> HIDE DEF t
<1>2. \A m \in Mode : /\ ~[t EXCEPT !.mode = m].running
                      /\ [t EXCEPT !.mode = m].mode = m
  BY <1>1 DEF Scheduler
<1>3. next_iteration(t).mode = "sim" /\ next_iteration(t).running
  BY <1>1 DEF Scheduler, next_iteration
<1>4. gvt_done(s, g, lb) = IF g >= EndTime THEN [t EXCEPT !.mode = "over"]
                           ELSE IF lb THEN [t EXCEPT !.mode = "lb"] ELSE next_iteration(t)
  BY DEF gvt_done, t
<1>5. g < EndTime => ~(g >= EndTime)
  BY EndTimeAssumption DEF Time
<1>6. QED
  BY <1>2, <1>3, <1>4, <1>5 DEF Mode

\* A PE does with the result what all do with it.
LEMMA EndLBInv ==
  ASSUME IInv, LBInv, NEW p \in PE, gvt_end(p)
  PROVE  LBInv'
<1> DEFINE g == results[p][1]
           lb == lb_ready(p)
<1>1. /\ UNCHANGED net /\ results[p] # << >>
      /\ Len(results[p]) = 1 /\ results[p] \in Seq(Time) /\ g \in Time
      /\ sched \in [PE -> Scheduler] /\ lb_cnt \in [PE -> 0..LBInterval]
      /\ results \in [PE -> Seq(Time)]
  BY DEF IInv, TypeOK, Announced, gvt_end
<1>2. Head(results[p]) = g /\ Tail(results[p]) = << >>
  <2>1. Tail(results[p]) \in Seq(Time) /\ Len(Tail(results[p])) = 0
    BY <1>1
  <2>2. \A u \in Seq(Time) : Len(u) = 0 => u = << >>
    BY EmptySeq
  <2>3. Tail(results[p]) = << >>
    BY <2>1, <2>2
  <2>4. Head(results[p]) = g
    BY <1>1
  <2>5. QED
    BY <2>3, <2>4
<1>3. /\ sched'[p] = gvt_done(sched[p], g, lb) /\ results'[p] = << >>
      /\ lb_cnt'[p] = lb_trigger_reset(lb_cnt[p])
      /\ \A q \in PE : q # p => /\ sched'[q] = sched[q] /\ results'[q] = results[q]
                                /\ lb_cnt'[q] = lb_cnt[q]
  BY <1>1, <1>2 DEF gvt_end
<1>4. sched[p].mode = "sim" /\ ~sched[p].running
  BY <1>1 DEF LBInv, Verdict
<1> HIDE DEF g, lb
<1>5. /\ g >= EndTime => sched'[p].mode = "over" /\ ~sched'[p].running
      /\ g < EndTime /\ lb => sched'[p].mode = "lb" /\ ~sched'[p].running
      /\ g < EndTime /\ ~lb => sched'[p].mode = "sim" /\ sched'[p].running
  BY <1>1, <1>3, <1>4, StoppedIsDone
<1>6. ~(g >= EndTime) <=> g < EndTime
  BY <1>1, EndTimeAssumption DEF Time
<1>7. \A q \in PE : (Ended(q)' <=> Ended(q)) /\ (Balancing(q)' <=> Balancing(q))
  <2>1. (Ended(p)' <=> Ended(p)) /\ (Balancing(p)' <=> Balancing(p))
    BY <1>1, <1>3, <1>4, <1>5, <1>6 DEF Ended, ToEnd, Balancing, ToBalance, g, lb
  <2>2. QED
    BY <1>3, <2>1 DEF Ended, ToEnd, Balancing, ToBalance, lb_ready
<1>8. Verdict'
  <2>1. sched'[p].mode # "sim" => ~sched'[p].running
    BY <1>5, <1>6
  <2>2. \A q \in PE : /\ results'[q] # << >> => sched'[q].mode = "sim"
                      /\ results'[q] # << >> \/ sched'[q].mode # "sim" => ~sched'[q].running
    BY <1>3, <2>1 DEF LBInv, Verdict
  <2>3. QED
    BY <1>1, <1>7, <2>2 DEF LBInv, Verdict
<1>9. PICK k \in 0..LBInterval : \A q \in PE : CountedTo(q, k)
  BY DEF LBInv, Counted
<1>10. CountedTo(p, k)'
  <2>1. lb_cnt'[p] = k
    BY <1>1, <1>3, <1>9 DEF CountedTo
  <2>2. ~(sched'[p].mode = "sim" /\ ~sched'[p].running)
    BY <1>5, <1>6
  <2>3. QED
    BY <1>3, <2>1, <2>2 DEF CountedTo
<1>11. \A q \in PE : CountedTo(q, k)'
  BY <1>3, <1>9, <1>10 DEF CountedTo
<1>12. QED
  BY <1>8, <1>11 DEF LBInv, Counted

\* Load balancing begins everywhere at once, and nobody runs before it is over.
LEMMA BalanceLBInv ==
  ASSUME IInv, LBInv, balance
  PROVE  LBInv'
<1>1. /\ UNCHANGED <<net, results, lb_cnt>>
      /\ \A p \in PE : sched[p].mode = "lb"
      /\ \A p \in PE : sched'[p] = [sched[p] EXCEPT !.mode = "lbdone"]
      /\ sched \in [PE -> Scheduler]
  BY DEF balance, gvts, IInv, TypeOK
<1>2. \A p \in PE : sched'[p].mode = "lbdone" /\ sched'[p].running = sched[p].running
  <2>1. \A s \in Scheduler : /\ [s EXCEPT !.mode = "lbdone"].mode = "lbdone"
                             /\ [s EXCEPT !.mode = "lbdone"].running = s.running
    BY DEF Scheduler
  <2>2. QED
    BY <1>1, <2>1
<1>3. \A p \in PE : results[p] = << >> /\ ~sched[p].running
  BY <1>1 DEF LBInv, Verdict
<1>4. Verdict'
  BY <1>1, <1>2, <1>3 DEF Verdict, Ended, ToEnd, Balancing, ToBalance
<1>5. Counted'
  BY <1>1, <1>2, <1>3 DEF LBInv, Counted, CountedTo
<1>6. QED
  BY <1>4, <1>5 DEF LBInv

\* A PE that resumes has balanced, and so has every other.
LEMMA ResumeLBInv ==
  ASSUME IInv, LBInv, NEW p \in PE, resume_balanced(p)
  PROVE  LBInv'
<1>1. /\ UNCHANGED <<results, lb_cnt>> /\ sched[p].mode = "lbdone"
      /\ sched' = [sched EXCEPT ![p] = balancing_complete(sched[p])]
      /\ sched \in [PE -> Scheduler]
  BY DEF resume_balanced, gvts, IInv, TypeOK
<1>2. /\ sched'[p].running /\ sched'[p].mode = "sim"
      /\ \A q \in PE : q # p => sched'[q] = sched[q]
  <2>1. sched[p].execs = IF sched[p].running THEN 1 ELSE 0
    BY DEF IInv, OneExecuteInFlight
  <2>2. sched'[p] = balancing_complete(sched[p])
    BY <1>1
  <2>3. QED
    BY <1>1, <2>1, <2>2, BalancingComplete
<1>3. results[p] = << >>
  BY <1>1 DEF LBInv, Verdict
<1>4. \A q \in PE : ~Ended(q) /\ ~Balancing(q)
  BY <1>1, <1>3 DEF LBInv, Verdict, Ended, ToEnd, Balancing, ToBalance
<1>5. \A q \in PE : ~Ended(q)' /\ ~Balancing(q)'
  BY <1>1, <1>2, <1>3, <1>4 DEF Ended, ToEnd, Balancing, ToBalance, lb_ready
<1>6. Verdict'
  BY <1>1, <1>2, <1>3, <1>5 DEF LBInv, Verdict
<1>7. Counted'
  BY <1>1, <1>2, <1>3 DEF LBInv, Counted, CountedTo
<1>8. QED
  BY <1>6, <1>7 DEF LBInv

\* Every step keeps it, given the invariant of the rounds.
LEMMA NextLBInv ==
  ASSUME IInv, LBInv, ~AsyncReduction, [Next]_vars
  PROVE  LBInv'
<1>1. ASSUME NEW p \in PE, execute(p) PROVE LBInv'
  BY <1>1, ExecuteLBInv
<1>2. ASSUME NEW p \in PE, gvt_contribute(p) PROVE LBInv'
  <2>1. UNCHANGED <<sched, net, results, lb_cnt>>
    BY <1>2 DEF gvt_contribute
  <2>2. QED
    BY <2>1, SameLBInv
<1>3. ASSUME NEW p \in PE, gvt_end(p) PROVE LBInv'
  BY <1>3, EndLBInv
<1>4. ASSUME NEW p \in PE, resume_balanced(p) PROVE LBInv'
  BY <1>4, ResumeLBInv
<1>5. ASSUME NEW p \in PE, NEW t \in EventTime, receive(p, t) PROVE LBInv'
  BY <1>5, ReceiveLBInv
<1>6. CASE quiescence \/ over \/ UNCHANGED vars
  <2>1. UNCHANGED <<sched, net, results, lb_cnt>>
    BY <1>6 DEF quiescence, over, vars, work
  <2>2. QED
    BY <2>1, SameLBInv
<1>7. CASE reduce
  BY <1>7, ReduceLBInv
<1>8. CASE balance
  BY <1>8, BalanceLBInv
<1>9. QED
  BY <1>1, <1>2, <1>3, <1>4, <1>5, <1>6, <1>7, <1>8 DEF Next

\* While any PE balances, no scheduler runs on any and nothing is in flight: no
\* chare migrates with a message addressed to it, though start_balancing()
\* asserts no more than the running flag of its own PE.
THEOREM BalancingIsQuiet ==
  ASSUME ~AsyncReduction
  PROVE  Spec => []QuietWhileBalancing
<1>1. Init => LBInv
  BY InitLBInv
<1>2. IInv /\ LBInv /\ [Next]_vars => LBInv'
  BY NextLBInv
<1>3. LBInv => QuietWhileBalancing
  <2> SUFFICES ASSUME LBInv, NEW p \in PE, sched[p].mode = "lb"
               PROVE  NothingInFlight(net) /\ \A q \in PE : ~sched[q].running
    BY DEF QuietWhileBalancing
  <2>1. NothingInFlight(net) /\ \A q \in PE : Balancing(q)
    BY DEF LBInv, Verdict, Balancing
  <2>2. QED
    BY <2>1 DEF LBInv, Verdict, Balancing, ToBalance
<1>4. QED
  BY Inductive, <1>1, <1>2, <1>3, PTL DEF Spec
=============================================================================

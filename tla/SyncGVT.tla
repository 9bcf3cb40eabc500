------------------------------ MODULE SyncGVT ------------------------------
(***************************************************************************)
(* The synchronous GVT manager (gvt/synchronous.C) on every PE, with the   *)
(* schedulers it stops and restarts.                                       *)
(*                                                                         *)
(* gvt_begin() stops a PE; PE 0 also asks Charm++ for quiescence detection *)
(* (QD).  When nothing is in flight and no PE runs, QD broadcasts          *)
(* gvt_contribute(): every PE contributes its minimum to a reduction whose *)
(* result gvt_end() delivers everywhere.  With g_tw_async_reduction a PE   *)
(* goes back to work while that reduction is still under way.              *)
(*                                                                         *)
(* What a scheduler does to events is abstract here: an execute() or a     *)
(* receive moves the PE's minimum and sends messages within the contract   *)
(* of VirtualTime, which TimeWarp shows the optimistic engine keeps.       *)
(***************************************************************************)
EXTENDS GVTManager

CONSTANTS
  AsyncReduction  \* g_tw_async_reduction

ASSUME AsyncAssumption == AsyncReduction \in BOOLEAN

VARIABLES
  sched,       \* sched[p]: p's scheduler
  low,         \* low[p]: what get_min_time() returns on p
  net,         \* events and anti-events in flight
  qd,          \* CkStartQD() callbacks waiting for quiescence
  contribute,  \* contribute[p]: gvt_contribute() messages in flight to p
  reduction,   \* reduction[p]: contributions of p no reduction has consumed yet
  results,     \* results[p]: gvt_end() messages in flight to p
  lb_cnt       \* lb_cnt[p]: the counter of lb_trigger, which saturates at LBInterval

vars == <<sched, low, net, qd, contribute, reduction, results, lb_cnt>>

work == <<sched, low, net>>
gvts == <<qd, contribute, reduction, results>>

TypeOK ==
  /\ sched \in [PE -> Scheduler]
  /\ low \in [PE -> Time]
  /\ net \in Flights
  /\ qd \in Nat
  /\ contribute \in [PE -> Nat]
  /\ reduction \in [PE -> Seq(Time)]
  /\ results \in [PE -> Seq(Time)]
  /\ lb_cnt \in [PE -> 0..LBInterval]

Init ==
  /\ sched = [p \in PE |-> start_simulation]
  /\ low \in [PE -> Time]
  /\ net = [p \in PE |-> [t \in EventTime |-> 0]]
  /\ qd = 0
  /\ contribute = [p \in PE |-> 0]
  /\ reduction = [p \in PE |-> << >>]
  /\ results = [p \in PE |-> << >>]
  /\ lb_cnt = [p \in PE |-> 0]

-----------------------------------------------------------------------------
Emissions(f) == EmissionsWithin(f, net)

lb_ready(p) == lb_trigger_ready(lb_cnt[p])

lb_countedByRoot(p) == IF p = Root THEN lb_trigger_counted(lb_cnt[p]) ELSE lb_cnt[p]

lb_counted(p) == lb_trigger_counted(lb_cnt[p])

\* SyncGVT::gvt_begin: nothing is resumed, so the PE waits.
gvt_begin(p) ==
  /\ qd' = IF p = Root THEN qd + 1 ELSE qd
  /\ lb_cnt' = [lb_cnt EXCEPT ![p] = lb_counted(p)]
  /\ UNCHANGED <<contribute, reduction, results>>

\* DistributedScheduler::iteration_done, at the end of every execute().
iteration_done(p) ==
  LET s == iteration_counted(sched[p])
  IN  \/ /\ gvt_trigger_ready(s)
         /\ gvt_begin(p)
         /\ sched' = [sched EXCEPT ![p] = gvt_trigger_reset(s)]
      \/ /\ ~gvt_trigger_ready(s)
         /\ sched' = [sched EXCEPT ![p] = next_iteration(s)]
         /\ UNCHANGED <<gvts, lb_cnt>>

\* p executes events or carries out the cancellations it owes.
works(p) ==
  /\ \E x \in low[p]..EndTime : low' = [low EXCEPT ![p] = x]
  /\ \E S \in Emissions(low[p]) : net' = Put(net, S)

\* An execute() message: a batch of events, and the end of the iteration.
execute(p) ==
  /\ sched[p].execs > 0
  /\ works(p)
  /\ iteration_done(p)

\* recv_remote_event or recv_anti_event.  An event lowers the minimum to its
\* timestamp; an anti-event may raise it by deleting what it cancels.  Events
\* of time t or later are rolled back, which sends the anti-events of later ones.
receive(p, t) ==
  /\ net[p][t] > 0
  /\ \E x \in Earlier(low[p], t)..EndTime : low' = [low EXCEPT ![p] = x]
  /\ \E S \in Emissions(t) : net' = Put(Take(net, p, t), S)
  /\ UNCHANGED <<sched, gvts, lb_cnt>>

QuiescentForgettingEvents ==
  \A p \in PE : sched[p].execs = 0 /\ contribute[p] = 0 /\ reduction[p] = << >> /\ results[p] = << >>

\* What quiescence detection waits for: no message of any kind in flight.
Quiescent ==
  /\ \A p \in PE : /\ sched[p].execs = 0
                   /\ sched[p].mode # "lbdone"
                   /\ contribute[p] = 0
                   /\ reduction[p] = << >>
                   /\ results[p] = << >>
  /\ NothingInFlight(net)

\* Charm++ calls every waiting callback: each broadcasts gvt_contribute().
quiescence ==
  /\ qd > 0
  /\ Quiescent
  /\ contribute' = [p \in PE |-> contribute[p] + qd]
  /\ qd' = 0
  /\ UNCHANGED <<work, reduction, results, lb_cnt>>

gvt_contribute(p) ==
  /\ contribute[p] > 0
  /\ contribute' = [contribute EXCEPT ![p] = contribute[p] - 1]
  /\ reduction' = [reduction EXCEPT ![p] = Append(reduction[p], low[p])]
  /\ sched' = IF AsyncReduction /\ ~lb_ready(p)
              THEN [sched EXCEPT ![p] = gvt_resume(sched[p])] ELSE sched
  /\ UNCHANGED <<low, net, qd, results, lb_cnt>>

reduceToMax ==
  /\ \A p \in PE : reduction[p] # << >>
  /\ \E q \in PE :
       /\ \A p \in PE : Head(reduction[p]) <= Head(reduction[q])
       /\ results' = [p \in PE |-> Append(results[p], Head(reduction[q]))]
  /\ reduction' = [p \in PE |-> Tail(reduction[p])]
  /\ UNCHANGED <<work, qd, contribute, lb_cnt>>

\* The min reduction completes once every PE has contributed to it.
reduce ==
  /\ \A p \in PE : reduction[p] # << >>
  /\ LET g == MinOver([p \in PE |-> Head(reduction[p])])
     IN  results' = [p \in PE |-> Append(results[p], g)]
  /\ reduction' = [p \in PE |-> Tail(reduction[p])]
  /\ UNCHANGED <<work, qd, contribute, lb_cnt>>

gvt_end(p) ==
  /\ results[p] # << >>
  /\ results' = [results EXCEPT ![p] = Tail(results[p])]
  /\ sched' = [sched EXCEPT ![p] = gvt_done(sched[p], Head(results[p]), lb_ready(p))]
  /\ lb_cnt' = [lb_cnt EXCEPT ![p] = lb_trigger_reset(lb_cnt[p])]
  /\ UNCHANGED <<low, net, qd, contribute, reduction>>

\* Every chare has called AtSync(): Charm++ migrates chares (no message has to
\* follow them, see QuietWhileBalancing) and calls ResumeFromSync(), and the
\* reduction of those calls is broadcast as balancing_complete().
balance ==
  /\ \A p \in PE : sched[p].mode = "lb"
  /\ sched' = [p \in PE |-> [sched[p] EXCEPT !.mode = "lbdone"]]
  /\ low' \in {f \in [PE -> Time] : Redistributed(low, f)}
  /\ UNCHANGED <<net, gvts, lb_cnt>>

\* balancing_complete(): the OptimisticScheduler's first processes the cancel queues.
resume_balanced(p) ==
  /\ sched[p].mode = "lbdone"
  /\ IF Optimistic THEN works(p) ELSE UNCHANGED <<low, net>>
  /\ sched' = [sched EXCEPT ![p] = balancing_complete(sched[p])]
  /\ UNCHANGED <<gvts, lb_cnt>>

\* end_simulation() has run everywhere: the program exits.
over ==
  /\ \A p \in PE : sched[p].mode = "over"
  /\ UNCHANGED vars

Next ==
  \/ \E p \in PE : \/ execute(p) \/ gvt_contribute(p) \/ gvt_end(p) \/ resume_balanced(p)
  \/ \E p \in PE, t \in EventTime : receive(p, t)
  \/ quiescence \/ reduce \/ balance \/ over

Spec == Init /\ [][Next]_vars

\* Charm++ delivers every message and completes every reduction it can.
Fairness ==
  /\ \A p \in PE : /\ WF_vars(execute(p))
                   /\ WF_vars(gvt_contribute(p))
                   /\ WF_vars(gvt_end(p))
                   /\ WF_vars(resume_balanced(p))
  /\ \A p \in PE : \A t \in EventTime : WF_vars(receive(p, t))
  /\ WF_vars(quiescence) /\ WF_vars(reduce) /\ WF_vars(balance)

FairSpec == Spec /\ Fairness
-----------------------------------------------------------------------------
(***************************************************************************)
(* Properties.                                                             *)
(***************************************************************************)

VT == INSTANCE VirtualTime WITH gvt <- [p \in PE |-> sched[p].g_last_gvt]

\* No PE holds a GVT later than an event still to be executed or cancelled on
\* any PE or in any message: what gvt_done() hands to fossil collection is
\* safe (synchronous.C gvt_end, optimistic.C collect_fossils).
GVTIsFloor == VT!GVTIsFloor

\* The manager and the scheduler together keep the contract of VirtualTime:
\* each step is a piece of work, a delivery or a sound, growing GVT.
ImplementsVirtualTime == VT!Spec

\* CkAssert(min_time >= curr_gvt) of gvt_contribute(): no contribution lies
\* below the GVT its PE already holds.
ContributionNotBelowGVT ==
  \A p \in PE : \A i \in DOMAIN reduction[p] : reduction[p][i] >= sched[p].g_last_gvt

\* "No more than one execute() message is ever in flight" (scheduler.h), and
\* running says whether there is one, though gvt_resume(), gvt_done() and
\* balancing_complete() can each start an iteration.
OneExecuteInFlight ==
  \A p \in PE : sched[p].execs = IF sched[p].running THEN 1 ELSE 0

\* While any PE is balancing no scheduler runs and no event is in flight, so
\* chares migrate with nothing addressed to them (start_balancing asserts no
\* more than its own PE's running flag).
QuietWhileBalancing ==
  (\E p \in PE : sched[p].mode = "lb")
    => NothingInFlight(net) /\ \A p \in PE : ~sched[p].running

\* A stopped PE is never forgotten: it runs again or the simulation is over.
EveryPEResumes ==
  \A p \in PE : ~sched[p].running ~> sched[p].running \/ sched[p].mode = "over"
=============================================================================

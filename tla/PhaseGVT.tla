------------------------------ MODULE PhaseGVT ------------------------------
(***************************************************************************)
(* The multi-phase GVT manager (gvt/phased.C) on every PE, with schedulers *)
(* that go on executing while a GVT is computed.                           *)
(*                                                                         *)
(* Every message carries the phase its sender is in.  gvt_begin() moves a  *)
(* PE to the other phase and contributes how many messages of the phase it *)
(* leaves it has sent and received; when the sums agree, that phase has    *)
(* been delivered and each PE contributes the earlier of its minimum and   *)
(* of what it has sent since its gvt_begin(); otherwise the counts are     *)
(* reduced again.  The two phases are used in turn.                        *)
(*                                                                         *)
(* What a scheduler does to events is abstract, as in SyncGVT.             *)
(***************************************************************************)
EXTENDS GVTManager, FiniteSetsExt

CONSTANTS
  LBContinuous,  \* g_tw_ldb_continuous
  MaxCount       \* bound: messages a PE has sent in a phase

ASSUME LBContinuousAssumption == LBContinuous \in BOOLEAN
ASSUME CountBound == MaxCount \in Nat

Phase == 0..1   \* max_phase is 2: any other value aborts
NoPhase == -1

VARIABLES
  sched,         \* sched[p]: p's scheduler
  manager,       \* manager[p]: p's PhaseGVT, a record
  low,           \* low[p]: what get_min_time() returns on p
  net,           \* net[h]: the events and anti-events of phase h in flight
  contributions, \* contributions[p]: what p has contributed to reductions not complete yet
  results        \* results[p]: results of reductions on their way to p

vars == <<sched, manager, low, net, contributions, results>>

Manager ==
  [active : BOOLEAN, producing_phase : Phase, active_phase : Phase \union {NoPhase},
   min_sent : Time, sent : [Phase -> Nat], received : [Phase -> Nat], lb_cnt : 0..LBInterval]

\* A reduction is of counts or of minima; its target is check_counts or gvt_end.
Counts(s, r) == [of |-> "counts", s |-> s, r |-> r]
Minimum(t) == [of |-> "min", t |-> t]
Reduced == [of : {"counts"}, s : Nat, r : Nat] \union [of : {"min"}, t : Time]

TypeOK ==
  /\ sched \in [PE -> Scheduler]
  /\ manager \in [PE -> Manager]
  /\ low \in [PE -> Time]
  /\ net \in [Phase -> Flights]
  /\ contributions \in [PE -> Seq(Reduced)]
  /\ results \in [PE -> Seq(Reduced)]

NoFlights == [p \in PE |-> [t \in EventTime |-> 0]]

Init ==
  /\ sched = [p \in PE |-> start_simulation]
  /\ manager = [p \in PE |->
       [active |-> FALSE, producing_phase |-> 0, active_phase |-> NoPhase, min_sent |-> EndTime,
        sent |-> [h \in Phase |-> 0], received |-> [h \in Phase |-> 0], lb_cnt |-> 0]]
  /\ low \in [PE -> Time]
  /\ net = [h \in Phase |-> NoFlights]
  /\ contributions = [p \in PE |-> << >>]
  /\ results = [p \in PE |-> << >>]

-----------------------------------------------------------------------------
Emissions(m, f) ==
  {S \in EmissionsWithin(f, net[m.producing_phase]) :
     m.sent[m.producing_phase] + Cardinality(S) <= MaxCount}

produceUnrecorded(m, S) ==
  [m EXCEPT !.sent[m.producing_phase] = m.sent[m.producing_phase] + Cardinality(S)]

\* produce(), for each message of S.
produce(m, S) ==
  [m EXCEPT !.min_sent = Min({m.min_sent} \union {s[2] : s \in S}),
            !.sent[m.producing_phase] = m.sent[m.producing_phase] + Cardinality(S)]

consumeInOwnPhase(m, h) ==
  [m EXCEPT !.received[m.producing_phase] = m.received[m.producing_phase] + 1]

consume(m, h) == [m EXCEPT !.received[h] = m.received[h] + 1]

NextPhaseUnwrapped(h) == h + 1

NextPhase(h) == (h + 1) % 2

enter_round(m) ==
  [m EXCEPT !.active = TRUE,
            !.min_sent = EndTime,
            !.active_phase = m.producing_phase,
            !.producing_phase = NextPhase(m.producing_phase),
            !.lb_cnt = lb_trigger_counted(m.lb_cnt)]

\* A PE in a round ignores another gvt_begin() but for going on.
gvt_begin(m) == IF m.active THEN m ELSE enter_round(m)

ActiveCounts(m) == Counts(m.sent[m.active_phase], m.received[m.active_phase])

contribute(p, c) == contributions' = [contributions EXCEPT ![p] = Append(contributions[p], c)]

ResumesAlways(m) == TRUE

\* gvt_begin() calls gvt_resume() unless the PE is to stop for load balancing.
Resumes(m) == ~lb_trigger_ready(m.lb_cnt) \/ LBContinuous

\* iteration_done() on p, whose manager is m after the events executed.
iteration_done(p, m) ==
  LET s == iteration_counted(sched[p])
      b == gvt_begin(m)
      r == gvt_trigger_reset(s)
  IN  \/ /\ gvt_trigger_ready(s)
         /\ manager' = [manager EXCEPT ![p] = b]
         /\ IF m.active THEN UNCHANGED contributions ELSE contribute(p, ActiveCounts(b))
         /\ sched' = [sched EXCEPT ![p] = IF Resumes(b) THEN gvt_resume(r) ELSE r]
      \/ /\ ~gvt_trigger_ready(s)
         /\ manager' = [manager EXCEPT ![p] = m]
         /\ sched' = [sched EXCEPT ![p] = next_iteration(s)]
         /\ UNCHANGED contributions

\* p executes events or carries out the cancellations it owes, and sends S.
works(p, S) ==
  /\ \E x \in low[p]..EndTime : low' = [low EXCEPT ![p] = x]
  /\ net' = [net EXCEPT ![manager[p].producing_phase] = Put(net[manager[p].producing_phase], S)]

\* An execute() message: a batch of events, and the end of the iteration.
execute(p) ==
  /\ sched[p].execs > 0
  /\ \E S \in Emissions(manager[p], low[p]) :
       works(p, S) /\ iteration_done(p, produce(manager[p], S))
  /\ UNCHANGED results

\* recv_remote_event or recv_anti_event of a message of phase h: it is consumed
\* before a rollback sends any anti-events.
receive(p, h, t) ==
  LET n == [net EXCEPT ![h] = Take(net[h], p, t)]
      m == consume(manager[p], h)
  IN  /\ net[h][p][t] > 0
      /\ \E x \in Earlier(low[p], t)..EndTime : low' = [low EXCEPT ![p] = x]
      /\ \E S \in Emissions(m, t) :
           /\ net' = [n EXCEPT ![m.producing_phase] = Put(n[m.producing_phase], S)]
           /\ manager' = [manager EXCEPT ![p] = produce(m, S)]
      /\ UNCHANGED <<sched, contributions, results>>

\* A reduction completes once every PE has contributed to it.
reduce ==
  /\ \A p \in PE : contributions[p] # << >>
  /\ LET heads == {Head(contributions[p]) : p \in PE}
         result == IF \A c \in heads : c.of = "counts"
                   THEN Counts(Total([p \in PE |-> Head(contributions[p]).s]),
                               Total([p \in PE |-> Head(contributions[p]).r]))
                   ELSE Minimum(Min({c.t : c \in heads}))
     IN  results' = [p \in PE |-> Append(results[p], result)]
  /\ contributions' = [p \in PE |-> Tail(contributions[p])]
  /\ UNCHANGED <<sched, manager, low, net>>

Arrives(p, kind) == results[p] # << >> /\ Head(results[p]).of = kind

MinimumHeld(p) == low[p]

\* What p contributes: the earlier of its minimum and of what it has sent.
MinimumKnown(p) == Earlier(low[p], manager[p].min_sent)

check_counts(p) ==
  /\ Arrives(p, "counts")
  /\ results' = [results EXCEPT ![p] = Tail(results[p])]
  /\ contribute(p, IF Head(results[p]).s = Head(results[p]).r
                   THEN Minimum(MinimumKnown(p))
                   ELSE ActiveCounts(manager[p]))
  /\ UNCHANGED <<sched, manager, low, net>>

gvt_end(p) ==
  LET m == manager[p]
      lb == lb_trigger_ready(m.lb_cnt)
  IN  /\ Arrives(p, "min")
      /\ results' = [results EXCEPT ![p] = Tail(results[p])]
      /\ manager' = [manager EXCEPT ![p] =
           [m EXCEPT !.active = FALSE,
                     !.sent[m.active_phase] = 0,
                     !.received[m.active_phase] = 0,
                     !.lb_cnt = lb_trigger_reset(m.lb_cnt)]]
      /\ sched' = [sched EXCEPT ![p] = gvt_done(sched[p], Head(results[p]).t, lb)]
      /\ UNCHANGED <<low, net, contributions>>

\* Load balancing, as in SyncGVT; but messages may be in flight here.
balance ==
  /\ \A p \in PE : sched[p].mode = "lb"
  /\ sched' = [p \in PE |-> [sched[p] EXCEPT !.mode = "lbdone"]]
  /\ low' \in {f \in [PE -> Time] : Redistributed(low, f)}
  /\ \E f \in Forwarded(net[0]), g \in Forwarded(net[1]) : net' = [h \in Phase |-> IF h = 0 THEN f ELSE g]
  /\ UNCHANGED <<manager, contributions, results>>

resume_balanced(p) ==
  /\ sched[p].mode = "lbdone"
  /\ IF Optimistic
     THEN \E S \in Emissions(manager[p], low[p]) :
            works(p, S) /\ manager' = [manager EXCEPT ![p] = produce(manager[p], S)]
     ELSE UNCHANGED <<manager, low, net>>
  /\ sched' = [sched EXCEPT ![p] = balancing_complete(sched[p])]
  /\ UNCHANGED <<contributions, results>>

\* end_simulation() has run everywhere: the program exits.
over ==
  /\ \A p \in PE : sched[p].mode = "over"
  /\ UNCHANGED vars

Next ==
  \/ \E p \in PE : execute(p) \/ check_counts(p) \/ gvt_end(p) \/ resume_balanced(p)
  \/ \E p \in PE, h \in Phase, t \in EventTime : receive(p, h, t)
  \/ reduce \/ balance \/ over

Spec == Init /\ [][Next]_vars

\* Charm++ delivers every message and completes every reduction it can.
Fairness ==
  /\ \A p \in PE : /\ WF_vars(execute(p))
                   /\ WF_vars(check_counts(p))
                   /\ WF_vars(gvt_end(p))
                   /\ WF_vars(resume_balanced(p))
  /\ \A p \in PE, h \in Phase, t \in EventTime : WF_vars(receive(p, h, t))
  /\ WF_vars(reduce) /\ WF_vars(balance)

FairSpec == Spec /\ Fairness
-----------------------------------------------------------------------------
(***************************************************************************)
(* Properties.                                                             *)
(***************************************************************************)

VT == INSTANCE VirtualTime WITH
        gvt <- [p \in PE |-> sched[p].g_last_gvt],
        net <- [p \in PE |-> [t \in EventTime |-> net[0][p][t] + net[1][p][t]]]

\* Though every PE contributes its minimum at a moment of its own, while events
\* move, each GVT is a floor of all that is unprocessed and never goes back.
ImplementsVirtualTime == VT!Spec

\* When the sums agree, every message of the phase has been received, also when
\* PEs have moved on and send in the phase that follows (check_counts).
EqualCountsMeanDelivered ==
  \A p \in PE : Arrives(p, "counts") /\ Head(results[p]).s = Head(results[p]).r
                  => NothingInFlight(net[manager[p].active_phase])

\* CkAssert(min_time >= curr_gvt) of check_counts().
ContributionNotBelowGVT ==
  \A p \in PE : \A i \in DOMAIN contributions[p] :
    contributions[p][i].of = "min" => contributions[p][i].t >= sched[p].g_last_gvt

\* The PEs of a round agree on its phase, and what is reduced together is of
\* one kind: no PE is ever more than one reduction ahead.
RoundsAligned ==
  \A p, q \in PE :
    /\ Len(contributions[p]) + Len(results[p]) <= 1
    /\ contributions[p] # << >> /\ contributions[q] # << >>
         => /\ contributions[p][1].of = contributions[q][1].of
            /\ manager[p].active_phase = manager[q].active_phase

\* "No more than one execute() message is ever in flight" (scheduler.h), though
\* gvt_resume() in gvt_begin(), gvt_done() and balancing_complete() all start
\* an iteration in one round.
OneExecuteInFlight ==
  \A p \in PE : sched[p].execs = IF sched[p].running THEN 1 ELSE 0

\* TW_ASSERT(!running, "Can't balance while scheduler is running").
NotRunningWhenBalancing == \A p \in PE : sched[p].mode = "lb" => ~sched[p].running

\* Every round of the GVT comes to its end.
EveryRoundEnds == \A p \in PE : manager[p].active ~> ~manager[p].active
=============================================================================

------------------------------- MODULE CdGVT -------------------------------
(***************************************************************************)
(* The GVT manager that uses completion detectors (gvt/cd.C) on every PE,  *)
(* with schedulers that go on executing while a GVT is computed.           *)
(*                                                                         *)
(* Every message is counted by the detector of the phase its sender is in. *)
(* gvt_begin() declares the PE done with its phase and moves it to the     *)
(* next one, if the detector of that one is free.  Once every PE is done   *)
(* with a phase and its messages have all been received, each PE           *)
(* contributes the earlier of its minimum and of what it has sent since    *)
(* its gvt_begin().                                                        *)
(*                                                                         *)
(* The CompletionDetector is a library of Charm++: here it does exactly    *)
(* what it promises.  What a scheduler does to events is as in SyncGVT.    *)
(***************************************************************************)
EXTENDS GVTManager, FiniteSetsExt

CONSTANTS
  Phases,       \* g_tw_gvt_phases
  LBContinuous  \* g_tw_ldb_continuous

Phase == 0..Phases - 1

VARIABLES
  sched,          \* sched[p]: p's scheduler
  manager,        \* manager[p]: p's CdGVT, a record
  low,            \* low[p]: what get_min_time() returns on p
  net,            \* net[h]: the events and anti-events of phase h in flight
  detectors,      \* detectors[h]: whether it is detecting, and the PEs that are done
  completions,    \* completions[p]: calls of gvt_contribute() on their way to p
  contributions,  \* contributions[p]: what p has contributed to reductions not complete yet
  results         \* results[p]: results of reductions on their way to p

vars == <<sched, manager, low, net, detectors, completions, contributions, results>>

Manager ==
  [current_phase : Phase, next_phase : Phase, detector_ready : [Phase -> BOOLEAN],
   min_sent : Time, lb_cnt : 0..LBInterval]

Detector == [detecting : BOOLEAN, done : SUBSET PE]

TypeOK ==
  /\ sched \in [PE -> Scheduler]
  /\ manager \in [PE -> Manager]
  /\ low \in [PE -> Time]
  /\ net \in [Phase -> Flights]
  /\ detectors \in [Phase -> Detector]
  /\ completions \in [PE -> Nat]
  /\ contributions \in [PE -> Seq(Time)]
  /\ results \in [PE -> Seq(Time)]

NextPhase(h) == (h + 1) % Phases

Idle == [detecting |-> FALSE, done |-> {}]

Init ==
  /\ sched = [p \in PE |-> start_simulation]
  /\ manager = [p \in PE |->
       [current_phase |-> 0, next_phase |-> NextPhase(0),
        detector_ready |-> [h \in Phase |-> TRUE], min_sent |-> EndTime, lb_cnt |-> 0]]
  /\ low \in [PE -> Time]
  /\ net = [h \in Phase |-> [p \in PE |-> [t \in EventTime |-> 0]]]
  /\ detectors = [h \in Phase |-> Idle]
  /\ completions = [p \in PE |-> 0]
  /\ contributions = [p \in PE |-> << >>]
  /\ results = [p \in PE |-> << >>]

-----------------------------------------------------------------------------
produceUnrecorded(m, S) == m

\* produce(), for each message of S; its detector counts it as one of net.
produce(m, S) == [m EXCEPT !.min_sent = Min({m.min_sent} \union {s[2] : s \in S})]

ReadyAlways(m) == TRUE

Ready(m) == m.detector_ready[m.next_phase]

\* gvt_begin(), when the next detector is ready.
enter_phase(m) ==
  [current_phase |-> m.next_phase,
   next_phase |-> NextPhase(m.next_phase),
   detector_ready |-> [m.detector_ready EXCEPT ![m.current_phase] = FALSE],
   min_sent |-> EndTime,
   lb_cnt |-> lb_trigger_counted(m.lb_cnt)]

gvt_begin(m) == IF Ready(m) THEN enter_phase(m) ELSE m

\* PE p is done with phase h; the root starts the detection.
done(p, h) ==
  detectors' = [detectors EXCEPT ![h] =
    [detecting |-> detectors[h].detecting \/ p = Root, done |-> detectors[h].done \union {p}]]

\* gvt_begin() calls gvt_resume() unless the PE is to stop for load balancing.
Resumes(m) == ~lb_trigger_ready(m.lb_cnt) \/ LBContinuous

\* iteration_done() on p, whose manager is m after the events executed.
iteration_done(p, m) ==
  LET s == iteration_counted(sched[p])
      b == gvt_begin(m)
      r == gvt_trigger_reset(s)
  IN  \/ /\ gvt_trigger_ready(s)
         /\ manager' = [manager EXCEPT ![p] = b]
         /\ IF Ready(m) THEN done(p, m.current_phase) ELSE UNCHANGED detectors
         /\ sched' = [sched EXCEPT ![p] = IF Resumes(b) THEN gvt_resume(r) ELSE r]
      \/ /\ ~gvt_trigger_ready(s)
         /\ manager' = [manager EXCEPT ![p] = m]
         /\ sched' = [sched EXCEPT ![p] = next_iteration(s)]
         /\ UNCHANGED detectors

\* p works at its minimum or later, and sends S in its current phase.
works(p, S) ==
  LET h == manager[p].current_phase
  IN  /\ \E x \in low[p]..EndTime : low' = [low EXCEPT ![p] = x]
      /\ net' = [net EXCEPT ![h] = Put(net[h], S)]

Emissions(m, n, f) == EmissionsWithin(f, n[m.current_phase])

execute(p) ==
  /\ sched[p].execs > 0
  /\ \E S \in Emissions(manager[p], net, low[p]) :
       works(p, S) /\ iteration_done(p, produce(manager[p], S))
  /\ UNCHANGED <<completions, contributions, results>>

\* A message of phase h is consumed, and a rollback may send anti-events.
receive(p, h, t) ==
  LET n == [net EXCEPT ![h] = Take(net[h], p, t)]
      own == manager[p].current_phase
  IN  /\ net[h][p][t] > 0
      /\ \E x \in Earlier(low[p], t)..EndTime : low' = [low EXCEPT ![p] = x]
      /\ \E S \in Emissions(manager[p], n, t) :
           /\ net' = [n EXCEPT ![own] = Put(n[own], S)]
           /\ manager' = [manager EXCEPT ![p] = produce(manager[p], S)]
      /\ UNCHANGED <<sched, detectors, completions, contributions, results>>

\* The detector of h has counted as many messages consumed as produced, and no
\* PE will produce another: it calls gvt_contribute() everywhere.
complete(h) ==
  /\ detectors[h].detecting /\ detectors[h].done = PE
  /\ NothingInFlight(net[h])
  /\ detectors' = [detectors EXCEPT ![h] = Idle]
  /\ completions' = [p \in PE |-> completions[p] + 1]
  /\ UNCHANGED <<sched, manager, low, net, contributions, results>>

MinimumHeld(p) == low[p]

MinimumKnown(p) == Earlier(low[p], manager[p].min_sent)

gvt_contribute(p) ==
  /\ completions[p] > 0
  /\ completions' = [completions EXCEPT ![p] = completions[p] - 1]
  /\ contributions' = [contributions EXCEPT ![p] = Append(contributions[p], MinimumKnown(p))]
  /\ UNCHANGED <<sched, manager, low, net, detectors, results>>

\* A reduction completes once every PE has contributed to it.
reduce ==
  /\ \A p \in PE : contributions[p] # << >>
  /\ results' = [p \in PE |-> Append(results[p], Min({Head(contributions[q]) : q \in PE}))]
  /\ contributions' = [p \in PE |-> Tail(contributions[p])]
  /\ UNCHANGED <<sched, manager, low, net, detectors, completions>>

gvt_end(p) ==
  LET m == manager[p]
      lb == lb_trigger_ready(m.lb_cnt)
  IN  /\ results[p] # << >>
      /\ results' = [results EXCEPT ![p] = Tail(results[p])]
      /\ manager' = [manager EXCEPT ![p].detector_ready[m.next_phase] = TRUE,
                                    ![p].lb_cnt = lb_trigger_reset(m.lb_cnt)]
      /\ sched' = [sched EXCEPT ![p] = gvt_done(sched[p], Head(results[p]), lb)]
      /\ UNCHANGED <<low, net, detectors, completions, contributions>>

balance ==
  /\ \A p \in PE : sched[p].mode = "lb"
  /\ sched' = [p \in PE |-> [sched[p] EXCEPT !.mode = "lbdone"]]
  /\ low' \in {f \in [PE -> Time] : Redistributed(low, f)}
  /\ net' \in {n \in [Phase -> UNION {Forwarded(net[h]) : h \in Phase}] :
                 \A h \in Phase : n[h] \in Forwarded(net[h])}
  /\ UNCHANGED <<manager, detectors, completions, contributions, results>>

resume_balanced(p) ==
  /\ sched[p].mode = "lbdone"
  /\ IF Optimistic
     THEN \E S \in Emissions(manager[p], net, low[p]) :
            works(p, S) /\ manager' = [manager EXCEPT ![p] = produce(manager[p], S)]
     ELSE UNCHANGED <<manager, low, net>>
  /\ sched' = [sched EXCEPT ![p] = balancing_complete(sched[p])]
  /\ UNCHANGED <<detectors, completions, contributions, results>>

\* end_simulation() has run everywhere: the program exits.
over ==
  /\ \A p \in PE : sched[p].mode = "over"
  /\ UNCHANGED vars

Next ==
  \/ \E p \in PE : execute(p) \/ gvt_contribute(p) \/ gvt_end(p) \/ resume_balanced(p)
  \/ \E p \in PE, h \in Phase, t \in EventTime : receive(p, h, t)
  \/ \E h \in Phase : complete(h)
  \/ reduce \/ balance \/ over

Spec == Init /\ [][Next]_vars
-----------------------------------------------------------------------------
(***************************************************************************)
(* Properties.                                                             *)
(***************************************************************************)

InFlight(p, t) == Cardinality(UNION {{h} \X (1..net[h][p][t]) : h \in Phase})

VT == INSTANCE VirtualTime WITH
        gvt <- [p \in PE |-> sched[p].g_last_gvt],
        net <- [p \in PE |-> [t \in EventTime |-> InFlight(p, t)]]

\* Though PEs begin, complete and contribute at moments of their own, each GVT
\* is a floor of all that is unprocessed, in whatever phase it was sent.
GVTIsFloor == VT!GVTIsFloor

\* Nor does a GVT ever go back; and all that a PE does or receives in between,
\* in a round or not, is what VirtualTime lets a scheduler do.
ImplementsVirtualTime == VT!Spec

\* CkAssert(min_time >= curr_gvt) of gvt_contribute(), and what it rests on: a
\* PE has one result at most to come, and no detector is used twice at once.
OneRoundAtATime ==
  /\ \A p \in PE : completions[p] + Len(contributions[p]) + Len(results[p]) <= 1
  /\ \A p \in PE : \A i \in DOMAIN contributions[p] : contributions[p][i] >= sched[p].g_last_gvt
=============================================================================

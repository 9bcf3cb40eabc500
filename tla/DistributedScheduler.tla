------------------------ MODULE DistributedScheduler ------------------------
(***************************************************************************)
(* The control flow of DistributedScheduler (scheduler.C), the code every  *)
(* GVT manager drives and is driven by.  A PE's scheduler is a record and  *)
(* each method a function from the record before to the record after, so   *)
(* that a handler of a GVT manager composes the methods it calls in the    *)
(* order it calls them.                                                    *)
(*                                                                         *)
(*   running   the flag of that name: "there are active execute() messages" *)
(*   execs     the execute() messages this PE has in flight to itself      *)
(*   iter_cnt  the counter of gvt_trigger, a CountTrigger; a ConstTrigger  *)
(*             of TRUE (conservative) is the interval 1                    *)
(*   mode      "sim", "lb" from start_balancing() until the barrier of     *)
(*             AtSync() opens, "lbdone" until balancing_complete() is      *)
(*             delivered, "over" from end_simulation() on                  *)
(*   g_last_gvt  the GVT of the last gvt_done()                            *)
(***************************************************************************)
EXTENDS SimTime

CONSTANTS
  GvtInterval,  \* g_tw_gvt_interval
  Optimistic    \* whether gvt_resume() is the OptimisticScheduler's

ASSUME GvtIntervalAssumption == GvtInterval \in Nat \ {0}
ASSUME OptimisticAssumption == Optimistic \in BOOLEAN

Mode == {"sim", "lb", "lbdone", "over"}

Scheduler ==
  [running : BOOLEAN, execs : Nat, iter_cnt : 0..(GvtInterval - 1), mode : Mode, g_last_gvt : Time]

\* start_simulation(): the first execute() is in flight.
start_simulation ==
  [running |-> TRUE, execs |-> 1, iter_cnt |-> 0, mode |-> "sim", g_last_gvt |-> 0]

next_iteration(s) ==
  IF s.running THEN s ELSE [s EXCEPT !.running = TRUE, !.execs = s.execs + 1]

iteration_countedStillRunning(s) ==
  [s EXCEPT !.execs = s.execs - 1, !.iter_cnt = s.iter_cnt + 1]

\* The head of iteration_done(), run by the execute() just delivered: the flag
\* falls and gvt_trigger counts the iteration.
iteration_counted(s) ==
  [s EXCEPT !.execs = s.execs - 1, !.running = FALSE, !.iter_cnt = s.iter_cnt + 1]

gvt_trigger_ready(s) == s.iter_cnt >= GvtInterval

gvt_trigger_resetForgotten(s) == s

gvt_trigger_reset(s) == [s EXCEPT !.iter_cnt = 0]

gvt_resume(s) == IF Optimistic THEN next_iteration(s) ELSE s

gvt_done(s, g, lb) ==
  LET t == [s EXCEPT !.g_last_gvt = g]
  IN  IF g >= EndTime THEN [t EXCEPT !.mode = "over"]
      ELSE IF lb      THEN [t EXCEPT !.mode = "lb"]
                      ELSE next_iteration(t)

balancing_completeStopped(s) == [s EXCEPT !.mode = "sim"]

balancing_complete(s) == next_iteration([s EXCEPT !.mode = "sim"])
=============================================================================

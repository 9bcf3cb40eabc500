----------------------------- MODULE GVTManager -----------------------------
(***************************************************************************)
(* What the GVT managers share (gvt/gvtmanager.C): the trigger of load     *)
(* balancing, and the work of the schedulers as far as a GVT depends on    *)
(* it.  lb_trigger is a CountTrigger whose counter saturates here at       *)
(* LBInterval, past which it makes no difference.                          *)
(***************************************************************************)
EXTENDS DistributedScheduler, Sequences, FiniteSets

CONSTANTS
  LBInterval,  \* g_tw_ldb_interval (and g_tw_ldb_first); 0: ConstTrigger(false)
  MinDelay,    \* smallest offset of an event from the event that sends it
  MaxEmit,     \* bound: messages one handler sends
  MaxCopies    \* bound: messages in flight (of one phase) for one PE at one timestamp

ASSUME PEAssumption == IsFiniteSet(PE)
ASSUME LBAssumption == LBInterval \in Nat
ASSUME BoundsAssumption == MinDelay \in Nat /\ MaxEmit \in Nat /\ MaxCopies \in Nat

lb_trigger_ready(cnt) == LBInterval > 0 /\ cnt >= LBInterval

lb_trigger_counted(cnt) == IF cnt < LBInterval THEN cnt + 1 ELSE cnt

\* gvt_end(): a trigger that is ready is reset.
lb_trigger_reset(cnt) == IF lb_trigger_ready(cnt) THEN 0 ELSE cnt

\* The <<destination, timestamp>> pairs of the messages that a handler working
\* at time f may send when the messages in flight are n.
EmissionsWithin(f, n) ==
  LET possible == {s \in PE \X EventTime : s[2] >= f + MinDelay /\ n[s[1]][s[2]] < MaxCopies}
  IN  {S \in SUBSET possible : Cardinality(S) <= MaxEmit}

\* What a sum reduction of the f[p] yields: how many units all PEs hold.
Total(f) == Cardinality(UNION {{p} \X (1..f[p]) : p \in PE})

\* The messages of n, which follow the chares they are for to other PEs.
Forwarded(n) ==
  {f \in [PE -> [EventTime -> 0..MaxCopies]] :
     \A t \in EventTime : Total([p \in PE |-> f[p][t]]) = Total([p \in PE |-> n[p][t]])}
=============================================================================

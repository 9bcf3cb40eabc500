------------------------------ MODULE SimModel ------------------------------
(***************************************************************************)
(* The simulated model the engines run, and what running it one event at a *)
(* time yields.                                                            *)
(*                                                                         *)
(* The model is abstract: each LPChare hosts one LP, whose state is how    *)
(* many events it has handled, modulo Phases, and what it sends depends on *)
(* that state and on the time.  So an event executed before another one    *)
(* that precedes it sends the wrong events, and which of two events of the *)
(* same time comes first makes no difference to what both send together.   *)
(***************************************************************************)
EXTENDS SimTime, FiniteSetsExt

CONSTANTS
  Chare,        \* the LPChares
  Phases,       \* number of states of an LP
  Initial(_),   \* Initial(c): timestamps of the events c sends itself in initialize()
  Sends(_, _, _) \* Sends(c, s, t): <<destination, offset>> of what c sends at t in state s

ASSUME ChareAssumption == IsFiniteSet(Chare)
ASSUME PhasesAssumption == Phases \in Nat \ {0}

LPState == 0..(Phases - 1)

ASSUME InitialAssumption == \A c \in Chare : Initial(c) \subseteq EventTime
\* Every offset is positive: models that send to their own time are left out.
ASSUME SendsAssumption ==
  \A c \in Chare, s \in LPState, t \in EventTime :
    Sends(c, s, t) \subseteq Chare \X (1..EndTime)

forward_state(s) == (s + 1) % Phases

(***************************************************************************)
(* The sequential run: SequentialRun[t][c][u], for u < t, is the number of *)
(* events of time u that c executes when all events before t are executed  *)
(* in timestamp order (SequentialScheduler::execute).                      *)
(***************************************************************************)
SumOver(S, f(_)) == MapThenSumSet(f, S)

\* The events c has executed before u, and those that some d, executing its
\* events of time u in a run r, sends to c for time t.
ExecutedBefore(r, c, u) == SumOver(0..(u - 1), LAMBDA v : r[c][v])

SentAt(r, d, u, c, t) ==
  Cardinality({k \in 0..(r[d][u] - 1) :
                 <<c, t - u>> \in Sends(d, (ExecutedBefore(r, d, u) + k) % Phases, u)})

Arrivals(r, c, t) ==
  (IF t \in Initial(c) THEN 1 ELSE 0)
  + SumOver(Chare, LAMBDA d : SumOver(0..(t - 1), LAMBDA u : SentAt(r, d, u, c, t)))

SequentialRun[t \in 0..EndTime] ==
  IF t = 0 THEN [c \in Chare |-> << >>]
  ELSE LET r == SequentialRun[t - 1]
       IN  [c \in Chare |-> [u \in 0..(t - 1) |-> IF u < t - 1 THEN r[c][u] ELSE Arrivals(r, c, t - 1)]]
=============================================================================

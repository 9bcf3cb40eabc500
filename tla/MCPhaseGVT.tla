----------------------------- MODULE MCPhaseGVT -----------------------------
(***************************************************************************)
(* PhaseGVT on two PEs.  MaxCount is what keeps it finite: no PE sends     *)
(* more messages than that in one use of a phase, over any number of uses. *)
(***************************************************************************)
EXTENDS PhaseGVT

CONSTANTS p1, p2
=============================================================================

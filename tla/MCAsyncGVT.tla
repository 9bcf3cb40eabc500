----------------------------- MODULE MCAsyncGVT -----------------------------
(***************************************************************************)
(* The two GVT managers that let the schedulers go on, one or the other as *)
(* the command line chooses, on two PEs.  The state of the one not chosen  *)
(* stays as it is.  MaxCount keeps PhaseGVT finite: no PE sends more       *)
(* messages than that in one use of a phase, over any number of uses.      *)
(***************************************************************************)
EXTENDS PhaseGVT

CONSTANTS p1, p2, Phases

VARIABLES
  chosen,  \* the GVT manager of this run
  cd_sched, cd_manager, cd_low, cd_net, cd_detectors, cd_completions, cd_contributions, cd_results

cd_vars == <<cd_sched, cd_manager, cd_low, cd_net, cd_detectors, cd_completions,
             cd_contributions, cd_results>>

Cd == INSTANCE CdGVT WITH
        sched <- cd_sched, manager <- cd_manager, low <- cd_low, net <- cd_net,
        detectors <- cd_detectors, completions <- cd_completions,
        contributions <- cd_contributions, results <- cd_results

AtZero(l) == \A p \in PE : l[p] = 0

AsyncInit ==
  /\ Init /\ Cd!Init
  /\ chosen \in {"phased", "cd"}
  /\ IF chosen = "cd" THEN AtZero(low) ELSE AtZero(cd_low)

Phased == chosen = "phased" /\ Next /\ UNCHANGED <<chosen, cd_vars>>

CompletionDetection == chosen = "cd" /\ Cd!Next /\ UNCHANGED <<chosen, vars>>

AsyncNext == Phased \/ CompletionDetection

AsyncSpec == AsyncInit /\ [][AsyncNext]_<<vars, chosen, cd_vars>>

-----------------------------------------------------------------------------
\* Under CdGVT each GVT is a floor of all that is unprocessed (gvt_contribute).
CdGVTIsFloor == Cd!GVTIsFloor

\* Under CdGVT no PE is more than one reduction ahead, and the CkAssert of
\* gvt_contribute() holds.
CdOneRoundAtATime == Cd!TypeOK /\ Cd!OneRoundAtATime
=============================================================================

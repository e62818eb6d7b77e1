----------------------------- MODULE MCAuditRun -----------------------------
(***************************************************************************)
(* AuditRun for TLC: baselines that pass every control, and baselines that *)
(* fail different ones.                                                    *)
(***************************************************************************)
EXTENDS AuditRun, TLC

CONSTANTS clean, weak, worse, other, c1, c2

MCViolations == [b \in Baseline |-> CASE b = clean -> {}
                                      [] b = weak  -> {c1}
                                      [] b = other -> {c2}
                                      [] b = worse -> {c1, c2}]

\* Evaluations are told apart by who starts them only, reports not at all.
TaskSymmetry == Permutations(Evaluation \ Direct) \cup Permutations(Report)
=============================================================================

------------------------------- MODULE Triage -------------------------------
(***************************************************************************)
(* From a finding to the decision on its remediation, across three         *)
(* services: the compliance evaluator attaches the blast radius the graph  *)
(* knows (evaluator.py) and stores it (db.py), and the remediation service *)
(* reads it back, resolves the agreement and consults the decision table   *)
(* (remediation main.py, db.py), for one control of one run.               *)
(***************************************************************************)
EXTENDS DecisionTable, ApprovalMatrix

CONSTANTS
    Agreements,   \* values of audit_runs.parser_agreement
    Confidences,  \* values of audit_runs.parsing_confidence
    Radii,        \* how many devices the graph reaches from the device
    Found         \* severities of the finding

ASSUME TriageConstants ==
    /\ Agreements \subseteq 0 .. 100 \cup {None}
    /\ Confidences \subseteq 0 .. 100 \cup {None}
    /\ Radii \subseteq Nat
    /\ Found \subseteq Severities

VARIABLES
    finding,   \* the stored compliance_findings row
    run,       \* the stored audit_runs columns the decision reads
    graph_ok,  \* ghost: whether the graph answered when the finding was made
    decision   \* the latest classification, with the evidence it was made from

vars == <<finding, run, graph_ok, decision>>

Undecided == [action |-> "BLOCK", rule_id |-> "none", risk |-> "HIGH",
              given |-> None, blast_radius_count |-> UNKNOWN_BLAST_RADIUS,
              agreement |-> None, severity |-> "HIGH", known |-> TRUE]

-----------------------------------------------------------------------------

\* The radius evaluate_baseline attaches: a graph that is down or unconfigured
\* leaves the empty list, and save_findings stores a list whatever it is given.
attached_radius(up, radius) == IF up THEN radius ELSE 0

Stored(severity, up, radius) ==
    [severity |-> severity, blast_radius |-> attached_radius(up, radius)]

Init ==
    /\ \E s \in Found, up \in BOOLEAN, n \in Radii :
            finding = Stored(s, up, n) /\ graph_ok = up
    /\ run \in [parser_agreement : Agreements, parsing_confidence : Confidences]
    /\ decision = Undecided

\* An evaluation of the run replaces the finding and the run's columns.
evaluate_baseline(s, up, n, agreement, confidence) ==
    /\ finding' = Stored(s, up, n)
    /\ graph_ok' = up
    /\ run' = [parser_agreement |-> agreement, parsing_confidence |-> confidence]
    /\ UNCHANGED decision

\* _decide, for a finding with this radius field.
Decide(radius, known) ==
    LET agreement == resolve_parser_agreement(run.parser_agreement, run.parsing_confidence)
        d == decide(agreement, blast_radius_count(radius), finding.severity)
    IN  decision' = [action |-> d.action, rule_id |-> d.rule_id, risk |-> d.risk,
                     given |-> radius, blast_radius_count |-> d.blast_radius_count,
                     agreement |-> agreement, severity |-> finding.severity, known |-> known]

\* POST .../generate for the run reads the finding back from the database.
generate_for_run ==
    /\ Decide(finding.blast_radius, graph_ok)
    /\ UNCHANGED <<finding, run, graph_ok>>

\* POST /remediation/generate takes it from its caller, who may leave the radius out.
generate(radius) ==
    /\ Decide(radius, graph_ok /\ radius # None)
    /\ UNCHANGED <<finding, run, graph_ok>>

Next ==
    \/ \E s \in Found, up \in BOOLEAN, n \in Radii, a \in Agreements, c \in Confidences :
            evaluate_baseline(s, up, n, a, c)
    \/ generate_for_run
    \/ \E radius \in {None, finding.blast_radius} : generate(radius)

Spec == Init /\ [][Next]_vars

-----------------------------------------------------------------------------
(* Properties.                                                             *)

Decided == decision.rule_id # "none"

\* The safety net of the table is never needed: "every case above should already
\* be covered" (decision_table.yaml, default-single-approval).
DefaultRuleNeverFires == decision.rule_id # "default-single-approval"

\* A high-risk change that alters reachability needs two people or is blocked,
\* however confident the parser is.
HighRiskReachabilityNeedsTwo ==
    Decided /\ decision.risk = "HIGH" /\ decision.blast_radius_count >= 1 =>
        decision.action \in {"DUAL_APPROVAL", "BLOCK"}

\* What one network operator can put through alone is a medium or low severity
\* finding, on one device, that both parsers agree on to at least 95 percent.
OperatorAloneIsLocal ==
    /\ check_permission("operator", decision.action, decision.risk,
                        decision.blast_radius_count, "human")
    /\ dual_approval_satisfied(decision.action, {}, "operator")
    => /\ decision.severity \in {"MEDIUM", "LOW"}
       /\ decision.blast_radius_count = 0
       /\ decision.agreement >= 95

\* A caller who leaves the radius out, or a run without any agreement, is blocked.
UnknownEvidenceBlocks ==
    decision.agreement = None \/ decision.given = None => decision.action = "BLOCK"

Rank(x) == CASE x \in {"AUTO_APPLY", "LOW"}         -> 0
             [] x \in {"SINGLE_APPROVAL", "MEDIUM"} -> 1
             [] x \in {"DUAL_APPROVAL", "HIGH"}     -> 2
             [] x = "BLOCK"                         -> 3

\* Evidence that is worse on every count never earns a laxer decision.
WorseEvidenceNeverLoosens ==
    [][ /\ Decided
        /\ decision'.agreement <= decision.agreement
        /\ decision'.blast_radius_count >= decision.blast_radius_count
        /\ Rank(decision'.risk) >= Rank(decision.risk)
        => Rank(decision'.action) >= Rank(decision.action) ]_vars

=============================================================================

---------------------------- MODULE DecisionTable ----------------------------
(***************************************************************************)
(* The confidence-weighted decision engine of the remediation service:     *)
(* app/decision.py evaluated over policy/decision_table.yaml.              *)
(*                                                                         *)
(* Parser agreement, a float in 0..1 in the code, is a whole number of     *)
(* percent here: the table compares it with 0.90, 0.95 and 0.99 only.      *)
(***************************************************************************)
EXTENDS Integers, Sequences

\* A missing agreement or blast radius (None in the code).
None == -1

Severities == {"CRITICAL", "HIGH", "MEDIUM", "LOW", "UNRECOGNISED"}
Risks == {"LOW", "MEDIUM", "HIGH"}
DecisionActions == {"AUTO_APPLY", "SINGLE_APPROVAL", "DUAL_APPROVAL", "BLOCK"}

-----------------------------------------------------------------------------
(* The inputs of a decision.                                               *)

UNKNOWN_BLAST_RADIUS == 999

\* Mutant of blast_radius_count: an unknown radius counts as none.
unknown_is_zero(devices) == IF devices = None THEN 0 ELSE devices

\* The length of the finding's device list, or a value no small-radius row accepts.
blast_radius_count(devices) ==
    IF devices = None THEN UNKNOWN_BLAST_RADIUS ELSE devices

\* Mutant of risk_for_severity: a severity outside the table is of no risk.
unlisted_is_low(severity) ==
    IF severity \in {"CRITICAL", "HIGH"} THEN "HIGH"
    ELSE IF severity = "MEDIUM" THEN "MEDIUM" ELSE "LOW"

\* A severity outside the table is as risky as the worst one.
risk_for_severity(severity) ==
    IF severity \in {"MEDIUM", "LOW"} THEN severity ELSE "HIGH"

\* The dual-parser agreement, else the parser's own confidence, either may be NULL.
resolve_parser_agreement(parser_agreement, parsing_confidence) ==
    IF parser_agreement # None THEN parser_agreement ELSE parsing_confidence

-----------------------------------------------------------------------------
(* The table: rules in file order, each with the conditions it states.     *)

Rules ==
    << [id     |-> "block-large-blast-radius",
        when   |-> [blast_radius_min |-> 3],
        action |-> "BLOCK"],
       [id     |-> "block-low-parser-agreement",
        when   |-> [parser_agreement_max |-> 90],
        action |-> "BLOCK"],
       [id     |-> "dual-approval-medium-agreement",
        when   |-> [parser_agreement_max |-> 95],
        action |-> "DUAL_APPROVAL"],
       [id     |-> "dual-approval-high-risk-reachability-change",
        when   |-> [risk |-> {"HIGH"}, blast_radius_min |-> 1],
        action |-> "DUAL_APPROVAL"],
       [id     |-> "auto-apply-high-agreement-zero-blast-radius",
        when   |-> [parser_agreement_min |-> 99, blast_radius_max |-> 0, risk |-> {"LOW"}],
        action |-> "AUTO_APPLY"],
       [id     |-> "single-approval-small-blast-radius",
        when   |-> [parser_agreement_min |-> 95, blast_radius_max |-> 2],
        action |-> "SINGLE_APPROVAL"],
       [id     |-> "default-single-approval",
        when   |-> << >>,
        action |-> "SINGLE_APPROVAL"] >>

\* Mutant of matches: the largest radius a rule admits is left out.
excludes_max(when, agreement, radius, risk) ==
    /\ "parser_agreement_min" \in DOMAIN when => agreement >= when.parser_agreement_min
    /\ "parser_agreement_max" \in DOMAIN when => agreement < when.parser_agreement_max
    /\ "blast_radius_min" \in DOMAIN when => radius >= when.blast_radius_min
    /\ "blast_radius_max" \in DOMAIN when => radius < when.blast_radius_max
    /\ "risk" \in DOMAIN when => risk \in when.risk

\* A rule matches when every condition it states holds.
matches(when, agreement, radius, risk) ==
    /\ "parser_agreement_min" \in DOMAIN when => agreement >= when.parser_agreement_min
    /\ "parser_agreement_max" \in DOMAIN when => agreement < when.parser_agreement_max
    /\ "blast_radius_min" \in DOMAIN when => radius >= when.blast_radius_min
    /\ "blast_radius_max" \in DOMAIN when => radius <= when.blast_radius_max
    /\ "risk" \in DOMAIN when => risk \in when.risk

\* Mutant of FirstMatch: the last matching rule, the catch-all aside.
LastMatch(agreement, radius, risk) ==
    CHOOSE i \in DOMAIN Rules :
        /\ matches(Rules[i].when, agreement, radius, risk)
        /\ \A j \in (i + 1) .. 6 : ~matches(Rules[j].when, agreement, radius, risk)

\* The first rule, in file order, that matches.
FirstMatch(agreement, radius, risk) ==
    CHOOSE i \in DOMAIN Rules :
        /\ matches(Rules[i].when, agreement, radius, risk)
        /\ \A j \in 1 .. (i - 1) : ~matches(Rules[j].when, agreement, radius, risk)

\* A missing agreement is the least trustworthy one.
decide(parser_agreement, radius, severity) ==
    LET agreement == IF parser_agreement = None THEN 0 ELSE parser_agreement
        risk      == risk_for_severity(severity)
        rule      == Rules[FirstMatch(agreement, radius, risk)]
    IN  [action |-> rule.action, rule_id |-> rule.id, risk |-> risk,
         blast_radius_count |-> radius]

=============================================================================

---------------------------- MODULE TriageProofs ----------------------------
(***************************************************************************)
(* What Triage decides, for every set of agreements, confidences, radii    *)
(* and severities.                                                         *)
(***************************************************************************)
EXTENDS Triage, TLAPS, FiniteSetTheorems

-----------------------------------------------------------------------------
(* The decision table, for every agreement, blast radius and severity.     *)

\* When each rule of the table matches.
LEMMA RuleConditions ==
    ASSUME NEW a \in Int, NEW n \in Int, NEW risk \in Risks
    PROVE  /\ matches(Rules[1].when, a, n, risk) <=> n >= 3
           /\ matches(Rules[2].when, a, n, risk) <=> a < 90
           /\ matches(Rules[3].when, a, n, risk) <=> a < 95
           /\ matches(Rules[4].when, a, n, risk) <=> risk = "HIGH" /\ n >= 1
           /\ matches(Rules[5].when, a, n, risk) <=> a >= 99 /\ n <= 0 /\ risk = "LOW"
           /\ matches(Rules[6].when, a, n, risk) <=> a >= 95 /\ n <= 2
           /\ matches(Rules[7].when, a, n, risk)
<1>1. matches(Rules[1].when, a, n, risk) <=> n >= 3
  BY DEF matches, Rules
<1>2. matches(Rules[2].when, a, n, risk) <=> a < 90
  BY DEF matches, Rules
<1>3. matches(Rules[3].when, a, n, risk) <=> a < 95
  BY DEF matches, Rules
<1>4. matches(Rules[4].when, a, n, risk) <=> risk = "HIGH" /\ n >= 1
  BY DEF matches, Rules
<1>5. matches(Rules[5].when, a, n, risk) <=> a >= 99 /\ n <= 0 /\ risk = "LOW"
  BY DEF matches, Rules
<1>6. matches(Rules[6].when, a, n, risk) <=> a >= 95 /\ n <= 2
  BY DEF matches, Rules
<1>7. matches(Rules[7].when, a, n, risk)
  BY DEF matches, Rules
<1> QED
  BY <1>1, <1>2, <1>3, <1>4, <1>5, <1>6, <1>7

\* The table's rules are numbered from 1 to 7, and these are their actions.
LEMMA RuleActions ==
    /\ DOMAIN Rules = 1 .. 7
    /\ Rules[1].action = "BLOCK" /\ Rules[2].action = "BLOCK"
    /\ Rules[3].action = "DUAL_APPROVAL" /\ Rules[4].action = "DUAL_APPROVAL"
    /\ Rules[5].action = "AUTO_APPLY"
    /\ Rules[6].action = "SINGLE_APPROVAL" /\ Rules[7].action = "SINGLE_APPROVAL"
BY DEF Rules

\* Only the last rule is the catch-all.
LEMMA RuleIds ==
    \A i \in 1 .. 6 : Rules[i].id \notin {"default-single-approval", "none"}
<1>1. /\ Rules[1].id = "block-large-blast-radius"
      /\ Rules[2].id = "block-low-parser-agreement"
      /\ Rules[3].id = "dual-approval-medium-agreement"
      /\ Rules[4].id = "dual-approval-high-risk-reachability-change"
      /\ Rules[5].id = "auto-apply-high-agreement-zero-blast-radius"
      /\ Rules[6].id = "single-approval-small-blast-radius"
  BY DEF Rules
<1>2. \A i \in 1 .. 6 : i = 1 \/ i = 2 \/ i = 3 \/ i = 4 \/ i = 5 \/ i = 6
  OBVIOUS
<1> QED
  BY <1>1, <1>2

\* There is a first rule that matches, and it is the one whose condition holds while
\* those of the rules above it do not; the catch-all is never it.
LEMMA FirstRule ==
    ASSUME NEW a \in Int, NEW n \in Int, NEW risk \in Risks
    PROVE  FirstMatch(a, n, risk) =
              IF n >= 3 THEN 1 ELSE IF a < 90 THEN 2 ELSE IF a < 95 THEN 3
              ELSE IF risk = "HIGH" /\ n >= 1 THEN 4
              ELSE IF a >= 99 /\ n <= 0 /\ risk = "LOW" THEN 5 ELSE 6
<1> DEFINE M(i) == matches(Rules[i].when, a, n, risk)
           First(i) == i \in 1 .. 7 /\ M(i) /\ \A j \in 1 .. (i - 1) : ~M(j)
           Row == IF n >= 3 THEN 1 ELSE IF a < 90 THEN 2 ELSE IF a < 95 THEN 3
                  ELSE IF risk = "HIGH" /\ n >= 1 THEN 4
                  ELSE IF a >= 99 /\ n <= 0 /\ risk = "LOW" THEN 5 ELSE 6
<1>1. /\ M(1) <=> n >= 3
      /\ M(2) <=> a < 90
      /\ M(3) <=> a < 95
      /\ M(4) <=> risk = "HIGH" /\ n >= 1
      /\ M(5) <=> a >= 99 /\ n <= 0 /\ risk = "LOW"
      /\ M(6) <=> a >= 95 /\ n <= 2
  BY RuleConditions
<1>2. FirstMatch(a, n, risk) = CHOOSE i \in 1 .. 7 : M(i) /\ \A j \in 1 .. (i - 1) : ~M(j)
  BY RuleActions DEF FirstMatch
<1> HIDE DEF M
<1>3. First(Row)
  BY <1>1
<1>4. ASSUME NEW i, First(i) PROVE i = Row
  BY <1>3, <1>4
<1> QED
  BY <1>2, <1>3, <1>4

\* The table in one expression.
THEOREM DecideIs ==
    ASSUME NEW a \in Int, NEW n \in Int, NEW s \in Severities
    PROVE  LET agreement == IF a = None THEN 0 ELSE a
               d == decide(a, n, s)
           IN  /\ d.risk = risk_for_severity(s) /\ d.risk \in Risks
               /\ d.blast_radius_count = n
               /\ d.rule_id \notin {"default-single-approval", "none"}
               /\ d.action =
                    IF n >= 3 \/ agreement < 90 THEN "BLOCK"
                    ELSE IF agreement < 95 \/ (d.risk = "HIGH" /\ n >= 1) THEN "DUAL_APPROVAL"
                    ELSE IF agreement >= 99 /\ n <= 0 /\ d.risk = "LOW" THEN "AUTO_APPLY"
                    ELSE "SINGLE_APPROVAL"
<1> DEFINE agreement == IF a = None THEN 0 ELSE a
           risk == risk_for_severity(s)
<1>1. agreement \in Int /\ risk \in Risks
  BY DEF None, risk_for_severity, Risks
<1>2. decide(a, n, s) =
         [action |-> Rules[FirstMatch(agreement, n, risk)].action,
          rule_id |-> Rules[FirstMatch(agreement, n, risk)].id, risk |-> risk,
          blast_radius_count |-> n]
  BY DEF decide
<1> HIDE DEF agreement, risk
<1>3. Rules[FirstMatch(agreement, n, risk)].action =
         IF n >= 3 \/ agreement < 90 THEN "BLOCK"
         ELSE IF agreement < 95 \/ (risk = "HIGH" /\ n >= 1) THEN "DUAL_APPROVAL"
         ELSE IF agreement >= 99 /\ n <= 0 /\ risk = "LOW" THEN "AUTO_APPLY"
         ELSE "SINGLE_APPROVAL"
  BY <1>1, FirstRule, RuleActions
<1>4. Rules[FirstMatch(agreement, n, risk)].id \notin {"default-single-approval", "none"}
  <2>1. FirstMatch(agreement, n, risk) \in 1 .. 6
    BY <1>1, FirstRule
  <2> QED  BY <2>1, RuleIds
<1> QED
  BY <1>1, <1>2, <1>3, <1>4 DEF agreement, risk

-----------------------------------------------------------------------------
(* The inductive invariant: every decision is the table's.                 *)

\* What the table decides on agreement a, radius n and risk k.
Verdict(a, n, k) ==
    LET agreement == IF a = None THEN 0 ELSE a
    IN  IF n >= 3 \/ agreement < 90 THEN "BLOCK"
        ELSE IF agreement < 95 \/ (k = "HIGH" /\ n >= 1) THEN "DUAL_APPROVAL"
        ELSE IF agreement >= 99 /\ n <= 0 /\ k = "LOW" THEN "AUTO_APPLY"
        ELSE "SINGLE_APPROVAL"

\* The evidence a decision was made from is on record with it.
Tabled ==
    /\ decision.agreement \in Int /\ decision.blast_radius_count \in Nat
    /\ decision.blast_radius_count = blast_radius_count(decision.given)
    /\ decision.severity \in Severities
    /\ decision.risk = risk_for_severity(decision.severity)
    /\ decision.rule_id # "default-single-approval"
    /\ decision.action = Verdict(decision.agreement, decision.blast_radius_count, decision.risk)

EvidenceOK ==
    /\ finding.severity \in Severities /\ finding.blast_radius \in Nat
    /\ run.parser_agreement \in Int /\ run.parsing_confidence \in Int

\* A decision on well-formed evidence is the table's.
LEMMA DecideTabled ==
    ASSUME EvidenceOK, NEW radius \in Nat \cup {None}, NEW known, Decide(radius, known)
    PROVE  Tabled'
<1> DEFINE a == resolve_parser_agreement(run.parser_agreement, run.parsing_confidence)
           n == blast_radius_count(radius)
           d == decide(a, n, finding.severity)
<1>1. a \in Int /\ n \in Nat /\ finding.severity \in Severities
  BY DEF EvidenceOK, resolve_parser_agreement, blast_radius_count, UNKNOWN_BLAST_RADIUS, None
<1>2. /\ d.risk = risk_for_severity(finding.severity)
      /\ d.blast_radius_count = n
      /\ d.rule_id # "default-single-approval"
      /\ d.action = Verdict(a, n, d.risk)
  <2> HIDE DEF a, n
  <2> QED  BY <1>1, DecideIs DEF Verdict
<1>4. n = blast_radius_count(radius)
  OBVIOUS
<1>3. decision' = [action |-> d.action, rule_id |-> d.rule_id, risk |-> d.risk,
                   given |-> radius, blast_radius_count |-> d.blast_radius_count,
                   agreement |-> a, severity |-> finding.severity, known |-> known]
  BY DEF Decide
<1> HIDE DEF a, n, d
<1> QED
  BY <1>1, <1>2, <1>3, <1>4 DEF Tabled

\* A stored finding is well-formed.
LEMMA StoredOK ==
    ASSUME NEW s \in Found, NEW up \in BOOLEAN, NEW n \in Radii
    PROVE  /\ Stored(s, up, n).severity \in Severities
           /\ Stored(s, up, n).blast_radius \in Nat
BY TriageConstants DEF Stored, attached_radius

\* Evidence and decisions together are inductive.
LEMMA Inductive == Spec => [](EvidenceOK /\ Tabled)
<1>1. Init => EvidenceOK /\ Tabled
  <2> SUFFICES ASSUME Init
               PROVE  EvidenceOK /\ Tabled
    OBVIOUS
  <2>1. EvidenceOK
    <3>1. finding.severity \in Severities /\ finding.blast_radius \in Nat
      BY StoredOK DEF Init
    <3>2. run.parser_agreement \in Agreements /\ run.parsing_confidence \in Confidences
      BY DEF Init
    <3>3. Agreements \subseteq Int /\ Confidences \subseteq Int
      BY TriageConstants DEF None
    <3> QED  BY <3>1, <3>2, <3>3 DEF EvidenceOK
  <2>2. Tabled
    BY DEF Init, Tabled, Undecided, Verdict, None, UNKNOWN_BLAST_RADIUS, Severities,
           risk_for_severity, blast_radius_count
  <2> QED  BY <2>1, <2>2
<1>2. EvidenceOK /\ Tabled /\ [Next]_vars => (EvidenceOK /\ Tabled)'
  <2> SUFFICES ASSUME EvidenceOK, Tabled, [Next]_vars
               PROVE  (EvidenceOK /\ Tabled)'
    OBVIOUS
  <2>1. CASE UNCHANGED vars
    BY <2>1 DEF vars, EvidenceOK, Tabled
  <2>2. ASSUME NEW s \in Found, NEW up \in BOOLEAN, NEW n \in Radii, NEW a \in Agreements,
               NEW c \in Confidences, evaluate_baseline(s, up, n, a, c)
        PROVE  (EvidenceOK /\ Tabled)'
    <3>1. EvidenceOK'
      BY <2>2, StoredOK, TriageConstants DEF evaluate_baseline, EvidenceOK, None
    <3>2. Tabled'
      BY <2>2 DEF evaluate_baseline, Tabled
    <3> QED  BY <3>1, <3>2
  <2>3. CASE generate_for_run
    <3>1. finding.blast_radius \in Nat \cup {None}
      BY DEF EvidenceOK
    <3>2. Tabled'
      BY <2>3, <3>1, DecideTabled DEF generate_for_run
    <3> QED  BY <2>3, <3>2 DEF generate_for_run, EvidenceOK
  <2>4. ASSUME NEW radius \in {None, finding.blast_radius}, generate(radius)
        PROVE  (EvidenceOK /\ Tabled)'
    <3>1. radius \in Nat \cup {None}
      BY DEF EvidenceOK
    <3>2. Tabled'
      BY <2>4, <3>1, DecideTabled DEF generate
    <3> QED  BY <2>4, <3>2 DEF generate, EvidenceOK
  <2> QED
    BY <2>1, <2>2, <2>3, <2>4 DEF Next
<1> QED
  BY <1>1, <1>2, PTL DEF Spec

-----------------------------------------------------------------------------
(* The theorems.                                                           *)

\* The safety net of the table is never needed.
THEOREM CatchAllIsDead == Spec => []DefaultRuleNeverFires
<1>1. Tabled => DefaultRuleNeverFires
  BY DEF Tabled, DefaultRuleNeverFires
<1> QED  BY <1>1, Inductive, PTL

\* A high-risk change of reachability needs two people or is blocked.
THEOREM HighRiskNeedsTwo == Spec => []HighRiskReachabilityNeedsTwo
<1>1. Tabled => HighRiskReachabilityNeedsTwo
  BY DEF Tabled, HighRiskReachabilityNeedsTwo, Verdict
<1> QED  BY <1>1, Inductive, PTL

\* What one operator can put through alone is local, medium or low, and agreed on.
THEOREM OperatorsAreLocal == Spec => []OperatorAloneIsLocal
<1>1. Cardinality({} \cup {"operator"}) = 1
  BY FS_Singleton
<1>2. Tabled => OperatorAloneIsLocal
  BY <1>1 DEF Tabled, OperatorAloneIsLocal, Verdict, check_permission, role_permits,
              SINGLE_DEVICE_MAX_BLAST_RADIUS, dual_approval_satisfied, risk_for_severity,
              Severities, None
<1> QED  BY <1>2, Inductive, PTL

\* Missing evidence blocks.
THEOREM UnknownBlocks == Spec => []UnknownEvidenceBlocks
<1>1. Tabled => UnknownEvidenceBlocks
  BY DEF Tabled, UnknownEvidenceBlocks, Verdict, None, UNKNOWN_BLAST_RADIUS, blast_radius_count
<1> QED  BY <1>1, Inductive, PTL

\* Worse evidence never earns a laxer decision.
THEOREM Monotone == Spec => WorseEvidenceNeverLoosens
<1> DEFINE Step == /\ Decided
                   /\ decision'.agreement <= decision.agreement
                   /\ decision'.blast_radius_count >= decision.blast_radius_count
                   /\ Rank(decision'.risk) >= Rank(decision.risk)
                   => Rank(decision'.action) >= Rank(decision.action)
<1>1. Tabled /\ Tabled' => Step
  BY DEF Tabled, Verdict, Rank, risk_for_severity, None
<1>2. [](EvidenceOK /\ Tabled) => [][Step]_vars
  BY <1>1, PTL
<1> QED  BY <1>2, Inductive, PTL DEF WorseEvidenceNeverLoosens

=============================================================================

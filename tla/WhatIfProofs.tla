---------------------------- MODULE WhatIfProofs ----------------------------
(***************************************************************************)
(* What the compliance service answers, for every configuration and access *)
(* list: the table of fixes against the bundle, the scores of the two      *)
(* services, and the verdict on a change.                                  *)
(***************************************************************************)
EXTENDS WhatIf, TLAPS, WellFoundedInduction

\* The bundle rule by rule.
LEMMA Rules ==
    ASSUME NEW b
    PROVE  /\ evidence("1.1.1", b) = Once(b.ssh_version \notin {"none", "2"})
           /\ evidence("1.1.2", b) = Once(b.telnet = "ENABLED")
           /\ evidence("1.1.3", b) = Once(b.ssh_enabled /\ is_blank(b.management_acl))
           /\ evidence("1.2.1", b) = Once(b.snmp_enabled /\ b.snmp_version \in {"v1", "v2c"})
           /\ evidence("1.2.2", b) = ill_communities(b)
           /\ evidence("1.3.1", b) = weak_policies(b)
           /\ evidence("1.4.1", b) = Once(b.ntp_enabled /\ ~b.ntp_authentication)
           /\ evidence("1.5.1", b) = Once(b.password_encryption = "DISABLED")
           /\ evidence("1.6.1", b) = Once(~b.login_banner)
           /\ evidence("1.7.1", b) = Once(b.http_server = "ENABLED")
           /\ evidence("1.8.1", b) = Once(~remote_logging_configured(b))
BY DEF evidence

\* The table of fixes field by field: what is left of b in d when c is fixed.
IsFixed(b, c, d) ==
    /\ d.ssh_enabled = b.ssh_enabled
    /\ d.ssh_version = IF c = "1.1.1" THEN "2" ELSE b.ssh_version
    /\ d.management_acl = IF c = "1.1.3" THEN "MGMT-ONLY" ELSE b.management_acl
    /\ d.telnet = IF c = "1.1.2" THEN "DISABLED" ELSE b.telnet
    /\ d.snmp_enabled = b.snmp_enabled
    /\ d.snmp_version = IF c = "1.2.1" THEN "v3" ELSE b.snmp_version
    /\ d.community_strings = IF c = "1.2.2" THEN b.community_strings \ Default
        ELSE b.community_strings
    /\ d.ike_policies = IF c = "1.3.1" THEN {strengthened(p) : p \in b.ike_policies}
        ELSE b.ike_policies
    /\ d.ntp_enabled = b.ntp_enabled
    /\ d.ntp_authentication = IF c = "1.4.1" THEN TRUE ELSE b.ntp_authentication
    /\ d.password_encryption = IF c = "1.5.1" THEN "ENABLED" ELSE b.password_encryption
    /\ d.login_banner = IF c = "1.6.1" THEN TRUE ELSE b.login_banner
    /\ d.http_server = IF c = "1.7.1" THEN "DISABLED" ELSE b.http_server
    /\ d.syslog_enabled = IF c = "1.8.1" THEN TRUE ELSE b.syslog_enabled
    /\ d.syslog_hosts = IF c = "1.8.1" THEN {"remote-syslog"} ELSE b.syslog_hosts

LEMMA FixedFields ==
    ASSUME NEW b \in Baseline, NEW c \in Control
    PROVE  IsFixed(b, c, apply_fix(b, c))
<1> USE DEF IsFixed
<1>1. CASE c = "1.1.1"
  <2>1. apply_fix(b, c) = [b EXCEPT !.ssh_version = "2"]
      BY <1>1 DEF apply_fix
  <2> QED BY <2>1, <1>1 DEF Baseline
<1>2. CASE c = "1.1.2"
  <2>1. apply_fix(b, c) = [b EXCEPT !.telnet = "DISABLED"]
      BY <1>2 DEF apply_fix
  <2> QED BY <2>1, <1>2 DEF Baseline
<1>3. CASE c = "1.1.3"
  <2>1. apply_fix(b, c) = [b EXCEPT !.management_acl = "MGMT-ONLY"]
      BY <1>3 DEF apply_fix
  <2> QED BY <2>1, <1>3 DEF Baseline
<1>4. CASE c = "1.2.1"
  <2>1. apply_fix(b, c) = [b EXCEPT !.snmp_version = "v3"]
      BY <1>4 DEF apply_fix
  <2> QED BY <2>1, <1>4 DEF Baseline
<1>5. CASE c = "1.2.2"
  <2>1. apply_fix(b, c) = [b EXCEPT !.community_strings = @ \ Default]
      BY <1>5 DEF apply_fix
  <2> QED BY <2>1, <1>5 DEF Baseline
<1>6. CASE c = "1.3.1"
  <2>1. apply_fix(b, c) = [b EXCEPT !.ike_policies = {strengthened(p) : p \in @}]
      BY <1>6 DEF apply_fix
  <2> QED BY <2>1, <1>6 DEF Baseline
<1>7. CASE c = "1.4.1"
  <2>1. apply_fix(b, c) = [b EXCEPT !.ntp_authentication = TRUE]
      BY <1>7 DEF apply_fix
  <2> QED BY <2>1, <1>7 DEF Baseline
<1>8. CASE c = "1.5.1"
  <2>1. apply_fix(b, c) = [b EXCEPT !.password_encryption = "ENABLED"]
      BY <1>8 DEF apply_fix
  <2> QED BY <2>1, <1>8 DEF Baseline
<1>9. CASE c = "1.6.1"
  <2>1. apply_fix(b, c) = [b EXCEPT !.login_banner = TRUE]
      BY <1>9 DEF apply_fix
  <2> QED BY <2>1, <1>9 DEF Baseline
<1>10. CASE c = "1.7.1"
  <2>1. apply_fix(b, c) = [b EXCEPT !.http_server = "DISABLED"]
      BY <1>10 DEF apply_fix
  <2> QED BY <2>1, <1>10 DEF Baseline
<1>11. CASE c = "1.8.1"
  <2>1. apply_fix(b, c) = [b EXCEPT !.syslog_enabled = TRUE, !.syslog_hosts = {"remote-syslog"}]
      BY <1>11 DEF apply_fix
  <2> QED BY <2>1, <1>11 DEF Baseline
<1> QED BY <1>1, <1>2, <1>3, <1>4, <1>5, <1>6, <1>7, <1>8, <1>9, <1>10, <1>11 DEF Control

\* The controls that fail, without the evidence.
FailsAsRuled(b) ==
    /\ "1.1.1" \in Failing(b) <=> b.ssh_version \notin {"none", "2"}
    /\ "1.1.2" \in Failing(b) <=> b.telnet = "ENABLED"
    /\ "1.1.3" \in Failing(b) <=> b.ssh_enabled /\ is_blank(b.management_acl)
    /\ "1.2.1" \in Failing(b) <=> b.snmp_enabled /\ b.snmp_version \in {"v1", "v2c"}
    /\ "1.2.2" \in Failing(b) <=> ill_communities(b) # {}
    /\ "1.3.1" \in Failing(b) <=> weak_policies(b) # {}
    /\ "1.4.1" \in Failing(b) <=> b.ntp_enabled /\ ~b.ntp_authentication
    /\ "1.5.1" \in Failing(b) <=> b.password_encryption = "DISABLED"
    /\ "1.6.1" \in Failing(b) <=> ~b.login_banner
    /\ "1.7.1" \in Failing(b) <=> b.http_server = "ENABLED"
    /\ "1.8.1" \in Failing(b) <=> ~remote_logging_configured(b)

LEMMA FailingIs ==
    ASSUME NEW b
    PROVE  FailsAsRuled(b)
<1>1. \A P \in BOOLEAN : Once(P) # {} <=> P
      BY DEF Once
<1>2. \A c \in Control : c \in Failing(b) <=> evidence(c, b) # {}
      BY DEF Failing
<1> QED BY <1>1, <1>2, Rules DEF Control, FailsAsRuled

\* No weak policy is left once each was strengthened, whatever there was.
LEMMA StrongPolicies ==
    ASSUME NEW b \in Baseline
    PROVE  weak_policies(apply_fix(b, "1.3.1")) = {}
<1>1. apply_fix(b, "1.3.1").ike_policies = {strengthened(p) : p \in b.ike_policies}
      BY FixedFields DEF Control, IsFixed
<1>2. ASSUME NEW p \in b.ike_policies PROVE strengthened(p).encryption \notin Weak
      BY DEF Baseline, strengthened, Weak
<1> QED BY <1>1, <1>2 DEF weak_policies

\* A fix takes its own control off the list, and changes nothing else on it.
LEMMA FixResolvesItsControl ==
    ASSUME NEW b \in Baseline, NEW c \in Control
    PROVE  Failing(apply_fix(b, c)) = Failing(b) \ {c}
<1> DEFINE d == apply_fix(b, c)
<1>1. \A x : x \in Failing(d) => x \in Control
      BY DEF Failing
<1>2. \A x : x \in Failing(b) => x \in Control
      BY DEF Failing
<1>3. IsFixed(b, c, d) /\ FailsAsRuled(b) /\ FailsAsRuled(d)
      BY FixedFields, FailingIs
<1>4. c = "1.3.1" => weak_policies(d) = {}
      BY StrongPolicies
<1> HIDE DEF d
<1>5. ASSUME NEW x \in Control PROVE x \in Failing(d) <=> x \in Failing(b) /\ x # c
  <2> USE <1>3 DEF IsFixed, FailsAsRuled
  <2>1. CASE x = "1.1.1"
        BY <2>1
  <2>2. CASE x = "1.1.2"
        BY <2>2
  <2>3. CASE x = "1.1.3"
        BY <2>3 DEF is_blank, Absent
  <2>4. CASE x = "1.2.1"
        BY <2>4
  <2>5. CASE x = "1.2.2"
        BY <2>5 DEF ill_communities
  <2>6. CASE x = "1.3.1"
        BY <2>6, <1>4 DEF weak_policies
  <2>7. CASE x = "1.4.1"
        BY <2>7
  <2>8. CASE x = "1.5.1"
        BY <2>8
  <2>9. CASE x = "1.6.1"
        BY <2>9
  <2>10. CASE x = "1.7.1"
        BY <2>10
  <2>11. CASE x = "1.8.1"
        BY <2>11 DEF remote_logging_configured
  <2> QED BY <2>1, <2>2, <2>3, <2>4, <2>5, <2>6, <2>7, <2>8, <2>9, <2>10, <2>11 DEF Control
<1>6. Failing(d) = Failing(b) \ {c}
      BY <1>1, <1>2, <1>5
<1> QED BY <1>6 DEF d

\* The controls of what the bundle denies are those that fail.
LEMMA DeniedFail ==
    ASSUME NEW b
    PROVE  failed_ids(deny(b)) = Failing(b)
<1>1. \A c \in Control : \A e \in evidence(c, b) : [control_id |-> c, evidence |-> e] \in deny(b)
      BY DEF deny
<1>2. \A f \in deny(b) : \E c \in Control : \E e \in evidence(c, b) :
          f = [control_id |-> c, evidence |-> e]
      BY DEF deny
<1>3. ASSUME NEW c \in Failing(b) PROVE c \in failed_ids(deny(b))
  <2>1. PICK e \in evidence(c, b) : c \in Control
        BY DEF Failing
  <2>2. [control_id |-> c, evidence |-> e] \in deny(b)
        BY <1>1, <2>1
  <2> QED BY <2>2 DEF failed_ids
<1>4. \A c \in failed_ids(deny(b)) : c \in Failing(b)
      BY <1>2 DEF failed_ids, Failing
<1> QED BY <1>3, <1>4

-----------------------------------------------------------------------------
\* The answer of a simulation is about the snapshot that is stored.
SimulationInv ==
    /\ snapshot \in Uploaded \cup {Nothing}
    /\ answer.to = "simulate_fix" =>
        /\ snapshot \in Uploaded
        /\ answer.control \in Control
        /\ answer.result.violations_resolved =
               Failing(snapshot.base) \ Failing(apply_fix(snapshot.base, answer.control))
        /\ answer.result.violations_introduced =
               Failing(apply_fix(snapshot.base, answer.control)) \ Failing(snapshot.base)

LEMMA SimulationInit == Init => SimulationInv
BY DEF Init, SimulationInv, NoAnswer

LEMMA SimulationStep ==
    ASSUME SimulationInv, [Next]_vars
    PROVE  SimulationInv'
<1>1. CASE UNCHANGED vars
      BY <1>1 DEF SimulationInv, vars
<1>2. ASSUME NEW g \in Uploaded, evaluate(g) PROVE SimulationInv'
      BY <1>2 DEF evaluate, SimulationInv
<1>3. CASE get_audit_run
      BY <1>3 DEF get_audit_run, SimulationInv
<1>4. ASSUME NEW c \in Control, simulate_fix(c) PROVE SimulationInv'
  <2> DEFINE fixed == [snapshot EXCEPT !.base = apply_fix(snapshot.base, c)]
  <2>1. snapshot \in Uploaded /\ snapshot' = snapshot
        BY <1>4 DEF SimulationInv, simulate_fix
  <2>2. snapshot = [base |-> snapshot.base, ingress |-> snapshot.ingress,
                    egress |-> snapshot.egress]
        BY <2>1, WhatIfConstants DEF IsConfig
  <2>3. fixed.base = apply_fix(snapshot.base, c)
        BY <2>2
  <2>4. answer' = [to |-> "simulate_fix", control |-> c,
                   result |-> counterfactual(snapshot, fixed)]
        BY <1>4 DEF simulate_fix
  <2>5. /\ counterfactual(snapshot, fixed).violations_resolved =
               failed_ids(deny(snapshot.base)) \ failed_ids(deny(fixed.base))
        /\ counterfactual(snapshot, fixed).violations_introduced =
               failed_ids(deny(fixed.base)) \ failed_ids(deny(snapshot.base))
        BY DEF counterfactual
  <2> HIDE DEF fixed
  <2> QED BY <2>1, <2>3, <2>4, <2>5, DeniedFail DEF SimulationInv
<1>5. ASSUME NEW cur \in Supplied, NEW new \in Supplied, counterfactual_endpoint(cur, new)
      PROVE  SimulationInv'
      BY <1>5 DEF counterfactual_endpoint, SimulationInv
<1>6. CASE answered
      BY <1>6 DEF answered, SimulationInv, NoAnswer
<1> QED BY <1>1, <1>2, <1>3, <1>4, <1>5, <1>6 DEF Next

\* A simulated fix shows its own control resolved if it failed, and no other resolved or
\* broken, for every configuration a run can have.
THEOREM SimulatedFixesWork == Spec => []SimulatedFixWorks
<1>1. Init => SimulationInv
      BY SimulationInit
<1>2. SimulationInv /\ [Next]_vars => SimulationInv'
      BY SimulationStep
<1>3. SimulationInv => SimulatedFixWorks
  <2> SUFFICES ASSUME SimulationInv, answer.to = "simulate_fix"
               PROVE  /\ answer.result.violations_resolved =
                             Failing(snapshot.base) \cap {answer.control}
                      /\ answer.result.violations_introduced = {}
      BY DEF SimulatedFixWorks
  <2>1. snapshot.base \in Baseline /\ answer.control \in Control
        BY WhatIfConstants DEF SimulationInv, IsConfig
  <2>2. Failing(apply_fix(snapshot.base, answer.control)) =
            Failing(snapshot.base) \ {answer.control}
        BY <2>1, FixResolvesItsControl
  <2> QED BY <2>2 DEF SimulationInv
<1>4. QED
      BY <1>1, <1>2, <1>3, PTL DEF Spec

-----------------------------------------------------------------------------
(* The scores. A sum of weights is worth what its controls are, one by one. *)

\* A set of numbers has a smallest one.
LEMMA Smallest ==
    ASSUME NEW T \in SUBSET Nat, T # {}
    PROVE  \E i \in T : \A j \in T : i <= j
<1> DEFINE less == OpToRel(<, Nat)
<1>1. \A x \in Nat, y \in Nat : x < y => <<x, y>> \in less
      BY DEF OpToRel
<1>2. PICK x \in T : \A y \in T : ~(<<y, x>> \in less)
  <2> HIDE DEF less
  <2>1. IsWellFoundedOn(less, Nat)
        BY NatLessThanWellFounded DEF less
  <2> QED BY <2>1, WFMin
<1>3. \A y \in T : x <= y
  <2> HIDE DEF less
  <2>1. \A y \in T : y \in Nat /\ x \in Nat /\ ~(y < x)
        BY <1>1, <1>2
  <2> QED BY <2>1
<1> QED BY <1>3

Weight(c) == SEVERITY_WEIGHTS[Severity[c]]

\* What the controls of a set weigh together.
One(cs, c) == IF c \in cs THEN Weight(c) ELSE 0
Worth(cs) ==
    One(cs, "1.1.1") + One(cs, "1.1.2") + One(cs, "1.1.3") + One(cs, "1.2.1")
        + One(cs, "1.2.2") + One(cs, "1.3.1") + One(cs, "1.4.1") + One(cs, "1.5.1")
        + One(cs, "1.6.1") + One(cs, "1.7.1") + One(cs, "1.8.1")

LEMMA WeightIs ==
    /\ Weight("1.1.1") = 20
    /\ Weight("1.1.2") = 40
    /\ Weight("1.1.3") = 20
    /\ Weight("1.2.1") = 20
    /\ Weight("1.2.2") = 40
    /\ Weight("1.3.1") = 40
    /\ Weight("1.4.1") = 10
    /\ Weight("1.5.1") = 20
    /\ Weight("1.6.1") = 5
    /\ Weight("1.7.1") = 10
    /\ Weight("1.8.1") = 10
BY DEF Weight, Severity, SEVERITY_WEIGHTS, Control

\* A control adds its own weight, which is at least 5.
LEMMA WorthOfOneMore ==
    ASSUME NEW cs \in SUBSET Control, NEW c \in cs
    PROVE  /\ Worth(cs) = Weight(c) + Worth(cs \ {c})
           /\ Weight(c) \in Nat /\ Weight(c) >= 5
<1> USE WeightIs DEF Worth, One
<1>1. CASE c = "1.1.1"
      BY <1>1
<1>2. CASE c = "1.1.2"
      BY <1>2
<1>3. CASE c = "1.1.3"
      BY <1>3
<1>4. CASE c = "1.2.1"
      BY <1>4
<1>5. CASE c = "1.2.2"
      BY <1>5
<1>6. CASE c = "1.3.1"
      BY <1>6
<1>7. CASE c = "1.4.1"
      BY <1>7
<1>8. CASE c = "1.5.1"
      BY <1>8
<1>9. CASE c = "1.6.1"
      BY <1>9
<1>10. CASE c = "1.7.1"
      BY <1>10
<1>11. CASE c = "1.8.1"
      BY <1>11
<1> QED BY <1>1, <1>2, <1>3, <1>4, <1>5, <1>6, <1>7, <1>8, <1>9, <1>10, <1>11 DEF Control

LEMMA WorthOf ==
    /\ Worth({}) = 0 /\ Worth(Control) = 235
    /\ \A cs \in SUBSET Control : /\ Worth(cs) \in 0 .. 235
                                  /\ Worth(Control \ cs) = 235 - Worth(cs)
<1> USE WeightIs DEF Worth, One, Control
<1>1. Worth({}) = 0 /\ Worth(Control) = 235
      OBVIOUS
<1>2. ASSUME NEW cs \in SUBSET Control PROVE Worth(cs) \in 0 .. 235
      OBVIOUS
<1>3. ASSUME NEW cs \in SUBSET Control PROVE Worth(Control \ cs) = 235 - Worth(cs)
      OBVIOUS
<1> QED BY <1>1, <1>2, <1>3

\* g sums the weights over all subsets of cs, taking one element after another.
Sums(g, cs) ==
    g = [s \in SUBSET cs |-> IF s = {} THEN 0
                             ELSE LET x == CHOOSE y \in s : TRUE
                                  IN  SEVERITY_WEIGHTS[Severity[x]] + g[s \ {x}]]

\* The sum the scores are made of is the worth of its controls. A smallest set of which
\* this were false would have an element to take away.
LEMMA WeightsAre ==
    ASSUME NEW cs \in SUBSET Control
    PROVE  Weights(Severity, cs) = Worth(cs)
<1>1. \E h : Sums(h, cs)
  <2> DEFINE h == [s \in SUBSET cs |-> Worth(s)]
  <2>1. ASSUME NEW s \in SUBSET cs, s # {}
        PROVE  LET x == CHOOSE y \in s : TRUE
               IN  Worth(s) = SEVERITY_WEIGHTS[Severity[x]] + h[s \ {x}]
    <3>1. PICK x : x = CHOOSE y \in s : TRUE
          OBVIOUS
    <3>2. x \in s /\ s \in SUBSET Control
          BY <2>1, <3>1
    <3>3. Worth(s) = Weight(x) + Worth(s \ {x}) /\ h[s \ {x}] = Worth(s \ {x})
          BY <3>2, WorthOfOneMore
    <3> HIDE DEF h
    <3> QED BY <3>1, <3>3 DEF Weight
  <2>2. Worth({}) = 0
        BY WorthOf
  <2>3. \A s \in SUBSET cs : h[s] = IF s = {} THEN 0
                                ELSE LET x == CHOOSE y \in s : TRUE
                                     IN  SEVERITY_WEIGHTS[Severity[x]] + h[s \ {x}]
        BY <2>1, <2>2
  <2>4. h = [s \in SUBSET cs |-> h[s]]
        OBVIOUS
  <2>5. Sums(h, cs)
    <3> HIDE DEF h
    <3> QED BY <2>3, <2>4 DEF Sums
  <2> QED BY <2>5
<1> DEFINE g == CHOOSE h : Sums(h, cs)
<1>2. Weights(Severity, cs) = g[cs]
      BY DEF Weights, MapThenSumSet, MapThenFoldSet, Sums
<1>3. Sums(g, cs)
      BY <1>1
<1> HIDE DEF g
<1>4. \A s \in SUBSET cs : g[s] = IF s = {} THEN 0
                              ELSE LET x == CHOOSE y \in s : TRUE
                                   IN  SEVERITY_WEIGHTS[Severity[x]] + g[s \ {x}]
      BY <1>3 DEF Sums
<1> DEFINE T == {Worth(s) : s \in {t \in SUBSET cs : g[t] # Worth(t)}}
<1>5. ASSUME T # {} PROVE FALSE
  <2>1. T \in SUBSET Nat
    <3>1. ASSUME NEW s \in SUBSET cs PROVE Worth(s) \in Nat
      <4>1. Worth(s) \in 0 .. 235
            BY WorthOf
      <4> QED BY <4>1
    <3>2. ASSUME NEW n \in T PROVE n \in Nat
      <4>1. PICK s \in SUBSET cs : n = Worth(s)
            OBVIOUS
      <4> QED BY <3>1, <4>1
    <3> HIDE DEF T
    <3> QED BY <3>2
  <2>2. PICK n \in T : \A j \in T : n <= j
    <3> HIDE DEF T
    <3> QED BY <1>5, <2>1, Smallest
  <2>3. PICK s \in SUBSET cs : n = Worth(s) /\ g[s] # Worth(s)
        BY <2>2
  <2>4. s # {}
        BY <1>4, <2>3, WorthOf
  <2>5. PICK x : x = CHOOSE y \in s : TRUE
        OBVIOUS
  <2>6. x \in s /\ s \in SUBSET Control /\ s \ {x} \in SUBSET cs
        BY <2>4, <2>5
  <2>7. g[s] = Weight(x) + g[s \ {x}]
        BY <1>4, <2>4, <2>5 DEF Weight
  <2>8. /\ Worth(s) = Weight(x) + Worth(s \ {x})
        /\ Weight(x) \in Nat /\ Weight(x) >= 5
        BY <2>6, WorthOfOneMore
  <2>9. Worth(s \ {x}) \in T
        BY <2>3, <2>6, <2>7, <2>8
  <2>10. Worth(s \ {x}) \in Nat
        BY <2>1, <2>9
  <2> HIDE DEF T
  <2> QED BY <2>2, <2>3, <2>8, <2>9, <2>10
<1> QED BY <1>2, <1>5

\* The score of a device on which the controls of cs fail.
Score(cs) == (200 * (235 - Worth(cs)) + 235) \div 470

LEMMA ScoreIs ==
    ASSUME NEW findings, failed_ids(findings) \in SUBSET Control
    PROVE  summarize(findings).compliance_score = Score(failed_ids(findings))
<1> DEFINE failed == failed_ids(findings)
<1>1. CONTROL_CATALOG = Severity /\ DOMAIN CONTROL_CATALOG = Control
      BY DEF CONTROL_CATALOG, Severity
<1>2. failed \ Control = {}
      OBVIOUS
<1>3. /\ Weights(Severity, Control \ failed) = 235 - Worth(failed)
      /\ Weights(Severity, Control) = 235
      /\ Weights(Severity, {}) = 0
      BY WeightsAre, WorthOf
<1>4. MapThenSumSet(LAMBDA c : SEVERITY_WEIGHTS[Severity[c]], {}) = Weights(Severity, {})
      BY DEF Weights
<1>5. summarize(findings).compliance_score = ComplianceScore(CONTROL_CATALOG, findings)
      BY DEF summarize, Summary
<1>6. ComplianceScore(CONTROL_CATALOG, findings) =
          Percent(Weights(Severity, Control \ failed),
                  Weights(Severity, Control)
                      + MapThenSumSet(LAMBDA c : SEVERITY_WEIGHTS[Severity[c]], failed \ Control))
      BY <1>1 DEF ComplianceScore
<1>7. @ = Percent(235 - Worth(failed), 235 + 0)
      BY <1>2, <1>3, <1>4
<1> QED BY <1>5, <1>6, <1>7, WorthOf DEF Percent, Score

\* The weights of a set and of the same set without one of its controls.
LEMMA WorthOfOneLess ==
    ASSUME NEW cs \in SUBSET Control, NEW c \in cs
    PROVE  Worth(cs \ {c}) \in 0 .. 235 /\ Worth(cs \ {c}) <= Worth(cs) - 5
<1>1. cs \ {c} \in SUBSET Control
      OBVIOUS
<1>2. Worth(cs \ {c}) \in 0 .. 235 /\ Worth(cs) \in 0 .. 235
      BY <1>1, WorthOf
<1>3. Worth(cs) = Weight(c) + Worth(cs \ {c}) /\ Weight(c) \in Nat /\ Weight(c) >= 5
      BY WorthOfOneMore
<1> QED BY <1>2, <1>3

\* Five of the 235 points of weight are never lost in the rounding.
LEMMA Rounded ==
    ASSUME NEW a \in 0 .. 235, NEW b \in 0 .. 235, b <= a - 5
    PROVE  (200 * (235 - b) + 235) \div 470 > (200 * (235 - a) + 235) \div 470
OBVIOUS

\* A device on which nothing fails scores 100, and a control less that fails is worth a
\* point at least: the rounding hides none.
LEMMA Scores ==
    ASSUME NEW cs \in SUBSET Control
    PROVE  /\ Score(cs) \in Int
           /\ Score(cs) = 100 <=> cs = {}
           /\ \A c \in cs : Score(cs \ {c}) > Score(cs)
<1>1. Worth(cs) \in 0 .. 235 /\ Worth({}) = 0
      BY WorthOf
<1>2. ASSUME NEW c \in cs PROVE Score(cs \ {c}) > Score(cs)
  <2>1. Worth(cs \ {c}) \in 0 .. 235 /\ Worth(cs \ {c}) <= Worth(cs) - 5
        BY WorthOfOneLess
  <2>2. PICK a \in 0 .. 235, b \in 0 .. 235 : a = Worth(cs) /\ b = Worth(cs \ {c})
        BY <1>1, <2>1
  <2>3. (200 * (235 - b) + 235) \div 470 > (200 * (235 - a) + 235) \div 470
        BY <2>1, <2>2, Rounded
  <2> QED BY <2>2, <2>3 DEF Score
<1>3. Score({}) = 100
      BY <1>1 DEF Score
<1>4. ASSUME cs # {} PROVE Score(cs) # 100
  <2>1. PICK c \in cs : TRUE
        BY <1>4
  <2>2. Worth(cs \ {c}) \in 0 .. 235 /\ Worth(cs \ {c}) <= Worth(cs) - 5
        BY WorthOfOneLess
  <2>3. Worth(cs) >= 5
        BY <1>1, <2>2
  <2> QED BY <1>1, <2>3 DEF Score
<1>5. Score(cs) \in Int
      BY <1>1 DEF Score
<1> QED BY <1>2, <1>3, <1>4, <1>5

\* The two services summarize the same findings alike.
LEMMA SummariesAgree ==
    ASSUME NEW findings
    PROVE  summarize(findings) = reporting_summarize(findings)
<1>1. CONTROL_CATALOG = reporting_CONTROL_CATALOG
      BY DEF CONTROL_CATALOG, reporting_CONTROL_CATALOG
<1> QED BY <1>1 DEF summarize, reporting_summarize

-----------------------------------------------------------------------------
\* The rows of an evaluated run are what the bundle denies, and a summary that is waited
\* for is of the rows that are stored.
SummaryInv ==
    /\ status = "EVALUATED" => failed_ids(rows) \in SUBSET Control
    /\ answer.to = "get_audit_run" =>
        /\ answer.summary = IF status = "EVALUATED" THEN summarize(rows) ELSE not_evaluated
        /\ answer.report = IF status = "EVALUATED" THEN reporting_summarize(rows)
                           ELSE not_evaluated

LEMMA SummaryStep ==
    ASSUME SummaryInv, [Next]_vars
    PROVE  SummaryInv'
<1>1. CASE UNCHANGED vars
      BY <1>1 DEF SummaryInv, vars
<1>2. ASSUME NEW g \in Uploaded, evaluate(g) PROVE SummaryInv'
  <2>1. failed_ids(deny(g.base)) \in SUBSET Control
        BY DeniedFail DEF Failing
  <2>2. answer'.to = "evaluate"
        BY <1>2 DEF evaluate
  <2>3. CASE rows' = deny(g.base)
        BY <2>1, <2>2, <2>3 DEF SummaryInv
  <2>4. CASE UNCHANGED <<rows, status>>
        BY <2>2, <2>4 DEF SummaryInv
  <2> QED BY <1>2, <2>3, <2>4 DEF evaluate
<1>3. CASE get_audit_run
      BY <1>3 DEF get_audit_run, SummaryInv
<1>4. ASSUME NEW c \in Control, simulate_fix(c) PROVE SummaryInv'
      BY <1>4 DEF simulate_fix, SummaryInv
<1>5. ASSUME NEW cur \in Supplied, NEW new \in Supplied, counterfactual_endpoint(cur, new)
      PROVE  SummaryInv'
      BY <1>5 DEF counterfactual_endpoint, SummaryInv
<1>6. CASE answered
      BY <1>6 DEF answered, SummaryInv, NoAnswer
<1> QED BY <1>1, <1>2, <1>3, <1>4, <1>5, <1>6 DEF Next

\* The dashboard and the report of a run show the same summary, and the score is 100
\* exactly when the run was evaluated and nothing failed, however many findings there are.
THEOREM DashboardsMatchReports == Spec => []DashboardMatchesReport
<1>1. Init => SummaryInv
      BY DEF Init, SummaryInv, NoAnswer
<1>2. SummaryInv /\ [Next]_vars => SummaryInv'
      BY SummaryStep
<1>3. SummaryInv => DashboardMatchesReport
  <2> SUFFICES ASSUME SummaryInv, answer.to = "get_audit_run"
               PROVE  /\ answer.summary = answer.report
                      /\ answer.summary.compliance_score = 100
                             <=> status = "EVALUATED" /\ rows = {}
      BY DEF DashboardMatchesReport
  <2>1. CASE status # "EVALUATED"
        BY <2>1, WhatIfConstants DEF SummaryInv, not_evaluated
  <2>2. CASE status = "EVALUATED"
    <3>1. failed_ids(rows) \in SUBSET Control
          BY <2>2 DEF SummaryInv
    <3>2. answer.summary.compliance_score = Score(failed_ids(rows))
          BY <2>2, <3>1, ScoreIs DEF SummaryInv
    <3>3. failed_ids(rows) = {} <=> rows = {}
          BY DEF failed_ids
    <3>4. answer.summary = answer.report
          BY <2>2, SummariesAgree DEF SummaryInv
    <3> QED BY <2>2, <3>1, <3>2, <3>3, <3>4, Scores
  <2> QED BY <2>1, <2>2
<1>4. QED
      BY <1>1, <1>2, <1>3, PTL DEF Spec

-----------------------------------------------------------------------------
(* The verdict on a change.                                                *)

\* The score of a baseline is that of the controls that fail on it.
LEMMA ScoreOf ==
    ASSUME NEW b
    PROVE  /\ summarize(deny(b)).compliance_score = Score(Failing(b))
           /\ Failing(b) \in SUBSET Control
<1>1. Failing(b) \in SUBSET Control
      BY DEF Failing
<1> QED BY <1>1, DeniedFail, ScoreIs

\* What a comparison answers.
LEMMA ComparisonIs ==
    ASSUME NEW cur, NEW new
    PROVE  LET result == counterfactual(cur, new)
               delta == Score(Failing(new.base)) - Score(Failing(cur.base))
               opens == opens_new_access(cur, new)
           IN  /\ delta \in Int
               /\ result.compliance_delta = delta
               /\ result.violations_resolved = Failing(cur.base) \ Failing(new.base)
               /\ result.risk = introduced_risk_tier(Failing(new.base) \ Failing(cur.base),
                                                     opens, delta < 0)
               /\ result.verdict = IF delta < 0 \/ opens THEN "RISK_FLAG" ELSE "SAFE"
<1>1. Score(Failing(new.base)) \in Int /\ Score(Failing(cur.base)) \in Int
      BY ScoreOf, Scores
<1>2. /\ summarize(deny(new.base)).compliance_score = Score(Failing(new.base))
      /\ summarize(deny(cur.base)).compliance_score = Score(Failing(cur.base))
      /\ failed_ids(deny(new.base)) = Failing(new.base)
      /\ failed_ids(deny(cur.base)) = Failing(cur.base)
      BY ScoreOf, DeniedFail
<1> HIDE DEF Score
<1> QED BY <1>1, <1>2 DEF counterfactual

\* A change that opens access or lowers the score is of more than low risk, and one that
\* does neither and breaks nothing is of low risk.
LEMMA Risk ==
    ASSUME NEW introduced, NEW opens, NEW regressed
    PROVE  /\ opens \/ regressed => introduced_risk_tier(introduced, opens, regressed) # "LOW"
           /\ introduced = {} /\ ~opens /\ ~regressed =>
                  introduced_risk_tier(introduced, opens, regressed) = "LOW"
<1> DEFINE found == {Severity[c] : c \in introduced}
           worst == found \cap {"CRITICAL", "HIGH"} # {}
           middle == "MEDIUM" \in found \/ regressed
           tier == CASE worst -> 3
                     [] ~worst /\ middle -> 2
                     [] OTHER -> 1
<1>1. introduced_risk_tier(introduced, opens, regressed) =
          Tiers[IF opens /\ tier < 3 THEN tier + 1 ELSE tier]
      BY DEF introduced_risk_tier
<1>2. introduced = {} /\ ~regressed => ~worst /\ ~middle
      OBVIOUS
<1>3. regressed => middle
      OBVIOUS
<1>4. Tiers[1] = "LOW" /\ Tiers[2] = "MEDIUM" /\ Tiers[3] = "HIGH"
      BY DEF Tiers
<1> HIDE DEF worst, middle
<1>5. tier \in {1, 2, 3} /\ (worst => tier = 3) /\ (~worst /\ middle => tier = 2)
          /\ (~worst /\ ~middle => tier = 1)
      OBVIOUS
<1> HIDE DEF tier
<1> QED BY <1>1, <1>2, <1>3, <1>4, <1>5

\* A list that permits no more keys lets no more packets through, if the denies that stood
\* in front of its permits still do.
LEMMA ClosedSide ==
    ASSUME NEW before \in Seq(Entry), NEW after \in Seq(Entry),
           diff_side(before, after).newly_permitted = {},
           DeniesStand(before, after)
    PROVE  OpensNothing(before, after)
<1>1. /\ DOMAIN before \in SUBSET Nat
      /\ \A i \in DOMAIN before : \A h : h \in 1 .. (i - 1) => h \in DOMAIN before
      /\ DOMAIN after \in SUBSET Nat
      OBVIOUS
<1>2. permitted(after) \subseteq permitted(before)
      BY DEF diff_side
<1>3. SUFFICES ASSUME NEW p \in lets_through(after) PROVE p \in lets_through(before)
      BY DEF OpensNothing
<1>4. PICK i \in permits(after) :
          matches(after[i], p) /\ \A h \in 1 .. (i - 1) : ~matches(after[h], p)
      BY DEF lets_through
<1>5. p \in Packet
      BY DEF lets_through
<1>6. PICK k \in permits(before) : flow_key(before[k]) = flow_key(after[i])
      BY <1>2, <1>4 DEF permitted
<1> DEFINE T == {j \in DOMAIN before : matches(before[j], p)}
\* Every permit of that key matches the packet, so that some entry of the old list does.
<1>7. \A j \in permits(before) : flow_key(before[j]) = flow_key(after[i]) => j \in T
      BY <1>4 DEF matches, permits
<1>8. PICK j \in T : \A l \in T : j <= l
  <2>1. T \in SUBSET Nat /\ T # {}
        BY <1>1, <1>6, <1>7
  <2> HIDE DEF T
  <2> QED BY <2>1, Smallest
<1>9. \A h \in 1 .. (j - 1) : ~matches(before[h], p)
      BY <1>1, <1>8
<1>10. CASE j \in permits(before)
      BY <1>5, <1>8, <1>9, <1>10 DEF lets_through
<1>11. CASE j \notin permits(before)
  <2>1. \A l \in permits(before) : flow_key(before[l]) = flow_key(after[i]) => j < l
        BY <1>1, <1>7, <1>8, <1>11
  <2>2. matches(before[j], p) /\ j \in DOMAIN before \ permits(before)
        BY <1>8, <1>11
  <2>3. PICK h \in 1 .. (i - 1) : flow_key(after[h]) = flow_key(before[j])
        BY <1>4, <1>5, <2>1, <2>2 DEF DeniesStand
  <2>4. matches(after[h], p)
        BY <2>2, <2>3 DEF matches
  <2> QED BY <1>4, <2>4
<1> QED BY <1>10, <1>11

\* The verdict on two configurations.
LEMMA Compared ==
    ASSUME NEW cur, IsConfig(cur), NEW new, IsConfig(new)
    PROVE  LET result == counterfactual(cur, new) IN
           \/ result.verdict = "RISK_FLAG" /\ result.risk # "LOW"
           \/ /\ result.verdict = "SAFE"
              /\ DeniesStand(cur.ingress, new.ingress) => OpensNothing(cur.ingress, new.ingress)
              /\ DeniesStand(cur.egress, new.egress) => OpensNothing(cur.egress, new.egress)
              /\ result.compliance_delta >= 0
<1> DEFINE result == counterfactual(cur, new)
           delta == Score(Failing(new.base)) - Score(Failing(cur.base))
           opens == opens_new_access(cur, new)
<1>1. /\ delta \in Int
      /\ result.compliance_delta = delta
      /\ result.risk = introduced_risk_tier(Failing(new.base) \ Failing(cur.base),
                                            opens, delta < 0)
      /\ result.verdict = IF delta < 0 \/ opens THEN "RISK_FLAG" ELSE "SAFE"
      BY ComparisonIs
<1>2. opens \in BOOLEAN
      BY DEF opens_new_access
<1>3. ~opens => /\ diff_side(cur.ingress, new.ingress).newly_permitted = {}
                /\ diff_side(cur.egress, new.egress).newly_permitted = {}
      BY DEF opens_new_access
<1> HIDE DEF result, delta, opens
<1>4. CASE delta < 0 \/ opens
  <2>1. result.risk # "LOW"
    <3> DEFINE lower == delta < 0
    <3>1. lower \in BOOLEAN
          OBVIOUS
    <3>2. opens \/ lower
          BY <1>4
    <3>3. result.risk = introduced_risk_tier(Failing(new.base) \ Failing(cur.base), opens, lower)
          BY <1>1
    <3> HIDE DEF lower
    <3>4. opens \/ lower =>
              introduced_risk_tier(Failing(new.base) \ Failing(cur.base), opens, lower) # "LOW"
          BY Risk
    <3> QED BY <3>2, <3>3, <3>4
  <2> QED BY <1>1, <1>4, <2>1 DEF result
<1>5. CASE ~(delta < 0) /\ ~opens
  <2>1. result.verdict = "SAFE" /\ result.compliance_delta >= 0
        BY <1>1, <1>5
  <2>2. /\ DeniesStand(cur.ingress, new.ingress) => OpensNothing(cur.ingress, new.ingress)
        /\ DeniesStand(cur.egress, new.egress) => OpensNothing(cur.egress, new.egress)
        BY <1>3, <1>5, ClosedSide DEF IsConfig
  <2> QED BY <2>1, <2>2 DEF result
<1> QED BY <1>4, <1>5

\* The verdict on the fix of a control of some configuration.
LEMMA Simulated ==
    ASSUME NEW g, IsConfig(g), NEW c \in Control
    PROVE  LET result == counterfactual(g, [g EXCEPT !.base = apply_fix(g.base, c)]) IN
           /\ result.verdict = "SAFE" /\ result.risk = "LOW"
           /\ result.compliance_delta > 0 <=> result.violations_resolved # {}
<1> DEFINE fixed == [g EXCEPT !.base = apply_fix(g.base, c)]
           result == counterfactual(g, fixed)
           delta == Score(Failing(fixed.base)) - Score(Failing(g.base))
           opens == opens_new_access(g, fixed)
<1>1. /\ fixed.base = apply_fix(g.base, c)
      /\ fixed.ingress = g.ingress /\ fixed.egress = g.egress
  <2>1. g = [base |-> g.base, ingress |-> g.ingress, egress |-> g.egress]
        BY DEF IsConfig
  <2> QED BY <2>1
<1>2. Failing(fixed.base) = Failing(g.base) \ {c}
      BY <1>1, FixResolvesItsControl DEF IsConfig
<1>3. ~opens
      BY <1>1 DEF opens_new_access, diff_side
<1>4. /\ delta \in Int
      /\ result.compliance_delta = delta
      /\ result.violations_resolved = Failing(g.base) \ Failing(fixed.base)
      /\ result.risk = introduced_risk_tier(Failing(fixed.base) \ Failing(g.base),
                                            opens, delta < 0)
      /\ result.verdict = IF delta < 0 \/ opens THEN "RISK_FLAG" ELSE "SAFE"
  <2> HIDE DEF fixed
  <2> QED BY ComparisonIs
<1>5. Failing(g.base) \in SUBSET Control
      BY ScoreOf
<1>6. /\ delta >= 0
      /\ delta > 0 <=> c \in Failing(g.base)
  <2>1. CASE c \in Failing(g.base)
    <3>1. /\ Score(Failing(g.base) \ {c}) > Score(Failing(g.base))
          /\ Score(Failing(g.base) \ {c}) \in Int /\ Score(Failing(g.base)) \in Int
      <4>1. Failing(g.base) \ {c} \in SUBSET Control
            BY <1>5
      <4> QED BY <1>5, <2>1, <4>1, Scores
    <3> HIDE DEF fixed
    <3> QED BY <1>2, <2>1, <3>1
  <2>2. CASE c \notin Failing(g.base)
    <3>1. Failing(fixed.base) = Failing(g.base)
      <4> HIDE DEF fixed
      <4> QED BY <1>2, <2>2
    <3>2. Score(Failing(g.base)) \in Int
          BY <1>5, Scores
    <3> HIDE DEF fixed
    <3> QED BY <2>2, <3>1, <3>2
  <2> QED BY <2>1, <2>2
<1>7. opens \in BOOLEAN
      BY DEF opens_new_access
<1>8. /\ Failing(fixed.base) \ Failing(g.base) = {}
      /\ Failing(g.base) \ Failing(fixed.base) # {} <=> c \in Failing(g.base)
  <2> HIDE DEF fixed
  <2> QED BY <1>2
<1> HIDE DEF opens, delta, fixed
<1>9. ~(delta < 0)
      BY <1>4, <1>6
<1>10. result.risk = "LOW" /\ result.verdict = "SAFE"
  <2> HIDE DEF result
  <2> QED BY <1>3, <1>4, <1>7, <1>8, <1>9, Risk
<1>11. result.compliance_delta > 0 <=> result.violations_resolved # {}
  <2> HIDE DEF result
  <2> QED BY <1>4, <1>6, <1>8
<1> QED BY <1>10, <1>11 DEF fixed

\* The verdicts that are waited for are about configurations of callers, and of the run.
VerdictInv ==
    /\ snapshot \in Uploaded \cup {Nothing}
    /\ answer.to = "counterfactual" =>
        /\ answer.cur \in Supplied /\ answer.new \in Supplied
        /\ answer.result = counterfactual(answer.cur, answer.new)
    /\ answer.to = "simulate_fix" =>
        /\ snapshot \in Uploaded
        /\ answer.control \in Control
        /\ answer.result = counterfactual(snapshot,
               [snapshot EXCEPT !.base = apply_fix(snapshot.base, answer.control)])

LEMMA VerdictStep ==
    ASSUME VerdictInv, [Next]_vars
    PROVE  VerdictInv'
<1>1. CASE UNCHANGED vars
      BY <1>1 DEF VerdictInv, vars
<1>2. ASSUME NEW g \in Uploaded, evaluate(g) PROVE VerdictInv'
      BY <1>2 DEF evaluate, VerdictInv
<1>3. CASE get_audit_run
      BY <1>3 DEF get_audit_run, VerdictInv
<1>4. ASSUME NEW c \in Control, simulate_fix(c) PROVE VerdictInv'
      BY <1>4 DEF simulate_fix, VerdictInv
<1>5. ASSUME NEW cur \in Supplied, NEW new \in Supplied, counterfactual_endpoint(cur, new)
      PROVE  VerdictInv'
      BY <1>5 DEF counterfactual_endpoint, VerdictInv
<1>6. CASE answered
      BY <1>6 DEF answered, VerdictInv, NoAnswer
<1> QED BY <1>1, <1>2, <1>3, <1>4, <1>5, <1>6 DEF Next

\* SAFE is said of a change only if the score is no lower and no list lets a new packet
\* through (unless a deny that stood in front of a permit is taken away), what is flagged is
\* never of low risk, and a fix is SAFE and earns points exactly when it resolves something:
\* for all configurations and lists.
THEOREM VerdictsAreEarned == Spec => []VerdictIsEarned
<1>1. Init => VerdictInv
      BY DEF Init, VerdictInv, NoAnswer
<1>2. VerdictInv /\ [Next]_vars => VerdictInv'
      BY VerdictStep
<1>3. VerdictInv => VerdictIsEarned
  <2> SUFFICES ASSUME VerdictInv PROVE VerdictIsEarned
      OBVIOUS
  <2>1. ASSUME answer.to = "counterfactual"
        PROVE  \/ answer.result.verdict = "RISK_FLAG" /\ answer.result.risk # "LOW"
               \/ /\ answer.result.verdict = "SAFE"
                  /\ DeniesStand(answer.cur.ingress, answer.new.ingress) =>
                         OpensNothing(answer.cur.ingress, answer.new.ingress)
                  /\ DeniesStand(answer.cur.egress, answer.new.egress) =>
                         OpensNothing(answer.cur.egress, answer.new.egress)
                  /\ answer.result.compliance_delta >= 0
    <3>1. /\ answer.cur \in Supplied /\ answer.new \in Supplied
          /\ answer.result = counterfactual(answer.cur, answer.new)
          BY <2>1 DEF VerdictInv
    <3>2. IsConfig(answer.cur) /\ IsConfig(answer.new)
          BY <3>1, WhatIfConstants
    <3> QED BY <3>1, <3>2, Compared
  <2>2. ASSUME answer.to = "simulate_fix"
        PROVE  /\ answer.result.verdict = "SAFE" /\ answer.result.risk = "LOW"
               /\ answer.result.compliance_delta > 0 <=> answer.result.violations_resolved # {}
    <3>1. /\ snapshot \in Uploaded
          /\ answer.control \in Control
          /\ answer.result = counterfactual(snapshot,
                 [snapshot EXCEPT !.base = apply_fix(snapshot.base, answer.control)])
          BY <2>2 DEF VerdictInv
    <3>2. IsConfig(snapshot)
          BY <3>1, WhatIfConstants
    <3> QED BY <3>1, <3>2, Simulated
  <2> QED BY <2>1, <2>2 DEF VerdictIsEarned
<1>4. QED
      BY <1>1, <1>2, <1>3, PTL DEF Spec

=============================================================================

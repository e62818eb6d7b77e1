------------------------------- MODULE Policy -------------------------------
(***************************************************************************)
(* The compliance verdict on one normalized baseline: the rules of the     *)
(* generic Level 1 bundle (generic_level1.rego), the scores both services  *)
(* compute from its findings (risk_scorer.py, scoring.py) and the fix      *)
(* simulation that claims to satisfy each rule (fix_simulation.py).        *)
(***************************************************************************)
EXTENDS Integers, FiniteSets, FiniteSetsExt

CONSTANTS
    Community,  \* SNMP community strings
    Default,    \* those that are "public" or "private" whatever their case
    PolicyId,   \* policy_id of the IKE policies
    Host,       \* syslog hosts
    Acl         \* names of access lists

ASSUME PolicyConstants == Default \subseteq Community

Absent == "null"    \* the value of a field the parser did not see
ProtocolStatus == {"ENABLED", "DISABLED", "UNKNOWN"}
Encryptions == {"DES", "3DES", "AES128", "AES256", "CHACHA20", "NONE", "UNKNOWN"}
Weak == {"DES", "3DES"}

\* The fields of a SecurityBaseline the rules read; the fix of CIS-NET-1.8.1 writes its
\* own host and that of CIS-NET-1.1.3 its own list.
Baseline == [
    ssh_enabled : BOOLEAN, ssh_version : {"none", "1", "1-2", "2"},
    management_acl : Acl \cup {Absent, "", "MGMT-ONLY"},
    telnet : ProtocolStatus,
    snmp_enabled : BOOLEAN, snmp_version : {"none", "v1", "v2c", "v3"},
    community_strings : SUBSET Community,
    ike_policies : SUBSET [policy_id : PolicyId, encryption : Encryptions],
    ntp_enabled : BOOLEAN, ntp_authentication : BOOLEAN,
    password_encryption : ProtocolStatus,
    login_banner : BOOLEAN,
    http_server : ProtocolStatus,
    syslog_enabled : BOOLEAN, syslog_hosts : SUBSET (Host \cup {"remote-syslog"})]

Control == {"1.1.1", "1.1.2", "1.1.3", "1.2.1", "1.2.2", "1.3.1",
            "1.4.1", "1.5.1", "1.6.1", "1.7.1", "1.8.1"}

-----------------------------------------------------------------------------
(* The bundle. A rule holds once for everything that breaks it, and the    *)
(* evidence is part of the finding.                                        *)

is_blank(value) == value \in {Absent, ""}

remote_logging_configured(b) == b.syslog_enabled /\ b.syslog_hosts # {}

ill_communities(b) == b.community_strings \cap Default
weak_policies(b) == {p \in b.ike_policies : p.encryption \in Weak}

Once(condition) == IF condition THEN {"FAIL"} ELSE {}

evidence(c, b) ==
    CASE c = "1.1.1" -> Once(b.ssh_version \notin {"none", "2"})
      [] c = "1.1.2" -> Once(b.telnet = "ENABLED")
      [] c = "1.1.3" -> Once(b.ssh_enabled /\ is_blank(b.management_acl))
      [] c = "1.2.1" -> Once(b.snmp_enabled /\ b.snmp_version \in {"v1", "v2c"})
      [] c = "1.2.2" -> ill_communities(b)
      [] c = "1.3.1" -> weak_policies(b)
      [] c = "1.4.1" -> Once(b.ntp_enabled /\ ~b.ntp_authentication)
      [] c = "1.5.1" -> Once(b.password_encryption = "DISABLED")
      [] c = "1.6.1" -> Once(~b.login_banner)
      [] c = "1.7.1" -> Once(b.http_server = "ENABLED")
      [] c = "1.8.1" -> Once(~remote_logging_configured(b))

Severity == [c \in Control |->
    CASE c \in {"1.1.2", "1.2.2", "1.3.1"} -> "CRITICAL"
      [] c \in {"1.1.1", "1.1.3", "1.2.1", "1.5.1"} -> "HIGH"
      [] c \in {"1.4.1", "1.7.1", "1.8.1"} -> "MEDIUM"
      [] c = "1.6.1" -> "LOW"]

\* What evaluate returns: the deny set of the bundle.
deny(b) == UNION {{[control_id |-> c, evidence |-> e] : e \in evidence(c, b)} : c \in Control}

failed_ids(findings) == {f.control_id : f \in findings}
Failing(b) == {c \in Control : evidence(c, b) # {}}

-----------------------------------------------------------------------------
(* risk_scorer.py and its copy in reporting, scoring.py.                   *)

SEVERITY_WEIGHTS == [s \in {"CRITICAL", "HIGH", "MEDIUM", "LOW"} |->
    CASE s = "CRITICAL" -> 40 [] s = "HIGH" -> 20 [] s = "MEDIUM" -> 10 [] s = "LOW" -> 5]

score_finding(f) == SEVERITY_WEIGHTS[Severity[f.control_id]]

\* The two catalogs, with the severities they mirror from the bundle.
CONTROL_CATALOG == [c \in Control |->
    CASE c \in {"1.1.2", "1.2.2", "1.3.1"} -> "CRITICAL"
      [] c \in {"1.1.1", "1.1.3", "1.2.1", "1.5.1"} -> "HIGH"
      [] c \in {"1.4.1", "1.7.1", "1.8.1"} -> "MEDIUM"
      [] c = "1.6.1" -> "LOW"]

\* MUTANT: a control added to the bundle and to one catalog only.
stale_CONTROL_CATALOG == [c \in Control \ {"1.8.1"} |-> CONTROL_CATALOG[c]]

reporting_CONTROL_CATALOG == [c \in Control |->
    CASE c \in {"1.1.2", "1.2.2", "1.3.1"} -> "CRITICAL"
      [] c \in {"1.1.1", "1.1.3", "1.2.1", "1.5.1"} -> "HIGH"
      [] c \in {"1.4.1", "1.7.1", "1.8.1"} -> "MEDIUM"
      [] c = "1.6.1" -> "LOW"]

Weights(catalog, cs) == MapThenSumSet(LAMBDA c : SEVERITY_WEIGHTS[catalog[c]], cs)

\* round(100 * passed / total); no total of these weights makes it a tie.
Percent(passed, total) == (200 * passed + total) \div (2 * total)

\* The weighted share of the catalog that no finding is about; a control outside of it
\* counts against the device at its own weight.
ComplianceScore(catalog, findings) ==
    LET failed == failed_ids(findings)
        known == DOMAIN catalog
        unlisted == MapThenSumSet(LAMBDA c : SEVERITY_WEIGHTS[Severity[c]], failed \ known)
    IN  Percent(Weights(catalog, known \ failed), Weights(catalog, known) + unlisted)

\* summarize, in either service; the risk is summed over the findings.
Summary(catalog, findings) ==
    LET failed == failed_ids(findings)
        evaluated == Cardinality(DOMAIN catalog \cup failed)
    IN  [total_findings |-> Cardinality(findings),
         risk_score |-> FoldSet(LAMBDA f, n : n + score_finding(f), 0, findings),
         compliance_score |-> ComplianceScore(catalog, findings),
         controls_evaluated |-> evaluated,
         controls_passed |-> evaluated - Cardinality(failed)]

summarize(findings) == Summary(CONTROL_CATALOG, findings)
reporting_summarize(findings) == Summary(reporting_CONTROL_CATALOG, findings)

-----------------------------------------------------------------------------
(* fix_simulation.py: the baseline with one control fixed.                 *)

strengthened(p) == IF p.encryption \in Weak THEN [p EXCEPT !.encryption = "AES256"] ELSE p

\* MUTANTS of the table: a fix that turns the service off, or sets half of its rule.
half_fix(b, c) ==
    CASE c = "1.8.1" -> [b EXCEPT !.syslog_enabled = TRUE]
      [] c = "1.1.3" -> [b EXCEPT !.management_acl = "MGMT-ONLY"]
      [] OTHER -> b

apply_fix(b, c) ==
    CASE c = "1.1.1" -> [b EXCEPT !.ssh_version = "2"]
      [] c = "1.1.2" -> [b EXCEPT !.telnet = "DISABLED"]
      [] c = "1.1.3" -> [b EXCEPT !.management_acl = "MGMT-ONLY"]
      [] c = "1.2.1" -> [b EXCEPT !.snmp_version = "v3"]
      [] c = "1.2.2" -> [b EXCEPT !.community_strings = @ \ Default]
      [] c = "1.3.1" -> [b EXCEPT !.ike_policies = {strengthened(p) : p \in @}]
      [] c = "1.4.1" -> [b EXCEPT !.ntp_authentication = TRUE]
      [] c = "1.5.1" -> [b EXCEPT !.password_encryption = "ENABLED"]
      [] c = "1.6.1" -> [b EXCEPT !.login_banner = TRUE]
      [] c = "1.7.1" -> [b EXCEPT !.http_server = "DISABLED"]
      [] c = "1.8.1" -> [b EXCEPT !.syslog_enabled = TRUE, !.syslog_hosts = {"remote-syslog"}]

=============================================================================

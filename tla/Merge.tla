-------------------------------- MODULE Merge --------------------------------
(***************************************************************************)
(* How the parsing worker puts the facts of the chunks of one device       *)
(* together (merge.py), how sure it is of the result (worker.py), and how  *)
(* the result is compared with what the TextFSM templates extract from the *)
(* same text (agreement.py, reverse_translation.py).                       *)
(***************************************************************************)
EXTENDS Policy

CONSTANT Unset  \* the value of a field that was not set, or is None

Policies == [policy_id : PolicyId, encryption : Encryptions]

ASSUME UnsetIsNoValue ==
    /\ Unset \notin BOOLEAN
    /\ Unset \notin ProtocolStatus \cup {"1", "1-2", "2", "v1", "v2c", "v3", "none"}
    /\ \A communities \in SUBSET Community : Unset # communities
    /\ \A policies \in SUBSET Policies : Unset # policies

Flag == {"ssh_enabled", "snmp_enabled", "ntp_enabled", "ntp_authentication", "login_banner",
         "syslog_enabled"}
Status == {"telnet", "password_encryption", "http_server"}
List == {"community_strings", "ike_policies", "syslog_hosts"}
Token == {"ssh_version", "snmp_version", "management_acl"}

\* What the model and the gates say of themselves is part of the candidate's device.
Signal == {"parsing_confidence", "mean_logprob", "reverse_translation_fidelity"}
Field == Flag \cup Status \cup List \cup Token \cup Signal

\* Of what SecurityBaseline accepts, what the alarms below rest on.
IsFacts(facts) ==
    /\ \A f \in Status : facts[f] \in {Unset} \cup ProtocolStatus
    /\ facts["ssh_version"] \in {Unset, "none", "1", "1-2", "2"}
    /\ facts["community_strings"] \in {Unset} \cup SUBSET Community
    /\ facts["ike_policies"] \in {Unset} \cup SUBSET Policies

\* The baseline of a device of which nothing is set.
DefaultBaseline == [f \in Field \ Signal |->
    CASE f \in Flag -> FALSE
      [] f \in Status -> "UNKNOWN"
      [] f \in List -> {}
      [] f \in {"ssh_version", "snmp_version"} -> "none"
      [] f = "management_acl" -> Absent]

\* What model_dump writes: a field that is not set has its default.
Filled(facts) == [f \in Field \ Signal |-> IF facts[f] = Unset THEN DefaultBaseline[f] ELSE facts[f]]

-----------------------------------------------------------------------------
(* merge_baselines, field by field.                                        *)

is_unknown(f, v) ==
    \/ v = Unset
    \/ f \in Status /\ v = "UNKNOWN"
    \/ f \in Token /\ v \in {"none", "", Absent}

is_negative_scalar(f, v) ==
    \/ f \in Flag /\ v = FALSE
    \/ f \in Status /\ v = "DISABLED"

\* MUTANT: whichever chunk comes first decides.
first_wins(f, old, new) == IF is_unknown(f, old) THEN new ELSE old

merge_value(f, old, new) ==
    IF new = Unset \/ (old # Unset /\ is_unknown(f, new)) THEN old
    ELSE IF is_unknown(f, old) THEN new
    ELSE IF f \in List THEN old \cup new
    ELSE IF is_negative_scalar(f, old) THEN new ELSE old

merge_dict(target, incoming) ==
    [f \in Field |-> merge_value(f, target[f], incoming[f])]

conflicts_of(target, incoming) ==
    {f \in Field \ List : /\ ~is_unknown(f, target[f]) /\ ~is_unknown(f, incoming[f])
                          /\ target[f] # incoming[f]}

\* The confidence of the device in hundredths: the mean of the parsed chunks', less half of
\* the share of unknown chunks, less 5 for every conflict, is at least the threshold.
CONFIDENCE_THRESHOLD == 60
confident(sum, parsed, unknown, conflicts) ==
    LET chunks == parsed + unknown
    IN  sum * (2 * chunks - unknown) >= (CONFIDENCE_THRESHOLD + 5 * conflicts) * 2 * chunks * parsed

-----------------------------------------------------------------------------
(* leaf_facts and compute_agreement.                                       *)

\* MUTANT of leaf_facts: what is in a list is not looked at.
scalar_facts(facts) ==
    {<<f, facts[f]>> : f \in {x \in Flag \cup Status \cup Token : ~is_unknown(x, facts[x])}}

\* The items of a list are facts of their own, and so are the fields of an item.
item_facts(facts) ==
    UNION {{<<f, item>> : item \in facts[f]} : f \in {x \in List \ {"ike_policies"} : facts[x] # Unset}}

policies_of(facts) == IF facts["ike_policies"] = Unset THEN {} ELSE facts["ike_policies"]
policy_facts(facts) ==
    {<<"policy_id", p.policy_id>> : p \in policies_of(facts)}
        \cup {<<"encryption", p.encryption>> :
                  p \in {q \in policies_of(facts) : q.encryption \notin {"NONE", "UNKNOWN"}}}

\* Placeholders are no facts; an explicit FALSE is one.
leaf_facts(facts) == scalar_facts(facts) \cup item_facts(facts) \cup policy_facts(facts)

\* How many facts the templates found, and on how many the baseline agrees.
compute_agreement(baseline, deterministic) ==
    [compared |-> Cardinality(leaf_facts(deterministic)),
     agreed |-> Cardinality(leaf_facts(deterministic) \cap leaf_facts(baseline))]

-----------------------------------------------------------------------------
\* The controls one field alone can fail; such a field is an alarm wherever it is read.
Alarming == {"1.1.1", "1.1.2", "1.2.2", "1.3.1", "1.5.1", "1.7.1"}
Alarms(facts) == Failing(Filled(facts)) \cap Alarming

\* What the templates report: the alarms they read, and the two controls they find missing from
\* the whole file and say so, where on any other field they stay silent.
Reported(facts) ==
    Alarms(facts) \cup {id \in {"1.6.1"} : facts["login_banner"] = FALSE}
                  \cup {id \in {"1.8.1"} : facts["syslog_enabled"] = FALSE}

=============================================================================

------------------------------ MODULE MCWhatIf ------------------------------
(***************************************************************************)
(* A hardened baseline and a bare one, and those that differ from either   *)
(* in one field; access lists of up to two lines for the comparisons.      *)
(***************************************************************************)
EXTENDS WhatIf

CONSTANTS tcp, udp, a1, a2, telnet, https, corp, public, private, h1, mgmt

Hardened == [
    ssh_enabled |-> TRUE, ssh_version |-> "2", management_acl |-> mgmt,
    telnet |-> "DISABLED", snmp_enabled |-> TRUE, snmp_version |-> "v3",
    community_strings |-> {corp}, ike_policies |-> {[policy_id |-> 1, encryption |-> "AES256"]},
    ntp_enabled |-> TRUE, ntp_authentication |-> TRUE, password_encryption |-> "ENABLED",
    login_banner |-> TRUE, http_server |-> "UNKNOWN",
    syslog_enabled |-> TRUE, syslog_hosts |-> {h1}]

Change == [
    ssh_enabled |-> {FALSE}, ssh_version |-> {"none", "1", "1-2"},
    management_acl |-> {Absent, ""}, telnet |-> {"ENABLED"},
    snmp_enabled |-> {FALSE}, snmp_version |-> {"v1", "v2c"},
    community_strings |-> {{}, {corp, public}, {public, private}},
    ike_policies |-> {{[policy_id |-> 1, encryption |-> "DES"],
                       [policy_id |-> 2, encryption |-> "AES256"]}},
    ntp_enabled |-> {FALSE}, ntp_authentication |-> {FALSE},
    password_encryption |-> {"DISABLED"}, login_banner |-> {FALSE}, http_server |-> {"ENABLED"},
    syslog_enabled |-> {FALSE}, syslog_hosts |-> {{}}]

\* Nothing is secured, and what is off cannot fail.
Bare == [
    ssh_enabled |-> FALSE, ssh_version |-> "none", management_acl |-> Absent,
    telnet |-> "ENABLED", snmp_enabled |-> TRUE, snmp_version |-> "v1",
    community_strings |-> {public}, ike_policies |-> {[policy_id |-> 1, encryption |-> "3DES"]},
    ntp_enabled |-> TRUE, ntp_authentication |-> FALSE, password_encryption |-> "DISABLED",
    login_banner |-> FALSE, http_server |-> "ENABLED",
    syslog_enabled |-> FALSE, syslog_hosts |-> {}]

Changed(b) == {b} \cup UNION {{[b EXCEPT ![x] = v] : v \in Change[x]} : x \in DOMAIN Change}

Config(b, ingress, egress) == [base |-> b, ingress |-> ingress, egress |-> egress]

MCUploaded == {Config(b, << >>, << >>) : b \in Changed(Hardened) \cup Changed(Bare)}

\* What the lines match: everything, everything from one address, telnet from anywhere, and
\* telnet from one address. The second and third overlap, and neither covers the other.
Matched == {[protocol |-> "ip", source |-> "any", destination |-> "any", port |-> Absent],
            [protocol |-> "ip", source |-> a1, destination |-> "any", port |-> "any"],
            [protocol |-> tcp, source |-> "any", destination |-> "any", port |-> telnet],
            [protocol |-> tcp, source |-> a1, destination |-> "any", port |-> telnet]}
Line == {[action |-> x, protocol |-> k.protocol, source |-> k.source,
          destination |-> k.destination, port |-> k.port] :
             x \in {"permit", "deny"}, k \in Matched}

PermitAny == [action |-> "permit", protocol |-> "ip", source |-> "any",
              destination |-> "any", port |-> "any"]
OnePermit == {<< >>, <<PermitAny>>}
Sides == {<< >>} \cup {<<a>> : a \in Line} \cup {<<a, b>> : a, b \in Line}

MCSupplied ==
    {Config(Hardened, s, << >>) : s \in Sides \cup OnePermit}
        \cup {Config(Hardened, << >>, s) : s \in OnePermit}
        \cup {Config([Hardened EXCEPT !.telnet = "ENABLED"], s, << >>) : s \in OnePermit}

=============================================================================

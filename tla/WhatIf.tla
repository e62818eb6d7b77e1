------------------------------- MODULE WhatIf -------------------------------
(***************************************************************************)
(* The compliance service's answers about one audit run (main.py): its     *)
(* summary, the simulation of a fix, and the comparison of two baselines   *)
(* a caller supplies (counterfactual.py, reachability_diff.py), beside the *)
(* evaluations that replace what is stored (evaluator.py, db.py).          *)
(***************************************************************************)
EXTENDS Policy, Sequences

CONSTANTS
    Uploaded,   \* the configurations the run may be evaluated on
    Supplied,   \* the configurations callers compare
    Protocol, Address, Port,  \* what the packets of an access list differ in
    Nothing     \* NULL

\* An entry of an access list: "ip" covers every protocol, "any" every address or port, and
\* a port may be missing. Names that differ in case only are one name.
Entry == [action : {"permit", "deny"}, protocol : Protocol \cup {"ip"},
          source : Address \cup {"any"}, destination : Address \cup {"any"},
          port : Port \cup {"any", Absent}]

\* A normalized configuration: its baseline, and its ingress and egress lists, the entries in
\* the order the device tries them.
IsConfig(g) ==
    /\ g = [base |-> g.base, ingress |-> g.ingress, egress |-> g.egress]
    /\ g.base \in Baseline
    /\ g.ingress \in Seq(Entry) /\ g.egress \in Seq(Entry)

ASSUME WhatIfConstants ==
    /\ Uploaded # {}
    /\ \A g \in Uploaded \cup Supplied : IsConfig(g)
    /\ Nothing \notin Uploaded /\ Nothing \notin 0 .. 100

VARIABLES
    snapshot,  \* audit_runs.baseline_snapshot
    rows,      \* compliance_findings of the run
    status,    \* audit_runs.status
    answer     \* the response the caller waits for

vars == <<snapshot, rows, status, answer>>

-----------------------------------------------------------------------------
(* reachability_diff.py.                                                   *)

\* What an entry is compared by: a missing port is any port.
flow_key(e) ==
    [protocol |-> e.protocol, source |-> e.source, destination |-> e.destination,
     port |-> IF e.port = Absent THEN "any" ELSE e.port]

permits(entries) == {i \in DOMAIN entries : entries[i].action = "permit"}
permitted(entries) == {flow_key(entries[i]) : i \in permits(entries)}

\* One side of diff_acl: the keys that are newly permitted and newly blocked. What an entry
\* denies, and where it stands in its list, is not looked at.
diff_side(before, after) ==
    [newly_blocked |-> permitted(before) \ permitted(after),
     newly_permitted |-> permitted(after) \ permitted(before)]

\* MUTANT: the egress list is not looked at.
opens_ingress(cur, new) == diff_side(cur.ingress, new.ingress).newly_permitted # {}

opens_new_access(cur, new) ==
    \/ diff_side(cur.ingress, new.ingress).newly_permitted # {}
    \/ diff_side(cur.egress, new.egress).newly_permitted # {}

-----------------------------------------------------------------------------
(* counterfactual.py.                                                      *)

Tiers == <<"LOW", "MEDIUM", "HIGH">>

\* The tier of the worst violation introduced, one higher when access opens.
introduced_risk_tier(introduced, opens, regressed) ==
    LET found == {Severity[c] : c \in introduced}
        tier == CASE found \cap {"CRITICAL", "HIGH"} # {} -> 3
                  [] found \cap {"CRITICAL", "HIGH"} = {} /\ ("MEDIUM" \in found \/ regressed) -> 2
                  [] OTHER -> 1
    IN  Tiers[IF opens /\ tier < 3 THEN tier + 1 ELSE tier]

counterfactual(cur, new) ==
    LET current == deny(cur.base)
        proposed == deny(new.base)
        introduced == failed_ids(proposed) \ failed_ids(current)
        delta == summarize(proposed).compliance_score - summarize(current).compliance_score
        opens == opens_new_access(cur, new)
    IN  [compliance_delta |-> delta,
         violations_resolved |-> failed_ids(current) \ failed_ids(proposed),
         violations_introduced |-> introduced,
         risk |-> introduced_risk_tier(introduced, opens, delta < 0),
         verdict |-> IF delta < 0 \/ opens THEN "RISK_FLAG" ELSE "SAFE"]

-----------------------------------------------------------------------------
(* The service.                                                            *)

NoAnswer == [to |-> "nobody"]
Idle == answer = NoAnswer

Init ==
    /\ snapshot = Nothing /\ rows = {} /\ status = "INGESTED"
    /\ answer = NoAnswer

\* The primary key of compliance_findings takes one row per control.
violates_key(findings) ==
    \E f \in findings, g \in findings : f.control_id = g.control_id /\ f # g

\* An evaluation of the run replaces its rows and its snapshot, or its INSERT aborts and
\* changes nothing.
evaluate(g) ==
    LET findings == deny(g.base)
    IN  \/ /\ Idle /\ ~violates_key(findings)
           /\ snapshot' = g /\ rows' = findings /\ status' = "EVALUATED"
           /\ answer' = [to |-> "evaluate", of |-> g, findings |-> findings, stored |-> TRUE]
        \/ /\ Idle /\ violates_key(findings)
           /\ answer' = [to |-> "evaluate", of |-> g, findings |-> findings, stored |-> FALSE]
           /\ UNCHANGED <<snapshot, rows, status>>

\* GET /audit-runs/{id}: a run that was not evaluated has no score. Reporting refuses to
\* report on it, and otherwise summarizes the same rows on its own.
not_evaluated == [total_findings |-> 0, risk_score |-> 0, compliance_score |-> Nothing,
                  controls_evaluated |-> 0, controls_passed |-> 0]

get_audit_run ==
    /\ Idle
    /\ answer' = [to |-> "get_audit_run",
                  summary |-> IF status = "EVALUATED" THEN summarize(rows) ELSE not_evaluated,
                  report |-> IF status = "EVALUATED" THEN reporting_summarize(rows)
                             ELSE not_evaluated]
    /\ UNCHANGED <<snapshot, rows, status>>

\* GET /audit-runs/{id}/counterfactual/{control}: 404 without a snapshot.
simulate_fix(c) ==
    /\ Idle /\ snapshot # Nothing
    /\ answer' = [to |-> "simulate_fix", control |-> c,
                  result |-> counterfactual(snapshot,
                                 [snapshot EXCEPT !.base = apply_fix(snapshot.base, c)])]
    /\ UNCHANGED <<snapshot, rows, status>>

\* POST /counterfactual.
counterfactual_endpoint(cur, new) ==
    /\ Idle
    /\ answer' = [to |-> "counterfactual", cur |-> cur, new |-> new,
                  result |-> counterfactual(cur, new)]
    /\ UNCHANGED <<snapshot, rows, status>>

\* The caller has its answer.
answered ==
    /\ ~Idle
    /\ answer' = NoAnswer
    /\ UNCHANGED <<snapshot, rows, status>>

Next ==
    \/ \E g \in Uploaded : evaluate(g)
    \/ get_audit_run
    \/ \E c \in Control : simulate_fix(c)
    \/ \E cur \in Supplied, new \in Supplied : counterfactual_endpoint(cur, new)
    \/ answered

Spec == Init /\ [][Next]_vars

-----------------------------------------------------------------------------
(* Properties.                                                             *)

\* "Simulate this fix" shows what the fix is for: the control it is asked about is
\* resolved if it failed, and no other is resolved or broken by it. The table of fixes and
\* the bundle are two languages in two files.
SimulatedFixWorks ==
    answer.to = "simulate_fix" =>
        /\ answer.result.violations_resolved = Failing(snapshot.base) \cap {answer.control}
        /\ answer.result.violations_introduced = {}

\* The dashboard and the report of a run show the same summary, each from its own copy of
\* the catalog, and an evaluated run scores 100 exactly when nothing failed.
DashboardMatchesReport ==
    answer.to = "get_audit_run" =>
        /\ answer.summary = answer.report
        /\ answer.summary.compliance_score = 100 <=> status = "EVALUATED" /\ rows = {}

\* What the device does with a list: the first entry that matches a packet decides, and what
\* no entry matches is dropped.
Packet == [protocol : Protocol, source : Address, destination : Address, port : Port]

matches(e, p) ==
    LET key == flow_key(e)
    IN  /\ key.protocol \in {"ip", p.protocol}
        /\ key.source \in {"any", p.source}
        /\ key.destination \in {"any", p.destination}
        /\ key.port \in {"any", p.port}

lets_through(entries) ==
    {p \in Packet : \E i \in permits(entries) :
        /\ matches(entries[i], p)
        /\ \A j \in 1 .. (i - 1) : ~matches(entries[j], p)}

\* Every deny that a list has in front of a permit it overlaps is still in front of it.
DeniesStand(before, after) ==
    \A i \in permits(after), j \in DOMAIN before \ permits(before) :
        /\ \A k \in permits(before) : flow_key(before[k]) = flow_key(after[i]) => j < k
        /\ \E p \in Packet : matches(before[j], p) /\ matches(after[i], p)
        => \E h \in 1 .. (i - 1) :
               h \notin permits(after) /\ flow_key(after[h]) = flow_key(before[j])

OpensNothing(before, after) == lets_through(after) \subseteq lets_through(before)

\* What the comparison of permitted keys is worth. counterfactual.py says that "opening a flow
\* the current config doesn't permit is a risk", and of overlapping keys that is not true: a
\* change that takes a deny away from in front of a permit opens what the deny kept out, adds
\* no permitted key, and is SAFE. Any other change is SAFE only if neither list lets a new
\* packet through, and none is if it lowers the score. A change that is flagged is never of
\* low risk. The simulation of a fix is SAFE, and raises the score if it resolves anything.
VerdictIsEarned ==
    /\ answer.to = "counterfactual" =>
        \/ answer.result.verdict = "RISK_FLAG" /\ answer.result.risk # "LOW"
        \/ /\ answer.result.verdict = "SAFE"
           /\ DeniesStand(answer.cur.ingress, answer.new.ingress) =>
                  OpensNothing(answer.cur.ingress, answer.new.ingress)
           /\ DeniesStand(answer.cur.egress, answer.new.egress) =>
                  OpensNothing(answer.cur.egress, answer.new.egress)
           /\ answer.result.compliance_delta >= 0
    /\ answer.to = "simulate_fix" =>
        /\ answer.result.verdict = "SAFE" /\ answer.result.risk = "LOW"
        /\ answer.result.compliance_delta > 0 <=> answer.result.violations_resolved # {}

\* init.sql: one row per failed control. The findings of an evaluation have no control
\* twice, so that they can be stored.
OneFindingPerControl == answer.to = "evaluate" => ~violates_key(answer.findings)

=============================================================================

------------------------------ MODULE AuditRun ------------------------------
(***************************************************************************)
(* An audit run from upload to report, across four services: ingestion     *)
(* creates it and queues a parsing job, parsing publishes a baseline or    *)
(* asks for human review, compliance evaluates baselines (from the queue,  *)
(* or at once for POST /evaluate) and reporting renders what is stored.    *)
(* They share Postgres, under READ COMMITTED, and two Celery queues.       *)
(*                                                                         *)
(* A step is one statement or one transaction, except in save_findings,    *)
(* whose transaction is taken apart: its DELETE sees what is committed     *)
(* when it starts and waits for rows other transactions hold, its INSERT   *)
(* waits for and then collides with their primary keys.                    *)
(***************************************************************************)
EXTENDS Naturals, Sequences, FiniteSets

CONSTANTS
    Upload,      \* upload requests; a run is named by the upload that creates it
    File,        \* file hashes
    Baseline,    \* what the parser may make of a configuration
    Control,     \* control ids of the policy bundle
    Violations,  \* the controls each baseline fails
    Evaluation,  \* evaluation tasks; each is used once
    Report,      \* report requests; each is used once
    Nothing,     \* NULL, or no row
    Direct,      \* the evaluations POST /evaluate starts, the others being of the queue
    MaxCopies,   \* bound: deliveries of one queued message
    MaxBusy      \* bound: requests and tasks in progress at a time

ASSUME AuditRunConstants ==
    /\ Violations \in [Baseline -> SUBSET Control]
    /\ Direct \subseteq Evaluation
    /\ MaxCopies \in Nat \ {0}
    /\ MaxBusy \in Nat
    /\ Nothing \notin Upload \cup File \cup Baseline \cup Evaluation

VARIABLES
    upload,      \* the upload requests
    created,     \* audit_runs in order of created_at
    status,      \* audit_runs.status of each
    parsing,     \* the parsing queue: messages [run, copy]
    compliance,  \* the compliance queue: messages [run, baseline, copy]
    task,        \* the evaluation tasks
    finding,     \* compliance_findings of each run: rows <<control, evaluation>>
    evaluation,  \* audit_evaluations: records [run, id, baseline, evaluated_at]
    detected,    \* VIOLATION_DETECTED in ledger_events: <<run, control, evaluation>>
    notified,    \* VIOLATION_DETECTED webhooks sent: <<run, control, evaluation>>
    report,      \* the report requests
    clock,       \* the next value datetime.now() returns
    hurt         \* ghost: runs that lost a message, a task or a call to a dependency

ingestion == <<upload, created>>
queues == <<parsing, compliance>>
evaluating == <<task, finding, evaluation, detected, notified, clock>>
vars == <<ingestion, status, queues, evaluating, report, hurt>>

-----------------------------------------------------------------------------
(* State.                                                                  *)

Statuses == {"NONE", "INGESTED", "NEEDS_REVIEW", "EVALUATED", "COMPLETE"}
Evaluated == {"EVALUATED", "COMPLETE"}
Rows == Control \X Evaluation
Events == Upload \X Control \X Evaluation

UploadState == [pc : {"idle", "check", "create", "enqueue", "done", "crashed"},
                file : File \cup {Nothing}, job_id : Upload \cup {Nothing}]

\* pc names the next statement of the task; seen, deleted and fresh are what its
\* DELETE read, what it deleted and the controls it detected for the first time.
TaskState == [pc : {"idle", "delete", "deleting", "insert", "stamp", "commit",
                    "anomaly", "notify", "done", "failed"},
              run : Upload \cup {Nothing}, baseline : Baseline \cup {Nothing},
              seen : SUBSET Rows, deleted : SUBSET Rows, fresh : SUBSET Control, at : Nat]

ReportState == [pc : {"idle", "findings", "evaluation", "record", "done", "refused"},
                run : Upload \cup {Nothing}, status : Statuses,
                findings : SUBSET Rows, evaluation : Evaluation \cup {Nothing}]

Run == {created[i] : i \in DOMAIN created}

\* audit_runs with the given hash, ORDER BY created_at DESC LIMIT 1.
run_by_hash(f) ==
    LET with_hash == {i \in DOMAIN created : upload[created[i]].file = f}
    IN  IF with_hash = {} THEN Nothing
        ELSE created[CHOOSE i \in with_hash : \A j \in with_hash : j <= i]

\* MUTANT: ORDER BY evaluated_at.
first_evaluation(r) ==
    LET of_run == {e \in evaluation : e.run = r}
    IN  IF of_run = {} THEN Nothing
        ELSE (CHOOSE e \in of_run : \A x \in of_run : e.evaluated_at <= x.evaluated_at).id

\* audit_evaluations of run r, ORDER BY evaluated_at DESC LIMIT 1.
latest_evaluation(r) ==
    LET of_run == {e \in evaluation : e.run = r}
    IN  IF of_run = {} THEN Nothing
        ELSE (CHOOSE e \in of_run : \A x \in of_run : x.evaluated_at <= e.evaluated_at).id

Busy == {u \in Upload : upload[u].pc \in {"check", "create", "enqueue"}}
        \cup {t \in Evaluation : task[t].pc \notin {"idle", "done", "failed"}}
        \cup {p \in Report : report[p].pc \in {"findings", "evaluation", "record"}}
Arriving == Cardinality(Busy) < MaxBusy

Init ==
    /\ upload = [u \in Upload |-> [pc |-> "idle", file |-> Nothing, job_id |-> Nothing]]
    /\ created = << >>
    /\ status = [u \in Upload |-> "NONE"]
    /\ parsing = {} /\ compliance = {}
    /\ task = [t \in Evaluation |->
                 [pc |-> "idle", run |-> Nothing, baseline |-> Nothing, seen |-> {},
                  deleted |-> {}, fresh |-> {}, at |-> 0]]
    /\ finding = [u \in Upload |-> {}]
    /\ evaluation = {} /\ detected = {} /\ notified = {}
    /\ report = [p \in Report |->
                   [pc |-> "idle", run |-> Nothing, status |-> "NONE", findings |-> {},
                    evaluation |-> Nothing]]
    /\ clock = 1
    /\ hurt = {}

-----------------------------------------------------------------------------
(* Ingestion: POST /upload.                                                *)

\* The file is validated and stored in MinIO under its hash, whoever else has it.
validate_and_store(u, f) ==
    /\ upload[u].pc = "idle" /\ Arriving
    /\ upload' = [upload EXCEPT ![u].pc = "check", ![u].file = f]
    /\ UNCHANGED <<created, status, queues, evaluating, report, hurt>>

\* A file that has a run already reopens it.
get_audit_run_id_by_hash(u) ==
    LET existing == run_by_hash(upload[u].file)
    IN  /\ upload[u].pc = "check"
        /\ upload' = [upload EXCEPT ![u].pc = IF existing = Nothing THEN "create" ELSE "done",
                                    ![u].job_id = existing]
        /\ UNCHANGED <<created, status, queues, evaluating, report, hurt>>

create_audit_run(u) ==
    /\ upload[u].pc = "create"
    /\ created' = Append(created, u)
    /\ status' = [status EXCEPT ![u] = "INGESTED"]
    /\ upload' = [upload EXCEPT ![u].pc = "enqueue"]
    /\ UNCHANGED <<queues, evaluating, report, hurt>>

\* Redis delivers a message once, or again when its visibility times out.
Deliveries == {1 .. n : n \in 1 .. MaxCopies}

enqueue_parsing_job(u) ==
    /\ upload[u].pc = "enqueue"
    /\ \E copies \in Deliveries :
            parsing' = parsing \cup {[run |-> u, copy |-> i] : i \in copies}
    /\ upload' = [upload EXCEPT ![u].pc = "done", ![u].job_id = u]
    /\ UNCHANGED <<created, status, compliance, evaluating, report, hurt>>

\* The process dies, or the broker refuses the message.
upload_crashes(u) ==
    /\ upload[u].pc \in {"check", "create", "enqueue"}
    /\ upload' = [upload EXCEPT ![u].pc = "crashed"]
    /\ hurt' = hurt \cup {u}
    /\ UNCHANGED <<created, status, queues, evaluating, report>>

-----------------------------------------------------------------------------
(* Parsing: one job at a time in its worker, so a job is one step. What    *)
(* the model makes of a configuration is not a function of it, and a job   *)
(* delivered twice may end differently.                                    *)

returns_quietly(r) == status    \* MUTANT: the reason is returned, and stored nowhere

mark_needs_review(r) == [status EXCEPT ![r] = "NEEDS_REVIEW"]

\* No chunk parsed, or the confidence is below the threshold.
process_config_reviews(m) ==
    /\ m \in parsing
    /\ parsing' = parsing \ {m}
    /\ status' = mark_needs_review(m.run)
    /\ UNCHANGED <<ingestion, compliance, evaluating, report, hurt>>

process_config_submits(m) ==
    /\ m \in parsing
    /\ parsing' = parsing \ {m}
    /\ \E b \in Baseline, copies \in Deliveries :
            compliance' = compliance \cup
                {[run |-> m.run, baseline |-> b, copy |-> <<m.copy, i>>] : i \in copies}
    /\ UNCHANGED <<ingestion, status, evaluating, report, hurt>>

\* The SLM, the database or the broker fails, or the worker dies; the message was
\* acknowledged when the job started, so nothing runs the job again.
process_config_fails(m) ==
    /\ m \in parsing
    /\ parsing' = parsing \ {m}
    /\ hurt' = hurt \cup {m.run}
    /\ UNCHANGED <<ingestion, status, compliance, evaluating, report>>

-----------------------------------------------------------------------------
(* Compliance: an evaluation, with save_findings statement by statement.   *)

failing(t) == Violations[task[t].baseline]

\* The evaluations, other than t, with a transaction open on t's run; what they deleted
\* and what they inserted is locked until they end.
open_beside(t) == {o \in Evaluation \ {t} : /\ task[o].run = task[t].run
                                            /\ task[o].pc \in {"insert", "stamp", "commit"}}
controls_of(rows) == {row[1] : row \in rows}
locked_by(o) == controls_of(task[o].deleted)
                \cup (IF task[o].pc = "insert" THEN {} ELSE failing(o))

start(t, r, b) ==
    /\ task[t].pc = "idle" /\ Arriving
    /\ task' = [task EXCEPT ![t].pc = "delete", ![t].run = r, ![t].baseline = b]

evaluate_from_queue(t, m) ==
    /\ t \notin Direct /\ m \in compliance
    /\ start(t, m.run, m.baseline)
    /\ compliance' = compliance \ {m}
    /\ UNCHANGED <<ingestion, status, parsing, finding, evaluation, detected, notified,
                   clock, report, hurt>>

\* POST /evaluate with the id of a run, whatever its status.
evaluate_now(t, r, b) ==
    /\ t \in Direct /\ r \in Run
    /\ start(t, r, b)
    /\ UNCHANGED <<ingestion, status, queues, finding, evaluation, detected, notified,
                   clock, report, hurt>>

\* DELETE reads the rows committed when it starts,
delete_starts(t) ==
    /\ task[t].pc = "delete"
    /\ task' = [task EXCEPT ![t].pc = "deleting", ![t].seen = finding[task[t].run]]
    /\ UNCHANGED <<ingestion, status, queues, finding, evaluation, detected, notified,
                   clock, report, hurt>>

\* waits for the transactions that deleted some of them, and deletes what is left.
delete_ends(t) ==
    /\ task[t].pc = "deleting"
    /\ \A o \in open_beside(t) : task[o].deleted \cap task[t].seen = {}
    /\ task' = [task EXCEPT ![t].pc = "insert",
                            ![t].deleted = task[t].seen \cap finding[task[t].run]]
    /\ UNCHANGED <<ingestion, status, queues, finding, evaluation, detected, notified,
                   clock, report, hurt>>

every_failure(r, cs) == cs                           \* MUTANT: no WHERE NOT EXISTS
with_their_run(r, cs) == {<<r, c>> : c \in cs}       \* MUTANT: rows for their controls

\* The controls, of cs, that run r has no VIOLATION_DETECTED event for.
newly_detected(r, cs) == {c \in cs : \A e \in detected : ~(e[1] = r /\ e[2] = c)}

\* The findings and the ledger events. A row of the same control that is committed and
\* that this transaction did not delete violates the primary key.
collides(t) == controls_of(finding[task[t].run] \ task[t].deleted) \cap failing(t) # {}

insert_findings(t) ==
    /\ task[t].pc = "insert"
    /\ \A o \in open_beside(t) : locked_by(o) \cap failing(t) = {}
    /\ ~collides(t)
    /\ task' = [task EXCEPT ![t].pc = "stamp",
                            ![t].fresh = newly_detected(task[t].run, failing(t))]
    /\ UNCHANGED <<ingestion, status, queues, finding, evaluation, detected, notified,
                   clock, report, hurt>>

insert_aborts(t) ==
    /\ task[t].pc = "insert"
    /\ \A o \in open_beside(t) : locked_by(o) \cap failing(t) = {}
    /\ collides(t)
    /\ task' = [task EXCEPT ![t].pc = "failed"]
    /\ hurt' = hurt \cup {task[t].run}
    /\ UNCHANGED <<ingestion, status, queues, finding, evaluation, detected, notified,
                   clock, report>>

\* evaluated_at is taken before the INSERT INTO audit_evaluations, and before the commit.
stamp(t) ==
    /\ task[t].pc = "stamp"
    /\ task' = [task EXCEPT ![t].pc = "commit", ![t].at = clock]
    /\ clock' = clock + 1
    /\ UNCHANGED <<ingestion, status, queues, finding, evaluation, detected, notified,
                   report, hurt>>

commit(t) ==
    LET r == task[t].run
    IN  /\ task[t].pc = "commit"
        /\ finding' = [finding EXCEPT ![r] = (@ \ task[t].deleted) \cup (failing(t) \X {t})]
        /\ detected' = detected \cup {<<r, c, t>> : c \in task[t].fresh}
        /\ evaluation' = evaluation \cup
              {[run |-> r, id |-> t, baseline |-> task[t].baseline, evaluated_at |-> task[t].at]}
        /\ status' = [status EXCEPT ![r] = "EVALUATED"]
        /\ task' = [task EXCEPT ![t].pc = "anomaly"]
        /\ UNCHANGED <<ingestion, queues, notified, clock, report, hurt>>

\* A transaction of its own, on a table nothing here reads.
save_anomaly(t) ==
    /\ task[t].pc = "anomaly"
    /\ task' = [task EXCEPT ![t].pc = "notify"]
    /\ UNCHANGED <<ingestion, status, queues, finding, evaluation, detected, notified,
                   clock, report, hurt>>

\* MUTANT: the new violations are looked up after the commit.
still_undetected(t) == newly_detected(task[t].run, failing(t))
every_finding(t) == failing(t)      \* MUTANT: every finding is announced

announced(t) == task[t].fresh

dispatch(t) ==
    /\ task[t].pc = "notify"
    /\ notified' = notified \cup {<<task[t].run, c, t>> : c \in announced(t)}
    /\ task' = [task EXCEPT ![t].pc = "done"]
    /\ UNCHANGED <<ingestion, status, queues, finding, evaluation, detected, clock,
                   report, hurt>>

\* OPA or the database fails, or the worker dies: an open transaction is rolled back,
\* and nothing runs the task again.
evaluation_fails(t) ==
    /\ task[t].pc \notin {"idle", "done", "failed"}
    /\ task' = [task EXCEPT ![t].pc = "failed"]
    /\ hurt' = hurt \cup {task[t].run}
    /\ UNCHANGED <<ingestion, status, queues, finding, evaluation, detected, notified,
                   clock, report>>

-----------------------------------------------------------------------------
(* Reporting: POST /reports/generate reads the run, its findings and its   *)
(* latest evaluation in statements of their own, each with its snapshot.   *)

report_run(p, r) ==
    /\ report[p].pc = "idle" /\ Arriving
    /\ r \in Run
    /\ report' = [report EXCEPT ![p].pc = "findings", ![p].run = r, ![p].status = status[r]]
    /\ UNCHANGED <<ingestion, status, queues, evaluating, hurt>>

report_findings(p) ==
    /\ report[p].pc = "findings"
    /\ report' = [report EXCEPT ![p].pc = "evaluation", ![p].findings = finding[report[p].run]]
    /\ UNCHANGED <<ingestion, status, queues, evaluating, hurt>>

any_status(s) == s \in Statuses      \* MUTANT: the 422 is dropped

require_evaluated(s) == s \in Evaluated

report_evaluation(p) ==
    /\ report[p].pc = "evaluation"
    /\ report' = [report EXCEPT
                    ![p].pc = IF require_evaluated(report[p].status) THEN "record" ELSE "refused",
                    ![p].evaluation = latest_evaluation(report[p].run)]
    /\ UNCHANGED <<ingestion, status, queues, evaluating, hurt>>

\* MUTANT: the findings are read again when the PDF is rendered.
rereads_findings(p) ==
    /\ report[p].pc = "record"
    /\ status' = [status EXCEPT ![report[p].run] = "COMPLETE"]
    /\ report' = [report EXCEPT ![p].pc = "done", ![p].findings = finding[report[p].run]]
    /\ UNCHANGED <<ingestion, queues, evaluating, hurt>>

\* The PDF is written, and the run is COMPLETE whatever happened to it meanwhile.
record_report(p) ==
    /\ report[p].pc = "record"
    /\ status' = [status EXCEPT ![report[p].run] = "COMPLETE"]
    /\ report' = [report EXCEPT ![p].pc = "done"]
    /\ UNCHANGED <<ingestion, queues, evaluating, hurt>>

-----------------------------------------------------------------------------
upload_config(u) ==
    \/ get_audit_run_id_by_hash(u)
    \/ create_audit_run(u)
    \/ enqueue_parsing_job(u)

process_config(m) ==
    \/ process_config_reviews(m)
    \/ process_config_submits(m)

\* save_findings from its first statement, save_anomaly and the webhooks.
evaluate_baseline(t) ==
    \/ delete_starts(t)
    \/ delete_ends(t)
    \/ insert_findings(t)
    \/ insert_aborts(t)
    \/ stamp(t)
    \/ commit(t)
    \/ save_anomaly(t)
    \/ dispatch(t)

generate(p) ==
    \/ report_findings(p)
    \/ report_evaluation(p)
    \/ record_report(p)

Next ==
    \/ \E u \in Upload, f \in File : validate_and_store(u, f)
    \/ \E u \in Upload : upload_config(u) \/ upload_crashes(u)
    \/ \E m \in parsing : process_config(m) \/ process_config_fails(m)
    \/ \E t \in Evaluation, m \in compliance : evaluate_from_queue(t, m)
    \/ \E t \in Direct, r \in Run, b \in Baseline : evaluate_now(t, r, b)
    \/ \E t \in Evaluation : evaluate_baseline(t) \/ evaluation_fails(t)
    \/ \E p \in Report, r \in Run : report_run(p, r)
    \/ \E p \in Report : generate(p)

Spec == Init /\ [][Next]_vars

\* A request that arrived goes on, and workers take what is queued. Nobody has to upload,
\* to call POST /evaluate or to ask for a report, and nothing has to fail.
Fairness ==
    /\ WF_vars(\E u \in Upload : upload_config(u))
    /\ WF_vars(\E m \in parsing : process_config(m))
    /\ WF_vars(\E t \in Evaluation, m \in compliance : evaluate_from_queue(t, m))
    /\ WF_vars(\E t \in Evaluation : evaluate_baseline(t))
    /\ WF_vars(\E p \in Report : generate(p))

FairSpec == Spec /\ Fairness

-----------------------------------------------------------------------------
(* Properties.                                                             *)

\* Type correctness, with the shape of each queue and each stored row.
TypeOK ==
    /\ upload \in [Upload -> UploadState]
    /\ created \in Seq(Upload)
    /\ status \in [Upload -> Statuses]
    /\ \A m \in parsing : m.run \in Run
    /\ \A m \in compliance : m.run \in Run /\ m.baseline \in Baseline
    /\ task \in [Evaluation -> TaskState]
    /\ finding \in [Upload -> SUBSET Rows]
    /\ \A e \in evaluation : e.run \in Run /\ e.id \in Evaluation /\ e.baseline \in Baseline
    /\ detected \subseteq Events /\ notified \subseteq Events
    /\ report \in [Report -> ReportState]
    /\ clock \in Nat
    /\ hurt \subseteq Upload

Once(events) == \A d \in events, e \in events : d[1] = e[1] /\ d[2] = e[2] => d = e

\* The first detection of a violation, which MTTR counts from, is recorded once, however
\* many evaluations of the run overlap: ledger_events has no constraint that says so, and
\* the primary key of compliance_findings must serialise the NOT EXISTS.
DetectedOnce == Once(detected)

\* A ticketing system is told of a violation once, and only of recorded ones.
NotifiedOnce == Once(notified) /\ notified \subseteq detected

\* A run shown as evaluated or complete has an evaluation, so its empty list of findings
\* means a clean device, however uploads, duplicated jobs, evaluations and reports mix.
StatusMeansEvaluated ==
    \A r \in Run : status[r] \in Evaluated => \E e \in evaluation : e.run = r

\* A report with no findings is of a run that some evaluation found clean; its reads are
\* separate statements, and an evaluation may replace the findings between them.
CleanReportIsTrue ==
    \A p \in Report : report[p].pc = "done" /\ report[p].findings = {} =>
        \E e \in evaluation : e.run = report[p].run /\ Violations[e.baseline] = {}

\* What evaluation e found, as it is stored.
found_by(e) == Violations[e.baseline] \X {e.id}

\* No violation the latest evaluation found is missing from the stored findings, however
\* evaluations overlap: whoever deletes its rows saw them committed and is dated later.
LatestIsStored ==
    \A r \in Run, e \in evaluation :
        e.run = r /\ e.id = latest_evaluation(r) => found_by(e) \subseteq finding[r]

\* A report shows whole evaluations, none later than the one whose hash and policy it cites,
\* though evaluations commit between its reads: the findings are read first.
ReportCitesTheLatest ==
    \A p \in Report : report[p].pc = "done" =>
        \A row \in report[p].findings : \E e \in evaluation, cited \in evaluation :
            /\ e.id = row[2] /\ e.run = report[p].run
            /\ cited.id = report[p].evaluation /\ cited.run = report[p].run
            /\ e.evaluated_at <= cited.evaluated_at
            /\ found_by(e) \subseteq report[p].findings

\* The stored findings of a run are those of its latest evaluation: "re-running an audit
\* after a policy change deletes this run's rows and reinserts, so findings can never be
\* stale with respect to the bundle" (init.sql). Read when no transaction of the run is open.
FindingsAreCurrent ==
    \A r \in Run :
        (\A t \in Evaluation : task[t].run = r =>
             task[t].pc \in {"anomaly", "notify", "done", "failed"}) =>
        \A e \in evaluation : e.run = r /\ e.id = latest_evaluation(r) =>
            finding[r] = found_by(e)

\* A run that went to human review reaches no queued evaluation: a low-confidence baseline
\* is never scored, and no run that was is sent back. For jobs delivered once.
ReviewIsFinal ==
    \A r \in Run : status[r] = "NEEDS_REVIEW" =>
        /\ \A m \in compliance : m.run # r
        /\ \A t \in Evaluation \ Direct : task[t].run # r

\* A run leaves INGESTED unless it lost a message, a task or a dependency.
LeavesIngested == \A u \in Upload : status[u] = "INGESTED" ~> (status[u] # "INGESTED" \/ u \in hurt)

\* A recorded violation is announced unless the run lost the task that recorded it.
Unannounced(u) == \E e \in detected \ notified : e[1] = u
DetectedIsAnnounced == \A u \in Upload : Unannounced(u) ~> (~Unannounced(u) \/ u \in hurt)

=============================================================================

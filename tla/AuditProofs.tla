----------------------------- MODULE AuditProofs -----------------------------
(***************************************************************************)
(* What holds of AuditRun for any number of uploads, baselines, controls,  *)
(* evaluations and reports, and whatever overlaps, is repeated or is lost; *)
(* one theorem is about jobs that are delivered once.                      *)
(***************************************************************************)
EXTENDS AuditRun, TLAPS, WellFoundedInduction

-----------------------------------------------------------------------------
(* The rows that ORDER BY ... DESC LIMIT 1 selects.                        *)

\* A bounded, non-empty set of numbers has a largest one.
LEMMA Largest ==
    ASSUME NEW T \in SUBSET Nat, T # {}, NEW n \in Nat, \A i \in T : i <= n
    PROVE  \E i \in T : \A j \in T : j <= i
<1> DEFINE D == {n - i : i \in T}
           less == OpToRel(<, Nat)
<1>1. D \subseteq Nat /\ D # {}
  <2>1. \A i \in T : n - i \in Nat
    OBVIOUS
  <2>2. PICK i \in T : TRUE
    OBVIOUS
  <2>3. n - i \in D
    OBVIOUS
  <2> QED  BY <2>1, <2>3
<1>2. \A x \in Nat, y \in Nat : x < y => <<x, y>> \in less
  BY DEF OpToRel
<1>3. PICK x \in D : \A y \in D : ~(<<y, x>> \in less)
  <2> HIDE DEF D, less
  <2>1. IsWellFoundedOn(less, Nat)
    BY NatLessThanWellFounded DEF less
  <2> QED  BY <1>1, <2>1, WFMin
<1>4. PICK i \in T : x = n - i
  OBVIOUS
<1>5. ASSUME NEW j \in T
      PROVE  j <= i
  <2> HIDE DEF less
  <2>1. n - j \in D /\ n - j \in Nat /\ x \in Nat
    BY <1>1
  <2>2. ~(n - j < x)
    BY <1>2, <1>3, <2>1
  <2> QED  BY <1>4, <2>2
<1> QED  BY <1>5

\* The run an upload is answered with is a run.
LEMMA RunByHash ==
    ASSUME created \in Seq(Upload), NEW f
    PROVE  run_by_hash(f) \in Run \cup {Nothing}
<1> DEFINE T == {i \in DOMAIN created : upload[created[i]].file = f}
<1>1. CASE T = {}
  BY <1>1 DEF run_by_hash
<1>2. CASE T # {}
  <2>1. T \in SUBSET Nat /\ Len(created) \in Nat /\ \A i \in T : i <= Len(created)
    OBVIOUS
  <2>2. \E i \in T : \A j \in T : j <= i
    <3> HIDE DEF T
    <3> QED  BY <1>2, <2>1, Largest
  <2>3. (CHOOSE i \in T : \A j \in T : j <= i) \in T
    <3> HIDE DEF T
    <3> QED  BY <2>2
  <2> QED  BY <1>2, <2>3 DEF run_by_hash, Run
<1> QED  BY <1>1, <1>2

\* The evaluation a report cites is one.
LEMMA LatestEvaluation ==
    ASSUME NEW r, clock \in Nat,
           \A e \in evaluation : /\ e.id \in Evaluation
                                 /\ e.evaluated_at \in Nat /\ e.evaluated_at < clock
    PROVE  latest_evaluation(r) \in Evaluation \cup {Nothing}
<1> DEFINE S == {e \in evaluation : e.run = r}
           T == {e.evaluated_at : e \in S}
<1>1. CASE S = {}
  BY <1>1 DEF latest_evaluation
<1>2. CASE S # {}
  <2>1. T \in SUBSET Nat /\ T # {} /\ \A i \in T : i <= clock
    BY <1>2
  <2>2. PICK m \in T : \A j \in T : j <= m
    <3> HIDE DEF T
    <3> QED  BY <2>1, Largest
  <2>3. \E e \in S : \A x \in S : x.evaluated_at <= e.evaluated_at
    BY <2>2
  <2>4. (CHOOSE e \in S : \A x \in S : x.evaluated_at <= e.evaluated_at) \in S
    <3> HIDE DEF S
    <3> QED  BY <2>3
  <2> QED  BY <1>2, <2>4 DEF latest_evaluation
<1> QED  BY <1>1, <1>2

-----------------------------------------------------------------------------
(* Types. What is in progress is about a run, and no timestamp is ahead    *)
(* of the clock.                                                           *)

Referring ==
    /\ \A u \in Upload : upload[u].pc = "enqueue" => u \in Run
    /\ \A t \in Evaluation : task[t].pc # "idle" =>
            task[t].run \in Run /\ task[t].baseline \in Baseline
    /\ \A p \in Report : report[p].pc # "idle" => report[p].run \in Run

Stamped ==
    /\ \A e \in evaluation : e.evaluated_at \in Nat /\ e.evaluated_at < clock
    /\ \A t \in Evaluation : task[t].pc = "commit" => task[t].at < clock

Typed == TypeOK /\ Referring /\ Stamped

\* An upload that goes on, or dies.
LEMMA IngestionTyped ==
    ASSUME Typed, NEW u \in Upload,
           (\E f \in File : validate_and_store(u, f)) \/ upload_config(u) \/ upload_crashes(u)
    PROVE  Typed'
<1> USE DEF Typed, TypeOK, Referring, Stamped, ingestion, queues, evaluating
<1>1. CASE \E f \in File : validate_and_store(u, f)
  <2>1. PICK f \in File : validate_and_store(u, f)
    BY <1>1
  <2>2. upload' \in [Upload -> UploadState]
    BY <2>1 DEF validate_and_store, UploadState
  <2>3. \A v \in Upload : upload'[v].pc = "enqueue" => upload[v].pc = "enqueue"
    BY <2>1 DEF validate_and_store, UploadState
  <2>4. UNCHANGED <<created, status, queues, evaluating, report, hurt>>
    BY <2>1 DEF validate_and_store
  <2>5. TypeOK'
    <3> HIDE DEF Referring, Stamped
    <3> QED  BY <2>2, <2>4 DEF Run
  <2>6. Referring' /\ Stamped'
    BY <2>3, <2>4 DEF Run
  <2> QED  BY <2>5, <2>6
<1>2. CASE get_audit_run_id_by_hash(u)
  <2>1. run_by_hash(upload[u].file) \in Upload \cup {Nothing}
    BY RunByHash DEF Run
  <2>2. upload' \in [Upload -> UploadState]
    <3> DEFINE x == run_by_hash(upload[u].file)
               y == IF x = Nothing THEN "create" ELSE "done"
    <3>1. y \in {"create", "done"} /\ x \in Upload \cup {Nothing}
      BY <2>1
    <3>2. upload' = [upload EXCEPT ![u].pc = y, ![u].job_id = x]
      BY <1>2 DEF get_audit_run_id_by_hash
    <3>3. upload \in [Upload -> UploadState]
      OBVIOUS
    <3> HIDE DEF x, y, Typed
    <3> QED  BY <3>1, <3>2, <3>3 DEF UploadState
  <2> QED  BY <1>2, <2>2 DEF get_audit_run_id_by_hash, Run
<1>3. CASE create_audit_run(u)
  <2>1. upload' \in [Upload -> UploadState] /\ status' \in [Upload -> Statuses]
    BY <1>3 DEF create_audit_run, UploadState, Statuses
  <2>2. created' \in Seq(Upload) /\ Run \subseteq Run' /\ u \in Run'
    <3>1. created \in Seq(Upload) /\ created' = Append(created, u)
      BY <1>3 DEF create_audit_run
    <3> HIDE DEF Typed, Referring, Stamped
    <3>2. /\ created' \in Seq(Upload)
          /\ \A i \in DOMAIN created : i \in DOMAIN created' /\ created'[i] = created[i]
          /\ Len(created) + 1 \in DOMAIN created' /\ created'[Len(created) + 1] = u
      BY <3>1 DEF TypeOK
    <3> QED  BY <3>2 DEF Run
  <2>3. UNCHANGED <<parsing, compliance, task, finding, evaluation, detected, notified,
                    clock, report, hurt>>
    BY <1>3 DEF create_audit_run
  <2> HIDE DEF Run
  <2>4. TypeOK'
    BY <2>1, <2>2, <2>3
  <2>5. \A v \in Upload : upload'[v].pc = "enqueue" => v = u \/ upload[v].pc = "enqueue"
    BY <1>3 DEF create_audit_run
  <2>6. Referring' /\ Stamped'
    BY <2>2, <2>3, <2>5
  <2> QED  BY <2>4, <2>6
<1>4. CASE enqueue_parsing_job(u)
  <2>1. upload' \in [Upload -> UploadState]
    BY <1>4 DEF enqueue_parsing_job, UploadState
  <2>2. \A m \in parsing' : m \in parsing \/ m.run = u
    BY <1>4 DEF enqueue_parsing_job
  <2> QED  BY <1>4, <2>1, <2>2 DEF enqueue_parsing_job, Run
<1>5. CASE upload_crashes(u)
  <2>1. upload' \in [Upload -> UploadState]
    BY <1>5 DEF upload_crashes, UploadState
  <2> QED  BY <1>5, <2>1 DEF upload_crashes, Run
<1> QED
  BY <1>1, <1>2, <1>3, <1>4, <1>5 DEF upload_config

\* A parsing job that publishes, asks for review, or fails.
LEMMA ParsingTyped ==
    ASSUME Typed, NEW m \in parsing, process_config(m) \/ process_config_fails(m)
    PROVE  Typed'
<1> USE DEF Typed, TypeOK, Referring, Stamped, ingestion, queues, evaluating
<1>1. CASE process_config_reviews(m)
  <2>1. status' \in [Upload -> Statuses] /\ parsing' \subseteq parsing
    BY <1>1 DEF process_config_reviews, mark_needs_review, Statuses
  <2> QED  BY <1>1, <2>1 DEF process_config_reviews, Run
<1>2. CASE process_config_submits(m)
  <2>1. /\ parsing' \subseteq parsing
        /\ \A n \in compliance' : n \in compliance \/ (n.run = m.run /\ n.baseline \in Baseline)
    BY <1>2 DEF process_config_submits
  <2> QED  BY <1>2, <2>1 DEF process_config_submits, Run
<1>3. CASE process_config_fails(m)
  <2>1. m.run \in Upload /\ parsing' \subseteq parsing
    BY <1>3 DEF process_config_fails, Run
  <2> QED  BY <1>3, <2>1 DEF process_config_fails, Run
<1> QED  BY <1>1, <1>2, <1>3 DEF process_config

\* A step that changes one task, and what a task may change.
LEMMA TaskStep ==
    ASSUME Typed, NEW t \in Evaluation, NEW q \in TaskState, task' = [task EXCEPT ![t] = q],
           q.run \in Run, q.baseline \in Baseline, q.pc = "commit" => q.at < clock',
           UNCHANGED <<ingestion, parsing, report>>, compliance' \subseteq compliance,
           status' \in [Upload -> Statuses], finding' \in [Upload -> SUBSET Rows],
           \A e \in evaluation' : e \in evaluation \/
                 /\ e.run \in Run /\ e.id \in Evaluation /\ e.baseline \in Baseline
                 /\ e.evaluated_at \in Nat /\ e.evaluated_at < clock',
           detected' \subseteq Events, notified' \subseteq Events, hurt' \subseteq Upload,
           clock' \in Nat, clock' >= clock
    PROVE  Typed'
<1>1. Run' = Run /\ upload' = upload /\ created' = created
  BY DEF Run, ingestion
<1>2. \A o \in Evaluation : task'[o] = IF o = t THEN q ELSE task[o]
  BY DEF Typed, TypeOK
<1>3. TypeOK'
  <2>1. task' \in [Evaluation -> TaskState]
    BY DEF Typed, TypeOK
  <2> QED  BY <1>1, <2>1 DEF Typed, TypeOK
<1>4. Referring'
  BY <1>1, <1>2 DEF Typed, Referring
<1>5. Stamped'
  <2>1. \A o \in Evaluation : task[o].at \in Nat
    BY DEF Typed, TypeOK, TaskState
  <2>2. clock \in Nat
    BY DEF Typed, TypeOK
  <2>3. \A e \in evaluation' : e.evaluated_at \in Nat /\ e.evaluated_at < clock'
    BY <2>2 DEF Typed, Stamped
  <2>4. \A o \in Evaluation : task'[o].pc = "commit" => task'[o].at < clock'
    BY <1>2, <2>1, <2>2 DEF Typed, Stamped
  <2> QED  BY <2>3, <2>4 DEF Stamped
<1> QED  BY <1>3, <1>4, <1>5 DEF Typed

\* A task that starts.
LEMMA StartTyped ==
    ASSUME Typed, NEW t \in Evaluation,
           \/ \E m \in compliance : evaluate_from_queue(t, m)
           \/ \E r \in Run, b \in Baseline : evaluate_now(t, r, b)
    PROVE  Typed'
<1>1. PICK r \in Run, b \in Baseline : start(t, r, b)
  BY DEF evaluate_from_queue, evaluate_now, Typed, TypeOK
<1>2. /\ compliance' \subseteq compliance
      /\ UNCHANGED <<ingestion, status, parsing, finding, evaluation, detected, notified,
                     clock, report, hurt>>
  BY DEF evaluate_from_queue, evaluate_now, queues
<1> DEFINE q == [task[t] EXCEPT !.pc = "delete", !.run = r, !.baseline = b]
<1>3. task' = [task EXCEPT ![t] = q]
  BY <1>1 DEF start
<1>4. q \in TaskState /\ q.run = r /\ q.baseline = b /\ q.pc = "delete"
  <2>1. task[t] \in TaskState /\ r \in Upload
    BY DEF Typed, TypeOK, Run
  <2> QED  BY <2>1 DEF TaskState
<1>5. clock \in Nat
  BY DEF Typed, TypeOK
<1>6. /\ status' \in [Upload -> Statuses] /\ finding' \in [Upload -> SUBSET Rows]
      /\ detected' \subseteq Events /\ notified' \subseteq Events /\ hurt' \subseteq Upload
      /\ clock' \in Nat /\ clock' >= clock /\ evaluation' = evaluation
      /\ UNCHANGED <<ingestion, parsing, report>>
  BY <1>2, <1>5 DEF Typed, TypeOK
<1> HIDE DEF q
<1> QED
  BY <1>2, <1>3, <1>4, <1>6, TaskStep

\* A task that goes on, or dies.
LEMMA EvaluationTyped ==
    ASSUME Typed, NEW t \in Evaluation, evaluate_baseline(t) \/ evaluation_fails(t)
    PROVE  Typed'
<1> DEFINE r == task[t].run
<1>1. /\ task[t] \in TaskState /\ task[t].pc # "idle" /\ r \in Run /\ r \in Upload
      /\ task[t].baseline \in Baseline /\ failing(t) \in SUBSET Control
  <2>1. task[t].pc # "idle"
    BY DEF evaluate_baseline, delete_starts, delete_ends, insert_findings, insert_aborts,
           stamp, commit, save_anomaly, dispatch, evaluation_fails
  <2>2. r \in Run /\ task[t].baseline \in Baseline
    BY <2>1 DEF Typed, Referring
  <2> QED  BY <2>1, <2>2, AuditRunConstants DEF failing, Run, Typed, TypeOK
<1>2. /\ clock \in Nat /\ status \in [Upload -> Statuses]
      /\ finding \in [Upload -> SUBSET Rows]
      /\ detected \subseteq Events /\ notified \subseteq Events /\ hurt \subseteq Upload
  BY DEF Typed, TypeOK
\* Most steps leave the tables alone.
<1>3. ASSUME NEW q \in TaskState, task' = [task EXCEPT ![t] = q], q.run = r,
             q.baseline = task[t].baseline, q.pc # "commit",
             UNCHANGED <<ingestion, status, queues, finding, evaluation, detected, clock, report>>,
             notified' \subseteq Events, hurt' \subseteq Upload
      PROVE  Typed'
  <2>1. /\ status' \in [Upload -> Statuses] /\ finding' \in [Upload -> SUBSET Rows]
        /\ detected' \subseteq Events /\ clock' \in Nat /\ clock' >= clock
        /\ evaluation' = evaluation /\ compliance' \subseteq compliance
        /\ UNCHANGED <<ingestion, parsing, report>>
    BY <1>2, <1>3 DEF queues
  <2> HIDE DEF r
  <2> QED  BY <1>1, <1>3, <2>1, TaskStep
<1>4. CASE delete_starts(t)
  <2> DEFINE q == [task[t] EXCEPT !.pc = "deleting", !.seen = finding[task[t].run]]
  <2>1. q \in TaskState /\ q.pc = "deleting" /\ q.run = r
        /\ q.baseline = task[t].baseline /\ task' = [task EXCEPT ![t] = q]
    BY <1>1, <1>2, <1>4 DEF delete_starts, TaskState
  <2> HIDE DEF q, r
  <2> QED  BY <1>2, <1>3, <1>4, <2>1 DEF delete_starts
<1>5. CASE delete_ends(t)
  <2> DEFINE q == [task[t] EXCEPT !.pc = "insert",
                                  !.deleted = task[t].seen \cap finding[task[t].run]]
  <2>1. q \in TaskState /\ q.pc = "insert" /\ q.run = r
        /\ q.baseline = task[t].baseline /\ task' = [task EXCEPT ![t] = q]
    BY <1>1, <1>2, <1>5 DEF delete_ends, TaskState
  <2> HIDE DEF q, r
  <2> QED  BY <1>2, <1>3, <1>5, <2>1 DEF delete_ends
<1>6. CASE insert_findings(t)
  <2> DEFINE q == [task[t] EXCEPT !.pc = "stamp",
                                  !.fresh = newly_detected(task[t].run, failing(t))]
  <2>1. newly_detected(task[t].run, failing(t)) \in SUBSET Control
    BY <1>1 DEF newly_detected
  <2>2. q \in TaskState /\ q.pc = "stamp" /\ q.run = r
        /\ q.baseline = task[t].baseline /\ task' = [task EXCEPT ![t] = q]
    BY <1>1, <1>6, <2>1 DEF insert_findings, TaskState
  <2> HIDE DEF q, r
  <2> QED  BY <1>2, <1>3, <1>6, <2>2 DEF insert_findings
<1>7. CASE insert_aborts(t) \/ evaluation_fails(t)
  <2> DEFINE q == [task[t] EXCEPT !.pc = "failed"]
  <2>1. q \in TaskState /\ q.pc = "failed" /\ q.run = r
        /\ q.baseline = task[t].baseline /\ task' = [task EXCEPT ![t] = q]
    BY <1>1, <1>7 DEF insert_aborts, evaluation_fails, TaskState
  <2>2. hurt' \subseteq Upload
    BY <1>1, <1>2, <1>7 DEF insert_aborts, evaluation_fails
  <2> HIDE DEF q, r
  <2> QED  BY <1>2, <1>3, <1>7, <2>1, <2>2 DEF insert_aborts, evaluation_fails
<1>8. CASE stamp(t)
  <2> DEFINE q == [task[t] EXCEPT !.pc = "commit", !.at = clock]
  <2>1. q \in TaskState /\ q.at = clock /\ q.run = r
        /\ q.baseline = task[t].baseline /\ task' = [task EXCEPT ![t] = q]
    BY <1>1, <1>2, <1>8 DEF stamp, TaskState
  <2>2. /\ clock' \in Nat /\ clock' >= clock /\ q.at < clock'
        /\ UNCHANGED <<ingestion, status, queues, finding, evaluation, detected, notified,
                       report, hurt>>
    BY <1>2, <1>8, <2>1 DEF stamp
  <2>3. \A e \in evaluation : e.evaluated_at \in Nat /\ e.evaluated_at < clock
    BY DEF Typed, Stamped
  <2> HIDE DEF q, r
  <2> QED  BY <1>1, <1>2, <2>1, <2>2, <2>3, TaskStep DEF queues
<1>9. CASE commit(t)
  <2> DEFINE q == [task[t] EXCEPT !.pc = "anomaly"]
  <2>1. q \in TaskState /\ q.pc = "anomaly" /\ q.run = r
        /\ q.baseline = task[t].baseline /\ task' = [task EXCEPT ![t] = q]
    BY <1>1, <1>9 DEF commit, TaskState
  <2>2. status' \in [Upload -> Statuses]
    BY <1>1, <1>2, <1>9 DEF commit, Statuses
  <2>3. finding' \in [Upload -> SUBSET Rows]
    <3>1. (finding[r] \ task[t].deleted) \cup (failing(t) \X {t}) \in SUBSET Rows
      BY <1>1, <1>2 DEF Rows
    <3> QED  BY <1>2, <1>9, <3>1 DEF commit
  <2>4. detected' \subseteq Events
    BY <1>1, <1>2, <1>9 DEF commit, Events, TaskState
  <2>5. \A e \in evaluation' : e \in evaluation \/
                 /\ e.run \in Run /\ e.id \in Evaluation /\ e.baseline \in Baseline
                 /\ e.evaluated_at \in Nat /\ e.evaluated_at < clock
    <3>1. task[t].at \in Nat /\ task[t].at < clock
      BY <1>1, <1>9 DEF commit, TaskState, Typed, Stamped
    <3> QED  BY <1>1, <1>9, <3>1 DEF commit
  <2>6. /\ UNCHANGED <<ingestion, parsing, report>> /\ compliance' \subseteq compliance
        /\ notified' \subseteq Events /\ hurt' \subseteq Upload
        /\ clock' = clock /\ clock' \in Nat /\ clock' >= clock
    BY <1>2, <1>9 DEF commit, queues
  <2> HIDE DEF q, r
  <2> QED  BY <1>1, <2>1, <2>2, <2>3, <2>4, <2>5, <2>6, TaskStep
<1>10. CASE save_anomaly(t)
  <2> DEFINE q == [task[t] EXCEPT !.pc = "notify"]
  <2>1. q \in TaskState /\ q.pc = "notify" /\ q.run = r
        /\ q.baseline = task[t].baseline /\ task' = [task EXCEPT ![t] = q]
    BY <1>1, <1>10 DEF save_anomaly, TaskState
  <2> HIDE DEF q, r
  <2> QED  BY <1>2, <1>3, <1>10, <2>1 DEF save_anomaly
<1>11. CASE dispatch(t)
  <2> DEFINE q == [task[t] EXCEPT !.pc = "done"]
  <2>1. q \in TaskState /\ q.pc = "done" /\ q.run = r
        /\ q.baseline = task[t].baseline /\ task' = [task EXCEPT ![t] = q]
    BY <1>1, <1>11 DEF dispatch, TaskState
  <2>2. notified' \subseteq Events
    BY <1>1, <1>2, <1>11 DEF dispatch, announced, Events, TaskState
  <2> HIDE DEF q, r
  <2> QED  BY <1>2, <1>3, <1>11, <2>1, <2>2 DEF dispatch
<1> QED
  BY <1>4, <1>5, <1>6, <1>7, <1>8, <1>9, <1>10, <1>11 DEF evaluate_baseline

\* A report request.
LEMMA ReportTyped ==
    ASSUME Typed, NEW p \in Report, (\E r \in Run : report_run(p, r)) \/ generate(p)
    PROVE  Typed'
<1> USE DEF Typed, TypeOK, Referring, Stamped, ingestion, queues, evaluating
<1>1. CASE \E r \in Run : report_run(p, r)
  <2>1. PICK r \in Run : report_run(p, r)
    BY <1>1
  <2>2. r \in Upload /\ status[r] \in Statuses
    BY DEF Run
  <2> DEFINE q == [report[p] EXCEPT !.pc = "findings", !.run = r, !.status = status[r]]
  <2>3. report \in [Report -> ReportState] /\ report' = [report EXCEPT ![p] = q]
    BY <2>1 DEF report_run
  <2>4. q \in ReportState /\ q.run = r
    <3> HIDE DEF Typed
    <3> QED  BY <2>2, <2>3 DEF ReportState
  <2> HIDE DEF q
  <2>5. /\ report' \in [Report -> ReportState] /\ report'[p].run = r
        /\ \A o \in Report : o # p => report'[o] = report[o]
    <3> HIDE DEF Typed
    <3> QED  BY <2>3, <2>4
  <2>6. UNCHANGED <<ingestion, status, queues, evaluating, hurt>>
    BY <2>1 DEF report_run
  <2>7. \A o \in Report : report'[o].pc # "idle" => report'[o].run \in Run
    BY <2>5
  <2>8. Referring'
    BY <2>6, <2>7 DEF Run
  <2> QED  BY <2>5, <2>6, <2>8 DEF Run
<1>2. CASE report_findings(p)
  <2>1. report[p] \in ReportState /\ report[p].run \in Upload
    BY <1>2 DEF report_findings, Run
  <2>2. report' \in [Report -> ReportState]
    BY <1>2, <2>1 DEF report_findings, ReportState
  <2> QED  BY <1>2, <2>2 DEF report_findings, Run
<1>3. CASE report_evaluation(p)
  <2> DEFINE x == latest_evaluation(report[p].run)
             y == IF require_evaluated(report[p].status) THEN "record" ELSE "refused"
  <2>1. x \in Evaluation \cup {Nothing} /\ y \in {"record", "refused"}
    BY LatestEvaluation
  <2>2. /\ report' = [report EXCEPT ![p].pc = y, ![p].evaluation = x]
        /\ report \in [Report -> ReportState] /\ report[p].pc # "idle"
        /\ UNCHANGED <<ingestion, status, queues, evaluating, hurt>>
    BY <1>3 DEF report_evaluation
  <2> HIDE DEF x, y
  <2>3. report' \in [Report -> ReportState]
    <3> DEFINE new == [report[p] EXCEPT !.pc = y, !.evaluation = x]
    <3> HIDE DEF Typed, TypeOK, Referring, Stamped
    <3>1. new \in ReportState
      BY <2>1, <2>2 DEF ReportState
    <3>2. report' = [report EXCEPT ![p] = new]
      BY <2>2
    <3> HIDE DEF new
    <3> QED  BY <2>2, <3>1, <3>2
  <2>4. \A o \in Report : report'[o].run = report[o].run
                            /\ (report'[o].pc # "idle" => report[o].pc # "idle")
    <3> HIDE DEF Typed
    <3> QED  BY <2>2 DEF ReportState
  <2> QED  BY <2>2, <2>3, <2>4 DEF Run
<1>4. CASE record_report(p)
  <2>1. /\ report \in [Report -> ReportState] /\ status \in [Upload -> Statuses]
        /\ status' = [status EXCEPT ![report[p].run] = "COMPLETE"]
        /\ report' = [report EXCEPT ![p].pc = "done"]
    BY <1>4 DEF record_report
  <2>2. report' \in [Report -> ReportState] /\ status' \in [Upload -> Statuses]
    <3> HIDE DEF Typed, TypeOK, Referring, Stamped
    <3> QED  BY <2>1 DEF ReportState, Statuses
  <2> QED  BY <1>4, <2>1, <2>2 DEF record_report, Run
<1> QED  BY <1>1, <1>2, <1>3, <1>4 DEF generate

\* Types are inductive.
LEMMA Types == Spec => []Typed
<1>1. Init => Typed
  BY DEF Init, Typed, TypeOK, Referring, Stamped, UploadState, TaskState, ReportState,
         Statuses, Run
<1>2. Typed /\ [Next]_vars => Typed'
  <2> SUFFICES ASSUME Typed, [Next]_vars
               PROVE  Typed'
    OBVIOUS
  <2>1. CASE UNCHANGED vars
    BY <2>1 DEF vars, ingestion, queues, evaluating, Typed, TypeOK, Referring, Stamped, Run
  <2>2. CASE \E u \in Upload : \/ \E f \in File : validate_and_store(u, f)
                              \/ upload_config(u) \/ upload_crashes(u)
    BY <2>2, IngestionTyped
  <2>3. CASE \E m \in parsing : process_config(m) \/ process_config_fails(m)
    BY <2>3, ParsingTyped
  <2>4. CASE \E t \in Evaluation : \/ \E m \in compliance : evaluate_from_queue(t, m)
                                  \/ \E r \in Run, b \in Baseline : evaluate_now(t, r, b)
    BY <2>4, StartTyped
  <2>5. CASE \E t \in Evaluation : evaluate_baseline(t) \/ evaluation_fails(t)
    BY <2>5, EvaluationTyped
  <2>6. CASE \E p \in Report : (\E r \in Run : report_run(p, r)) \/ generate(p)
    BY <2>6, ReportTyped
  <2> QED  BY <2>1, <2>2, <2>3, <2>4, <2>5, <2>6, AuditRunConstants DEF Next
<1> QED  BY <1>1, <1>2, PTL DEF Spec

\* The tables, the queues and everything in progress keep their types.
THEOREM TypesKept == Spec => []TypeOK
<1>1. Typed => TypeOK
  BY DEF Typed
<1> QED  BY <1>1, Types, PTL

-----------------------------------------------------------------------------
(* Detections. A transaction that has inserted its findings owns their     *)
(* primary keys until it ends, so what it found undetected stays so.       *)

Open(t) == task[t].pc \in {"stamp", "commit"}

Owned ==
    \A t \in Evaluation, o \in Evaluation :
        t # o /\ Open(t) /\ Open(o) /\ task[t].run = task[o].run =>
            failing(t) \cap failing(o) = {}

StillFresh ==
    \A t \in Evaluation : Open(t) =>
        /\ task[t].fresh \subseteq failing(t)
        /\ \A e \in detected : e[1] = task[t].run => e[2] \notin task[t].fresh

\* What a task is about to announce is on record.
Recorded ==
    /\ \A t \in Evaluation : task[t].pc \in {"anomaly", "notify"} =>
            {<<task[t].run, c, t>> : c \in task[t].fresh} \subseteq detected
    /\ notified \subseteq detected

Claimed == Owned /\ StillFresh /\ Recorded /\ DetectedOnce

\* Steps that neither open a transaction nor end one with a commit.
LEMMA QuietClaims ==
    ASSUME Typed, Claimed, NEW t \in Evaluation, NEW q, task' = [task EXCEPT ![t] = q],
           q.pc \notin {"stamp", "commit", "anomaly"},
           q.pc = "notify" =>
               task[t].pc = "anomaly" /\ q.run = task[t].run /\ q.fresh = task[t].fresh,
           detected' = detected, notified' \subseteq detected
    PROVE  Claimed'
<1>1. \A o \in Evaluation : task'[o] = IF o = t THEN q ELSE task[o]
  BY DEF Typed, TypeOK
<1>2. \A o \in Evaluation : Open(o)' => o # t /\ Open(o) /\ task'[o] = task[o]
                                  /\ failing(o)' = failing(o)
  BY <1>1 DEF Open, failing
<1>3. Owned' /\ StillFresh'
  BY <1>2 DEF Claimed, Owned, StillFresh
<1>4. Recorded'
  BY <1>1 DEF Claimed, Recorded
<1> QED  BY <1>3, <1>4 DEF Claimed, DetectedOnce, Once

\* A task that starts claims nothing.
LEMMA StartClaims ==
    ASSUME Typed, Claimed, NEW t \in Evaluation,
           \/ \E m \in compliance : evaluate_from_queue(t, m)
           \/ \E r \in Run, b \in Baseline : evaluate_now(t, r, b)
    PROVE  Claimed'
<1>1. PICK r, b : start(t, r, b)
  BY DEF evaluate_from_queue, evaluate_now
<1> DEFINE q == [task[t] EXCEPT !.pc = "delete", !.run = r, !.baseline = b]
<1>2. task' = [task EXCEPT ![t] = q] /\ detected' = detected /\ notified' \subseteq detected
  BY <1>1 DEF start, evaluate_from_queue, evaluate_now, Claimed, Recorded
<1>3. q.pc = "delete"
  BY DEF Typed, TypeOK, TaskState
<1> HIDE DEF q
<1> QED  BY <1>2, <1>3, QuietClaims

\* A task that goes on keeps its claims and those of the others.
LEMMA EvaluationClaims ==
    ASSUME Typed, Claimed, NEW t \in Evaluation, evaluate_baseline(t) \/ evaluation_fails(t)
    PROVE  Claimed'
<1>0. \A x : \A o \in Evaluation : task' = [task EXCEPT ![t] = x] =>
            task'[o] = IF o = t THEN x ELSE task[o]
  BY DEF Typed, TypeOK
<1>1. task[t] \in TaskState
  BY DEF Typed, TypeOK
<1>2. notified \subseteq detected
  BY DEF Claimed, Recorded
<1>3. CASE delete_starts(t)
  <2> DEFINE q == [task[t] EXCEPT !.pc = "deleting", !.seen = finding[task[t].run]]
  <2>1. q.pc = "deleting" /\ task' = [task EXCEPT ![t] = q]
        /\ UNCHANGED <<detected, notified>>
    BY <1>1, <1>3 DEF delete_starts, TaskState
  <2> HIDE DEF q
  <2> QED  BY <1>2, <2>1, QuietClaims
<1>4. CASE delete_ends(t)
  <2> DEFINE q == [task[t] EXCEPT !.pc = "insert",
                                  !.deleted = task[t].seen \cap finding[task[t].run]]
  <2>1. q.pc = "insert" /\ task' = [task EXCEPT ![t] = q] /\ UNCHANGED <<detected, notified>>
    BY <1>1, <1>4 DEF delete_ends, TaskState
  <2> HIDE DEF q
  <2> QED  BY <1>2, <2>1, QuietClaims
<1>5. CASE insert_aborts(t) \/ evaluation_fails(t)
  <2> DEFINE q == [task[t] EXCEPT !.pc = "failed"]
  <2>1. q.pc = "failed" /\ task' = [task EXCEPT ![t] = q] /\ UNCHANGED <<detected, notified>>
    BY <1>1, <1>5 DEF insert_aborts, evaluation_fails, TaskState
  <2> HIDE DEF q
  <2> QED  BY <1>2, <2>1, QuietClaims
<1>6. CASE insert_findings(t)
  <2> DEFINE new == newly_detected(task[t].run, failing(t))
             q == [task[t] EXCEPT !.pc = "stamp", !.fresh = new]
  <2>1. /\ q.pc = "stamp" /\ q.run = task[t].run /\ q.fresh = new
        /\ q.baseline = task[t].baseline /\ task' = [task EXCEPT ![t] = q]
        /\ UNCHANGED <<detected, notified>>
    BY <1>1, <1>6 DEF insert_findings, TaskState
  <2>2. new \subseteq failing(t) /\ \A e \in detected : e[1] = task[t].run => e[2] \notin new
    BY DEF newly_detected
  <2> HIDE DEF q, new
  <2>3. \A o \in Evaluation : /\ task'[o] = IF o = t THEN q ELSE task[o]
                              /\ failing(o)' = failing(o)
                              /\ Open(o)' <=> o = t \/ Open(o)
    BY <1>0, <2>1 DEF failing, Open
  <2>4. \A o \in Evaluation \ {t} : Open(o) /\ task[o].run = task[t].run =>
              failing(o) \cap failing(t) = {}
    BY <1>6 DEF insert_findings, open_beside, locked_by, Open
  <2>5. Owned'
    BY <2>1, <2>3, <2>4 DEF Owned, Claimed
  <2>6. StillFresh'
    BY <2>1, <2>2, <2>3 DEF StillFresh, Claimed
  <2>7. Recorded'
    BY <2>1, <2>3 DEF Recorded, Claimed
  <2> QED  BY <2>1, <2>5, <2>6, <2>7 DEF Claimed, DetectedOnce, Once
<1>7. CASE stamp(t)
  <2> DEFINE q == [task[t] EXCEPT !.pc = "commit", !.at = clock]
  <2>1. /\ q.pc = "commit" /\ q.run = task[t].run /\ q.fresh = task[t].fresh
        /\ q.baseline = task[t].baseline /\ task' = [task EXCEPT ![t] = q]
        /\ task[t].pc = "stamp" /\ UNCHANGED <<detected, notified>>
    BY <1>1, <1>7 DEF stamp, TaskState
  <2> HIDE DEF q
  <2>2. \A o \in Evaluation : /\ task'[o].run = task[o].run /\ task'[o].fresh = task[o].fresh
                              /\ failing(o)' = failing(o)
                              /\ Open(o)' <=> Open(o)
    BY <1>0, <2>1 DEF failing, Open
  <2>3. Owned' /\ StillFresh'
    BY <2>1, <2>2 DEF Owned, StillFresh, Claimed
  <2>4. Recorded'
    BY <1>0, <2>1 DEF Recorded, Claimed
  <2> QED  BY <2>1, <2>3, <2>4 DEF Claimed, DetectedOnce, Once
<1>8. CASE commit(t)
  <2> DEFINE q == [task[t] EXCEPT !.pc = "anomaly"]
             new == {<<task[t].run, c, t>> : c \in task[t].fresh}
  <2>1. /\ q.pc = "anomaly" /\ q.run = task[t].run /\ q.fresh = task[t].fresh
        /\ task' = [task EXCEPT ![t] = q] /\ Open(t)
        /\ detected' = detected \cup new /\ notified' = notified
    BY <1>1, <1>8 DEF commit, TaskState, Open
  <2> HIDE DEF q
  <2>2. \A o \in Evaluation : task'[o] = IF o = t THEN q ELSE task[o]
    BY <1>0, <2>1
  <2>3. \A o \in Evaluation : Open(o)' => o # t /\ Open(o) /\ task'[o] = task[o]
                                    /\ failing(o)' = failing(o)
    BY <2>1, <2>2 DEF failing, Open
  <2>4. Owned'
    BY <2>3 DEF Owned, Claimed
  <2>5. task[t].fresh \subseteq failing(t)
        /\ \A e \in detected : e[1] = task[t].run => e[2] \notin task[t].fresh
    BY <2>1 DEF StillFresh, Claimed
  <2>6. StillFresh'
    <3> SUFFICES ASSUME NEW o \in Evaluation, Open(o)', NEW e \in detected', e[1] = task[o].run
                 PROVE  e[2] \notin task[o].fresh
      BY <2>3 DEF StillFresh, Claimed
    <3>1. o # t /\ Open(o) /\ task[o].fresh \subseteq failing(o)
      BY <2>3 DEF StillFresh, Claimed
    <3>2. CASE e \in detected
      BY <3>1, <3>2 DEF StillFresh, Claimed
    <3>3. CASE e \in new
      <4>1. e[1] = task[t].run /\ e[2] \in failing(t)
        BY <2>5, <3>3
      <4> QED  BY <2>1, <3>1, <4>1 DEF Owned, Claimed
    <3> QED  BY <2>1, <3>2, <3>3
  <2>7. Recorded'
    BY <2>1, <2>2 DEF Recorded, Claimed
  <2>8. DetectedOnce'
    <3> SUFFICES ASSUME NEW d \in detected', NEW e \in detected', d[1] = e[1], d[2] = e[2]
                 PROVE  d = e
      BY DEF DetectedOnce, Once
    <3>1. CASE d \in detected /\ e \in detected
      BY <3>1 DEF Claimed, DetectedOnce, Once
    <3>2. CASE d \in new /\ e \in new
      BY <3>2
    <3>3. CASE d \in new /\ e \in detected
      BY <2>5, <3>3
    <3>4. CASE d \in detected /\ e \in new
      BY <2>5, <3>4
    <3> QED  BY <2>1, <3>1, <3>2, <3>3, <3>4
  <2> QED  BY <2>4, <2>6, <2>7, <2>8 DEF Claimed
<1>9. CASE save_anomaly(t)
  <2> DEFINE q == [task[t] EXCEPT !.pc = "notify"]
  <2>1. q.pc = "notify" /\ q.run = task[t].run /\ q.fresh = task[t].fresh
        /\ task[t].pc = "anomaly" /\ task' = [task EXCEPT ![t] = q]
        /\ UNCHANGED <<detected, notified>>
    BY <1>1, <1>9 DEF save_anomaly, TaskState
  <2> HIDE DEF q
  <2> QED  BY <1>2, <2>1, QuietClaims
<1>10. CASE dispatch(t)
  <2> DEFINE q == [task[t] EXCEPT !.pc = "done"]
  <2>1. q.pc = "done" /\ task' = [task EXCEPT ![t] = q] /\ UNCHANGED detected
    BY <1>1, <1>10 DEF dispatch, TaskState
  <2>2. notified' \subseteq detected
    BY <1>10 DEF dispatch, announced, Claimed, Recorded
  <2> HIDE DEF q
  <2> QED  BY <2>1, <2>2, QuietClaims
<1> QED
  BY <1>3, <1>4, <1>5, <1>6, <1>7, <1>8, <1>9, <1>10 DEF evaluate_baseline

\* Ingestion, parsing and reporting touch neither tasks nor events.
LEMMA OthersApart ==
    ASSUME Next
    PROVE  \/ \E t \in Evaluation : \/ \E m \in compliance : evaluate_from_queue(t, m)
                                   \/ \E r \in Run, b \in Baseline : evaluate_now(t, r, b)
           \/ \E t \in Evaluation : evaluate_baseline(t) \/ evaluation_fails(t)
           \/ UNCHANGED evaluating
BY AuditRunConstants
   DEF Next, validate_and_store, upload_config, get_audit_run_id_by_hash, create_audit_run,
       enqueue_parsing_job, upload_crashes, process_config, process_config_reviews,
       process_config_submits, process_config_fails, report_run, generate, report_findings,
       report_evaluation, record_report

\* Ownership of the keys and what follows from it are inductive.
LEMMA Detections == Spec => []Claimed
<1>1. Init => Claimed
  BY DEF Init, Claimed, Owned, StillFresh, Recorded, DetectedOnce, Once, Open
<1>2. Typed /\ Claimed /\ [Next]_vars => Claimed'
  <2> SUFFICES ASSUME Typed, Claimed, [Next]_vars
               PROVE  Claimed'
    OBVIOUS
  <2>1. CASE UNCHANGED evaluating
    BY <2>1 DEF evaluating, Claimed, Owned, StillFresh, Recorded, DetectedOnce, Once, Open, failing
  <2>2. CASE Next
    BY <2>1, <2>2, OthersApart, StartClaims, EvaluationClaims
  <2> QED  BY <2>1, <2>2 DEF vars
<1> QED  BY <1>1, <1>2, Types, PTL DEF Spec

\* The first detection of a violation is recorded once, however evaluations overlap.
THEOREM DetectionsAreFirst == Spec => []DetectedOnce
<1>1. Claimed => DetectedOnce
  BY DEF Claimed
<1> QED  BY <1>1, Detections, PTL

\* A violation is announced once, and only when it is on record.
THEOREM NotificationsAreFirst == Spec => []NotifiedOnce
<1>1. Claimed => NotifiedOnce
  BY DEF Claimed, Recorded, DetectedOnce, NotifiedOnce, Once
<1> QED  BY <1>1, Detections, PTL

-----------------------------------------------------------------------------
(* Statuses and reports. Evaluations are never forgotten, so what a report *)
(* read stays true of some evaluation, whatever replaced the findings.     *)

WasEvaluated(r) == \E e \in evaluation : e.run = r
WasClean(r) == \E e \in evaluation : e.run = r /\ Violations[e.baseline] = {}

RunsBacked ==
    \A r \in Upload :
        /\ status[r] \in Evaluated => WasEvaluated(r)
        /\ finding[r] = {} /\ WasEvaluated(r) => WasClean(r)

ReportsBacked ==
    \A p \in Report :
        /\ report[p].pc # "idle" /\ report[p].status \in Evaluated =>
              /\ WasEvaluated(report[p].run)
              /\ report[p].pc # "findings" /\ report[p].findings = {} => WasClean(report[p].run)
        /\ report[p].pc \in {"record", "done"} => report[p].status \in Evaluated

Backed == RunsBacked /\ ReportsBacked

\* Steps after which no run has another status but NEEDS_REVIEW or INGESTED, and no
\* evaluation was stored.
LEMMA QuietBacked ==
    ASSUME Backed, UNCHANGED <<finding, evaluation, report>>,
           \A r \in Upload : status'[r] \in Evaluated => status[r] \in Evaluated
    PROVE  Backed'
BY DEF Backed, RunsBacked, ReportsBacked, WasEvaluated, WasClean

\* An upload evaluates nothing.
LEMMA IngestionBacked ==
    ASSUME Typed, Backed, NEW u \in Upload,
           (\E f \in File : validate_and_store(u, f)) \/ upload_config(u) \/ upload_crashes(u)
    PROVE  Backed'
<1>1. /\ UNCHANGED <<finding, evaluation, report>>
      /\ status' = status \/ status' = [status EXCEPT ![u] = "INGESTED"]
  BY DEF validate_and_store, upload_config, get_audit_run_id_by_hash, create_audit_run,
         enqueue_parsing_job, upload_crashes, evaluating
<1>2. \A r \in Upload : status'[r] \in Evaluated => status[r] \in Evaluated
  BY <1>1 DEF Typed, TypeOK, Evaluated
<1> QED  BY <1>1, <1>2, QuietBacked

\* Nor does a parsing job.
LEMMA ParsingBacked ==
    ASSUME Typed, Backed, NEW m \in parsing, process_config(m) \/ process_config_fails(m)
    PROVE  Backed'
<1>1. /\ UNCHANGED <<finding, evaluation, report>>
      /\ status' = status \/ status' = [status EXCEPT ![m.run] = "NEEDS_REVIEW"]
  BY DEF process_config, process_config_reviews, process_config_submits,
         process_config_fails, mark_needs_review, evaluating
<1>2. \A r \in Upload : status'[r] \in Evaluated => status[r] \in Evaluated
  BY <1>1 DEF Typed, TypeOK, Evaluated
<1> QED  BY <1>1, <1>2, QuietBacked

\* A task stores findings, status and evaluation in one commit.
LEMMA EvaluationBacked ==
    ASSUME Typed, Backed, NEW t \in Evaluation,
           \/ \E m \in compliance : evaluate_from_queue(t, m)
           \/ \E r \in Run, b \in Baseline : evaluate_now(t, r, b)
           \/ evaluate_baseline(t) \/ evaluation_fails(t)
    PROVE  Backed'
<1>1. CASE commit(t)
  <2>0. PICK r : r = task[t].run
    OBVIOUS
  <2> DEFINE new == [run |-> r, id |-> t, baseline |-> task[t].baseline,
                     evaluated_at |-> task[t].at]
  <2>1. /\ evaluation' = evaluation \cup {new} /\ report' = report
        /\ finding' = [finding EXCEPT ![r] = (@ \ task[t].deleted) \cup (failing(t) \X {t})]
        /\ status' = [status EXCEPT ![r] = "EVALUATED"]
    BY <1>1, <2>0 DEF commit
  <2>2. new.run = r /\ new.baseline = task[t].baseline
    OBVIOUS
  <2> HIDE DEF new
  <2>3. WasEvaluated(r)' /\ (failing(t) = {} => WasClean(r)')
    BY <2>1, <2>2 DEF WasEvaluated, WasClean, failing
  <2>4. \A x : (WasEvaluated(x) => WasEvaluated(x)') /\ (WasClean(x) => WasClean(x)')
    BY <2>1 DEF WasEvaluated, WasClean
  <2>5. \A x \in Upload : x # r => (WasEvaluated(x)' => WasEvaluated(x))
    BY <2>1, <2>2 DEF WasEvaluated
  <2>6. ASSUME NEW x \in Upload
        PROVE  /\ status'[x] \in Evaluated => WasEvaluated(x)'
               /\ finding'[x] = {} /\ WasEvaluated(x)' => WasClean(x)'
    <3>1. CASE x = r
      <4>1. \A c \in failing(t) : <<c, t>> \in finding'[r]
        BY <2>1, <3>1 DEF Typed, TypeOK
      <4> QED  BY <2>3, <3>1, <4>1
    <3>2. CASE x # r
      <4>1. finding'[x] = finding[x] /\ status'[x] = status[x]
        BY <2>1, <3>2 DEF Typed, TypeOK
      <4> QED  BY <2>4, <2>5, <3>2, <4>1 DEF Backed, RunsBacked
    <3> QED  BY <3>1, <3>2
  <2>7. RunsBacked'
    BY <2>6 DEF RunsBacked
  <2>8. ReportsBacked'
    BY <2>1, <2>4 DEF Backed, ReportsBacked
  <2> QED  BY <2>7, <2>8 DEF Backed
<1>2. CASE UNCHANGED <<status, finding, evaluation, report>>
  BY <1>2, QuietBacked
<1> QED
  BY <1>1, <1>2 DEF evaluate_from_queue, evaluate_now, evaluate_baseline, delete_starts,
     delete_ends, insert_findings, insert_aborts, stamp, save_anomaly, dispatch, evaluation_fails

\* A report goes by what it read, and completes what was evaluated.
LEMMA ReportBacked ==
    ASSUME Typed, Backed, NEW p \in Report, (\E r \in Run : report_run(p, r)) \/ generate(p)
    PROVE  Backed'
<1>1. report[p] \in ReportState
  BY DEF Typed, TypeOK
<1>2. ASSUME NEW q, report' = [report EXCEPT ![p] = q], UNCHANGED <<finding, evaluation>>,
             \A r \in Upload : status'[r] \in Evaluated => WasEvaluated(r),
             q.pc # "idle" /\ q.status \in Evaluated =>
                 /\ WasEvaluated(q.run)
                 /\ q.pc # "findings" /\ q.findings = {} => WasClean(q.run),
             q.pc \in {"record", "done"} => q.status \in Evaluated
      PROVE  Backed'
  <2>1. \A o \in Report : report'[o] = IF o = p THEN q ELSE report[o]
    BY <1>2 DEF Typed, TypeOK
  <2>2. \A x : (WasEvaluated(x)' <=> WasEvaluated(x)) /\ (WasClean(x)' <=> WasClean(x))
    BY <1>2 DEF WasEvaluated, WasClean
  <2> QED  BY <1>2, <2>1, <2>2 DEF Backed, RunsBacked, ReportsBacked
<1>3. \A r \in Upload : status[r] \in Evaluated => WasEvaluated(r)
  BY DEF Backed, RunsBacked
<1>4. CASE \E r \in Run : report_run(p, r)
  <2>1. PICK r \in Run : report_run(p, r)
    BY <1>4
  <2> DEFINE q == [report[p] EXCEPT !.pc = "findings", !.run = r, !.status = status[r]]
  <2>2. /\ report' = [report EXCEPT ![p] = q]
        /\ UNCHANGED <<finding, evaluation, status>>
    BY <2>1 DEF report_run, evaluating
  <2>3. q.pc = "findings" /\ q.run = r /\ q.status = status[r] /\ r \in Upload
    BY <1>1 DEF ReportState, Run, Typed, TypeOK
  <2> HIDE DEF q
  <2> QED  BY <1>2, <1>3, <2>2, <2>3
<1>5. CASE report_findings(p)
  <2> DEFINE q == [report[p] EXCEPT !.pc = "evaluation", !.findings = finding[report[p].run]]
  <2>1. /\ report' = [report EXCEPT ![p] = q] /\ report[p].pc = "findings"
        /\ UNCHANGED <<finding, evaluation, status>>
    BY <1>5 DEF report_findings, evaluating
  <2>2. /\ q.pc = "evaluation" /\ q.run = report[p].run /\ q.status = report[p].status
        /\ q.findings = finding[q.run]
    BY <1>1 DEF ReportState
  <2> HIDE DEF q
  <2>3. q.run \in Upload
    BY <2>1, <2>2 DEF Typed, TypeOK, Referring, Run
  <2>4. q.status \in Evaluated => /\ WasEvaluated(q.run)
                                  /\ q.findings = {} => WasClean(q.run)
    BY <2>1, <2>2, <2>3 DEF Backed, RunsBacked, ReportsBacked
  <2> QED  BY <1>2, <1>3, <2>1, <2>2, <2>4
<1>6. CASE report_evaluation(p)
  <2> DEFINE x == latest_evaluation(report[p].run)
             y == IF require_evaluated(report[p].status) THEN "record" ELSE "refused"
             q == [report[p] EXCEPT !.pc = y, !.evaluation = x]
  <2>1. /\ report' = [report EXCEPT ![p] = q] /\ report[p].pc = "evaluation"
        /\ UNCHANGED <<finding, evaluation, status>>
    BY <1>6 DEF report_evaluation, evaluating
  <2>2. /\ y = "record" => report[p].status \in Evaluated
        /\ y \in {"record", "refused"}
    BY DEF require_evaluated
  <2> HIDE DEF x, y
  <2>3. /\ q.pc = y /\ q.run = report[p].run /\ q.status = report[p].status
        /\ q.findings = report[p].findings
    BY <1>1 DEF ReportState
  <2> HIDE DEF q
  <2>4. q.status \in Evaluated => /\ WasEvaluated(q.run)
                                  /\ q.findings = {} => WasClean(q.run)
    BY <2>1, <2>3 DEF Backed, ReportsBacked
  <2> QED  BY <1>2, <1>3, <2>1, <2>2, <2>3, <2>4
<1>7. CASE record_report(p)
  <2> DEFINE q == [report[p] EXCEPT !.pc = "done"]
  <2>1. /\ report' = [report EXCEPT ![p] = q] /\ report[p].pc = "record"
        /\ UNCHANGED <<finding, evaluation>>
        /\ status' = [status EXCEPT ![report[p].run] = "COMPLETE"]
    BY <1>7 DEF record_report, evaluating
  <2>2. /\ q.pc = "done" /\ q.run = report[p].run /\ q.status = report[p].status
        /\ q.findings = report[p].findings
    BY <1>1 DEF ReportState
  <2>3. /\ report[p].status \in Evaluated /\ WasEvaluated(report[p].run)
        /\ report[p].findings = {} => WasClean(report[p].run)
    BY <2>1 DEF Backed, ReportsBacked
  <2> HIDE DEF q
  <2>4. \A r \in Upload : status'[r] \in Evaluated => WasEvaluated(r)
    BY <1>3, <2>1, <2>3 DEF Typed, TypeOK
  <2> QED  BY <1>2, <2>1, <2>2, <2>3, <2>4
<1> QED  BY <1>4, <1>5, <1>6, <1>7 DEF generate

\* Statuses and reports are backed by evaluations.
LEMMA Backings == Spec => []Backed
<1>1. Init => Backed
  BY DEF Init, Backed, RunsBacked, ReportsBacked, WasEvaluated, WasClean, Evaluated
<1>2. Typed /\ Backed /\ [Next]_vars => Backed'
  <2> SUFFICES ASSUME Typed, Backed, [Next]_vars
               PROVE  Backed'
    OBVIOUS
  <2>1. CASE UNCHANGED vars
    BY <2>1, QuietBacked DEF vars, evaluating
  <2>2. CASE \E u \in Upload : \/ \E f \in File : validate_and_store(u, f)
                              \/ upload_config(u) \/ upload_crashes(u)
    BY <2>2, IngestionBacked
  <2>3. CASE \E m \in parsing : process_config(m) \/ process_config_fails(m)
    BY <2>3, ParsingBacked
  <2>4. CASE \E t \in Evaluation : \/ \E m \in compliance : evaluate_from_queue(t, m)
                                  \/ \E r \in Run, b \in Baseline : evaluate_now(t, r, b)
    BY <2>4, EvaluationBacked
  <2>5. CASE \E t \in Evaluation : evaluate_baseline(t) \/ evaluation_fails(t)
    BY <2>5, EvaluationBacked
  <2>6. CASE \E p \in Report : (\E r \in Run : report_run(p, r)) \/ generate(p)
    BY <2>6, ReportBacked
  <2> QED  BY <2>1, <2>2, <2>3, <2>4, <2>5, <2>6, AuditRunConstants DEF Next
<1> QED  BY <1>1, <1>2, Types, PTL DEF Spec

\* A run in EVALUATED or COMPLETE was evaluated, however uploads, duplicated jobs,
\* evaluations and reports overlap.
THEOREM StatusesAreEarned == Spec => []StatusMeansEvaluated
<1>1. Typed /\ Backed => StatusMeansEvaluated
  BY DEF Backed, RunsBacked, StatusMeansEvaluated, WasEvaluated, Run, Typed, TypeOK
<1> QED  BY <1>1, Types, Backings, PTL

\* A report without findings is of a run that some evaluation found clean.
THEOREM CleanReportsAreTrue == Spec => []CleanReportIsTrue
<1>1. Backed => CleanReportIsTrue
  BY DEF Backed, ReportsBacked, CleanReportIsTrue, WasClean
<1> QED  BY <1>1, Backings, PTL

-----------------------------------------------------------------------------
(* Human review, for jobs delivered once.                                  *)

\* Nothing queued for evaluation is about run r, and no task took anything of it.
Unqueued(r) ==
    /\ \A m \in compliance : m.run # r
    /\ \A t \in Evaluation \ Direct : task[t].run # r

\* A run has one job, which exists from the end of its upload until it is parsed; only
\* then is the run queued for evaluation or sent to review.
JobsOnce ==
    /\ \A m \in parsing : upload[m.run].pc = "done" /\ Unqueued(m.run)
    /\ \A m, n \in parsing : m.run = n.run => m = n
    /\ \A r \in Upload : upload[r].pc \notin {"done", "crashed"} => Unqueued(r)
    /\ \A r \in Upload : status[r] = "NEEDS_REVIEW" =>
            /\ Unqueued(r)
            /\ upload[r].pc \in {"done", "crashed"}
            /\ \A m \in parsing : m.run # r

\* Whose step a step is.
LEMMA Steps ==
    ASSUME Next
    PROVE  \/ \E u \in Upload : \/ \E f \in File : validate_and_store(u, f)
                                \/ upload_config(u) \/ upload_crashes(u)
           \/ \E m \in parsing : process_config(m) \/ process_config_fails(m)
           \/ \E t \in Evaluation : \/ \E m \in compliance : evaluate_from_queue(t, m)
                                    \/ \E r \in Run, b \in Baseline : evaluate_now(t, r, b)
                                    \/ evaluate_baseline(t) \/ evaluation_fails(t)
           \/ \E p \in Report : (\E r \in Run : report_run(p, r)) \/ generate(p)
<1>1. CASE \E u \in Upload, f \in File : validate_and_store(u, f)
  BY <1>1
<1>2. CASE \E u \in Upload : upload_config(u) \/ upload_crashes(u)
  BY <1>2
<1>3. CASE \E m \in parsing : process_config(m) \/ process_config_fails(m)
  BY <1>3
<1>4. CASE \E t \in Evaluation, m \in compliance : evaluate_from_queue(t, m)
  BY <1>4
<1>5. CASE \E t \in Direct, r \in Run, b \in Baseline : evaluate_now(t, r, b)
  BY <1>5, AuditRunConstants
<1>6. CASE \E t \in Evaluation : evaluate_baseline(t) \/ evaluation_fails(t)
  BY <1>6
<1>7. CASE \E p \in Report : (\E r \in Run : report_run(p, r)) \/ generate(p)
  BY <1>7
<1> QED  BY <1>1, <1>2, <1>3, <1>4, <1>5, <1>6, <1>7 DEF Next

\* A step that queues nothing for r, and takes nothing of it from the queue.
LEMMA StaysUnqueued ==
    ASSUME NEW r, Unqueued(r), \A m \in compliance' : m \in compliance \/ m.run # r,
           \A t \in Evaluation \ Direct : task'[t].run = r => task[t].run = r
    PROVE  Unqueued(r)'
BY DEF Unqueued

\* A step that leaves uploads alone, starts no job and queues nothing.
LEMMA JobsKept ==
    ASSUME JobsOnce, UNCHANGED upload, parsing' \subseteq parsing,
           \A r \in Upload : status'[r] = "NEEDS_REVIEW" => status[r] = "NEEDS_REVIEW",
           \A r : Unqueued(r) => Unqueued(r)'
    PROVE  JobsOnce'
BY DEF JobsOnce

\* An upload starts the job of its own run, once, when it ends.
LEMMA IngestionJobs ==
    ASSUME MaxCopies = 1, Typed, JobsOnce, NEW u \in Upload,
           (\E f \in File : validate_and_store(u, f)) \/ upload_config(u) \/ upload_crashes(u)
    PROVE  JobsOnce'
<1>1. /\ UNCHANGED <<compliance, task>>
      /\ status' = status \/ status' = [status EXCEPT ![u] = "INGESTED"]
  BY DEF validate_and_store, upload_config, get_audit_run_id_by_hash, create_audit_run,
         enqueue_parsing_job, upload_crashes, evaluating, queues
<1>2. \A r : Unqueued(r)' <=> Unqueued(r)
  BY <1>1 DEF Unqueued
<1>3. \A r \in Upload : status'[r] = "NEEDS_REVIEW" => status[r] = "NEEDS_REVIEW"
  BY <1>1 DEF Typed, TypeOK
<1>4. upload \in [Upload -> UploadState] /\ \A m \in parsing : m.run \in Upload
  BY DEF Typed, TypeOK, Run
<1>5. ASSUME NEW q, upload' = [upload EXCEPT ![u] = q], UNCHANGED parsing,
             upload[u].pc \in {"idle", "check", "create", "enqueue"}
      PROVE  JobsOnce'
  <2>1. \A r \in Upload : r # u => upload'[r] = upload[r]
    BY <1>4, <1>5
  <2>2. \A m \in parsing : m.run # u
    BY <1>5 DEF JobsOnce
  <2>3. Unqueued(u)' /\ status'[u] # "NEEDS_REVIEW"
    BY <1>2, <1>3, <1>5 DEF JobsOnce
  <2> QED  BY <1>2, <1>3, <1>4, <1>5, <2>1, <2>2, <2>3 DEF JobsOnce
<1>6. CASE enqueue_parsing_job(u)
  <2> DEFINE new == [run |-> u, copy |-> 1]
  <2>1. PICK copies \in Deliveries :
            parsing' = parsing \cup {[run |-> u, copy |-> i] : i \in copies}
    BY <1>6 DEF enqueue_parsing_job
  <2>2. copies = {1}
    BY <2>1, MaxCopies = 1 DEF Deliveries
  <2>3. parsing' = parsing \cup {new} /\ new.run = u
    BY <2>1, <2>2
  <2>4. upload[u].pc = "enqueue" /\ upload'[u].pc = "done"
        /\ \A r \in Upload : r # u => upload'[r] = upload[r]
    BY <1>4, <1>6 DEF enqueue_parsing_job
  <2> HIDE DEF new
  <2>5. Unqueued(u)' /\ status'[u] # "NEEDS_REVIEW" /\ \A m \in parsing : m.run # u
    BY <1>2, <1>3, <2>4 DEF JobsOnce
  <2>6. \A m \in parsing' : upload'[m.run].pc = "done" /\ Unqueued(m.run)'
    BY <1>2, <1>4, <2>3, <2>4, <2>5 DEF JobsOnce
  <2>7. \A m, n \in parsing' : m.run = n.run => m = n
    BY <2>3, <2>5 DEF JobsOnce
  <2>8. \A r \in Upload : upload'[r].pc \notin {"done", "crashed"} => Unqueued(r)'
    BY <1>2, <2>4 DEF JobsOnce
  <2>9. \A r \in Upload : status'[r] = "NEEDS_REVIEW" =>
            /\ Unqueued(r)' /\ upload'[r].pc \in {"done", "crashed"}
            /\ \A m \in parsing' : m.run # r
    BY <1>2, <1>3, <2>3, <2>4, <2>5 DEF JobsOnce
  <2> QED  BY <2>6, <2>7, <2>8, <2>9 DEF JobsOnce
<1>7. CASE \E f \in File : validate_and_store(u, f)
  <2>1. PICK f \in File : validate_and_store(u, f)
    BY <1>7
  <2>2. \E q : upload' = [upload EXCEPT ![u] = q]
    BY <2>1 DEF validate_and_store
  <2> QED  BY <1>5, <2>1, <2>2 DEF validate_and_store, queues
<1>8. CASE get_audit_run_id_by_hash(u)
  <2>1. \E q : upload' = [upload EXCEPT ![u] = q]
    BY <1>8 DEF get_audit_run_id_by_hash
  <2> QED  BY <1>5, <1>8, <2>1 DEF get_audit_run_id_by_hash, queues
<1>9. CASE create_audit_run(u)
  <2>1. \E q : upload' = [upload EXCEPT ![u] = q]
    BY <1>9 DEF create_audit_run
  <2> QED  BY <1>5, <1>9, <2>1 DEF create_audit_run, queues
<1>10. CASE upload_crashes(u)
  <2>1. \E q : upload' = [upload EXCEPT ![u] = q]
    BY <1>10 DEF upload_crashes
  <2> QED  BY <1>5, <1>10, <2>1 DEF upload_crashes, queues
<1> QED
  BY <1>6, <1>7, <1>8, <1>9, <1>10 DEF upload_config

\* A job ends in review or in the compliance queue, never in both.
LEMMA ParsingJobs ==
    ASSUME Typed, JobsOnce, NEW m \in parsing, process_config(m) \/ process_config_fails(m)
    PROVE  JobsOnce'
<1>1. parsing' = parsing \ {m} /\ UNCHANGED <<upload, task>>
  BY DEF process_config, process_config_reviews, process_config_submits,
         process_config_fails, evaluating, ingestion
<1>2. /\ m.run \in Upload /\ upload[m.run].pc = "done" /\ Unqueued(m.run)
      /\ \A n \in parsing' : n.run # m.run
      /\ status[m.run] # "NEEDS_REVIEW"
  BY <1>1 DEF JobsOnce, Typed, TypeOK, Run
<1>3. CASE process_config_submits(m)
  <2>1. \A n \in compliance' : n \in compliance \/ n.run = m.run
    BY <1>3 DEF process_config_submits
  <2>2. \A r : r # m.run /\ Unqueued(r) => Unqueued(r)'
    BY <1>1, <2>1 DEF Unqueued
  <2>3. status' = status
    BY <1>3 DEF process_config_submits
  <2> QED  BY <1>1, <1>2, <2>2, <2>3 DEF JobsOnce
<1>4. CASE process_config_reviews(m)
  <2>1. compliance' = compliance /\ status' = [status EXCEPT ![m.run] = "NEEDS_REVIEW"]
    BY <1>4 DEF process_config_reviews, mark_needs_review
  <2>2. \A r : Unqueued(r)' <=> Unqueued(r)
    BY <1>1, <2>1 DEF Unqueued
  <2>3. \A r \in Upload : r # m.run => status'[r] = status[r]
    BY <2>1 DEF Typed, TypeOK
  <2> QED  BY <1>1, <1>2, <2>2, <2>3 DEF JobsOnce
<1>5. CASE process_config_fails(m)
  <2>1. UNCHANGED <<compliance, status>>
    BY <1>5 DEF process_config_fails
  <2>2. \A r : Unqueued(r) => Unqueued(r)'
    BY <1>1, <2>1 DEF Unqueued
  <2> QED  BY <1>1, <2>1, <2>2, JobsKept
<1> QED  BY <1>3, <1>4, <1>5 DEF process_config

\* What a task takes was queued, and it evaluates nothing else.
LEMMA EvaluationJobs ==
    ASSUME Typed, JobsOnce, NEW t \in Evaluation,
           \/ \E m \in compliance : evaluate_from_queue(t, m)
           \/ \E r \in Run, b \in Baseline : evaluate_now(t, r, b)
           \/ evaluate_baseline(t) \/ evaluation_fails(t)
    PROVE  JobsOnce'
<1>1. UNCHANGED <<upload, parsing>>
  BY DEF evaluate_from_queue, evaluate_now, evaluate_baseline, delete_starts, delete_ends,
         insert_findings, insert_aborts, stamp, commit, save_anomaly, dispatch,
         evaluation_fails, ingestion, queues
<1>2. task \in [Evaluation -> TaskState] /\ status \in [Upload -> Statuses]
  BY DEF Typed, TypeOK
<1>3. CASE \E m \in compliance : evaluate_from_queue(t, m)
  <2>1. PICK m \in compliance : evaluate_from_queue(t, m)
    BY <1>3
  <2>2. compliance' \subseteq compliance /\ status' = status
    BY <2>1 DEF evaluate_from_queue
  <2>3. \A o \in Evaluation : task'[o].run = task[o].run \/ task'[o].run = m.run
    BY <1>2, <2>1 DEF evaluate_from_queue, start, TaskState
  <2>4. \A r : Unqueued(r) => Unqueued(r)'
    BY <2>1, <2>2, <2>3 DEF Unqueued
  <2> QED  BY <1>1, <2>2, <2>4, JobsKept
<1>4. CASE \E r \in Run, b \in Baseline : evaluate_now(t, r, b)
  <2>1. compliance' = compliance /\ status' = status /\ t \in Direct
    BY <1>4 DEF evaluate_now, queues
  <2>2. \A o \in Evaluation : o # t => task'[o] = task[o]
    BY <1>2, <1>4 DEF evaluate_now, start
  <2>3. \A r : Unqueued(r) => Unqueued(r)'
    BY <2>1, <2>2 DEF Unqueued
  <2> QED  BY <1>1, <2>1, <2>3, JobsKept
<1>5. CASE evaluate_baseline(t) \/ evaluation_fails(t)
  <2>1. compliance' = compliance
    BY <1>5 DEF evaluate_baseline, delete_starts, delete_ends, insert_findings, insert_aborts,
           stamp, commit, save_anomaly, dispatch, evaluation_fails, queues
  <2>2. \A o \in Evaluation : task'[o].run = task[o].run
    BY <1>2, <1>5 DEF evaluate_baseline, delete_starts, delete_ends, insert_findings,
           insert_aborts, stamp, commit, save_anomaly, dispatch, evaluation_fails, TaskState
  <2>3. status' = status \/ status' = [status EXCEPT ![task[t].run] = "EVALUATED"]
    BY <1>5 DEF evaluate_baseline, delete_starts, delete_ends, insert_findings, insert_aborts,
           stamp, commit, save_anomaly, dispatch, evaluation_fails
  <2>4. \A r \in Upload : status'[r] = "NEEDS_REVIEW" => status[r] = "NEEDS_REVIEW"
    BY <1>2, <2>3
  <2>5. \A r : Unqueued(r) => Unqueued(r)'
    BY <2>1, <2>2 DEF Unqueued
  <2> QED  BY <1>1, <2>4, <2>5, JobsKept
<1> QED  BY <1>3, <1>4, <1>5

\* A report reopens nothing.
LEMMA ReportJobs ==
    ASSUME Typed, JobsOnce, NEW p \in Report, (\E r \in Run : report_run(p, r)) \/ generate(p)
    PROVE  JobsOnce'
<1>1. /\ UNCHANGED <<upload, parsing, compliance, task>>
      /\ status' = status \/ status' = [status EXCEPT ![report[p].run] = "COMPLETE"]
  BY DEF report_run, generate, report_findings, report_evaluation, record_report,
         ingestion, queues, evaluating
<1>2. \A r \in Upload : status'[r] = "NEEDS_REVIEW" => status[r] = "NEEDS_REVIEW"
  BY <1>1 DEF Typed, TypeOK
<1>3. \A r : Unqueued(r) => Unqueued(r)'
  BY <1>1 DEF Unqueued
<1> QED  BY <1>1, <1>2, <1>3, JobsKept

\* A run sent to review reaches no queued evaluation, whatever overlaps, when the broker
\* delivers each job once.
THEOREM ReviewsAreFinal ==
    ASSUME MaxCopies = 1
    PROVE  Spec => []ReviewIsFinal
<1>1. Init => JobsOnce
  BY AuditRunConstants DEF Init, JobsOnce, Unqueued
<1>2. Typed /\ JobsOnce /\ [Next]_vars => JobsOnce'
  <2> SUFFICES ASSUME Typed, JobsOnce, [Next]_vars
               PROVE  JobsOnce'
    OBVIOUS
  <2>1. CASE UNCHANGED vars
    <3>1. \A r : Unqueued(r) => Unqueued(r)'
      BY <2>1 DEF vars, queues, evaluating, Unqueued
    <3> QED  BY <2>1, <3>1, JobsKept DEF vars, ingestion, queues
  <2>2. CASE \E u \in Upload : \/ \E f \in File : validate_and_store(u, f)
                               \/ upload_config(u) \/ upload_crashes(u)
    BY <2>2, IngestionJobs, MaxCopies = 1
  <2>3. CASE \E m \in parsing : process_config(m) \/ process_config_fails(m)
    BY <2>3, ParsingJobs
  <2>4. CASE \E t \in Evaluation : \/ \E m \in compliance : evaluate_from_queue(t, m)
                                   \/ \E r \in Run, b \in Baseline : evaluate_now(t, r, b)
                                   \/ evaluate_baseline(t) \/ evaluation_fails(t)
    BY <2>4, EvaluationJobs
  <2>5. CASE \E p \in Report : (\E r \in Run : report_run(p, r)) \/ generate(p)
    BY <2>5, ReportJobs
  <2> QED  BY <2>1, <2>2, <2>3, <2>4, <2>5, Steps
<1>3. Typed /\ JobsOnce => ReviewIsFinal
  BY DEF Typed, TypeOK, Run, JobsOnce, Unqueued, ReviewIsFinal
<1> QED  BY <1>1, <1>2, <1>3, Types, PTL DEF Spec

-----------------------------------------------------------------------------
(* Findings. A transaction deletes whole evaluations, and is stamped later *)
(* than each of them, so what the latest one found is there.               *)

\* The row that ORDER BY evaluated_at DESC LIMIT 1 selects, when there is one.
LEMMA LatestOfRun ==
    ASSUME Typed, NEW r, WasEvaluated(r)
    PROVE  \E e \in evaluation : /\ e.run = r /\ e.id = latest_evaluation(r)
                                 /\ \A x \in evaluation : x.run = r =>
                                        x.evaluated_at <= e.evaluated_at
<1> DEFINE S == {e \in evaluation : e.run = r}
           T == {e.evaluated_at : e \in S}
           First(e) == \A x \in S : x.evaluated_at <= e.evaluated_at
<1>1. S # {} /\ clock \in Nat /\ \A e \in S : e.evaluated_at \in Nat /\ e.evaluated_at < clock
  BY DEF WasEvaluated, Typed, TypeOK, Stamped
<1>2. T \in SUBSET Nat /\ T # {} /\ \A i \in T : i <= clock
  <2> HIDE DEF S
  <2> QED  BY <1>1
<1>3. PICK m \in T : \A j \in T : j <= m
  <2> HIDE DEF T
  <2> QED  BY <1>1, <1>2, Largest
<1>4. \E e \in S : First(e)
  BY <1>3
<1>5. (CHOOSE e \in S : First(e)) \in S /\ First(CHOOSE e \in S : First(e))
  <2> HIDE DEF S, First
  <2> QED  BY <1>4
<1>6. latest_evaluation(r) = (CHOOSE e \in S : First(e)).id
  BY <1>1 DEF latest_evaluation
<1>7. PICK e \in S : First(e) /\ e.id = latest_evaluation(r)
  <2> HIDE DEF S, First
  <2> QED  BY <1>5, <1>6
<1> QED  BY <1>7

\* What is on record was committed by a task that got so far, each on its own.
HasCommitted(t) == task[t].pc \in {"anomaly", "notify", "done", "failed"}
Committed ==
    /\ \A e \in evaluation : HasCommitted(e.id)
    /\ \A e, x \in evaluation : e.id = x.id => e = x

\* S holds all that some evaluations of run r found, and nothing else.
Whole(S, r) ==
    \A row \in S : \E e \in evaluation :
        /\ e.run = r /\ e.id = row[2]
        /\ row \in found_by(e) /\ found_by(e) \subseteq S

\* What a transaction saw, what it deletes, and what it is stamped later than.
Deletes(k) ==
    /\ k.pc = "deleting" => Whole(k.seen, k.run)
    /\ k.pc \in {"insert", "stamp", "commit"} => Whole(k.deleted, k.run)
    /\ k.pc = "commit" =>
          \A e \in evaluation : e.run = k.run /\ found_by(e) \cap k.deleted # {} =>
              e.evaluated_at < k.at

\* An evaluation whose findings are gone is not the latest.
Kept ==
    \A e \in evaluation :
        \/ found_by(e) \subseteq finding[e.run]
        \/ \E x \in evaluation : x.run = e.run /\ e.evaluated_at < x.evaluated_at

\* The evaluations a report shows are no later than evaluation id, which it cites.
Cites(S, r, id) ==
    \A row \in S : \E e \in evaluation, cited \in evaluation :
        /\ e.id = row[2] /\ e.run = r
        /\ cited.id = id /\ cited.run = r
        /\ e.evaluated_at <= cited.evaluated_at
        /\ found_by(e) \subseteq S

Shows(k) ==
    /\ k.pc = "evaluation" => Whole(k.findings, k.run)
    /\ k.pc \in {"record", "done"} => Cites(k.findings, k.run, k.evaluation)

Lasting ==
    /\ Committed /\ Kept
    /\ \A r \in Upload : Whole(finding[r], r)
    /\ \A t \in Evaluation : Deletes(task[t])
    /\ \A p \in Report : Shows(report[p])

\* Evaluations are added, never changed.
LEMMA StaysWhole ==
    ASSUME evaluation \subseteq evaluation', NEW S, NEW r
    PROVE  /\ Whole(S, r) => Whole(S, r)'
           /\ \A id : Cites(S, r, id) => Cites(S, r, id)'
BY DEF Whole, Cites, found_by

\* Steps of ingestion and parsing.
LEMMA QuietLasting ==
    ASSUME Lasting, UNCHANGED <<task, finding, evaluation, report>>
    PROVE  Lasting'
BY DEF Lasting, Committed, HasCommitted, Kept, Whole, Deletes, Shows, Cites, found_by

\* A step of a task that commits nothing.
LEMMA TaskLasting ==
    ASSUME Typed, Lasting, NEW t \in Evaluation, NEW q, task' = [task EXCEPT ![t] = q],
           HasCommitted(t) => q.pc \in {"anomaly", "notify", "done", "failed"},
           Deletes(q), UNCHANGED <<finding, evaluation, report>>
    PROVE  Lasting'
<1>1. \A o \in Evaluation : task'[o] = IF o = t THEN q ELSE task[o]
  BY DEF Typed, TypeOK
<1>2. Committed'
  BY <1>1 DEF Lasting, Committed, HasCommitted, Typed, TypeOK
<1>3. \A o \in Evaluation : Deletes(task[o])'
  <2>1. \A o \in Evaluation : Deletes(task'[o])
    BY <1>1 DEF Lasting
  <2> QED  BY <2>1 DEF Deletes, Whole, found_by
<1>4. Kept' /\ (\A r \in Upload : Whole(finding[r], r)') /\ \A p \in Report : Shows(report[p])'
  BY DEF Lasting, Kept, Whole, Shows, Cites, found_by
<1> QED  BY <1>2, <1>3, <1>4 DEF Lasting

\* A task that starts has seen nothing.
LEMMA StartLasting ==
    ASSUME Typed, Lasting, NEW t \in Evaluation,
           \/ \E m \in compliance : evaluate_from_queue(t, m)
           \/ \E r \in Run, b \in Baseline : evaluate_now(t, r, b)
    PROVE  Lasting'
<1>1. PICK r, b : start(t, r, b)
  BY DEF evaluate_from_queue, evaluate_now
<1>2. UNCHANGED <<finding, evaluation, report>>
  BY DEF evaluate_from_queue, evaluate_now
<1> DEFINE q == [task[t] EXCEPT !.pc = "delete", !.run = r, !.baseline = b]
<1>3. task' = [task EXCEPT ![t] = q] /\ q.pc = "delete" /\ task[t].pc = "idle"
  BY <1>1 DEF start, Typed, TypeOK, TaskState
<1> HIDE DEF q
<1> QED  BY <1>2, <1>3, TaskLasting DEF Deletes, HasCommitted

\* The transaction removes whole evaluations, all of them older, and adds its own.
LEMMA CommitLasting ==
    ASSUME Typed, Lasting, NEW t \in Evaluation, commit(t)
    PROVE  Lasting'
<1>0. PICK r : r = task[t].run
  OBVIOUS
<1>01. PICK D : D = task[t].deleted
  OBVIOUS
<1> DEFINE x == [run |-> r, id |-> t, baseline |-> task[t].baseline, evaluated_at |-> task[t].at]
           q == [task[t] EXCEPT !.pc = "anomaly"]
<1>1. /\ task[t].pc = "commit" /\ report' = report
      /\ finding' = [finding EXCEPT ![r] = (@ \ D) \cup (failing(t) \X {t})]
      /\ evaluation' = evaluation \cup {x} /\ task' = [task EXCEPT ![t] = q]
  BY <1>0, <1>01 DEF commit
<1>2. /\ x.run = r /\ x.id = t /\ x.evaluated_at = task[t].at
      /\ found_by(x) = failing(t) \X {t} /\ q.pc = "anomaly"
  BY DEF found_by, failing, Typed, TypeOK, TaskState
<1> HIDE DEF x, q
<1>3. \A o \in Evaluation : task'[o] = IF o = t THEN q ELSE task[o]
  BY <1>1 DEF Typed, TypeOK
<1>4. r \in Upload
  BY <1>0, <1>1 DEF Typed, TypeOK, Referring, Run
<1>5. /\ finding'[r] = (finding[r] \ D) \cup found_by(x)
      /\ \A y \in Upload : y # r => finding'[y] = finding[y]
  BY <1>1, <1>2, <1>4 DEF Typed, TypeOK
<1>6. \A e \in evaluation : e.id \in Evaluation /\ e.id # t /\ e.run \in Upload
  BY <1>1 DEF Lasting, Committed, HasCommitted, Typed, TypeOK, Run
<1>7. /\ Whole(D, r)
      /\ \A e \in evaluation : e.run = r /\ found_by(e) \cap D # {} => e.evaluated_at < x.evaluated_at
  BY <1>0, <1>01, <1>1, <1>2 DEF Lasting, Deletes
<1>8. Committed'
  BY <1>1, <1>2, <1>3, <1>6 DEF Lasting, Committed, HasCommitted
<1>9. Kept'
  <2>1. ASSUME NEW e \in evaluation'
        PROVE  \/ found_by(e) \subseteq finding'[e.run]
               \/ \E z \in evaluation' : z.run = e.run /\ e.evaluated_at < z.evaluated_at
    <3>1. CASE e = x
      BY <1>2, <1>5, <3>1
    <3>2. CASE e \in evaluation
      <4>1. \/ found_by(e) \subseteq finding[e.run]
            \/ \E z \in evaluation : z.run = e.run /\ e.evaluated_at < z.evaluated_at
        BY <3>2 DEF Lasting, Kept
      <4>2. CASE e.run = r /\ found_by(e) \cap D # {}
        BY <1>1, <1>2, <1>7, <3>2, <4>2
      <4>3. CASE e.run = r /\ found_by(e) \cap D = {}
        BY <1>1, <1>5, <4>1, <4>3
      <4>4. CASE e.run # r
        BY <1>1, <1>5, <1>6, <3>2, <4>1, <4>4
      <4> QED  BY <4>2, <4>3, <4>4
    <3> QED  BY <1>1, <3>1, <3>2
  <2> QED  BY <2>1 DEF Kept, found_by
<1>10. ASSUME NEW y \in Upload, NEW S, S = finding'[y]
       PROVE  Whole(S, y)'
  <2>1. CASE y # r
    BY <1>1, <1>5, <1>10, <2>1, StaysWhole DEF Lasting
  <2>2. CASE y = r
    <3> SUFFICES ASSUME NEW row \in S
                 PROVE  \E e \in evaluation' : /\ e.run = r /\ e.id = row[2]
                                               /\ row \in found_by(e) /\ found_by(e) \subseteq S
      BY <2>2 DEF Whole, found_by
    <3>1. CASE row \in found_by(x)
      BY <1>1, <1>2, <1>5, <1>10, <2>2, <3>1
    <3>2. CASE row \in finding[r] \ D
      <4>1. PICK e \in evaluation : /\ e.run = r /\ e.id = row[2] /\ row \in found_by(e)
                                    /\ found_by(e) \subseteq finding[r]
        BY <1>4, <3>2 DEF Lasting, Whole
      <4>2. ASSUME NEW other \in found_by(e), other \in D
            PROVE  FALSE
        <5>1. PICK z \in evaluation : z.id = other[2] /\ found_by(z) \subseteq D
          BY <1>7, <4>2 DEF Whole
        <5>2. other[2] = e.id
          BY <4>2 DEF found_by
        <5>3. z = e
          BY <5>1, <5>2 DEF Lasting, Committed
        <5> QED  BY <3>2, <4>1, <5>1, <5>3
      <4> QED  BY <1>1, <1>5, <1>10, <2>2, <4>1, <4>2
    <3> QED  BY <1>5, <1>10, <2>2, <3>1, <3>2
  <2> QED  BY <2>1, <2>2
<1>11. ASSUME NEW o \in Evaluation, NEW k, k = task'[o]
       PROVE  Deletes(k)'
  <2>1. CASE o = t
    BY <1>2, <1>3, <1>11, <2>1 DEF Deletes
  <2>2. CASE o # t
    <3>1. Deletes(k)
      BY <1>3, <1>11, <2>2 DEF Lasting
    <3>2. k.pc = "commit" => found_by(x) \cap k.deleted = {}
      <4> SUFFICES ASSUME k.pc = "commit", NEW row \in found_by(x), row \in k.deleted
                   PROVE  FALSE
        OBVIOUS
      <4>1. PICK e \in evaluation : e.id = row[2]
        BY <3>1 DEF Deletes, Whole
      <4>2. row[2] = t
        BY <1>2
      <4> QED  BY <1>6, <4>1, <4>2
    <3>3. /\ k.pc = "deleting" => Whole(k.seen, k.run)'
          /\ k.pc \in {"insert", "stamp", "commit"} => Whole(k.deleted, k.run)'
      <4>1. evaluation \subseteq evaluation'
        BY <1>1
      <4>2. \A S, y : Whole(S, y) => Whole(S, y)'
        BY <4>1, StaysWhole
      <4> QED  BY <3>1, <4>2 DEF Deletes
    <3> QED  BY <1>1, <3>1, <3>2, <3>3 DEF Deletes, found_by
  <2> QED  BY <2>1, <2>2
<1>12. ASSUME NEW p \in Report, NEW k, k = report'[p]
       PROVE  Shows(k)'
  <2>1. Shows(k) /\ evaluation \subseteq evaluation'
    BY <1>1, <1>12 DEF Lasting
  <2>2. \A S, y : /\ Whole(S, y) => Whole(S, y)'
                  /\ \A id : Cites(S, y, id) => Cites(S, y, id)'
    BY <2>1, StaysWhole
  <2> QED  BY <2>1, <2>2 DEF Shows
<1> QED  BY <1>8, <1>9, <1>10, <1>11, <1>12 DEF Lasting

\* The other steps of a task.
LEMMA EvaluationLasting ==
    ASSUME Typed, Lasting, NEW t \in Evaluation, evaluate_baseline(t) \/ evaluation_fails(t)
    PROVE  Lasting'
<1>1. task[t] \in TaskState /\ Deletes(task[t])
  BY DEF Typed, TypeOK, Lasting
<1>2. CASE delete_starts(t)
  <2> DEFINE q == [task[t] EXCEPT !.pc = "deleting", !.seen = finding[task[t].run]]
  <2>1. /\ task[t].pc = "delete" /\ task' = [task EXCEPT ![t] = q]
        /\ UNCHANGED <<finding, evaluation, report>>
    BY <1>2 DEF delete_starts
  <2>2. q.pc = "deleting" /\ q.seen = finding[q.run] /\ q.run = task[t].run
    BY <1>1 DEF TaskState
  <2> HIDE DEF q
  <2>3. q.run \in Upload
    BY <2>1, <2>2 DEF Typed, TypeOK, Referring, Run
  <2> QED  BY <2>1, <2>2, <2>3, TaskLasting DEF Deletes, HasCommitted, Lasting
<1>3. CASE delete_ends(t)
  <2>0. PICK r : r = task[t].run
    OBVIOUS
  <2> DEFINE q == [task[t] EXCEPT !.pc = "insert", !.deleted = task[t].seen \cap finding[r]]
  <2>1. /\ task[t].pc = "deleting" /\ task' = [task EXCEPT ![t] = q]
        /\ UNCHANGED <<finding, evaluation, report>>
    BY <1>3, <2>0 DEF delete_ends
  <2>2. q.pc = "insert" /\ q.run = r /\ q.deleted = task[t].seen \cap finding[r]
    BY <1>1, <2>0 DEF TaskState
  <2>3. r \in Upload /\ Whole(task[t].seen, r) /\ Whole(finding[r], r)
    BY <1>1, <2>0, <2>1 DEF Typed, TypeOK, Referring, Run, Deletes, Lasting
  <2>4. Whole(task[t].seen \cap finding[r], r)
    BY <2>3 DEF Whole, Lasting, Committed
  <2> HIDE DEF q
  <2> QED  BY <2>1, <2>2, <2>4, TaskLasting DEF Deletes, HasCommitted
<1>4. CASE insert_findings(t)
  <2> DEFINE f == newly_detected(task[t].run, failing(t))
             q == [task[t] EXCEPT !.pc = "stamp", !.fresh = f]
  <2>1. /\ task[t].pc = "insert" /\ task' = [task EXCEPT ![t] = q]
        /\ UNCHANGED <<finding, evaluation, report>>
    BY <1>4 DEF insert_findings
  <2> HIDE DEF f
  <2>2. q.pc = "stamp" /\ q.run = task[t].run /\ q.deleted = task[t].deleted
    BY <1>1 DEF TaskState
  <2> HIDE DEF q
  <2> QED  BY <1>1, <2>1, <2>2, TaskLasting DEF Deletes, HasCommitted
<1>5. CASE stamp(t)
  <2> DEFINE q == [task[t] EXCEPT !.pc = "commit", !.at = clock]
  <2>1. /\ task[t].pc = "stamp" /\ task' = [task EXCEPT ![t] = q]
        /\ UNCHANGED <<finding, evaluation, report>>
    BY <1>5 DEF stamp
  <2>2. q.pc = "commit" /\ q.run = task[t].run /\ q.deleted = task[t].deleted /\ q.at = clock
    BY <1>1 DEF TaskState
  <2>3. \A e \in evaluation : e.evaluated_at < clock
    BY DEF Typed, Stamped
  <2> HIDE DEF q
  <2> QED  BY <1>1, <2>1, <2>2, <2>3, TaskLasting DEF Deletes, HasCommitted
<1>6. ASSUME NEW s \in {"notify", "done", "failed"},
             task' = [task EXCEPT ![t] = [task[t] EXCEPT !.pc = s]],
             UNCHANGED <<finding, evaluation, report>>
      PROVE  Lasting'
  <2> DEFINE q == [task[t] EXCEPT !.pc = s]
  <2>1. q.pc = s
    BY <1>1 DEF TaskState
  <2>2. task' = [task EXCEPT ![t] = q]
    BY <1>6
  <2> HIDE DEF q
  <2> QED  BY <1>6, <2>1, <2>2, TaskLasting DEF Deletes
<1>7. CASE save_anomaly(t)
  <2>1. task' = [task EXCEPT ![t] = [task[t] EXCEPT !.pc = "notify"]]
        /\ UNCHANGED <<finding, evaluation, report>>
    BY <1>7 DEF save_anomaly
  <2> QED  BY <1>6, <2>1
<1>8. CASE dispatch(t)
  <2>1. task' = [task EXCEPT ![t] = [task[t] EXCEPT !.pc = "done"]]
        /\ UNCHANGED <<finding, evaluation, report>>
    BY <1>8 DEF dispatch
  <2> QED  BY <1>6, <2>1
<1>9. CASE insert_aborts(t) \/ evaluation_fails(t)
  <2>1. task' = [task EXCEPT ![t] = [task[t] EXCEPT !.pc = "failed"]]
        /\ UNCHANGED <<finding, evaluation, report>>
    BY <1>9 DEF insert_aborts, evaluation_fails
  <2> QED  BY <1>6, <2>1
<1> QED
  BY <1>2, <1>3, <1>4, <1>5, <1>7, <1>8, <1>9, CommitLasting DEF evaluate_baseline

\* A report reads the findings first: what it then finds to be the latest evaluation is no
\* earlier than theirs.
LEMMA ReportLasting ==
    ASSUME Typed, Lasting, NEW p \in Report, (\E r \in Run : report_run(p, r)) \/ generate(p)
    PROVE  Lasting'
<1>1. report[p] \in ReportState /\ Shows(report[p])
  BY DEF Typed, TypeOK, Lasting
<1>2. UNCHANGED <<task, finding, evaluation>>
  BY DEF report_run, generate, report_findings, report_evaluation, record_report, evaluating
<1>3. ASSUME NEW q, report' = [report EXCEPT ![p] = q], Shows(q)
      PROVE  Lasting'
  <2>1. \A o \in Report : report'[o] = IF o = p THEN q ELSE report[o]
    BY <1>3 DEF Typed, TypeOK
  <2>2. \A o \in Report : Shows(report'[o])
    BY <1>3, <2>1 DEF Lasting
  <2>3. \A o \in Report : Shows(report[o])'
    BY <1>2, <2>2 DEF Shows, Whole, Cites, found_by
  <2> QED
    BY <1>2, <2>3 DEF Lasting, Committed, HasCommitted, Kept, Whole, Deletes, found_by
<1>4. CASE \E r \in Run : report_run(p, r)
  <2>1. PICK r \in Run : report_run(p, r)
    BY <1>4
  <2> DEFINE q == [report[p] EXCEPT !.pc = "findings", !.run = r, !.status = status[r]]
  <2>2. report' = [report EXCEPT ![p] = q]
    BY <2>1 DEF report_run
  <2>3. q.pc = "findings"
    BY <1>1 DEF ReportState
  <2> HIDE DEF q
  <2> QED  BY <1>3, <2>2, <2>3 DEF Shows
<1>5. CASE report_findings(p)
  <2>0. PICK r : r = report[p].run
    OBVIOUS
  <2> DEFINE q == [report[p] EXCEPT !.pc = "evaluation", !.findings = finding[r]]
  <2>1. report' = [report EXCEPT ![p] = q] /\ report[p].pc = "findings"
    BY <1>5, <2>0 DEF report_findings
  <2>2. q.pc = "evaluation" /\ q.run = r /\ q.findings = finding[r]
    BY <1>1, <2>0 DEF ReportState
  <2>3. r \in Upload
    BY <2>0, <2>1 DEF Typed, TypeOK, Referring, Run
  <2> HIDE DEF q
  <2> QED  BY <1>3, <2>1, <2>2, <2>3 DEF Shows, Lasting
<1>6. CASE report_evaluation(p)
  <2>0. PICK r, S, x : r = report[p].run /\ S = report[p].findings /\ x = latest_evaluation(r)
    OBVIOUS
  <2> DEFINE y == IF require_evaluated(report[p].status) THEN "record" ELSE "refused"
             q == [report[p] EXCEPT !.pc = y, !.evaluation = x]
  <2>1. report' = [report EXCEPT ![p] = q] /\ report[p].pc = "evaluation"
    BY <1>6, <2>0 DEF report_evaluation
  <2>2. y \in {"record", "refused"}
    OBVIOUS
  <2> HIDE DEF y
  <2>3. q.pc = y /\ q.run = r /\ q.findings = S /\ q.evaluation = x
    BY <1>1, <2>0 DEF ReportState
  <2> HIDE DEF q
  <2>4. Whole(S, r)
    BY <1>1, <2>0, <2>1 DEF Shows
  <2>5. Cites(S, r, x)
    <3> SUFFICES ASSUME NEW row \in S
                 PROVE  \E e \in evaluation, cited \in evaluation :
                            /\ e.id = row[2] /\ e.run = r
                            /\ cited.id = x /\ cited.run = r
                            /\ e.evaluated_at <= cited.evaluated_at
                            /\ found_by(e) \subseteq S
      BY DEF Cites
    <3>1. PICK e \in evaluation : e.run = r /\ e.id = row[2] /\ found_by(e) \subseteq S
      BY <2>4 DEF Whole
    <3>2. PICK cited \in evaluation : /\ cited.run = r /\ cited.id = x
                                      /\ e.evaluated_at <= cited.evaluated_at
      BY <2>0, <3>1, LatestOfRun DEF WasEvaluated
    <3> QED  BY <3>1, <3>2
  <2> QED  BY <1>3, <2>1, <2>2, <2>3, <2>5 DEF Shows
<1>7. CASE record_report(p)
  <2> DEFINE q == [report[p] EXCEPT !.pc = "done"]
  <2>1. report' = [report EXCEPT ![p] = q] /\ report[p].pc = "record"
    BY <1>7 DEF record_report
  <2>2. /\ q.pc = "done" /\ q.run = report[p].run /\ q.findings = report[p].findings
        /\ q.evaluation = report[p].evaluation
    BY <1>1 DEF ReportState
  <2> HIDE DEF q
  <2> QED  BY <1>1, <1>3, <2>1, <2>2 DEF Shows
<1> QED  BY <1>4, <1>5, <1>6, <1>7 DEF generate

\* Whatever overlaps, evaluations replace one another whole, and reports show them whole.
LEMMA Lasts == Spec => []Lasting
<1>1. Init => Lasting
  BY DEF Init, Lasting, Committed, Kept, Whole, Deletes, Shows
<1>2. Typed /\ Lasting /\ [Next]_vars => Lasting'
  <2> SUFFICES ASSUME Typed, Lasting, [Next]_vars
               PROVE  Lasting'
    OBVIOUS
  <2>1. CASE UNCHANGED vars
    BY <2>1, QuietLasting DEF vars, evaluating
  <2>2. CASE \E u \in Upload : \/ \E f \in File : validate_and_store(u, f)
                               \/ upload_config(u) \/ upload_crashes(u)
    <3>1. UNCHANGED <<task, finding, evaluation, report>>
      BY <2>2 DEF validate_and_store, upload_config, get_audit_run_id_by_hash, create_audit_run,
         enqueue_parsing_job, upload_crashes, evaluating
    <3> QED  BY <3>1, QuietLasting
  <2>3. CASE \E m \in parsing : process_config(m) \/ process_config_fails(m)
    <3>1. UNCHANGED <<task, finding, evaluation, report>>
      BY <2>3 DEF process_config, process_config_reviews, process_config_submits,
         process_config_fails, evaluating
    <3> QED  BY <3>1, QuietLasting
  <2>4. CASE \E t \in Evaluation : \/ \E m \in compliance : evaluate_from_queue(t, m)
                                   \/ \E r \in Run, b \in Baseline : evaluate_now(t, r, b)
                                   \/ evaluate_baseline(t) \/ evaluation_fails(t)
    BY <2>4, StartLasting, EvaluationLasting
  <2>5. CASE \E p \in Report : (\E r \in Run : report_run(p, r)) \/ generate(p)
    BY <2>5, ReportLasting
  <2> QED  BY <2>1, <2>2, <2>3, <2>4, <2>5, Steps
<1> QED  BY <1>1, <1>2, Types, PTL DEF Spec

\* However evaluations overlap, no violation the latest one found is missing from the
\* stored findings: the transaction that deletes its rows is stamped after its commit.
THEOREM LatestStaysStored == Spec => []LatestIsStored
<1>1. Typed /\ Lasting => LatestIsStored
  <2> SUFFICES ASSUME Typed, Lasting, NEW r \in Run, NEW e \in evaluation,
                      e.run = r, e.id = latest_evaluation(r)
               PROVE  found_by(e) \subseteq finding[r]
    BY DEF LatestIsStored
  <2>1. PICK m \in evaluation : /\ m.id = latest_evaluation(r)
                                /\ \A x \in evaluation : x.run = r =>
                                       x.evaluated_at <= m.evaluated_at
    BY LatestOfRun DEF WasEvaluated
  <2>2. m = e
    BY <2>1 DEF Lasting, Committed
  <2>3. ~ \E x \in evaluation : x.run = e.run /\ e.evaluated_at < x.evaluated_at
    BY <2>1, <2>2 DEF Typed, Stamped
  <2> QED  BY <2>3 DEF Lasting, Kept
<1> QED  BY <1>1, Types, Lasts, PTL

\* A report shows evaluations whole, and none later than the one whose hash and policy it
\* cites, whatever commits between its reads.
THEOREM ReportsCiteTheLatest == Spec => []ReportCitesTheLatest
<1>1. Lasting => ReportCitesTheLatest
  BY DEF Lasting, Shows, Cites, ReportCitesTheLatest
<1> QED  BY <1>1, Lasts, PTL

=============================================================================

# NetAuditor: specification

NetAuditor audits the configurations of network devices: a configuration is uploaded, parsed
into a vendor-neutral *baseline*, evaluated against a policy bundle, and reported; for every
failed control a remediation can be proposed, approved, applied and rolled back. This directory
holds TLA+ modules of its core logic, TLC configurations that check them on small instances, and
proofs, checked by TLAPS, of what holds for every instance.

Paths below are relative to the repository root (`services/...` is `src/services/...`).

- [1. The system](#1-the-system)
- [2. Plan](#2-plan)
- [3. Modules and how they correspond to the code](#3-modules-and-how-they-correspond-to-the-code)
- [4. Runs](#4-runs)
- [5. Fairness](#5-fairness)
- [6. Where the code disagrees with what is said of it](#6-where-the-code-disagrees-with-what-is-said-of-it)
- [7. Proofs](#7-proofs)
- [8. Abstractions and limits](#8-abstractions-and-limits)

## 1. The system

Python services (FastAPI processes and Celery workers) around one Postgres database, one Redis
broker with the queues `parsing`, `compliance` and `learning`, MinIO for the uploaded files, OPA
for the policies, Neo4j for the topology, ChromaDB for learned examples and Ollama for the models.
Services never call each other except through the gateway, the queues and the shared tables.

| Component | State it keeps | Operations | Talks to |
|---|---|---|---|
| **gateway** (`gateway/app`) | per-client request timestamps; users | proxy each route with its required role, `/token`, rate limit | every service, by HTTP |
| **ingestion** (`services/ingestion`) | `audit_runs` rows, files in MinIO by hash | `POST /upload`: validate, redact, store, deduplicate, create the run, queue the job | Postgres, MinIO, the `parsing` queue |
| **parsing** (`services/parsing`) | the parse cache (Redis) | `process_config`: parse chunks with the model, gate them, merge, cross-check with TextFSM, publish or ask for review | Ollama, ChromaDB, `audit_runs`, queues `compliance`, `learning` |
| **compliance** (`services/compliance`) | `compliance_findings`, `audit_evaluations`, `ledger_events`, anomaly and topology tables, the Neo4j graph | evaluate a baseline (queue or `POST /evaluate`), store findings, announce new violations; what-if reads | OPA, Neo4j, Postgres, webhooks |
| **remediation** (`services/remediation`) | `remediation_proposals`, `ledger_events` | generate (one control, or all of a run), approve, reject, apply, roll back | Postgres, webhooks, Ollama |
| **reporting** (`services/reporting`) | `audit_runs.status`, the PDF | `POST /reports/generate`, score, MTTR, effort | Postgres |
| **learning** (`services/learning/backend`) | the queue of unknown blocks, the vector store | receive a block, map it, reject it, promote it | ChromaDB, Postgres |
| **database** (`infra/postgres/init.sql`) | the tables | keys, checks, cascades | - |

Also in the repository: `services/schema` (types only), the frontend, benchmarks, demo scripts.

What makes the behaviour hard, and what must hold nevertheless:

- *Remediation* is one asyncio process whose requests interleave at every database round trip.
  `approve()` locks the row in one transaction and updates it in the next. Correct means: no
  script is approved that nobody signed, that needs two people and has one, or that did not pass
  preflight; nobody's signature gets lost; whatever is applied can be rolled back; the ledger
  tells what happened to the row.
- *An audit run* crosses four services. Its messages can be lost, repeated and reordered, its
  evaluations can overlap each other and the reports, and a crash can fall between any two
  statements. Correct means: a run whose status says it was evaluated was; no finding of the
  latest evaluation is missing from what is stored; a violation is recorded and announced once, and announced at all;
  a report says what some evaluation found; a run that stalls says why.
- *The decision table and the approval matrix* are pure, and their cases are many: rules in an
  order that matters, bounds open on one side, inputs that may be missing. Correct means: no gap,
  no laxer answer for worse evidence, and nothing put through by one operator that is not local.
- *Parsing* gates, caches and merges what an unreliable model says, in several worker processes
  that share a cache and a store of learned mappings. Correct means: nothing of a file is dropped
  without trace, nothing a gate stopped or another vendor's device said gets into a baseline, and a
  weakness one chunk shows survives the merge and the cross-check.
- *The topology graph* has to reconcile devices that arrive in any order, in concurrent
  transactions, with placeholders for those not seen yet. Correct means: no adjacency is lost or
  invented, and a blast radius holds every neighbour that was there.
- *Policies, fixes and scores* say the same thing in several languages and several files. Correct
  means: a simulated fix satisfies its rule and breaks no other, the dashboard and the report
  agree, and a verdict of SAFE opens no access.
- *The gateway* trusts a token's role and counts calls in a window that slides. Correct means: no
  minute holds more calls than the limit, and a role taken away is gone after one token lifetime.

`PROJECT.json` lists every component with its status and every hazard at its line, with the
properties that watch it.

## 2. Plan

Ordered by what a failure would cost. Done:

1. `DecisionTable`, `ApprovalMatrix`, `Triage`: classification of a finding, from the radius the
   evaluator attaches to the decision. All properties of `Triage` proved.
2. `Remediation`: the proposal lifecycle, and what reporting reads off its ledger; `Contention`: what
   an approval is worth when requests overlap, with the abstract specification `Signoff` and the
   refinement. All safety properties that hold and the refinement proved, for any number of requests
   in flight.
3. `AuditRun`: ingestion, parsing worker, evaluation and report over one database. All safety
   properties that hold proved, for any number of overlapping tasks.
4. `Merge`, `Learning`, `Parsing`, with the abstract specification `ParseJob` and the refinement:
   a parsing job from the inside. All five properties proved, the refinement among them.
5. `Topology`: the graph as concurrent evaluations write and read it. All three properties proved.
6. `Policy`, `WhatIf`: the bundle, the scores, the simulated fixes, the comparison of access lists.
   All properties that hold are proved.
7. `Gateway`: limiter, tokens, roles per route. Both properties proved.

So every safety and action property of a passing run is a theorem. Left, in this order:

8. An abstract specification of an audit run ("awaiting, evaluated, in review") that `AuditRun`
   implements for jobs delivered once.
9. `Parsing` composed with `AuditRun`, so that the confidence and the agreement of a run come from
    its chunks; what is left of `learning` (fingerprints, manuals) and of the aggregates (fleet score).

## 3. Modules and how they correspond to the code

| Module | Models | State |
|---|---|---|
| `DecisionTable` | `remediation/policy/decision_table.yaml`, `app/decision.py` | none; `Rules` is the table, `decide` its evaluation |
| `ApprovalMatrix` | `remediation/app/approval_matrix.py` | none |
| `Triage` | evaluator -> findings -> `_decide`, for one control | finding, run columns, last decision |
| `Remediation` | `remediation/app/main.py`, `app/db.py`; `save_findings` as seen from there | proposals, ledger, findings, requests in progress, row locks, clock |
| `Contention` | which approvals keep their worth when requests overlap | that of `Remediation`, and the scripts a decision met half-saved (history) |
| `Signoff` | what an approval means to those who sign, apply and roll back | per control: standing, whether it takes two, who signed, what was deployed, whether it is contested |
| `AuditRun` | `ingestion/app/main.py`, `parsing/app/worker.py`, `compliance/app/{worker,evaluator,db}.py`, `reporting/app/{main,db}.py` | runs, two queues, evaluation tasks, findings, evaluations, ledger, reports |
| `Merge` | `parsing/app/{merge,agreement,reverse_translation}.py`, the confidence of `worker.py` | none |
| `Learning` | `learning/backend/app/{main,db,unknown_handler}.py`, the grading of `parsing/app/rag.py` | messages, queue of blocks, stored mappings, admins' requests |
| `Parsing` | `parsing/app/{worker,parse_cache,normalizer,vendor_detector}.py` | the cache, the deliveries of jobs; and those of `Learning` |
| `ParseJob` | what the other services may count on of a parsing job | the run, the chunks read and reported, the outcome |
| `Topology` | `compliance/app/graph_client.py`, `_write_topology` of `evaluator.py` | nodes, interfaces, adjacencies, evaluations |
| `Policy` | `policies/generic/generic_level1.rego`, `risk_scorer.py`, reporting's `scoring.py`, `fix_simulation.py` | none |
| `WhatIf` | `compliance/app/{main,counterfactual,reachability_diff}.py` | a run's snapshot, findings and status; the answer |
| `Gateway` | `gateway/app/{main,auth,db}.py` | clock, users, tokens, windows, calls |
| `TriageProofs`, `RemediationProofs`, `ApprovalProofs`, `AuditProofs`, `ParsingProofs`, `TopologyProofs`, `WhatIfProofs`, `GatewayProofs` | the theorems | - |
| `MCTriage`, `MCRemediation`, `MCContention`, `MCAuditRun`, `MCParsing`, `MCTopology`, `MCWhatIf` | the values of constants TLC needs | - |

`Remediation` composes `DecisionTable` and `ApprovalMatrix` (what a proposal is classified as,
who may sign it); `Triage` composes them with the evaluator's side; `Merge` extends `Policy` (an alarm
is what the policies make of a field), `Parsing` composes `Merge` with `Learning` and implements
`ParseJob`; `Contention` extends `Remediation` and implements `Signoff`; `WhatIf` extends `Policy`. `Remediation` and `AuditRun`
overlap in `save_findings`: `Remediation` takes it as one step (it locks out proposals only
through their rows), `AuditRun` takes its transaction apart.

**Remediation.** `row[c]` is the `remediation_proposals` row of control `c` in one run, `ledger`
the `ledger_events` of the run, `req[r]` the local variables of a request's coroutine with `pc`
naming the database step it takes next. `generate`, `generate_for_run`, `approve`,
`mark_applied`, `trigger_rollback` are the endpoints up to their first await; then

- `build`, `build_fails`, `save_proposal`: `_build_proposal` and the upsert of `save_proposal`,
  with the foreign key to the finding;
- `approve_lock` (SELECT ... FOR UPDATE, permission, quorum query), `approve_record` (the APPROVED
  event and the commit), `get_proposal` (a signature short of the quorum), `pin_baseline` and
  `finalize_approval` (the second transaction), `reject`;
- `apply`, `rollback`; `save_findings` (a re-evaluation and its cascade); `crash`.

A row lock is held from `approve_lock` to `approve_record`, and every write of the row waits for
it. Every `datetime.now()` that is stored takes the next tick of `clock`; where the code reads it
before waiting for the row (`updated_at` in `save_proposal`, `now` in `approve`), the model reads
it there too, which is what the quorum query's `created_at >= updated_at` turns on.

**Contention.** One race takes the worth of an approval away. `save_proposal` dates the script before its
upsert waits for the row; a handler that decides on the control (`Deciding`) at that moment may sign, pin
or finalize for the script it found, and its effect lands on the script that is saved next.
`raced` is a history variable that remembers these scripts (`Overlaps`); a script outside it is
`Uncontested`. `HSpec` adds `raced` to `Spec` and restricts no step, so every behaviour of the service is one of
`HSpec`, contested scripts included: of those only `ApprovedIsSafe`, `ApproverHasSigned`, `RestorePointKnown` and the
ledger's properties are claimed, and section 6 shows what goes wrong with them.

**AuditRun.** One step is one statement or transaction, except `save_findings`, taken apart as
READ COMMITTED runs it: `delete_starts` (the snapshot), `delete_ends` (waits for rows that other
transactions deleted), `insert_findings` or `insert_aborts` (waits for primary keys that other
transactions hold, then goes on or collides), `stamp` (`evaluated_at` read before the INSERT) and
`commit`. Then `save_anomaly` and `dispatch` (the webhooks). An upload is `validate_and_store`,
`get_audit_run_id_by_hash`, `create_audit_run`, `enqueue_parsing_job`; a parsing job is one step,
as its worker runs one at a time (`--pool=solo`); a report is three reads and `record_report`.
Queued messages are delivered up to `MaxCopies` times, in any order; `upload_crashes`,
`process_config_fails` and `evaluation_fails` lose whatever was in progress. The ghost `hurt`
remembers the runs that lost something, so that liveness is claimed of the others only.

**Parsing.** A task is one delivery of `parsing.process_config`; a file's chunks are read in order,
each by `cache_hit`, or by `retrieve` (a miss, or Redis not answering; then the mappings of the same
vendor that `trusted` grades as good, or none) and then `generate` or `generate_fails`. The model
is the relation `Reads`: for a text, with and without mappings in the prompt, the candidates it may
return, with any signals in `Logprob` and `Fidelity`. `generate` passes both gates, writes the cache
(or not) and only then validates. `validated` merges at once: the code merges at the end, in the
order of the chunks, which is the order they are read in. At the end `dispatch_unknown_block` sends the
blocks one by one, then `submit` or `review`; `submit` compares with the templates what `model_dump` writes of the merged
baseline, every unset field filled with its default (`Filled`), so a flag that is FALSE is a fact; `crash` may come at any step and keeps what was sent.
A candidate is a record of the fields the policies read; the text, vendor and prompt it came
from are history. The refinement to `ParseJob` keeps of a task its run, the chunks parsed and told,
and the outcome.

**Learning.** `receive_unknown_block` or `block_lost` (an early acknowledgement); an admin's
`get_learning_queue`, `submit_learning_map` (the upsert into ChromaDB), `mark_mapped` (the row in
PostgreSQL), and `map_fails` between them.

**Topology.** `ingest` opens a transaction: `merge_device`, `merge_neighbor` for each address,
`reconcile` (adjacencies parked on a placeholder are redirected, the placeholder dropped when
nothing leads to it), `commit`. A step is one Cypher statement; it sees what is committed and
what its own transaction wrote, and takes the locks Neo4j takes for it. Two transactions that MERGE one
new node make two (`by` tells them apart), as no constraint exists. `ingest_retries` is
`execute_write`'s retry, `graph_fails` the evaluation going on without the graph.

**Policy, WhatIf.** `evidence` gives, per control, what a rule yields a finding for; `deny` is the
set the bundle returns. `summarize` and `reporting_summarize` are the two services' copies of the score.
`evaluate` stores findings or aborts on the primary key, the other actions are the read endpoints,
each answered from one state. An entry of an access list has a protocol, two addresses and a port, each of which may
stand for all ("ip", "any", no port); `flow_key` is what the code compares entries by, and keys overlap. The code
compares the sets of permitted keys (`diff_side`). What a device does with a list is stated beside it:
`Packet`, `matches` and `lets_through`, where the first entry that matches a packet decides.

**Gateway.** The limiter counts a call in (`let_in`) before the token is looked at; `begin` is a call
whose body is still being read, so ticks, role changes, other calls and a `restart` fall between
the limiter and `forward` or `refuse`. `counted` and `held` are history.

## 4. Runs

| Run | Instance | Shows |
|---|---|---|
| `triage` | agreements on both sides of every bound of the table, radii 0, 2, 3, one severity of each risk and an unknown one | all cases of the table; `WorseEvidenceNeverLoosens` compares every two successive decisions |
| `remediation_contention` | one control, four requests, two at a time (two signatures, of which one may be a rejection or an application and the other may be lost half-way; a regeneration or a roll back), two admins, findings that take one signer or two, that preflight flags or that have no template; two evaluations | what holds under any interleaving, what an approval is worth under it, and that the service implements `Signoff` |
| `remediation_progress` | one control, a generation (in bulk or not), a signature, and one call of any other kind, all three at a time, a crash; two admins and an AI with an admin's role; two evaluations | every request is answered, and whoever approves may sign |
| `audit_concurrent` | one run, two baselines, two evaluations (one of `POST /evaluate`), messages delivered twice, a report, two requests or tasks at a time, with failures | what holds under any overlap, and liveness |
| `parsing` | two files that share a chunk, of a known and of an unknown vendor, two deliveries, one admin; the model right, blind or invalid; signals at and below the gates | `ReadingsAreSound`, `AlarmSurvives`, `FullAgreementHidesNothing`, `MappedIsStored`, and that the worker implements `ParseJob` |
| `topology` | three devices, two that name each other and one seen with either of two topologies, three concurrent evaluations, retries and outages | no adjacency lost or invented; the radius has the neighbours |
| `what_if` | a hardened and a bare baseline and all that differ from either in one field; access lists of up to two lines over four matches that overlap, 16 packets | fixes, scores and verdicts |
| `gateway` | one client, one user, one call at a time, a route of each kind; limit 2, a minute and a token of two ticks, four ticks, two role changes or restarts | the limit and the roles |
| `remediation_stale_approval`, `remediation_stale_quorum`, `audit_stale_findings`, `what_if_duplicate_control` | the instance of the run beside it, or a smaller one | section 6 |

What the properties say, beyond types:

- `ApprovedIsSafe`: an approved proposal passed preflight and came from a template, even though a
  regeneration can slip in between the two transactions of `approve()` - the second one rechecks it.
- `NoLostQuorum`: two people who sign the same script never both come back one short. This is what
  the row lock is for.
- `LedgerExplainsRow`: replaying the ledger by timestamps gives the row's roll-back status, and a
  rejection is on record for the script the row holds.
- `RestorePointKnown`: what is applied has a recorded baseline to go back to, although the pin is
  read in another statement than the one that stores it and survives a regeneration.
- `ApproverHasSigned`: whoever an approved proposal names is somebody who may sign and has.
- `TwoPersonRule`, `UncontestedQuorum`, `UncontestedPin`: if the script was not saved while a decision on its
  control was under way, an approval is of the script the row holds, by people who may sign it, two of
  them where two are needed; what the quorum query counts was signed for this script; the pin is that of
  the evaluation the finding came from. The comparison of two clocks in the quorum query matters here,
  and that every decision puts `updated_at` back to the time it arrived, also across a re-evaluation
  that deletes the row. Requests overlap, and scripts are regenerated between and after decisions.
- `ImplementsSignoff`: a signature counts for the script it was given to, the count starts over with every
  proposal, an approval needs as many as the proposal takes and a roll back something that was applied; nothing
  is applied that is not approved at that moment. Of a contested script `Signoff` asks only that one who may sign approves it.
- `DetectedOnce`, `NotifiedOnce`: the ledger has no constraint that a violation is recorded once;
  the primary key of the findings, inserted first in the same transaction, serialises the
  `WHERE NOT EXISTS`.
- `StatusMeansEvaluated`, `CleanReportIsTrue`: a run in EVALUATED or COMPLETE was evaluated, and a
  report without findings is of a run some evaluation found clean - though the report reads its
  findings and its evaluation in separate statements and `record_report` writes a status decided
  three statements ago.
- `LatestIsStored`: whatever overlaps, no finding of the latest evaluation is missing from what is stored, so
  that a violation it found is never hidden. There may be more than that: section 6.
- `ReportCitesTheLatest`: the findings a report shows are those of whole evaluations, and none is later than
  the evaluation whose hash and policy it cites, because the findings are read first.
- `OpenIsUnapproved`: what `mttr.py` counts as open has no approved proposal, though it only reads the
  ledger and looks at the first detection and the signatures after it.
- `EveryRequestEnds`: no request waits for a row lock for ever, also when its holder dies.
- `AlarmSurvives`: a control that a chunk fails by itself fails in the merged baseline, in
  whatever order the chunks come. Two fields are excepted, and then a conflict is recorded: see section 6.
- `ReadingsAreSound`: what a job read, from the model or from the cache another job filled, is of the
  same text and vendor, was prompted with no other vendor's mappings, and passed the gates.
- `FullAgreementHidesNothing`: at an agreement of 100% the decision table lets changes through alone,
  so no alarm the templates see may be missing from the baseline, nor the login banner and the syslog whose
  absence they report as such. The defaults filled into the baseline count as facts that may agree.
- `ImplementsParseJob`: every chunk of a finished job is in the baseline or reported to Learning; a job
  ends once; only a job that read something is submitted.
- `MappedIsStored`: a block leaves the admins' queue only when its mapping is in the other store.
- `AdjacencyIsKept`, `AdjacencyIsReported`, `RadiusHasNeighbours`: the graph is what was reported, whatever
  transactions redirect and drop concurrently; the radius of a device has every neighbour whose
  evaluation was over before its own began, provided each address has one owner.
- `SimulatedFixWorks`, `DashboardMatchesReport`, `VerdictIsEarned`: the fix table against the bundle, the two
  catalogs against each other, and SAFE against the packets the lists let through, first match
  deciding among entries that overlap, unless the change takes a deny away from in front of a permit it
  overlaps (`DeniesStand`); that case is in section 6.
- `RateIsBounded`: no interval of a minute, wherever it starts, holds more calls than the limit since the
  process started. `RoleWasHeld`: whoever is let through had that role less than a token's lifetime ago.

*Bounds.* `MaxInFlight`, `MaxBusy`: two, as every race above is between two requests; the progress
run takes three, so that two wait while one holds the lock, and one control, as a bulk generation holds no lock from
one control to the next. `MaxEvals` 2: one re-evaluation, so
that a pin can be old. `MaxCopies` 2: a repeated message. Two evaluations in `audit_concurrent`, of which
either may commit first and either be dated first, and two baselines, so that they fail the same
control or only one of them does. `Calls` gives each request the endpoints it may call; together they hold every call a race can be made of: in `remediation_contention` a signature against a
regeneration, a rejection, an application, a roll back or another signature. Each request, task and report is used once, so the
clock and the ledger are bounded. In `parsing` two deliveries are enough for one job to use what another
cached, two chunks for every order of a right and a blind reading, and the templates of one file report an absence; the signals 70 and -51 are the gates'
thresholds on either side. In `topology` three devices are the least with a neighbour two transactions fight
over, and three transactions the least in which one parks, one redirects and one reads. In `what_if` the four matches have one that covers all others, two that overlap with neither covering the other,
and their intersection, and two lines are enough for a deny in front of a permit. A rule
reads one or two fields, so baselines one field away from all-passing and from all-failing reach every
rule alone and among others. In `gateway` a limit of two in two ticks is the least in which a window can slide
partly; four ticks are two windows.

`CHECK_DEADLOCK FALSE` is set where requests, tasks or the clock run out; in `triage` and `what_if` it is not, as there is always
another evaluation or question.

Symmetry: the two admins of `remediation_contention`, the queue's evaluations of `audit_stale_findings`, the
tasks of `parsing` and of `topology` are interchangeable, and these runs check
invariants and the safety specifications `ParseJob` and `Signoff`, which are symmetric in the tasks and in the
signers too. No run that checks liveness has a symmetry.

## 5. Fairness

`Remediation!FairSpec` has weak fairness of each request's next step: the event loop resumes
every coroutine whose round trip is over, and Postgres grants a row lock that is free. Weak is
enough: a request waits for the lock of `approve_lock` only, whose holder's next step needs no lock,
and requests are finite. No request has to arrive and nothing has to crash.

`AuditRun!FairSpec` has weak fairness of: uploads in progress, the parsing worker, the compliance
worker taking a message, an evaluation's next statement, a report's next statement. Celery workers
take what is queued as long as they run; nobody has to upload or to ask for a report, and nothing
has to fail. `LeavesIngested` and `DetectedIsAnnounced` exempt the runs in `hurt`: a task that dies
is not run again (tasks are acknowledged when they start), so nothing more is true.

## 6. Where the code disagrees with what is said of it

Four are runs that TLC finds violated; `PROJECT.json` quotes what is said, with its line.

- `remediation_stale_approval`: the second transaction of `approve()` sets APPROVED on whatever
  script the row holds, if it passed preflight. A regeneration between the two transactions gets
  approved without a signature. `init.sql` says a stale approval cannot survive a regeneration.
- `what_if_duplicate_control`: the rules for default communities and weak IKE policies yield a finding per
  item, and `compliance_findings` takes one row per control. A device with two default communities can
  never be evaluated.
- `remediation_stale_quorum`: `save_proposal` reads its `updated_at` before it waits for the row lock. A signature
  of the old script that commits meanwhile is later than that, so the quorum query counts it for the new
  script: one more signature makes two. The comment above the query says such an event "can never count toward this
  version's quorum". What holds of every other script is `UncontestedQuorum`.
- `audit_stale_findings`: two evaluations of one run that overlap each delete what they see. If their controls
  differ both sets are stored, and findings of the earlier one stay. `init.sql` says findings "can never be
  stale with respect to the bundle". What does hold is `LatestIsStored`: nothing of the latest one is missing.

The others were met while modelling and have no run of their own:

- Of access lists `_diff_side` sees permitted keys only. Removing a deny from in front of a permit that
  covers it opens access and is SAFE at LOW risk, while `counterfactual.py:82-83` says that "opening a flow the
  current config doesn't permit is a risk even if the fix also resolves violations". `reachability_diff.py` calls
  itself "a narrower, best-effort estimate"; the verdict built on it does not say so. Without such a removal SAFE is
  earned (`VerdictIsEarned`).
- An upload that stops between creating its run and queueing its job (`upload_crashes`) leaves a run that every
  later upload of the file is answered with, and nobody parses. The comment at `ingestion/app/main.py:37-41` says
  "Same bytes that WERE already fully ingested reopen that audit run rather than dead-ending the upload", and takes
  the row for that.
- The worker caches a candidate that passed the gates before it validates it (`generate`). One that is no
  baseline is served to every later job with this chunk, and costs it each time; `parse_cache.py:16-18` says "a
  failure is never cached, since the same chunk might succeed later", and so does `worker.py:239-242`.
- A re-evaluation deletes the findings, and the cascade deletes an applied proposal with the hash to
  restore; the APPLIED event does not carry it (`save_findings` in `Remediation`).
- With the graph down the evaluator attaches an empty list, which is stored and decided on as a
  confirmed radius of zero, while `decision.py` says an unknown radius must not be scored so (`Triage`,
  `attached_radius`).
- Two uploads of one file that overlap make two runs: `file_hash` has no unique constraint.
- A parsing job that is delivered twice may submit the run and then send it to review, evaluated or not
  (`ReviewsAreFinal`, section 7, is for jobs delivered once).
- The race of `remediation_stale_quorum` has other faces, all on a contested script: an approval of it by a signature of the old one
  (`remediation_stale_approval`), a two-person change approved with one signature of its own, a pin that is an evaluation too old.
- `merge.py` calls a negative value one that a positive reading overrides. An SSH version 1 that is read
  after a version 2 is dropped, and so is a disabled password encryption before or after an enabled one;
  these are the two exceptions of `AlarmSurvives`, and both are counted as conflicts.
- Confidence, logprob and fidelity are part of a candidate's device, so two chunks that differ only in them
  count as conflicting and lower the confidence of the run (`conflicts_of`).
- An unknown chunk lowers the confidence by half its share but is left out of the mean: not reading a chunk
  that would score badly can raise the total (`confident`).
- A mapping confirmed without a vendor is stored for "unknown" and not found for any known one; and the parser
  always names a vendor, "unknown" included, so the unfiltered search `search_learning`'s comment keeps for
  unclassified devices never happens (`retrieved`).
- Paths in the topology lead through a placeholder, which the docstring calls a dead end (`within`).
- The limiter's windows are in memory: a restart forgets them (`restart`).

## 7. Proofs

All theorems hold for any number of controls, requests, people, evaluations, radii and agreements,
under the assumptions the modules name, and for any number of requests and tasks that overlap. One theorem,
`ReviewsAreFinal`, bounds the deliveries of a job by one and says so. The assumptions:
`TriageConstants`, `ConstantsOK` (types of the constants,
a non-empty set of controls and of facts, `Nobody` being no person and no request), `NoRowOK` (a missing row
is no row) and
`AuditRunConstants` (every baseline fails a set of controls, `Direct` are evaluations), `PolicyConstants` and
`WhatIfConstants` (configurations are well-formed, NULL is no score), `UnsetIsNoValue`, `LearningConstants` and
`ParsingConstants` (a block's text is its chunk's; what the model returns and the schema accepts has the
types of the schema; the templates find finitely many facts), `TopologyConstants`, `GatewayConstants`.

- `TriageProofs!DecideIs` writes out the first rule that matches for every input: `RuleConditions`
  and `RuleActions` expand the table, `FirstRule` picks the smallest matching index. Everything else
  about the table cites it.
- `TriageProofs`: `CatchAllIsDead`, `HighRiskNeedsTwo`, `OperatorsAreLocal`, `UnknownBlocks`,
  `Monotone` from the inductive invariant `EvidenceOK /\ Tabled`: the stored evidence has its type,
  and the last decision is what the table says of the evidence recorded with it. The properties
  themselves are not inductive, as they do not say where the decision came from.
- `RemediationProofs!TypeCorrect` and `ApproversHaveSigned`, from `TypeOK /\ Signed`. `Signed` adds
  to the property what requests carry: one that is about to record has passed
  `check_permission` as a human admin or operator, and one past it has its event in the ledger.
  One lemma per group of actions, for types and for signatures.
- `RemediationProofs!OpenAreUnapproved`: an action never removes from the ledger and signs at the
  clock (`LedgerGrows`), so every control's detection at time 0 stays the first one and every signature is
  later (`DetectedFirst`); `ApproverHasSigned` gives the signature of an approved row.
- `RemediationProofs!LedgerExplains`, from `Replayable`: the latest lifecycle event of a control is
  the one its rollback status names, and no event is ahead of the clock, so that the next one is the
  latest. It holds however requests interleave because a row and its event are written in one
  transaction.
- `ApprovalProofs!ApprovedAreSafe`: `RowSteps` shows that every step of a request changes at most
  one proposal and in one of three ways (regenerated, finalized, amended); `Vetted` (a SAFE
  proposal is a template, an approved one is SAFE, an applied one has a roll-back status) is kept by each.
- `ApprovalProofs!RestorePointsKnown`, from `Pinned`: an approved or applied row is pinned to a
  recorded evaluation, so is the hash a request is about to store, and so is what a ROLLED_BACK
  event names. It needs `evals >= 1`: a run without an evaluation would be approved with no pin.
- `ApprovalProofs!QuorumsAreKept`, from `Quorum`. Whoever came back short on a script nobody has decided
  on is in the answer of the quorum query (`ShortOnesCount`), and that is one person (`ShortOnesAgree`).
  A signer holds the row lock from its query to its commit, so what it read is still so when it signs
  (`ReadsHold`); it falls short only if nobody else is in the answer (`ShortMeansAlone`); and its event
  is not older than the row, whose `updated_at` is never ahead of the clock (`RowsOK`), so the next
  query counts it. A new script starts the count over, and nobody has seen it (`ScriptsNew`). Every
  step but the two of a signature is `Mild`: it signs nothing and rewrites only unlocked rows.
- `ApprovalProofs!TwoPeopleSign`, `QuorumsAreCurrent` and `PinsAreCurrent`, from `Promised`, for any requests
  in flight. It says of each control whose script is uncontested (`RowsCurrent`) that every signature
  since `updated_at` is one of the script the row has (`SignedSince`), and that an approval rests on
  people the matrix permits, two where it takes two, and on the latest evaluation. Of each request
  (`StillHolds`) it says the same of the row its decision has found, from `record` to `finalize`
  (`Rests`), and of a script about to be saved that no signature is as late as its date. The argument is
  what the others may do in between: a step removes a proposal, saves a script that was about to be saved, or keeps
  the script (`Follows`), and who signs does so under the row lock, the script the row has (`SignsUnderLock`).
  A save that lands under a decision makes the script contested at that moment at the latest (`Overlaps \subseteq
  raced`, `Remembers`), a re-evaluation deletes the row, and anything else leaves what the
  decision rests on. Of contested scripts all three are false (section 6), and none of them is assumed away.
- `ApprovalProofs!SignoffsHold`, the refinement, from the same invariants. `signed` stands for those who
  signed the script the row has. A script is contested, or not, from the step that saves it on (`RacesAreOver`),
  and nobody has signed one that is not saved (`ScriptsUnsigned`), so saving maps to `Propose`, with no
  signature (`SavesPropose`). Recording maps to `Sign`, whatever comes of the quorum (`RecordsSign`);
  finalizing, rejecting, applying and rolling back to the action of that name (`DecisionsMap`), where `Promised` gives
  the signatures `Approve` asks for; a re-evaluation to `Withdraw`; the reads and failures to stutters (`Unmoved`).
  `Moves` says what one changed row means for all five variables, and `Keeps` which of them stay with the script.
  A crash between `Sign` and `Approve` is a signature with no approval.

- `AuditProofs!TypesKept`, from `Typed`: types, that whatever is in progress is about a run that
  exists, and that no timestamp is ahead of the clock - which is why `ORDER BY evaluated_at DESC
  LIMIT 1` selects something (`Largest`, from the well-foundedness of the naturals).
- `AuditProofs!DetectionsAreFirst` and `NotificationsAreFirst`, from `Claimed`. A transaction that
  has inserted its findings owns their primary keys (`Owned`: two open transactions of a run fail
  disjoint sets of controls), so what it found undetected is so until it commits (`StillFresh`), and
  what a task is about to announce is on record (`Recorded`). `DetectedOnce` alone is not inductive:
  it says nothing of what open transactions have read.
- `AuditProofs!StatusesAreEarned` and `CleanReportsAreTrue`, from `Backed`: evaluations are never
  forgotten, a run that has one and has no findings has a clean one, and each report carries what it
  read between its statements.
- `AuditProofs!ReviewsAreFinal`, for `MaxCopies = 1`, from `JobsOnce`: a queued job is the
  only one of its run, whose upload is over and for which no evaluation is queued or taken; a run in review has no job
  left. Evaluations may overlap.
- `AuditProofs!LatestStaysStored` and `ReportsCiteTheLatest`, from `Lasting`, for any overlaps. Whatever a transaction
  has seen, deleted or left behind is whole evaluations (`Whole`: findings carry their evaluation's id, and a
  DELETE sees all rows of a committed one or none). One that deletes rows of another has seen them committed, and reads its
  own date afterwards (`Deletes`); so an evaluation whose findings are gone is not the latest (`Kept`). A report reads the
  findings first: those it shows are committed by then, and the evaluation it reads and cites later is at least
  as late (`Shows`, `Cites`).

- `TopologyProofs!AdjacenciesAreKept`, `AdjacenciesAreReported` and `RadiiHaveNeighbours`, from `IInv`, for
  any number of transactions at once. It says of the committed part that every reported adjacency leads to an
  owner of the address or to its placeholder, of each open transaction the same with its own writes added, and what it may rely
  on until it commits: the nodes it has locked. A judgement that an address has one owner can only turn
  false as more devices commit, never true again, which is why `RadiusHasNeighbours` exempts the addresses
  that have two. That a path of any length contains the direct neighbours takes a recursion over the
  hops, which a smallest counterexample replaces; `MaxHops # 0` is needed, and the code asks for
  one hop at least (`*1..`) and for three by default.

- `ParsingProofs!WorkerKeepsContract`, the refinement, from `JobInv`: a task at work has dealt with the
  chunks below its index, each parsed or unknown and none both, and reports only unknown ones. Each action
  maps to one action of `ParseJob` or to a stutter (`SeenStep`).
- `ReadingsStaySound`, from `CacheInv` and `ReadSoundly`: an entry is stored under the text and vendor it was
  read from, and passed the gates, before any job reads it. The property says nothing of the cache and is not
  inductive without it.
- `AlarmsSurvive`, from `AlarmInv`, with `MergeKeepsAlarms`: merging one more chunk keeps every
  alarm of either side or records the conflict (one lemma per kind of field).
- `FullAgreementHoldsAlarms`: `FactsCarryAlarms` and `FactsCarryFlags` show that leaf facts determine the alarms and
  the two flags the templates report absent; `FilledFacts`, that a baseline with its defaults filled in has facts like
  any other and nothing left to fill in; agreeing on all of a finite set means containing it.
- `MappedBlocksAreStored`, from `MapInv`: an admin about to mark a block has stored its mapping, and
  mappings are never removed.
- `WhatIfProofs!SimulatedFixesWork`: `Rules` writes the bundle out, `FixedFields` the fix table, and
  `FixResolvesItsControl` compares them for every baseline and control; `SimulationInv` ties the answer to the
  snapshot it was computed from.
- `WhatIfProofs!DashboardsMatchReports` and `VerdictsAreEarned`. A score is a sum over a set of controls:
  `WeightsAre` shows it is worth what its controls are, one by one (`Worth`; a set of least worth of which this
  were false would have an element to take away), so that 235 is all there is, the least control is worth 5 of
  it, and rounding to a hundredth hides none (`Scores`). `ClosedSide` is the step from sets of permitted keys to the
  packets that pass: the permit that lets a packet through the new list has its key in the old one, so some entry of the
  old list matches the packet first (`Smallest`); were that a deny, it would stand in front of the permit in
  the new list too (`DeniesStand`). `Risk` covers the tiers.
- `GatewayProofs!RolesWereHeld`, from `HeldInv` (a user holds his role now), `TokenInv` (a token's role
  was held until its issue or later) and `CallInv` (what a call was let through with).
- `GatewayProofs!RatesAreBounded`, from `LimitInv`: the window of a client is sorted, never longer than the limit, and covers
  what was counted (`Covers`: the entries from any moment that has not slid out bound the calls
  since). The property is about minutes that are over, which the window has forgotten; they keep their
  count. Sums over finite sets of moments are compared by `ByElement`, an induction over a finite set that is
  stated for a set of good subsets in place of a predicate.

Model-checked only: `EveryRequestEnds`, `LeavesIngested` and `DetectedIsAnnounced` (liveness: fairness
and ENABLED are out of the prover's reach). What recursive definitions compute on all inputs cannot be cited from the
library (its induction theorems take operators as parameters); where a proof needs it, a smallest counterexample is
taken by hand from the well-foundedness of the naturals.

## 8. Abstractions and limits

- Preflight's text checks, template rendering and the model's script generation are a choice of
  facts (`Facts`): flagged or not, from a template or not. Policies are a constant relation
  `Violations` from baselines to controls; OPA's failure is a task's failure.
- One audit run in `Remediation`: no statement of it touches two runs.
- Webhooks are best effort, attempted in the step that ends the request or task and never failing it,
  as the code swallows their errors.
- The clock is strict: two readings never give the same value. Ties between `created_at` and
  `updated_at` at a microsecond are not modelled.
- The order of a bulk generation's controls is arbitrary. `decision_action` NULL (proposals older
  than the column) is not a state this schema's rows can be in.
- The multi-row INSERT of `save_findings` is one step: row-by-row lock waits, and the deadlocks
  Postgres would break between two such INSERTs, count as a failed task.
- In `AuditRun` a parsing job is one step, and the model's answer is arbitrary; `Parsing` takes it apart.
  In `Remediation` and `AuditRun`, reads that change nothing (lists, the proposals in a report) are left out.
- `Parsing`: a confidence is compared exactly; the code rounds floats near 0.60. The search's cut to the three
  nearest mappings is left out, as a prompt either has context or has not. Signals are in hundredths.
  Entries of the cache never expire, as in the code (no TTL is set); Redis may not answer at any time (`retrieve`).
- `Policy`: the fields the bundle reads. Names of remediation templates and wording are left out. `WhatIf`
  leaves out the interface and route counts of a comparison.
- `Topology`: one address per interface; the interfaces a device no longer reports stay, as in the code.
- `Gateway`: passwords, signatures of tokens and what a handler forwards to are not modelled; a token is one
  the gateway issued. Time is in ticks and `RATE_LIMIT_PER_MIN` any number above zero.

Not modelled:

- script synthesis, PDF rendering, prompts, the TextFSM extractor, vendor detection, embeddings: text in, text
  out, with no state. What they produce is a constant or a choice above.
- evidence locator, trust score, anomaly detection: annotations for a reader; nothing acts on them (the
  anomaly check appears in `AuditRun` as a step that may fail).
- vendor fingerprints, remediation manuals and baseline vectors of the learning service: single upserts and
  searches.
- the fleet score, trends and `diff_topology`: arithmetic over rows and lists already modelled.
- the frontend, benchmarks, scripts and presentation: no state the services depend on.

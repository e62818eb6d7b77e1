----------------------------- MODULE Remediation -----------------------------
(***************************************************************************)
(* The proposal lifecycle of the remediation service (app/main.py and      *)
(* app/db.py): generate, approve or reject, apply and roll back the        *)
(* remediation proposals of ONE audit run, with the re-evaluation of that  *)
(* run (compliance/app/db.py, save_findings) that replaces the findings    *)
(* they hang from.                                                         *)
(*                                                                         *)
(* A request is a coroutine of the single asyncio process.  It gives up    *)
(* control at every database round trip, so its steps interleave with      *)
(* those of every other request.  A transaction that takes its row lock    *)
(* with its first write is one step; approve()'s first transaction, which  *)
(* locks the row, reads the ledger and only then writes, is two steps with *)
(* the lock held in between.                                               *)
(*                                                                         *)
(* Time is the Python clock.  Every datetime.now() reads a later value     *)
(* than the one before it.                                                 *)
(***************************************************************************)
EXTENDS DecisionTable, ApprovalMatrix

CONSTANTS
    Control,      \* control ids of the run
    Request,      \* requests; each is used once
    Actor,        \* values of the x-user-id header
    Role,         \* x-user-role of each actor
    ActorType,    \* x-actor-type of each actor
    Facts,        \* what _build_proposal may find out about a control
    UseMock,      \* USE_MOCK_BATFISH
    NoRow,        \* the value of a missing remediation_proposals row
    Nobody,       \* NULL in approved_by, and the holder of a free row lock
    Calls,        \* bound: the endpoints each request may call
    MayCrash,     \* bound: the requests that may be lost half-way
    MaxInFlight,  \* bound: requests in progress at a time
    MaxEvals      \* bound: evaluations of the run

Fact == [template : BOOLEAN, flagged : BOOLEAN, agreement : Int,
         blast_radius : Int, severity : Severities]

Endpoints == {"generate", "generate_for_run", "approve", "reject", "apply", "rollback"}

ASSUME ConstantsOK ==
    /\ Role \in [Actor -> Roles]
    /\ ActorType \in [Actor -> ActorTypes]
    /\ Facts \subseteq Fact /\ Facts # {}
    /\ Control # {}
    /\ UseMock \in BOOLEAN
    /\ Calls \in [Request -> SUBSET Endpoints]
    /\ MayCrash \subseteq Request
    /\ MaxInFlight \in Nat
    /\ MaxEvals \in Nat
    /\ Nobody \notin Actor
    /\ Nobody \notin Request

VARIABLES
    row,      \* remediation_proposals: [Control -> Row or NoRow]
    ledger,   \* ledger_events: a set, its members told apart by their timestamps
    finding,  \* controls with a compliance_findings row
    evals,    \* audit_evaluations: the latest one, which stands for its baseline_sha256
    req,      \* the requests
    lock,     \* the request whose open transaction holds the row lock
    clock     \* the next value datetime.now() returns

vars == <<row, ledger, finding, evals, req, lock, clock>>

-----------------------------------------------------------------------------
(* State.                                                                  *)

Statuses == {"PENDING", "APPROVED", "REJECTED"}
RollbackStatuses == {"NONE", "APPLIED", "ROLLED_BACK"}
Preflights == {"SAFE", "RISK_FLAGS", "UNAVAILABLE"}

\* A proposal.  script is the request that generated it; pin is
\* pre_change_baseline_sha256 and 0 stands for NULL.
Row == [script : Request, source : {"template", "agentic_rag"},
        preflight_status : Preflights, decision_action : DecisionActions,
        risk_tier : Risks, blast_radius_count : Int, approval_status : Statuses,
        approved_by : Actor \cup {Nobody}, pin : Nat, applied : BOOLEAN,
        rollback_status : RollbackStatuses, updated_at : Nat]

\* A missing row is not a row.
ASSUME NoRowOK == NoRow \notin Row

EventTypes == {"VIOLATION_DETECTED", "REMEDIATION_PROPOSED", "DECISION_MADE",
               "APPROVED", "REJECTED", "APPLIED", "VERIFICATION_FAILED", "ROLLED_BACK"}

\* A ledger event.  script is a ghost: the script the row held when the event
\* was written (Nobody when there was none).  restore is the payload of ROLLED_BACK.
Event == [event_type : EventTypes, control : Control, actor : Actor \cup {Nobody},
          created_at : Nat, script : Request \cup {Nobody}, restore : Nat]

\* Where a request stands: each name is the database step it is about to take.
Waiting == {"build", "save", "approve", "record", "get_proposal", "pin", "finalize",
            "reject", "apply", "rollback"}
Ended == {"done", "crashed"}

Outcomes == {"none", "ok", "partial", "denied", "conflict", "error"}
Hooks == {"none", "REMEDIATION_PROPOSED", "APPROVED", "REJECTED", "ROLLED_BACK"}

RequestState ==
    [pc : {"idle"} \cup Waiting \cup Ended, bulk : BOOLEAN, todo : SUBSET Control,
     control : Control, actor : Actor \cup {Nobody}, flag : BOOLEAN,
     facts : Facts, now : Nat, script : Request \cup {Nobody},
     action : DecisionActions, prior : SUBSET Actor, sha : Nat,
     outcome : Outcomes, hook : Hooks]

InFlight == {r \in Request : req[r].pc \in Waiting}

-----------------------------------------------------------------------------
(* Helpers.                                                                *)

SomeFacts == CHOOSE f \in Facts : TRUE
SomeControl == CHOOSE c \in Control : TRUE

\* The state of a request before it arrives; also what a finished request forgets.
Blank == [pc |-> "idle", bulk |-> FALSE, todo |-> {}, control |-> SomeControl,
          actor |-> Nobody, flag |-> FALSE, facts |-> SomeFacts, now |-> 0,
          script |-> Nobody, action |-> "BLOCK", prior |-> {}, sha |-> 0,
          outcome |-> "none", hook |-> "none"]

\* Request r returns its response, with the webhook it dispatched on the way.
Finish(r, outcome, hook) ==
    [Blank EXCEPT !.pc = "done", !.control = req[r].control, !.actor = req[r].actor,
                  !.script = req[r].script, !.outcome = outcome, !.hook = hook]

Ev(type, c, actor, at, script, restore) ==
    [event_type |-> type, control |-> c, actor |-> actor, created_at |-> at,
     script |-> script, restore |-> restore]

Exists(c) == row[c] # NoRow
Unflagged(c) == Exists(c)   \* mutant of Safe and of Applied: the condition is dropped
Safe(c) == Exists(c) /\ row[c].preflight_status = "SAFE"
Approved(c) == Exists(c) /\ row[c].approval_status = "APPROVED"
Applied(c) == Exists(c) /\ row[c].applied
Unlocked(c) == lock[c] = Nobody

\* app/batfish_client.py: without Batfish's snapshot nothing unflagged is SAFE
\* except under the mock.
preflight(flagged) ==
    CASE flagged              -> "RISK_FLAGS"
      [] ~flagged /\ UseMock  -> "SAFE"
      [] ~flagged /\ ~UseMock -> "UNAVAILABLE"

\* The proposal _build_proposal returns, as save_proposal inserts it.
build_proposal(r, f, now) ==
    LET d == decide(f.agreement, blast_radius_count(f.blast_radius), f.severity)
    IN  [script |-> r,
         source |-> IF f.template THEN "template" ELSE "agentic_rag",
         preflight_status |-> IF f.template THEN preflight(f.flagged) ELSE "RISK_FLAGS",
         decision_action |-> d.action, risk_tier |-> d.risk,
         blast_radius_count |-> d.blast_radius_count,
         approval_status |-> "PENDING", approved_by |-> Nobody, pin |-> 0,
         applied |-> FALSE, rollback_status |-> "NONE", updated_at |-> now]

\* Mutants of upsert: columns the DO UPDATE SET list forgets.
keeps_rollback_status(old, new) ==
    [new EXCEPT !.pin = old.pin, !.rollback_status = old.rollback_status]
keeps_updated_at(old, new) == [new EXCEPT !.pin = old.pin, !.updated_at = old.updated_at]

\* ON CONFLICT DO UPDATE sets every column but pre_change_baseline_sha256.
upsert(old, new) == [new EXCEPT !.pin = old.pin]

\* Mutant of prior_actors: the query selects another column.
prior_controls(c) ==
    {e.control : e \in {x \in ledger : x.event_type = "APPROVED" /\ x.control = c}}

\* Mutant of prior_actors: a signature counts for ever.
ever_signed(c) == {e.actor : e \in {x \in ledger : x.event_type = "APPROVED" /\ x.control = c}}

\* The distinct signers the quorum query of approve() counts for control c.
prior_actors(c) ==
    {e.actor : e \in {x \in ledger : /\ x.event_type = "APPROVED"
                                     /\ x.control = c
                                     /\ x.created_at >= row[c].updated_at}}

-----------------------------------------------------------------------------
(* What reporting makes of the ledger (reporting/app/mttr.py).             *)

detections(c) ==
    {e.created_at : e \in {x \in ledger : x.event_type = "VIOLATION_DETECTED" /\ x.control = c}}

\* Mutant of mttr_open: a violation is closed when its fix is applied.
open_until_applied(c) ==
    ~\E e \in ledger : e.event_type = "APPLIED" /\ e.control = c

\* The violation is in open_violations: no signature is later than its first detection.
mttr_open(c) ==
    LET detected == CHOOSE d \in detections(c) : \A x \in detections(c) : d <= x
    IN  /\ detections(c) # {}
        /\ ~\E e \in ledger : /\ e.event_type = "APPROVED" /\ e.control = c
                              /\ e.created_at > detected

-----------------------------------------------------------------------------
(* The run as the pipeline leaves it: evaluated once, every control failing. *)
Init ==
    /\ row = [c \in Control |-> NoRow]
    /\ ledger = {Ev("VIOLATION_DETECTED", c, Nobody, 0, Nobody, 0) : c \in Control}
    /\ finding = Control
    /\ evals = 1
    /\ req = [r \in Request |-> Blank]
    /\ lock = [c \in Control |-> Nobody]
    /\ clock = 1

-----------------------------------------------------------------------------
(* Requests arrive.  The handler runs up to its first await; approve(),    *)
(* mark_applied() and rollback() read the clock there.                     *)

Arrive(r, endpoint, state) ==
    /\ req[r].pc = "idle"
    /\ endpoint \in Calls[r]
    /\ Cardinality(InFlight) < MaxInFlight
    /\ req' = [req EXCEPT ![r] = state]
    /\ UNCHANGED <<row, ledger, finding, evals, lock>>

\* POST /remediation/generate: one control, whether or not the run has a finding for it.
generate(r, c) ==
    /\ Arrive(r, "generate", [Blank EXCEPT !.pc = "build", !.control = c, !.todo = {c}])
    /\ UNCHANGED clock

\* POST /remediation/audit-runs/{id}/generate: every finding of the run, 404 if none.
generate_for_run(r) ==
    /\ finding # {}
    /\ Arrive(r, "generate_for_run",
              [Blank EXCEPT !.pc = "build", !.bulk = TRUE, !.todo = finding])
    /\ UNCHANGED clock

\* POST /remediation/{control}/approve, approved = true or false.
approve(r, c, a, approved) ==
    /\ LET call == IF approved THEN "approve" ELSE "reject"
       IN  Arrive(r, call,
                  [Blank EXCEPT !.pc = call, !.control = c, !.actor = a, !.now = clock])
    /\ clock' = clock + 1

\* POST /remediation/{control}/apply.
mark_applied(r, c, a) ==
    /\ Arrive(r, "apply",
              [Blank EXCEPT !.pc = "apply", !.control = c, !.actor = a, !.now = clock])
    /\ clock' = clock + 1

\* POST /remediation/{control}/rollback.
trigger_rollback(r, c, a, verification_failed) ==
    /\ Arrive(r, "rollback",
              [Blank EXCEPT !.pc = "rollback", !.control = c, !.actor = a,
                            !.flag = verification_failed, !.now = clock])
    /\ clock' = clock + 1

-----------------------------------------------------------------------------
(* generate: build, then save, one control after the other.                *)

\* What is left of a generation once control c is dealt with: the next control, or
\* the response, an error if nothing at all was saved (flag: something was).  Only
\* the single-control endpoint dispatches a webhook.
NextControl(r, c, saved) ==
    LET rest == req[r].todo \ {c}
        some == saved \/ req[r].flag
    IN  IF rest # {}
        THEN [req[r] EXCEPT !.pc = "build", !.todo = rest, !.flag = some]
        ELSE Finish(r, IF some THEN "ok" ELSE "error",
                    IF saved /\ ~req[r].bulk THEN "REMEDIATION_PROPOSED" ELSE "none")

\* _build_proposal succeeds and save_proposal binds its parameters, updated_at
\* among them, before the statement reaches the row.
build(r, c, f) ==
    /\ req[r].pc = "build"
    /\ c \in req[r].todo
    /\ req' = [req EXCEPT ![r].pc = "save", ![r].control = c, ![r].facts = f, ![r].now = clock]
    /\ clock' = clock + 1
    /\ UNCHANGED <<row, ledger, finding, evals, lock>>

\* _build_proposal raises: a bulk generation skips a control without a template,
\* anything else aborts the request.  What was saved before stays.
build_fails(r, c, template) ==
    /\ req[r].pc = "build"
    /\ c \in req[r].todo
    /\ req' = [req EXCEPT ![r] = IF req[r].bulk /\ ~template
                                 THEN NextControl(r, c, FALSE)
                                 ELSE Finish(r, "error", "none")]
    /\ UNCHANGED <<row, ledger, finding, evals, lock, clock>>

\* The upsert of save_proposal with its two events.  The foreign key refuses a
\* proposal whose finding a re-evaluation has removed.
save_proposal(r) ==
    LET c == req[r].control
        new == build_proposal(r, req[r].facts, req[r].now)
    IN  /\ req[r].pc = "save"
        /\ Unlocked(c)
        /\ \/ /\ c \in finding
              /\ row' = [row EXCEPT ![c] = IF Exists(c) THEN upsert(row[c], new) ELSE new]
              /\ ledger' = ledger \cup
                    {Ev("REMEDIATION_PROPOSED", c, Nobody, clock, r, 0),
                     Ev("DECISION_MADE", c, Nobody, clock + 1, r, 0)}
              /\ clock' = clock + 2
              /\ req' = [req EXCEPT ![r] = NextControl(r, c, TRUE)]
           \/ /\ c \notin finding
              /\ req' = [req EXCEPT ![r] = Finish(r, "error", "none")]
              /\ UNCHANGED <<row, ledger, clock>>
        /\ UNCHANGED <<finding, evals, lock>>

-----------------------------------------------------------------------------
(* approve: a locking transaction, then a second one that finalizes.       *)

\* SELECT ... FOR UPDATE, the permission check and the quorum query.
approve_lock(r) ==
    LET c == req[r].control
        a == req[r].actor
        permitted == check_permission(Role[a], row[c].decision_action, row[c].risk_tier,
                                      row[c].blast_radius_count, ActorType[a])
    IN  /\ req[r].pc = "approve"
        /\ Unlocked(c)
        /\ \/ /\ ~Safe(c)
              /\ req' = [req EXCEPT ![r] = Finish(r, "conflict", "none")]
              /\ UNCHANGED lock
           \/ /\ Safe(c) /\ ~permitted
              /\ req' = [req EXCEPT ![r] = Finish(r, "denied", "none")]
              /\ UNCHANGED lock
           \/ /\ Safe(c) /\ permitted
              /\ lock' = [lock EXCEPT ![c] = r]
              /\ req' = [req EXCEPT ![r].pc = "record", ![r].script = row[c].script,
                                    ![r].action = row[c].decision_action,
                                    ![r].prior = prior_actors(c)]
        /\ UNCHANGED <<row, ledger, finding, evals, clock>>

\* The APPROVED event, the commit, and the two-person rule on what was read.
approve_record(r) ==
    LET c == req[r].control
        a == req[r].actor
        quorum == dual_approval_satisfied(req[r].action, req[r].prior, a)
    IN  /\ req[r].pc = "record"
        /\ ledger' = ledger \cup {Ev("APPROVED", c, a, clock, req[r].script, 0)}
        /\ clock' = clock + 1
        /\ lock' = [lock EXCEPT ![c] = Nobody]
        /\ req' = [req EXCEPT ![r].pc = IF quorum THEN "pin" ELSE "get_proposal"]
        /\ UNCHANGED <<row, finding, evals>>

\* A signature short of the quorum answers with the row as it is by now; the
\* webhook goes by that row's status.
get_proposal(r) ==
    LET c == req[r].control
        status == row[c].approval_status
    IN  /\ req[r].pc = "get_proposal"
        /\ req' = [req EXCEPT ![r] =
                IF ~Exists(c) THEN Finish(r, "conflict", "none")
                ELSE Finish(r, "partial",
                            IF status \in {"APPROVED", "REJECTED"} THEN status ELSE "none")]
        /\ UNCHANGED <<row, ledger, finding, evals, lock, clock>>

\* _finalize_approval, first statement: the latest evaluation's baseline hash.
first_baseline == 1   \* mutant: ORDER BY evaluated_at without DESC
latest_baseline == evals

pin_baseline(r) ==
    /\ req[r].pc = "pin"
    /\ req' = [req EXCEPT ![r].pc = "finalize", ![r].sha = latest_baseline]
    /\ UNCHANGED <<row, ledger, finding, evals, lock, clock>>

\* _finalize_approval, second statement, for an approval.
finalize_approval(r) ==
    LET c == req[r].control
    IN  /\ req[r].pc = "finalize"
        /\ Unlocked(c)
        /\ \/ /\ Safe(c)
              /\ row' = [row EXCEPT ![c] = [@ EXCEPT !.approval_status = "APPROVED",
                                                     !.approved_by = req[r].actor,
                                                     !.updated_at = req[r].now,
                                                     !.pin = req[r].sha]]
              /\ req' = [req EXCEPT ![r] = Finish(r, "ok", "APPROVED")]
           \/ /\ ~Safe(c)
              /\ req' = [req EXCEPT ![r] = Finish(r, "conflict", "none")]
              /\ UNCHANGED row
        /\ UNCHANGED <<ledger, finding, evals, lock, clock>>

\* _finalize_approval for a rejection: no role, status or preflight restriction.
reject(r) ==
    LET c == req[r].control
        a == req[r].actor
    IN  /\ req[r].pc = "reject"
        /\ Unlocked(c)
        /\ \/ /\ Exists(c)
              /\ row' = [row EXCEPT ![c] = [@ EXCEPT !.approval_status = "REJECTED",
                                                     !.approved_by = a,
                                                     !.updated_at = req[r].now]]
              /\ ledger' = ledger \cup {Ev("REJECTED", c, a, clock, row[c].script, 0)}
              /\ clock' = clock + 1
              /\ req' = [req EXCEPT ![r] = Finish(r, "ok", "REJECTED")]
           \/ /\ ~Exists(c)
              /\ req' = [req EXCEPT ![r] = Finish(r, "conflict", "none")]
              /\ UNCHANGED <<row, ledger, clock>>
        /\ UNCHANGED <<finding, evals, lock>>

-----------------------------------------------------------------------------
(* Apply and roll back.                                                    *)

apply(r) ==
    LET c == req[r].control
    IN  /\ req[r].pc = "apply"
        /\ Unlocked(c)
        /\ \/ /\ Approved(c)
              /\ row' = [row EXCEPT ![c] = [@ EXCEPT !.applied = TRUE,
                                                     !.rollback_status = "APPLIED",
                                                     !.updated_at = req[r].now]]
              /\ ledger' = ledger \cup
                    {Ev("APPLIED", c, req[r].actor, clock, row[c].script, 0)}
              /\ clock' = clock + 1
              /\ req' = [req EXCEPT ![r] = Finish(r, "ok", "none")]
           \/ /\ ~Approved(c)
              /\ req' = [req EXCEPT ![r] = Finish(r, "conflict", "none")]
              /\ UNCHANGED <<row, ledger, clock>>
        /\ UNCHANGED <<finding, evals, lock>>

\* VERIFICATION_FAILED is written first and commits whether or not the row matches.
rollback(r) ==
    LET c == req[r].control
        a == req[r].actor
        failed == IF req[r].flag
                  THEN {Ev("VERIFICATION_FAILED", c, a, clock, Nobody, 0)} ELSE {}
    IN  /\ req[r].pc = "rollback"
        /\ Unlocked(c)
        /\ \/ /\ Applied(c)
              /\ row' = [row EXCEPT ![c] = [@ EXCEPT !.rollback_status = "ROLLED_BACK",
                                                     !.updated_at = req[r].now]]
              /\ ledger' = ledger \cup failed \cup
                    {Ev("ROLLED_BACK", c, a, clock + 1, row[c].script, row[c].pin)}
              /\ req' = [req EXCEPT ![r] = Finish(r, "ok", "ROLLED_BACK")]
           \/ /\ ~Applied(c)
              /\ ledger' = ledger \cup failed
              /\ req' = [req EXCEPT ![r] = Finish(r, "conflict", "none")]
              /\ UNCHANGED row
        /\ clock' = clock + 2
        /\ UNCHANGED <<finding, evals, lock>>

-----------------------------------------------------------------------------
(* The rest of the world.                                                  *)

\* save_findings of the compliance service: the findings are deleted, and with
\* them (ON DELETE CASCADE) every proposal; the new ones are inserted, the first
\* detection of each control is recorded, and a new baseline is on record.
save_findings(found) ==
    /\ evals < MaxEvals
    /\ Cardinality(InFlight) < MaxInFlight
    /\ \A c \in Control : Unlocked(c)
    /\ finding' = found
    /\ row' = [c \in Control |-> NoRow]
    /\ ledger' = ledger \cup
          {Ev("VIOLATION_DETECTED", c, Nobody, clock, Nobody, 0) :
              c \in {d \in found : \A e \in ledger :
                        ~(e.event_type = "VIOLATION_DETECTED" /\ e.control = d)}}
    /\ evals' = evals + 1
    /\ clock' = clock + 1
    /\ UNCHANGED <<req, lock>>

\* The process dies, or the client goes away, between two round trips of a request:
\* its open transaction is rolled back and releases its lock.
keeps_lock(r) == lock   \* mutant of releases
releases(r) == [c \in Control |-> IF lock[c] = r THEN Nobody ELSE lock[c]]

crash(r) ==
    /\ r \in MayCrash
    /\ req[r].pc \in Waiting
    /\ req' = [req EXCEPT ![r] = [Finish(r, "none", "none") EXCEPT !.pc = "crashed"]]
    /\ lock' = releases(r)
    /\ UNCHANGED <<row, ledger, finding, evals, clock>>

-----------------------------------------------------------------------------

\* A new request, a re-evaluation or a crash.
Environment ==
    \/ \E r \in Request, c \in Control : generate(r, c)
    \/ \E r \in Request : generate_for_run(r)
    \/ \E r \in Request, c \in Control, a \in Actor, b \in BOOLEAN :
            \/ approve(r, c, a, b)
            \/ trigger_rollback(r, c, a, b)
    \/ \E r \in Request, c \in Control, a \in Actor : mark_applied(r, c, a)
    \/ \E found \in SUBSET Control : save_findings(found)
    \/ \E r \in Request : crash(r)

\* The next database step of a request in progress.
Step(r) ==
    \/ \E c \in Control, f \in Facts : build(r, c, f)
    \/ \E c \in Control, t \in BOOLEAN : build_fails(r, c, t)
    \/ save_proposal(r)
    \/ approve_lock(r)
    \/ approve_record(r)
    \/ get_proposal(r)
    \/ pin_baseline(r)
    \/ finalize_approval(r)
    \/ reject(r)
    \/ apply(r)
    \/ rollback(r)

Next == Environment \/ \E r \in Request : Step(r)

Spec == Init /\ [][Next]_vars

\* The event loop runs every coroutine whose awaited round trip is over, and the
\* database grants a free lock: a request that can take its next step does.
FairSpec == Spec /\ \A r \in Request : WF_vars(Step(r))

-----------------------------------------------------------------------------
(* Properties that hold however requests interleave.                       *)

\* Type correctness of the tables, the requests, the locks and the clock.
TypeOK ==
    /\ row \in [Control -> Row \cup {NoRow}]
    /\ ledger \subseteq Event
    /\ finding \subseteq Control
    /\ evals \in Nat
    /\ req \in [Request -> RequestState]
    /\ lock \in [Control -> Request \cup {Nobody}]
    /\ clock \in Nat

\* An APPROVED proposal passed preflight and came from a template: SLM output is
\* never approvable, not even when a regeneration slips in between the two
\* transactions of approve() (main.py, AGENTIC_RAG_MANUAL_VERIFICATION_FLAG).
ApprovedIsSafe ==
    \A c \in Control : Approved(c) =>
        /\ row[c].preflight_status = "SAFE"
        /\ row[c].source = "template"

\* Only a human admin or operator signs, and whoever an APPROVED row names has
\* signed for that control in the ledger (the agent firewall of check_permission,
\* and "the approval's own event was already recorded by the caller").
ApproverHasSigned ==
    /\ \A e \in ledger : e.event_type = "APPROVED" =>
            /\ e.actor \in Actor
            /\ ActorType[e.actor] = "human"
            /\ Role[e.actor] \in {"admin", "operator"}
    /\ \A c \in Control : Approved(c) =>
            \E e \in ledger : /\ e.event_type = "APPROVED"
                              /\ e.control = c
                              /\ e.actor = row[c].approved_by

\* Two approvals of one script by different people never both come back one short
\* of the quorum and leave the proposal pending: the row lock of approve() makes
\* the second see the first.
NoLostQuorum ==
    \A r, s \in Request :
        LET c == req[r].control
        IN  /\ req[r].outcome = "partial" /\ req[s].outcome = "partial"
            /\ req[s].control = c
            /\ req[r].script = req[s].script
            /\ req[r].actor # req[s].actor
            /\ Exists(c)
            => ~(row[c].script = req[r].script /\ row[c].approval_status = "PENDING")

\* The latest event of the given types about control c.
LatestIs(c, types, type) ==
    \E e \in ledger :
        /\ e.control = c /\ e.event_type = type
        /\ \A x \in ledger : x.control = c /\ x.event_type \in types
                             => x.created_at <= e.created_at

\* The ledger, replayed by timestamp, gives the row: its rollback status follows
\* from the latest of the proposal, apply and rollback events, and a rejection is
\* on record for the very script and person the row shows.
LedgerExplainsRow ==
    LET lifecycle == {"REMEDIATION_PROPOSED", "APPLIED", "ROLLED_BACK"}
    IN  \A c \in Control : Exists(c) =>
            /\ row[c].rollback_status = "NONE" => LatestIs(c, lifecycle, "REMEDIATION_PROPOSED")
            /\ row[c].rollback_status = "APPLIED" => LatestIs(c, lifecycle, "APPLIED")
            /\ row[c].rollback_status = "ROLLED_BACK" => LatestIs(c, lifecycle, "ROLLED_BACK")
            /\ row[c].approval_status = "REJECTED" =>
                  \E e \in ledger : /\ e.event_type = "REJECTED" /\ e.control = c
                                    /\ e.script = row[c].script
                                    /\ e.actor = row[c].approved_by

\* Whatever was applied can be rolled back to a recorded baseline: the pin is there
\* as long as the row says applied, and every ROLLED_BACK event names one
\* ("restore is a stored pre-change hash, not a reconstructed guess").
RestorePointKnown ==
    /\ \A c \in Control : Applied(c) => row[c].pin \in 1 .. evals
    /\ \A e \in ledger : e.event_type = "ROLLED_BACK" => e.restore \in 1 .. evals

\* A violation that MTTR still reports as open, and ages against its SLA, is not one whose
\* proposal is approved: reporting works from the ledger alone and never reads the row.
OpenIsUnapproved == \A c \in Control : Approved(c) => ~mttr_open(c)

\* Once no more requests come, every request in progress is answered or lost in a crash:
\* none waits for a row lock for ever.
EveryRequestEnds == <>[](InFlight = {})

-----------------------------------------------------------------------------
(* What is said of an approval, and fails when requests overlap; see       *)
(* Contention for what holds.                                              *)

\* Those who signed script s of control c.
Signers(c, s) ==
    {e.actor : e \in {x \in ledger : /\ x.event_type = "APPROVED"
                                     /\ x.control = c /\ x.script = s}}

\* Whoever an APPROVED row names signed the script the row holds: no approval
\* survives a regeneration of the script.
ApprovalIsCurrent ==
    \A c \in Control : Approved(c) =>
        row[c].approved_by \in Signers(c, row[c].script)

\* The signatures the quorum query counts were all given to the script the row holds:
\* "an APPROVED event from a since-regenerated, never-reviewed-by-that-approver script
\* version can never count toward this version's quorum" (app/db.py, approve).
QuorumIsCurrent ==
    \A c \in Control : Exists(c) => prior_actors(c) \subseteq Signers(c, row[c].script)

=============================================================================

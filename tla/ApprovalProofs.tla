--------------------------- MODULE ApprovalProofs ---------------------------
(***************************************************************************)
(* What approval and roll back rest on, for any number of requests in      *)
(* flight: an approved proposal is a vetted template, whatever was applied *)
(* has a baseline to go back to, no quorum of signatures is lost, and what *)
(* is approved was signed by those it takes unless its script was saved    *)
(* under somebody's decision.                                              *)
(***************************************************************************)
EXTENDS Contention, RemediationProofs, FiniteSetTheorems

-----------------------------------------------------------------------------
(* What a step may do to a proposal.                                       *)

\* The upsert of save_proposal: approval and application start over, the pin is
\* what it was.
Regenerated(c, y) ==
    /\ y.approval_status = "PENDING"
    /\ ~y.applied
    /\ y.preflight_status = "SAFE" => y.source = "template"
    /\ y.pin = 0 \/ (Exists(c) /\ y.pin = row[c].pin)

\* The update of _finalize_approval, for an approval.
Finalized(r, c, y) ==
    /\ req[r].pc = "finalize"
    /\ Safe(c)
    /\ y.preflight_status = row[c].preflight_status
    /\ y.source = row[c].source
    /\ y.pin = req[r].sha
    /\ y.applied = row[c].applied
    /\ y.rollback_status = row[c].rollback_status

\* Any other update: nothing is approved by it, only what is approved is applied.
Amended(c, y) ==
    /\ Exists(c)
    /\ y.preflight_status = row[c].preflight_status
    /\ y.source = row[c].source
    /\ y.pin = row[c].pin
    /\ y.approval_status = "APPROVED" => Approved(c)
    /\ y.applied => Applied(c) \/ Approved(c)
    /\ \/ y.rollback_status # "NONE"
       \/ y.applied = row[c].applied /\ y.rollback_status = row[c].rollback_status

RowStep(c, y) ==
    /\ row' = [row EXCEPT ![c] = y]
    /\ \/ Regenerated(c, y)
       \/ \E r \in Request : Finalized(r, c, y)
       \/ Amended(c, y)

\* A step of a request changes at most one proposal, in one of the three ways.
LEMMA RowSteps ==
    ASSUME TypeOK, NEW r \in Request, Step(r)
    PROVE  row' = row \/ \E c \in Control, y \in Row : RowStep(c, y)
<1> DEFINE c == req[r].control
           a == req[r].actor
<1>1. /\ c \in Control /\ a \in Actor \cup {Nobody} /\ req[r].now \in Nat
      /\ req[r].sha \in Nat /\ req[r].facts \in Facts
  BY DEF TypeOK, RequestState
<1>2. Exists(c) => row[c] \in Row
  BY <1>1 DEF TypeOK, Exists
<1>3. ASSUME NEW y \in Row, row' = [row EXCEPT ![c] = y],
             Regenerated(c, y) \/ Finalized(r, c, y) \/ Amended(c, y)
      PROVE  \E d \in Control, z \in Row : RowStep(d, z)
  BY <1>1, <1>3 DEF RowStep
<1>4. ASSUME save_proposal(r), row' # row
      PROVE  \E d \in Control, z \in Row : RowStep(d, z)
  <2> DEFINE p == build_proposal(r, req[r].facts, req[r].now)
             k == upsert(row[c], p)
  <2>1. /\ p \in Row /\ p.approval_status = "PENDING" /\ p.applied = FALSE /\ p.pin = 0
        /\ p.preflight_status = "SAFE" => p.source = "template"
    BY <1>1, ProposalType
  <2>2. Exists(c) => /\ k \in Row /\ k.approval_status = "PENDING" /\ k.applied = FALSE
                     /\ k.preflight_status = "SAFE" => k.source = "template"
                     /\ k.pin = row[c].pin
    <3> HIDE DEF p
    <3> QED  BY <1>2, <2>1 DEF upsert, Row
  <2>3. \/ row' = [row EXCEPT ![c] = p]
        \/ Exists(c) /\ row' = [row EXCEPT ![c] = k]
    BY <1>4 DEF save_proposal
  <2>4. Regenerated(c, p)
    BY <2>1 DEF Regenerated
  <2>5. Exists(c) => Regenerated(c, k)
    <3> HIDE DEF k
    <3> QED  BY <2>2 DEF Regenerated
  <2> HIDE DEF p, k
  <2> QED
    BY <1>3, <2>1, <2>2, <2>3, <2>4, <2>5
<1>5. ASSUME finalize_approval(r), row' # row
      PROVE  \E d \in Control, z \in Row : RowStep(d, z)
  <2> DEFINE y == [row[c] EXCEPT !.approval_status = "APPROVED", !.approved_by = a,
                                 !.updated_at = req[r].now, !.pin = req[r].sha]
  <2>1. Safe(c) /\ row[c] \in Row /\ req[r].pc = "finalize" /\ row' = [row EXCEPT ![c] = y]
    BY <1>2, <1>5 DEF finalize_approval, Safe
  <2>2. y \in Row /\ Finalized(r, c, y)
    BY <1>1, <2>1 DEF Finalized, Row, Statuses
  <2> HIDE DEF y
  <2> QED
    BY <1>3, <2>1, <2>2
<1>6. ASSUME reject(r), row' # row
      PROVE  \E d \in Control, z \in Row : RowStep(d, z)
  <2> DEFINE y == [row[c] EXCEPT !.approval_status = "REJECTED", !.approved_by = a,
                                 !.updated_at = req[r].now]
  <2>1. Exists(c) /\ row[c] \in Row /\ row' = [row EXCEPT ![c] = y]
    BY <1>2, <1>6 DEF reject
  <2>2. y \in Row /\ Amended(c, y)
    BY <1>1, <2>1 DEF Amended, Applied, Row, Statuses
  <2> HIDE DEF y
  <2> QED
    BY <1>3, <2>1, <2>2
<1>7. ASSUME apply(r), row' # row
      PROVE  \E d \in Control, z \in Row : RowStep(d, z)
  <2> DEFINE y == [row[c] EXCEPT !.applied = TRUE, !.rollback_status = "APPLIED",
                                 !.updated_at = req[r].now]
  <2>1. Approved(c) /\ Exists(c) /\ row[c] \in Row /\ row' = [row EXCEPT ![c] = y]
    BY <1>2, <1>7 DEF apply, Approved
  <2>2. y \in Row /\ Amended(c, y)
    BY <1>1, <2>1 DEF Amended, Row, RollbackStatuses
  <2> HIDE DEF y
  <2> QED
    BY <1>3, <2>1, <2>2
<1>8. ASSUME rollback(r), row' # row
      PROVE  \E d \in Control, z \in Row : RowStep(d, z)
  <2> DEFINE y == [row[c] EXCEPT !.rollback_status = "ROLLED_BACK", !.updated_at = req[r].now]
  <2>1. Applied(c) /\ Exists(c) /\ row[c] \in Row /\ row' = [row EXCEPT ![c] = y]
    BY <1>2, <1>8 DEF rollback, Applied
  <2>2. y \in Row /\ Amended(c, y)
    BY <1>1, <2>1 DEF Amended, Approved, Row, RollbackStatuses
  <2> HIDE DEF y
  <2> QED
    BY <1>3, <2>1, <2>2
<1>9. \/ row' = row
      \/ save_proposal(r) \/ finalize_approval(r) \/ reject(r) \/ apply(r) \/ rollback(r)
  BY DEF Step, build, build_fails, approve_lock, approve_record, get_proposal, pin_baseline
<1> QED
  BY <1>4, <1>5, <1>6, <1>7, <1>8, <1>9

\* What is not a step of a request leaves the proposals alone or removes them all.
LEMMA EnvironmentRows ==
    ASSUME Environment
    PROVE  row' = row \/ \A c \in Control : row'[c] = NoRow
BY DEF Environment, generate, generate_for_run, approve, mark_applied, trigger_rollback,
       Arrive, save_findings, crash

-----------------------------------------------------------------------------
(* Approved proposals.                                                     *)

\* The strengthening of ApprovedIsSafe: SAFE is a verdict on templates alone.  What is
\* applied has a roll-back status to say so.
Vetted ==
    \A c \in Control : Exists(c) =>
        /\ row[c].preflight_status = "SAFE" => row[c].source = "template"
        /\ row[c].approval_status = "APPROVED" => row[c].preflight_status = "SAFE"
        /\ row[c].applied => row[c].rollback_status # "NONE"

\* Every way to change a proposal keeps it vetted.
LEMMA VettedKept ==
    ASSUME TypeOK, Vetted, [Next]_vars
    PROVE  Vetted'
<1>1. CASE row' = row
  BY <1>1 DEF Vetted, Exists
<1>2. CASE \A c \in Control : row'[c] = NoRow
  BY <1>2 DEF Vetted, Exists
<1>3. CASE \E c \in Control, y \in Row : RowStep(c, y)
  <2>1. PICK c \in Control, y \in Row : RowStep(c, y)
    BY <1>3
  <2>2. /\ y.preflight_status = "SAFE" => y.source = "template"
        /\ y.approval_status = "APPROVED" => y.preflight_status = "SAFE"
        /\ y.applied => y.rollback_status # "NONE"
    BY <2>1 DEF RowStep, Regenerated, Finalized, Amended, Vetted, Safe, Approved, Exists
  <2>3. row'[c] = y /\ \A d \in Control : d # c => row'[d] = row[d]
    BY <2>1 DEF RowStep, TypeOK
  <2> QED
    BY <2>2, <2>3 DEF Vetted, Exists
<1>4. \/ row' = row
      \/ \A c \in Control : row'[c] = NoRow
      \/ \E c \in Control, y \in Row : RowStep(c, y)
  BY RowSteps, EnvironmentRows DEF Next, vars
<1> QED
  BY <1>1, <1>2, <1>3, <1>4

LEMMA AllVetted == Spec => []Vetted
<1>1. Init => Vetted
  BY DEF Init, Vetted, Exists
<1>2. TypeOK /\ Vetted /\ [Next]_vars => Vetted'
  BY VettedKept
<1> QED
  BY <1>1, <1>2, TypeCorrect, PTL DEF Spec

\* What is approved has passed preflight and comes from a template.
THEOREM ApprovedAreSafe == Spec => []ApprovedIsSafe
<1>1. Vetted => ApprovedIsSafe
  BY DEF Vetted, ApprovedIsSafe, Approved, Exists
<1> QED
  BY <1>1, AllVetted, PTL

-----------------------------------------------------------------------------
(* Restore points.                                                         *)

Recorded(n) == n \in 1 .. evals

RowsPinned ==
    \A c \in Control : Exists(c) =>
        /\ row[c].pin = 0 \/ Recorded(row[c].pin)
        /\ Approved(c) \/ Applied(c) => Recorded(row[c].pin)

RequestsPinned == \A r \in Request : req[r].pc = "finalize" => Recorded(req[r].sha)

EventsPinned == \A e \in ledger : e.event_type = "ROLLED_BACK" => Recorded(e.restore)

\* The strengthening of RestorePointKnown: a proposal is pinned when it is approved
\* and must be approved to be applied; the hash on its way to the row is a recorded
\* one; and there always is an evaluation to take it from.
Pinned == /\ evals \in Nat /\ evals >= 1
          /\ RowsPinned /\ RequestsPinned /\ EventsPinned

\* A recorded baseline stays one.
LEMMA StaysRecorded ==
    ASSUME evals \in Nat, evals' \in Nat, evals' >= evals
    PROVE  \A n : Recorded(n) => n \in 1 .. evals'
BY DEF Recorded

\* Evaluations only accumulate.
LEMMA EvaluationsGrow ==
    ASSUME TypeOK, [Next]_vars
    PROVE  evals' \in Nat /\ evals' >= evals
<1>1. ASSUME Environment
      PROVE  evals' = evals \/ evals' = evals + 1
  BY <1>1 DEF Environment, generate, generate_for_run, approve, mark_applied,
              trigger_rollback, Arrive, save_findings, crash
<1>2. ASSUME NEW r \in Request, Step(r)
      PROVE  evals' = evals
  <2>1. ASSUME save_proposal(r) \/ approve_lock(r)
               \/ approve_record(r) \/ get_proposal(r) \/ pin_baseline(r)
        PROVE  evals' = evals
    BY <2>1 DEF save_proposal, approve_lock, approve_record, get_proposal, pin_baseline
  <2>2. ASSUME finalize_approval(r) \/ reject(r) \/ apply(r) \/ rollback(r)
        PROVE  evals' = evals
    BY <2>2 DEF finalize_approval, reject, apply, rollback
  <2> QED
    BY <1>2, <2>1, <2>2 DEF Step, build, build_fails
<1>3. UNCHANGED vars => evals' = evals
  BY DEF vars
<1> QED
  BY <1>1, <1>2, <1>3 DEF TypeOK, Next

\* A request about to finalize was so before, with the same hash, or has just read
\* the latest one.
LEMMA HashSteps ==
    ASSUME TypeOK, [Next]_vars, NEW s \in Request, req'[s].pc = "finalize"
    PROVE  (req[s].pc = "finalize" /\ req'[s].sha = req[s].sha) \/ req'[s].sha = evals
<1>1. ASSUME NEW r \in Request, NEW q, req' = [req EXCEPT ![r] = q], q.pc # "finalize"
      PROVE  req'[s] = req[s]
  BY <1>1 DEF TypeOK
<1>2. \A r, o, h : Finish(r, o, h).pc = "done"
  BY DEF Finish, Blank
<1>3. CASE UNCHANGED vars
  BY <1>3 DEF vars
<1>4. CASE Environment
  <2>1. ASSUME NEW r \in Request, NEW e, NEW q, Arrive(r, e, q), q.pc # "finalize"
        PROVE  req'[s] = req[s]
    BY <1>1, <2>1 DEF Arrive
  <2>2. ASSUME NEW r \in Request,
               \/ generate_for_run(r)
               \/ \E c \in Control : generate(r, c)
               \/ \E c \in Control, a \in Actor : mark_applied(r, c, a)
        PROVE  req'[s] = req[s]
    BY <2>1, <2>2 DEF generate, generate_for_run, mark_applied, Blank
  <2>3. ASSUME NEW r \in Request,
               \E c \in Control, a \in Actor, b \in BOOLEAN :
                   approve(r, c, a, b) \/ trigger_rollback(r, c, a, b)
        PROVE  req'[s] = req[s]
    BY <2>1, <2>3 DEF approve, trigger_rollback, Blank
  <2>4. ASSUME NEW r \in Request, crash(r)
        PROVE  req'[s] = req[s]
    <3> DEFINE q == [Finish(r, "none", "none") EXCEPT !.pc = "crashed"]
    <3>1. q.pc = "crashed" /\ req' = [req EXCEPT ![r] = q]
      BY <2>4 DEF crash, Finish, Blank
    <3> HIDE DEF q
    <3> QED  BY <1>1, <3>1
  <2>5. ASSUME NEW found \in SUBSET Control, save_findings(found)
        PROVE  req'[s] = req[s]
    BY <2>5 DEF save_findings
  <2> QED
    BY <1>4, <2>2, <2>3, <2>4, <2>5 DEF Environment
<1>5. ASSUME NEW r \in Request, Step(r)
      PROVE  \/ req[s].pc = "finalize" /\ req'[s].sha = req[s].sha
             \/ req'[s].sha = evals
  <2> DEFINE c == req[r].control
  <2>0. req[r] \in RequestState
    BY DEF TypeOK
  <2>1. ASSUME NEW d \in Control, NEW f \in Facts, build(r, d, f)
        PROVE  req'[s] = req[s]
    <3> DEFINE q == [req[r] EXCEPT !.pc = "save", !.control = d, !.facts = f, !.now = clock]
    <3>1. q.pc = "save" /\ req' = [req EXCEPT ![r] = q]
      BY <2>0, <2>1 DEF build, TypeOK, RequestState
    <3> HIDE DEF q
    <3> QED  BY <1>1, <3>1
  <2>2. \A d, saved : NextControl(r, d, saved).pc \in {"build", "done"}
    BY <2>0 DEF NextControl, Finish, Blank, RequestState
  <2>3. ASSUME NEW d \in Control, NEW t \in BOOLEAN, build_fails(r, d, t)
        PROVE  req'[s] = req[s]
    BY <1>1, <1>2, <2>2, <2>3 DEF build_fails
  <2>4. ASSUME save_proposal(r)
        PROVE  req'[s] = req[s]
    BY <1>1, <1>2, <2>2, <2>4 DEF save_proposal
  <2>5. ASSUME approve_lock(r)
        PROVE  req'[s] = req[s]
    <3> DEFINE q == [req[r] EXCEPT !.pc = "record", !.script = row[c].script,
                                   !.action = row[c].decision_action,
                                   !.prior = prior_actors(c)]
    <3>1. q.pc = "record"
      BY <2>0 DEF RequestState
    <3>2. \/ req' = [req EXCEPT ![r] = q]
          \/ \E o, h : req' = [req EXCEPT ![r] = Finish(r, o, h)]
      BY <2>5 DEF approve_lock
    <3> HIDE DEF q
    <3> QED  BY <1>1, <1>2, <3>1, <3>2
  <2>6. ASSUME approve_record(r)
        PROVE  req'[s] = req[s]
    <3>1. PICK pc \in {"pin", "get_proposal"} :
              req' = [req EXCEPT ![r] = [req[r] EXCEPT !.pc = pc]]
      BY <2>6 DEF approve_record, TypeOK
    <3>2. [req[r] EXCEPT !.pc = pc].pc = pc
      BY <2>0 DEF RequestState
    <3> QED  BY <1>1, <3>1, <3>2
  <2>7. ASSUME pin_baseline(r)
        PROVE  req'[s] = req[s] \/ req'[s].sha = evals
    BY <2>0, <2>7 DEF pin_baseline, latest_baseline, TypeOK, RequestState
  <2>8. ASSUME get_proposal(r) \/ finalize_approval(r) \/ reject(r) \/ apply(r) \/ rollback(r)
        PROVE  req'[s] = req[s]
    <3>1. \E o, h : req' = [req EXCEPT ![r] = Finish(r, o, h)]
      BY <2>8 DEF get_proposal, finalize_approval, reject, apply, rollback
    <3> QED  BY <1>1, <1>2, <3>1
  <2> QED
    BY <1>5, <2>1, <2>3, <2>4, <2>5, <2>6, <2>7, <2>8 DEF Step
<1> QED
  BY <1>3, <1>4, <1>5 DEF Next

\* A roll back restores what the applied proposal was pinned to.
LEMMA RollbackEvents ==
    ASSUME TypeOK, [Next]_vars, NEW e \in ledger' \ ledger, e.event_type = "ROLLED_BACK"
    PROVE  \E c \in Control : Applied(c) /\ e.restore = row[c].pin
<1>1. CASE ledger' = ledger
  BY <1>1
<1>2. ASSUME NEW r \in Request, rollback(r)
      PROVE  \E c \in Control : Applied(c) /\ e.restore = row[c].pin
  <2> DEFINE c == req[r].control
             f == Ev("VERIFICATION_FAILED", c, req[r].actor, clock, Nobody, 0)
             b == Ev("ROLLED_BACK", c, req[r].actor, clock + 1, row[c].script, row[c].pin)
  <2>1. e = f \/ (e = b /\ Applied(c))
    BY <1>2 DEF rollback
  <2>2. f.event_type # "ROLLED_BACK" /\ b.restore = row[c].pin /\ c \in Control
    BY DEF Ev, TypeOK, RequestState
  <2> QED
    BY <2>1, <2>2
<1>3. ASSUME NEW r \in Request,
             save_proposal(r) \/ approve_record(r) \/ reject(r) \/ apply(r)
      PROVE  FALSE
  <2>1. \A type, d, a, at, script, n : Ev(type, d, a, at, script, n).event_type = type
    BY DEF Ev
  <2>2. CASE save_proposal(r)
    <3> DEFINE c == req[r].control
               e1 == Ev("REMEDIATION_PROPOSED", c, Nobody, clock, r, 0)
               e2 == Ev("DECISION_MADE", c, Nobody, clock + 1, r, 0)
    <3>1. ledger' = ledger \/ ledger' = ledger \cup {e1, e2}
      BY <2>2 DEF save_proposal
    <3>2. e1.event_type # "ROLLED_BACK" /\ e2.event_type # "ROLLED_BACK"
      BY <2>1
    <3> HIDE DEF e1, e2
    <3> QED  BY <3>1, <3>2
  <2>3. CASE approve_record(r)
    BY <2>1, <2>3 DEF approve_record
  <2>4. CASE reject(r)
    BY <2>1, <2>4 DEF reject
  <2>5. CASE apply(r)
    BY <2>1, <2>5 DEF apply
  <2> QED
    BY <1>3, <2>2, <2>3, <2>4, <2>5
<1>4. ASSUME NEW found \in SUBSET Control, save_findings(found)
      PROVE  FALSE
  BY <1>4 DEF save_findings, Ev
<1>5. \/ ledger' = ledger
      \/ \E r \in Request :
            rollback(r) \/ save_proposal(r) \/ approve_record(r) \/ reject(r) \/ apply(r)
      \/ \E found \in SUBSET Control : save_findings(found)
  BY DEF Next, Environment, Step, vars, generate, generate_for_run, approve, mark_applied,
         trigger_rollback, Arrive, crash, build, build_fails, approve_lock, get_proposal,
         pin_baseline, finalize_approval
<1> QED
  BY <1>1, <1>2, <1>3, <1>4, <1>5

\* Every step keeps the proposals pinned.
LEMMA RowsPinnedKept ==
    ASSUME TypeOK, Pinned, [Next]_vars
    PROVE  RowsPinned'
<1>1. evals \in Nat /\ evals' \in Nat /\ evals' >= evals
  BY EvaluationsGrow DEF Pinned
<1>2. \A n : Recorded(n) => n \in 1 .. evals'
  BY <1>1, StaysRecorded
<1>3. CASE row' = row
  BY <1>2, <1>3 DEF Pinned, RowsPinned, Approved, Applied, Exists, Recorded
<1>4. CASE \A c \in Control : row'[c] = NoRow
  BY <1>4 DEF RowsPinned, Exists
<1>5. CASE \E c \in Control, y \in Row : RowStep(c, y)
  <2>1. PICK c \in Control, y \in Row : RowStep(c, y)
    BY <1>5
  <2>2. y.pin = 0 \/ Recorded(y.pin)
    BY <2>1 DEF RowStep, Regenerated, Finalized, Amended, Pinned, RowsPinned,
                RequestsPinned, Safe
  <2>3. y.approval_status = "APPROVED" \/ y.applied => Recorded(y.pin)
    <3>1. CASE Regenerated(c, y)
      BY <3>1 DEF Regenerated
    <3>2. CASE \E r \in Request : Finalized(r, c, y)
      BY <3>2 DEF Finalized, Pinned, RequestsPinned
    <3>3. CASE Amended(c, y)
      BY <3>3 DEF Amended, Pinned, RowsPinned
    <3> QED
      BY <2>1, <3>1, <3>2, <3>3 DEF RowStep
  <2>4. row'[c] = y /\ \A d \in Control : d # c => row'[d] = row[d]
    BY <2>1 DEF RowStep, TypeOK
  <2>5. SUFFICES ASSUME NEW d \in Control
                 PROVE  (Exists(d) => /\ row[d].pin = 0 \/ Recorded(row[d].pin)
                                      /\ Approved(d) \/ Applied(d) => Recorded(row[d].pin))'
    BY DEF RowsPinned
  <2>6. CASE d = c
    BY <1>2, <2>2, <2>3, <2>4, <2>6 DEF Approved, Applied, Recorded
  <2>7. CASE d # c
    BY <1>2, <2>4, <2>7 DEF Pinned, RowsPinned, Approved, Applied, Exists, Recorded
  <2> QED
    BY <2>6, <2>7
<1>6. \/ row' = row
      \/ \A c \in Control : row'[c] = NoRow
      \/ \E c \in Control, y \in Row : RowStep(c, y)
  BY RowSteps, EnvironmentRows DEF Next, vars
<1> QED
  BY <1>3, <1>4, <1>5, <1>6

\* And the rest of the invariant.
LEMMA PinnedKept ==
    ASSUME TypeOK, Pinned, [Next]_vars
    PROVE  Pinned'
<1>1. /\ evals \in Nat /\ evals >= 1 /\ evals' \in Nat /\ evals' >= evals
      /\ RowsPinned /\ RequestsPinned /\ EventsPinned
  BY EvaluationsGrow DEF Pinned
<1>2. \A n : Recorded(n) => n \in 1 .. evals'
  BY <1>1, StaysRecorded
<1>3. RequestsPinned'
  <2> SUFFICES ASSUME NEW s \in Request, req'[s].pc = "finalize"
               PROVE  req'[s].sha \in 1 .. evals'
    BY DEF RequestsPinned, Recorded
  <2>1. (req[s].pc = "finalize" /\ req'[s].sha = req[s].sha) \/ req'[s].sha = evals
    BY HashSteps
  <2>2. Recorded(req'[s].sha)
    <3>1. Recorded(evals)
      BY <1>1 DEF Recorded
    <3> QED  BY <1>1, <2>1, <3>1 DEF RequestsPinned
  <2> QED
    BY <1>2, <2>2
<1>4. EventsPinned'
  <2> SUFFICES ASSUME NEW e \in ledger', e.event_type = "ROLLED_BACK"
               PROVE  e.restore \in 1 .. evals'
    BY DEF EventsPinned, Recorded
  <2>1. CASE e \in ledger
    BY <1>1, <1>2, <2>1 DEF EventsPinned
  <2>2. CASE e \notin ledger
    BY <1>1, <1>2, <2>2, RollbackEvents DEF RowsPinned, Applied
  <2> QED
    BY <2>1, <2>2
<1>5. RowsPinned'
  BY RowsPinnedKept
<1>6. evals' >= 1
  BY <1>1
<1> QED
  BY <1>1, <1>3, <1>4, <1>5, <1>6 DEF Pinned

\* What is applied is pinned to a recorded evaluation, and every roll back restores one.
THEOREM RestorePointsKnown == Spec => []RestorePointKnown
<1>1. Init => Pinned
  BY DEF Init, Pinned, RowsPinned, RequestsPinned, EventsPinned, Exists, Blank, Ev
<1>2. TypeOK /\ Pinned /\ [Next]_vars => Pinned'
  BY PinnedKept
<1>3. Pinned => RestorePointKnown
  BY DEF Pinned, RowsPinned, EventsPinned, Recorded, RestorePointKnown, Applied
<1> QED
  BY <1>1, <1>2, <1>3, TypeCorrect, PTL DEF Spec

-----------------------------------------------------------------------------
(* The quorum.                                                             *)

\* The signatures of the run, and who gave them.
Signatures == {e \in ledger : e.event_type = "APPROVED"}
Signatories == {e.actor : e \in Signatures}

\* A request that came back, or is about to, one signature short.
Short(k) == k.pc = "get_proposal" \/ k.outcome = "partial"

\* A request that may yet save a script for control c.
Unsaved(k, c) == k.pc = "idle" \/ (k.pc \in {"build", "save"} /\ c \in k.todo)

\* Control c has script s, and nobody has decided on it.
Undecided(c, s) ==
    Exists(c) /\ row[c].script = s /\ row[c].approval_status = "PENDING"

\* What a request knows of itself.
RequestOK(k, time) ==
    /\ k.now <= time
    /\ k.pc # "done" => k.outcome = "none"
    /\ k.pc \in {"idle", "build", "save"} => k.script = Nobody
    /\ k.pc = "save" => k.control \in k.todo

RequestsOK == \A r \in Request : RequestOK(req[r], clock)

\* No proposal is dated ahead, and none is applied before it is decided on.
RowOK(y, time) ==
    /\ y.updated_at <= time
    /\ y.applied => y.approval_status # "PENDING"

RowsOK == \A c \in Control : Exists(c) => RowOK(row[c], clock)

\* Nobody has seen a script that is not saved.
ScriptsNew ==
    \A g \in Request, c \in Control : Unsaved(req[g], c) =>
        /\ Exists(c) => row[c].script # g
        /\ \A r \in Request : req[r].control = c => req[r].script # g

\* What a signer read under the row lock is so until it signs.
ReadsHold ==
    \A r \in Request, c \in Control : req[r].pc = "record" /\ req[r].control = c =>
        /\ lock[c] = r
        /\ Exists(c)
        /\ req[r].script = row[c].script
        /\ req[r].action = row[c].decision_action
        /\ req[r].prior = prior_actors(c)

\* r came back one short on script g of control c.
OneShort(r, c, g) == Short(req[r]) /\ req[r].control = c /\ req[r].script = g

\* The quorum query finds whoever came back short, and that is one person.
ShortOnesCount ==
    \A r \in Request, c \in Control, g \in Request :
        OneShort(r, c, g) /\ Undecided(c, g) => req[r].actor \in prior_actors(c)

ShortOnesAgree ==
    \A r, s \in Request, c \in Control, g \in Request :
        OneShort(r, c, g) /\ OneShort(s, c, g) /\ Undecided(c, g) => req[r].actor = req[s].actor

Quorum ==
    /\ IsFiniteSet(Signatories)
    /\ RequestsOK /\ RowsOK /\ ScriptsNew
    /\ ReadsHold /\ ShortOnesCount /\ ShortOnesAgree

\* Who is in the answer of the quorum query.
LEMMA PriorActor ==
    ASSUME NEW c \in Control, NEW a
    PROVE  a \in prior_actors(c) <=>
               \E e \in Signatures : /\ e.control = c /\ e.actor = a
                                     /\ e.created_at >= row[c].updated_at
BY DEF prior_actors, Signatures

LEMMA PriorsAreFinite ==
    ASSUME IsFiniteSet(Signatories), NEW c \in Control
    PROVE  IsFiniteSet(prior_actors(c))
<1>1. prior_actors(c) \in SUBSET Signatories
  BY DEF prior_actors, Signatories, Signatures
<1> QED
  BY <1>1, FS_Subset

\* One short means that all the others who signed are the one who signs.
LEMMA ShortMeansAlone ==
    ASSUME NEW action, NEW prior, IsFiniteSet(prior), NEW a,
           ~dual_approval_satisfied(action, prior, a)
    PROVE  prior \subseteq {a}
<1> SUFFICES ASSUME NEW b \in prior, b # a
             PROVE  FALSE
  OBVIOUS
<1>1. IsFiniteSet(prior \cup {a}) /\ {a} \cup {b} \in SUBSET (prior \cup {a})
  BY FS_AddElement
<1>2. IsFiniteSet({a}) /\ Cardinality({a}) = 1
  BY FS_Singleton
<1>3. Cardinality({a} \cup {b}) = 2
  BY <1>2, FS_AddElement
<1>4. Cardinality(prior \cup {a}) \in Nat /\ Cardinality({a} \cup {b}) <= Cardinality(prior \cup {a})
  BY <1>1, FS_Subset, FS_CardinalityType
<1> QED
  BY <1>3, <1>4 DEF dual_approval_satisfied

-----------------------------------------------------------------------------
(* Most steps sign nothing and read nothing under a lock.                  *)

\* What such a step makes of a request,
Settles(o, k) ==
    /\ k.pc # "record"
    /\ RequestOK(k, clock')
    /\ k.script = Nobody \/ (k.script = o.script /\ k.control = o.control)
    /\ Short(k) => /\ Short(o)
                   /\ k.actor = o.actor /\ k.control = o.control /\ k.script = o.script
    /\ \A c \in Control : Unsaved(k, c) => Unsaved(o, c)

\* and of a proposal nobody has locked.
Rewrites(c) ==
    /\ Unlocked(c)
    /\ row'[c] # NoRow =>
        /\ RowOK(row'[c], clock')
        /\ row'[c].approval_status = "PENDING" =>
               \A r \in Request : req[r].control = c => req[r].script # row'[c].script
        /\ \A g \in Request : Unsaved(req'[g], c) => row'[c].script # g

Mild ==
    /\ Signatures' = Signatures
    /\ clock <= clock'
    /\ \A r \in Request : req'[r] = req[r] \/ Settles(req[r], req'[r])
    /\ \A c \in Control : row'[c] = row[c] \/ Rewrites(c)
    /\ \A r \in Request, c \in Control : lock[c] = r /\ req'[r] = req[r] => lock'[c] = r

LEMMA MildKeeps ==
    ASSUME TypeOK, TypeOK', Quorum, Mild
    PROVE  Quorum'
<1> USE DEF Mild
<1>1. /\ \A r \in Request : /\ req[r].control \in Control /\ req'[r].control \in Control
                            /\ req[r].script \in Request \cup {Nobody}
                            /\ req[r].now \in Nat
      /\ \A c \in Control : row[c] # NoRow => row[c] \in Row
      /\ \A c \in Control : row'[c] # NoRow => row'[c] \in Row
      /\ clock \in Nat /\ clock' \in Nat
  BY DEF TypeOK, RequestState
<1>2. \A c \in Control : row'[c] = row[c] => prior_actors(c)' = prior_actors(c)
  BY DEF prior_actors, Signatures
<1>3. IsFiniteSet(Signatories)'
  BY DEF Quorum, Signatories
<1>4. RequestsOK'
  <2> SUFFICES ASSUME NEW r \in Request
               PROVE  RequestOK(req'[r], clock')
    BY DEF RequestsOK
  <2>1. CASE req'[r] = req[r]
    BY <1>1, <2>1 DEF Quorum, RequestsOK, RequestOK
  <2>2. CASE Settles(req[r], req'[r])
    BY <2>2 DEF Settles
  <2> QED  BY <2>1, <2>2
<1>5. RowsOK'
  <2> SUFFICES ASSUME NEW c \in Control, row'[c] # NoRow
               PROVE  RowOK(row'[c], clock')
    BY DEF RowsOK, Exists
  <2>1. CASE row'[c] = row[c]
    BY <1>1, <2>1 DEF Quorum, RowsOK, RowOK, Exists, Row
  <2>2. CASE Rewrites(c)
    BY <2>2 DEF Rewrites
  <2> QED  BY <2>1, <2>2
<1>6. ScriptsNew'
  <2> SUFFICES ASSUME NEW g \in Request, NEW c \in Control, Unsaved(req'[g], c)
               PROVE  /\ row'[c] # NoRow => row'[c].script # g
                      /\ \A r \in Request : req'[r].control = c => req'[r].script # g
    BY DEF ScriptsNew, Exists
  <2>1. Unsaved(req[g], c)
    BY DEF Settles
  <2>2. row'[c] # NoRow => row'[c].script # g
    BY <2>1 DEF Quorum, ScriptsNew, Rewrites, Exists
  <2>3. ASSUME NEW r \in Request, req'[r].control = c
        PROVE  req'[r].script # g
    <3>1. req[r].control = c => req[r].script # g
      BY <2>1 DEF Quorum, ScriptsNew
    <3>2. req'[r].script = Nobody \/ (req'[r].script = req[r].script /\ req[r].control = c)
      BY <2>3 DEF Settles
    <3> QED  BY <3>1, <3>2, ConstantsOK
  <2> QED  BY <2>2, <2>3
<1>7. ReadsHold'
  <2> SUFFICES ASSUME NEW r \in Request, NEW c \in Control,
                      req'[r].pc = "record", req'[r].control = c
               PROVE  /\ lock'[c] = r
                      /\ row'[c] # NoRow
                      /\ req'[r].script = row'[c].script
                      /\ req'[r].action = row'[c].decision_action
                      /\ req'[r].prior = prior_actors(c)'
    BY DEF ReadsHold, Exists
  <2>1. req'[r] = req[r]
    BY DEF Settles
  <2>2. /\ lock[c] = r /\ row[c] # NoRow
        /\ req[r].script = row[c].script
        /\ req[r].action = row[c].decision_action
        /\ req[r].prior = prior_actors(c)
    BY <2>1 DEF Quorum, ReadsHold, Exists
  <2>3. row'[c] = row[c]
    BY <2>2, ConstantsOK DEF Rewrites, Unlocked
  <2> QED  BY <1>2, <2>1, <2>2, <2>3
\* A request that is short on an undecided script was so before.
<1>8. ASSUME NEW r \in Request, NEW c \in Control, NEW g \in Request,
             OneShort(r, c, g)', Undecided(c, g)'
      PROVE  /\ OneShort(r, c, g) /\ Undecided(c, g)
             /\ req'[r].actor = req[r].actor /\ row'[c] = row[c]
  <2>1. Short(req'[r]) /\ req'[r].control = c /\ req'[r].script = g
    BY <1>8 DEF OneShort, Short
  <2>2. OneShort(r, c, g) /\ req'[r].actor = req[r].actor
    BY <2>1 DEF OneShort, Settles
  <2>3. row'[c] # NoRow /\ row'[c].script = g /\ row'[c].approval_status = "PENDING"
    BY <1>8 DEF Undecided, Exists
  <2>4. row'[c] = row[c]
    BY <2>2, <2>3 DEF Rewrites, OneShort
  <2> QED  BY <2>2, <2>3, <2>4 DEF Undecided, Exists
<1>9. ShortOnesCount'
  <2> SUFFICES ASSUME NEW r \in Request, NEW c \in Control, NEW g \in Request,
                      OneShort(r, c, g)', Undecided(c, g)'
               PROVE  req'[r].actor \in prior_actors(c)'
    BY DEF ShortOnesCount
  <2>1. req[r].actor \in prior_actors(c)
    BY <1>8 DEF Quorum, ShortOnesCount
  <2> QED  BY <1>2, <1>8, <2>1
<1>10. ShortOnesAgree'
  <2> SUFFICES ASSUME NEW r \in Request, NEW s \in Request, NEW c \in Control, NEW g \in Request,
                      OneShort(r, c, g)', OneShort(s, c, g)', Undecided(c, g)'
               PROVE  req'[r].actor = req'[s].actor
    BY DEF ShortOnesAgree
  <2>1. req[r].actor = req[s].actor
    BY <1>8 DEF Quorum, ShortOnesAgree
  <2> QED  BY <1>8, <2>1
<1> QED
  BY <1>3, <1>4, <1>5, <1>6, <1>7, <1>9, <1>10 DEF Quorum

\* A request moves on, and no proposal changes.
LEMMA RequestMoves ==
    ASSUME TypeOK, NEW r \in Request, NEW k, Settles(req[r], k),
           req' = [req EXCEPT ![r] = k], row' = row, ledger' = ledger, clock <= clock',
           lock' = lock \/ (lock' = releases(r) /\ k # req[r])
    PROVE  Mild
BY DEF TypeOK, Mild, Signatures, releases

\* A request writes a proposal that is not locked.
LEMMA RowMoves ==
    ASSUME TypeOK, NEW r \in Request, NEW k, Settles(req[r], k),
           NEW c \in Control, NEW y,
           req' = [req EXCEPT ![r] = k], row' = [row EXCEPT ![c] = y], lock' = lock,
           Signatures' = Signatures, clock <= clock', Rewrites(c)
    PROVE  Mild
BY DEF TypeOK, Mild

\* The response of a request, unless it is the one of a signature that falls short.
LEMMA FinishSettles ==
    ASSUME TypeOK, clock' \in Nat, NEW r \in Request, NEW outcome \in Outcomes \ {"partial"}, NEW hook
    PROVE  /\ Settles(req[r], Finish(r, outcome, hook))
           /\ Settles(req[r], [Finish(r, "none", "none") EXCEPT !.pc = "crashed"])
BY DEF Settles, RequestOK, Short, Unsaved, Finish, Blank, Outcomes

LEMMA NextControlSettles ==
    ASSUME TypeOK, Quorum, clock \in Nat, clock' \in Nat, clock <= clock', NEW r \in Request,
           req[r].pc \in {"build", "save"},
           NEW c \in Control, NEW saved \in BOOLEAN
    PROVE  /\ Settles(req[r], NextControl(r, c, saved))
           /\ ~Unsaved(NextControl(r, c, saved), c)
<1> DEFINE rest == req[r].todo \ {c}
           k == NextControl(r, c, saved)
<1> SUFFICES Settles(req[r], k) /\ ~Unsaved(k, c)
  OBVIOUS
<1>1. /\ req[r] \in RequestState /\ RequestOK(req[r], clock) /\ req[r].now \in Nat
  BY DEF TypeOK, Quorum, RequestsOK, RequestState
<1>2. CASE rest = {}
  <2>1. \E o \in {"ok", "error"}, h \in Hooks : k = Finish(r, o, h)
    BY <1>2 DEF NextControl, Hooks
  <2>2. k.pc = "done"
    BY <2>1 DEF Finish, Blank
  <2>3. Settles(req[r], k)
    BY <2>1, FinishSettles DEF Outcomes
  <2> QED  BY <2>2, <2>3 DEF Unsaved
<1>3. CASE rest # {}
  <2>1. k = [req[r] EXCEPT !.pc = "build", !.todo = rest, !.flag = (saved \/ req[r].flag)]
    BY <1>3, Zenon DEF NextControl
  <2>2. /\ k.pc = "build" /\ k.todo = rest /\ k.now = req[r].now /\ k.script = req[r].script
        /\ k.control = req[r].control /\ k.actor = req[r].actor /\ k.outcome = req[r].outcome
    <3> HIDE DEF k, rest
    <3> QED  BY <1>1, <2>1 DEF RequestState
  <2>3. req[r].script = Nobody /\ req[r].outcome = "none"
    BY <1>1 DEF RequestOK
  <2>4. RequestOK(k, clock')
    BY <1>1, <2>2, <2>3 DEF RequestOK
  <2>5. ~Short(k) /\ \A d \in Control : Unsaved(k, d) => Unsaved(req[r], d) /\ d # c
    BY <2>2, <2>3 DEF Short, Unsaved
  <2> HIDE DEF k, rest
  <2> QED  BY <2>2, <2>3, <2>4, <2>5 DEF Settles
<1> QED  BY <1>2, <1>3

\* A new request has seen nothing.
LEMMA ArrivalsMild ==
    ASSUME TypeOK, NEW r \in Request, NEW c \in Control, NEW a, NEW b \in BOOLEAN,
           \/ generate(r, c) \/ generate_for_run(r) \/ approve(r, c, a, b)
           \/ mark_applied(r, c, a) \/ trigger_rollback(r, c, a, b)
    PROVE  Mild
<1>1. /\ clock \in Nat /\ clock' \in Nat /\ clock <= clock'
      /\ row' = row /\ ledger' = ledger /\ lock' = lock
  BY DEF TypeOK, generate, generate_for_run, approve, mark_applied, trigger_rollback, Arrive
<1>2. ASSUME NEW k, k.script = Nobody, k.outcome = "none", k.now \in {0, clock},
             k.pc \in {"build", "approve", "reject", "apply", "rollback"}, req[r].pc = "idle"
      PROVE  Settles(req[r], k)
  BY <1>1, <1>2 DEF Settles, RequestOK, Short, Unsaved
<1>3. CASE generate(r, c)
  <2> DEFINE k == [Blank EXCEPT !.pc = "build", !.control = c, !.todo = {c}]
  <2>1. req[r].pc = "idle" /\ req' = [req EXCEPT ![r] = k]
    BY <1>3 DEF generate, Arrive
  <2>2. /\ k.script = Nobody /\ k.outcome = "none" /\ k.now \in {0, clock}
        /\ k.pc \in {"build", "approve", "reject", "apply", "rollback"}
    BY DEF Blank
  <2> HIDE DEF k
  <2>3. Settles(req[r], k)
    BY <1>2, <2>1, <2>2
  <2> QED  BY <1>1, <2>1, <2>3, RequestMoves
<1>4. CASE generate_for_run(r)
  <2> DEFINE k == [Blank EXCEPT !.pc = "build", !.bulk = TRUE, !.todo = finding]
  <2>1. req[r].pc = "idle" /\ req' = [req EXCEPT ![r] = k]
    BY <1>4 DEF generate_for_run, Arrive
  <2>2. /\ k.script = Nobody /\ k.outcome = "none" /\ k.now \in {0, clock}
        /\ k.pc \in {"build", "approve", "reject", "apply", "rollback"}
    BY DEF Blank
  <2> HIDE DEF k
  <2>3. Settles(req[r], k)
    BY <1>2, <2>1, <2>2
  <2> QED  BY <1>1, <2>1, <2>3, RequestMoves
<1>5. CASE approve(r, c, a, b)
  <2> DEFINE k == [Blank EXCEPT !.pc = IF b THEN "approve" ELSE "reject", !.control = c,
                             !.actor = a, !.now = clock]
  <2>1. req[r].pc = "idle" /\ req' = [req EXCEPT ![r] = k]
    BY <1>5 DEF approve, Arrive
  <2>2. /\ k.script = Nobody /\ k.outcome = "none" /\ k.now \in {0, clock}
        /\ k.pc \in {"build", "approve", "reject", "apply", "rollback"}
    BY DEF Blank
  <2> HIDE DEF k
  <2>3. Settles(req[r], k)
    BY <1>2, <2>1, <2>2
  <2> QED  BY <1>1, <2>1, <2>3, RequestMoves
<1>6. CASE mark_applied(r, c, a)
  <2> DEFINE k == [Blank EXCEPT !.pc = "apply", !.control = c, !.actor = a, !.now = clock]
  <2>1. req[r].pc = "idle" /\ req' = [req EXCEPT ![r] = k]
    BY <1>6 DEF mark_applied, Arrive
  <2>2. /\ k.script = Nobody /\ k.outcome = "none" /\ k.now \in {0, clock}
        /\ k.pc \in {"build", "approve", "reject", "apply", "rollback"}
    BY DEF Blank
  <2> HIDE DEF k
  <2>3. Settles(req[r], k)
    BY <1>2, <2>1, <2>2
  <2> QED  BY <1>1, <2>1, <2>3, RequestMoves
<1>7. CASE trigger_rollback(r, c, a, b)
  <2> DEFINE k == [Blank EXCEPT !.pc = "rollback", !.control = c, !.actor = a, !.flag = b,
                             !.now = clock]
  <2>1. req[r].pc = "idle" /\ req' = [req EXCEPT ![r] = k]
    BY <1>7 DEF trigger_rollback, Arrive
  <2>2. /\ k.script = Nobody /\ k.outcome = "none" /\ k.now \in {0, clock}
        /\ k.pc \in {"build", "approve", "reject", "apply", "rollback"}
    BY DEF Blank
  <2> HIDE DEF k
  <2>3. Settles(req[r], k)
    BY <1>2, <2>1, <2>2
  <2> QED  BY <1>1, <2>1, <2>3, RequestMoves
<1> QED
  BY <1>3, <1>4, <1>5, <1>6, <1>7

\* A re-evaluation waits for every signer, and removes all proposals.
LEMMA EvaluationMild ==
    ASSUME TypeOK, NEW found \in SUBSET Control, save_findings(found)
    PROVE  Mild
<1>1. Signatures' = Signatures
  <2> DEFINE d == {Ev("VIOLATION_DETECTED", c, Nobody, clock, Nobody, 0) :
                       c \in {x \in found : \A e \in ledger :
                                 ~(e.event_type = "VIOLATION_DETECTED" /\ e.control = x)}}
  <2>1. ledger' = ledger \cup d
    BY DEF save_findings
  <2>2. \A e \in d : e.event_type # "APPROVED"
    BY DEF Ev
  <2> HIDE DEF d
  <2> QED  BY <2>1, <2>2 DEF Signatures
<1>2. /\ clock <= clock' /\ req' = req /\ lock' = lock
      /\ \A c \in Control : Unlocked(c) /\ row'[c] = NoRow
  BY DEF save_findings, TypeOK
<1> QED
  BY <1>1, <1>2 DEF Mild, Rewrites

\* A request that dies lets go of its row.
LEMMA CrashMild ==
    ASSUME TypeOK, NEW r \in Request, crash(r)
    PROVE  Mild
<1> DEFINE k == [Finish(r, "none", "none") EXCEPT !.pc = "crashed"]
<1>1. /\ req' = [req EXCEPT ![r] = k] /\ row' = row /\ ledger' = ledger /\ lock' = releases(r)
      /\ clock \in Nat /\ clock' = clock /\ clock <= clock' /\ req[r].pc \in Waiting
  BY DEF crash, TypeOK
<1>2. k.pc = "crashed"
  BY DEF Finish, Blank
<1>3. Settles(req[r], k)
  BY <1>1, FinishSettles DEF Outcomes
<1>4. k # req[r]
  BY <1>1, <1>2 DEF Waiting
<1> HIDE DEF k
<1> QED
  BY <1>1, <1>3, <1>4, RequestMoves

\* Generation: what is saved is a script nobody has seen.
LEMMA GenerationMild ==
    ASSUME TypeOK, TypeOK', Quorum, NEW r \in Request,
           NEW d \in Control, NEW f \in Facts, NEW t \in BOOLEAN
    PROVE  /\ build(r, d, f) => Mild
           /\ build_fails(r, d, t) => Mild
           /\ save_proposal(r) => Mild
<1>1. /\ req[r] \in RequestState /\ RequestOK(req[r], clock) /\ req[r].control \in Control
      /\ req[r].now \in Nat /\ req[r].facts \in Facts /\ clock \in Nat /\ clock' \in Nat
  BY DEF TypeOK, Quorum, RequestsOK, RequestState
<1>2. ASSUME build(r, d, f)
      PROVE  Mild
  <2> DEFINE k == [req[r] EXCEPT !.pc = "save", !.control = d, !.facts = f, !.now = clock]
  <2>1. /\ req[r].pc = "build" /\ d \in req[r].todo /\ row' = row /\ ledger' = ledger
        /\ lock' = lock /\ clock' = clock + 1 /\ clock <= clock'
    BY <1>1, <1>2 DEF build
  <2>2. req' = [req EXCEPT ![r] = k]
    <3>1. req[r] \in RequestState
      BY <1>1
    <3> QED  BY <1>2, <3>1 DEF build, TypeOK
  <2>3. /\ k.pc = "save" /\ k.control = d /\ k.now = clock /\ k.todo = req[r].todo
        /\ k.script = req[r].script /\ k.outcome = req[r].outcome
    <3>1. req[r] \in RequestState
      BY <1>1
    <3> QED  BY <3>1 DEF RequestState
  <2> HIDE DEF k
  <2>4. Settles(req[r], k)
    BY <1>1, <2>1, <2>3 DEF Settles, RequestOK, Short, Unsaved
  <2> QED  BY <2>1, <2>2, <2>4, RequestMoves
<1>3. ASSUME build_fails(r, d, t)
      PROVE  Mild
  <2>1. /\ req[r].pc \in {"build", "save"} /\ row' = row /\ ledger' = ledger
        /\ lock' = lock /\ clock <= clock'
    BY <1>1, <1>3 DEF build_fails
  <2>2. /\ Settles(req[r], NextControl(r, d, FALSE))
        /\ Settles(req[r], Finish(r, "error", "none"))
    BY <1>1, <2>1, NextControlSettles, FinishSettles DEF Outcomes
  <2>3. \/ req' = [req EXCEPT ![r] = NextControl(r, d, FALSE)]
        \/ req' = [req EXCEPT ![r] = Finish(r, "error", "none")]
    BY <1>3 DEF build_fails
  <2> QED  BY <2>1, <2>2, <2>3, RequestMoves
<1>4. ASSUME save_proposal(r)
      PROVE  Mild
  <2> DEFINE c == req[r].control
             p == build_proposal(r, req[r].facts, req[r].now)
             y == IF Exists(c) THEN upsert(row[c], p) ELSE p
             k == NextControl(r, c, TRUE)
  <2>1. /\ req[r].pc = "save" /\ Unlocked(c) /\ lock' = lock
    BY <1>4 DEF save_proposal
  <2>2. CASE c \notin finding
    <3>1. /\ row' = row /\ ledger' = ledger /\ clock' = clock
          /\ req' = [req EXCEPT ![r] = Finish(r, "error", "none")]
      BY <1>4, <2>2, Zenon DEF save_proposal
    <3>2. "error" \in Outcomes \ {"partial"}
      BY DEF Outcomes
    <3>3. Settles(req[r], Finish(r, "error", "none"))
      BY <1>1, <3>2, FinishSettles, Zenon
    <3>4. clock <= clock'
      BY <1>1, <3>1
    <3> QED  BY <2>1, <3>1, <3>3, <3>4, RequestMoves
  <2>3. CASE c \in finding
    <3> DEFINE n == {Ev("REMEDIATION_PROPOSED", c, Nobody, clock, r, 0),
                     Ev("DECISION_MADE", c, Nobody, clock + 1, r, 0)}
    <3>1. /\ ledger' = ledger \cup n /\ clock' = clock + 2
          /\ row' = [row EXCEPT ![c] = y] /\ req' = [req EXCEPT ![r] = k]
      BY <1>4, <2>3 DEF save_proposal
    <3>2. Signatures' = Signatures
      <4>1. \A e \in n : e.event_type # "APPROVED"
        BY DEF Ev
      <4> HIDE DEF n
      <4> QED  BY <3>1, <4>1 DEF Signatures
    <3>3. clock <= clock'
      BY <1>1, <3>1
    <3>4. /\ Settles(req[r], k) /\ ~Unsaved(k, c)
      BY <1>1, <2>1, <3>3, NextControlSettles
    <3>5. p.script = r /\ p.updated_at = req[r].now /\ p.applied = FALSE /\ p \in Row
      BY <1>1, ProposalType DEF build_proposal
    <3>6. y.script = r /\ y.updated_at = req[r].now /\ y.applied = FALSE
      <4> HIDE DEF p
      <4> QED  BY <3>5 DEF upsert, Row
    <3> HIDE DEF k, y, n, p
    <3>7. RowOK(y, clock')
      BY <1>1, <3>3, <3>6 DEF RowOK, RequestOK
    <3>8. Unsaved(req[r], c)
      BY <1>1, <2>1 DEF Unsaved, RequestOK
    <3>9. \A s \in Request : req[s].control = c => req[s].script # r
      BY <1>1, <3>8 DEF Quorum, ScriptsNew
    <3>10. row'[c] = y
      BY <1>1, <3>1 DEF TypeOK
    <3>11. \A g \in Request : Unsaved(req'[g], c) => g # r
      BY <3>1, <3>4 DEF TypeOK
    <3>12. Rewrites(c)
      BY <2>1, <3>6, <3>7, <3>9, <3>10, <3>11 DEF Rewrites
    <3> QED  BY <1>1, <2>1, <3>1, <3>2, <3>3, <3>4, <3>12, RowMoves
  <2> QED  BY <2>2, <2>3
<1> QED
  BY <1>2, <1>3, <1>4

\* A decision, an application or a roll back: the proposal keeps its script and is not
\* undecided any more.
LEMMA DecisionMild ==
    ASSUME TypeOK, TypeOK', Quorum, NEW r \in Request,
           finalize_approval(r) \/ reject(r) \/ apply(r) \/ rollback(r)
    PROVE  Mild
<1> DEFINE c == req[r].control
           a == req[r].actor
           now == req[r].now
<1>1. /\ req[r] \in RequestState /\ RequestOK(req[r], clock) /\ c \in Control
      /\ now \in Nat /\ clock \in Nat /\ clock' \in Nat
  BY DEF TypeOK, Quorum, RequestsOK, RequestState
<1>2. Unlocked(c) /\ lock' = lock /\ clock <= clock'
  BY <1>1 DEF finalize_approval, reject, apply, rollback
<1>3. \A o \in Outcomes \ {"partial"} : \A h : Settles(req[r], Finish(r, o, h))
  BY <1>1, FinishSettles
<1>4. ASSUME NEW y, NEW k, Settles(req[r], k), req' = [req EXCEPT ![r] = k],
             row' = [row EXCEPT ![c] = y], Exists(c), Signatures' = Signatures,
             y.script = row[c].script, y.updated_at = now, y.approval_status # "PENDING"
      PROVE  Mild
  <2>1. row'[c] = y
    BY <1>1, <1>4 DEF TypeOK
  <2>2. RowOK(y, clock')
    BY <1>1, <1>2, <1>4 DEF RowOK, RequestOK
  <2>3. \A g \in Request : Unsaved(req'[g], c) => Unsaved(req[g], c)
    BY <1>1, <1>4 DEF TypeOK, Settles
  <2>4. \A g \in Request : Unsaved(req'[g], c) => y.script # g
    BY <1>1, <1>4, <2>3 DEF Quorum, ScriptsNew
  <2>5. Rewrites(c)
    BY <1>2, <1>4, <2>1, <2>2, <2>4 DEF Rewrites
  <2> QED  BY <1>1, <1>2, <1>4, <2>5, RowMoves
<1>5. ASSUME NEW o \in Outcomes \ {"partial"}, NEW h, row' = row, ledger' = ledger,
             req' = [req EXCEPT ![r] = Finish(r, o, h)]
      PROVE  Mild
  BY <1>2, <1>3, <1>5, RequestMoves
<1>6. Exists(c) => row[c] \in Row
  BY <1>1 DEF TypeOK, Exists
<1>7. CASE finalize_approval(r)
  <2> DEFINE y == [row[c] EXCEPT !.approval_status = "APPROVED", !.approved_by = a,
                                 !.updated_at = now, !.pin = req[r].sha]
  <2>1. CASE Safe(c)
    <3>1. /\ row' = [row EXCEPT ![c] = y] /\ ledger' = ledger /\ Exists(c)
          /\ req' = [req EXCEPT ![r] = Finish(r, "ok", "APPROVED")]
      BY <1>7, <2>1 DEF finalize_approval, Safe
    <3>2. y.script = row[c].script /\ y.updated_at = now /\ y.approval_status = "APPROVED"
      BY <1>6, <3>1 DEF Row
    <3> HIDE DEF y
    <3> QED  BY <1>3, <1>4, <3>1, <3>2 DEF Signatures, Outcomes
  <2>2. CASE ~Safe(c)
    BY <1>5, <1>7, <2>2 DEF finalize_approval, Outcomes
  <2> QED  BY <2>1, <2>2
<1>8. CASE reject(r)
  <2> DEFINE y == [row[c] EXCEPT !.approval_status = "REJECTED", !.approved_by = a,
                                 !.updated_at = now]
             e == Ev("REJECTED", c, a, clock, row[c].script, 0)
  <2>1. CASE Exists(c)
    <3>1. /\ row' = [row EXCEPT ![c] = y] /\ ledger' = ledger \cup {e}
          /\ req' = [req EXCEPT ![r] = Finish(r, "ok", "REJECTED")]
      BY <1>8, <2>1 DEF reject
    <3>2. y.script = row[c].script /\ y.updated_at = now /\ y.approval_status = "REJECTED"
      BY <1>6, <2>1 DEF Row
    <3>3. e.event_type # "APPROVED"
      BY DEF Ev
    <3> HIDE DEF y, e
    <3>4. Signatures' = Signatures
      BY <3>1, <3>3 DEF Signatures
    <3> QED  BY <1>3, <1>4, <2>1, <3>1, <3>2, <3>4 DEF Outcomes
  <2>2. CASE ~Exists(c)
    BY <1>5, <1>8, <2>2 DEF reject, Outcomes
  <2> QED  BY <2>1, <2>2
<1>9. CASE apply(r)
  <2> DEFINE y == [row[c] EXCEPT !.applied = TRUE, !.rollback_status = "APPLIED",
                                 !.updated_at = now]
             e == Ev("APPLIED", c, a, clock, row[c].script, 0)
  <2>1. CASE Approved(c)
    <3>1. /\ row' = [row EXCEPT ![c] = y] /\ ledger' = ledger \cup {e}
          /\ req' = [req EXCEPT ![r] = Finish(r, "ok", "none")]
      BY <1>9, <2>1 DEF apply
    <3>2. Exists(c) /\ row[c].approval_status = "APPROVED"
      BY <2>1 DEF Approved
    <3>3. y.script = row[c].script /\ y.updated_at = now /\ y.approval_status = "APPROVED"
      BY <1>6, <3>2 DEF Row
    <3>4. e.event_type # "APPROVED"
      BY DEF Ev
    <3> HIDE DEF y, e
    <3>5. Signatures' = Signatures
      BY <3>1, <3>4 DEF Signatures
    <3> QED  BY <1>3, <1>4, <3>1, <3>2, <3>3, <3>5 DEF Outcomes
  <2>2. CASE ~Approved(c)
    BY <1>5, <1>9, <2>2 DEF apply, Outcomes
  <2> QED  BY <2>1, <2>2
<1>10. CASE rollback(r)
  <2> DEFINE y == [row[c] EXCEPT !.rollback_status = "ROLLED_BACK", !.updated_at = now]
             d == {Ev("VERIFICATION_FAILED", c, a, clock, Nobody, 0)}
             e == {Ev("ROLLED_BACK", c, a, clock + 1, row[c].script, row[c].pin)}
  <2>1. Signatures' = Signatures
    <3>1. ledger \subseteq ledger' /\ ledger' \subseteq ledger \cup (d \cup e)
      BY <1>10 DEF rollback
    <3>2. \A x \in d \cup e : x.event_type # "APPROVED"
      BY DEF Ev
    <3> HIDE DEF d, e
    <3> QED  BY <3>1, <3>2 DEF Signatures
  <2>2. CASE Applied(c)
    <3>1. /\ row' = [row EXCEPT ![c] = y]
          /\ req' = [req EXCEPT ![r] = Finish(r, "ok", "ROLLED_BACK")]
      BY <1>10, <2>2 DEF rollback
    <3>2. Exists(c) /\ row[c].approval_status # "PENDING"
      BY <1>1, <2>2 DEF Applied, Quorum, RowsOK, RowOK
    <3>3. /\ y.script = row[c].script /\ y.updated_at = now
          /\ y.approval_status = row[c].approval_status
      BY <1>6, <3>2 DEF Row
    <3> HIDE DEF y
    <3> QED  BY <1>3, <1>4, <2>1, <3>1, <3>2, <3>3 DEF Outcomes
  <2>3. CASE ~Applied(c)
    <3>1. row' = row /\ req' = [req EXCEPT ![r] = Finish(r, "conflict", "none")]
      BY <1>10, <2>3 DEF rollback
    <3>2. Settles(req[r], Finish(r, "conflict", "none"))
      BY <1>3 DEF Outcomes
    <3> HIDE DEF c, a, now
    <3> QED  BY <1>2, <2>1, <3>1, <3>2 DEF TypeOK, Mild
  <2> QED  BY <2>2, <2>3
<1> QED
  BY <1>7, <1>8, <1>9, <1>10

\* What is left of an approval that does not sign.
LEMMA ApprovalMild ==
    ASSUME TypeOK, TypeOK', Quorum, NEW r \in Request
    PROVE  /\ get_proposal(r) => Mild
           /\ pin_baseline(r) => Mild
           /\ approve_lock(r) => Mild \/ (Safe(req[r].control) /\ lock' # lock)
<1> DEFINE c == req[r].control
<1>1. /\ req[r] \in RequestState /\ RequestOK(req[r], clock) /\ c \in Control
      /\ req[r].now \in Nat /\ clock \in Nat /\ clock' \in Nat
  BY DEF TypeOK, Quorum, RequestsOK, RequestState
<1>2. \A o \in Outcomes \ {"partial"} : \A h : Settles(req[r], Finish(r, o, h))
  BY <1>1, FinishSettles
<1>3. ASSUME get_proposal(r)
      PROVE  Mild
  <2>1. /\ req[r].pc = "get_proposal" /\ row' = row /\ ledger' = ledger /\ lock' = lock
        /\ clock' = clock
        /\ \/ req' = [req EXCEPT ![r] = Finish(r, "conflict", "none")]
           \/ \E h : req' = [req EXCEPT ![r] = Finish(r, "partial", h)]
    <3> DEFINE hook == IF row[c].approval_status \in {"APPROVED", "REJECTED"}
                       THEN row[c].approval_status ELSE "none"
    <3>1. /\ req[r].pc = "get_proposal" /\ row' = row /\ ledger' = ledger /\ lock' = lock
          /\ clock' = clock
          /\ req' = [req EXCEPT ![r] = IF ~Exists(c) THEN Finish(r, "conflict", "none")
                                       ELSE Finish(r, "partial", hook)]
      BY <1>3, Zenon DEF get_proposal
    <3> HIDE DEF hook
    <3> QED  BY <3>1
  <2>2. ASSUME NEW h
        PROVE  Settles(req[r], Finish(r, "partial", h))
    <3> DEFINE k == Finish(r, "partial", h)
    <3>1. /\ k.pc = "done" /\ k.outcome = "partial" /\ k.now = 0 /\ k.script = req[r].script
          /\ k.actor = req[r].actor /\ k.control = c
      BY DEF Finish, Blank
    <3>2. req[r].pc = "get_proposal"
      BY <2>1
    <3> HIDE DEF k, c
    <3>3. Settles(req[r], k)
      BY <1>1, <3>1, <3>2 DEF Settles, RequestOK, Short, Unsaved, c
    <3> QED  BY <3>3 DEF k
  <2>3. Settles(req[r], Finish(r, "conflict", "none"))
    BY <1>2 DEF Outcomes
  <2>4. clock <= clock'
    BY <1>1, <2>1
  <2> QED  BY <2>1, <2>2, <2>3, <2>4, RequestMoves
<1>4. ASSUME pin_baseline(r)
      PROVE  Mild
  <2> DEFINE k == [req[r] EXCEPT !.pc = "finalize", !.sha = latest_baseline]
  <2>1. req' = [req EXCEPT ![r] = k]
    <3>1. req[r] \in RequestState
      BY <1>1
    <3> QED  BY <1>4, <3>1 DEF pin_baseline, TypeOK
  <2>2. /\ req[r].pc = "pin" /\ row' = row /\ ledger' = ledger /\ lock' = lock
        /\ clock' = clock
    BY <1>4, Zenon DEF pin_baseline
  <2>3. /\ k.pc = "finalize" /\ k.control = c /\ k.now = req[r].now /\ k.actor = req[r].actor
        /\ k.script = req[r].script /\ k.outcome = req[r].outcome
    <3>1. req[r] \in RequestState
      BY <1>1
    <3> QED  BY <3>1 DEF RequestState
  <2>4. clock <= clock'
    BY <1>1, <2>2
  <2> HIDE DEF k
  <2>5. Settles(req[r], k)
    BY <1>1, <2>2, <2>3 DEF Settles, RequestOK, Short, Unsaved
  <2> QED  BY <2>1, <2>2, <2>4, <2>5, RequestMoves
<1>5. ASSUME approve_lock(r)
      PROVE  Mild \/ (Safe(c) /\ lock' # lock)
  <2>1. CASE Safe(c) /\ lock' = [lock EXCEPT ![c] = r]
    <3>1. lock[c] = Nobody /\ lock'[c] = r
      BY <1>1, <1>5, <2>1 DEF approve_lock, Unlocked, TypeOK
    <3> QED  BY <2>1, <3>1, ConstantsOK
  <2>2. CASE /\ lock' = lock
             /\ \/ req' = [req EXCEPT ![r] = Finish(r, "conflict", "none")]
                \/ req' = [req EXCEPT ![r] = Finish(r, "denied", "none")]
    <3>1. row' = row /\ ledger' = ledger /\ clock' = clock
      BY <1>5 DEF approve_lock
    <3>2. /\ Settles(req[r], Finish(r, "conflict", "none"))
          /\ Settles(req[r], Finish(r, "denied", "none"))
      BY <1>2 DEF Outcomes
    <3>3. clock <= clock'
      BY <1>1, <3>1
    <3> QED  BY <2>2, <3>1, <3>2, <3>3, RequestMoves
  <2> QED  BY <1>5, <2>1, <2>2 DEF approve_lock
<1> QED
  BY <1>3, <1>4, <1>5

-----------------------------------------------------------------------------
(* The two transactions of a signature.                                    *)

\* The locking read: what it notes is what the proposal and the ledger hold.
LEMMA LockKeeps ==
    ASSUME TypeOK, Quorum, NEW r \in Request,
           approve_lock(r), Safe(req[r].control), lock' # lock
    PROVE  Quorum'
<1> DEFINE c == req[r].control
           k == [req[r] EXCEPT !.pc = "record", !.script = row[c].script,
                               !.action = row[c].decision_action,
                               !.prior = prior_actors(c)]
<1>1. /\ req[r] \in RequestState /\ RequestOK(req[r], clock) /\ c \in Control
  BY DEF TypeOK, Quorum, RequestsOK, RequestState
<1>2. /\ req[r].pc = "approve" /\ lock[c] = Nobody /\ Exists(c)
      /\ row' = row /\ ledger' = ledger /\ clock' = clock
      /\ lock' = [lock EXCEPT ![c] = r]
  BY Zenon DEF approve_lock, Unlocked, Safe
<1>3. req' = [req EXCEPT ![r] = k]
  BY <1>1, <1>2 DEF approve_lock, TypeOK
<1>4. /\ k.pc = "record" /\ k.control = c /\ k.now = req[r].now /\ k.actor = req[r].actor
      /\ k.outcome = req[r].outcome
      /\ k.script = row[c].script /\ k.action = row[c].decision_action
      /\ k.prior = prior_actors(c)
  <2>1. req[r] \in RequestState
    BY <1>1
  <2> QED  BY <2>1 DEF RequestState
<1> HIDE DEF k
<1>5. /\ req'[r] = k /\ \A s \in Request : s # r => req'[s] = req[s]
      /\ lock'[c] = r /\ \A d \in Control : d # c => lock'[d] = lock[d]
  BY <1>1, <1>2, <1>3 DEF TypeOK
<1>6. Signatories' = Signatories /\ \A d \in Control : prior_actors(d)' = prior_actors(d)
  BY <1>2 DEF Signatories, Signatures, prior_actors
<1>7. RequestsOK' /\ RowsOK'
  <2>1. RequestOK(k, clock)
    BY <1>1, <1>2, <1>4 DEF RequestOK
  <2>2. RequestsOK'
    BY <1>2, <1>5, <2>1 DEF Quorum, RequestsOK
  <2>3. RowsOK'
    BY <1>2 DEF Quorum, RowsOK, Exists
  <2> QED  BY <2>2, <2>3
<1>8. ScriptsNew'
  <2> SUFFICES ASSUME NEW g \in Request, NEW d \in Control, Unsaved(req'[g], d)
               PROVE  /\ row'[d] # NoRow => row'[d].script # g
                      /\ \A s \in Request : req'[s].control = d => req'[s].script # g
    BY DEF ScriptsNew, Exists
  <2>1. Unsaved(req[g], d)
    BY <1>4, <1>5 DEF Unsaved
  <2>2. /\ row[d] # NoRow => row[d].script # g
        /\ \A s \in Request : req[s].control = d => req[s].script # g
    BY <2>1 DEF Quorum, ScriptsNew, Exists
  <2> QED  BY <1>2, <1>4, <1>5, <2>2 DEF Exists
<1>9. ReadsHold'
  <2> SUFFICES ASSUME NEW s \in Request, NEW d \in Control,
                      req'[s].pc = "record", req'[s].control = d
               PROVE  /\ lock'[d] = s
                      /\ row'[d] # NoRow
                      /\ req'[s].script = row'[d].script
                      /\ req'[s].action = row'[d].decision_action
                      /\ req'[s].prior = prior_actors(d)'
    BY DEF ReadsHold, Exists
  <2>1. CASE s = r
    BY <1>2, <1>4, <1>5, <1>6, <2>1 DEF Exists
  <2>2. CASE s # r
    <3>1. /\ lock[d] = s /\ row[d] # NoRow
          /\ req[s].script = row[d].script
          /\ req[s].action = row[d].decision_action
          /\ req[s].prior = prior_actors(d)
      BY <1>5, <2>2 DEF Quorum, ReadsHold, Exists
    <3>2. d # c
      BY <1>2, <3>1, ConstantsOK
    <3> QED  BY <1>2, <1>5, <1>6, <2>2, <3>1, <3>2
  <2> QED  BY <2>1, <2>2
<1>10. ASSUME NEW s \in Request, NEW d \in Control, NEW g \in Request, OneShort(s, d, g)'
       PROVE  OneShort(s, d, g) /\ req'[s] = req[s]
  <2>1. Short(req'[s]) /\ req'[s].control = d /\ req'[s].script = g
    BY <1>10 DEF OneShort, Short
  <2>2. s # r
    BY <1>1, <1>2, <1>4, <1>5, <2>1 DEF Short, RequestOK
  <2> QED  BY <1>5, <2>1, <2>2 DEF OneShort
<1>11. \A d, g : Undecided(d, g)' <=> Undecided(d, g)
  BY <1>2 DEF Undecided, Exists
<1>12. ShortOnesCount'
  BY <1>6, <1>10, <1>11 DEF Quorum, ShortOnesCount
<1>13. ShortOnesAgree'
  <2> SUFFICES ASSUME NEW s \in Request, NEW t \in Request, NEW d \in Control, NEW g \in Request,
                      OneShort(s, d, g)', OneShort(t, d, g)', Undecided(d, g)'
               PROVE  req'[s].actor = req'[t].actor
    BY DEF ShortOnesAgree
  <2> QED  BY <1>10, <1>11 DEF Quorum, ShortOnesAgree
<1> QED
  BY <1>6, <1>7, <1>8, <1>9, <1>12, <1>13 DEF Quorum

\* The signature: the next query counts it, and who falls short knows of everyone else.
LEMMA RecordKeeps ==
    ASSUME TypeOK, Quorum, NEW r \in Request, approve_record(r)
    PROVE  Quorum'
<1>0. PICK c \in Control : c = req[r].control
  BY DEF TypeOK, RequestState
<1> DEFINE a == req[r].actor
           quorum == dual_approval_satisfied(req[r].action, req[r].prior, a)
           k == [req[r] EXCEPT !.pc = IF quorum THEN "pin" ELSE "get_proposal"]
           e == Ev("APPROVED", c, a, clock, req[r].script, 0)
<1>1. /\ req[r] \in RequestState /\ RequestOK(req[r], clock) /\ c \in Control
      /\ req[r].now \in Nat /\ clock \in Nat
  BY DEF TypeOK, Quorum, RequestsOK, RequestState
<1>2. /\ req[r].pc = "record" /\ row' = row /\ clock' = clock + 1
      /\ ledger' = ledger \cup {e} /\ lock' = [lock EXCEPT ![c] = Nobody]
      /\ req' = [req EXCEPT ![r] = k]
  BY <1>0, <1>1 DEF approve_record, TypeOK
<1>3. /\ lock[c] = r /\ Exists(c) /\ req[r].script = row[c].script
      /\ req[r].prior = prior_actors(c)
  BY <1>0, <1>1, <1>2 DEF Quorum, ReadsHold
<1>4. /\ k.pc = (IF quorum THEN "pin" ELSE "get_proposal") /\ k.control = c /\ k.actor = a
      /\ k.now = req[r].now /\ k.script = req[r].script /\ k.outcome = req[r].outcome
  <2>1. req[r] \in RequestState
    BY <1>1
  <2> HIDE DEF quorum
  <2> QED  BY <1>0, <2>1 DEF RequestState
<1>5. /\ e.event_type = "APPROVED" /\ e.control = c /\ e.actor = a /\ e.created_at = clock
  BY DEF Ev
<1> HIDE DEF k, e, quorum
<1>6. k.outcome = "none" /\ k.pc \in {"pin", "get_proposal"}
  BY <1>1, <1>2, <1>4 DEF RequestOK
<1>7. /\ req'[r] = k /\ \A s \in Request : s # r => req'[s] = req[s]
      /\ \A d \in Control : d # c => lock'[d] = lock[d]
  BY <1>1, <1>2 DEF TypeOK
<1>8. Signatures' = Signatures \cup {e} /\ Signatories' = Signatories \cup {a}
  <2>1. Signatures' = Signatures \cup {e}
    BY <1>2, <1>5 DEF Signatures
  <2> QED  BY <1>5, <2>1 DEF Signatories
<1>9. \A d \in Control : prior_actors(d) \subseteq prior_actors(d)'
  BY <1>2, <1>5 DEF prior_actors
<1>10. \A d \in Control : d # c => prior_actors(d)' = prior_actors(d)
  BY <1>2, <1>5 DEF prior_actors
<1>11. a \in prior_actors(c)'
  <2>1. row[c].updated_at <= clock
    BY <1>1, <1>3 DEF Quorum, RowsOK, RowOK
  <2>2. row[c] \in Row
    BY <1>1, <1>3 DEF TypeOK, Exists
  <2>3. row[c].updated_at \in Nat
    BY <2>2 DEF Row
  <2>4. e.created_at >= row'[c].updated_at
    BY <1>1, <1>2, <1>5, <2>1, <2>3
  <2> DEFINE counted == {x \in ledger' : /\ x.event_type = "APPROVED"
                                         /\ x.control = c
                                         /\ x.created_at >= row'[c].updated_at}
  <2>5. e \in counted
    BY <1>2, <1>5, <2>4
  <2>6. prior_actors(c)' = {x.actor : x \in counted}
    BY DEF prior_actors
  <2> HIDE DEF counted
  <2> QED  BY <1>5, <2>5, <2>6
<1>12. IsFiniteSet(Signatories)'
  BY <1>8, FS_AddElement DEF Quorum
<1>13. RequestsOK' /\ RowsOK'
  <2>1. RequestOK(k, clock + 1)
    BY <1>1, <1>4, <1>6 DEF RequestOK
  <2>2. ASSUME NEW s \in Request, s # r
        PROVE  RequestOK(req[s], clock + 1)
    <3>1. req[s].now \in Nat
      BY DEF TypeOK, RequestState
    <3> QED  BY <1>1, <3>1 DEF Quorum, RequestsOK, RequestOK
  <2>3. RequestsOK'
    BY <1>2, <1>7, <2>1, <2>2 DEF RequestsOK
  <2>4. ASSUME NEW d \in Control, Exists(d)
        PROVE  RowOK(row[d], clock + 1)
    <3>1. row[d] \in Row
      BY <2>4 DEF TypeOK, Exists
    <3>2. row[d].updated_at \in Nat
      BY <3>1 DEF Row
    <3> QED  BY <1>1, <2>4, <3>2 DEF Quorum, RowsOK, RowOK
  <2>5. RowsOK'
    BY <1>2, <2>4 DEF RowsOK, Exists
  <2> QED  BY <2>3, <2>5
<1>14. ScriptsNew'
  <2> SUFFICES ASSUME NEW g \in Request, NEW d \in Control, Unsaved(req'[g], d)
               PROVE  /\ row'[d] # NoRow => row'[d].script # g
                      /\ \A s \in Request : req'[s].control = d => req'[s].script # g
    BY DEF ScriptsNew, Exists
  <2>1. Unsaved(req[g], d)
    BY <1>6, <1>7 DEF Unsaved
  <2>2. /\ row[d] # NoRow => row[d].script # g
        /\ \A s \in Request : req[s].control = d => req[s].script # g
    BY <2>1 DEF Quorum, ScriptsNew, Exists
  <2> QED  BY <1>0, <1>2, <1>4, <1>7, <2>2
<1>15. ReadsHold'
  <2> SUFFICES ASSUME NEW s \in Request, NEW d \in Control,
                      req'[s].pc = "record", req'[s].control = d
               PROVE  /\ lock'[d] = s
                      /\ row'[d] # NoRow
                      /\ req'[s].script = row'[d].script
                      /\ req'[s].action = row'[d].decision_action
                      /\ req'[s].prior = prior_actors(d)'
    BY DEF ReadsHold, Exists
  <2>1. s # r
    BY <1>6, <1>7
  <2>2. /\ lock[d] = s /\ row[d] # NoRow
        /\ req[s].script = row[d].script
        /\ req[s].action = row[d].decision_action
        /\ req[s].prior = prior_actors(d)
    BY <1>7, <2>1 DEF Quorum, ReadsHold, Exists
  <2>3. d # c
    BY <1>3, <2>1, <2>2
  <2> QED  BY <1>2, <1>7, <1>10, <2>1, <2>2, <2>3
\* Who is short now was short before, or is the one who signs and knows all the others.
<1>16. ASSUME NEW s \in Request, NEW d \in Control, NEW g \in Request, OneShort(s, d, g)'
       PROVE  \/ s # r /\ OneShort(s, d, g) /\ req'[s] = req[s]
              \/ s = r /\ d = c /\ g = row[c].script /\ req'[s].actor = a /\ ~quorum
  <2>1. Short(req'[s]) /\ req'[s].control = d /\ req'[s].script = g
    BY <1>16 DEF OneShort, Short
  <2>2. CASE s # r
    BY <1>7, <2>1, <2>2 DEF OneShort
  <2>3. CASE s = r
    BY <1>3, <1>4, <1>6, <1>7, <2>1, <2>3 DEF Short
  <2> QED  BY <2>2, <2>3
<1>17. \A d, g : Undecided(d, g)' <=> Undecided(d, g)
  BY <1>2 DEF Undecided, Exists
<1>18. ShortOnesCount'
  <2> SUFFICES ASSUME NEW s \in Request, NEW d \in Control, NEW g \in Request,
                      OneShort(s, d, g)', Undecided(d, g)'
               PROVE  req'[s].actor \in prior_actors(d)'
    BY DEF ShortOnesCount
  <2>1. CASE s # r /\ OneShort(s, d, g) /\ req'[s] = req[s]
    BY <1>9, <1>17, <2>1 DEF Quorum, ShortOnesCount
  <2>2. CASE s = r /\ d = c /\ g = row[c].script /\ req'[s].actor = a
    BY <1>11, <2>2
  <2> QED  BY <1>16, <2>1, <2>2
<1>19. ASSUME NEW s \in Request, OneShort(s, c, row[c].script),
              Undecided(c, row[c].script), ~quorum
       PROVE  req[s].actor = a
  <2>1. row[c].script \in Request
    BY <1>1, <1>3 DEF TypeOK, Exists, Row
  <2>2. req[s].actor \in prior_actors(c)
    BY <1>1, <1>19, <2>1 DEF Quorum, ShortOnesCount
  <2>3. IsFiniteSet(prior_actors(c))
    BY <1>1, PriorsAreFinite DEF Quorum
  <2>4. prior_actors(c) \subseteq {a}
    BY <1>3, <1>19, <2>3, ShortMeansAlone DEF quorum
  <2> QED  BY <2>2, <2>4
<1>20. ShortOnesAgree'
  <2> SUFFICES ASSUME NEW s \in Request, NEW t \in Request, NEW d \in Control, NEW g \in Request,
                      OneShort(s, d, g)', OneShort(t, d, g)', Undecided(d, g)'
               PROVE  req'[s].actor = req'[t].actor
    BY DEF ShortOnesAgree
  <2>1. CASE s = r /\ t = r
    BY <2>1
  <2>2. CASE s # r /\ t # r
    BY <1>16, <1>17, <2>2 DEF Quorum, ShortOnesAgree
  <2>3. CASE s = r /\ t # r
    BY <1>16, <1>17, <1>19, <2>3
  <2>4. CASE s # r /\ t = r
    BY <1>16, <1>17, <1>19, <2>4
  <2> QED  BY <2>1, <2>2, <2>3, <2>4
<1> QED
  BY <1>12, <1>13, <1>14, <1>15, <1>18, <1>20 DEF Quorum

\* No step of a request disturbs what the quorum rests on.
\* The steps that are not mild are the two under the row lock.
Locks(r) == approve_lock(r) /\ Safe(req[r].control) /\ lock' # lock
UnderLock == \E r \in Request : Locks(r) \/ approve_record(r)

LEMMA StepsMild ==
    ASSUME TypeOK, TypeOK', Quorum, NEW r \in Request, Step(r)
    PROVE  Mild \/ UnderLock
<1>1. CASE \E c \in Control, f \in Facts : build(r, c, f)
  <2>1. PICK c \in Control, f \in Facts : build(r, c, f)
    BY <1>1, Zenon
  <2> QED  BY <2>1, GenerationMild
<1>2. CASE \E c \in Control, t \in BOOLEAN : build_fails(r, c, t)
  <2>1. PICK c \in Control, t \in BOOLEAN : build_fails(r, c, t)
    BY <1>2, Zenon
  <2>2. PICK f \in Facts : TRUE
    BY ConstantsOK
  <2> QED  BY <2>1, <2>2, GenerationMild
<1>3. CASE save_proposal(r)
  <2>1. PICK c \in Control, f \in Facts : TRUE
    BY ConstantsOK
  <2> QED  BY <1>3, <2>1, GenerationMild
<1>4. CASE approve_lock(r)
  BY <1>4, ApprovalMild DEF UnderLock, Locks
<1>5. CASE approve_record(r)
  BY <1>5 DEF UnderLock
<1>6. CASE get_proposal(r) \/ pin_baseline(r)
  BY <1>6, ApprovalMild
<1>7. CASE finalize_approval(r) \/ reject(r) \/ apply(r) \/ rollback(r)
  BY <1>7, DecisionMild
<1> QED
  BY <1>1, <1>2, <1>3, <1>4, <1>5, <1>6, <1>7, Zenon DEF Step

LEMMA AllMild ==
    ASSUME TypeOK, TypeOK', Quorum, [Next]_vars
    PROVE  Mild \/ UnderLock
<1>1. CASE UNCHANGED vars
  <2>1. /\ row' = row /\ ledger' = ledger /\ req' = req /\ lock' = lock /\ clock' = clock
        /\ clock \in Nat
    BY <1>1 DEF vars, TypeOK
  <2> QED  BY <2>1 DEF Mild, Signatures
<1>2. CASE Environment
  <2>1. ASSUME NEW found \in SUBSET Control, save_findings(found)
        PROVE  Mild
    BY <2>1, EvaluationMild
  <2>2. ASSUME NEW r \in Request, crash(r)
        PROVE  Mild
    BY <2>2, CrashMild
  <2>3. ASSUME NEW r \in Request, NEW c \in Control, NEW a \in Actor, NEW b \in BOOLEAN,
               \/ generate(r, c) \/ generate_for_run(r) \/ approve(r, c, a, b)
               \/ mark_applied(r, c, a) \/ trigger_rollback(r, c, a, b)
        PROVE  Mild
    BY <2>3, ArrivalsMild
  <2>4. ASSUME NEW r \in Request, NEW c \in Control, generate(r, c) \/ generate_for_run(r)
        PROVE  Mild
    <3>1. \A a : \A b \in BOOLEAN :
             (\/ generate(r, c) \/ generate_for_run(r) \/ approve(r, c, a, b)
              \/ mark_applied(r, c, a) \/ trigger_rollback(r, c, a, b)) => Mild
      BY ArrivalsMild
    <3> QED  BY <2>4, <3>1
  <2>5. \E c \in Control : TRUE
    BY ConstantsOK
  <2> QED  BY <1>2, <2>1, <2>2, <2>3, <2>4, <2>5, Zenon DEF Environment
<1> QED
  BY <1>1, <1>2, StepsMild, Zenon DEF Next

LEMMA QuorumKept ==
    ASSUME TypeOK, TypeOK', Quorum, [Next]_vars
    PROVE  Quorum'
BY AllMild, MildKeeps, LockKeeps, RecordKeeps DEF UnderLock, Locks

\* What the quorum rests on is inductive, together with the types.
LEMMA QuorumHolds == Spec => []Quorum
<1>1. Init => Quorum
  <2> SUFFICES ASSUME Init
               PROVE  Quorum
    OBVIOUS
  <2>1. Signatories = {}
    BY DEF Init, Signatories, Signatures, Ev
  <2>2. IsFiniteSet(Signatories)
    BY <2>1, FS_EmptySet
  <2>3. /\ \A r \in Request : /\ req[r].pc = "idle" /\ req[r].outcome = "none"
                              /\ req[r].now = 0 /\ req[r].script = Nobody
        /\ clock = 1
        /\ \A c \in Control : ~Exists(c)
    BY DEF Init, Blank, Exists
  <2> QED
    BY <2>2, <2>3, ConstantsOK DEF Quorum, RequestsOK, RequestOK, RowsOK, ScriptsNew, ReadsHold,
       ShortOnesCount, ShortOnesAgree, OneShort, Short, Undecided
<1>2. TypeOK /\ TypeOK' /\ Quorum /\ [Next]_vars => Quorum'
  BY QuorumKept
<1> QED
  BY <1>1, <1>2, TypeCorrect, PTL DEF Spec

\* Of two people who sign one script at the same time, the second never comes back short
\* as well: the first signature is in the ledger before the row is unlocked, and nothing
\* but a new script makes the query overlook it.
THEOREM QuorumsAreKept == Spec => []NoLostQuorum
<1>1. TypeOK /\ Quorum => NoLostQuorum
  <2> SUFFICES ASSUME TypeOK, Quorum, NEW r \in Request, NEW s \in Request,
                      req[r].outcome = "partial", req[s].outcome = "partial",
                      req[s].control = req[r].control, req[r].script = req[s].script,
                      Exists(req[r].control),
                      row[req[r].control].script = req[r].script,
                      row[req[r].control].approval_status = "PENDING"
               PROVE  req[r].actor = req[s].actor
    BY DEF NoLostQuorum
  <2> DEFINE c == req[r].control
  <2>1. c \in Control
    BY DEF TypeOK, RequestState
  <2>2. row[c] \in Row
    BY <2>1 DEF TypeOK, Exists
  <2>3. row[c].script \in Request
    BY <2>2 DEF Row
  <2> HIDE DEF c
  <2> QED
    BY <2>1, <2>3 DEF Quorum, ShortOnesAgree, OneShort, Short, Undecided, c
<1> QED
  BY <1>1, TypeCorrect, QuorumHolds, PTL

-----------------------------------------------------------------------------
(* What overlapping requests may rely on.                                  *)

\* Actor a could sign proposal y.
MayApprove(a, y) ==
    check_permission(Role[a], y.decision_action, y.risk_tier, y.blast_radius_count,
                     ActorType[a])

\* Actor a signed proposal y of control c, and so did somebody else if it takes two.
Countersigned(c, y, a) ==
    /\ a \in Signers(c, y.script)
    /\ y.decision_action = "DUAL_APPROVAL" => \E b \in Signers(c, y.script) : b # a

\* Every signature of control c since time at is one of proposal y's script.
SignedSince(c, at, y) ==
    \A e \in Signatures : e.control = c /\ e.created_at >= at => e.script = y.script

\* Proposal y of control c: every signature since it was last written is one of its
\* script, what approved it still does, and is pinned to the latest baseline.
Current(c, y) ==
    /\ SignedSince(c, y.updated_at, y)
    /\ y.approval_status = "APPROVED" =>
          /\ MayApprove(y.approved_by, y)
          /\ Countersigned(c, y, y.approved_by)
          /\ y.pin = evals

\* Decision k, wherever it stands, can go on with proposal y of control c.
Rests(k, c, y) ==
    /\ SignedSince(c, k.now, y)
    /\ k.pc \in {"record", "pin", "finalize"} => MayApprove(k.actor, y)
    /\ k.pc \in {"pin", "finalize"} => Countersigned(c, y, k.actor)
    /\ k.pc = "finalize" => k.sha = evals

\* What request r, in state k, relies on.
StillHolds(r, k) ==
    /\ k.pc = "save" /\ <<r, k.control>> \notin raced =>
          \A e \in Signatures : e.control = k.control => e.created_at < k.now
    /\ k.pc \in Deciding /\ Uncontested(k.control) =>
          Rests(k, k.control, row[k.control])

RowsCurrent == \A c \in Control : Uncontested(c) => Current(c, row[c])

Promised ==
    /\ Overlaps \subseteq raced
    /\ RowsCurrent
    /\ \A r \in Request : StillHolds(r, req[r])

\* One proposal as another one of the same script.
SameScript(y, z) ==
    /\ y.script = z.script
    /\ y.decision_action = z.decision_action
    /\ y.risk_tier = z.risk_tier
    /\ y.blast_radius_count = z.blast_radius_count

\* What a step may make of the proposal of control c: remove it, save a script that was
\* about to be saved, or keep the script.
Follows(c) ==
    \/ row'[c] = NoRow
    \/ /\ row'[c].script \in Request
       /\ req[row'[c].script].pc = "save" /\ req[row'[c].script].control = c
    \/ Exists(c) /\ SameScript(row'[c], row[c]) /\ evals' = evals

\* Who signs, signs the script the control has, under the row lock.
SignsUnderLock ==
    /\ Signatures \subseteq Signatures'
    /\ \A e \in Signatures' \ Signatures : \E j \in Request :
          /\ req[j].pc = "record" /\ req[j].control = e.control
          /\ e.script = row[e.control].script

Remembers == raced' = raced \cup Overlaps'

-----------------------------------------------------------------------------
(* A step leaves the others what they rely on.                             *)

LEMMA MoreSigners ==
    ASSUME Signatures \subseteq Signatures', NEW c, NEW y, NEW a, Countersigned(c, y, a)
    PROVE  Countersigned(c, y, a)'
<1>1. \A s : Signers(c, s) \subseteq Signers(c, s)'
  BY DEF Signers, Signatures
<1> QED
  BY <1>1 DEF Countersigned

\* Two half-saved scripts are never told apart from a decision: a script saved under a
\* decision is contested.
LEMMA SavedAlone ==
    ASSUME TypeOK, Promised, Remembers, NEW c \in Control, NEW s \in Request,
           req[s].pc \in Deciding, req[s].control = c, NEW g \in Request,
           req[g].pc = "save", req[g].control = c
    PROVE  <<g, c>> \in raced /\ <<g, c>> \in raced'
<1>1. <<g, c>> \in Overlaps
  BY DEF Overlaps
<1> QED
  BY <1>1 DEF Promised, Remembers

LEMMA OthersHold ==
    ASSUME TypeOK, Promised, Remembers, SignsUnderLock, \A c \in Control : Follows(c),
           NEW s \in Request, NEW k, k = req[s], k = req'[s]
    PROVE  StillHolds(s, k)'
<1>1. PICK c \in Control : c = k.control
  BY DEF TypeOK, RequestState
<1>2. StillHolds(s, k) /\ raced \subseteq raced'
  BY DEF Promised, Remembers
<1>3. ASSUME k.pc = "save", <<s, c>> \notin raced'
      PROVE  \A e \in Signatures' : e.control = c => e.created_at < k.now
  <2>1. \A e \in Signatures : e.control = c => e.created_at < k.now
    BY <1>1, <1>2, <1>3 DEF StillHolds
  <2>2. ASSUME NEW e \in Signatures' \ Signatures, e.control = c
        PROVE  FALSE
    <3>1. PICK j \in Request : req[j].pc = "record" /\ req[j].control = c
      BY <2>2 DEF SignsUnderLock
    <3> QED  BY <1>1, <1>2, <1>3, <3>1, SavedAlone DEF Deciding
  <2> QED  BY <2>1, <2>2
<1>4. ASSUME k.pc \in Deciding, Uncontested(c)', NEW y, y = row'[c]
      PROVE  Rests(k, c, y)'
  <2>1. y # NoRow /\ <<y.script, c>> \notin raced'
    BY <1>4 DEF Uncontested, Exists
  <2>2. ~(y.script \in Request /\ req[y.script].pc = "save" /\ req[y.script].control = c)
    BY <1>1, <1>4, <2>1, SavedAlone
  <2>3. Exists(c) /\ SameScript(y, row[c]) /\ evals' = evals
    BY <1>4, <2>1, <2>2 DEF Follows
  <2>4. Uncontested(c)
    BY <1>2, <2>1, <2>3 DEF Uncontested, SameScript
  <2>5. PICK z : z = row[c]
    OBVIOUS
  <2>6. Rests(k, c, z)
    BY <1>1, <1>2, <1>4, <2>4, <2>5 DEF StillHolds
  <2>7. SignedSince(c, k.now, y)'
    BY <2>3, <2>5, <2>6 DEF Rests, SignedSince, SignsUnderLock, SameScript
  <2>8. k.pc \in {"record", "pin", "finalize"} => MayApprove(k.actor, y)
    BY <2>3, <2>5, <2>6 DEF Rests, MayApprove, SameScript
  <2>9. k.pc \in {"pin", "finalize"} => Countersigned(c, y, k.actor)'
    <3>1. Countersigned(c, z, k.actor) => Countersigned(c, z, k.actor)'
      BY MoreSigners DEF SignsUnderLock
    <3> QED  BY <2>3, <2>5, <2>6, <3>1 DEF Rests, Countersigned, SameScript
  <2> QED  BY <2>3, <2>6, <2>7, <2>8, <2>9 DEF Rests, MayApprove
<1>5. PICK y : y = row'[c]
  OBVIOUS
<1> QED
  BY <1>1, <1>3, <1>4, <1>5 DEF StillHolds

\* A proposal that is current stays so as long as only its script is signed.
LEMMA StaysCurrent ==
    ASSUME NEW c, NEW z, Current(c, z), NEW y, SameScript(y, z),
           Signatures \subseteq Signatures', evals' = evals,
           \A e \in Signatures' \ Signatures : e.control = c => e.script = z.script,
           \A e \in Signatures' : e.control = c /\ e.created_at >= y.updated_at =>
               e.script = z.script \/ e.created_at >= z.updated_at,
           y.approval_status = "APPROVED" =>
               \/ /\ z.approval_status = "APPROVED" /\ y.approved_by = z.approved_by
                  /\ y.pin = z.pin
               \/ /\ MayApprove(y.approved_by, z) /\ Countersigned(c, z, y.approved_by)
                  /\ y.pin = evals
    PROVE  Current(c, y)'
<1>1. SignedSince(c, y.updated_at, y)'
  BY DEF Current, SignedSince, SameScript
<1>2. PICK a : a = y.approved_by
  OBVIOUS
<1>3. Countersigned(c, z, a) => Countersigned(c, y, a)'
  BY MoreSigners DEF Countersigned, SameScript
<1>4. y.approval_status = "APPROVED" =>
          MayApprove(a, y) /\ Countersigned(c, y, a)' /\ y.pin = evals
  BY <1>2, <1>3 DEF Current, MayApprove, SameScript
<1> QED
  BY <1>1, <1>2, <1>4 DEF Current, MayApprove

\* A proposal that no step touches.
LEMMA RowStays ==
    ASSUME TypeOK, Promised, Remembers, SignsUnderLock, evals' = evals,
           NEW c \in Control, NEW y, y = row[c], y = row'[c], Uncontested(c)'
    PROVE  Current(c, y)'
<1>1. Uncontested(c)
  BY DEF Uncontested, Exists, Remembers
<1>2. Current(c, y)
  BY <1>1 DEF Promised, RowsCurrent
<1>3. \A e \in Signatures' \ Signatures : e.control = c => e.script = y.script
  BY DEF SignsUnderLock
<1>4. \A e \in Signatures' : e.control = c /\ e.created_at >= y.updated_at =>
          e.script = y.script \/ e.created_at >= y.updated_at
  OBVIOUS
<1> QED
  BY <1>2, <1>3, <1>4, StaysCurrent DEF Current, SameScript, SignsUnderLock

\* What is left to show of a step: what the one who moves relies on, and the proposals.
LEMMA StepHolds ==
    ASSUME TypeOK, Promised, Remembers, SignsUnderLock, \A c \in Control : Follows(c),
           NEW r \in Request, NEW k, req' = [req EXCEPT ![r] = k], StillHolds(r, k)',
           RowsCurrent'
    PROVE  Promised'
<1>1. req'[r] = k /\ \A s \in Request : s # r => req'[s] = req[s]
  BY DEF TypeOK
<1>2. ASSUME NEW s \in Request, NEW q, q = req'[s]
      PROVE  StillHolds(s, q)'
  <2>1. CASE s = r
    BY <1>1, <1>2, <2>1
  <2>2. CASE s # r
    BY <1>1, <1>2, <2>2, OthersHold
  <2> QED  BY <2>1, <2>2
<1> QED
  BY <1>2 DEF Promised, Remembers

\* A step that touches neither proposals nor ledger.
LEMMA QuietStep ==
    ASSUME TypeOK, Promised, Remembers, UNCHANGED <<row, ledger, evals>>
    PROVE  /\ SignsUnderLock /\ \A c \in Control : Follows(c)
           /\ RowsCurrent'
<1>1. SignsUnderLock /\ \A c \in Control : Follows(c)
  BY DEF SignsUnderLock, Signatures, Follows, SameScript, Exists
<1>2. ASSUME NEW c \in Control, NEW y, y = row'[c], Uncontested(c)'
      PROVE  Current(c, y)'
  BY <1>1, <1>2, RowStays
<1> QED
  BY <1>1, <1>2 DEF RowsCurrent

LEMMA QuietMove ==
    ASSUME TypeOK, Promised, Remembers, UNCHANGED <<row, ledger, evals>>,
           NEW r \in Request, NEW k, req' = [req EXCEPT ![r] = k], StillHolds(r, k)'
    PROVE  Promised'
BY QuietStep, StepHolds

\* A request that is answered, dies or turns to its next control relies on nothing.
LEMMA EndsHold ==
    ASSUME NEW r, NEW k, k.pc \in {"build", "get_proposal", "done", "crashed"}
    PROVE  StillHolds(r, k)'
BY DEF StillHolds, Deciding

-----------------------------------------------------------------------------
(* The steps.                                                              *)

\* A new request relies on nothing that was signed after it arrived.
LEMMA ArrivalsHold ==
    ASSUME TypeOK, Dated, Promised, Remembers, NEW r \in Request, NEW c \in Control,
           NEW a, NEW b \in BOOLEAN,
           \/ generate(r, c) \/ generate_for_run(r) \/ approve(r, c, a, b)
           \/ mark_applied(r, c, a) \/ trigger_rollback(r, c, a, b)
    PROVE  Promised'
<1>1. UNCHANGED <<row, ledger, evals>>
  BY DEF generate, generate_for_run, approve, mark_applied, trigger_rollback, Arrive
<1>2. ASSUME NEW k, req' = [req EXCEPT ![r] = k],
             \/ k.pc = "build"
             \/ k.pc \in {"approve", "reject", "apply", "rollback"} /\ k.now = clock
      PROVE  Promised'
  <2>1. PICK n : n = clock
    OBVIOUS
  <2>2. \A e \in Signatures' : ~(e.created_at >= n)
    BY <1>1, <2>1 DEF Signatures, Dated, TypeOK, Event
  <2>3. StillHolds(r, k)'
    BY <1>2, <2>1, <2>2 DEF StillHolds, Rests, SignedSince, Deciding
  <2> QED  BY <1>1, <1>2, <2>3, QuietMove
<1>3. CASE generate(r, c)
  <2> DEFINE k == [Blank EXCEPT !.pc = "build", !.control = c, !.todo = {c}]
  <2>1. req' = [req EXCEPT ![r] = k] /\ k.pc = "build"
    BY <1>3 DEF generate, Arrive, Blank
  <2> HIDE DEF k
  <2> QED  BY <1>2, <2>1
<1>4. CASE generate_for_run(r)
  <2> DEFINE k == [Blank EXCEPT !.pc = "build", !.bulk = TRUE, !.todo = finding]
  <2>1. req' = [req EXCEPT ![r] = k] /\ k.pc = "build"
    BY <1>4 DEF generate_for_run, Arrive, Blank
  <2> HIDE DEF k
  <2> QED  BY <1>2, <2>1
<1>5. CASE approve(r, c, a, b)
  <2> DEFINE k == [Blank EXCEPT !.pc = IF b THEN "approve" ELSE "reject", !.control = c,
                                !.actor = a, !.now = clock]
  <2>1. req' = [req EXCEPT ![r] = k]
    BY <1>5 DEF approve, Arrive
  <2>2. k.pc \in {"approve", "reject"} /\ k.now = clock
    BY DEF Blank
  <2> HIDE DEF k
  <2>3. PICK q : q = k
    OBVIOUS
  <2> QED  BY <1>2, <2>1, <2>2, <2>3
<1>6. CASE mark_applied(r, c, a)
  <2> DEFINE k == [Blank EXCEPT !.pc = "apply", !.control = c, !.actor = a, !.now = clock]
  <2>1. req' = [req EXCEPT ![r] = k]
    BY <1>6 DEF mark_applied, Arrive
  <2>2. k.pc = "apply" /\ k.now = clock
    BY DEF Blank
  <2> HIDE DEF k
  <2>3. PICK q : q = k
    OBVIOUS
  <2> QED  BY <1>2, <2>1, <2>2, <2>3
<1>7. CASE trigger_rollback(r, c, a, b)
  <2> DEFINE k == [Blank EXCEPT !.pc = "rollback", !.control = c, !.actor = a, !.flag = b,
                                !.now = clock]
  <2>1. req' = [req EXCEPT ![r] = k]
    BY <1>7 DEF trigger_rollback, Arrive
  <2>2. k.pc = "rollback" /\ k.now = clock
    BY DEF Blank
  <2> HIDE DEF k
  <2>3. PICK q : q = k
    OBVIOUS
  <2> QED  BY <1>2, <2>1, <2>2, <2>3
<1> QED
  BY <1>3, <1>4, <1>5, <1>6, <1>7

\* Generation: unless a decision was under way, nobody has signed since the script that
\* is saved was dated.
LEMMA GenerationHolds ==
    ASSUME TypeOK, TypeOK', Quorum, Dated, Promised, Remembers, NEW r \in Request,
           NEW d \in Control, NEW f \in Facts, NEW t \in BOOLEAN
    PROVE  /\ build(r, d, f) => Promised'
           /\ build_fails(r, d, t) => Promised'
           /\ save_proposal(r) => Promised'
<1>1. /\ req[r] \in RequestState /\ req[r].control \in Control
      /\ req[r].now \in Nat /\ req[r].facts \in Facts
  BY DEF TypeOK, RequestState
<1>2. \A b \in Control, saved \in BOOLEAN : NextControl(r, b, saved).pc \in {"build", "done"}
  BY <1>1 DEF NextControl, Finish, Blank, RequestState
<1>3. \A o, h : Finish(r, o, h).pc = "done"
  BY DEF Finish, Blank
<1>4. ASSUME build(r, d, f)
      PROVE  Promised'
  <2> DEFINE k == [req[r] EXCEPT !.pc = "save", !.control = d, !.facts = f, !.now = clock]
  <2>1. UNCHANGED <<row, ledger, evals>>
    BY <1>4 DEF build
  <2>2. req' = [req EXCEPT ![r] = k]
    <3>1. req[r] \in RequestState
      BY <1>1
    <3> QED  BY <1>4, <3>1 DEF build, TypeOK
  <2>3. k.pc = "save" /\ k.now = clock
    <3>1. req[r] \in RequestState
      BY <1>1
    <3> QED  BY <3>1 DEF RequestState
  <2> HIDE DEF k
  <2>4. PICK q : q = k
    OBVIOUS
  <2>5. \A e \in Signatures' : e.created_at < q.now
    BY <2>1, <2>3, <2>4 DEF Dated, Signatures
  <2>6. StillHolds(r, q)'
    BY <2>3, <2>4, <2>5 DEF StillHolds, Deciding
  <2>7. req' = [req EXCEPT ![r] = q]
    BY <2>2, <2>4
  <2> QED  BY <2>1, <2>6, <2>7, QuietMove
<1>5. ASSUME build_fails(r, d, t)
      PROVE  Promised'
  <2>1. UNCHANGED <<row, ledger, evals>>
    BY <1>5 DEF build_fails
  <2>2. \/ req' = [req EXCEPT ![r] = NextControl(r, d, FALSE)]
        \/ req' = [req EXCEPT ![r] = Finish(r, "error", "none")]
    BY <1>5 DEF build_fails
  <2>3. PICK k : req' = [req EXCEPT ![r] = k] /\ k.pc \in {"build", "done"}
    BY <1>2, <1>3, <2>2
  <2>4. StillHolds(r, k)'
    BY <2>3, EndsHold
  <2> QED  BY <2>1, <2>3, <2>4, QuietMove
<1>6. ASSUME save_proposal(r)
      PROVE  Promised'
  <2>0. PICK c \in Control : c = req[r].control
    BY <1>1
  <2> DEFINE p == build_proposal(r, req[r].facts, req[r].now)
             y == IF Exists(c) THEN upsert(row[c], p) ELSE p
  <2>1. req[r].pc = "save" /\ evals' = evals
    BY <1>6, Zenon DEF save_proposal
  <2>2. Signatures' = Signatures
    BY <1>6, GenerationMild DEF Mild
  <2>3. CASE c \notin finding
    <3>1. row' = row /\ ledger' = ledger /\ req' = [req EXCEPT ![r] = Finish(r, "error", "none")]
      BY <1>6, <2>0, <2>3, Zenon DEF save_proposal
    <3>2. PICK k : req' = [req EXCEPT ![r] = k] /\ k.pc = "done"
      BY <1>3, <3>1
    <3>3. StillHolds(r, k)'
      BY <3>2, EndsHold
    <3> QED  BY <2>1, <3>1, <3>2, <3>3, QuietMove
  <2>4. CASE c \in finding
    <3>1. row' = [row EXCEPT ![c] = y] /\ req' = [req EXCEPT ![r] = NextControl(r, c, TRUE)]
      BY <1>6, <2>0, <2>4 DEF save_proposal
    <3>2. PICK k : req' = [req EXCEPT ![r] = k] /\ k.pc \in {"build", "done"}
      BY <1>2, <3>1
    <3>3. /\ p.updated_at = req[r].now /\ p.approval_status = "PENDING" /\ p.script = r
          /\ p \in Row
      BY <1>1, ProposalType DEF build_proposal
    <3>4. y.updated_at = req[r].now /\ y.approval_status = "PENDING" /\ y.script = r
      <4> HIDE DEF p
      <4> QED  BY <3>3 DEF upsert, Row
    <3> HIDE DEF p, y
    <3>5. PICK z : z = y
      OBVIOUS
    <3>6. row'[c] = z /\ \A b \in Control : b # c => row'[b] = row[b]
      BY <3>1, <3>5 DEF TypeOK
    <3>7. SignsUnderLock
      BY <2>2 DEF SignsUnderLock
    <3>8. \A b \in Control : Follows(b)
      BY <2>0, <2>1, <3>4, <3>5, <3>6 DEF Follows, SameScript, Exists
    <3>9. ASSUME Uncontested(c)'
          PROVE  Current(c, z)'
      <4>1. <<r, c>> \notin raced
        BY <3>4, <3>5, <3>6, <3>9 DEF Uncontested, Remembers
      <4>2. \A e \in Signatures : e.control = c => e.created_at < req[r].now
        BY <2>0, <2>1, <4>1 DEF Promised, StillHolds
      <4>3. \A e \in Signatures : e.created_at \in Nat
        BY DEF Signatures, TypeOK, Event
      <4>4. \A e \in Signatures' : e.control = c => ~(e.created_at >= z.updated_at)
        BY <1>1, <2>2, <3>4, <3>5, <4>2, <4>3
      <4> QED  BY <3>4, <3>5, <4>4 DEF Current, SignedSince
    <3>10. ASSUME NEW b \in Control, NEW x, x = row'[b], Uncontested(b)'
           PROVE  Current(b, x)'
      <4>1. CASE b = c
        BY <3>6, <3>9, <3>10, <4>1
      <4>2. CASE b # c
        BY <2>1, <3>6, <3>7, <3>10, <4>2, RowStays
      <4> QED  BY <4>1, <4>2
    <3>11. RowsCurrent'
      BY <3>10 DEF RowsCurrent
    <3>12. StillHolds(r, k)'
      BY <3>2, EndsHold
    <3> QED  BY <3>2, <3>7, <3>8, <3>11, <3>12, StepHolds
  <2> QED  BY <2>3, <2>4
<1> QED
  BY <1>4, <1>5, <1>6

\* The steps of an approval that write no proposal: what the first transaction reads is so
\* until it commits, and what it passes on is so until the second one unless the script is
\* saved anew under it.
LEMMA ApprovalHolds ==
    ASSUME TypeOK, TypeOK', Quorum, Promised, Remembers, NEW r \in Request
    PROVE  /\ approve_lock(r) => Promised'
           /\ approve_record(r) => Promised'
           /\ get_proposal(r) => Promised'
           /\ pin_baseline(r) => Promised'
           /\ crash(r) => Promised'
<1>0. PICK c \in Control : c = req[r].control
  BY DEF TypeOK, RequestState
<1> DEFINE a == req[r].actor
<1>1. /\ req[r] \in RequestState /\ req[r].now \in Nat /\ StillHolds(r, req[r])
      /\ Exists(c) => row[c] \in Row
  BY DEF TypeOK, Exists, RequestState, Promised
<1>2. PICK z : z = row[c]
  OBVIOUS
<1>3. PICK j : j = req[r]
  OBVIOUS
<1>4. j.pc \in Deciding /\ Uncontested(c) => Rests(j, c, z)
  BY <1>0, <1>1, <1>2, <1>3 DEF StillHolds
<1>5. ASSUME UNCHANGED <<row, ledger, evals>>, NEW k, req' = [req EXCEPT ![r] = k],
             k.pc \in {"build", "get_proposal", "done", "crashed"}
      PROVE  Promised'
  <2>1. StillHolds(r, k)'
    BY <1>5, EndsHold
  <2> QED  BY <1>5, <2>1, QuietMove
\* A step that leaves the script of c alone leaves it uncontested only if it was.
<1>6. ASSUME UNCHANGED row, Uncontested(c)'
      PROVE  Uncontested(c)
  BY <1>6 DEF Uncontested, Exists, Remembers
<1>7. ASSUME approve_lock(r)
      PROVE  Promised'
  <2>1. req[r].pc = "approve" /\ UNCHANGED <<row, ledger, evals>>
    BY <1>7 DEF approve_lock
  <2> DEFINE k == [req[r] EXCEPT !.pc = "record", !.script = row[c].script,
                                 !.action = row[c].decision_action,
                                 !.prior = prior_actors(req[r].control)]
  <2>2. \/ req' = [req EXCEPT ![r] = Finish(r, "conflict", "none")]
        \/ req' = [req EXCEPT ![r] = Finish(r, "denied", "none")]
        \/ MayApprove(a, z) /\ req' = [req EXCEPT ![r] = k]
    <3>1. req[r] \in RequestState
      BY <1>1
    <3> QED  BY <1>0, <1>2, <1>7, <3>1 DEF approve_lock, Safe, MayApprove, TypeOK
  <2>3. k.pc = "record" /\ k.control = c /\ k.actor = a /\ k.now = req[r].now
    <3>1. req[r] \in RequestState
      BY <1>1
    <3> QED  BY <1>0, <3>1 DEF RequestState
  <2> HIDE DEF k
  <2>4. CASE MayApprove(a, z) /\ req' = [req EXCEPT ![r] = k]
    <3>1. PICK q : q = k
      OBVIOUS
    <3>2. ASSUME Uncontested(c)'
          PROVE  Rests(q, c, z)'
      <4>1. Rests(j, c, z)
        BY <1>3, <1>4, <1>6, <2>1, <3>2 DEF Deciding
      <4>2. SignedSince(c, q.now, z)'
        BY <1>3, <2>1, <2>3, <3>1, <4>1 DEF Rests, SignedSince, Signatures
      <4> QED  BY <2>3, <2>4, <3>1, <4>2 DEF Rests, MayApprove
    <3>3. StillHolds(r, q)'
      BY <1>2, <2>1, <2>3, <3>1, <3>2 DEF StillHolds
    <3>4. req' = [req EXCEPT ![r] = q]
      BY <2>4, <3>1
    <3> QED  BY <2>1, <3>3, <3>4, QuietMove
  <2>5. \A o, h : Finish(r, o, h).pc = "done"
    BY DEF Finish, Blank
  <2> QED  BY <1>5, <2>1, <2>2, <2>4, <2>5
<1>8. ASSUME approve_record(r)
      PROVE  Promised'
  <2> DEFINE quorum == dual_approval_satisfied(req[r].action, req[r].prior, a)
             k == [req[r] EXCEPT !.pc = IF quorum THEN "pin" ELSE "get_proposal"]
             e == Ev("APPROVED", c, a, clock, req[r].script, 0)
  <2>1. /\ req[r].pc = "record" /\ UNCHANGED <<row, evals>>
        /\ ledger' = ledger \cup {e} /\ req' = [req EXCEPT ![r] = k]
    BY <1>0, <1>8 DEF approve_record, TypeOK
  <2>2. /\ Exists(c) /\ req[r].script = z.script /\ req[r].prior = prior_actors(c)
        /\ req[r].action = z.decision_action
    BY <1>0, <1>2, <2>1 DEF Quorum, ReadsHold
  <2>3. /\ k.pc = (IF quorum THEN "pin" ELSE "get_proposal")
        /\ k.control = c /\ k.actor = a /\ k.now = req[r].now
    <3>1. req[r] \in RequestState
      BY <1>1
    <3> HIDE DEF quorum
    <3> QED  BY <1>0, <3>1 DEF RequestState
  <2>4. e.event_type = "APPROVED" /\ e.control = c /\ e.actor = a /\ e.script = z.script
    BY <2>2 DEF Ev
  <2> HIDE DEF k, e
  <2>5. Signatures' = Signatures \cup {e}
    BY <2>1, <2>4 DEF Signatures
  <2>6. SignsUnderLock
    BY <1>0, <1>2, <2>1, <2>4, <2>5 DEF SignsUnderLock
  <2>7. \A b \in Control : Follows(b)
    BY <2>1 DEF Follows, SameScript, Exists
  <2>8. ASSUME NEW b \in Control, NEW y, y = row'[b], Uncontested(b)'
        PROVE  Current(b, y)'
    BY <2>1, <2>6, <2>8, RowStays
  <2>9. RowsCurrent'
    BY <2>8 DEF RowsCurrent
  <2>10. Signers(c, z.script)' = Signers(c, z.script) \cup {a}
    BY <2>1, <2>4 DEF Signers
  <2>11. PICK q : q = k
    OBVIOUS
  <2>12. ASSUME quorum, Uncontested(c)
         PROVE  Countersigned(c, z, q.actor)'
    <3>1. PICK b : b = a
      OBVIOUS
    <3>2. prior_actors(c) \subseteq Signers(c, z.script)
      <4>1. Current(c, z)
        BY <1>2, <2>12 DEF Promised, RowsCurrent
      <4> QED  BY <1>2, <4>1 DEF Current, SignedSince, Signatures, prior_actors, Signers
    <3>3. ASSUME z.decision_action = "DUAL_APPROVAL"
          PROVE  \E x \in prior_actors(c) : x # b
      <4>1. Cardinality(prior_actors(c) \cup {b}) >= 2
        BY <2>2, <2>12, <3>1, <3>3 DEF dual_approval_satisfied
      <4>2. Cardinality({b}) = 1
        BY FS_Singleton
      <4> SUFFICES ASSUME prior_actors(c) \subseteq {b}
                   PROVE  FALSE
        OBVIOUS
      <4>3. prior_actors(c) \cup {b} = {b}
        OBVIOUS
      <4> QED  BY <4>1, <4>2, <4>3
    <3>4. q.actor = b
      BY <2>3, <2>11, <3>1
    <3> QED  BY <2>10, <3>1, <3>2, <3>3, <3>4 DEF Countersigned
  <2> HIDE DEF quorum
  <2>13. ASSUME Uncontested(c)', q.pc = "pin"
         PROVE  Rests(q, c, z)'
    <3>1. Uncontested(c) /\ quorum
      BY <1>6, <2>1, <2>3, <2>11, <2>13
    <3>2. Rests(j, c, z)
      BY <1>3, <1>4, <2>1, <3>1 DEF Deciding
    <3>3. SignedSince(c, q.now, z)'
      BY <1>3, <2>3, <2>4, <2>5, <2>11, <3>2 DEF Rests, SignedSince
    <3>4. MayApprove(q.actor, z)
      BY <1>3, <2>1, <2>3, <2>11, <3>2 DEF Rests
    <3>5. Countersigned(c, z, q.actor)'
      BY <2>12, <3>1
    <3> QED  BY <2>13, <3>3, <3>4, <3>5 DEF Rests, MayApprove
  <2>14. StillHolds(r, q)'
    BY <1>2, <2>1, <2>3, <2>11, <2>13 DEF StillHolds, Deciding
  <2>15. req' = [req EXCEPT ![r] = q]
    BY <2>1, <2>11
  <2> QED  BY <2>6, <2>7, <2>9, <2>14, <2>15, StepHolds
<1>9. ASSUME get_proposal(r)
      PROVE  Promised'
  <2>1. UNCHANGED <<row, ledger, evals>> /\ \E o, h : req' = [req EXCEPT ![r] = Finish(r, o, h)]
    BY <1>9 DEF get_proposal
  <2>2. \A o, h : Finish(r, o, h).pc = "done"
    BY DEF Finish, Blank
  <2> QED  BY <1>5, <2>1, <2>2
<1>10. ASSUME pin_baseline(r)
       PROVE  Promised'
  <2> DEFINE k == [req[r] EXCEPT !.pc = "finalize", !.sha = latest_baseline]
  <2>1. req[r].pc = "pin" /\ UNCHANGED <<row, ledger, evals>>
    BY <1>10 DEF pin_baseline
  <2>2. /\ req' = [req EXCEPT ![r] = k]
        /\ k.pc = "finalize" /\ k.sha = evals
        /\ k.control = c /\ k.actor = a /\ k.now = req[r].now
    <3>1. req[r] \in RequestState
      BY <1>1
    <3>2. req' = [req EXCEPT ![r] = k]
      BY <1>10, <3>1 DEF pin_baseline, TypeOK
    <3> QED  BY <1>0, <3>1, <3>2 DEF RequestState, latest_baseline
  <2> HIDE DEF k
  <2>3. PICK q : q = k
    OBVIOUS
  <2>4. ASSUME Uncontested(c)'
        PROVE  Rests(q, c, z)'
    <3>1. Rests(j, c, z)
      BY <1>3, <1>4, <1>6, <2>1, <2>4 DEF Deciding
    <3>2. SignedSince(c, q.now, z)'
      BY <1>3, <2>1, <2>2, <2>3, <3>1 DEF Rests, SignedSince, Signatures
    <3>3. MayApprove(q.actor, z)
      BY <1>3, <2>1, <2>2, <2>3, <3>1 DEF Rests
    <3>4. Countersigned(c, z, q.actor)'
      BY <1>3, <2>1, <2>2, <2>3, <3>1 DEF Rests, Countersigned, Signers
    <3>5. q.sha = evals'
      BY <2>1, <2>2, <2>3
    <3> QED  BY <3>2, <3>3, <3>4, <3>5 DEF Rests, MayApprove
  <2>5. StillHolds(r, q)'
    BY <1>2, <2>1, <2>2, <2>3, <2>4 DEF StillHolds
  <2>6. req' = [req EXCEPT ![r] = q]
    BY <2>2, <2>3
  <2> QED  BY <2>1, <2>5, <2>6, QuietMove
<1>11. ASSUME crash(r)
       PROVE  Promised'
  <2> DEFINE k == [Finish(r, "none", "none") EXCEPT !.pc = "crashed"]
  <2>1. UNCHANGED <<row, ledger, evals>> /\ req' = [req EXCEPT ![r] = k]
    BY <1>11 DEF crash
  <2>2. k.pc = "crashed"
    BY DEF Finish, Blank
  <2> HIDE DEF k
  <2>3. PICK q : q = k
    OBVIOUS
  <2> QED  BY <1>5, <2>1, <2>2, <2>3
<1> QED
  BY <1>7, <1>8, <1>9, <1>10, <1>11

\* A decision, an application or a roll back puts the date of its arrival on the proposal,
\* and nothing but the script it now has was signed since.
LEMMA DecisionHolds ==
    ASSUME TypeOK, TypeOK', Quorum, Promised, Remembers, NEW r \in Request,
           finalize_approval(r) \/ reject(r) \/ apply(r) \/ rollback(r)
    PROVE  Promised'
<1>0. PICK c \in Control : c = req[r].control
  BY DEF TypeOK, RequestState
<1> DEFINE a == req[r].actor
           now == req[r].now
<1>1. StillHolds(r, req[r])
  BY DEF Promised
<1>2. /\ req[r].pc \in Deciding /\ evals' = evals
      /\ \E o, h : req' = [req EXCEPT ![r] = Finish(r, o, h)]
  BY DEF finalize_approval, reject, apply, rollback, Deciding
<1>3. Signatures' = Signatures
  BY DecisionMild DEF Mild
<1>4. SignsUnderLock
  BY <1>3 DEF SignsUnderLock
<1>5. PICK z : z = row[c]
  OBVIOUS
<1>6. Uncontested(c) => Rests(req[r], c, z) /\ Current(c, z)
  BY <1>0, <1>1, <1>2, <1>5 DEF StillHolds, Promised, RowsCurrent
<1>7. ASSUME \A b \in Control : Follows(b), RowsCurrent'
      PROVE  Promised'
  <2>1. PICK k : req' = [req EXCEPT ![r] = k] /\ k.pc = "done"
    <3>1. \A o, h : Finish(r, o, h).pc = "done"
      BY DEF Finish, Blank
    <3> QED  BY <1>2, <3>1
  <2>2. StillHolds(r, k)'
    BY <2>1, EndsHold
  <2> QED  BY <1>4, <1>7, <2>1, <2>2, StepHolds
<1>8. CASE row' = row
  <2>1. \A b \in Control : Follows(b)
    BY <1>2, <1>8 DEF Follows, SameScript, Exists
  <2>2. ASSUME NEW b \in Control, NEW y, y = row'[b], Uncontested(b)'
        PROVE  Current(b, y)'
    BY <1>2, <1>4, <1>8, <2>2, RowStays
  <2> QED  BY <1>7, <2>1, <2>2 DEF RowsCurrent
<1>9. ASSUME NEW y, Exists(c), row' = [row EXCEPT ![c] = y], y.updated_at = now,
             SameScript(y, z),
             y.approval_status = "APPROVED" =>
                \/ /\ z.approval_status = "APPROVED" /\ y.approved_by = z.approved_by
                   /\ y.pin = z.pin
                \/ req[r].pc = "finalize" /\ y.approved_by = a /\ y.pin = req[r].sha
      PROVE  Promised'
  <2>1. row'[c] = y /\ \A b \in Control : b # c => row'[b] = row[b]
    BY <1>9 DEF TypeOK
  <2>2. \A b \in Control : Follows(b)
    BY <1>2, <1>5, <1>9, <2>1 DEF Follows, SameScript, Exists
  <2>3. ASSUME Uncontested(c)'
        PROVE  Current(c, y)'
    <3>1. Uncontested(c)
      BY <1>5, <1>9, <2>1, <2>3 DEF Uncontested, Exists, SameScript, Remembers
    <3>2. Current(c, z)
      BY <1>6, <3>1
    <3>3. \A e \in Signatures' : e.control = c /\ e.created_at >= y.updated_at =>
              e.script = z.script
      BY <1>3, <1>6, <1>9, <3>1 DEF Rests, SignedSince
    <3>4. y.approval_status = "APPROVED" =>
               \/ /\ z.approval_status = "APPROVED" /\ y.approved_by = z.approved_by
                  /\ y.pin = z.pin
               \/ /\ MayApprove(y.approved_by, z) /\ Countersigned(c, z, y.approved_by)
                  /\ y.pin = evals
      BY <1>6, <1>9, <3>1 DEF Rests
    <3> QED  BY <1>2, <1>3, <1>9, <3>2, <3>3, <3>4, StaysCurrent
  <2>4. ASSUME NEW b \in Control, NEW x, x = row'[b], Uncontested(b)'
        PROVE  Current(b, x)'
    <3>1. CASE b = c
      BY <2>1, <2>3, <2>4, <3>1
    <3>2. CASE b # c
      BY <1>2, <1>4, <2>1, <2>4, <3>2, RowStays
    <3> QED  BY <3>1, <3>2
  <2> QED  BY <1>7, <2>2, <2>4 DEF RowsCurrent
<1>10. Exists(c) => row[c] \in Row
  BY DEF TypeOK, Exists
<1>11. CASE finalize_approval(r)
  <2> DEFINE y == [row[c] EXCEPT !.approval_status = "APPROVED", !.approved_by = a,
                                 !.updated_at = now, !.pin = req[r].sha]
  <2>1. row' = row \/ (Exists(c) /\ row' = [row EXCEPT ![c] = y])
    BY <1>0, <1>11 DEF finalize_approval, Safe
  <2>2. req[r].pc = "finalize"
    BY <1>11 DEF finalize_approval
  <2>3. Exists(c) => /\ y.updated_at = now /\ SameScript(y, z)
                     /\ y.pin = req[r].sha /\ y.approved_by = a
    BY <1>5, <1>10 DEF Row, SameScript
  <2> HIDE DEF y
  <2>4. PICK x : x = y
    OBVIOUS
  <2> QED  BY <1>8, <1>9, <2>1, <2>2, <2>3, <2>4
<1>12. CASE reject(r)
  <2> DEFINE y == [row[c] EXCEPT !.approval_status = "REJECTED", !.approved_by = a,
                                 !.updated_at = now]
  <2>1. row' = row \/ (Exists(c) /\ row' = [row EXCEPT ![c] = y])
    BY <1>0, <1>12 DEF reject
  <2>2. Exists(c) => /\ y.updated_at = now /\ SameScript(y, z)
                     /\ y.approval_status = "REJECTED"
    BY <1>5, <1>10 DEF Row, SameScript
  <2> HIDE DEF y
  <2>3. PICK x : x = y
    OBVIOUS
  <2> QED  BY <1>8, <1>9, <2>1, <2>2, <2>3
<1>13. CASE apply(r)
  <2> DEFINE y == [row[c] EXCEPT !.applied = TRUE, !.rollback_status = "APPLIED",
                                 !.updated_at = now]
  <2>1. row' = row \/ (Exists(c) /\ row' = [row EXCEPT ![c] = y])
    BY <1>0, <1>13 DEF apply, Approved
  <2>2. Exists(c) => /\ y.updated_at = now /\ SameScript(y, z) /\ y.pin = z.pin
                     /\ y.approval_status = z.approval_status
                     /\ y.approved_by = z.approved_by
    BY <1>5, <1>10 DEF Row, SameScript
  <2> HIDE DEF y
  <2>3. PICK x : x = y
    OBVIOUS
  <2> QED  BY <1>8, <1>9, <2>1, <2>2, <2>3
<1>14. CASE rollback(r)
  <2> DEFINE y == [row[c] EXCEPT !.rollback_status = "ROLLED_BACK", !.updated_at = now]
  <2>1. row' = row \/ (Exists(c) /\ row' = [row EXCEPT ![c] = y])
    BY <1>0, <1>14 DEF rollback, Applied
  <2>2. Exists(c) => /\ y.updated_at = now /\ SameScript(y, z) /\ y.pin = z.pin
                     /\ y.approval_status = z.approval_status
                     /\ y.approved_by = z.approved_by
    BY <1>5, <1>10 DEF Row, SameScript
  <2> HIDE DEF y
  <2>3. PICK x : x = y
    OBVIOUS
  <2> QED  BY <1>8, <1>9, <2>1, <2>2, <2>3
<1> QED
  BY <1>11, <1>12, <1>13, <1>14

\* A re-evaluation removes every proposal, and nobody rests on one that is not there.
LEMMA EvaluationHolds ==
    ASSUME TypeOK, Promised, Remembers, NEW found \in SUBSET Control, save_findings(found)
    PROVE  Promised'
<1>1. req' = req /\ \A c \in Control : row'[c] = NoRow
  BY DEF save_findings
<1>2. SignsUnderLock /\ \A c \in Control : Follows(c)
  BY <1>1, EvaluationMild DEF SignsUnderLock, Follows, Mild
<1>3. RowsCurrent'
  BY <1>1 DEF RowsCurrent, Uncontested, Exists
<1>4. ASSUME NEW s \in Request, NEW k, k = req'[s]
      PROVE  StillHolds(s, k)'
  BY <1>1, <1>2, <1>4, OthersHold
<1> QED
  BY <1>3, <1>4 DEF Promised, Remembers

LEMMA PromisedKept ==
    ASSUME TypeOK, TypeOK', Quorum, Dated, Promised, [HNext]_<<vars, raced>>
    PROVE  Promised'
<1>1. CASE UNCHANGED <<vars, raced>>
  <2>1. /\ UNCHANGED <<row, ledger, evals, req, raced>>
        /\ Overlaps' = Overlaps
    BY <1>1 DEF vars, Overlaps
  <2>2. Remembers
    BY <2>1 DEF Remembers, Promised
  <2>3. SignsUnderLock /\ (\A c \in Control : Follows(c)) /\ RowsCurrent'
    BY <2>1, <2>2, QuietStep
  <2>4. ASSUME NEW s \in Request, NEW k, k = req'[s]
        PROVE  StillHolds(s, k)'
    BY <2>1, <2>2, <2>3, <2>4, OthersHold
  <2> QED  BY <2>2, <2>3, <2>4 DEF Promised, Remembers
<1>2. CASE HNext
  <2>1. Remembers
    BY <1>2 DEF HNext, Remembers
  <2>2. PICK b \in Control, f \in Facts : TRUE
    BY ConstantsOK
  <2>3. CASE Environment
    <3>1. ASSUME NEW r \in Request, NEW c \in Control, NEW a, NEW t \in BOOLEAN,
                 \/ generate(r, c) \/ generate_for_run(r) \/ approve(r, c, a, t)
                 \/ mark_applied(r, c, a) \/ trigger_rollback(r, c, a, t)
          PROVE  Promised'
      BY <2>1, <3>1, ArrivalsHold
    <3>2. \A r \in Request, c \in Control : generate(r, c) \/ generate_for_run(r) => Promised'
      <4> SUFFICES ASSUME NEW r \in Request, NEW c \in Control,
                          generate(r, c) \/ generate_for_run(r)
                   PROVE  Promised'
        OBVIOUS
      <4>1. PICK a, t \in BOOLEAN : TRUE
        OBVIOUS
      <4> QED  BY <3>1, <4>1
    <3>3. \A r \in Request, c \in Control, a \in Actor : mark_applied(r, c, a) => Promised'
      <4>1. PICK t \in BOOLEAN : TRUE
        OBVIOUS
      <4> QED  BY <3>1, <4>1
    <3>4. ASSUME NEW found \in SUBSET Control, save_findings(found)
          PROVE  Promised'
      BY <2>1, <3>4, EvaluationHolds
    <3>5. ASSUME NEW r \in Request, crash(r)
          PROVE  Promised'
      BY <2>1, <3>5, ApprovalHolds
    <3> QED
      BY <2>2, <2>3, <3>1, <3>2, <3>3, <3>4, <3>5, Zenon DEF Environment
  <2>4. ASSUME NEW r \in Request, Step(r)
        PROVE  Promised'
    <3>1. \A c \in Control, g \in Facts : build(r, c, g) => Promised'
      BY <2>1, GenerationHolds
    <3>2. \A c \in Control, t \in BOOLEAN : build_fails(r, c, t) => Promised'
      BY <2>1, <2>2, GenerationHolds
    <3>3. save_proposal(r) => Promised'
      BY <2>1, <2>2, GenerationHolds
    <3>4. ASSUME approve_lock(r) \/ approve_record(r) \/ get_proposal(r) \/ pin_baseline(r)
          PROVE  Promised'
      BY <2>1, <3>4, ApprovalHolds
    <3>5. ASSUME finalize_approval(r) \/ reject(r) \/ apply(r) \/ rollback(r)
          PROVE  Promised'
      BY <2>1, <3>5, DecisionHolds
    <3> QED
      BY <2>4, <3>1, <3>2, <3>3, <3>4, <3>5 DEF Step
  <2> QED  BY <1>2, <2>3, <2>4 DEF HNext, Next
<1> QED
  BY <1>1, <1>2

\* The history restricts nothing: what holds of the lifecycle holds with it.
LEMMA HistoryIsSpec == HSpec => Spec
<1>1. HInit => Init
  BY DEF HInit
<1>2. [HNext]_<<vars, raced>> => [Next]_vars
  BY DEF HNext
<1> QED
  BY <1>1, <1>2, PTL DEF HSpec, Spec

LEMMA PromisedHolds == HSpec => []Promised
<1>1. HInit => Promised
  <2> SUFFICES ASSUME HInit
               PROVE  Promised
    OBVIOUS
  <2>1. \A r \in Request : req[r].pc = "idle"
    BY DEF HInit, Init, Blank
  <2>2. Overlaps = {}
    BY <2>1 DEF Overlaps
  <2> QED
    BY <2>1, <2>2 DEF HInit, Init, Promised, RowsCurrent, Uncontested, Exists, StillHolds,
       Deciding
<1>2. TypeOK /\ TypeOK' /\ Quorum /\ Replayable /\ Promised /\ [HNext]_<<vars, raced>>
      => Promised'
  BY PromisedKept DEF Replayable
<1> QED
  BY <1>1, <1>2, HistoryIsSpec, TypeCorrect, QuorumHolds, Replays, PTL DEF HSpec

\* However many requests overlap, an approved proposal whose script was not saved under
\* somebody's decision was signed by whoever it names, whom the matrix lets sign it, and by
\* two people if it is classified DUAL_APPROVAL: check_permission and the quorum query of
\* approve() saw the very script that _finalize_approval approves.
THEOREM TwoPeopleSign == HSpec => []TwoPersonRule
<1>1. Promised => TwoPersonRule
  BY DEF Promised, RowsCurrent, Current, Countersigned, MayApprove, TwoPersonRule, Approved
<1> QED
  BY <1>1, PromisedHolds, PTL

\* However many requests overlap, the quorum query counts no signature of an earlier script,
\* unless the script was saved under somebody's decision.
THEOREM QuorumsAreCurrent == HSpec => []UncontestedQuorum
<1>1. Promised => UncontestedQuorum
  BY DEF Promised, RowsCurrent, Current, SignedSince, Signatures, UncontestedQuorum,
     prior_actors, Signers
<1> QED
  BY <1>1, PromisedHolds, PTL

\* However many requests and evaluations overlap, an approval is pinned to the latest
\* evaluation, the one whose findings the proposal hangs from: an evaluation between the
\* two statements of _finalize_approval removes the proposal, and only a script that is
\* saved in time for the second statement gets an older pin.
THEOREM PinsAreCurrent == HSpec => []UncontestedPin
<1>1. Promised => UncontestedPin
  BY DEF Promised, RowsCurrent, Current, UncontestedPin, Approved
<1> QED
  BY <1>1, PromisedHolds, PTL

-----------------------------------------------------------------------------
(* The refinement of a sign-off.                                           *)

\* Nobody has signed a script that is not saved.
ScriptsUnsigned ==
    \A g \in Request, c \in Control : Unsaved(req[g], c) =>
        \A e \in Signatures : e.control = c => e.script # g

LEMMA UnsignedKept ==
    ASSUME TypeOK, TypeOK', Quorum, ScriptsUnsigned, [Next]_vars
    PROVE  ScriptsUnsigned'
<1>1. CASE Mild
  <2>1. \A g \in Request, c \in Control : Unsaved(req'[g], c) => Unsaved(req[g], c)
    BY <1>1 DEF Mild, Settles
  <2> QED  BY <1>1, <2>1 DEF ScriptsUnsigned, Mild
<1>2. ASSUME NEW r \in Request, Locks(r)
      PROVE  ScriptsUnsigned'
  <2>0. ledger' = ledger
    BY <1>2, Zenon DEF Locks, approve_lock
  <2>4. req' = [req EXCEPT ![r].pc = "record",
                           ![r].script = row[req[r].control].script,
                           ![r].action = row[req[r].control].decision_action,
                           ![r].prior = prior_actors(req[r].control)]
    BY <1>2, Zenon DEF Locks, approve_lock
  <2>5. req[r] \in RequestState /\ req \in [Request -> RequestState]
    BY DEF TypeOK
  <2>1. req'[r].pc = "record"
    BY <2>4, <2>5 DEF RequestState
  <2>2. \A g \in Request : g # r => req'[g] = req[g]
    BY <1>2 DEF Locks, approve_lock, TypeOK
  <2>3. \A g \in Request, c \in Control : Unsaved(req'[g], c) => Unsaved(req[g], c)
    BY <2>1, <2>2 DEF Unsaved
  <2> QED  BY <2>0, <2>3 DEF ScriptsUnsigned, Signatures
<1>3. ASSUME NEW r \in Request, approve_record(r)
      PROVE  ScriptsUnsigned'
  <2>1. PICK e : e = Ev("APPROVED", req[r].control, req[r].actor, clock, req[r].script, 0)
    OBVIOUS
  <2>2. e.control = req[r].control /\ e.script = req[r].script /\ Signatures' \subseteq Signatures \cup {e}
    BY <1>3, <2>1 DEF approve_record, Ev, Signatures
  <2>3. \A g \in Request, c \in Control : Unsaved(req'[g], c) => Unsaved(req[g], c)
    BY <1>3 DEF approve_record, TypeOK, Unsaved
  <2> QED  BY <2>2, <2>3 DEF ScriptsUnsigned, Quorum, ScriptsNew
<1> QED
  BY <1>1, <1>2, <1>3, AllMild DEF UnderLock

LEMMA UnsignedHolds == Spec => []ScriptsUnsigned
<1>1. Init => ScriptsUnsigned
  BY DEF Init, ScriptsUnsigned, Signatures, Ev
<1> QED
  BY <1>1, UnsignedKept, TypeCorrect, QuorumHolds, PTL DEF Spec

\* A script is contested, or not, from the step that saves it on.
LEMMA RacesAreOver ==
    ASSUME TypeOK', Quorum', Remembers, NEW c \in Control, NEW y, y = row'[c], y # NoRow
    PROVE  <<y.script, c>> \in raced' <=> <<y.script, c>> \in raced
<1>1. ASSUME <<y.script, c>> \in Overlaps'
      PROVE  FALSE
  <2>1. PICK g \in Request : req'[g].pc = "save" /\ <<y.script, c>> = <<g, req'[g].control>>
    BY <1>1 DEF Overlaps
  <2>2. Unsaved(req'[g], c)
    BY <2>1 DEF Quorum, RequestsOK, RequestOK, Unsaved
  <2> QED  BY <2>1, <2>2 DEF Quorum, ScriptsNew, Exists
<1> QED
  BY <1>1 DEF Remembers

\* Nothing of the sign-off moves when no proposal does and nobody signs.
LEMMA Unmoved ==
    ASSUME TypeOK', Quorum', Remembers, row' = row, Signatures' = Signatures
    PROVE  UNCHANGED SignedOff!vars
<1>1. \A c, s : Signers(c, s)' = Signers(c, s)
  BY DEF Signers, Signatures
<1>2. signed' = signed
  BY <1>1 DEF signed, Exists
<1>3. contested' = contested
  <2>1. \A c \in Control : row[c] # NoRow =>
            (<<row[c].script, c>> \in raced' <=> <<row[c].script, c>> \in raced)
    BY RacesAreOver
  <2> QED  BY <2>1 DEF contested, Uncontested, Exists
<1> QED
  BY <1>2, <1>3 DEF SignedOff!vars, standing, two, deployed, Exists

\* What moves when one proposal does: those who signed its script count.
Moves(c, y) ==
    /\ standing' = [standing EXCEPT ![c] = y.approval_status]
    /\ two' = [two EXCEPT ![c] = (y.decision_action = "DUAL_APPROVAL")]
    /\ signed' = [signed EXCEPT ![c] = Signers(c, y.script)]
    /\ deployed' = [deployed EXCEPT ![c] = y.rollback_status]
    /\ contested' = [contested EXCEPT ![c] = (<<y.script, c>> \in raced)]

LEMMA OneRow ==
    ASSUME TypeOK, TypeOK', Quorum', Remembers, NEW c \in Control, NEW y \in Row,
           row' = [row EXCEPT ![c] = y], Signatures' = Signatures
    PROVE  Moves(c, y)
<1>1. row'[c] = y /\ Exists(c)' /\ \A d \in Control : d # c => row'[d] = row[d]
  BY NoRowOK DEF TypeOK, Exists
<1>2. \A d, s : Signers(d, s)' = Signers(d, s)
  BY DEF Signers, Signatures
<1>4. standing' = [standing EXCEPT ![c] = y.approval_status]
  <2>1. standing'[c] = y.approval_status /\ \A d \in Control : d # c => standing'[d] = standing[d]
    BY <1>1 DEF standing, Exists
  <2>2. standing = [d \in Control |-> standing[d]] /\ standing' = [d \in Control |-> standing'[d]]
    BY DEF standing
  <2> QED  BY <2>1, <2>2
<1>5. two' = [two EXCEPT ![c] = (y.decision_action = "DUAL_APPROVAL")]
  BY <1>1 DEF two, Exists
<1>6. signed' = [signed EXCEPT ![c] = Signers(c, y.script)]
  <2>1. signed'[c] = Signers(c, y.script)
    BY <1>1, <1>2 DEF signed
  <2>2. \A d \in Control : d # c => signed'[d] = signed[d]
    BY <1>1, <1>2 DEF signed, Exists
  <2>3. signed = [d \in Control |-> signed[d]] /\ signed' = [d \in Control |-> signed'[d]]
    BY DEF signed
  <2> QED  BY <2>1, <2>2, <2>3
<1>7. deployed' = [deployed EXCEPT ![c] = y.rollback_status]
  <2>1. deployed'[c] = y.rollback_status /\ \A d \in Control : d # c => deployed'[d] = deployed[d]
    BY <1>1 DEF deployed, Exists
  <2>2. deployed = [d \in Control |-> deployed[d]] /\ deployed' = [d \in Control |-> deployed'[d]]
    BY DEF deployed
  <2> QED  BY <2>1, <2>2
<1>8. contested' = [contested EXCEPT ![c] = (<<y.script, c>> \in raced)]
  <2>1. \A d \in Control : row'[d] # NoRow =>
            (<<row'[d].script, d>> \in raced' <=> <<row'[d].script, d>> \in raced)
    BY RacesAreOver
  <2>2. contested'[c] = (<<y.script, c>> \in raced)
    BY <1>1, <2>1 DEF contested, Uncontested, Exists
  <2>3. \A d \in Control : d # c => contested'[d] = contested[d]
    BY <1>1, <2>1 DEF contested, Uncontested, Exists
  <2>4. /\ contested = [d \in Control |-> contested[d]]
        /\ contested' = [d \in Control |-> contested'[d]]
    BY DEF contested
  <2> QED  BY <2>2, <2>3, <2>4
<1> QED
  BY <1>4, <1>5, <1>6, <1>7, <1>8 DEF Moves

\* What the sign-off says of a control that has a proposal.
LEMMA Reads ==
    ASSUME NEW c \in Control, Exists(c)
    PROVE  /\ standing[c] = row[c].approval_status
           /\ two[c] <=> row[c].decision_action = "DUAL_APPROVAL"
           /\ signed[c] = Signers(c, row[c].script)
           /\ deployed[c] = row[c].rollback_status
           /\ contested[c] <=> ~Uncontested(c)
BY DEF standing, two, signed, deployed, contested

\* What a proposal of the same script leaves as it was.
LEMMA Keeps ==
    ASSUME TypeOK, NEW c \in Control, Exists(c), NEW y, SameScript(y, row[c]), Moves(c, y)
    PROVE  /\ two' = two /\ signed' = signed /\ contested' = contested
           /\ y.approval_status = row[c].approval_status => standing' = standing
           /\ y.rollback_status = row[c].rollback_status => deployed' = deployed
<1>1. two = [two EXCEPT ![c] = (y.decision_action = "DUAL_APPROVAL")]
  BY DEF two, SameScript
<1>2. signed = [signed EXCEPT ![c] = Signers(c, y.script)]
  BY DEF signed, SameScript
<1>3. contested = [contested EXCEPT ![c] = (<<y.script, c>> \in raced)]
  BY DEF contested, Uncontested, SameScript
<1>4. standing = [standing EXCEPT ![c] = row[c].approval_status]
  BY DEF standing
<1>5. deployed = [deployed EXCEPT ![c] = row[c].rollback_status]
  BY DEF deployed
<1> QED
  BY <1>1, <1>2, <1>3, <1>4, <1>5 DEF Moves

\* save_proposal proposes a script nobody has signed.
LEMMA SavesPropose ==
    ASSUME TypeOK, TypeOK', Quorum, Quorum', ScriptsUnsigned, Remembers,
           NEW r \in Request, save_proposal(r)
    PROVE  [SignedOff!Next]_(SignedOff!vars)
<1>0. PICK c \in Control : c = req[r].control
  BY DEF TypeOK, RequestState
<1>1. /\ req[r].now \in Nat /\ req[r].facts \in Facts /\ req[r].pc = "save"
      /\ Unsaved(req[r], c)
  BY <1>0 DEF TypeOK, RequestState, save_proposal, Quorum, RequestsOK, RequestOK, Unsaved
<1>2. Signatures' = Signatures
  <2>1. \E d \in Control, f \in Facts, t \in BOOLEAN : TRUE
    BY <1>0, <1>1
  <2> QED  BY <2>1, GenerationMild DEF Mild
<1>3. CASE c \notin finding
  <2>1. row' = row
    BY <1>0, <1>3, Zenon DEF save_proposal
  <2> QED  BY <1>2, <2>1, Unmoved
<1>4. CASE c \in finding
  <2> DEFINE p == build_proposal(r, req[r].facts, req[r].now)
             y == IF Exists(c) THEN upsert(row[c], p) ELSE p
  <2>1. row' = [row EXCEPT ![c] = y]
    BY <1>0, <1>4 DEF save_proposal
  <2>2. /\ p \in Row /\ p.script = r /\ p.approval_status = "PENDING"
        /\ p.rollback_status = "NONE"
    BY <1>1, ProposalType DEF build_proposal
  <2>3. /\ y \in Row /\ y.script = r /\ y.approval_status = "PENDING"
        /\ y.rollback_status = "NONE"
    <3> HIDE DEF p
    <3> QED  BY <2>2 DEF upsert, Row, TypeOK, Exists
  <2> HIDE DEF p, y
  <2>4. PICK z : z = y
    OBVIOUS
  <2>5. Moves(c, z)
    BY <1>2, <2>1, <2>3, <2>4, OneRow
  <2>6. Signers(c, z.script) = {}
    BY <1>1, <2>3, <2>4 DEF ScriptsUnsigned, Signers, Signatures
  <2>7. PICK dual \in BOOLEAN : dual = (z.decision_action = "DUAL_APPROVAL")
    OBVIOUS
  <2>8. \E clash \in BOOLEAN : clash = (<<z.script, c>> \in raced)
    <3>1. (<<z.script, c>> \in raced) \in BOOLEAN
      OBVIOUS
    <3> QED  BY <3>1, Zenon
  <2>10. PICK clash \in BOOLEAN : clash = (<<z.script, c>> \in raced)
    BY <2>8, Zenon
  <2>9. SignedOff!Propose(c, dual, clash)
    BY <2>3, <2>4, <2>5, <2>6, <2>7, <2>10 DEF Moves, SignedOff!Propose
  <2> QED  BY <2>7, <2>10, <2>9 DEF SignedOff!Next
<1> QED
  BY <1>3, <1>4

\* The first transaction of approve() signs the script it has locked, whatever it makes of
\* the quorum.
LEMMA RecordsSign ==
    ASSUME TypeOK, TypeOK', Quorum, Quorum', Remembers, Signed, NEW r \in Request,
           approve_record(r)
    PROVE  [SignedOff!Next]_(SignedOff!vars)
<1>0. PICK c \in Control : c = req[r].control
  BY DEF TypeOK, RequestState
<1> DEFINE a == req[r].actor
           e == Ev("APPROVED", c, a, clock, req[r].script, 0)
<1>1. req[r].pc = "record" /\ row' = row /\ ledger' = ledger \cup {e}
  BY <1>0 DEF approve_record
<1>3. Exists(c) /\ row[c] \in Row /\ req[r].script = row[c].script
  BY <1>0, <1>1 DEF Quorum, ReadsHold, TypeOK, Exists
<1>2. /\ e.event_type = "APPROVED" /\ e.control = c /\ e.actor = a
      /\ e.script = row[c].script
  BY <1>3 DEF Ev
<1>5. a \in Signatory
  BY <1>1 DEF Signed, RequestsSigned, MaySign, Signatory
<1> HIDE DEF e
<1>6. Signers(c, row[c].script)' = Signers(c, row[c].script) \cup {a}
  BY <1>1, <1>2 DEF Signers
<1>7. \A s : \A d \in Control : d # c => Signers(d, s)' = Signers(d, s)
  BY <1>1, <1>2 DEF Signers
<1>8. signed' = [signed EXCEPT ![c] = signed[c] \cup {a}]
  BY <1>1, <1>3, <1>6, <1>7 DEF signed, Exists
<1>9. UNCHANGED <<standing, two, deployed>>
  BY <1>1 DEF standing, two, deployed, Exists
<1>10. contested' = contested
  <2>1. \A d \in Control : row[d] # NoRow =>
            (<<row[d].script, d>> \in raced' <=> <<row[d].script, d>> \in raced)
    BY <1>1, RacesAreOver
  <2> QED  BY <1>1, <2>1 DEF contested, Uncontested, Exists
<1>11. standing[c] # "NONE"
  BY <1>3, Reads DEF Row, Statuses
<1>12. SignedOff!Sign(c, a)
  BY <1>8, <1>9, <1>10, <1>11 DEF SignedOff!Sign, SignedOff!Proposed
<1> QED
  BY <1>5, <1>12 DEF SignedOff!Next

\* The second transaction of approve() approves, with as many signatures as it takes unless
\* the script is contested, and the other handlers decide, apply and roll back.
LEMMA DecisionsMap ==
    ASSUME TypeOK, TypeOK', Quorum, Quorum', Vetted, Promised, Remembers, Signed,
           NEW r \in Request, finalize_approval(r) \/ reject(r) \/ apply(r) \/ rollback(r)
    PROVE  [SignedOff!Next]_(SignedOff!vars)
<1>0. PICK c \in Control : c = req[r].control
  BY DEF TypeOK, RequestState
<1> DEFINE a == req[r].actor
           now == req[r].now
<1>1. /\ now \in Nat /\ a \in Actor \cup {Nobody} /\ req[r].sha \in Nat
      /\ Exists(c) => row[c] \in Row
  BY DEF TypeOK, RequestState, Exists
<1>2. Signatures' = Signatures
  BY DecisionMild DEF Mild
<1>3. ASSUME row' = row
      PROVE  [SignedOff!Next]_(SignedOff!vars)
  BY <1>2, <1>3, Unmoved
<1>4. ASSUME Exists(c)
      PROVE  /\ standing[c] = row[c].approval_status /\ standing[c] # "NONE"
             /\ two[c] <=> row[c].decision_action = "DUAL_APPROVAL"
             /\ signed[c] = Signers(c, row[c].script)
             /\ deployed[c] = row[c].rollback_status
             /\ contested[c] <=> ~Uncontested(c)
  BY <1>1, <1>4, Reads DEF Row, Statuses
<1>5. CASE finalize_approval(r)
  <2> DEFINE y == [row[c] EXCEPT !.approval_status = "APPROVED", !.approved_by = a,
                                 !.updated_at = now, !.pin = req[r].sha]
  <2>1. row' = row \/ (Exists(c) /\ row' = [row EXCEPT ![c] = y])
    BY <1>0, <1>5 DEF finalize_approval, Safe
  <2>2. Exists(c) => /\ y \in Row /\ y.approval_status = "APPROVED" /\ SameScript(y, row[c])
                     /\ y.rollback_status = row[c].rollback_status
    BY <1>1 DEF Row, Statuses, SameScript
  <2>3. req[r].pc = "finalize" /\ StillHolds(r, req[r])
    BY <1>0, <1>5 DEF finalize_approval, Promised
  <2>4. Uncontested(c) => Countersigned(c, row[c], a)
    BY <1>0, <2>3 DEF StillHolds, Rests, Deciding
  <2>5. a \in Signatory
    BY <2>3 DEF Signed, RequestsSigned, EventsSigned, HasSigned, MaySign, Signatory
  <2> HIDE DEF y
  <2>6. ASSUME Exists(c), row' = [row EXCEPT ![c] = y]
        PROVE  SignedOff!Approve(c, a)
    <3>1. PICK z : z = y
      OBVIOUS
    <3>2. Moves(c, z)
      BY <1>2, <2>2, <2>6, <3>1, OneRow
    <3>3. /\ standing' = [standing EXCEPT ![c] = "APPROVED"]
          /\ UNCHANGED <<two, signed, deployed, contested>>
      BY <2>2, <2>6, <3>1, <3>2, Keeps DEF Moves
    <3>4. SignedOff!Enough(c, a) \/ contested[c]
      BY <1>4, <2>4, <2>6 DEF SignedOff!Enough, Countersigned
    <3> QED
      BY <1>4, <2>6, <3>3, <3>4 DEF SignedOff!Approve, SignedOff!Proposed
  <2> QED  BY <1>3, <2>1, <2>5, <2>6 DEF SignedOff!Next
<1>7. CASE reject(r)
  <2> DEFINE y == [row[c] EXCEPT !.approval_status = "REJECTED", !.approved_by = a,
                                 !.updated_at = now]
  <2>1. row' = row \/ (Exists(c) /\ row' = [row EXCEPT ![c] = y])
    BY <1>0, <1>7 DEF reject
  <2>2. Exists(c) => /\ y \in Row /\ y.approval_status = "REJECTED" /\ SameScript(y, row[c])
                     /\ y.rollback_status = row[c].rollback_status
    BY <1>1 DEF Row, Statuses, SameScript
  <2> HIDE DEF y
  <2>3. ASSUME Exists(c), row' = [row EXCEPT ![c] = y]
        PROVE  SignedOff!Reject(c)
    <3>1. PICK z : z = y
      OBVIOUS
    <3>2. Moves(c, z)
      BY <1>2, <2>2, <2>3, <3>1, OneRow
    <3>3. /\ standing' = [standing EXCEPT ![c] = "REJECTED"]
          /\ UNCHANGED <<two, signed, deployed, contested>>
      BY <2>2, <2>3, <3>1, <3>2, Keeps DEF Moves
    <3> QED
      BY <1>4, <2>3, <3>3 DEF SignedOff!Reject, SignedOff!Proposed
  <2> QED  BY <1>3, <2>1, <2>3 DEF SignedOff!Next
<1>8. CASE apply(r)
  <2> DEFINE y == [row[c] EXCEPT !.applied = TRUE, !.rollback_status = "APPLIED",
                                 !.updated_at = now]
  <2>1. row' = row \/ (Approved(c) /\ row' = [row EXCEPT ![c] = y])
    BY <1>0, <1>8 DEF apply
  <2>2. Exists(c) => /\ y \in Row /\ y.rollback_status = "APPLIED" /\ SameScript(y, row[c])
                     /\ y.approval_status = row[c].approval_status
    BY <1>1 DEF Row, RollbackStatuses, SameScript
  <2> HIDE DEF y
  <2>3. ASSUME Approved(c), row' = [row EXCEPT ![c] = y]
        PROVE  SignedOff!Apply(c)
    <3>0. Exists(c) /\ row[c].approval_status = "APPROVED"
      BY <2>3 DEF Approved
    <3>1. PICK z : z = y
      OBVIOUS
    <3>2. Moves(c, z)
      BY <1>2, <2>2, <2>3, <3>0, <3>1, OneRow
    <3>3. /\ deployed' = [deployed EXCEPT ![c] = "APPLIED"]
          /\ UNCHANGED <<standing, two, signed, contested>>
      BY <2>2, <3>0, <3>1, <3>2, Keeps DEF Moves
    <3> QED
      BY <1>4, <3>0, <3>3 DEF SignedOff!Apply
  <2> QED  BY <1>3, <2>1, <2>3 DEF SignedOff!Next
<1>9. CASE rollback(r)
  <2> DEFINE y == [row[c] EXCEPT !.rollback_status = "ROLLED_BACK", !.updated_at = now]
  <2>1. row' = row \/ (Applied(c) /\ row' = [row EXCEPT ![c] = y])
    BY <1>0, <1>9 DEF rollback
  <2>2. Exists(c) => /\ y \in Row /\ y.rollback_status = "ROLLED_BACK" /\ SameScript(y, row[c])
                     /\ y.approval_status = row[c].approval_status
    BY <1>1 DEF Row, RollbackStatuses, SameScript
  <2> HIDE DEF y
  <2>3. ASSUME Applied(c), row' = [row EXCEPT ![c] = y]
        PROVE  SignedOff!RollBack(c)
    <3>0. Exists(c) /\ row[c].rollback_status # "NONE"
      BY <2>3 DEF Applied, Vetted
    <3>1. PICK z : z = y
      OBVIOUS
    <3>2. Moves(c, z)
      BY <1>2, <2>2, <2>3, <3>0, <3>1, OneRow
    <3>3. /\ deployed' = [deployed EXCEPT ![c] = "ROLLED_BACK"]
          /\ UNCHANGED <<standing, two, signed, contested>>
      BY <2>2, <3>0, <3>1, <3>2, Keeps DEF Moves
    <3> QED
      BY <1>4, <3>0, <3>3 DEF SignedOff!RollBack
  <2> QED  BY <1>3, <2>1, <2>3 DEF SignedOff!Next
<1> QED
  BY <1>5, <1>7, <1>8, <1>9

\* Every other step leaves the sign-off alone, but for a re-evaluation, which withdraws it.
LEMMA StepsMap ==
    ASSUME TypeOK, TypeOK', Quorum, Quorum', ScriptsUnsigned, Promised, Vetted, Signed,
           [HNext]_<<vars, raced>>
    PROVE  [SignedOff!Next]_(SignedOff!vars)
<1>0. Remembers
  <2>1. UNCHANGED <<vars, raced>> => Overlaps' = Overlaps
    BY DEF vars, Overlaps
  <2> QED  BY <2>1 DEF HNext, Remembers, Promised
<1>1. ASSUME UNCHANGED <<row, ledger>>
      PROVE  [SignedOff!Next]_(SignedOff!vars)
  BY <1>0, <1>1, Unmoved DEF Signatures
<1>2. CASE UNCHANGED <<vars, raced>>
  BY <1>1, <1>2 DEF vars
<1>3. CASE Environment
  <2>1. ASSUME NEW found \in SUBSET Control, save_findings(found)
        PROVE  SignedOff!Withdraw
    <3>1. \A c \in Control : row'[c] = NoRow
      BY <2>1 DEF save_findings
    <3> QED
      BY <3>1 DEF SignedOff!Withdraw, standing, two, signed, deployed, contested, Exists
  <2>2. \/ UNCHANGED <<row, ledger>>
        \/ \E found \in SUBSET Control : save_findings(found)
    BY <1>3 DEF Environment, generate, generate_for_run, approve, mark_applied,
                trigger_rollback, Arrive, crash
  <2> QED  BY <1>1, <2>1, <2>2 DEF SignedOff!Next
<1>4. ASSUME NEW r \in Request, Step(r)
      PROVE  [SignedOff!Next]_(SignedOff!vars)
  <2>1. \/ UNCHANGED <<row, ledger>>
        \/ save_proposal(r) \/ approve_record(r)
        \/ finalize_approval(r) \/ reject(r) \/ apply(r) \/ rollback(r)
    BY <1>4 DEF Step, build, build_fails, approve_lock, get_proposal, pin_baseline
  <2> QED  BY <1>0, <1>1, <2>1, SavesPropose, RecordsSign, DecisionsMap
<1> QED
  BY <1>2, <1>3, <1>4 DEF HNext, Next

\* However many requests overlap, the table and the ledger are a sign-off: a signature is
\* of the script that is proposed when it is given, an approval has as many of them as its
\* decision asks for unless the script was saved under somebody's decision, nothing is
\* applied that is not approved at that moment, and a re-evaluation withdraws everything.
THEOREM SignoffsHold == HSpec => ImplementsSignoff
<1>1. HInit => SignedOff!Init
  BY DEF HInit, Init, SignedOff!Init, standing, two, signed, deployed, contested, Exists
<1>2. /\ TypeOK /\ TypeOK' /\ Signed /\ Quorum /\ Quorum' /\ ScriptsUnsigned /\ Promised
      /\ Vetted /\ [HNext]_<<vars, raced>>
      => [SignedOff!Next]_(SignedOff!vars)
  BY StepsMap
<1> QED
  BY <1>1, <1>2, HistoryIsSpec, TypesAndSignatures, QuorumHolds, UnsignedHolds, PromisedHolds,
     AllVetted, PTL
     DEF HSpec, ImplementsSignoff, SignedOff!Spec

=============================================================================

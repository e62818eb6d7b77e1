-------------------------- MODULE RemediationProofs --------------------------
(***************************************************************************)
(* What holds of Remediation for every set of controls, people, requests   *)
(* and findings, and any number of requests in flight.                     *)
(***************************************************************************)
EXTENDS Remediation, TLAPS

-----------------------------------------------------------------------------
(* Types of what the actions build.                                        *)

\* A request that has not arrived is well-typed.
LEMMA BlankType == Blank \in RequestState
<1>1. SomeFacts \in Facts
  BY ConstantsOK DEF SomeFacts
<1>2. SomeControl \in Control
  BY ConstantsOK DEF SomeControl
<1> QED
  BY <1>1, <1>2 DEF Blank, RequestState, DecisionActions, Outcomes, Hooks

\* So is one that has ended.
LEMMA FinishType ==
    ASSUME req \in [Request -> RequestState], NEW r \in Request,
           NEW outcome \in Outcomes, NEW hook \in Hooks
    PROVE  /\ Finish(r, outcome, hook) \in RequestState
           /\ [Finish(r, outcome, hook) EXCEPT !.pc = "crashed"] \in RequestState
BY BlankType DEF Finish, RequestState, Ended

\* A request stays well-typed when any of the fields it works with changes.
LEMMA FieldType ==
    ASSUME NEW q \in RequestState
    PROVE  /\ \A x \in Waiting : [q EXCEPT !.pc = x] \in RequestState
           /\ \A x \in SUBSET Control : [q EXCEPT !.todo = x] \in RequestState
           /\ \A x \in Control : [q EXCEPT !.control = x] \in RequestState
           /\ \A x \in BOOLEAN : [q EXCEPT !.flag = x] \in RequestState
           /\ \A x \in Facts : [q EXCEPT !.facts = x] \in RequestState
           /\ \A x \in Nat : [q EXCEPT !.now = x] \in RequestState
           /\ \A x \in Request : [q EXCEPT !.script = x] \in RequestState
           /\ \A x \in DecisionActions : [q EXCEPT !.action = x] \in RequestState
           /\ \A x \in SUBSET Actor : [q EXCEPT !.prior = x] \in RequestState
           /\ \A x \in Nat : [q EXCEPT !.sha = x] \in RequestState
BY DEF RequestState

\* And one that goes on to its next control.
LEMMA NextControlType ==
    ASSUME req \in [Request -> RequestState], NEW r \in Request,
           NEW c \in Control, NEW saved \in BOOLEAN
    PROVE  NextControl(r, c, saved) \in RequestState
<1> DEFINE rest == req[r].todo \ {c}
<1>1. \A b \in BOOLEAN :
          [req[r] EXCEPT !.pc = "build", !.todo = rest, !.flag = b] \in RequestState
  <2>1. "build" \in Waiting /\ rest \in SUBSET Control /\ req[r] \in RequestState
    BY DEF RequestState, Waiting
  <2> HIDE DEF rest
  <2> QED  BY <2>1, FieldType
<1>3. (saved \/ req[r].flag) \in BOOLEAN
  BY Zenon
<1>2. \A o \in {"ok", "error"}, h \in {"REMEDIATION_PROPOSED", "none"} :
          Finish(r, o, h) \in RequestState
  BY FinishType DEF Outcomes, Hooks
<1> QED
  BY <1>1, <1>2, <1>3 DEF NextControl

\* The decision table decides: the rule it looks up is one of its rules.
LEMMA Decides ==
    ASSUME NEW a \in Int, NEW n \in Int, NEW s \in Severities
    PROVE  /\ decide(a, n, s).action \in DecisionActions /\ decide(a, n, s).risk \in Risks
           /\ decide(a, n, s).blast_radius_count = n
<1> DEFINE risk == risk_for_severity(s)
           b == IF a = None THEN 0 ELSE a
           M(i) == matches(Rules[i].when, b, n, risk)
           first == IF M(1) THEN 1 ELSE IF M(2) THEN 2 ELSE IF M(3) THEN 3
                    ELSE IF M(4) THEN 4 ELSE IF M(5) THEN 5 ELSE IF M(6) THEN 6 ELSE 7
<1>1. DOMAIN Rules = 1 .. 7 /\ \A i \in 1 .. 7 : Rules[i].action \in DecisionActions
  BY DEF Rules, DecisionActions
<1>2. M(7)
  BY DEF matches, Rules
<1>3. FirstMatch(b, n, risk) = CHOOSE i \in 1 .. 7 : M(i) /\ \A j \in 1 .. (i - 1) : ~M(j)
  BY <1>1 DEF FirstMatch
<1>4. /\ decide(a, n, s).action = Rules[FirstMatch(b, n, risk)].action
      /\ decide(a, n, s).risk = risk /\ decide(a, n, s).blast_radius_count = n
  BY DEF decide
<1>5. risk \in Risks
  BY DEF risk_for_severity, Risks
<1> HIDE DEF M, b, risk
<1>6. first \in 1 .. 7 /\ M(first) /\ \A j \in 1 .. (first - 1) : ~M(j)
  BY <1>2
<1>7. FirstMatch(b, n, risk) \in 1 .. 7
  <2> HIDE DEF first
  <2> QED  BY <1>3, <1>6
<1> QED  BY <1>1, <1>4, <1>5, <1>7

\* A proposal built from the facts of a control is a row, pending and not applied.
LEMMA ProposalType ==
    ASSUME NEW r \in Request, NEW f \in Facts, NEW now \in Nat
    PROVE  /\ build_proposal(r, f, now) \in Row
           /\ build_proposal(r, f, now).approval_status = "PENDING"
           /\ build_proposal(r, f, now).applied = FALSE
           /\ build_proposal(r, f, now).pin = 0
           /\ build_proposal(r, f, now).preflight_status = "SAFE"
                => build_proposal(r, f, now).source = "template"
<1> DEFINE n == blast_radius_count(f.blast_radius)
           d == decide(f.agreement, n, f.severity)
<1>1. /\ f.template \in BOOLEAN /\ f.flagged \in BOOLEAN /\ f.agreement \in Int
      /\ f.severity \in Severities /\ n \in Int
  BY ConstantsOK DEF Fact, blast_radius_count, UNKNOWN_BLAST_RADIUS
<1>2. d.action \in DecisionActions /\ d.risk \in Risks /\ d.blast_radius_count \in Int
  <2> HIDE DEF n
  <2> QED  BY <1>1, Decides
<1>3. preflight(f.flagged) \in Preflights
  BY <1>1, ConstantsOK DEF preflight, Preflights
<1> HIDE DEF d
<1> QED
  BY <1>1, <1>2, <1>3 DEF build_proposal, Row, Statuses, RollbackStatuses, Preflights, d

\* An event of the ledger's types is an event.
LEMMA EventType ==
    ASSUME NEW type \in EventTypes, NEW c \in Control, NEW a \in Actor \cup {Nobody},
           NEW at \in Nat, NEW script \in Request \cup {Nobody}, NEW restore \in Nat
    PROVE  Ev(type, c, a, at, script, restore) \in Event
BY DEF Ev, Event

-----------------------------------------------------------------------------
(* Inductive invariants.                                                   *)

MaySign(a) ==
    /\ a \in Actor
    /\ ActorType[a] = "human"
    /\ Role[a] \in {"admin", "operator"}

HasSigned(c, a) ==
    \E e \in ledger : e.event_type = "APPROVED" /\ e.control = c /\ e.actor = a

\* A request carries the actor of the call; past the permission check that is someone
\* who may sign, and past the ledger write someone who has.
RequestsSigned ==
    \A r \in Request :
        /\ req[r].pc \in Waiting \ {"build", "save"} => req[r].actor \in Actor
        /\ req[r].pc = "record" => MaySign(req[r].actor)
        /\ req[r].pc \in {"pin", "finalize"} => HasSigned(req[r].control, req[r].actor)

EventsSigned == \A e \in ledger : e.event_type = "APPROVED" => MaySign(e.actor)

RowsSigned == \A c \in Control : Approved(c) => HasSigned(c, row[c].approved_by)

\* The strengthening of ApproverHasSigned; TypeOK needs it too, for the signers a
\* request has read.
Signed == RequestsSigned /\ EventsSigned /\ RowsSigned

-----------------------------------------------------------------------------
(* Type correctness.                                                       *)

\* A request arrives in a well-typed state.
LEMMA ArriveType ==
    ASSUME TypeOK, NEW r \in Request, NEW e, NEW state \in RequestState,
           Arrive(r, e, state), clock' \in Nat
    PROVE  TypeOK'
BY DEF TypeOK, Arrive

\* What a request is on arrival.
LEMMA ArrivingType ==
    /\ \A t \in SUBSET Control, c \in Control :
          /\ [Blank EXCEPT !.pc = "build", !.control = c, !.todo = t] \in RequestState
          /\ [Blank EXCEPT !.pc = "build", !.bulk = TRUE, !.todo = t] \in RequestState
    /\ \A c \in Control, a \in Actor, b \in BOOLEAN, now \in Nat :
          /\ \A pc \in {"approve", "reject", "apply"} :
                [Blank EXCEPT !.pc = pc, !.control = c, !.actor = a, !.now = now]
                   \in RequestState
          /\ [Blank EXCEPT !.pc = "rollback", !.control = c, !.actor = a, !.flag = b,
                           !.now = now] \in RequestState
<1>1. Blank \in RequestState
  BY BlankType
<1>2. ASSUME NEW t \in SUBSET Control, NEW c \in Control
      PROVE  /\ [Blank EXCEPT !.pc = "build", !.control = c, !.todo = t] \in RequestState
             /\ [Blank EXCEPT !.pc = "build", !.bulk = TRUE, !.todo = t] \in RequestState
  BY <1>1 DEF RequestState, Waiting
<1>3. ASSUME NEW c \in Control, NEW a \in Actor, NEW b \in BOOLEAN, NEW now \in Nat,
             NEW pc \in {"approve", "reject", "apply"}
      PROVE  [Blank EXCEPT !.pc = pc, !.control = c, !.actor = a, !.now = now]
                \in RequestState
  BY <1>1 DEF RequestState, Waiting
<1>4. ASSUME NEW c \in Control, NEW a \in Actor, NEW b \in BOOLEAN, NEW now \in Nat
      PROVE  [Blank EXCEPT !.pc = "rollback", !.control = c, !.actor = a, !.flag = b,
                           !.now = now] \in RequestState
  BY <1>1 DEF RequestState, Waiting
<1> QED
  BY <1>2, <1>3, <1>4

\* Every kind of arrival keeps the types.
LEMMA ArrivalsType ==
    ASSUME TypeOK, NEW r \in Request, NEW c \in Control
    PROVE  /\ generate(r, c) => TypeOK'
           /\ generate_for_run(r) => TypeOK'
           /\ \A a \in Actor, b \in BOOLEAN : approve(r, c, a, b) => TypeOK'
           /\ \A a \in Actor : mark_applied(r, c, a) => TypeOK'
           /\ \A a \in Actor, b \in BOOLEAN : trigger_rollback(r, c, a, b) => TypeOK'
<1>1. clock \in Nat /\ clock + 1 \in Nat /\ finding \in SUBSET Control /\ {c} \in SUBSET Control
  BY DEF TypeOK
<1>2. generate(r, c) => TypeOK'
  BY <1>1, ArrivingType, ArriveType DEF generate
<1>3. generate_for_run(r) => TypeOK'
  BY <1>1, ArrivingType, ArriveType DEF generate_for_run
<1>4. ASSUME NEW a \in Actor, NEW b \in BOOLEAN
      PROVE  /\ approve(r, c, a, b) => TypeOK'
             /\ mark_applied(r, c, a) => TypeOK'
             /\ trigger_rollback(r, c, a, b) => TypeOK'
  <2>1. approve(r, c, a, b) => TypeOK'
    BY <1>1, ArrivingType, ArriveType DEF approve
  <2>2. mark_applied(r, c, a) => TypeOK'
    BY <1>1, ArrivingType, ArriveType DEF mark_applied
  <2>3. trigger_rollback(r, c, a, b) => TypeOK'
    BY <1>1, ArrivingType, ArriveType DEF trigger_rollback
  <2> QED
    BY <2>1, <2>2, <2>3
<1> QED
  BY <1>2, <1>3, <1>4

\* Generation keeps the types.
LEMMA GenerationType ==
    ASSUME TypeOK, NEW r \in Request, NEW c \in Control, NEW f \in Facts, NEW t \in BOOLEAN
    PROVE  /\ build(r, c, f) => TypeOK'
           /\ build_fails(r, c, t) => TypeOK'
           /\ save_proposal(r) => TypeOK'
<1>1. req[r] \in RequestState /\ clock \in Nat /\ clock + 1 \in Nat /\ clock + 2 \in Nat
  BY DEF TypeOK
<1>2. ASSUME build(r, c, f)
      PROVE  TypeOK'
  <2> DEFINE q == [req[r] EXCEPT !.pc = "save", !.control = c, !.facts = f, !.now = clock]
  <2>1. q \in RequestState
    BY <1>1 DEF RequestState, Waiting
  <2>2. req' = [req EXCEPT ![r] = q]
    BY <1>2, <1>1 DEF build, TypeOK
  <2>3. req' \in [Request -> RequestState]
    <3> HIDE DEF q
    <3> QED  BY <2>1, <2>2 DEF TypeOK
  <2> QED
    BY <1>1, <1>2, <2>3 DEF build, TypeOK
<1>3. ASSUME build_fails(r, c, t)
      PROVE  TypeOK'
  <2>1. NextControl(r, c, FALSE) \in RequestState /\ Finish(r, "error", "none") \in RequestState
    BY NextControlType, FinishType DEF TypeOK, Outcomes, Hooks
  <2> QED
    BY <1>3, <2>1 DEF build_fails, TypeOK
<1>4. ASSUME save_proposal(r)
      PROVE  TypeOK'
  <2> DEFINE d == req[r].control
             new == build_proposal(r, req[r].facts, req[r].now)
             kept == upsert(row[d], new)
  <2>1. d \in Control /\ new \in Row
    BY <1>1, ProposalType DEF RequestState
  <2>2. /\ NextControl(r, d, TRUE) \in RequestState
        /\ Finish(r, "error", "none") \in RequestState
    BY <2>1, NextControlType, FinishType DEF TypeOK, Outcomes, Hooks
  <2>3. Exists(d) => kept \in Row
    <3> HIDE DEF new
    <3> QED  BY <2>1 DEF TypeOK, Exists, upsert, Row
  <2>4. /\ Ev("REMEDIATION_PROPOSED", d, Nobody, clock, r, 0) \in Event
        /\ Ev("DECISION_MADE", d, Nobody, clock + 1, r, 0) \in Event
    BY <1>1, <2>1, EventType DEF EventTypes
  <2>5. row' \in [Control -> Row \cup {NoRow}]
    BY <1>4, <2>1, <2>3 DEF save_proposal, TypeOK
  <2>6. ledger' \subseteq Event /\ clock' \in Nat
    BY <1>1, <1>4, <2>4 DEF save_proposal, TypeOK
  <2>7. req' \in [Request -> RequestState]
    BY <1>4, <2>2 DEF save_proposal, TypeOK
  <2> QED
    BY <1>4, <2>5, <2>6, <2>7 DEF save_proposal, TypeOK
<1> QED
  BY <1>2, <1>3, <1>4

\* The signers the quorum query finds are people.
LEMMA PriorActorsType ==
    ASSUME TypeOK, Signed, NEW c \in Control
    PROVE  prior_actors(c) \in SUBSET Actor
BY DEF Signed, EventsSigned, MaySign, prior_actors

\* Approval keeps the types.
LEMMA ApprovalType ==
    ASSUME TypeOK, Signed, NEW r \in Request
    PROVE  /\ approve_lock(r) => TypeOK'
           /\ approve_record(r) => TypeOK'
           /\ get_proposal(r) => TypeOK'
           /\ pin_baseline(r) => TypeOK'
           /\ finalize_approval(r) => TypeOK'
           /\ reject(r) => TypeOK'
<1> DEFINE c == req[r].control
           a == req[r].actor
<1>1. /\ req[r] \in RequestState /\ c \in Control /\ clock \in Nat /\ clock + 1 \in Nat
      /\ evals \in Nat /\ req[r].sha \in Nat /\ req[r].now \in Nat
      /\ req[r].script \in Request \cup {Nobody} /\ a \in Actor \cup {Nobody}
  BY DEF TypeOK, RequestState
<1>2. Exists(c) => row[c] \in Row
  BY <1>1 DEF TypeOK, Exists
<1>3. \A o \in Outcomes, h \in Hooks : Finish(r, o, h) \in RequestState
  BY FinishType DEF TypeOK
<1>4. ASSUME approve_lock(r)
      PROVE  TypeOK'
  <2> DEFINE q == [req[r] EXCEPT !.pc = "record", !.script = row[c].script,
                                 !.action = row[c].decision_action,
                                 !.prior = prior_actors(c)]
  <2>1. Exists(c) => q \in RequestState
    <3>1. prior_actors(c) \in SUBSET Actor
      BY <1>1, PriorActorsType
    <3>2. Exists(c) => row[c].script \in Request /\ row[c].decision_action \in DecisionActions
      BY <1>2 DEF Row
    <3> HIDE DEF c
    <3> QED  BY <1>1, <3>1, <3>2, FieldType DEF Waiting
  <2>2. \/ req' = [req EXCEPT ![r] = Finish(r, "conflict", "none")]
        \/ req' = [req EXCEPT ![r] = Finish(r, "denied", "none")]
        \/ Exists(c) /\ req' = [req EXCEPT ![r] = q]
    BY <1>1, <1>4 DEF approve_lock, Safe, TypeOK
  <2>3. req' \in [Request -> RequestState]
    <3> HIDE DEF q
    <3> QED  BY <1>3, <2>1, <2>2 DEF TypeOK, Outcomes, Hooks
  <2>4. lock' \in [Control -> Request \cup {Nobody}]
    BY <1>1, <1>4 DEF approve_lock, TypeOK
  <2> QED
    BY <1>4, <2>3, <2>4 DEF approve_lock, TypeOK
<1>5. ASSUME approve_record(r)
      PROVE  TypeOK'
  <2>1. Ev("APPROVED", c, a, clock, req[r].script, 0) \in Event
    BY <1>1, EventType DEF EventTypes
  <2>2. \A pc \in {"pin", "get_proposal"} : [req[r] EXCEPT !.pc = pc] \in RequestState
    BY <1>1, FieldType DEF Waiting
  <2>3. req' \in [Request -> RequestState]
    BY <1>5, <2>2 DEF approve_record, TypeOK
  <2> QED
    BY <1>1, <1>5, <2>1, <2>3 DEF approve_record, TypeOK
<1>6. ASSUME get_proposal(r)
      PROVE  TypeOK'
  <2>1. req' \in [Request -> RequestState]
    BY <1>3, <1>6 DEF get_proposal, TypeOK, Outcomes, Hooks
  <2> QED
    BY <1>6, <2>1 DEF get_proposal, TypeOK
<1>7. ASSUME pin_baseline(r)
      PROVE  TypeOK'
  <2> DEFINE q == [req[r] EXCEPT !.pc = "finalize", !.sha = evals]
  <2>1. q \in RequestState
    BY <1>1 DEF RequestState, Waiting
  <2>2. req' = [req EXCEPT ![r] = q]
    BY <1>7 DEF pin_baseline, TypeOK, latest_baseline
  <2>3. req' \in [Request -> RequestState]
    <3> HIDE DEF q
    <3> QED  BY <2>1, <2>2 DEF TypeOK
  <2> QED
    BY <1>7, <2>3 DEF pin_baseline, TypeOK
<1>8. ASSUME finalize_approval(r)
      PROVE  TypeOK'
  <2>1. req' \in [Request -> RequestState]
    BY <1>3, <1>8 DEF finalize_approval, TypeOK, Outcomes, Hooks
  <2>2. Exists(c) => [row[c] EXCEPT !.approval_status = "APPROVED", !.approved_by = a,
                                    !.updated_at = req[r].now, !.pin = req[r].sha] \in Row
    BY <1>1, <1>2 DEF Row, Statuses
  <2>3. row' \in [Control -> Row \cup {NoRow}]
    BY <1>8, <2>2 DEF finalize_approval, TypeOK, Safe
  <2> QED
    BY <1>8, <2>1, <2>3 DEF finalize_approval, TypeOK
<1>9. ASSUME reject(r)
      PROVE  TypeOK'
  <2>1. req' \in [Request -> RequestState]
    BY <1>3, <1>9 DEF reject, TypeOK, Outcomes, Hooks
  <2>2. Exists(c) => [row[c] EXCEPT !.approval_status = "REJECTED", !.approved_by = a,
                                    !.updated_at = req[r].now] \in Row
    BY <1>1, <1>2 DEF Row, Statuses
  <2>3. row' \in [Control -> Row \cup {NoRow}]
    BY <1>9, <2>2 DEF reject, TypeOK
  <2>4. Exists(c) => Ev("REJECTED", c, a, clock, row[c].script, 0) \in Event
    BY <1>1, <1>2, EventType DEF Row, EventTypes
  <2>5. ledger' \subseteq Event /\ clock' \in Nat
    BY <1>1, <1>9, <2>4 DEF reject, TypeOK
  <2> QED
    BY <1>9, <2>1, <2>3, <2>5 DEF reject, TypeOK
<1> QED
  BY <1>4, <1>5, <1>6, <1>7, <1>8, <1>9

\* Applying, rolling back and crashing keep the types.
LEMMA RestType ==
    ASSUME TypeOK, NEW r \in Request
    PROVE  /\ apply(r) => TypeOK'
           /\ rollback(r) => TypeOK'
           /\ crash(r) => TypeOK'
<1> DEFINE c == req[r].control
           a == req[r].actor
<1>1. /\ req[r] \in RequestState /\ c \in Control /\ clock \in Nat /\ clock + 1 \in Nat
      /\ clock + 2 \in Nat /\ evals + 1 \in Nat /\ req[r].now \in Nat
      /\ a \in Actor \cup {Nobody}
  BY DEF TypeOK, RequestState
<1>2. Exists(c) => row[c] \in Row
  BY <1>1 DEF TypeOK, Exists
<1>3. \A o \in Outcomes, h \in Hooks : Finish(r, o, h) \in RequestState
  BY FinishType DEF TypeOK
<1>4. ASSUME apply(r)
      PROVE  TypeOK'
  <2>1. req' \in [Request -> RequestState]
    BY <1>3, <1>4 DEF apply, TypeOK, Outcomes, Hooks
  <2>2. Exists(c) => [row[c] EXCEPT !.applied = TRUE, !.rollback_status = "APPLIED",
                                    !.updated_at = req[r].now] \in Row
    BY <1>1, <1>2 DEF Row, RollbackStatuses
  <2>3. row' \in [Control -> Row \cup {NoRow}]
    BY <1>4, <2>2 DEF apply, Approved, TypeOK
  <2>4. Exists(c) => Ev("APPLIED", c, a, clock, row[c].script, 0) \in Event
    BY <1>1, <1>2, EventType DEF Row, EventTypes
  <2>5. ledger' \subseteq Event /\ clock' \in Nat
    BY <1>1, <1>4, <2>4 DEF apply, Approved, TypeOK
  <2> QED
    BY <1>4, <2>1, <2>3, <2>5 DEF apply, TypeOK
<1>5. ASSUME rollback(r)
      PROVE  TypeOK'
  <2>1. req' \in [Request -> RequestState]
    BY <1>3, <1>5 DEF rollback, TypeOK, Outcomes, Hooks
  <2>2. Exists(c) => [row[c] EXCEPT !.rollback_status = "ROLLED_BACK",
                                    !.updated_at = req[r].now] \in Row
    BY <1>1, <1>2 DEF Row, RollbackStatuses
  <2>3. row' \in [Control -> Row \cup {NoRow}]
    BY <1>5, <2>2 DEF rollback, Applied, TypeOK
  <2>4. /\ Ev("VERIFICATION_FAILED", c, a, clock, Nobody, 0) \in Event
        /\ Exists(c) => Ev("ROLLED_BACK", c, a, clock + 1, row[c].script, row[c].pin) \in Event
    BY <1>1, <1>2, EventType DEF Row, EventTypes
  <2>5. ledger' \subseteq Event /\ clock' \in Nat
    BY <1>1, <1>5, <2>4 DEF rollback, Applied, TypeOK
  <2> QED
    BY <1>5, <2>1, <2>3, <2>5 DEF rollback, TypeOK
<1>6. ASSUME crash(r)
      PROVE  TypeOK'
  <2>1. [Finish(r, "none", "none") EXCEPT !.pc = "crashed"] \in RequestState
    BY FinishType DEF TypeOK, Outcomes, Hooks
  <2> QED
    BY <1>6, <2>1 DEF crash, releases, TypeOK
<1> QED
  BY <1>4, <1>5, <1>6

\* So does a re-evaluation.
LEMMA EvaluationType ==
    ASSUME TypeOK, NEW found \in SUBSET Control, save_findings(found)
    PROVE  TypeOK'
<1>1. \A c \in Control : Ev("VIOLATION_DETECTED", c, Nobody, clock, Nobody, 0) \in Event
  BY EventType DEF EventTypes, TypeOK
<1>2. ledger' \subseteq Event
  BY <1>1 DEF save_findings, TypeOK
<1> QED
  BY <1>2 DEF save_findings, TypeOK

-----------------------------------------------------------------------------
(* Signatures.                                                             *)

\* A step of one request keeps Signed if what the request becomes, the events it
\* adds and the approvals it leaves are all accounted for.
LEMMA SignedKept ==
    ASSUME TypeOK, Signed, NEW r \in Request, NEW q,
           req' = [req EXCEPT ![r] = q],
           ledger \subseteq ledger',
           \A e \in ledger' \ ledger : e.event_type = "APPROVED" => MaySign(e.actor),
           q.pc \in Waiting \ {"build", "save"} => q.actor \in Actor,
           q.pc = "record" => MaySign(q.actor),
           q.pc \in {"pin", "finalize"} =>
               \E e \in ledger' : /\ e.event_type = "APPROVED"
                                  /\ e.control = q.control /\ e.actor = q.actor,
           RowsSigned'
    PROVE  Signed'
<1>1. \A s \in Request : s # r => req'[s] = req[s]
  BY DEF TypeOK
<1>2. req'[r] = q
  BY DEF TypeOK
<1>3. RequestsSigned'
  <2> SUFFICES ASSUME NEW s \in Request
               PROVE  (/\ req[s].pc \in Waiting \ {"build", "save"} => req[s].actor \in Actor
                       /\ req[s].pc = "record" => MaySign(req[s].actor)
                       /\ req[s].pc \in {"pin", "finalize"} =>
                            HasSigned(req[s].control, req[s].actor))'
    BY DEF RequestsSigned
  <2>1. CASE s = r
    BY <1>2, <2>1 DEF HasSigned, MaySign
  <2>2. CASE s # r
    BY <1>1, <2>2 DEF Signed, RequestsSigned, HasSigned, MaySign
  <2> QED  BY <2>1, <2>2
<1>4. EventsSigned'
  BY DEF Signed, EventsSigned, MaySign
<1> QED
  BY <1>3, <1>4 DEF Signed

\* Rows keep their signatures when an action leaves each as approved as it was, by
\* the same person, or not approved at all.
LEMMA RowsKept ==
    ASSUME Signed, ledger \subseteq ledger',
           \A c \in Control : Approved(c)' =>
               Approved(c) /\ row'[c].approved_by = row[c].approved_by
    PROVE  RowsSigned'
BY DEF Signed, RowsSigned, HasSigned

\* Nothing a request turns into on arrival has signed anything yet.
LEMMA ArrivalsSigned ==
    ASSUME TypeOK, Signed, NEW r \in Request, NEW c \in Control
    PROVE  /\ generate(r, c) => Signed'
           /\ generate_for_run(r) => Signed'
           /\ \A a \in Actor, b \in BOOLEAN : approve(r, c, a, b) => Signed'
           /\ \A a \in Actor : mark_applied(r, c, a) => Signed'
           /\ \A a \in Actor, b \in BOOLEAN : trigger_rollback(r, c, a, b) => Signed'
<1>1. ASSUME NEW e, NEW q, Arrive(r, e, q), q.actor \in Actor \/ q.pc = "build",
             q.pc \notin {"record", "pin", "finalize"}
      PROVE  Signed'
  <2>1. ledger' = ledger /\ req' = [req EXCEPT ![r] = q] /\ row' = row
    BY <1>1 DEF Arrive
  <2>2. RowsSigned'
    BY <2>1, RowsKept DEF Approved, Exists
  <2> QED
    BY <1>1, <2>1, <2>2, SignedKept
<1>2. generate(r, c) => Signed'
  BY <1>1 DEF generate, Blank
<1>3. generate_for_run(r) => Signed'
  BY <1>1 DEF generate_for_run, Blank
<1>4. \A a \in Actor, b \in BOOLEAN : approve(r, c, a, b) => Signed'
  BY <1>1 DEF approve, Blank
<1>5. \A a \in Actor : mark_applied(r, c, a) => Signed'
  BY <1>1 DEF mark_applied, Blank
<1>6. \A a \in Actor, b \in BOOLEAN : trigger_rollback(r, c, a, b) => Signed'
  BY <1>1 DEF trigger_rollback, Blank
<1> QED
  BY <1>2, <1>3, <1>4, <1>5, <1>6

\* Generation leaves no approval behind it.
LEMMA GenerationSigned ==
    ASSUME TypeOK, Signed, NEW r \in Request, NEW c \in Control, NEW f \in Facts,
           NEW t \in BOOLEAN
    PROVE  /\ build(r, c, f) => Signed'
           /\ build_fails(r, c, t) => Signed'
           /\ save_proposal(r) => Signed'
<1>1. \A d, saved : NextControl(r, d, saved).pc \in {"build", "done"}
  BY DEF NextControl, Finish, Blank, TypeOK, RequestState
<1>2. \A o, h : Finish(r, o, h).pc = "done"
  BY DEF Finish, Blank
<1>3. ASSUME NEW q, req' = [req EXCEPT ![r] = q], q.pc \in {"build", "save", "done"},
             ledger \subseteq ledger', RowsSigned',
             \A e \in ledger' \ ledger : e.event_type # "APPROVED"
      PROVE  Signed'
  BY <1>3, SignedKept DEF Waiting
<1>4. ASSUME build(r, c, f)
      PROVE  Signed'
  <2> DEFINE q == [req[r] EXCEPT !.pc = "save", !.control = c, !.facts = f, !.now = clock]
  <2>1. q.pc = "save" /\ req' = [req EXCEPT ![r] = q]
    BY <1>4 DEF build, TypeOK, RequestState
  <2>2. ledger' = ledger /\ RowsSigned'
    BY <1>4, RowsKept DEF build, Approved, Exists
  <2> HIDE DEF q
  <2> QED
    BY <2>1, <2>2, <1>3
<1>5. ASSUME build_fails(r, c, t)
      PROVE  Signed'
  <2>1. ledger' = ledger /\ RowsSigned'
    BY <1>5, RowsKept DEF build_fails, Approved, Exists
  <2>2. \/ req' = [req EXCEPT ![r] = NextControl(r, c, FALSE)]
        \/ req' = [req EXCEPT ![r] = Finish(r, "error", "none")]
    BY <1>5 DEF build_fails
  <2> QED
    BY <2>1, <2>2, <1>1, <1>2, <1>3
<1>6. ASSUME save_proposal(r)
      PROVE  Signed'
  <2> DEFINE d == req[r].control
             p == build_proposal(r, req[r].facts, req[r].now)
  <2>1. d \in Control /\ p \in Row /\ p.approval_status = "PENDING"
    <3>1. d \in Control /\ req[r].facts \in Facts /\ req[r].now \in Nat
      BY DEF TypeOK, RequestState
    <3> QED  BY <3>1, ProposalType
  <2>2. upsert(row[d], p).approval_status = "PENDING"
    <3> HIDE DEF p
    <3> QED  BY <2>1 DEF upsert, Row
  <2>3. \/ row' = row
        \/ row' = [row EXCEPT ![d] = p]
        \/ row' = [row EXCEPT ![d] = upsert(row[d], p)]
    BY <1>6 DEF save_proposal
  <2>4. \A x \in Control : Approved(x)' =>
             Approved(x) /\ row'[x].approved_by = row[x].approved_by
    <3> HIDE DEF p
    <3> QED  BY <2>1, <2>2, <2>3 DEF TypeOK, Approved, Exists
  <2>5. ledger \subseteq ledger'
    BY <1>6 DEF save_proposal
  <2>6. RowsSigned'
    BY <2>4, <2>5, RowsKept
  <2>7. \A e \in ledger' \ ledger : e.event_type # "APPROVED"
    <3> DEFINE e1 == Ev("REMEDIATION_PROPOSED", d, Nobody, clock, r, 0)
               e2 == Ev("DECISION_MADE", d, Nobody, clock + 1, r, 0)
    <3>1. e1.event_type # "APPROVED" /\ e2.event_type # "APPROVED"
      BY DEF Ev
    <3>2. ledger' \ ledger \subseteq {e1, e2}
      <4>1. ledger' = ledger \/ ledger' = ledger \cup {e1, e2}
        BY <1>6 DEF save_proposal
      <4> QED  BY <4>1
    <3> QED  BY <3>1, <3>2
  <2>8. \/ req' = [req EXCEPT ![r] = NextControl(r, d, TRUE)]
        \/ req' = [req EXCEPT ![r] = Finish(r, "error", "none")]
    BY <1>6 DEF save_proposal
  <2> QED
    BY <2>5, <2>6, <2>7, <2>8, <1>1, <1>2, <1>3
<1> QED
  BY <1>4, <1>5, <1>6

\* Approval: the permission check comes before the signature, the signature before
\* the approval.
LEMMA ApprovalSigned ==
    ASSUME TypeOK, Signed, NEW r \in Request
    PROVE  /\ approve_lock(r) => Signed'
           /\ approve_record(r) => Signed'
           /\ get_proposal(r) => Signed'
           /\ pin_baseline(r) => Signed'
           /\ finalize_approval(r) => Signed'
<1> DEFINE c == req[r].control
           a == req[r].actor
<1>1. /\ \A o, h : Finish(r, o, h).pc = "done"
      /\ req[r] \in RequestState /\ c \in Control
  BY DEF Finish, Blank, TypeOK, RequestState
<1>2. ASSUME approve_lock(r)
      PROVE  Signed'
  <2> DEFINE q == [req[r] EXCEPT !.pc = "record", !.script = row[c].script,
                                 !.action = row[c].decision_action,
                                 !.prior = prior_actors(c)]
  <2>1. RowsSigned' /\ ledger' = ledger
    BY <1>2, RowsKept DEF approve_lock, Approved, Exists
  <2>2. a \in Actor
    BY <1>2 DEF approve_lock, Signed, RequestsSigned, Waiting
  <2>3. q.pc = "record" /\ q.actor = a
    BY <1>1 DEF RequestState
  <2>4. \/ req' = [req EXCEPT ![r] = Finish(r, "conflict", "none")]
        \/ req' = [req EXCEPT ![r] = Finish(r, "denied", "none")]
        \/ MaySign(a) /\ req' = [req EXCEPT ![r] = q]
    <3>1. ASSUME check_permission(Role[a], row[c].decision_action, row[c].risk_tier,
                                  row[c].blast_radius_count, ActorType[a])
          PROVE  MaySign(a)
      BY <2>2, <3>1 DEF check_permission, role_permits, MaySign
    <3> QED  BY <1>2, <3>1 DEF approve_lock
  <2> HIDE DEF q
  <2> QED
    BY <1>1, <2>1, <2>2, <2>3, <2>4, SignedKept DEF Waiting
<1>3. ASSUME approve_record(r)
      PROVE  Signed'
  <2> DEFINE e == Ev("APPROVED", c, a, clock, req[r].script, 0)
  <2>1. e.event_type = "APPROVED" /\ e.control = c /\ e.actor = a
    BY DEF Ev
  <2>2. ledger' = ledger \cup {e} /\ MaySign(a) /\ a \in Actor
    BY <1>3 DEF approve_record, Signed, RequestsSigned, MaySign
  <2>3. RowsSigned'
    BY <1>3, <2>2, RowsKept DEF approve_record, Approved, Exists
  <2>4. PICK pc \in {"pin", "get_proposal"} : req' = [req EXCEPT ![r] = [@ EXCEPT !.pc = pc]]
    BY <1>3 DEF approve_record
  <2> DEFINE q == [req[r] EXCEPT !.pc = pc]
  <2>5. req' = [req EXCEPT ![r] = q] /\ q.pc = pc /\ q.actor = a /\ q.control = c
    BY <1>1, <2>4 DEF TypeOK, RequestState
  <2> HIDE DEF q, e
  <2>6. /\ ledger \subseteq ledger' /\ e \in ledger'
        /\ \A x \in ledger' \ ledger : x.event_type = "APPROVED" => MaySign(x.actor)
    BY <2>1, <2>2
  <2> QED
    BY <2>1, <2>2, <2>3, <2>5, <2>6, SignedKept
<1>4. ASSUME get_proposal(r)
      PROVE  Signed'
  <2>1. RowsSigned' /\ ledger' = ledger
    BY <1>4, RowsKept DEF get_proposal, Approved, Exists
  <2>2. \E o, h : req' = [req EXCEPT ![r] = Finish(r, o, h)]
    BY <1>4 DEF get_proposal
  <2> QED
    BY <1>1, <2>1, <2>2, SignedKept DEF Waiting
<1>5. ASSUME pin_baseline(r)
      PROVE  Signed'
  <2> DEFINE q == [req[r] EXCEPT !.pc = "finalize", !.sha = latest_baseline]
  <2>1. RowsSigned' /\ ledger' = ledger
    BY <1>5, RowsKept DEF pin_baseline, Approved, Exists
  <2>2. req' = [req EXCEPT ![r] = q] /\ q.pc = "finalize" /\ q.actor = a /\ q.control = c
    BY <1>1, <1>5 DEF pin_baseline, TypeOK, RequestState
  <2>3. a \in Actor /\ HasSigned(c, a)
    BY <1>5 DEF pin_baseline, Signed, RequestsSigned, Waiting
  <2> HIDE DEF q
  <2> QED
    BY <2>1, <2>2, <2>3, SignedKept DEF HasSigned
<1>6. ASSUME finalize_approval(r)
      PROVE  Signed'
  <2>1. ledger' = ledger /\ HasSigned(c, a)
    BY <1>6 DEF finalize_approval, Signed, RequestsSigned
  <2>2. \A x \in Control : Approved(x)' =>
            \/ Approved(x) /\ row'[x].approved_by = row[x].approved_by
            \/ x = c /\ row'[x].approved_by = a
    <3>1. CASE Safe(c)
      <4>1. row[c] \in Row
        BY <1>1, <3>1 DEF Safe, Exists, TypeOK
      <4> DEFINE y == [row[c] EXCEPT !.approval_status = "APPROVED", !.approved_by = a,
                                     !.updated_at = req[r].now, !.pin = req[r].sha]
      <4>2. y.approved_by = a
        BY <4>1 DEF Row
      <4>3. row' = [row EXCEPT ![c] = y]
        BY <1>6, <3>1 DEF finalize_approval
      <4> HIDE DEF y
      <4>4. row'[c].approved_by = a /\ \A x \in Control : x # c => row'[x] = row[x]
        BY <1>1, <4>2, <4>3 DEF TypeOK
      <4> QED  BY <4>4 DEF Approved, Exists
    <3>2. CASE ~Safe(c)
      BY <1>6, <3>2 DEF finalize_approval, Approved, Exists
    <3> QED  BY <3>1, <3>2
  <2>3. RowsSigned'
    <3> HIDE DEF a, c
    <3> QED  BY <2>1, <2>2 DEF Signed, RowsSigned, HasSigned
  <2>4. \E o, h : req' = [req EXCEPT ![r] = Finish(r, o, h)]
    BY <1>6 DEF finalize_approval
  <2> QED
    BY <1>1, <2>1, <2>3, <2>4, SignedKept DEF Waiting
<1> QED
  BY <1>2, <1>3, <1>4, <1>5, <1>6

\* Nothing else approves or signs.
LEMMA RestSigned ==
    ASSUME TypeOK, Signed, NEW r \in Request
    PROVE  /\ reject(r) => Signed'
           /\ apply(r) => Signed'
           /\ rollback(r) => Signed'
           /\ crash(r) => Signed'
<1> DEFINE c == req[r].control
           a == req[r].actor
<1>1. /\ \A o, h : Finish(r, o, h).pc = "done"
      /\ c \in Control
      /\ Exists(c) => row[c] \in Row
  BY DEF Finish, Blank, TypeOK, RequestState, Exists
<1>2. ASSUME ledger \subseteq ledger', \E o, h : req' = [req EXCEPT ![r] = Finish(r, o, h)],
             \A e \in ledger' \ ledger : e.event_type # "APPROVED",
             \A x \in Control : Approved(x)' =>
                 Approved(x) /\ row'[x].approved_by = row[x].approved_by
      PROVE  Signed'
  <2>1. RowsSigned'
    BY <1>2, RowsKept
  <2> QED
    BY <1>1, <1>2, <2>1, SignedKept DEF Waiting
<1>3. ASSUME NEW y, Exists(c), row' = [row EXCEPT ![c] = y],
             y.approval_status = "APPROVED" =>
                 /\ row[c].approval_status = "APPROVED"
                 /\ y.approved_by = row[c].approved_by
      PROVE  \A x \in Control : Approved(x)' =>
                 Approved(x) /\ row'[x].approved_by = row[x].approved_by
  BY <1>1, <1>3 DEF Approved, Exists, TypeOK
<1>4. ASSUME reject(r)
      PROVE  Signed'
  <2> DEFINE y == [row[c] EXCEPT !.approval_status = "REJECTED", !.approved_by = a,
                                 !.updated_at = req[r].now]
  <2>1. ledger \subseteq ledger' /\ \A e \in ledger' \ ledger : e.event_type # "APPROVED"
    BY <1>4 DEF reject, Ev
  <2>2. \E o, h : req' = [req EXCEPT ![r] = Finish(r, o, h)]
    BY <1>4 DEF reject
  <2>3. Exists(c) => y.approval_status = "REJECTED"
    BY <1>1 DEF Row
  <2>4. row' = row \/ (Exists(c) /\ row' = [row EXCEPT ![c] = y])
    BY <1>4 DEF reject
  <2>5. \A x \in Control : Approved(x)' =>
             Approved(x) /\ row'[x].approved_by = row[x].approved_by
    <3> HIDE DEF y, c
    <3> QED  BY <1>3, <2>3, <2>4 DEF Approved, Exists
  <2> QED
    BY <1>2, <2>1, <2>2, <2>5
<1>5. ASSUME apply(r)
      PROVE  Signed'
  <2> DEFINE y == [row[c] EXCEPT !.applied = TRUE, !.rollback_status = "APPLIED",
                                 !.updated_at = req[r].now]
  <2>1. ledger \subseteq ledger' /\ \A e \in ledger' \ ledger : e.event_type # "APPROVED"
    BY <1>5 DEF apply, Ev
  <2>2. \E o, h : req' = [req EXCEPT ![r] = Finish(r, o, h)]
    BY <1>5 DEF apply
  <2>3. Exists(c) => /\ y.approval_status = row[c].approval_status
                     /\ y.approved_by = row[c].approved_by
    BY <1>1 DEF Row
  <2>4. row' = row \/ (Exists(c) /\ row' = [row EXCEPT ![c] = y])
    BY <1>5 DEF apply, Approved
  <2>5. \A x \in Control : Approved(x)' =>
             Approved(x) /\ row'[x].approved_by = row[x].approved_by
    <3> HIDE DEF y, c
    <3> QED  BY <1>3, <2>3, <2>4 DEF Approved, Exists
  <2> QED
    BY <1>2, <2>1, <2>2, <2>5
<1>7. ASSUME rollback(r)
      PROVE  Signed'
  <2> DEFINE y == [row[c] EXCEPT !.rollback_status = "ROLLED_BACK", !.updated_at = req[r].now]
  <2>1. ledger \subseteq ledger' /\ \A e \in ledger' \ ledger : e.event_type # "APPROVED"
    BY <1>7 DEF rollback, Ev
  <2>2. \E o, h : req' = [req EXCEPT ![r] = Finish(r, o, h)]
    BY <1>7 DEF rollback
  <2>3. Exists(c) => /\ y.approval_status = row[c].approval_status
                     /\ y.approved_by = row[c].approved_by
    BY <1>1 DEF Row
  <2>4. row' = row \/ (Exists(c) /\ row' = [row EXCEPT ![c] = y])
    BY <1>7 DEF rollback, Applied
  <2>5. \A x \in Control : Approved(x)' =>
             Approved(x) /\ row'[x].approved_by = row[x].approved_by
    <3> HIDE DEF y, c
    <3> QED  BY <1>3, <2>3, <2>4 DEF Approved, Exists
  <2> QED
    BY <1>2, <2>1, <2>2, <2>5
<1>6. ASSUME crash(r)
      PROVE  Signed'
  <2> DEFINE q == [Finish(r, "none", "none") EXCEPT !.pc = "crashed"]
  <2>1. RowsSigned' /\ ledger' = ledger /\ req' = [req EXCEPT ![r] = q]
    BY <1>6, RowsKept DEF crash, Approved, Exists
  <2>2. q.pc = "crashed"
    BY DEF Finish, Blank
  <2> HIDE DEF q
  <2> QED
    BY <2>1, <2>2, SignedKept DEF Waiting
<1> QED
  BY <1>4, <1>5, <1>6, <1>7

\* A re-evaluation removes every approval.
LEMMA EvaluationSigned ==
    ASSUME TypeOK, Signed, NEW found \in SUBSET Control, save_findings(found)
    PROVE  Signed'
<1>1. /\ ledger \subseteq ledger' /\ req' = req
      /\ \A e \in ledger' \ ledger : e.event_type # "APPROVED"
  BY DEF save_findings, Ev
<1>2. RowsSigned'
  <2>1. \A c \in Control : Approved(c)' =>
            Approved(c) /\ row'[c].approved_by = row[c].approved_by
    BY DEF save_findings, Approved, Exists
  <2> QED  BY <1>1, <2>1, RowsKept
<1> QED
  BY <1>1, <1>2 DEF Signed, RequestsSigned, EventsSigned, HasSigned, MaySign

-----------------------------------------------------------------------------
(* The two theorems.                                                       *)

\* Types and signatures together are inductive.
LEMMA TypesAndSignatures == Spec => [](TypeOK /\ Signed)
<1>1. Init => TypeOK /\ Signed
  <2> SUFFICES ASSUME Init
               PROVE  TypeOK /\ Signed
    OBVIOUS
  <2>1. \A c \in Control : Ev("VIOLATION_DETECTED", c, Nobody, 0, Nobody, 0) \in Event
    BY EventType DEF EventTypes
  <2>2. Blank \in RequestState /\ Blank.pc = "idle"
    BY BlankType DEF Blank
  <2>3. TypeOK
    BY <2>1, <2>2 DEF Init, TypeOK
  <2>4. RequestsSigned
    BY <2>2 DEF Init, RequestsSigned, Waiting
  <2>5. EventsSigned
    BY DEF Init, EventsSigned, Ev
  <2>6. RowsSigned
    BY DEF Init, RowsSigned, Approved, Exists
  <2> QED
    BY <2>3, <2>4, <2>5, <2>6 DEF Signed
<1>2. TypeOK /\ Signed /\ [Next]_vars => (TypeOK /\ Signed)'
  <2> SUFFICES ASSUME TypeOK, Signed, [Next]_vars
               PROVE  (TypeOK /\ Signed)'
    OBVIOUS
  <2>1. CASE UNCHANGED vars
    BY <2>1 DEF vars, TypeOK, Signed, RequestsSigned, EventsSigned, RowsSigned, HasSigned,
                MaySign, Approved, Exists
  <2>2. CASE Environment
    <3>1. ASSUME NEW r \in Request, NEW c \in Control,
                 \/ generate(r, c)
                 \/ \E a \in Actor : mark_applied(r, c, a)
                 \/ \E a \in Actor, b \in BOOLEAN :
                        approve(r, c, a, b) \/ trigger_rollback(r, c, a, b)
          PROVE  (TypeOK /\ Signed)'
      <4>1. TypeOK'
        BY <3>1, ArrivalsType
      <4>2. Signed'
        BY <3>1, ArrivalsSigned
      <4> QED  BY <4>1, <4>2
    <3>2. ASSUME NEW r \in Request, generate_for_run(r)
          PROVE  (TypeOK /\ Signed)'
      <4>1. PICK c \in Control : TRUE
        BY ConstantsOK
      <4> QED  BY <3>2, <4>1, ArrivalsType, ArrivalsSigned
    <3>3. ASSUME NEW found \in SUBSET Control, save_findings(found)
          PROVE  (TypeOK /\ Signed)'
      BY <3>3, EvaluationType, EvaluationSigned
    <3>4. ASSUME NEW r \in Request, crash(r)
          PROVE  (TypeOK /\ Signed)'
      BY <3>4, RestType, RestSigned
    <3> QED
      BY <2>2, <3>1, <3>2, <3>3, <3>4 DEF Environment
  <2>3. ASSUME NEW r \in Request, Step(r)
        PROVE  (TypeOK /\ Signed)'
    <3>1. \A c \in Control, f \in Facts : build(r, c, f) => TypeOK' /\ Signed'
      BY GenerationType, GenerationSigned
    <3>2. \A c \in Control, t \in BOOLEAN : build_fails(r, c, t) => TypeOK' /\ Signed'
      <4>1. PICK f \in Facts : TRUE
        BY ConstantsOK
      <4> QED  BY <4>1, GenerationType, GenerationSigned
    <3>3. save_proposal(r) => TypeOK' /\ Signed'
      <4>1. PICK f \in Facts, c \in Control : TRUE
        BY ConstantsOK
      <4> QED  BY <4>1, GenerationType, GenerationSigned
    <3>4. ASSUME approve_lock(r) \/ approve_record(r) \/ get_proposal(r) \/ pin_baseline(r)
                 \/ finalize_approval(r)
          PROVE  TypeOK' /\ Signed'
      BY <3>4, ApprovalType, ApprovalSigned
    <3>5. ASSUME reject(r) \/ apply(r) \/ rollback(r)
          PROVE  TypeOK' /\ Signed'
      BY <3>5, ApprovalType, RestType, RestSigned
    <3> QED
      BY <2>3, <3>1, <3>2, <3>3, <3>4, <3>5 DEF Step
  <2> QED
    BY <2>1, <2>2, <2>3 DEF Next
<1> QED
  BY <1>1, <1>2, PTL DEF Spec

\* The tables and the requests stay well-typed, whatever interleaves.
THEOREM TypeCorrect == Spec => []TypeOK
BY TypesAndSignatures, PTL

\* Only people with a signing role sign, and an approved row names one who did.
THEOREM ApproversHaveSigned == Spec => []ApproverHasSigned
<1>1. TypeOK /\ Signed => ApproverHasSigned
  BY DEF Signed, EventsSigned, RowsSigned, HasSigned, MaySign, ApproverHasSigned
<1> QED
  BY <1>1, TypesAndSignatures, PTL

-----------------------------------------------------------------------------
(* What reporting reads off the ledger.                                    *)

\* The ledger only grows, and nobody signs at an earlier time than the clock's.
Grows ==
    /\ ledger \subseteq ledger' /\ clock' \in Nat /\ clock <= clock'
    /\ \A e \in ledger' \ ledger : e.event_type = "APPROVED" => e.created_at = clock

LEMMA LedgerGrows ==
    ASSUME clock \in Nat, [Next]_vars
    PROVE  Grows
<1>1. ASSUME UNCHANGED ledger, clock' = clock \/ clock' = clock + 1
      PROVE  Grows
  BY <1>1 DEF Grows
<1>2. ASSUME NEW d, ledger' \subseteq ledger \cup d, ledger \subseteq ledger',
             clock' = clock \/ clock' = clock + 1 \/ clock' = clock + 2,
             \A e \in d : e.event_type # "APPROVED"
      PROVE  Grows
  BY <1>2 DEF Grows
<1>3. CASE UNCHANGED vars
  BY <1>1, <1>3 DEF vars
<1>4. CASE Environment
  <2>1. ASSUME NEW r \in Request, NEW c \in Control, generate(r, c)
        PROVE  Grows
    BY <1>1, <2>1 DEF generate, Arrive
  <2>2. ASSUME NEW r \in Request, generate_for_run(r)
        PROVE  Grows
    BY <1>1, <2>2 DEF generate_for_run, Arrive
  <2>3. ASSUME NEW r \in Request, NEW c \in Control, NEW a \in Actor, NEW b \in BOOLEAN,
               approve(r, c, a, b) \/ trigger_rollback(r, c, a, b)
        PROVE  Grows
    BY <1>1, <2>3 DEF approve, trigger_rollback, Arrive
  <2>4. ASSUME NEW r \in Request, NEW c \in Control, NEW a \in Actor, mark_applied(r, c, a)
        PROVE  Grows
    BY <1>1, <2>4 DEF mark_applied, Arrive
  <2>5. ASSUME NEW found \in SUBSET Control, save_findings(found)
        PROVE  Grows
    <3> DEFINE d == {Ev("VIOLATION_DETECTED", c, Nobody, clock, Nobody, 0) :
                         c \in {x \in found : \A e \in ledger :
                                   ~(e.event_type = "VIOLATION_DETECTED" /\ e.control = x)}}
    <3>1. ledger' = ledger \cup d /\ clock' = clock + 1
      BY <2>5 DEF save_findings
    <3>2. \A e \in d : e.event_type # "APPROVED"
      BY DEF Ev
    <3> HIDE DEF d
    <3> QED  BY <1>2, <3>1, <3>2
  <2>6. ASSUME NEW r \in Request, crash(r)
        PROVE  Grows
    BY <1>1, <2>6 DEF crash
  <2> QED
    BY <1>4, <2>1, <2>2, <2>3, <2>4, <2>5, <2>6 DEF Environment
<1>5. ASSUME NEW r \in Request, Step(r)
      PROVE  Grows
  <2>1. ASSUME NEW c \in Control, NEW f \in Facts, build(r, c, f)
        PROVE  Grows
    BY <1>1, <2>1 DEF build
  <2>2. ASSUME NEW c \in Control, NEW t \in BOOLEAN, build_fails(r, c, t)
        PROVE  Grows
    BY <1>1, <2>2 DEF build_fails
  <2>3. CASE save_proposal(r)
    <3>1. CASE req[r].control \notin finding
      BY <1>1, <2>3, <3>1 DEF save_proposal
    <3>2. CASE req[r].control \in finding
      <4> DEFINE d == {Ev("REMEDIATION_PROPOSED", req[r].control, Nobody, clock, r, 0),
                       Ev("DECISION_MADE", req[r].control, Nobody, clock + 1, r, 0)}
      <4>1. ledger' = ledger \cup d /\ clock' = clock + 2
        BY <2>3, <3>2 DEF save_proposal
      <4>2. \A e \in d : e.event_type # "APPROVED"
        BY DEF Ev
      <4> HIDE DEF d
      <4> QED  BY <1>2, <4>1, <4>2
    <3> QED  BY <3>1, <3>2
  <2>4. CASE approve_lock(r) \/ get_proposal(r) \/ pin_baseline(r) \/ finalize_approval(r)
    BY <1>1, <2>4 DEF approve_lock, get_proposal, pin_baseline, finalize_approval
  <2>5. CASE approve_record(r)
    BY <2>5 DEF approve_record, Ev, Grows
  <2>6. CASE reject(r)
    <3> DEFINE d == {Ev("REJECTED", req[r].control, req[r].actor, clock,
                        row[req[r].control].script, 0)}
    <3>1. \/ UNCHANGED <<ledger, clock>>
          \/ ledger' = ledger \cup d /\ clock' = clock + 1
      BY <2>6 DEF reject
    <3>2. \A e \in d : e.event_type # "APPROVED"
      BY DEF Ev
    <3> HIDE DEF d
    <3> QED  BY <1>1, <1>2, <3>1, <3>2
  <2>7. CASE apply(r)
    <3> DEFINE d == {Ev("APPLIED", req[r].control, req[r].actor, clock,
                        row[req[r].control].script, 0)}
    <3>1. \/ UNCHANGED <<ledger, clock>>
          \/ ledger' = ledger \cup d /\ clock' = clock + 1
      BY <2>7 DEF apply
    <3>2. \A e \in d : e.event_type # "APPROVED"
      BY DEF Ev
    <3> HIDE DEF d
    <3> QED  BY <1>1, <1>2, <3>1, <3>2
  <2>8. CASE rollback(r)
    <3> DEFINE failed == {Ev("VERIFICATION_FAILED", req[r].control, req[r].actor, clock, Nobody, 0)}
               back == {Ev("ROLLED_BACK", req[r].control, req[r].actor, clock + 1,
                           row[req[r].control].script, row[req[r].control].pin)}
    <3>1. /\ ledger \subseteq ledger' /\ ledger' \subseteq ledger \cup (failed \cup back)
          /\ clock' = clock + 2
      BY <2>8 DEF rollback
    <3>2. \A e \in failed \cup back : e.event_type # "APPROVED"
      BY DEF Ev
    <3> HIDE DEF failed, back
    <3> QED  BY <1>2, <3>1, <3>2
  <2> QED
    BY <1>5, <2>1, <2>2, <2>3, <2>4, <2>5, <2>6, <2>7, <2>8 DEF Step
<1> QED
  BY <1>3, <1>4, <1>5 DEF Next

\* Every violation was detected before anybody could sign for it.
DetectedFirst ==
    /\ clock \in Nat \ {0}
    /\ \A c \in Control : Ev("VIOLATION_DETECTED", c, Nobody, 0, Nobody, 0) \in ledger
    /\ \A e \in ledger : e.event_type = "APPROVED" => e.created_at > 0

LEMMA DetectionsFirst == Spec => []DetectedFirst
<1>1. Init => DetectedFirst
  BY DEF Init, DetectedFirst, Ev
<1>2. DetectedFirst /\ [Next]_vars => DetectedFirst'
  <2> SUFFICES ASSUME DetectedFirst, [Next]_vars
               PROVE  DetectedFirst'
    OBVIOUS
  <2>1. clock \in Nat \ {0}
    BY DEF DetectedFirst
  <2>2. Grows
    BY <2>1, LedgerGrows
  <2> QED  BY <2>1, <2>2 DEF DetectedFirst, Grows
<1> QED
  BY <1>1, <1>2, PTL DEF Spec

\* What reporting counts as open was not approved.
THEOREM OpenAreUnapproved == Spec => []OpenIsUnapproved
<1>1. TypeOK /\ DetectedFirst /\ ApproverHasSigned => OpenIsUnapproved
  <2> SUFFICES ASSUME TypeOK, DetectedFirst, ApproverHasSigned, NEW c \in Control, Approved(c)
               PROVE  ~mttr_open(c)
    BY DEF OpenIsUnapproved
  <2> DEFINE S == detections(c)
             first == CHOOSE d \in S : \A x \in S : d <= x
  <2>1. 0 \in S
    <3>1. Ev("VIOLATION_DETECTED", c, Nobody, 0, Nobody, 0) \in ledger
      BY DEF DetectedFirst
    <3> QED  BY <3>1 DEF detections, Ev
  <2>2. \A d \in S : d \in Nat
    <3>1. ledger \subseteq Event
      BY DEF TypeOK
    <3>2. \A e \in Event : e.created_at \in Nat
      BY DEF Event
    <3> QED  BY <3>1, <3>2 DEF detections
  <2>3. PICK e \in ledger : e.event_type = "APPROVED" /\ e.control = c
    BY DEF ApproverHasSigned
  <2>4. e.created_at > 0
    BY <2>3 DEF DetectedFirst
  <2>5. first = 0
    <3> HIDE DEF S
    <3>1. \A x \in S : 0 <= x
      BY <2>2
    <3>2. first \in S /\ \A x \in S : first <= x
      BY <2>1, <3>1
    <3> QED  BY <2>1, <2>2, <3>2
  <2> QED  BY <2>3, <2>4, <2>5 DEF mttr_open
<1> QED
  BY <1>1, TypeCorrect, DetectionsFirst, ApproversHaveSigned, PTL

-----------------------------------------------------------------------------
(* The row, replayed from the ledger.                                      *)

\* Every event is older than the clock.
Dated == \A e \in ledger : e.created_at < clock

Lifecycle == {"REMEDIATION_PROPOSED", "APPLIED", "ROLLED_BACK"}

\* The event a roll-back status comes from.
CauseOf(rollback_status) ==
    IF rollback_status = "NONE" THEN "REMEDIATION_PROPOSED" ELSE rollback_status

Rejected(c, script, a) ==
    \E e \in ledger : /\ e.event_type = "REJECTED" /\ e.control = c
                      /\ e.script = script /\ e.actor = a

\* The ledger accounts for proposal y of control c.
Explained(c, y) ==
    /\ LatestIs(c, Lifecycle, CauseOf(y.rollback_status))
    /\ y.approval_status = "REJECTED" => Rejected(c, y.script, y.approved_by)

Replayable == Dated /\ \A c \in Control : Exists(c) => Explained(c, row[c])

\* What is appended, later than what was there.
Appends(d) ==
    /\ ledger' = ledger \cup d
    /\ \A e \in d : e.created_at \in Nat /\ clock <= e.created_at /\ e.created_at < clock'

LEMMA AppendsDated ==
    ASSUME TypeOK, Dated, clock' \in Nat, clock <= clock', NEW d, Appends(d)
    PROVE  Dated'
BY DEF TypeOK, Event, Dated, Appends

\* An explained proposal stays explained by a ledger that says no more of its lifecycle.
LEMMA StaysExplained ==
    ASSUME NEW c, NEW y, Explained(c, y), NEW d, Appends(d),
           \A e \in d : e.control = c => e.event_type \notin Lifecycle,
           NEW z, z.rollback_status = y.rollback_status,
           z.approval_status = "REJECTED" =>
               \/ /\ y.approval_status = "REJECTED"
                  /\ z.script = y.script /\ z.approved_by = y.approved_by
               \/ \E e \in d : /\ e.event_type = "REJECTED" /\ e.control = c
                               /\ e.script = z.script /\ e.actor = z.approved_by
    PROVE  Explained(c, z)'
<1>1. LatestIs(c, Lifecycle, CauseOf(z.rollback_status))'
  BY DEF Explained, LatestIs, Appends
<1>2. z.approval_status = "REJECTED" => Rejected(c, z.script, z.approved_by)'
  BY DEF Explained, Rejected, Appends
<1> QED
  BY <1>1, <1>2 DEF Explained

\* The event that changes the roll-back status is the latest one.
LEMMA BecomesExplained ==
    ASSUME TypeOK, Dated, NEW c, NEW d, Appends(d), NEW e \in d,
           e.control = c, e.event_type \in Lifecycle,
           \A x \in d : x.event_type \in Lifecycle => x = e,
           NEW z, CauseOf(z.rollback_status) = e.event_type,
           z.approval_status = "REJECTED" => Rejected(c, z.script, z.approved_by)
    PROVE  Explained(c, z)'
<1>1. \A x \in ledger : x.created_at \in Nat /\ x.created_at < clock
  BY DEF TypeOK, Event, Dated
<1>2. clock \in Nat
  BY DEF TypeOK
<1>3. \A x \in ledger' : x.event_type \in Lifecycle => x.created_at <= e.created_at
  BY <1>1, <1>2 DEF Appends
<1>4. LatestIs(c, Lifecycle, CauseOf(z.rollback_status))'
  BY <1>3 DEF LatestIs, Appends
<1>5. z.approval_status = "REJECTED" => Rejected(c, z.script, z.approved_by)'
  BY DEF Rejected, Appends
<1> QED
  BY <1>4, <1>5 DEF Explained

\* Whatever happens to other proposals, those that stay as they are stay explained.
LEMMA ReplayStep ==
    ASSUME TypeOK, clock' \in Nat, clock <= clock', Replayable, NEW d, Appends(d),
           NEW c \in Control, \A e \in d : e.control = c,
           NEW y, row' = [row EXCEPT ![c] = y], y # NoRow => Explained(c, y)'
    PROVE  Replayable'
<1>1. Dated'
  BY AppendsDated DEF Replayable
<1>2. ASSUME NEW b \in Control, NEW z, row'[b] = z, z # NoRow
      PROVE  Explained(b, z)'
  <2>1. CASE b = c
    BY <1>2, <2>1 DEF TypeOK
  <2>2. CASE b # c
    <3>1. Explained(b, z)
      BY <1>2, <2>2 DEF TypeOK, Replayable, Exists
    <3> QED  BY <2>2, <3>1, StaysExplained
  <2> QED  BY <2>1, <2>2
<1> QED
  BY <1>1, <1>2 DEF Replayable, Exists

\* Most steps change no proposal and nothing of what proposals went through.
LEMMA ReplayUntouched ==
    ASSUME TypeOK, clock' \in Nat, clock <= clock', Replayable, NEW d, Appends(d),
           \A e \in d : e.event_type \notin Lifecycle,
           \A c \in Control : row'[c] \in {row[c], NoRow}
    PROVE  Replayable'
<1>1. Dated'
  BY AppendsDated DEF Replayable
<1>2. ASSUME NEW c \in Control, NEW z, row'[c] = z, z # NoRow
      PROVE  Explained(c, z)'
  <2>1. Explained(c, z)
    BY <1>2 DEF Replayable, Exists
  <2> QED  BY <2>1, StaysExplained
<1> QED
  BY <1>1, <1>2 DEF Replayable, Exists

\* The steps that say something new of a proposal.
LEMMA ReplayWrites ==
    ASSUME TypeOK, Replayable, NEW r \in Request,
           save_proposal(r) \/ finalize_approval(r) \/ reject(r) \/ apply(r) \/ rollback(r)
    PROVE  Replayable'
<1> DEFINE a == req[r].actor
           now == req[r].now
<1>0. PICK c \in Control : c = req[r].control
  BY DEF TypeOK, RequestState
<1>1. /\ clock \in Nat /\ \A e \in ledger : e.created_at < clock
  BY DEF TypeOK, Replayable, Dated
<1>2. Exists(c) => row[c] \in Row /\ Explained(c, row[c])
  BY DEF TypeOK, Exists, Replayable
<1>3. ASSUME UNCHANGED <<row, ledger, clock>>
      PROVE  Replayable'
  <2>1. Appends({})
    BY <1>3 DEF Appends
  <2> QED  BY <1>1, <1>3, <2>1, ReplayUntouched
<1>4. CASE save_proposal(r)
  <2> DEFINE p == build_proposal(r, req[r].facts, now)
             y == IF Exists(c) THEN upsert(row[c], p) ELSE p
             e == Ev("REMEDIATION_PROPOSED", c, Nobody, clock, r, 0)
             d == {e, Ev("DECISION_MADE", c, Nobody, clock + 1, r, 0)}
  <2>1. CASE c \notin finding
    BY <1>0, <1>3, <1>4, <2>1 DEF save_proposal
  <2>2. CASE c \in finding
    <3>1. /\ ledger' = ledger \cup d /\ clock' = clock + 2
          /\ row' = [row EXCEPT ![c] = y]
      BY <1>0, <1>4, <2>2 DEF save_proposal
    <3>2. Appends(d) /\ \A x \in d : x.control = c
      BY <1>1, <3>1 DEF Appends, Ev
    <3>3. /\ e \in d /\ e.control = c /\ e.event_type = "REMEDIATION_PROPOSED"
          /\ \A x \in d : x.event_type \in Lifecycle => x = e
      BY DEF Ev, Lifecycle
    <3>4. y.rollback_status = "NONE" /\ y.approval_status = "PENDING"
      BY DEF build_proposal, upsert
    <3> HIDE DEF y, d, e
    <3>9. PICK z : z = y
      OBVIOUS
    <3>10. row' = [row EXCEPT ![c] = z]
      BY <3>1, <3>9
    <3>5. Explained(c, z)'
      BY <3>9, <3>2, <3>3, <3>4, BecomesExplained DEF Replayable, CauseOf, Lifecycle
    <3>6. clock' \in Nat /\ clock <= clock'
      BY <1>1, <3>1
    <3> QED  BY <3>10, <3>2, <3>5, <3>6, ReplayStep
  <2> QED  BY <2>1, <2>2
<1>5. CASE finalize_approval(r)
  <2> DEFINE y == [row[c] EXCEPT !.approval_status = "APPROVED", !.approved_by = a,
                                 !.updated_at = now, !.pin = req[r].sha]
             d == {}
  <2>1. CASE Safe(c)
    <3>1. /\ ledger' = ledger /\ clock' = clock /\ row' = [row EXCEPT ![c] = y] /\ Exists(c)
      BY <1>0, <1>5, <2>1 DEF finalize_approval, Safe
    <3>2. /\ Appends(d)
          /\ \A x \in d : x.control = c /\ x.event_type \notin Lifecycle
      BY <3>1 DEF Appends
    <3>3. y.rollback_status = row[c].rollback_status /\ y.approval_status = "APPROVED"
      BY <1>2, <3>1 DEF Row
    <3> HIDE DEF y, d
    <3>9. PICK z : z = y
      OBVIOUS
    <3>10. row' = [row EXCEPT ![c] = z]
      BY <3>1, <3>9
    <3>4. Explained(c, z)'
      BY <3>9, <1>2, <3>1, <3>2, <3>3, StaysExplained
    <3>5. clock' \in Nat /\ clock <= clock'
      BY <1>1, <3>1
    <3> QED  BY <3>10, <3>2, <3>4, <3>5, ReplayStep
  <2>2. CASE ~Safe(c)
    BY <1>0, <1>3, <1>5, <2>2 DEF finalize_approval
  <2> QED  BY <2>1, <2>2
<1>6. CASE reject(r)
  <2> DEFINE y == [row[c] EXCEPT !.approval_status = "REJECTED", !.approved_by = a,
                                 !.updated_at = now]
             e == Ev("REJECTED", c, a, clock, row[c].script, 0)
             d == {e}
  <2>1. CASE Exists(c)
    <3>1. /\ ledger' = ledger \cup d /\ clock' = clock + 1 /\ row' = [row EXCEPT ![c] = y]
      BY <1>0, <1>6, <2>1 DEF reject
    <3>2. Appends(d) /\ e \in d /\ \A x \in d : x.control = c
      BY <1>1, <3>1 DEF Appends, Ev
    <3>3. /\ y.rollback_status = row[c].rollback_status
          /\ y.script = row[c].script /\ y.approved_by = a
      BY <1>2, <2>1 DEF Row
    <3>4. /\ \A x \in d : x.event_type \notin Lifecycle
          /\ e.event_type = "REJECTED" /\ e.control = c /\ e.script = row[c].script /\ e.actor = a
      BY DEF Ev, Lifecycle
    <3> HIDE DEF y, e, d
    <3>9. PICK z : z = y
      OBVIOUS
    <3>10. row' = [row EXCEPT ![c] = z]
      BY <3>1, <3>9
    <3>5. Explained(c, z)'
      BY <3>9, <1>2, <2>1, <3>2, <3>3, <3>4, StaysExplained
    <3>6. clock' \in Nat /\ clock <= clock'
      BY <1>1, <3>1
    <3> QED  BY <3>10, <3>2, <3>5, <3>6, ReplayStep
  <2>2. CASE ~Exists(c)
    BY <1>0, <1>3, <1>6, <2>2 DEF reject
  <2> QED  BY <2>1, <2>2
<1>7. CASE apply(r)
  <2> DEFINE y == [row[c] EXCEPT !.applied = TRUE, !.rollback_status = "APPLIED",
                                 !.updated_at = now]
             e == Ev("APPLIED", c, a, clock, row[c].script, 0)
             d == {e}
  <2>1. CASE Approved(c)
    <3>1. /\ ledger' = ledger \cup d /\ clock' = clock + 1 /\ row' = [row EXCEPT ![c] = y]
      BY <1>0, <1>7, <2>1 DEF apply
    <3>2. Appends(d) /\ e \in d /\ \A x \in d : x.control = c
      BY <1>1, <3>1 DEF Appends, Ev
    <3>3. y.rollback_status = "APPLIED" /\ y.approval_status = "APPROVED"
      BY <1>2, <2>1 DEF Row, Approved
    <3>4. e.event_type = "APPLIED" /\ e.control = c /\ \A x \in d : x = e
      BY DEF Ev
    <3> HIDE DEF y, e, d
    <3>9. PICK z : z = y
      OBVIOUS
    <3>10. row' = [row EXCEPT ![c] = z]
      BY <3>1, <3>9
    <3>5. Explained(c, z)'
      BY <3>9, <3>2, <3>3, <3>4, BecomesExplained DEF Replayable, CauseOf, Lifecycle
    <3>6. clock' \in Nat /\ clock <= clock'
      BY <1>1, <3>1
    <3> QED  BY <3>10, <3>2, <3>5, <3>6, ReplayStep
  <2>2. CASE ~Approved(c)
    BY <1>0, <1>3, <1>7, <2>2 DEF apply
  <2> QED  BY <2>1, <2>2
<1>8. CASE rollback(r)
  <2> DEFINE y == [row[c] EXCEPT !.rollback_status = "ROLLED_BACK", !.updated_at = now]
             failed == IF req[r].flag
                       THEN {Ev("VERIFICATION_FAILED", c, a, clock, Nobody, 0)} ELSE {}
             e == Ev("ROLLED_BACK", c, a, clock + 1, row[c].script, row[c].pin)
  <2>1. clock' = clock + 2
    BY <1>8 DEF rollback
  <2>2. clock' \in Nat /\ clock <= clock'
    BY <1>1, <2>1
  <2>3. \A x \in failed : /\ x.control = c /\ x.event_type \notin Lifecycle
                          /\ x.created_at = clock
    BY DEF Ev, Lifecycle
  <2>4. CASE Applied(c)
    <3>1. /\ ledger' = ledger \cup (failed \cup {e}) /\ row' = [row EXCEPT ![c] = y]
      BY <1>0, <1>8, <2>4 DEF rollback
    <3>2. e.control = c /\ e.event_type = "ROLLED_BACK" /\ e.created_at = clock + 1
      BY DEF Ev
    <3>3. /\ y.rollback_status = "ROLLED_BACK" /\ y.approval_status = row[c].approval_status
          /\ y.script = row[c].script /\ y.approved_by = row[c].approved_by
      BY <1>2, <2>4 DEF Row, Applied
    <3> HIDE DEF y, failed, e
    <3>9. PICK z : z = y
      OBVIOUS
    <3>10. row' = [row EXCEPT ![c] = z]
      BY <3>1, <3>9
    <3>4. Appends(failed \cup {e}) /\ \A x \in failed \cup {e} : x.control = c
      BY <1>1, <2>1, <2>3, <3>1, <3>2 DEF Appends
    <3>5. y.approval_status = "REJECTED" => Rejected(c, y.script, y.approved_by)
      BY <1>2, <2>4, <3>3 DEF Explained, Applied
    <3>6. \A x \in failed \cup {e} : x.event_type \in Lifecycle => x = e
      BY <2>3
    <3>7. Explained(c, z)'
      BY <3>9, <3>2, <3>3, <3>4, <3>5, <3>6, BecomesExplained DEF Replayable, CauseOf, Lifecycle
    <3> QED  BY <3>10, <2>2, <3>4, <3>7, ReplayStep
  <2>5. CASE ~Applied(c)
    <3>1. ledger' = ledger \cup failed /\ row' = row
      BY <1>0, <1>8, <2>5 DEF rollback
    <3> HIDE DEF failed
    <3>2. Appends(failed)
      BY <1>1, <2>1, <2>3, <3>1 DEF Appends
    <3> QED  BY <2>2, <2>3, <3>1, <3>2, ReplayUntouched
  <2> QED  BY <2>4, <2>5
<1> QED
  BY <1>4, <1>5, <1>6, <1>7, <1>8

\* The other steps of a request neither touch a proposal nor record one.
LEMMA ReplayReads ==
    ASSUME TypeOK, Replayable, NEW r \in Request, NEW c \in Control, NEW f \in Facts,
           NEW t \in BOOLEAN
    PROVE  /\ build(r, c, f) => Replayable'
           /\ build_fails(r, c, t) => Replayable'
           /\ approve_lock(r) => Replayable'
           /\ approve_record(r) => Replayable'
           /\ get_proposal(r) => Replayable'
           /\ pin_baseline(r) => Replayable'
           /\ crash(r) => Replayable'
<1>1. clock \in Nat
  BY DEF TypeOK
<1>2. ASSUME UNCHANGED <<row, ledger>>, clock' = clock \/ clock' = clock + 1
      PROVE  Replayable'
  <2>1. Appends({})
    BY <1>2 DEF Appends
  <2> QED  BY <1>1, <1>2, <2>1, ReplayUntouched
<1>3. build(r, c, f) => Replayable'
  BY <1>2 DEF build
<1>4. build_fails(r, c, t) \/ approve_lock(r) \/ get_proposal(r) \/ pin_baseline(r) \/ crash(r)
          => Replayable'
  BY <1>2 DEF build_fails, approve_lock, get_proposal, pin_baseline, crash
<1>5. approve_record(r) => Replayable'
  <2> DEFINE d == {Ev("APPROVED", req[r].control, req[r].actor, clock, req[r].script, 0)}
  <2> SUFFICES ASSUME approve_record(r)
               PROVE  Replayable'
    OBVIOUS
  <2>1. ledger' = ledger \cup d /\ clock' = clock + 1 /\ row' = row
    BY DEF approve_record
  <2>2. \A e \in d : e.event_type \notin Lifecycle /\ e.created_at = clock
    BY DEF Ev, Lifecycle
  <2> HIDE DEF d
  <2>3. Appends(d)
    BY <1>1, <2>1, <2>2 DEF Appends
  <2> QED  BY <1>1, <2>1, <2>2, <2>3, ReplayUntouched
<1> QED
  BY <1>3, <1>4, <1>5

\* A re-evaluation leaves no proposal to explain.
LEMMA ReplayEvaluation ==
    ASSUME TypeOK, Replayable, NEW found \in SUBSET Control, save_findings(found)
    PROVE  Replayable'
<1> DEFINE d == {Ev("VIOLATION_DETECTED", c, Nobody, clock, Nobody, 0) :
                     c \in {x \in found : \A e \in ledger :
                               ~(e.event_type = "VIOLATION_DETECTED" /\ e.control = x)}}
<1>1. /\ ledger' = ledger \cup d /\ clock' = clock + 1 /\ clock \in Nat
      /\ \A c \in Control : row'[c] = NoRow
  BY DEF save_findings, TypeOK
<1>2. \A e \in d : e.event_type \notin Lifecycle /\ e.created_at = clock
  BY DEF Ev, Lifecycle
<1> HIDE DEF d
<1>3. Appends(d)
  BY <1>1, <1>2 DEF Appends
<1> QED
  BY <1>1, <1>2, <1>3, ReplayUntouched

\* The ledger explains the proposals after every step.
LEMMA ReplayKept ==
    ASSUME TypeOK, Replayable, [Next]_vars
    PROVE  Replayable'
<1>1. clock \in Nat
  BY DEF TypeOK
<1>2. ASSUME UNCHANGED <<row, ledger>>, clock' = clock \/ clock' = clock + 1
      PROVE  Replayable'
  <2>1. Appends({})
    BY <1>2 DEF Appends
  <2> QED  BY <1>1, <1>2, <2>1, ReplayUntouched
<1>3. CASE UNCHANGED vars
  BY <1>2, <1>3 DEF vars
<1>4. PICK f \in Facts, c \in Control : TRUE
  BY ConstantsOK
<1>5. CASE Environment
  <2>1. ASSUME NEW r \in Request, NEW b \in Control, generate(r, b)
        PROVE  Replayable'
    BY <1>2, <2>1 DEF generate, Arrive
  <2>2. ASSUME NEW r \in Request, generate_for_run(r)
        PROVE  Replayable'
    BY <1>2, <2>2 DEF generate_for_run, Arrive
  <2>3. ASSUME NEW r \in Request, NEW b \in Control, NEW a \in Actor, NEW t \in BOOLEAN,
               approve(r, b, a, t) \/ trigger_rollback(r, b, a, t)
        PROVE  Replayable'
    BY <1>2, <2>3 DEF approve, trigger_rollback, Arrive
  <2>4. ASSUME NEW r \in Request, NEW b \in Control, NEW a \in Actor, mark_applied(r, b, a)
        PROVE  Replayable'
    BY <1>2, <2>4 DEF mark_applied, Arrive
  <2>5. ASSUME NEW found \in SUBSET Control, save_findings(found)
        PROVE  Replayable'
    BY <2>5, ReplayEvaluation
  <2>6. ASSUME NEW r \in Request, crash(r)
        PROVE  Replayable'
    BY <1>4, <2>6, ReplayReads
  <2> QED
    BY <1>5, <2>1, <2>2, <2>3, <2>4, <2>5, <2>6 DEF Environment
<1>6. ASSUME NEW r \in Request, Step(r)
      PROVE  Replayable'
  <2>1. \A b \in Control, g \in Facts : build(r, b, g) => Replayable'
    BY ReplayReads
  <2>2. \A b \in Control, t \in BOOLEAN : build_fails(r, b, t) => Replayable'
    BY <1>4, ReplayReads
  <2>3. ASSUME approve_lock(r) \/ approve_record(r) \/ get_proposal(r) \/ pin_baseline(r)
        PROVE  Replayable'
    BY <1>4, <2>3, ReplayReads
  <2> QED
    BY <1>6, <2>1, <2>2, <2>3, ReplayWrites DEF Step
<1> QED
  BY <1>3, <1>5, <1>6 DEF Next

\* So it does in every behaviour.
LEMMA Replays == Spec => []Replayable
<1>1. Init => Replayable
  BY DEF Init, Replayable, Dated, Ev, Exists
<1>2. TypeOK /\ Replayable /\ [Next]_vars => Replayable'
  BY ReplayKept
<1> QED
  BY <1>1, <1>2, TypeCorrect, PTL DEF Spec

\* Replaying the ledger gives the proposal: its roll-back status is the latest lifecycle
\* event on record, and a rejected script was rejected on record by the one it names.
THEOREM LedgerExplains == Spec => []LedgerExplainsRow
<1>1. TypeOK /\ Replayable => LedgerExplainsRow
  BY DEF TypeOK, Row, Replayable, Explained, CauseOf, Rejected, Lifecycle, Exists,
         LedgerExplainsRow
<1> QED
  BY <1>1, Replays, TypeCorrect, PTL

=============================================================================

----------------------------- MODULE Contention -----------------------------
(***************************************************************************)
(* What an approval is worth when any number of requests are in flight.    *)
(* One race, and only one, takes its worth away: save_proposal dates its   *)
(* proposal before the upsert waits for the row, and a handler that        *)
(* decides on that control dates its update when it arrives, so a script   *)
(* that is saved while such a handler is under way inherits what belongs   *)
(* to the one before it.  A history variable remembers the scripts this    *)
(* happened to; everything the handlers promise holds of the others.       *)
(***************************************************************************)
EXTENDS Remediation

VARIABLE raced   \* history: <<the request that generated a script, its control>>

\* The handlers that decide on a proposal, apply it or roll it back, while in flight.
Deciding == {"approve", "record", "pin", "finalize", "reject", "apply", "rollback"}

\* Scripts that are dated and not saved yet while somebody decides on their control.
Overlaps ==
    {<<r, req[r].control>> : r \in {g \in Request :
        /\ req[g].pc = "save"
        /\ \E s \in Request : req[s].pc \in Deciding /\ req[s].control = req[g].control}}

HInit == Init /\ raced = {}
HNext == Next /\ raced' = raced \cup Overlaps'

\* The proposal lifecycle with its history: raced restricts no step.
HSpec == HInit /\ [][HNext]_<<vars, raced>>

\* Control c has a script that nobody's decision met half-saved.
Uncontested(c) == Exists(c) /\ <<row[c].script, c>> \notin raced

-----------------------------------------------------------------------------

\* Whoever an APPROVED row names signed the very script it holds and is let to by the
\* matrix, and a row classified DUAL_APPROVAL has another signer of that script, though
\* approve() reads the row and the ledger in one transaction and updates in the next.
TwoPersonRule ==
    \A c \in Control : Approved(c) /\ Uncontested(c) =>
        LET a == row[c].approved_by
        IN  /\ a \in Signers(c, row[c].script)
            /\ check_permission(Role[a], row[c].decision_action, row[c].risk_tier,
                                row[c].blast_radius_count, ActorType[a])
            /\ row[c].decision_action = "DUAL_APPROVAL" =>
                  \E b \in Signers(c, row[c].script) : b # a

\* The signatures the quorum query counts were all given to the script the row holds,
\* though every decision puts updated_at back to the moment it arrived.
UncontestedQuorum ==
    \A c \in Control : Uncontested(c) => prior_actors(c) \subseteq Signers(c, row[c].script)

\* An approval is pinned to the evaluation the proposal's finding came from, though it is
\* read two steps before it is stored and a re-evaluation may come between.
UncontestedPin ==
    \A c \in Control : Approved(c) /\ Uncontested(c) => row[c].pin = evals

-----------------------------------------------------------------------------
(* The abstract specification: the table and the ledger together are a     *)
(* sign-off.                                                               *)

Signatory == {a \in Actor : ActorType[a] = "human" /\ Role[a] \in {"admin", "operator"}}
standing == [c \in Control |-> IF Exists(c) THEN row[c].approval_status ELSE "NONE"]
two == [c \in Control |-> Exists(c) /\ row[c].decision_action = "DUAL_APPROVAL"]
signed == [c \in Control |-> IF Exists(c) THEN Signers(c, row[c].script) ELSE {}]
deployed == [c \in Control |-> IF Exists(c) THEN row[c].rollback_status ELSE "NONE"]
contested == [c \in Control |-> Exists(c) /\ ~Uncontested(c)]

SignedOff == INSTANCE Signoff WITH Signatory <- Signatory, standing <- standing, two <- two,
                                   signed <- signed, deployed <- deployed, contested <- contested

\* Every answer the service gives, however its requests interleave, is a step of a sign-off:
\* signatures are of the script that is proposed, and approve it when there are enough.
ImplementsSignoff == SignedOff!Spec

=============================================================================

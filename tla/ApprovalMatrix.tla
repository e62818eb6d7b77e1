--------------------------- MODULE ApprovalMatrix ---------------------------
(***************************************************************************)
(* Who may sign a remediation, and how many signatures it needs:           *)
(* app/approval_matrix.py of the remediation service.                      *)
(***************************************************************************)
EXTENDS Integers, FiniteSets

Roles == {"admin", "operator", "auditor"}
ActorTypes == {"human", "ai"}

SINGLE_DEVICE_MAX_BLAST_RADIUS == 0

\* What the role alone allows: auditors nothing, operators a low-risk change to
\* one device, admins whatever is not BLOCK.
role_permits(role, decision_action, risk, radius, actor_type) ==
    /\ decision_action # "BLOCK"
    /\ \/ role = "admin"
       \/ /\ role = "operator"
          /\ risk # "HIGH"
          /\ radius <= SINGLE_DEVICE_MAX_BLAST_RADIUS

\* The negation of "raises ApprovalDenied".
check_permission(role, decision_action, risk, radius, actor_type) ==
    /\ actor_type = "human"
    /\ role_permits(role, decision_action, risk, radius, actor_type)

\* Mutants of dual_approval_satisfied: a quorum that forgets the signature in hand,
\* and one that takes any second signature for a second person.
forgets_new_actor(decision_action, prior_approving_actors, new_actor) ==
    decision_action # "DUAL_APPROVAL" \/ Cardinality(prior_approving_actors) >= 2

any_second_signature(decision_action, prior_approving_actors, new_actor) ==
    decision_action # "DUAL_APPROVAL" \/ prior_approving_actors # {}

\* The two-person rule: a DUAL_APPROVAL proposal needs two distinct signers.
dual_approval_satisfied(decision_action, prior_approving_actors, new_actor) ==
    \/ decision_action # "DUAL_APPROVAL"
    \/ Cardinality(prior_approving_actors \cup {new_actor}) >= 2

=============================================================================

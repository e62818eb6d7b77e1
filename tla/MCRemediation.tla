---------------------------- MODULE MCRemediation ----------------------------
(***************************************************************************)
(* Small instances of Remediation.  The facts are one finding per decision *)
(* action that can be reached with a SAFE preflight, one that preflight    *)
(* flags and one without a template.                                       *)
(***************************************************************************)
EXTENDS Remediation, TLC

CONSTANTS ann, bob, op, bot, r1, r2, r3, r4, r5

MCRole == (ann :> "admin") @@ (bob :> "admin") @@ (op :> "operator") @@ (bot :> "admin")
MCActorType == (ann :> "human") @@ (bob :> "human") @@ (op :> "human") @@ (bot :> "ai")

RoleOf == [a \in Actor |-> MCRole[a]]
TypeOf == [a \in Actor |-> MCActorType[a]]

Template(agreement, radius, severity) ==
    [template |-> TRUE, flagged |-> FALSE, agreement |-> agreement,
     blast_radius |-> radius, severity |-> severity]

Low == Template(99, 0, "LOW")
Single == Template(96, 1, "LOW")
Dual == Template(92, 0, "LOW")
Flagged == [Low EXCEPT !.flagged = TRUE]
Agentic == [Low EXCEPT !.template = FALSE]

LowOrDual == {Low, Dual}
SignedOrRisky == {Single, Dual, Flagged, Agentic}

\* Two signatures, of which one may give way to a rejection or an application, and a script
\* that is regenerated, signed again or rolled back.
ContentionCalls ==
    (r1 :> {"generate"}) @@ (r2 :> {"approve"}) @@ (r3 :> {"approve", "reject", "apply"})
        @@ (r4 :> {"generate", "rollback"})

\* A generation, in bulk or of one control, against two signatures or one and anything else.
ProgressCalls ==
    (r1 :> {"generate", "generate_for_run"}) @@ (r2 :> {"approve"})
        @@ (r3 :> {"approve", "reject", "apply", "rollback"})

\* A regeneration while a signature is under way.
RegenerateCalls ==
    (r1 :> {"generate"}) @@ (r2 :> {"approve"}) @@ (r3 :> {"generate"})

\* The two admins differ in nothing.
SignerSymmetry == Permutations({ann, bob})

=============================================================================

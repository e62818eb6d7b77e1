------------------------------- MODULE Signoff -------------------------------
(***************************************************************************)
(* What an approval of a remediation script means to the people who sign,  *)
(* apply and roll back: signatures count for the script they were given    *)
(* to, nothing is approved without as many as it takes, and nothing        *)
(* applied that is not approved at that moment.  A script that was         *)
(* proposed while somebody decided on its control is contested: of it,     *)
(* no more is promised than that a person who may sign approves it.        *)
(***************************************************************************)
CONSTANTS Control, Signatory

VARIABLES
    standing,  \* of the script that is proposed for each control
    two,       \* whether it takes two people
    signed,    \* who has signed it
    deployed,  \* whether it was applied, and taken back
    contested  \* whether a decision was under way when it was proposed

vars == <<standing, two, signed, deployed, contested>>

Init ==
    /\ standing = [c \in Control |-> "NONE"]
    /\ two = [c \in Control |-> FALSE]
    /\ signed = [c \in Control |-> {}]
    /\ deployed = [c \in Control |-> "NONE"]
    /\ contested = [c \in Control |-> FALSE]

Proposed(c) == standing[c] # "NONE"

Propose(c, dual, clash) ==
    /\ standing' = [standing EXCEPT ![c] = "PENDING"]
    /\ two' = [two EXCEPT ![c] = dual]
    /\ signed' = [signed EXCEPT ![c] = {}]
    /\ deployed' = [deployed EXCEPT ![c] = "NONE"]
    /\ contested' = [contested EXCEPT ![c] = clash]

Sign(c, a) ==
    /\ Proposed(c)
    /\ signed' = [signed EXCEPT ![c] = @ \cup {a}]
    /\ UNCHANGED <<standing, two, deployed, contested>>

Enough(c, a) ==
    /\ a \in signed[c]
    /\ two[c] => signed[c] # {a}

\* Whether or not it was decided on before.
Approve(c, a) ==
    /\ Proposed(c)
    /\ Enough(c, a) \/ contested[c]
    /\ standing' = [standing EXCEPT ![c] = "APPROVED"]
    /\ UNCHANGED <<two, signed, deployed, contested>>

Reject(c) ==
    /\ Proposed(c)
    /\ standing' = [standing EXCEPT ![c] = "REJECTED"]
    /\ UNCHANGED <<two, signed, deployed, contested>>

Apply(c) ==
    /\ standing[c] = "APPROVED"
    /\ deployed' = [deployed EXCEPT ![c] = "APPLIED"]
    /\ UNCHANGED <<standing, two, signed, contested>>

\* What was applied can be taken back whatever was decided since.
RollBack(c) ==
    /\ deployed[c] # "NONE"
    /\ deployed' = [deployed EXCEPT ![c] = "ROLLED_BACK"]
    /\ UNCHANGED <<standing, two, signed, contested>>

\* The run is evaluated again.
Withdraw ==
    /\ standing' = [c \in Control |-> "NONE"]
    /\ two' = [c \in Control |-> FALSE]
    /\ signed' = [c \in Control |-> {}]
    /\ deployed' = [c \in Control |-> "NONE"]
    /\ contested' = [c \in Control |-> FALSE]

Next ==
    \/ \E c \in Control :
        \/ \E dual, clash \in BOOLEAN : Propose(c, dual, clash)
        \/ \E a \in Signatory : Sign(c, a) \/ Approve(c, a)
        \/ Reject(c) \/ Apply(c) \/ RollBack(c)
    \/ Withdraw

Spec == Init /\ [][Next]_vars

=============================================================================

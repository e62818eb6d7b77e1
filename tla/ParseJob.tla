------------------------------ MODULE ParseJob ------------------------------
(***************************************************************************)
(* What the rest of the system may count on of a parsing job: it ends at   *)
(* most once and for good, with the run submitted or in human review, and  *)
(* by then every chunk was either read or reported to the Learning         *)
(* service. Nothing of a file is dropped, but with the whole job.          *)
(***************************************************************************)
EXTENDS Naturals

CONSTANTS Run, Task, Nothing, Length

VARIABLES run, parsed, reported, outcome

vars == <<run, parsed, reported, outcome>>

Chunks(t) == IF run[t] = Nothing THEN {} ELSE 1 .. Length[run[t]]

Init ==
    /\ run = [t \in Task |-> Nothing]
    /\ parsed = [t \in Task |-> {}]
    /\ reported = [t \in Task |-> {}]
    /\ outcome = [t \in Task |-> "none"]

Begin(t, r) ==
    /\ run[t] = Nothing
    /\ run' = [run EXCEPT ![t] = r]
    /\ UNCHANGED <<parsed, reported, outcome>>

Working(t) == run[t] # Nothing /\ outcome[t] = "none"

Parse(t, i) ==
    /\ Working(t) /\ reported[t] = {}
    /\ parsed' = [parsed EXCEPT ![t] = @ \cup {i}]
    /\ UNCHANGED <<run, reported, outcome>>

Report(t, i) ==
    /\ Working(t) /\ i \notin parsed[t]
    /\ reported' = [reported EXCEPT ![t] = @ \cup {i}]
    /\ UNCHANGED <<run, parsed, outcome>>

\* Only a run of which something was read is submitted.
Finish(t, o) ==
    /\ Working(t)
    /\ parsed[t] \cup reported[t] = Chunks(t)
    /\ o = "submitted" => parsed[t] # {}
    /\ outcome' = [outcome EXCEPT ![t] = o]
    /\ UNCHANGED <<run, parsed, reported>>

Lose(t) ==
    /\ Working(t)
    /\ outcome' = [outcome EXCEPT ![t] = "lost"]
    /\ UNCHANGED <<run, parsed, reported>>

Next == \E t \in Task :
    \/ \E r \in Run : Begin(t, r)
    \/ \E i \in Chunks(t) : Parse(t, i) \/ Report(t, i)
    \/ \E o \in {"submitted", "human_review"} : Finish(t, o)
    \/ Lose(t)

Spec == Init /\ [][Next]_vars

=============================================================================

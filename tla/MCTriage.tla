------------------------------ MODULE MCTriage ------------------------------
(***************************************************************************)
(* Triage over the agreements on either side of every bound of the table.  *)
(***************************************************************************)
EXTENDS Triage

BoundaryAgreements == {None, 89, 90, 95, 99}
SomeConfidences == {None, 94}

=============================================================================

---------------------------- MODULE MCContention ----------------------------
(***************************************************************************)
(* Small instances of Contention, over the people, facts and calls of      *)
(* MCRemediation.                                                          *)
(***************************************************************************)
EXTENDS MCRemediation, Contention

=============================================================================

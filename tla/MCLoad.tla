------------------------------- MODULE MCLoad -------------------------------
(***************************************************************************)
(* A load test against an empty ledger for TLC.                            *)
(***************************************************************************)
EXTENDS Load

EmptyBook == [t \in {} |-> 0]
=============================================================================

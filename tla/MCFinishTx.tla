------------------------------ MODULE MCFinishTx ------------------------------
(* Two workers finish rows statement by statement, among everything else   *)
(* that is done to the table.                                              *)
EXTENDS FinishTx
=============================================================================

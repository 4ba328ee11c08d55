----------------------------- MODULE MCQboBroker -----------------------------
(* Instances of QboBroker for TLC.                                         *)
EXTENDS QboBroker
=============================================================================

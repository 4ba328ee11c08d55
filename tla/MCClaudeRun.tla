------------------------------ MODULE MCClaudeRun ------------------------------
(* Instances of ClaudeRun for TLC.                                         *)
EXTENDS ClaudeRun
=============================================================================

------------------------------- MODULE MCAskCli -------------------------------
(* Instances of AskCli for TLC.                                            *)
EXTENDS AskCli, TLC

(* Commands of a kind are interchangeable, and so are numbers.             *)
Symmetry == Permutations(Asks) \cup Permutations(Stops) \cup Permutations(Pids)
=============================================================================

------------------------------ MODULE MCRunner ------------------------------
(* Instances of Runner for TLC.                                            *)
EXTENDS Runner, TLC

(* Daemons are interchangeable, and so are chats.                          *)
Symmetry == Permutations(Daemons) \cup Permutations(Chats)
=============================================================================

------------------------------- MODULE MCJobApi -------------------------------
(* Instances of JobApi for TLC.                                            *)
EXTENDS JobApi
=============================================================================

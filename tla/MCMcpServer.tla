----------------------------- MODULE MCMcpServer -----------------------------
(* Instances of McpServer for TLC.                                         *)
EXTENDS McpServer
=============================================================================

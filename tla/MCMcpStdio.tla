------------------------------ MODULE MCMcpStdio ------------------------------
(* Instances of McpStdio for TLC.                                           *)
EXTENDS McpStdio
=============================================================================

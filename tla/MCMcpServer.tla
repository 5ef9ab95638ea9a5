----------------------------- MODULE MCMcpServer -----------------------------
(* Three calls, two of which may run together: a call can join the load of *)
(* another, and a third one come after both.                               *)
EXTENDS McpServer, TLC

CONSTANTS c1, c2, c3

MCCalls == {c1, c2, c3}
=============================================================================

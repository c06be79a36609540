----------------------------- MODULE MCMcpTasks -----------------------------
(***************************************************************************)
(* Small instances of McpTasks for TLC.                                    *)
(***************************************************************************)
EXTENDS McpTasks, TLC

CONSTANTS t1, t2, w1, w2
=============================================================================

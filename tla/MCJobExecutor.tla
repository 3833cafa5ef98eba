--------------------------- MODULE MCJobExecutor ----------------------------
(* JobExecutor for TLC: workspaces as model values.                        *)
EXTENDS JobExecutor
CONSTANTS w1, w2
=============================================================================

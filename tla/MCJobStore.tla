----------------------------- MODULE MCJobStore -----------------------------
(* JobStore for TLC: workspaces and proofs as model values.                *)
EXTENDS JobStore

CONSTANTS w1, s1
=============================================================================

------------------------ MODULE MCConfigTransaction ------------------------
(* Small workspaces for TLC.                                               *)
EXTENDS ConfigTransaction
=============================================================================

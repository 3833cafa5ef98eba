------------------------ MODULE MCWorkspaceRuntime ------------------------
(* Instances of WorkspaceRuntime for model checking: two modules, the second
   depending on the first; what each of them is differs between the runs.  *)
EXTENDS WorkspaceRuntime

CONSTANTS m1, m2

MCOrder == <<m1, m2>>
=============================================================================

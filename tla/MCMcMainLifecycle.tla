------------------------ MODULE MCMcMainLifecycle ------------------------
(***************************************************************************)
(* McMainLifecycle for TLC.  The runs differ in their bounds only.         *)
(***************************************************************************)
EXTENDS McMainLifecycle
=============================================================================

-------------------------------- MODULE Clock --------------------------------
(***************************************************************************)
(* What the models of the monitoring pages have in common: null, and the   *)
(* clock of the server.  How the clock moves each of them says for itself. *)
(***************************************************************************)
CONSTANTS
  None,     \* null
  MaxTime   \* bound: the clock

VARIABLE now
=============================================================================

----------------------- MODULE MCNotificationOutbox -----------------------
(***************************************************************************)
(* NotificationOutbox for TLC.  The run checks liveness, so it does not    *)
(* use that the dispatchers are interchangeable.                           *)
(***************************************************************************)
EXTENDS NotificationOutbox, TLC
=============================================================================

--------------------------- MODULE MCSessionQueue ---------------------------
(* The instance of SessionQueueProps that TLC checks.                       *)
EXTENDS SessionQueueProps
=============================================================================

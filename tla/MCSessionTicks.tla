--------------------------- MODULE MCSessionTicks ---------------------------
(* Instances of SessionTicks for TLC. *)
EXTENDS MCLockSessions, SessionTicks
=============================================================================

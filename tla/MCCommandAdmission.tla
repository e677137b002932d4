------------------------- MODULE MCCommandAdmission -------------------------
(* Two actions against a limit of one, two dispatches racing for the lock,  *)
(* two minutes so that a key can be built before a tick and used after it.  *)
EXTENDS CommandAdmission

CONSTANTS d1, d2, lock, wifi
=============================================================================

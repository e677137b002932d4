----------------------------- MODULE MCPresence -----------------------------
(* Two connections of one device, the second one arriving while the first   *)
(* may still be ending.                                                     *)
EXTENDS Presence
=============================================================================

------------------------------- MODULE MCAmapi -------------------------------
(* Instances of Amapi for TLC.                                             *)
EXTENDS Amapi

=============================================================================

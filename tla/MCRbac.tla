-------------------------------- MODULE MCRbac --------------------------------
(* Instances of Rbac for TLC.                                              *)
EXTENDS Rbac

MCUsers  == {"admin", "bob"}
MCCustom == {"TEAM"}
=============================================================================

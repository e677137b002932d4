----------------------------- MODULE MCEnrollment -----------------------------
(* Instances of Enrollment for TLC.                                        *)
EXTENDS Enrollment

CONSTANT p1

MCOneProfile == {p1}
=============================================================================

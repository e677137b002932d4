------------------------------ MODULE MCPolicies ------------------------------
(* Instances of Policies and its evaluations for TLC.                       *)
EXTENDS PolicyEvaluation

CONSTANTS p1, p2

MCIds    == {p1, p2}
MCLinked == {p1}
=============================================================================

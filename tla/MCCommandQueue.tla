--------------------------- MODULE MCCommandQueue ---------------------------
(* Instances of CommandQueue for TLC.  Handlers are interchangeable in the  *)
(* safety runs, so they form a symmetry set there.                          *)
EXTENDS CommandQueue, TLC

SessionSymmetry == Permutations(Sessions)
=============================================================================

--------------------------- MODULE MCOfflineQueue ---------------------------
(* A queue of two places instead of twenty, a pause after one event instead  *)
(* of five, and the two coroutines that flush.                              *)
EXTENDS OfflineQueue

TwoFlushers == {"poll", "onOpen"}

(* The second of three events is a result, the others are either: at the cap *)
(* an event of each kind meets a list with and without a state report.       *)
ThreeEvents == <<{PrioResult, PrioState}, {PrioResult}, {PrioResult, PrioState}>>
=============================================================================

---------------------------- MODULE MCCompliance ----------------------------
(* One device on two connections that overlap, whose policy has one        *)
(* category.  The connections are alike, so the first is the one it begins *)
(* with.                                                                   *)
EXTENDS Compliance
CONSTANTS kiosk, first, second
MCCats     == {kiosk}
MCUpdates  == {{kiosk}}
MCSockets  == {first, second}
MCInit     == Init /\ link = first
MCLiveSpec == MCInit /\ [][Next]_vars /\ Fairness
=============================================================================

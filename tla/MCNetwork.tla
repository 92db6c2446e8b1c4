----------------------------- MODULE MCNetwork -----------------------------
(* Instances of Network for TLC.                                           *)
EXTENDS Network
CONSTANTS me, hub, s1, s2, f1, k1, k2
=============================================================================

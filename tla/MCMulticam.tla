----------------------------- MODULE MCMulticam -----------------------------
(* The instance of Multicam for TLC: two cameras.                           *)
EXTENDS Multicam

CONSTANTS c1, c2

MCCamList == <<c1, c2>>
=============================================================================

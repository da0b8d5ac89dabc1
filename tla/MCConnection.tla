---------------------------- MODULE MCConnection ----------------------------
(* Instances of Connection for TLC: two cameras that take each other's      *)
(* place, plugged in up to three times.                                     *)
EXTENDS Connection

=============================================================================

-------------------------- MODULE MCTransportBuffer --------------------------
(* Instances of TransportBuffer for TLC: a packet of two bytes, URBs of two *)
(* packets, control reads of up to a byte more than a packet, blocks of up  *)
(* to more than two URBs.                                                   *)
EXTENDS TransportBuffer

=============================================================================

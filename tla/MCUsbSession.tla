---------------------------- MODULE MCUsbSession ----------------------------
(* Instances of UsbSession for TLC: payloads of up to two blocks, up to     *)
(* three containers in the pipe.                                            *)
EXTENDS UsbSession

=============================================================================

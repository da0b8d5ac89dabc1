----------------------------- MODULE MCPtpCalls -----------------------------
(* Instances of PtpCalls for TLC: one operation for each shape of a data     *)
(* phase, payloads of up to three units in blocks of two.                    *)
EXTENDS PtpCalls

MCShape == [Open |-> "nodata", Close |-> "nodata", DevInfo |-> "get",
            nodata |-> "nodata", send |-> "send", get |-> "get", file |-> "file"]
=============================================================================

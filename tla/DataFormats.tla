---------------------------- MODULE DataFormats ----------------------------
(***************************************************************************)
(* The data the program takes apart and puts together in memory: byte      *)
(* buffers, raw images bound to them, images of the live view and the data *)
(* sets of PTP.  A script works on one kind of object at a time; the kinds *)
(* share no state but the bytes of a buffer, which each module keeps for   *)
(* itself, so every behaviour follows one of them.                         *)
(***************************************************************************)
EXTENDS RawImg, LiveImg, Lbuf, PtpPack

VARIABLE tool
vars == <<tool, raw, rawPix, rawCall, rawLeft, live, liveLeft, lb, lbCall, lbLeft, pack>>

Init == RawInit /\ LiveInit /\ LbufInit /\ PackInit
        /\ tool \in {"rawimg", "liveimg", "lbuf", "ptppack"}

RawStep  == tool = "rawimg" /\ RawNext /\ UNCHANGED <<tool, liveVars, lbVars, pack>>
LiveStep == tool = "liveimg" /\ LiveNext /\ UNCHANGED <<tool, rawVars, lbVars, pack>>
LbufStep == tool = "lbuf" /\ LbufNext /\ UNCHANGED <<tool, rawVars, liveVars, pack>>
PackStep == tool = "ptppack" /\ PackNext /\ UNCHANGED <<tool, rawVars, liveVars, lbVars>>

Next == RawStep \/ LiveStep \/ LbufStep \/ PackStep
Spec == Init /\ [][Next]_vars

\* The kinds of objects are well formed: buffers keep their length, raw images
\* lie inside theirs, and planar images have their planes.
TypeOK == RawTypeOK /\ LiveTypeOK /\ LbufTypeOK

=============================================================================

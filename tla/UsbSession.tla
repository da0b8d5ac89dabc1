----------------------------- MODULE UsbSession -----------------------------
(***************************************************************************)
(* One camera on USB: the PTP transactions of ptp.c (request, data phase,  *)
(* response), the sequences of transactions by which chdkptp.c opens and   *)
(* closes the camera, the two bulk pipes and the responder in the camera.  *)
(*                                                                         *)
(* Any error makes a transaction return at once, with whatever the camera  *)
(* had still to send left in the pipe: the next transaction reads it.      *)
(* Containers carry the transaction id of their request, but no code       *)
(* compares it, so the model has no ids.  Instead every container and the  *)
(* camera's current job are marked with whether they belong to the         *)
(* transaction the host has in progress (or finished last): Begin makes    *)
(* all older ones foreign.                                                 *)
(*                                                                         *)
(* The camera (Cam...) is external: it is modelled as a PTP responder that *)
(* answers requests in order.                                              *)
(***************************************************************************)
EXTENDS Integers, Sequences

CONSTANTS
    MaxBlocks,     \* bound on the payload blocks of a data phase
    PipeMax,       \* containers the camera can have sent ahead of the host
    MaxFaults      \* bound on late answers, failed writes, handlers, resets

ASSUME BlocksAssumption == MaxBlocks \in Nat \ {0}
ASSUME PipeAssumption   == PipeMax \in Nat \ {0}
ASSUME FaultsAssumption == MaxFaults \in Nat

VARIABLES
    usb_reset_on_close, \* the preference, not changed while the program runs
    connected,   \* ptp_cs->connected
    proc,        \* the step of the open, close or call sequence under way
    tx,          \* the phase of the transaction under way, "none" if none
    op,          \* its operation
    left,        \* payload blocks its data phase has still to read
    rc,          \* result of the last transaction
    own,         \* whether all it accepted belonged to it
    synced,      \* whether pipes and camera were idle when it began
    outq, inq,   \* bulk pipes to and from the camera
    cam,         \* the camera's job, [phase |-> "idle"...] if it has none
    session,     \* whether the camera has a session open
    faults       \* faults that have happened

host == <<connected, proc, tx, op, left, rc, own, synced>>
vars == <<usb_reset_on_close, host, outq, inq, cam, session, faults>>

-----------------------------------------------------------------------------
\* Operations: their data phase, and the code their containers carry.  All
\* CHDK operations share PTP_OC_CHDK.
DataPhase == [Open |-> "nodata", Close |-> "nodata", DevInfo |-> "get",
              Status |-> "nodata", Exec |-> "send", ReadMsg |-> "get"]
ChdkOps   == {"Status", "Exec", "ReadMsg"}
Code(o)   == IF o \in ChdkOps THEN "CHDK" ELSE o

Idle == [phase |-> "idle", op |-> "Close", mine |-> FALSE, left |-> 0]

\* Nothing is on its way and the camera waits for a request.
InSync == inq = <<>> /\ outq = <<>> /\ cam.phase = "idle"

Foreign(x) == [x EXCEPT !.mine = FALSE]
AllForeign(q) == [i \in DOMAIN q |-> Foreign(q[i])]

Fault == faults < MaxFaults /\ faults' = faults + 1

-----------------------------------------------------------------------------
\* The camera.
CamRequest ==
    /\ cam.phase \in {"idle", "waitdata"} /\ outq # <<>> /\ Head(outq).type = "REQ"
    /\ outq' = Tail(outq)
    /\ \E n \in 1..MaxBlocks :
         cam' = [phase |-> CASE DataPhase[Head(outq).op] = "get"  -> "data"
                             [] DataPhase[Head(outq).op] = "send" -> "waitdata"
                             [] OTHER                             -> "resp",
                 op |-> Head(outq).op, mine |-> Head(outq).mine, left |-> n]
    /\ UNCHANGED <<host, inq, session, faults>>

CamDataIn ==
    /\ outq # <<>> /\ Head(outq).type = "DATA" /\ cam.phase \in {"idle", "waitdata"}
    /\ outq' = Tail(outq)
    /\ cam' = IF cam.phase = "waitdata" THEN [cam EXCEPT !.phase = "resp"] ELSE cam
    /\ UNCHANGED <<host, inq, session, faults>>

CamSend(c) ==
    /\ Len(inq) < PipeMax
    /\ inq' = Append(inq, c)
    /\ UNCHANGED <<host, outq, faults>>

CamData ==
    /\ cam.phase = "data" /\ (cam.op = "DevInfo" \/ session)
    /\ CamSend([type |-> "DATA", code |-> Code(cam.op), mine |-> cam.mine, n |-> cam.left])
    /\ cam' = [cam EXCEPT !.phase = "payload"]
    /\ UNCHANGED session

CamBlock ==
    /\ cam.phase = "payload"
    /\ CamSend([type |-> "block", code |-> "none", mine |-> cam.mine, n |-> 0])
    /\ cam' = [cam EXCEPT !.left = cam.left - 1,
                          !.phase = IF cam.left = 1 THEN "resp" ELSE "payload"]
    /\ UNCHANGED session

\* The response: an error if the operation does not suit the session state,
\* or if the camera refuses it, also in place of the data phase.
CamResponse ==
    /\ cam.phase \in {"resp", "data"}
    /\ \E ok \in BOOLEAN :
        /\ cam.phase = "data" => ~ok
        /\ cam.op = "Open" => ok = ~session
        /\ (cam.op \in ChdkOps \cup {"Close"} /\ ~session) => ~ok
        /\ cam.op = "DevInfo" => ok
        /\ cam.op = "Close" /\ session => ok
        /\ CamSend([type |-> "RESPONSE", code |-> IF ok THEN "OK" ELSE "Refused",
                    mine |-> cam.mine, n |-> 0])
        /\ session' = CASE cam.op = "Open"  -> TRUE
                        [] cam.op = "Close" -> FALSE
                        [] OTHER            -> session
        /\ cam' = Idle

\* A device or bus reset: the camera drops its job, its session and whatever
\* is in the pipes.
ResetEffect ==
    /\ outq' = <<>> /\ inq' = <<>> /\ cam' = Idle /\ session' = FALSE

Camera ==
    /\ CamRequest \/ CamDataIn \/ CamData \/ CamBlock \/ CamResponse
    /\ UNCHANGED usb_reset_on_close

-----------------------------------------------------------------------------
\* ptp_transaction: the request of operation o goes out as soon as the pipe
\* takes it.  Everything older becomes foreign.
Begin(o) ==
    /\ tx' = "sendreq" /\ op' = o /\ left' = 0 /\ rc' = "none" /\ own' = TRUE

Return(result) == tx' = "none" /\ rc' = result /\ left' = 0

\* usb_bulk_write completes when the camera takes the packet, so at most one
\* container waits in the pipe; a camera that is stuck sending takes none.
WriteOK == outq = <<>>
CamStuck == cam.phase # "idle" /\ Len(inq) = PipeMax

SendReq ==
    /\ tx = "sendreq"
    /\ WriteOK
    /\ synced' = InSync
    /\ outq' = <<[type |-> "REQ", op |-> op, mine |-> TRUE]>>
    /\ inq' = AllForeign(inq)
    /\ cam' = Foreign(cam)
    /\ tx' = CASE DataPhase[op] = "get"  -> "datahdr"
               [] DataPhase[op] = "send" -> "senddata"
               [] OTHER                  -> "resp"
    /\ UNCHANGED <<connected, proc, op, left, rc, own, session, faults>>

SendData ==
    /\ tx = "senddata"
    /\ WriteOK
    /\ outq' = <<[type |-> "DATA", op |-> op, mine |-> TRUE]>>
    /\ tx' = "resp"
    /\ UNCHANGED <<connected, proc, op, left, rc, own, synced, inq, cam, session, faults>>

\* A write times out after five seconds: the transaction returns an IO error.
\* A request that was never taken leaves older containers as they were.
WriteFail ==
    /\ tx \in {"sendreq", "senddata"}
    /\ \/ ~WriteOK /\ CamStuck /\ UNCHANGED faults
       \/ Fault
    /\ Return("io")
    /\ own' = FALSE
    /\ synced' = (synced /\ tx = "senddata")
    /\ UNCHANGED <<connected, proc, op, outq, inq, cam, session>>

\* A read times out: the camera has nothing to send, or is late.
ReadFail ==
    /\ tx \in {"datahdr", "payload", "resp"} /\ inq = <<>>
    /\ \/ cam.phase \in {"idle", "waitdata"} /\ outq = <<>> /\ UNCHANGED faults
       \/ Fault
    /\ Return("io")
    /\ UNCHANGED <<connected, proc, op, own, synced, outq, inq, cam, session>>

\* ptp_usb_read_control in the middle of a payload: twelve of its bytes are
\* taken for a header of unknown type.  They may be the block's last.
ReadGarbage ==
    /\ tx \in {"datahdr", "resp"} /\ inq # <<>> /\ Head(inq).type = "block"
    /\ inq' \in {inq, Tail(inq)}
    /\ Return("badparam")
    /\ UNCHANGED <<connected, proc, op, own, synced, outq, cam, session, faults>>

\* Faulty variant: a response in place of the data header is only looked at.
GetDataHeader_Peek ==
    /\ tx = "datahdr" /\ inq # <<>> /\ Head(inq).type # "block"
    /\ own' = (own /\ Head(inq).mine)
    /\ \/ Head(inq).type # "DATA" /\ Return("data_expected") /\ UNCHANGED inq
       \/ /\ Head(inq).type = "DATA" /\ inq' = Tail(inq)
          /\ tx' = "payload" /\ left' = Head(inq).n /\ UNCHANGED rc
    /\ UNCHANGED <<connected, proc, op, synced, outq, cam, session, faults>>

\* Faulty variant: the type of the container is not checked.
GetDataHeader_AnyType ==
    /\ tx = "datahdr" /\ inq # <<>> /\ Head(inq).type # "block"
    /\ inq' = Tail(inq)
    /\ own' = (own /\ Head(inq).mine)
    /\ tx' = "payload" /\ left' = 1 /\ UNCHANGED rc
    /\ UNCHANGED <<connected, proc, op, synced, outq, cam, session, faults>>

\* ptp_usb_getdata up to the payload.
GetDataHeader ==
    /\ tx = "datahdr" /\ inq # <<>> /\ Head(inq).type # "block"
    /\ inq' = Tail(inq)
    /\ own' = (own /\ Head(inq).mine)
    /\ \/ Head(inq).type # "DATA" /\ Return("data_expected")
       \/ /\ Head(inq).type = "DATA" /\ Head(inq).code # Code(op)
          /\ Return("code")
       \/ /\ Head(inq).type = "DATA" /\ Head(inq).code = Code(op)
          /\ tx' = "payload" /\ left' = Head(inq).n /\ UNCHANGED rc
    /\ UNCHANGED <<connected, proc, op, synced, outq, cam, session, faults>>

\* Faulty variant: the loop runs once too often.
GetBlock_OneMore ==
    /\ tx = "payload" /\ inq # <<>>
    /\ inq' = Tail(inq)
    /\ own' = (own /\ Head(inq).mine)
    /\ left' = left - 1
    /\ tx' = IF left = 0 THEN "resp" ELSE "payload"
    /\ UNCHANGED <<connected, proc, op, rc, synced, outq, cam, session, faults>>

\* One block of the payload is read and handed to the handler, if there is one.
GetBlock ==
    /\ tx = "payload" /\ inq # <<>>
    /\ inq' = Tail(inq)
    /\ own' = (own /\ Head(inq).mine)
    /\ left' = left - 1
    /\ tx' = IF left = 1 THEN "resp" ELSE "payload"
    /\ UNCHANGED <<connected, proc, op, rc, synced, outq, cam, session, faults>>

\* The handler fails (a full disk, an error in Lua), or no memory is left for
\* the payload: the transaction returns without reading the rest.
HandlerFail ==
    /\ tx = "payload" /\ Fault
    /\ \/ UNCHANGED inq
       \/ inq # <<>> /\ inq' = Tail(inq)
    /\ Return("handler")
    /\ UNCHANGED <<connected, proc, op, own, synced, outq, cam, session>>

\* ptp_usb_getresp, as it is: the type and the response code are looked at.
GetResp ==
    /\ tx = "resp" /\ inq # <<>> /\ Head(inq).type # "block"
    /\ inq' = Tail(inq)
    /\ own' = (own /\ Head(inq).mine)
    /\ Return(IF Head(inq).type # "RESPONSE" THEN "resp_expected"
              ELSE IF Head(inq).code # "OK" THEN "code" ELSE "OK")
    /\ UNCHANGED <<connected, proc, op, synced, outq, cam, session, faults>>

Transaction ==
    /\ \/ SendReq \/ SendData \/ WriteFail \/ ReadFail
       \/ ReadGarbage \/ GetDataHeader \/ GetBlock \/ HandlerFail \/ GetResp
    /\ UNCHANGED usb_reset_on_close

-----------------------------------------------------------------------------
\* init_ptp_usb on a camera whose input pipe holds q: the packet buffer is
\* emptied, and with it the container that had been read ahead, if any.
Buffered(q) ==
    IF q # <<>> /\ Head(q).type \in {"block", "RESPONSE"} THEN {q, Tail(q)} ELSE {q}

\* con:connect: open_camera_dev_usb up to the first OpenSession.
Connect ==
    /\ ~connected /\ proc = "none"
    /\ proc' = "open1" /\ Begin("Open")
    /\ inq' \in Buffered(inq)
    /\ UNCHANGED <<usb_reset_on_close, connected, synced, outq, cam, session, faults>>

\* Faulty variant: the second attempt is made without a reset.
ResetAndRetry_NoReset ==
    /\ proc = "open1" /\ tx = "none" /\ rc # "OK"
    /\ proc' = "open2" /\ Begin("Open")
    /\ inq' \in Buffered(inq)
    /\ UNCHANGED <<connected, synced, outq, cam, session, faults>>

\* OpenSession failed: reset the device (the request may fail, which is only
\* printed), close it, which is a bus reset if the preference is set, reopen it
\* and try once more.
ResetAndRetry ==
    /\ proc = "open1" /\ tx = "none" /\ rc # "OK"
    /\ proc' = "open2" /\ Begin("Open")
    /\ \/ ResetEffect /\ UNCHANGED faults
       \/ ~usb_reset_on_close /\ Fault /\ inq' \in Buffered(inq) /\ UNCHANGED <<outq, cam, session>>
    /\ UNCHANGED <<connected, synced>>

\* Faulty variant: the device info is not asked for.
SessionOpened_Trust ==
    /\ proc \in {"open1", "open2"} /\ tx = "none" /\ rc = "OK"
    /\ proc' = "none" /\ connected' = TRUE
    /\ UNCHANGED <<tx, op, left, rc, own, synced, outq, inq, cam, session, faults>>

\* OpenSession succeeded: ask for the device info.
SessionOpened ==
    /\ proc \in {"open1", "open2"} /\ tx = "none" /\ rc = "OK"
    /\ proc' = "devinfo" /\ Begin("DevInfo")
    /\ UNCHANGED <<connected, synced, outq, inq, cam, session, faults>>

\* The second OpenSession failed too: give up, leaving things as they are.
OpenFailed ==
    /\ proc = "open2" /\ tx = "none" /\ rc # "OK"
    /\ proc' = "none"
    /\ UNCHANGED <<connected, tx, op, left, rc, own, synced, outq, inq, cam, session, faults>>

\* The device info arrived: connected.
Opened ==
    /\ proc = "devinfo" /\ tx = "none" /\ rc = "OK"
    /\ proc' = "none" /\ connected' = TRUE
    /\ UNCHANGED <<tx, op, left, rc, own, synced, outq, inq, cam, session, faults>>

\* close_camera: after a failed device info, or by con:disconnect.
CloseCamera ==
    /\ \/ proc = "devinfo" /\ tx = "none" /\ rc # "OK"
       \/ proc = "none" /\ tx = "none" /\ connected
    /\ proc' = "close" /\ Begin("Close")
    /\ UNCHANGED <<usb_reset_on_close, connected, synced, outq, inq, cam, session, faults>>

\* close_usb, whatever CloseSession returned; then not connected.
CloseUsb ==
    /\ proc = "close" /\ tx = "none"
    /\ proc' = "none" /\ connected' = FALSE
    /\ IF usb_reset_on_close THEN ResetEffect ELSE UNCHANGED <<outq, inq, cam, session>>
    /\ UNCHANGED <<tx, op, left, rc, own, synced, faults>>

\* A CHDK operation called from Lua on a connected camera.
Call ==
    /\ connected /\ proc = "none" /\ tx = "none"
    /\ proc' = "call" /\ \E o \in ChdkOps : Begin(o)
    /\ UNCHANGED <<usb_reset_on_close, connected, synced, outq, inq, cam, session, faults>>

\* It returns to Lua, with a result or by throwing.
CallDone ==
    /\ proc = "call" /\ tx = "none"
    /\ proc' = "none"
    /\ UNCHANGED <<connected, tx, op, left, rc, own, synced, outq, inq, cam, session, faults>>

Procedure ==
    /\ \/ ResetAndRetry \/ SessionOpened \/ OpenFailed \/ Opened
       \/ CloseUsb \/ CallDone
    /\ UNCHANGED usb_reset_on_close

Init ==
    /\ usb_reset_on_close \in BOOLEAN
    /\ connected = FALSE /\ proc = "none" /\ tx = "none" /\ op = "Close"
    /\ left = 0 /\ rc = "none" /\ own = TRUE /\ synced = TRUE
    /\ outq = <<>> /\ inq = <<>> /\ cam = Idle
    /\ session \in BOOLEAN       \* another program may have left one open
    /\ faults = 0

Next == Camera \/ Transaction \/ Procedure \/ Connect \/ CloseCamera \/ Call

Spec == Init /\ [][Next]_vars

\* The camera and the host program keep going, and somebody keeps trying to
\* connect while there is no connection.
Fairness ==
    /\ WF_vars(Camera) /\ WF_vars(Transaction) /\ WF_vars(Procedure)
    /\ WF_vars(Connect)
    /\ WF_vars(proc = "devinfo" /\ CloseCamera)

FairSpec == Spec /\ Fairness

-----------------------------------------------------------------------------
Containers == [type : {"DATA", "block", "RESPONSE"}, mine : BOOLEAN, n : 0..MaxBlocks,
               code : {"none", "CHDK", "DevInfo", "OK", "Refused"}]

TypeOK ==
    /\ usb_reset_on_close \in BOOLEAN
    /\ connected \in BOOLEAN /\ own \in BOOLEAN /\ synced \in BOOLEAN
    /\ session \in BOOLEAN /\ faults \in 0..MaxFaults
    /\ proc \in {"none", "open1", "open2", "devinfo", "close", "call"}
    /\ tx \in {"none", "sendreq", "senddata", "datahdr", "payload", "resp"}
    /\ op \in DOMAIN DataPhase /\ left \in 0..MaxBlocks
    /\ rc \in {"none", "OK", "code", "io", "badparam", "handler",
               "data_expected", "resp_expected"}
    /\ inq \in Seq(Containers) /\ Len(inq) <= PipeMax
    /\ outq \in Seq([type : {"REQ", "DATA"}, op : DOMAIN DataPhase, mine : BOOLEAN])
    /\ cam \in [phase : {"idle", "waitdata", "data", "payload", "resp"},
                op : DOMAIN DataPhase, mine : BOOLEAN, left : 0..MaxBlocks]

SyncKept ==
    (tx = "none" /\ synced /\ rc \in {"OK", "code", "data_expected"}) => InSync

PayloadAligned ==
    tx = "payload" => \A i \in 1..left : i <= Len(inq) => inq[i].type = "block"

\* A transaction that started on idle pipes and got an answer, be it success,
\* the camera's error code or a refusal in place of the data phase
\* (PTP_ERROR_DATA_EXPECTED), leaves the pipes idle: ptp_transaction reads
\* exactly one transaction's containers on each of those paths.  And every
\* payload read is preceded by the header that announced it: the blocks
\* ptp_usb_getdata counts down are the next things in the pipe.
PipesInStep == SyncKept /\ PayloadAligned

\* con:connect reports success only on a synchronised connection, whatever
\* the previous one left in the pipes: the OpenSession and GetDeviceInfo pair
\* of open_camera_dev_usb detects any leftover.  That is so with
\* usb_reset_on_close set, the default but on Windows.
ConnectSyncs ==
    [][(usb_reset_on_close /\ connected' /\ ~connected) => InSync']_vars

\* Upon success the container holds the response to this request (comment of
\* ptp_transaction), also after earlier transactions have failed.
OkMeansOwn == (tx = "none" /\ rc = "OK") => own

\* As long as somebody tries again, a camera that stops failing is connected
\* in the end, whatever state the pipes and its session were left in.
Reconnects == ~connected ~> connected
=============================================================================

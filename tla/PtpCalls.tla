------------------------------ MODULE PtpCalls ------------------------------
(***************************************************************************)
(* The methods of a connection that fetch or send data, on PTP/IP: the     *)
(* functions of ptp.c that run one transaction or, for a download, two,    *)
(* and their Lua bindings in chdkptp.c, which throw what is not OK and     *)
(* turn the rest into values and lbufs.  A method that finds its arguments *)
(* wrong, or cannot open the local file, throws before it sends anything.  *)
(***************************************************************************)
EXTENDS PtpIp

CONSTANT MaxBacklog \* bound on what failed calls have left unread when the next is made

ASSUME BacklogAssumption == MaxBacklog \in Nat
\* The methods name the operation of a transaction by its data phase.
ASSUME OpsAssumption == \A o \in {"nodata", "send", "get", "file"} : o \in DOMAIN Shape /\ Shape[o] = o

VARIABLES
    call,        \* the method under way, Idle if none
    step         \* which of its transactions

callvars == <<ipvars, call, step>>

-----------------------------------------------------------------------------
\* A method: its transactions, and where the length of the data it returns
\* comes from: an argument that goes out with the request ("arg"), one that does
\* not, so that the camera decides ("caller"), the response ("resp"), the data
\* ("data").
Method(ops, len) == [ops |-> ops, len |-> len]

Idle == Method(<<>>, "data")

chdk_camera_api_version == Method(<<"nodata">>, "data")
chdk_capture_ready      == Method(<<"nodata">>, "data")
chdk_upload             == Method(<<"send">>, "data")
chdk_call_function      == Method(<<"send">>, "data")
chdk_ptp_send_object    == Method(<<"send">>, "data")
chdk_getmem             == Method(<<"get">>, "arg")
chdk_ptp_get_object     == Method(<<"get">>, "caller")
chdk_capture_get_chunk  == Method(<<"get">>, "resp")
chdk_get_live_data      == Method(<<"get">>, "resp")

\* The name of the file goes first, as temporary data; then the file is
\* fetched block by block into the local file, emptied before.
chdk_download           == Method(<<"send", "file">>, "data")

Methods == {chdk_camera_api_version, chdk_capture_ready, chdk_upload, chdk_call_function,
            chdk_ptp_send_object, chdk_getmem, chdk_ptp_get_object,
            chdk_capture_get_chunk, chdk_get_live_data, chdk_download}

\* Only a connected connection takes a call.
Call ==
    /\ connected /\ proc = "none" /\ Len(inq) + Len(outq) <= MaxBacklog
    /\ \E m \in Methods, n \in 1..MaxUnits :
        /\ call' = m /\ step' = 1
        /\ Begin(m.ops[1], IF m.len = "arg" THEN n ELSE 0)
    /\ proc' = "call"
    /\ UNCHANGED <<connected, sockets, wire, faults>>

\* The next transaction, if the one before went well.
NextTransaction ==
    /\ proc = "call" /\ tx = "none" /\ rc = "OK" /\ step < Len(call.ops)
    /\ step' = step + 1 /\ Begin(call.ops[step + 1], 0)
    /\ UNCHANGED <<call, connected, sockets, proc, wire, faults>>

\* How much of the data that arrived the returned string or lbuf takes in; for
\* "caller" that is not known from the transaction.
Taken == CASE call.len = "arg"  -> want
           [] call.len = "resp" -> param
           [] OTHER             -> Len(gd.out)

\* The method returns a value or throws.
CallReturn ==
    /\ proc = "call" /\ tx = "none" /\ (rc # "OK" \/ step = Len(call.ops))
    /\ proc' = "none" /\ call' = Idle /\ step' = 1 /\ Forget
    /\ UNCHANGED <<connected, sockets, wire, faults>>

-----------------------------------------------------------------------------
IpStep == CamAnswer \/ CamGone \/ Transaction \/ Procedure \/ Connect \/ CloseCamera

Init == IpInit /\ call = Idle /\ step = 1

Next ==
    \/ IpStep /\ UNCHANGED <<call, step>>
    \/ Call \/ NextTransaction \/ CallReturn

Spec == Init /\ [][Next]_callvars

\* The camera answers as long as it is connected, and the program runs on.
Rest == UNCHANGED <<call, step>>
Fairness ==
    /\ WF_callvars(CamAnswer /\ Rest) /\ WF_callvars(Transaction /\ Rest)
    /\ WF_callvars(Procedure /\ Rest) /\ WF_callvars(NextTransaction \/ CallReturn)
    /\ WF_callvars(proc = "failed" /\ CloseCamera /\ Rest)

FairSpec == Spec /\ Fairness

-----------------------------------------------------------------------------
TypeOK ==
    /\ IpTypeOK
    /\ call \in Methods \cup {Idle} /\ step \in 1..2

FileSound ==
    (op = "file" /\ own) =>
        /\ \A i \in DOMAIN gd.out : gd.out[i] = i
        /\ (tx = "none" /\ rc = "OK") => Len(gd.out) = param

BuffersKept ==
    /\ gd.read <= gd.total /\ Len(gd.block) <= BlockUnits
    /\ (proc = "call" /\ tx = "none" /\ rc = "OK" /\ own /\ call.len # "caller")
           => Taken <= Len(gd.out)

\* A download that returns has written every byte of the remote file once and in
\* order to the local one, whatever packets and blocks it came in; one that throws
\* has written a beginning of it.  Nothing is written past the memory
\* ptp_tcp_getdata allocated for the length in START_DATA or past the block, also
\* when the stream is out of step; and the lbuf or string a call returns lies
\* within the data that arrived, though its length is the one the caller asked
\* the camera for or the one in the response.  ptp_get_object is exempt: GetObject
\* carries only the handle, and the lbuf has the caller's size whatever the camera
\* sent ("we don't get transferred size", chdkptp.c:2139), so an object shorter
\* than that is read past its end.
DataSound == FileSound /\ BuffersKept

\* No read has a timeout, and still each connect, disconnect and call returns,
\* as long as the camera answers or the connection is closed: the program
\* never waits for more than the camera sends, even out of step.
CallsReturn == proc # "none" ~> proc = "none"
=============================================================================

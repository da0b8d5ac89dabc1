-------------------------------- MODULE PtpIp --------------------------------
(***************************************************************************)
(* One camera on PTP/IP: how init_ptp_tcp and close_camera_tcp of          *)
(* chdkptp.c open and close the command and the event socket, and the      *)
(* ptp_tcp functions of ptp.c that carry a transaction over the command    *)
(* socket.  No read has a timeout: the host waits until something comes or *)
(* the connection is closed.                                               *)
(*                                                                         *)
(* The stream from the camera is a sequence of items: a header (with the   *)
(* fields ptp_tcp_read_control reads), or one unit of payload.  However    *)
(* TCP splits the stream, a read of an item returns that item, which is    *)
(* what TransportBuffer shows of ptp_control_read_buffered and             *)
(* ptp_tcp_read_data; only the handshake reads the socket directly.  No    *)
(* code compares transaction ids.  Items and requests are marked with      *)
(* whether they belong to the host's latest transaction.                   *)
(*                                                                         *)
(* The camera (Cam...) is external: a responder that answers requests in   *)
(* order and sends well-formed packets, cut into packets as it likes.      *)
(***************************************************************************)
EXTENDS Integers, Sequences, SequencesExt, FiniteSetsExt

CONSTANTS
    Shape,       \* the operations, and their data phase: "nodata", "send", "get", "file"
    MaxUnits,    \* bound on the payload of a data phase, in units
    BlockUnits,  \* units in a block handed to the handler of a download
    MaxFaults    \* bound on refused connections, lost connections, failed handlers

ASSUME ShapeAssumption ==
    /\ {"Open", "Close", "DevInfo"} \subseteq DOMAIN Shape
    /\ \A o \in DOMAIN Shape : Shape[o] \in {"nodata", "send", "get", "file"}
    /\ Shape["Open"] = "nodata" /\ Shape["Close"] = "nodata" /\ Shape["DevInfo"] = "get"
ASSUME UnitsAssumption  == MaxUnits \in Nat \ {0} /\ BlockUnits \in Nat \ {0}
ASSUME FaultsAssumption == MaxFaults \in Nat

VARIABLES
    connected,   \* ptp_cs->connected
    cmd_sock, event_sock, \* whether ptp_cs->tcp holds an open socket
    ai,          \* whether it holds a list of addresses
    id,          \* whether the whole acknowledgement, with the connection id, was read
    opened,      \* sockets open of those that the last con:connect created
    leaked,      \* of which no variable holds the descriptor any more
    proc,        \* step of the connect, disconnect or call under way
    tx, op,      \* phase and operation of the transaction under way
    gd,          \* ptp_tcp_getdata: sizes counted, block and data delivered
    rc,          \* result of the last transaction
    want,        \* the length its request asks for, 0 if the camera decides
    param,       \* the size in its response, 0 if it has none
    own,         \* whether all it read belonged to it
    synced,      \* whether nothing else was on its way when it began
    outq, inq,   \* requests on their way, items on their way
    link,        \* the command connection: "none", "up", or "lost"
    session,     \* whether the camera has a session open
    faults       \* faults that have happened

sockets == <<cmd_sock, event_sock, ai, id, opened, leaked>>
trans   == <<tx, op, gd, rc, want, param, own, synced>>
wire    == <<outq, inq, link, session>>
ipvars  == <<connected, sockets, proc, trans, wire, faults>>

-----------------------------------------------------------------------------
Item(type, v) == [type |-> type, v |-> v, mine |-> TRUE]
Refused == -1                       \* v of an error response
Headers == {"START_DATA", "DATA", "END_DATA", "RESP"}
Foreign(q) == [i \in DOMAIN q |-> [q[i] EXCEPT !.mine = FALSE]]

InSync == inq = <<>> /\ outq = <<>>
Fault  == faults < MaxFaults /\ faults' = faults + 1

-----------------------------------------------------------------------------
\* The camera.  A data phase of n units whose packets start at the units in
\* starts; the last packet may be the END_DATA packet.
DataPackets(n, starts, inEnd) ==
    LET Size(i) == Min({j \in starts \cup {n + 1} : j > i}) - i
        Type(i) == IF inEnd /\ i + Size(i) = n + 1 THEN "END_DATA" ELSE "DATA"
        Part(i) == (IF i \in starts THEN <<Item(Type(i), Size(i))>> ELSE <<>>)
                   \o <<Item("unit", i)>>
    IN  <<Item("START_DATA", n)>>
        \o (IF n = 0 /\ ~inEnd THEN <<Item("DATA", 0)>> ELSE <<>>)
        \o FlattenSeq([i \in 1..n |-> Part(i)])
        \o (IF n = 0 \/ ~inEnd THEN <<Item("END_DATA", 0)>> ELSE <<>>)

DataPhases(n) ==
    {DataPackets(n, starts, inEnd) :
        starts \in {s \in SUBSET (1..n) : n > 0 => 1 \in s}, inEnd \in BOOLEAN}

\* Only a file may be empty.
Lengths(r) == IF Shape[r.op] \notin {"get", "file"} THEN {0}
              ELSE IF r.want > 0 THEN {r.want}
              ELSE IF Shape[r.op] = "file" THEN 0..MaxUnits ELSE 1..MaxUnits

\* The camera answers the oldest request: with an error, also after or in
\* place of the data, or as asked.
CamAnswer ==
    /\ link = "up" /\ outq # <<>>
    /\ LET r == Head(outq)
           Mark(q) == IF r.mine THEN q ELSE Foreign(q)
       IN  /\ Shape[r.op] = "send" => r.data
           /\ outq' = Tail(outq)
           /\ \E ok \in BOOLEAN, n \in Lengths(r) :
               /\ r.op = "Open" => ok = ~session
               /\ ~session /\ r.op \notin {"Open", "DevInfo"} => ~ok
               /\ session' = (IF r.op = "Open" THEN ok ELSE session /\ (r.op = "Close" => ~ok))
               /\ \/ \E d \in (IF Shape[r.op] \in {"get", "file"} THEN DataPhases(n) ELSE {<<>>}) :
                       inq' = inq \o Mark(d \o <<Item("RESP", IF ok THEN n ELSE Refused)>>)
                  \/ ~ok /\ inq' = inq \o Mark(<<Item("RESP", Refused)>>)
    /\ UNCHANGED <<connected, sockets, proc, trans, link, faults>>

\* The camera or the network drops the connection: requests and part of what
\* was sent are lost.
CamGone ==
    /\ link = "up" /\ Fault
    /\ link' = "lost" /\ outq' = <<>> /\ session' = FALSE
    /\ \E i \in 0..Len(inq) : inq' = SubSeq(inq, 1, i)
    /\ UNCHANGED <<connected, sockets, proc, trans>>

-----------------------------------------------------------------------------
\* ptp_transaction: everything older becomes foreign when the request goes out.
NoData == [total |-> 0, read |-> 0, pkt |-> 0, end |-> FALSE, block |-> <<>>, out |-> <<>>]

Begin(o, len) ==
    /\ tx' = "sendreq" /\ op' = o /\ want' = len /\ gd' = NoData
    /\ rc' = "none" /\ param' = 0 /\ own' = TRUE /\ UNCHANGED synced

Return(result) == tx' = "none" /\ rc' = result

\* The caller returns, and with it go the locals of the transaction.
Forget ==
    /\ gd' = NoData /\ want' = 0 /\ param' = 0 /\ own' = TRUE /\ op' = "Close"
    /\ UNCHANGED <<tx, rc, synced>>

Stay == UNCHANGED <<connected, sockets, proc, op, want, session, faults, link>>

\* A write on a lost connection may still be taken.
SendReq ==
    /\ tx = "sendreq"
    /\ synced' = (InSync /\ link = "up")
    /\ inq' = Foreign(inq)
    /\ \/ /\ outq' = (IF link = "up"
                      THEN Append(Foreign(outq), [op |-> op, want |-> want, data |-> FALSE, mine |-> TRUE])
                      ELSE outq)
          /\ tx' = (CASE Shape[op] = "send"            -> "senddata"
                      [] Shape[op] \in {"get", "file"} -> "start"
                      [] OTHER                         -> "resp")
          /\ UNCHANGED rc
       \/ link = "lost" /\ Return("io") /\ outq' = Foreign(outq)
    /\ UNCHANGED <<gd, param, own>> /\ Stay

\* Faulty variant: the data phase is left out.
SendData_Skip ==
    /\ tx = "senddata"
    /\ tx' = "resp"
    /\ UNCHANGED <<gd, rc, param, own, synced, inq, outq>> /\ Stay

\* The four writes of ptp_tcp_senddata: only the result of the last counts.
SendData ==
    /\ tx = "senddata"
    /\ \/ /\ tx' = "resp" /\ UNCHANGED rc
          /\ outq' = (IF outq = <<>> THEN outq ELSE [outq EXCEPT ![Len(outq)].data = TRUE])
       \/ link = "lost" /\ Return("io") /\ UNCHANGED outq
    /\ UNCHANGED <<gd, param, own, synced, inq>> /\ Stay

\* ptp_tcp_read_control meets a header.
Read(types) == inq # <<>> /\ Head(inq).type \in types /\ inq' = Tail(inq)
Accept      == own' = (own /\ Head(inq).mine) /\ UNCHANGED <<synced, outq>>

Reading == tx \in {"start", "packet", "payload", "end", "resp"}

\* recv returns 0 or an error: the connection is gone.
ReadFail ==
    /\ Reading /\ link = "lost" /\ inq = <<>>
    /\ Return("io")
    /\ UNCHANGED <<gd, param, own, synced, outq, inq>> /\ Stay

\* ptp_tcp_read_control in the middle of a payload: eight of its bytes are
\* taken for a header of unknown type.  They may be the last of the item, or
\* reach into the next, whose header cannot be read any more.
ReadGarbage ==
    /\ Reading /\ tx # "payload" /\ inq # <<>> /\ Head(inq).type \notin Headers
    /\ \/ inq' \in {inq, Tail(inq)}
       \/ Len(inq) > 1 /\ inq' = [Tail(inq) EXCEPT ![1].type = "rest"]
    /\ Return("badparam") /\ own' = FALSE
    /\ UNCHANGED <<gd, param, synced, outq>> /\ Stay

\* The loop of ptp_tcp_getdata ends when all was read; a handler gets what is
\* left in the block.
LoopEnd(g) ==
    tx' = IF g.pkt > 0 THEN "payload"
          ELSE IF g.read < g.total THEN "packet"
          ELSE IF Shape[op] = "file" /\ g.block # <<>> THEN "flush"
          ELSE IF g.end THEN "resp" ELSE "end"

\* Faulty variant: what comes in place of START_DATA is only looked at.
GetStart_Peek ==
    /\ tx = "start" /\ inq # <<>> /\ Head(inq).type \in Headers /\ Accept
    /\ LET h == Head(inq) IN
        IF h.type # "START_DATA"
        THEN Return("data_expected") /\ UNCHANGED <<gd, inq>>
        ELSE tx' = "packet" /\ gd' = [NoData EXCEPT !.total = h.v] /\ inq' = Tail(inq) /\ UNCHANGED rc
    /\ UNCHANGED param /\ Stay

\* START_DATA.  Without a handler, memory for all of it may not be had.
GetStart ==
    /\ tx = "start" /\ Read(Headers) /\ Accept
    /\ LET h == Head(inq) IN
        IF h.type # "START_DATA"
        THEN Return("data_expected") /\ UNCHANGED <<gd, faults>>
        ELSE \/ tx' = "packet" /\ gd' = [NoData EXCEPT !.total = h.v] /\ UNCHANGED <<rc, faults>>
             \/ Shape[op] = "get" /\ Fault /\ Return("nomem") /\ UNCHANGED gd
    /\ UNCHANGED <<param, connected, sockets, proc, op, want, session, link>>

\* Faulty variant: the length of the transaction id is not taken off.
GetPacket_Longer ==
    /\ tx = "packet" /\ Read(Headers) /\ Accept
    /\ LET h == Head(inq) IN
        IF h.type \notin {"DATA", "END_DATA"}
        THEN Return("data_expected") /\ UNCHANGED gd
        ELSE /\ gd' = [gd EXCEPT !.pkt = h.v + 1, !.end = @ \/ h.type = "END_DATA"]
             /\ LoopEnd(gd') /\ UNCHANGED rc
    /\ UNCHANGED param /\ Stay

\* The header of a DATA or END_DATA packet.
GetPacket ==
    /\ tx = "packet" /\ Read(Headers) /\ Accept
    /\ LET h == Head(inq) IN
        IF h.type \notin {"DATA", "END_DATA"}
        THEN Return("data_expected") /\ UNCHANGED gd
        ELSE /\ gd' = [gd EXCEPT !.pkt = h.v, !.end = @ \/ h.type = "END_DATA"]
             /\ LoopEnd(gd') /\ UNCHANGED rc
    /\ UNCHANGED param /\ Stay

\* Faulty variant: the block is not started anew after the handler had it.
GetUnit_SameBlock ==
    /\ tx = "payload" /\ inq # <<>>
    /\ inq' = Tail(inq) /\ Accept
    /\ LET block == Append(gd.block, Head(inq).v)
           g     == [gd EXCEPT !.pkt = @ - 1, !.read = @ + 1]
           Full  == Shape[op] = "file" /\ Len(block) >= BlockUnits
       IN  /\ gd' = CASE Shape[op] # "file" -> [g EXCEPT !.out = Append(@, Head(inq).v)]
                      [] Full               -> [g EXCEPT !.out = @ \o block]
                      [] OTHER              -> [g EXCEPT !.block = block]
           /\ LoopEnd(gd')
    /\ UNCHANGED <<param, rc, faults, connected, sockets, proc, op, want, session, link>>

\* Faulty variant: a block that is full at the end of a packet is not handed on.
GetUnit_PacketEnd ==
    /\ tx = "payload" /\ inq # <<>>
    /\ inq' = Tail(inq) /\ Accept
    /\ LET block == Append(gd.block, Head(inq).v)
           g     == [gd EXCEPT !.pkt = @ - 1, !.read = @ + 1]
           Full  == Shape[op] = "file" /\ Len(block) >= BlockUnits /\ gd.pkt > 1
       IN  /\ gd' = CASE Shape[op] # "file" -> [g EXCEPT !.out = Append(@, Head(inq).v)]
                      [] Full               -> [g EXCEPT !.out = @ \o block, !.block = <<>>]
                      [] OTHER              -> [g EXCEPT !.block = block]
           /\ LoopEnd(gd')
    /\ UNCHANGED <<param, rc, faults, connected, sockets, proc, op, want, session, link>>

\* One unit of payload, into memory or into the block, which goes to the
\* handler when it is full.  A handler that fails (a full disk) ends the
\* transaction with the rest unread.
GetUnit ==
    /\ tx = "payload" /\ inq # <<>>
    /\ inq' = Tail(inq) /\ Accept
    /\ LET block == Append(gd.block, Head(inq).v)
           g     == [gd EXCEPT !.pkt = @ - 1, !.read = @ + 1]
           Full  == Shape[op] = "file" /\ Len(block) = BlockUnits
       IN  \/ /\ gd' = CASE Shape[op] # "file" -> [g EXCEPT !.out = Append(@, Head(inq).v)]
                         [] Full               -> [g EXCEPT !.out = @ \o block, !.block = <<>>]
                         [] OTHER              -> [g EXCEPT !.block = block]
              /\ LoopEnd(gd') /\ UNCHANGED <<rc, faults>>
           \/ Full /\ Fault /\ Return("handler") /\ gd' = g
    /\ UNCHANGED <<param, connected, sockets, proc, op, want, session, link>>

\* The final partial block.
FinalFlush ==
    /\ tx = "flush"
    /\ \/ /\ gd' = [gd EXCEPT !.out = @ \o gd.block, !.block = <<>>]
          /\ LoopEnd(gd') /\ UNCHANGED <<rc, faults>>
       \/ Fault /\ Return("handler") /\ UNCHANGED gd
    /\ UNCHANGED <<param, own, synced, outq, inq, connected, sockets, proc, op, want, session, link>>

\* END_DATA, if no data came with it.
GetEnd ==
    /\ tx = "end" /\ Read(Headers) /\ Accept
    /\ IF Head(inq).type # "END_DATA" THEN Return("data_expected")
                                      ELSE tx' = "resp" /\ UNCHANGED rc
    /\ UNCHANGED <<gd, param>> /\ Stay

\* The response: its type and code are looked at.
GetResp ==
    /\ tx = "resp" /\ Read(Headers) /\ Accept
    /\ LET h == Head(inq) IN
        /\ Return(IF h.type # "RESP" THEN "resp_expected"
                  ELSE IF h.v = Refused THEN "code" ELSE "OK")
        /\ param' = (IF h.type = "RESP" /\ h.v # Refused THEN h.v ELSE 0)
    /\ UNCHANGED gd /\ Stay

Transaction ==
    \/ SendReq \/ SendData \/ ReadFail \/ ReadGarbage \/ GetStart
    \/ GetPacket \/ GetUnit \/ FinalFlush \/ GetEnd \/ GetResp

-----------------------------------------------------------------------------
\* init_ptp_tcp: the address is resolved and one address after the other is
\* tried.  None may answer; then the first write fails, with the addresses
\* kept.  What was read ahead on an earlier connection is dropped.
Connect ==
    /\ ~connected /\ proc = "none"
    /\ inq' = <<>> /\ outq' = <<>> /\ session' = FALSE /\ id' = FALSE
    /\ \/ /\ ai' = TRUE /\ cmd_sock' = TRUE /\ link' = "up" /\ proc' = "initack"
          /\ opened' = 1 /\ UNCHANGED faults
       \/ /\ Fault /\ ai' \in BOOLEAN /\ proc' = "failed" /\ opened' = 0
          /\ UNCHANGED <<cmd_sock, link>>
    /\ leaked' = 0
    /\ UNCHANGED <<connected, event_sock, trans>>

\* INIT_CMD was sent, and one recv returns the acknowledgement, or a part of it,
\* which may end before, in or behind the connection id, or not even the type.
\* Or the camera refuses, or the connection is lost.
InitAck ==
    /\ proc = "initack"
    /\ \/ link = "up" /\ proc' = "event" /\ id' = TRUE /\ UNCHANGED <<inq, faults>>
       \/ link = "up" /\ Fault /\ proc' = "event" /\ id' = FALSE /\ inq' = <<Item("rest", 0)>>
       \/ link = "up" /\ Fault /\ proc' = "failed" /\ UNCHANGED <<id, inq>>
       \/ link = "lost" /\ proc' = "failed" /\ UNCHANGED <<id, inq, faults>>
    /\ UNCHANGED <<connected, cmd_sock, event_sock, ai, opened, leaked, trans, outq, link, session>>

\* init_event_channel_tcp: the second socket is kept once it is connected; the
\* camera acknowledges in one packet, or refuses, or is not heard of again.  A
\* connection id that was not read may be refused.  A socket that cannot be
\* connected is neither closed nor kept; that there is none to be had does not
\* stop the code before connect.
EventSocket(kept, lost) ==
    /\ event_sock' = kept
    /\ opened' = IF kept \/ lost THEN opened + 1 ELSE opened
    /\ leaked' = IF lost THEN leaked + 1 ELSE leaked
InitEvent ==
    /\ proc = "event"
    /\ \/ /\ link = "up" /\ EventSocket(TRUE, FALSE)
          /\ proc' = "open" /\ Begin("Open", 0) /\ UNCHANGED faults
       \/ /\ \/ (link = "lost" \/ ~id) /\ UNCHANGED faults
             \/ Fault
          /\ \/ EventSocket(TRUE, FALSE) \/ EventSocket(FALSE, TRUE) \/ EventSocket(FALSE, FALSE)
          /\ proc' = "failed" /\ UNCHANGED trans
    /\ UNCHANGED <<connected, cmd_sock, ai, id, wire>>

\* OpenSession succeeded: connected is set, and the device info is asked for.
SessionOpened ==
    /\ proc = "open" /\ tx = "none" /\ rc = "OK"
    /\ connected' = TRUE /\ proc' = "devinfo" /\ Begin("DevInfo", 0)
    /\ UNCHANGED <<sockets, wire, faults>>

\* Faulty variant: a missing device info is only printed.
Opened_Anyway ==
    /\ proc = "devinfo" /\ tx = "none"
    /\ proc' = "none" /\ Forget
    /\ UNCHANGED <<connected, sockets, wire, faults>>

\* The device info arrived: con:connect returns.
Opened ==
    /\ proc = "devinfo" /\ tx = "none" /\ rc = "OK"
    /\ proc' = "none" /\ Forget
    /\ UNCHANGED <<connected, sockets, wire, faults>>

OpenFailed ==
    /\ proc \in {"open", "devinfo"} /\ tx = "none" /\ rc # "OK"
    /\ proc' = "failed" /\ Forget
    /\ UNCHANGED <<connected, sockets, wire, faults>>

\* Faulty variant: a connection that did not get as far as a session is left.
CloseCamera_Connected ==
    /\ \/ proc = "failed"
       \/ proc = "none" /\ connected
    /\ proc' = (IF connected THEN "close" ELSE "none")
    /\ IF connected THEN Begin("Close", 0) ELSE UNCHANGED trans
    /\ UNCHANGED <<connected, sockets, wire, faults>>

\* close_camera_tcp after a failed connect, or by con:disconnect: the session
\* is closed if connected is set.
CloseCamera ==
    /\ \/ proc = "failed"
       \/ proc = "none" /\ connected
    /\ proc' = "close"
    /\ IF connected THEN Begin("Close", 0) ELSE UNCHANGED trans
    /\ UNCHANGED <<connected, sockets, wire, faults>>

\* Then the sockets and addresses go, whatever CloseSession returned, and the
\* connection is marked as not connected.  What was read ahead stays in pkt_buf.
CloseSockets ==
    /\ proc = "close" /\ tx = "none"
    /\ cmd_sock' = FALSE /\ event_sock' = FALSE /\ ai' = FALSE
    /\ opened' = opened - (IF cmd_sock THEN 1 ELSE 0) - (IF event_sock THEN 1 ELSE 0)
    /\ connected' = FALSE /\ proc' = "none" /\ Forget
    /\ link' = "none" /\ outq' = <<>> /\ session' = FALSE
    /\ \E i \in 0..Len(inq) : inq' = SubSeq(inq, 1, i)
    /\ UNCHANGED <<id, leaked, faults>>

Procedure ==
    InitAck \/ InitEvent \/ SessionOpened \/ Opened \/ OpenFailed \/ CloseSockets

-----------------------------------------------------------------------------
IpInit ==
    /\ connected = FALSE /\ cmd_sock = FALSE /\ event_sock = FALSE /\ ai = FALSE
    /\ id = FALSE /\ opened = 0 /\ leaked = 0 /\ proc = "none" /\ tx = "none" /\ op = "Close" /\ gd = NoData
    /\ rc = "none" /\ want = 0 /\ param = 0 /\ own = TRUE /\ synced = TRUE
    /\ outq = <<>> /\ inq = <<>> /\ link = "none" /\ session = FALSE /\ faults = 0

IpTypeOK ==
    /\ {connected, cmd_sock, event_sock, ai, id, own, synced, session} \subseteq BOOLEAN
    /\ {opened, leaked} \subseteq Nat
    /\ proc \in {"none", "initack", "event", "open", "devinfo", "failed", "close", "call"}
    /\ tx \in {"none", "sendreq", "senddata", "start", "packet", "payload", "flush", "end", "resp"}
    /\ op \in DOMAIN Shape /\ {want, param} \subseteq 0..MaxUnits /\ faults \in 0..MaxFaults
    /\ gd \in [total : 0..MaxUnits, read : 0..MaxUnits, pkt : 0..MaxUnits, end : BOOLEAN,
               block : Seq(1..MaxUnits), out : Seq(1..MaxUnits)]
    /\ rc \in {"none", "OK", "code", "io", "badparam", "nomem", "handler",
               "data_expected", "resp_expected"}
    /\ link \in {"none", "up", "lost"}
    /\ \A i \in DOMAIN inq :
         inq[i] \in [type : Headers \cup {"unit", "rest"}, v : -1..MaxUnits, mine : BOOLEAN]
    /\ \A i \in DOMAIN outq : outq[i] \in [op : DOMAIN Shape, want : 0..MaxUnits, data : BOOLEAN, mine : BOOLEAN]

\* A transaction that began on an idle connection and got an answer, be it
\* success, the camera's error code or a refusal in place of the data, has read
\* all the packets of that transaction, whether the last data came in a DATA
\* or in the END_DATA packet (ptp_tcp_getdata: got_end).
IpSyncKept ==
    (tx = "none" /\ proc \notin {"initack", "event", "failed"} /\ connected /\ link = "up"
     /\ synced /\ rc \in {"OK", "code", "data_expected"}) => InSync

\* When con:connect has failed or con:disconnect has returned, neither socket
\* nor the address list is kept, and every socket the connect created has been
\* closed, at whatever step the connection failed and whatever CloseSession
\* returned (close_camera_tcp); except that an event socket that could not be
\* connected stays open for good, since init_event_channel_tcp returns before it
\* stores it (chdkptp.c:362).  The code has that leak; there is no other.
Released ==
    (proc = "none" /\ ~connected) => ~cmd_sock /\ ~event_sock /\ ~ai /\ opened = leaked

\* con:connect reports success only when both channels are open and nothing
\* of the handshake, nor of an earlier connection, is left to be read: an
\* acknowledgement that came in pieces (chdkptp.c:312, "we might not get whole
\* packet") makes the OpenSession or GetDeviceInfo that follows fail.
IpConnectSyncs ==
    [][(proc = "devinfo" /\ proc' = "none") =>
            InSync' /\ id' /\ cmd_sock' /\ event_sock' /\ connected']_ipvars
=============================================================================

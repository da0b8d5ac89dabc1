-------------------------- MODULE UsbSession_proofs --------------------------
(***************************************************************************)
(* Proofs about UsbSession, for payloads of any size, any room in the pipe *)
(* and any number of faults.                                               *)
(***************************************************************************)
EXTENDS UsbSession, TLAPS

\* Which operation the sequences of chdkptp.c have under way, and which phases
\* a transaction and the camera's job can be in for an operation.
Phases ==
    /\ proc \in {"open1", "open2"} => op = "Open"
    /\ proc = "devinfo" => op = "DevInfo"
    /\ proc = "call" => connected
    /\ proc = "none" => tx = "none"
    /\ connected => proc \in {"none", "call", "close"}
    /\ tx = "senddata" => DataPhase[op] = "send"
    /\ tx \in {"datahdr", "payload"} => DataPhase[op] = "get"
    /\ cam.phase \in {"data", "payload"} => DataPhase[cam.op] = "get" /\ cam.left > 0
    /\ tx = "payload" => left > 0
    /\ \A i \in DOMAIN inq : inq[i].type = "DATA" => inq[i].n > 0

\* k blocks follow the first p containers of the pipe q, or will: what is not
\* there yet is what the camera's job c has still to send of its payload.
Follow(q, c, p, k) ==
    /\ \A i \in 1..Len(q) : p < i /\ i <= p + k => q[i].type = "block"
    /\ p + k > Len(q) => c.phase = "payload" /\ c.left = p + k - Len(q)

HeadersFollowed(q, c) ==
    \A i \in 1..Len(q) : q[i].type = "DATA" => Follow(q, c, i, q[i].n)

\* Every header is followed by the blocks it announces, also those of
\* transactions the host has given up.
Announced ==
    /\ HeadersFollowed(inq, cam)
    /\ tx = "payload" => Follow(inq, cam, 0, left)

\* The containers the transaction under way has still to read before its response.
Owed == IF tx = "payload" THEN left
        ELSE IF tx = "datahdr" /\ inq # <<>> /\ inq[1].type = "DATA" THEN 1 + inq[1].n
        ELSE 0

\* Where the one answer to a transaction is that began on idle pipes: in its
\* request, in the camera that waits for data or is about to send, or in the
\* input pipe.
RequestOut == /\ Len(outq) = 1 /\ outq[1].type = "REQ" /\ outq[1].op = op
              /\ inq = <<>> /\ cam.phase = "idle"
              /\ tx \in {"senddata", "datahdr", "resp"} /\ (tx = "resp" => DataPhase[op] = "nodata")
DataAwaited == /\ cam.phase = "waitdata" /\ inq = <<>>
               /\ \/ outq = <<>> /\ tx = "senddata"
                  \/ Len(outq) = 1 /\ outq[1].type = "DATA" /\ tx = "resp"
DataDue == outq = <<>> /\ inq = <<>> /\ cam.phase = "data" /\ cam.op = op /\ tx = "datahdr"
Answering ==
    /\ outq = <<>> /\ tx \in {"datahdr", "payload", "resp"}
    /\ \/ cam.phase = "payload" /\ Len(inq) + cam.left = Owed
       \/ cam.phase = "resp" /\ Len(inq) = Owed
       \/ cam.phase = "idle" /\ Len(inq) = Owed + 1 /\ inq[Owed + 1].type = "RESPONSE"
    /\ \A i \in 1..Len(inq) : inq[i].type = "RESPONSE" => i = Owed + 1
    /\ \A i \in 1..Len(inq) : inq[i].type = "DATA" => i = 1 /\ tx = "datahdr" /\ inq[i].code = Code(op)

InStep ==
    /\ synced /\ tx \in {"senddata", "datahdr", "payload", "resp"}
          => RequestOut \/ DataAwaited \/ DataDue \/ Answering
    /\ SyncKept

IInv == TypeOK /\ Phases /\ Announced /\ InStep

-----------------------------------------------------------------------------
\* With usb_reset_on_close all that a new connect can meet are responses to
\* OpenSession.
OnlyOpens ==
    /\ \A i \in 1..Len(outq) : outq[i].type = "REQ" /\ outq[i].op = "Open"
    /\ cam.phase # "idle" => cam.op = "Open" /\ cam.phase = "resp"
    /\ \A i \in 1..Len(inq) : inq[i].type = "RESPONSE"

ResponseFirst ==
    \/ inq # <<>> /\ inq[1].type = "RESPONSE"
    \/ inq = <<>> /\ cam.phase = "resp"

\* So the header of the device info cannot be taken for what it is not: on
\* leftovers GetDeviceInfo fails.
Opening ==
    usb_reset_on_close =>
        /\ (\/ proc = "none" /\ ~connected
            \/ proc \in {"open1", "open2"}
            \/ proc = "devinfo" /\ tx = "sendreq") => OnlyOpens
        /\ proc = "devinfo" /\ tx = "datahdr" /\ ~synced => ResponseFirst
        /\ proc = "devinfo" /\ tx \in {"payload", "resp"} => synced
        /\ proc = "devinfo" /\ tx = "none" /\ rc = "OK" => synced

-----------------------------------------------------------------------------
Jobs == [phase : {"idle", "waitdata", "data", "payload", "resp"},
         op : DOMAIN DataPhase, mine : BOOLEAN, left : 0..MaxBlocks]

Requests == [type : {"REQ", "DATA"}, op : DOMAIN DataPhase, mine : BOOLEAN]

\* What a read takes out of a pipe: its first container, the others keep
\* their order.
LEMMA TailElements ==
    ASSUME NEW S, NEW q \in Seq(S), q # <<>>
    PROVE  /\ Len(q) \in Nat \ {0} /\ q[1] \in S /\ Head(q) = q[1]
           /\ Tail(q) \in Seq(S) /\ Len(Tail(q)) = Len(q) - 1
           /\ \A i \in 1..Len(Tail(q)) : i + 1 \in 1..Len(q) /\ Tail(q)[i] = q[i + 1]
  OBVIOUS

\* What the camera's send adds to a pipe: a last container.
LEMMA AppendElements ==
    ASSUME NEW S, NEW q \in Seq(S), NEW x \in S
    PROVE  /\ Append(q, x) \in Seq(S) /\ Len(q) \in Nat /\ Len(Append(q, x)) = Len(q) + 1
           /\ \A i \in 1..Len(q) : i \in 1..Len(Append(q, x)) /\ Append(q, x)[i] = q[i]
           /\ Append(q, x)[Len(q) + 1] = x
  OBVIOUS

\* The fields of a container.
LEMMA ContainerFields ==
    ASSUME NEW x \in Containers
    PROVE  /\ x.type \in {"DATA", "block", "RESPONSE"} /\ x.mine \in BOOLEAN
           /\ x.n \in 0..MaxBlocks /\ x.n \in Nat
           /\ x.code \in {"none", "CHDK", "DevInfo", "OK", "Refused"}
<1> x \in [type : {"DATA", "block", "RESPONSE"}, mine : BOOLEAN, n : 0..MaxBlocks,
           code : {"none", "CHDK", "DevInfo", "OK", "Refused"}]
  BY DEF Containers
<1> QED
  BY BlocksAssumption

\* A container made foreign is that container but for its mark.
LEMMA ForeignContainer ==
    ASSUME NEW x \in Containers
    PROVE  /\ Foreign(x) \in Containers
           /\ Foreign(x).type = x.type /\ Foreign(x).code = x.code /\ Foreign(x).n = x.n
<1>1. Foreign(x) = [x EXCEPT !.mine = FALSE]
  BY DEF Foreign
<1>2. [x EXCEPT !.mine = FALSE] \in Containers
  BY DEF Containers
<1>3. /\ [x EXCEPT !.mine = FALSE].type = x.type /\ [x EXCEPT !.mine = FALSE].code = x.code
      /\ [x EXCEPT !.mine = FALSE].n = x.n
  BY DEF Containers
<1> QED
  BY <1>1, <1>2, <1>3

\* Begin makes the containers of older transactions foreign and changes
\* nothing else about them.
LEMMA ForeignElements ==
    ASSUME NEW q \in Seq(Containers)
    PROVE  /\ AllForeign(q) \in Seq(Containers) /\ Len(AllForeign(q)) = Len(q)
           /\ \A i \in 1..Len(q) : /\ AllForeign(q)[i].type = q[i].type
                                   /\ AllForeign(q)[i].code = q[i].code
                                   /\ AllForeign(q)[i].n = q[i].n
<1>1. \A i \in 1..Len(q) : q[i] \in Containers
  OBVIOUS
<1>a. \A x \in Containers : Foreign(x) \in Containers
  BY ForeignContainer
<1>2. AllForeign(q) = [i \in 1..Len(q) |-> Foreign(q[i])]
  BY DEF AllForeign
<1>3. AllForeign(q) \in Seq(Containers) /\ Len(AllForeign(q)) = Len(q)
  BY <1>1, <1>a, <1>2
<1>4. \A i \in 1..Len(q) : AllForeign(q)[i] = Foreign(q[i])
  BY <1>2
<1> QED
  BY <1>1, <1>3, <1>4, ForeignContainer

\* A read keeps every header of the pipe followed by its blocks.
LEMMA TailFollowed ==
    ASSUME NEW q \in Seq(Containers), q # <<>>, NEW c, HeadersFollowed(q, c)
    PROVE  HeadersFollowed(Tail(q), c)
<1> SUFFICES ASSUME NEW i \in 1..Len(Tail(q)), Tail(q)[i].type = "DATA"
             PROVE  Follow(Tail(q), c, i, Tail(q)[i].n)
  BY DEF HeadersFollowed
<1>1. /\ Len(q) \in Nat \ {0} /\ Len(Tail(q)) = Len(q) - 1 /\ Tail(q) \in Seq(Containers)
      /\ \A j \in 1..Len(Tail(q)) : j + 1 \in 1..Len(q) /\ Tail(q)[j] = q[j + 1]
  BY TailElements
<1>2. Follow(q, c, i + 1, q[i + 1].n)
  BY <1>1 DEF HeadersFollowed
<1>3. q[i + 1].n \in Nat
  BY <1>1, ContainerFields
<1> QED
  BY <1>1, <1>2, <1>3 DEF Follow

\* Once a header is read, the blocks it announced are the next in the pipe.
LEMMA HeaderTaken ==
    ASSUME NEW q \in Seq(Containers), q # <<>>, NEW c, NEW k \in Nat, Follow(q, c, 1, k)
    PROVE  Follow(Tail(q), c, 0, k)
<1>1. /\ Len(q) \in Nat \ {0} /\ Len(Tail(q)) = Len(q) - 1
      /\ \A j \in 1..Len(Tail(q)) : j + 1 \in 1..Len(q) /\ Tail(q)[j] = q[j + 1]
  BY TailElements
<1> QED
  BY <1>1 DEF Follow

\* Once a block is read, one block less has to follow.
LEMMA BlockTaken ==
    ASSUME NEW q \in Seq(Containers), q # <<>>, NEW c, NEW k \in Nat \ {0}, Follow(q, c, 0, k)
    PROVE  Follow(Tail(q), c, 0, k - 1)
<1>1. /\ Len(q) \in Nat \ {0} /\ Len(Tail(q)) = Len(q) - 1
      /\ \A j \in 1..Len(Tail(q)) : j + 1 \in 1..Len(q) /\ Tail(q)[j] = q[j + 1]
  BY TailElements
<1> QED
  BY <1>1 DEF Follow

\* Blocks that are all there stay there, whatever the camera sends and
\* whatever job it turns to.
LEMMA AllThere ==
    ASSUME NEW q \in Seq(Containers), NEW c, c.phase # "payload", NEW p \in Nat, NEW k \in Nat,
           Follow(q, c, p, k), NEW d
    PROVE  /\ Follow(q, d, p, k)
           /\ \A x \in Containers : Follow(Append(q, x), d, p, k)
<1>1. Len(q) \in Nat /\ p + k <= Len(q)
  BY DEF Follow
<1>2. Follow(q, d, p, k)
  BY <1>1 DEF Follow
<1>3. ASSUME NEW x \in Containers PROVE Follow(Append(q, x), d, p, k)
  <2>1. /\ Len(Append(q, x)) = Len(q) + 1
        /\ \A i \in 1..Len(q) : Append(q, x)[i] = q[i]
    BY AppendElements
  <2> QED
    BY <2>1, <1>1 DEF Follow
<1> QED
  BY <1>2, <1>3

\* One more block sent, one less still to send.
LEMMA BlockSent ==
    ASSUME NEW q \in Seq(Containers), NEW c, c.phase = "payload", c.left \in Nat \ {0},
           NEW d, d.left = c.left - 1, c.left > 1 => d.phase = "payload",
           NEW p \in 0..Len(q), NEW k \in Nat, Follow(q, c, p, k),
           NEW x \in Containers, x.type = "block"
    PROVE  Follow(Append(q, x), d, p, k)
<1>1. /\ Len(q) \in Nat /\ Len(Append(q, x)) = Len(q) + 1
      /\ \A i \in 1..Len(q) : Append(q, x)[i] = q[i]
      /\ Append(q, x)[Len(q) + 1] = x
  BY AppendElements
<1> QED
  BY <1>1 DEF Follow

-----------------------------------------------------------------------------
\* The types of the pipes and the camera's job, and those of the rest.
PipesTyped ==
    /\ inq \in Seq(Containers) /\ Len(inq) <= PipeMax
    /\ outq \in Seq(Requests)
    /\ cam \in Jobs

HostTyped ==
    /\ usb_reset_on_close \in BOOLEAN
    /\ connected \in BOOLEAN /\ own \in BOOLEAN /\ synced \in BOOLEAN
    /\ session \in BOOLEAN /\ faults \in 0..MaxFaults
    /\ proc \in {"none", "open1", "open2", "devinfo", "close", "call"}
    /\ tx \in {"none", "sendreq", "senddata", "datahdr", "payload", "resp"}
    /\ op \in DOMAIN DataPhase /\ left \in 0..MaxBlocks
    /\ rc \in {"none", "OK", "code", "io", "badparam", "handler",
               "data_expected", "resp_expected"}

\* The type invariant in its two parts.
LEMMA TypeParts == TypeOK <=> PipesTyped /\ HostTyped
  BY DEF TypeOK, PipesTyped, HostTyped, Requests, Jobs

\* The fields of the camera's job, also once it is made foreign.
LEMMA JobFields ==
    ASSUME NEW c \in Jobs
    PROVE  /\ c.phase \in {"idle", "waitdata", "data", "payload", "resp"}
           /\ c.op \in DOMAIN DataPhase /\ c.mine \in BOOLEAN
           /\ c.left \in 0..MaxBlocks /\ c.left \in Nat
           /\ Foreign(c) \in Jobs /\ Foreign(c).phase = c.phase
           /\ Foreign(c).op = c.op /\ Foreign(c).left = c.left
<1>1. Foreign(c) = [c EXCEPT !.mine = FALSE]
  BY DEF Foreign
<1>2. /\ c.phase \in {"idle", "waitdata", "data", "payload", "resp"}
      /\ c.op \in DOMAIN DataPhase /\ c.mine \in BOOLEAN /\ c.left \in 0..MaxBlocks
  BY DEF Jobs
<1>3. c.left \in Nat
  BY <1>2, BlocksAssumption
<1>4. [c EXCEPT !.mine = FALSE] \in Jobs
  BY DEF Jobs
<1>5. /\ [c EXCEPT !.mine = FALSE].phase = c.phase /\ [c EXCEPT !.mine = FALSE].op = c.op
      /\ [c EXCEPT !.mine = FALSE].left = c.left
  BY DEF Jobs
<1> QED
  BY <1>1, <1>2, <1>3, <1>4, <1>5

\* The operations and their data phases.
LEMMA Operations ==
    /\ DOMAIN DataPhase = {"Open", "Close", "DevInfo", "Status", "Exec", "ReadMsg"}
    /\ \A o \in DOMAIN DataPhase : DataPhase[o] \in {"nodata", "get", "send"}
                                   /\ Code(o) \in {"Open", "Close", "DevInfo", "CHDK"}
                                   /\ (DataPhase[o] = "get" => Code(o) \in {"DevInfo", "CHDK"})
    /\ DataPhase["Open"] = "nodata" /\ DataPhase["Close"] = "nodata"
    /\ DataPhase["DevInfo"] = "get"
    /\ Idle \in Jobs /\ Idle.phase = "idle"
  BY BlocksAssumption DEF DataPhase, Code, ChdkOps, Idle, Jobs

\* Every step keeps the types of all but the pipes and the camera's job.
LEMMA HostTypeStep ==
    ASSUME TypeOK, Phases, Next PROVE HostTyped'
<1> DEFINE Flags == /\ usb_reset_on_close \in BOOLEAN /\ connected \in BOOLEAN
                    /\ own \in BOOLEAN /\ synced \in BOOLEAN /\ session \in BOOLEAN
<1> DEFINE Words == /\ proc \in {"none", "open1", "open2", "devinfo", "close", "call"}
                    /\ tx \in {"none", "sendreq", "senddata", "datahdr", "payload", "resp"}
                    /\ op \in DOMAIN DataPhase
                    /\ rc \in {"none", "OK", "code", "io", "badparam", "handler",
                               "data_expected", "resp_expected"}
<1> DEFINE Numbers == faults \in 0..MaxFaults /\ left \in 0..MaxBlocks
<1>1. Flags /\ Words /\ Numbers /\ PipesTyped
  BY TypeParts DEF HostTyped
<1>2. Flags'
  <2>1. CASE Camera
    BY <1>1, <2>1 DEF Camera, CamRequest, CamDataIn, CamData, CamBlock, CamResponse, CamSend, host
  <2>2. CASE Transaction
    BY <1>1, <2>2 DEF Transaction, SendReq, SendData, WriteFail, ReadFail, ReadGarbage, InSync,
          GetDataHeader, GetBlock, HandlerFail, GetResp
  <2>3. CASE Procedure
    BY <1>1, <2>3 DEF Procedure, ResetAndRetry, SessionOpened, OpenFailed, Opened, CloseUsb,
          CallDone, ResetEffect, Begin
  <2>4. CASE Connect \/ CloseCamera \/ Call
    BY <1>1, <2>4 DEF Connect, CloseCamera, Call, Begin
  <2> QED
    BY <2>1, <2>2, <2>3, <2>4 DEF Next
<1>3. Words'
  <2>1. CASE Camera
    BY <1>1, <2>1 DEF Camera, CamRequest, CamDataIn, CamData, CamBlock, CamResponse, CamSend, host
  <2>2. CASE Transaction
    BY <1>1, <2>2 DEF Transaction, SendReq, SendData, WriteFail, ReadFail, ReadGarbage,
          GetDataHeader, GetBlock, HandlerFail, GetResp, Return
  <2>3. CASE Procedure
    BY <1>1, <2>3, Operations DEF Procedure, ResetAndRetry, SessionOpened, OpenFailed, Opened,
          CloseUsb, CallDone, Begin
  <2>4. CASE Connect \/ CloseCamera \/ Call
    BY <1>1, <2>4, Operations DEF Connect, CloseCamera, Call, Begin, ChdkOps
  <2> QED
    BY <2>1, <2>2, <2>3, <2>4 DEF Next
<1>4. Numbers'
  <2>0. MaxFaults \in Nat /\ MaxBlocks \in Nat \ {0} /\ faults \in Int /\ left \in Int
    BY <1>1, FaultsAssumption, BlocksAssumption
  <2>1. CASE Camera
    BY <1>1, <2>1 DEF Camera, CamRequest, CamDataIn, CamData, CamBlock, CamResponse, CamSend, host
  <2>2. CASE GetDataHeader
    <3>1. Head(inq).n \in 0..MaxBlocks
      BY <1>1, <2>2, TailElements, ContainerFields DEF GetDataHeader, PipesTyped
    <3> QED
      BY <1>1, <2>0, <2>2, <3>1 DEF GetDataHeader, Return
  <2>3. CASE GetBlock
    BY <1>1, <2>0, <2>3 DEF GetBlock, Phases
  <2>4. CASE SendReq \/ SendData \/ WriteFail \/ ReadFail \/ ReadGarbage \/ HandlerFail \/ GetResp
    BY <1>1, <2>0, <2>4 DEF SendReq, SendData, WriteFail, ReadFail, ReadGarbage, HandlerFail,
          GetResp, Return, Fault
  <2>5. CASE Procedure
    BY <1>1, <2>0, <2>5 DEF Procedure, ResetAndRetry, SessionOpened, OpenFailed, Opened,
          CloseUsb, CallDone, Begin, Fault
  <2>6. CASE Connect \/ CloseCamera \/ Call
    BY <1>1, <2>0, <2>6 DEF Connect, CloseCamera, Call, Begin
  <2> QED
    BY <2>1, <2>2, <2>3, <2>4, <2>5, <2>6 DEF Next, Transaction
<1> QED
  BY <1>2, <1>3, <1>4 DEF HostTyped

\* What the camera does with the request it takes: it has a job, and its
\* operation's data phase says what it does next.
LEMMA CamRequestEffect ==
    ASSUME PipesTyped, CamRequest
    PROVE  /\ UNCHANGED <<host, inq, session, faults>>
           /\ cam.phase \in {"idle", "waitdata"} /\ outq # <<>> /\ outq[1].type = "REQ"
           /\ outq' = Tail(outq) /\ outq' \in Seq(Requests) /\ Len(outq') = Len(outq) - 1
           /\ outq[1] \in Requests
           /\ cam' \in Jobs /\ cam'.op = outq[1].op /\ cam'.left > 0
           /\ cam'.phase \in {"data", "waitdata", "resp"}
           /\ cam'.phase = "data" <=> DataPhase[outq[1].op] = "get"
           /\ cam'.phase = "waitdata" <=> DataPhase[outq[1].op] = "send"
<1>1. /\ outq \in Seq(Requests) /\ outq # <<>> /\ Head(outq) = outq[1] /\ outq[1] \in Requests
      /\ outq' = Tail(outq) /\ outq' \in Seq(Requests) /\ Len(outq') = Len(outq) - 1
  BY TailElements DEF PipesTyped, CamRequest
<1> DEFINE o == outq[1].op
<1>2. o \in DOMAIN DataPhase /\ outq[1].mine \in BOOLEAN
  BY <1>1 DEF Requests
<1>3. PICK n \in 1..MaxBlocks :
         cam' = [phase |-> CASE DataPhase[o] = "get" -> "data" [] DataPhase[o] = "send" -> "waitdata"
                             [] OTHER -> "resp", op |-> o, mine |-> outq[1].mine, left |-> n]
  BY <1>1 DEF CamRequest
<1>4. n \in Nat \ {0} /\ n \in 0..MaxBlocks
  BY BlocksAssumption
<1>5. /\ cam'.op = o /\ cam'.left = n
      /\ cam'.phase = CASE DataPhase[o] = "get" -> "data" [] DataPhase[o] = "send" -> "waitdata"
                        [] OTHER -> "resp"
  BY <1>3
<1>6. cam'.phase \in {"data", "waitdata", "resp"} /\ (cam'.phase = "data" <=> DataPhase[o] = "get")
      /\ (cam'.phase = "waitdata" <=> DataPhase[o] = "send")
  BY <1>5
<1>7. cam' \in Jobs
  BY <1>2, <1>3, <1>4 DEF Jobs
<1> QED
  BY <1>1, <1>4, <1>5, <1>6, <1>7 DEF CamRequest

\* A data container is taken, and dropped if none is waited for.
LEMMA CamDataInEffect ==
    ASSUME PipesTyped, CamDataIn
    PROVE  /\ UNCHANGED <<host, inq, session, faults>>
           /\ cam.phase \in {"idle", "waitdata"} /\ outq # <<>> /\ outq[1].type = "DATA"
           /\ outq' = Tail(outq) /\ outq' \in Seq(Requests) /\ Len(outq') = Len(outq) - 1
           /\ cam' \in Jobs /\ cam'.op = cam.op /\ cam'.left = cam.left
           /\ cam'.phase = IF cam.phase = "waitdata" THEN "resp" ELSE cam.phase
<1>1. /\ outq \in Seq(Requests) /\ outq # <<>> /\ Head(outq) = outq[1]
      /\ outq' = Tail(outq) /\ outq' \in Seq(Requests) /\ Len(outq') = Len(outq) - 1
  BY TailElements DEF PipesTyped, CamDataIn
<1>2. cam \in Jobs
  BY DEF PipesTyped
<1>3. cam' = IF cam.phase = "waitdata" THEN [cam EXCEPT !.phase = "resp"] ELSE cam
  BY DEF CamDataIn
<1>4. /\ cam' \in Jobs /\ cam'.op = cam.op /\ cam'.left = cam.left
      /\ cam'.phase = IF cam.phase = "waitdata" THEN "resp" ELSE cam.phase
  BY <1>2, <1>3 DEF Jobs
<1> QED
  BY <1>1, <1>4 DEF CamDataIn

\* The header the camera sends announces the blocks it has to send.
LEMMA CamDataEffect ==
    ASSUME PipesTyped, Phases, CamData
    PROVE  \E x \in Containers :
           /\ UNCHANGED <<host, outq, session, faults>>
           /\ cam.phase = "data" /\ Len(inq') <= PipeMax
           /\ inq' = Append(inq, x)
           /\ x.type = "DATA" /\ x.n = cam.left /\ x.code = Code(cam.op)
           /\ cam' \in Jobs /\ cam'.phase = "payload"
           /\ cam'.op = cam.op /\ cam'.left = cam.left /\ cam.left > 0
<1> DEFINE x == [type |-> "DATA", code |-> Code(cam.op), mine |-> cam.mine, n |-> cam.left]
<1>1. cam \in Jobs /\ cam.op \in DOMAIN DataPhase /\ cam.mine \in BOOLEAN /\ cam.left \in 0..MaxBlocks
  BY JobFields DEF PipesTyped
<1>2. DataPhase[cam.op] = "get" /\ cam.left > 0
  BY DEF Phases, CamData
<1>3. Code(cam.op) \in {"DevInfo", "CHDK"}
  BY <1>1, <1>2, Operations
<1>4. x \in Containers /\ x.type = "DATA" /\ x.n = cam.left /\ x.code = Code(cam.op)
  BY <1>1, <1>3 DEF Containers
<1>5. cam' = [cam EXCEPT !.phase = "payload"]
  BY DEF CamData
<1>6. cam' \in Jobs /\ cam'.phase = "payload" /\ cam'.op = cam.op /\ cam'.left = cam.left
  BY <1>1, <1>5 DEF Jobs
<1>7. inq' = Append(inq, x) /\ Len(inq) < PipeMax /\ UNCHANGED <<host, outq, session, faults>>
      /\ cam.phase = "data"
  BY DEF CamData, CamSend
<1>8. Len(inq') <= PipeMax
  BY <1>4, <1>7, AppendElements, PipeAssumption DEF PipesTyped
<1> HIDE DEF x
<1> QED
  BY <1>2, <1>4, <1>6, <1>7, <1>8

\* A block goes out, and after the last one the response is due.
LEMMA CamBlockEffect ==
    ASSUME PipesTyped, Phases, CamBlock
    PROVE  \E x \in Containers :
           /\ UNCHANGED <<host, outq, session, faults>>
           /\ cam.phase = "payload" /\ Len(inq') <= PipeMax
           /\ inq' = Append(inq, x) /\ x.type = "block"
           /\ cam' \in Jobs /\ cam'.op = cam.op
           /\ cam.left \in Nat \ {0} /\ cam'.left = cam.left - 1
           /\ cam'.phase = IF cam.left = 1 THEN "resp" ELSE "payload"
<1> DEFINE x == [type |-> "block", code |-> "none", mine |-> cam.mine, n |-> 0]
<1>1. cam \in Jobs /\ cam.mine \in BOOLEAN /\ cam.left \in 0..MaxBlocks /\ cam.left \in Nat
  BY JobFields DEF PipesTyped
<1>2. cam.left \in Nat \ {0} /\ cam.left - 1 \in 0..MaxBlocks
  BY <1>1, BlocksAssumption DEF Phases, CamBlock
<1>3. x \in Containers /\ x.type = "block"
  BY <1>1, BlocksAssumption DEF Containers
<1>4. cam' = [cam EXCEPT !.left = cam.left - 1,
                         !.phase = IF cam.left = 1 THEN "resp" ELSE "payload"]
  BY DEF CamBlock
<1>5. /\ cam' \in Jobs /\ cam'.op = cam.op /\ cam'.left = cam.left - 1
      /\ cam'.phase = IF cam.left = 1 THEN "resp" ELSE "payload"
  BY <1>1, <1>2, <1>4 DEF Jobs
<1>6. inq' = Append(inq, x) /\ Len(inq) < PipeMax /\ UNCHANGED <<host, outq, session, faults>>
      /\ cam.phase = "payload"
  BY DEF CamBlock, CamSend
<1>7. Len(inq') <= PipeMax
  BY <1>3, <1>6, AppendElements, PipeAssumption DEF PipesTyped
<1> HIDE DEF x
<1> QED
  BY <1>2, <1>3, <1>5, <1>6, <1>7

\* The response ends the camera's job.
LEMMA CamResponseEffect ==
    ASSUME PipesTyped, CamResponse
    PROVE  \E x \in Containers :
           /\ UNCHANGED <<host, outq, faults>>
           /\ cam.phase \in {"resp", "data"} /\ Len(inq') <= PipeMax
           /\ inq' = Append(inq, x) /\ x.type = "RESPONSE"
           /\ cam' \in Jobs /\ cam'.phase = "idle"
<1>1. cam \in Jobs /\ cam.mine \in BOOLEAN
  BY JobFields DEF PipesTyped
<1>2. PICK ok \in BOOLEAN :
         /\ CamSend([type |-> "RESPONSE", code |-> IF ok THEN "OK" ELSE "Refused",
                     mine |-> cam.mine, n |-> 0])
         /\ cam' = Idle
  BY DEF CamResponse
<1> DEFINE x == [type |-> "RESPONSE", code |-> IF ok THEN "OK" ELSE "Refused",
                 mine |-> cam.mine, n |-> 0]
<1>3. x \in Containers /\ x.type = "RESPONSE"
  BY <1>1, BlocksAssumption DEF Containers
<1>4. inq' = Append(inq, x) /\ Len(inq) < PipeMax /\ UNCHANGED <<host, outq, faults>>
  BY <1>2 DEF CamSend
<1>5. Len(inq') <= PipeMax
  BY <1>3, <1>4, AppendElements, PipeAssumption DEF PipesTyped
<1>6. cam.phase \in {"resp", "data"} /\ cam' \in Jobs /\ cam'.phase = "idle"
  BY <1>2, Operations DEF CamResponse
<1> HIDE DEF x
<1> QED
  BY <1>3, <1>4, <1>5, <1>6

\* init_ptp_usb drops at most the container that had been read ahead.
LEMMA BufferedElements ==
    ASSUME NEW q, NEW r \in Buffered(q)
    PROVE  r = q \/ (q # <<>> /\ r = Tail(q))
  BY DEF Buffered

\* Between transactions the pipes and the camera are left alone, reset, or
\* lose the container read ahead; the last result stands until a new one begins.
LEMMA BetweenTransactions ==
    ASSUME Phases, Procedure \/ Connect \/ CloseCamera \/ Call
    PROVE  /\ \/ UNCHANGED <<outq, inq, cam>>
              \/ outq' = <<>> /\ inq' = <<>> /\ cam' = Idle
              \/ UNCHANGED <<outq, cam>> /\ inq # <<>> /\ inq' = Tail(inq) /\ tx' = "sendreq"
           /\ tx = "none"
           /\ tx' = "sendreq" \/ (tx' = "none" /\ UNCHANGED <<rc, synced, op>>)
<1>1. CASE Procedure
  BY <1>1, BufferedElements DEF Procedure, ResetAndRetry, SessionOpened, OpenFailed, Opened, CloseUsb,
        CallDone, ResetEffect, Begin
<1>2. CASE Connect \/ CloseCamera \/ Call
  BY <1>2, BufferedElements DEF Connect, CloseCamera, Call, Begin, Phases
<1> QED
  BY <1>1, <1>2

\* The transactions that fail without looking at what they read: they leave
\* the pipes as they are but for one container at most.
LEMMA GivenUp ==
    ASSUME WriteFail \/ ReadFail \/ ReadGarbage \/ HandlerFail
    PROVE  /\ UNCHANGED <<outq, cam>> /\ (inq' = inq \/ (inq # <<>> /\ inq' = Tail(inq)))
           /\ tx # "none" /\ tx' = "none" /\ rc' \in {"io", "badparam", "handler"}
           /\ UNCHANGED <<op, proc, connected>>
  BY DEF WriteFail, ReadFail, ReadGarbage, HandlerFail, Return

\* Every step keeps the types of the pipes and of the camera's job.
LEMMA PipesTypeStep ==
    ASSUME TypeOK, Phases, Next PROVE PipesTyped'
<1>1. PipesTyped
  BY TypeParts
<1>2. CASE CamRequest \/ CamDataIn
  BY <1>1, <1>2, CamRequestEffect, CamDataInEffect DEF PipesTyped
<1>3. CASE CamData \/ CamBlock \/ CamResponse
  <2>1. PICK x \in Containers : inq' = Append(inq, x) /\ Len(inq') <= PipeMax /\ cam' \in Jobs
                                /\ UNCHANGED outq
    BY <1>1, <1>3, CamDataEffect, CamBlockEffect, CamResponseEffect
  <2> QED
    BY <1>1, <2>1, AppendElements DEF PipesTyped
<1>4. CASE SendReq
  <2>1. AllForeign(inq) \in Seq(Containers) /\ Len(AllForeign(inq)) = Len(inq) /\ Foreign(cam) \in Jobs
    BY <1>1, ForeignElements, JobFields DEF PipesTyped
  <2>2. op \in DOMAIN DataPhase
    BY DEF TypeOK
  <2>3. [type |-> "REQ", op |-> op, mine |-> TRUE] \in Requests
    BY <2>2 DEF Requests
  <2> QED
    BY <1>1, <1>4, <2>1, <2>3 DEF SendReq, PipesTyped
<1>5. CASE SendData
  <2>1. op \in DOMAIN DataPhase
    BY DEF TypeOK
  <2>2. [type |-> "DATA", op |-> op, mine |-> TRUE] \in Requests
    BY <2>1 DEF Requests
  <2> QED
    BY <1>1, <1>5, <2>2 DEF SendData, PipesTyped
<1>6. ASSUME UNCHANGED <<outq, cam>>, inq' = inq \/ (inq # <<>> /\ inq' = Tail(inq))
      PROVE  PipesTyped'
  <2>1. inq # <<>> => Tail(inq) \in Seq(Containers) /\ Len(Tail(inq)) <= PipeMax
    BY <1>1, TailElements, PipeAssumption DEF PipesTyped
  <2> QED
    BY <1>1, <1>6, <2>1 DEF PipesTyped
<1>7. CASE WriteFail \/ ReadFail \/ ReadGarbage \/ HandlerFail
  BY <1>6, <1>7, GivenUp
<1>8. CASE GetDataHeader \/ GetBlock \/ GetResp
  BY <1>6, <1>8 DEF GetDataHeader, GetBlock, GetResp
<1>9. CASE Procedure \/ Connect \/ CloseCamera \/ Call
  <2>1. CASE outq' = <<>> /\ inq' = <<>> /\ cam' = Idle
    BY <2>1, Operations, PipeAssumption DEF PipesTyped
  <2> QED
    BY <1>6, <1>9, <2>1, BetweenTransactions
<1> QED
  BY <1>2, <1>3, <1>4, <1>5, <1>7, <1>8, <1>9 DEF Next, Camera, Transaction

\* Every step keeps the types.
LEMMA TypeStep ==
    ASSUME TypeOK, Phases, Next PROVE TypeOK'
<1>1. HostTyped' /\ PipesTyped'
  BY HostTypeStep, PipesTypeStep
<1> QED
  BY <1>1 DEF TypeOK, PipesTyped, HostTyped, Requests, Jobs

-----------------------------------------------------------------------------
\* Every step keeps the phases that belong to an operation.
LEMMA PhasesStep ==
    ASSUME TypeOK, Phases, Announced, Next PROVE Phases'
<1> DEFINE Sequence == /\ proc \in {"open1", "open2"} => op = "Open"
                       /\ proc = "devinfo" => op = "DevInfo"
                       /\ proc = "call" => connected
                       /\ proc = "none" => tx = "none"
                       /\ connected => proc \in {"none", "call", "close"}
<1> DEFINE Phase == /\ tx = "senddata" => DataPhase[op] = "send"
                    /\ tx \in {"datahdr", "payload"} => DataPhase[op] = "get"
                    /\ tx = "payload" => left > 0
<1> DEFINE Job == cam.phase \in {"data", "payload"} => DataPhase[cam.op] = "get" /\ cam.left > 0
<1> DEFINE Headers == \A i \in 1..Len(inq) : inq[i].type = "DATA" => inq[i].n > 0
<1>1. PipesTyped /\ HostTyped /\ Sequence /\ Phase /\ Job /\ Headers /\ DOMAIN inq = 1..Len(inq)
  BY TypeParts DEF Phases, PipesTyped
<1>2. Sequence'
  <2>1. CASE Camera
    <3>1. UNCHANGED <<proc, tx, op, connected>>
      BY <2>1 DEF Camera, CamRequest, CamDataIn, CamData, CamBlock, CamResponse, CamSend, host
    <3> QED
      BY <1>1, <3>1
  <2>2. CASE Transaction
    <3>1. UNCHANGED <<proc, op, connected>> /\ tx # "none"
      BY <2>2 DEF Transaction, SendReq, SendData, WriteFail, ReadFail, ReadGarbage,
        GetDataHeader, GetBlock, HandlerFail, GetResp
    <3> QED
      BY <1>1, <3>1
  <2>3. CASE Procedure
    BY <1>1, <2>3 DEF Procedure, ResetAndRetry, SessionOpened, OpenFailed, Opened,
          CloseUsb, CallDone, Begin
  <2>4. CASE Connect \/ CloseCamera \/ Call
    BY <1>1, <2>4 DEF Connect, CloseCamera, Call, Begin
  <2> QED
    BY <2>1, <2>2, <2>3, <2>4 DEF Next
<1>3. Phase'
  <2>1. CASE Camera
    <3>1. UNCHANGED <<tx, op, left>>
      BY <2>1 DEF Camera, CamRequest, CamDataIn, CamData, CamBlock, CamResponse, CamSend, host
    <3> QED
      BY <1>1, <3>1
  <2>2. CASE SendReq
    BY <1>1, <2>2 DEF SendReq, HostTyped
  <2>3. CASE SendData
    BY <1>1, <2>3 DEF SendData
  <2>4. CASE WriteFail \/ ReadFail \/ ReadGarbage \/ HandlerFail
    BY <2>4, GivenUp
  <2>5. CASE GetDataHeader
    <3>1. Head(inq) = inq[1] /\ 1 \in 1..Len(inq)
      BY <1>1, <2>5, TailElements DEF GetDataHeader, PipesTyped
    <3> QED
      BY <1>1, <2>5, <3>1 DEF GetDataHeader, Return
  <2>6. CASE GetBlock
    <3>1. left \in Nat
      BY <1>1, BlocksAssumption DEF HostTyped
    <3> QED
      BY <1>1, <2>6, <3>1 DEF GetBlock
  <2>7. CASE GetResp
    BY <2>7 DEF GetResp, Return
  <2>8. CASE Procedure \/ Connect \/ CloseCamera \/ Call
    BY <2>8, BetweenTransactions
  <2> QED
    BY <2>1, <2>2, <2>3, <2>4, <2>5, <2>6, <2>7, <2>8 DEF Next, Transaction
<1>4. Job' /\ Headers'
  <2>1. ASSUME UNCHANGED cam, inq' = inq \/ (inq # <<>> /\ inq' = Tail(inq))
        PROVE  Job' /\ Headers'
    <3>1. inq # <<>> => \A i \in 1..Len(Tail(inq)) : i + 1 \in 1..Len(inq) /\ Tail(inq)[i] = inq[i + 1]
      BY <1>1, TailElements DEF PipesTyped
    <3>2. Headers'
      BY <1>1, <2>1, <3>1
    <3> QED
      BY <1>1, <2>1, <3>2
  <2>2. CASE CamRequest
    BY <1>1, <2>2, CamRequestEffect
  <2>3. CASE CamDataIn
    BY <1>1, <2>3, CamDataInEffect
  <2>4. ASSUME NEW x \in Containers, inq' = Append(inq, x), x.type = "DATA" => x.n > 0
        PROVE  Headers'
    <3>1. /\ Len(inq) \in Nat /\ Len(inq') = Len(inq) + 1 /\ inq'[Len(inq) + 1] = x
          /\ \A i \in 1..Len(inq) : inq'[i] = inq[i]
      BY <1>1, <2>4, AppendElements DEF PipesTyped
    <3>2. \A i \in 1..Len(inq') : i \in 1..Len(inq) \/ i = Len(inq) + 1
      BY <3>1
    <3> QED
      BY <1>1, <2>4, <3>1, <3>2
  <2>5. CASE CamData
    BY <1>1, <2>4, <2>5, CamDataEffect
  <2>6. CASE CamBlock
    <3>1. PICK x \in Containers :
             /\ inq' = Append(inq, x) /\ x.type = "block" /\ cam'.op = cam.op /\ cam.phase = "payload"
             /\ cam.left \in Nat \ {0} /\ cam'.left = cam.left - 1
             /\ cam'.phase = IF cam.left = 1 THEN "resp" ELSE "payload"
      BY <1>1, <2>6, CamBlockEffect
    <3>2. Job'
      BY <1>1, <3>1
    <3> QED
      BY <2>4, <3>1, <3>2
  <2>7. CASE CamResponse
    BY <1>1, <2>4, <2>7, CamResponseEffect
  <2>8. CASE SendReq
    <3>1. /\ AllForeign(inq) \in Seq(Containers) /\ Len(AllForeign(inq)) = Len(inq)
          /\ \A i \in 1..Len(inq) : /\ AllForeign(inq)[i].type = inq[i].type
                                    /\ AllForeign(inq)[i].n = inq[i].n
          /\ Foreign(cam).phase = cam.phase /\ Foreign(cam).op = cam.op /\ Foreign(cam).left = cam.left
      BY <1>1, ForeignElements, JobFields DEF PipesTyped
    <3> QED
      BY <1>1, <2>8, <3>1 DEF SendReq
  <2>9. CASE SendData
    BY <2>1, <2>9 DEF SendData
  <2>10. CASE WriteFail \/ ReadFail \/ ReadGarbage \/ HandlerFail
    BY <2>1, <2>10, GivenUp
  <2>11. CASE GetDataHeader \/ GetBlock \/ GetResp
    BY <2>1, <2>11 DEF GetDataHeader, GetBlock, GetResp
  <2>12. CASE Procedure \/ Connect \/ CloseCamera \/ Call
    <3>1. Len(<<>>) = 0
      OBVIOUS
    <3>2. CASE outq' = <<>> /\ inq' = <<>> /\ cam' = Idle
      BY <3>1, <3>2, Operations
    <3> QED
      BY <2>1, <2>12, <3>2, BetweenTransactions
  <2> QED
    BY <2>2, <2>3, <2>5, <2>6, <2>7, <2>8, <2>9, <2>10, <2>11, <2>12 DEF Next, Camera, Transaction
<1>5. DOMAIN inq' = 1..Len(inq')
  BY PipesTypeStep DEF PipesTyped
<1> QED
  BY <1>2, <1>3, <1>4, <1>5 DEF Phases

-----------------------------------------------------------------------------
\* Making containers foreign does not touch what is announced.
LEMMA ForeignFollow ==
    ASSUME NEW q \in Seq(Containers), NEW c \in Jobs
    PROVE  /\ \A p, k \in Nat : Follow(q, c, p, k) => Follow(AllForeign(q), Foreign(c), p, k)
           /\ HeadersFollowed(q, c) => HeadersFollowed(AllForeign(q), Foreign(c))
<1>1. /\ Len(AllForeign(q)) = Len(q) /\ Len(q) \in Nat
      /\ \A i \in 1..Len(q) : AllForeign(q)[i].type = q[i].type /\ AllForeign(q)[i].n = q[i].n
      /\ Foreign(c).phase = c.phase /\ Foreign(c).left = c.left
  BY ForeignElements, JobFields
<1>2. \A p, k \in Nat : Follow(q, c, p, k) => Follow(AllForeign(q), Foreign(c), p, k)
  BY <1>1 DEF Follow
<1>3. \A i \in 1..Len(q) : i \in Nat /\ q[i].n \in Nat
  BY ContainerFields
<1> QED
  BY <1>1, <1>2, <1>3 DEF HeadersFollowed

\* Every step keeps the headers followed by what they announce, and the
\* payload being read where it is.
LEMMA AnnouncedStep ==
    ASSUME TypeOK, Phases, Announced, Next PROVE Announced'
<1>1. /\ PipesTyped /\ inq \in Seq(Containers) /\ Len(inq) \in Nat /\ cam \in Jobs /\ left \in Nat
      /\ HeadersFollowed(inq, cam) /\ (tx = "payload" => Follow(inq, cam, 0, left))
  BY TypeParts, BlocksAssumption DEF Announced, PipesTyped, HostTyped
<1>2. \A i \in 1..Len(inq) : i \in Nat /\ inq[i].n \in Nat
  BY <1>1, ContainerFields
<1>3. CASE CamRequest \/ CamDataIn
  <2>1. cam.phase # "payload" /\ UNCHANGED <<inq, tx, left>>
    BY <1>1, <1>3, CamRequestEffect, CamDataInEffect DEF host
  <2>2. HeadersFollowed(inq, cam')
    BY <1>1, <1>2, <2>1, AllThere DEF HeadersFollowed
  <2>3. tx = "payload" => Follow(inq, cam', 0, left)
    BY <1>1, <2>1, AllThere
  <2> QED
    BY <2>1, <2>2, <2>3 DEF Announced
<1>4. CASE CamData \/ CamResponse
  <2>1. PICK x \in Containers :
           /\ inq' = Append(inq, x) /\ cam.phase # "payload" /\ UNCHANGED <<tx, left>>
           /\ \/ x.type = "RESPONSE"
              \/ x.type = "DATA" /\ cam'.phase = "payload" /\ cam'.left = x.n
    <3>1. CASE CamData
      <4>1. PICK x \in Containers :
               /\ UNCHANGED host /\ cam.phase = "data" /\ inq' = Append(inq, x)
               /\ x.type = "DATA" /\ x.n = cam.left /\ cam'.phase = "payload" /\ cam'.left = cam.left
        BY <1>1, <3>1, CamDataEffect
      <4>2. UNCHANGED <<tx, left>> /\ cam.phase # "payload"
        BY <4>1 DEF host
      <4> QED
        BY <4>1, <4>2
    <3>2. CASE CamResponse
      <4>1. PICK x \in Containers : /\ UNCHANGED host /\ cam.phase \in {"resp", "data"}
                                    /\ inq' = Append(inq, x) /\ x.type = "RESPONSE"
        BY <1>1, <3>2, CamResponseEffect
      <4>2. UNCHANGED <<tx, left>> /\ cam.phase # "payload"
        BY <4>1 DEF host
      <4> QED
        BY <4>1, <4>2
    <3> QED
      BY <1>4, <3>1, <3>2
  <2>2. /\ Len(inq') = Len(inq) + 1 /\ inq'[Len(inq) + 1] = x
        /\ \A i \in 1..Len(inq) : inq'[i] = inq[i]
    BY <1>1, <2>1, AppendElements
  <2>3. ASSUME NEW i \in 1..Len(inq'), inq'[i].type = "DATA"
        PROVE  Follow(inq', cam', i, inq'[i].n)
    <3>1. CASE i \in 1..Len(inq)
      <4>1. Follow(inq, cam, i, inq[i].n) /\ inq'[i] = inq[i]
        BY <1>1, <2>2, <2>3, <3>1 DEF HeadersFollowed
      <4> QED
        BY <1>1, <1>2, <2>1, <3>1, <4>1, AllThere
    <3>2. CASE i = Len(inq) + 1
      <4>1. inq'[i] = x /\ cam'.phase = "payload" /\ cam'.left = x.n /\ x.n \in Nat
        BY <2>1, <2>2, <2>3, <3>2, ContainerFields
      <4> QED
        BY <1>1, <2>2, <3>2, <4>1 DEF Follow
    <3> QED
      BY <1>1, <2>2, <3>1, <3>2
  <2>4. tx = "payload" => Follow(inq', cam', 0, left)
    BY <1>1, <2>1, AllThere
  <2> QED
    BY <2>1, <2>3, <2>4 DEF Announced, HeadersFollowed
<1>5. CASE CamBlock
  <2>1. PICK x \in Containers :
           /\ inq' = Append(inq, x) /\ x.type = "block" /\ UNCHANGED <<tx, left>>
           /\ cam.phase = "payload" /\ cam.left \in Nat \ {0} /\ cam'.left = cam.left - 1
           /\ cam.left > 1 => cam'.phase = "payload"
    BY <1>1, <1>5, CamBlockEffect DEF host
  <2>2. /\ Len(inq') = Len(inq) + 1 /\ inq'[Len(inq) + 1] = x
        /\ \A i \in 1..Len(inq) : inq'[i] = inq[i]
    BY <1>1, <2>1, AppendElements
  <2>3. \A p \in 0..Len(inq), k \in Nat : Follow(inq, cam, p, k) => Follow(inq', cam', p, k)
    BY <1>1, <2>1, BlockSent
  <2>4. \A i \in 1..Len(inq') : inq'[i].type = "DATA" => i \in 1..Len(inq) /\ i \in 0..Len(inq)
    BY <1>1, <2>1, <2>2
  <2>5. HeadersFollowed(inq', cam')
    BY <1>1, <1>2, <2>2, <2>3, <2>4 DEF HeadersFollowed
  <2>6. tx = "payload" => Follow(inq', cam', 0, left)
    BY <1>1, <2>3
  <2> QED
    BY <2>1, <2>5, <2>6 DEF Announced
<1>6. CASE SendReq
  <2>1. inq' = AllForeign(inq) /\ cam' = Foreign(cam) /\ tx' # "payload"
    BY <1>6 DEF SendReq
  <2> QED
    BY <1>1, <2>1, ForeignFollow DEF Announced
<1>7. CASE SendData
  BY <1>1, <1>7 DEF SendData, Announced
<1>8. ASSUME UNCHANGED cam, inq' = inq \/ (inq # <<>> /\ inq' = Tail(inq))
      PROVE  HeadersFollowed(inq', cam')
  BY <1>1, <1>8, TailFollowed
<1>9. CASE WriteFail \/ ReadFail \/ ReadGarbage \/ HandlerFail
  BY <1>8, <1>9, GivenUp DEF Announced
<1>10. CASE GetDataHeader
  <2>1. /\ inq # <<>> /\ inq' = Tail(inq) /\ UNCHANGED cam /\ Head(inq) = inq[1] /\ 1 \in 1..Len(inq)
        /\ tx' = "payload" => inq[1].type = "DATA" /\ left' = inq[1].n
    BY <1>1, <1>10, TailElements DEF GetDataHeader, Return
  <2>2. tx' = "payload" => Follow(inq', cam', 0, left')
    BY <1>1, <1>2, <2>1, HeaderTaken DEF HeadersFollowed
  <2> QED
    BY <1>8, <2>1, <2>2 DEF Announced
<1>11. CASE GetBlock
  <2>1. inq # <<>> /\ inq' = Tail(inq) /\ UNCHANGED cam /\ tx = "payload" /\ left' = left - 1
    BY <1>11 DEF GetBlock
  <2>2. left \in Nat \ {0}
    BY <1>1, <2>1 DEF Phases
  <2>3. Follow(inq', cam', 0, left')
    BY <1>1, <2>1, <2>2, BlockTaken
  <2> QED
    BY <1>8, <2>1, <2>3 DEF Announced
<1>12. CASE GetResp
  BY <1>8, <1>12 DEF GetResp, Return, Announced
<1>13. CASE Procedure \/ Connect \/ CloseCamera \/ Call
  <2>1. CASE inq' = <<>>
    BY <2>1, <1>13, BetweenTransactions DEF Announced, HeadersFollowed
  <2> QED
    BY <1>8, <1>13, <2>1, BetweenTransactions DEF Announced
<1> QED
  BY <1>3, <1>4, <1>5, <1>6, <1>7, <1>9, <1>10, <1>11, <1>12, <1>13 DEF Next, Camera, Transaction

-----------------------------------------------------------------------------
\* The answer is somewhere, unless the transaction is over.
OnItsWay == synced /\ tx \in {"senddata", "datahdr", "payload", "resp"}
                => RequestOut \/ DataAwaited \/ DataDue \/ Answering

\* The camera does nothing while it is in step with a host that does nothing.
LEMMA QuietCamera ==
    ASSUME TypeOK, Camera PROVE ~InSync
<1>1. PipesTyped
  BY TypeParts
<1>2. Len(<<>>) = 0
  OBVIOUS
<1> QED
  BY <1>1 DEF InSync, Camera, CamRequest, CamDataIn, CamData, CamBlock, CamResponse

\* Whatever the camera does with a transaction in step, the answer is somewhere.
LEMMA CameraKeepsStep ==
    ASSUME TypeOK, Phases, Announced, OnItsWay, synced, tx \in {"senddata", "datahdr", "payload", "resp"},
           Camera
    PROVE  (RequestOut \/ DataAwaited \/ DataDue \/ Answering)'
<1>1. /\ PipesTyped /\ HostTyped /\ outq \in Seq(Requests) /\ inq \in Seq(Containers) /\ cam \in Jobs
      /\ Len(outq) \in Nat /\ Len(inq) \in Nat /\ left \in Nat /\ cam.left \in Nat
      /\ op \in DOMAIN DataPhase
  BY TypeParts, BlocksAssumption, JobFields DEF PipesTyped, HostTyped
<1>2. RequestOut \/ DataAwaited \/ DataDue \/ Answering
  BY DEF OnItsWay
<1>3. UNCHANGED <<tx, op, left>>
  BY DEF Camera, CamRequest, CamDataIn, CamData, CamBlock, CamResponse, CamSend, host
<1>4. \A q : q \in Seq(Containers) \/ q \in Seq(Requests) => (Len(q) = 0 <=> q = <<>>)
  OBVIOUS
<1>5. \A i \in 1..Len(inq) : inq[i].n \in Nat
  BY <1>1, ContainerFields
<1>6. CASE CamRequest
  <2>1. /\ UNCHANGED inq /\ outq # <<>> /\ outq[1].type = "REQ"
        /\ outq' \in Seq(Requests) /\ Len(outq') = Len(outq) - 1
        /\ cam'.op = outq[1].op /\ cam'.phase \in {"data", "waitdata", "resp"}
        /\ cam'.phase = "data" <=> DataPhase[outq[1].op] = "get"
        /\ cam'.phase = "waitdata" <=> DataPhase[outq[1].op] = "send"
    BY <1>1, <1>6, CamRequestEffect
  <2>2. RequestOut
    BY <1>2, <2>1 DEF DataAwaited, DataDue, Answering
  <2>3. outq' = <<>> /\ inq' = <<>> /\ cam'.op = op /\ inq = <<>>
    BY <1>1, <1>4, <2>1, <2>2 DEF RequestOut
  <2>4. CASE cam'.phase = "data"
    <3>1. tx = "datahdr"
      BY <2>1, <2>2, <2>4 DEF RequestOut, Phases
    <3> QED
      BY <1>3, <2>3, <2>4, <3>1 DEF DataDue
  <2>5. CASE cam'.phase = "waitdata"
    <3>1. tx = "senddata"
      BY <2>1, <2>2, <2>5 DEF RequestOut, Phases
    <3> QED
      BY <1>3, <2>3, <2>5, <3>1 DEF DataAwaited
  <2>6. CASE cam'.phase = "resp"
    <3>1. tx = "resp" /\ Len(inq') = 0
      BY <1>1, <1>4, <2>1, <2>2, <2>3, <2>6, Operations DEF RequestOut, Phases
    <3> QED
      BY <1>3, <2>3, <2>6, <3>1 DEF Answering, Owed
  <2> QED
    BY <2>1, <2>4, <2>5, <2>6
<1>7. CASE CamDataIn
  <2>1. /\ UNCHANGED inq /\ outq # <<>> /\ outq[1].type = "DATA"
        /\ outq' \in Seq(Requests) /\ Len(outq') = Len(outq) - 1
        /\ cam'.phase = IF cam.phase = "waitdata" THEN "resp" ELSE cam.phase
    BY <1>1, <1>7, CamDataInEffect
  <2>2. DataAwaited /\ tx = "resp" /\ Len(outq) = 1
    BY <1>2, <2>1 DEF RequestOut, DataAwaited, DataDue, Answering
  <2>3. outq' = <<>> /\ inq' = <<>> /\ Len(inq') = 0 /\ cam'.phase = "resp"
    BY <1>1, <1>4, <2>1, <2>2 DEF DataAwaited
  <2> QED
    BY <1>3, <2>2, <2>3 DEF Answering, Owed
<1>8. CASE CamData
  <2>1. PICK x \in Containers :
           /\ UNCHANGED outq /\ cam.phase = "data" /\ inq' = Append(inq, x)
           /\ x.type = "DATA" /\ x.n = cam.left /\ x.code = Code(cam.op)
           /\ cam' \in Jobs /\ cam'.phase = "payload" /\ cam'.left = cam.left
    BY <1>1, <1>8, CamDataEffect
  <2>2. DataDue
    BY <1>2, <2>1 DEF RequestOut, DataAwaited, Answering
  <2>3. inq' # <<>> /\ Len(inq') = 1 /\ inq'[1] = x
    BY <2>1, <2>2 DEF DataDue
  <2>4. Owed' = 1 + x.n
    BY <1>3, <2>1, <2>2, <2>3 DEF Owed, DataDue
  <2>5. x.n \in Nat
    BY ContainerFields
  <2> QED
    BY <1>3, <2>1, <2>2, <2>3, <2>4, <2>5 DEF Answering, DataDue
<1>9. CASE CamBlock
  <2>1. PICK x \in Containers :
           /\ UNCHANGED outq /\ cam.phase = "payload" /\ inq' = Append(inq, x) /\ x.type = "block"
           /\ cam' \in Jobs /\ cam.left \in Nat \ {0} /\ cam'.left = cam.left - 1
           /\ cam'.phase = IF cam.left = 1 THEN "resp" ELSE "payload"
    BY <1>1, <1>9, CamBlockEffect
  <2>2. Answering /\ Len(inq) + cam.left = Owed
    BY <1>2, <2>1 DEF RequestOut, DataAwaited, DataDue, Answering
  <2>3. /\ Len(inq') = Len(inq) + 1 /\ inq'[Len(inq) + 1] = x /\ inq' # <<>>
        /\ \A i \in 1..Len(inq) : inq'[i] = inq[i]
    BY <1>1, <2>1, AppendElements
  <2>4. Owed' = Owed
    <3>1. CASE tx = "datahdr"
      <4>1. inq # <<>> /\ 1 \in 1..Len(inq) /\ inq'[1] = inq[1]
        BY <1>1, <1>4, <2>1, <2>2, <2>3, <3>1 DEF Owed
      <4> QED
        BY <1>3, <2>3, <3>1, <4>1 DEF Owed
    <3>2. CASE tx # "datahdr"
      BY <1>3, <3>2 DEF Owed
    <3> QED
      BY <3>1, <3>2
  <2>5. \A i \in 1..Len(inq') : i \in 1..Len(inq) \/ inq'[i].type = "block"
    BY <1>1, <2>1, <2>3
  <2>6. /\ \A i \in 1..Len(inq') : inq'[i].type = "RESPONSE" => i = Owed' + 1
        /\ \A i \in 1..Len(inq') : inq'[i].type = "DATA"
                => i = 1 /\ tx' = "datahdr" /\ inq'[i].code = Code(op')
    BY <1>3, <2>2, <2>3, <2>4, <2>5 DEF Answering
  <2>7. \/ cam'.phase = "payload" /\ Len(inq') + cam'.left = Owed'
        \/ cam'.phase = "resp" /\ Len(inq') = Owed'
    <3>1. Len(inq) \in Nat /\ cam.left \in Nat \ {0} /\ Len(inq) + cam.left = Owed'
      BY <1>1, <2>1, <2>2, <2>4
    <3>2. Len(inq') = Len(inq) + 1 /\ cam'.left = cam.left - 1
      BY <2>1, <2>3
    <3>3. Len(inq') + cam'.left = Owed' /\ (cam.left = 1 => Len(inq') = Owed')
      BY <3>1, <3>2
    <3> QED
      BY <2>1, <3>3
  <2> QED
    BY <1>3, <2>1, <2>2, <2>6, <2>7 DEF Answering
<1>10. CASE CamResponse
  <2>1. PICK x \in Containers :
           /\ UNCHANGED outq /\ cam.phase \in {"resp", "data"}
           /\ inq' = Append(inq, x) /\ x.type = "RESPONSE" /\ cam'.phase = "idle"
    BY <1>1, <1>10, CamResponseEffect
  <2>2. DataDue \/ (Answering /\ Len(inq) = Owed)
    BY <1>2, <2>1 DEF RequestOut, DataAwaited, Answering
  <2>3. /\ Len(inq') = Len(inq) + 1 /\ inq'[Len(inq) + 1] = x /\ inq' # <<>>
        /\ \A i \in 1..Len(inq) : inq'[i] = inq[i]
    BY <1>1, <2>1, AppendElements
  <2>4. Len(inq) = Owed /\ Owed' = Owed /\ outq = <<>> /\ tx \in {"datahdr", "payload", "resp"}
    <3>1. CASE inq = <<>>
      <4>1. Len(inq) = 0 /\ inq'[1].type = "RESPONSE"
        BY <1>1, <1>4, <2>1, <2>3, <3>1
      <4>2. tx # "payload"
        BY <2>2, <3>1, <4>1 DEF DataDue, Answering, Owed, Phases
      <4> QED
        BY <1>3, <2>2, <3>1, <4>1, <4>2 DEF DataDue, Answering, Owed
    <3>2. CASE inq # <<>>
      <4>1. 1 \in 1..Len(inq) /\ inq'[1] = inq[1]
        BY <1>1, <1>4, <2>3, <3>2
      <4> QED
        BY <1>3, <2>2, <2>3, <3>2, <4>1 DEF DataDue, Answering, Owed
    <3> QED
      BY <3>1, <3>2
  <2>5. \A i \in 1..Len(inq') : i \in 1..Len(inq) \/ (i = Owed' + 1 /\ inq'[i].type = "RESPONSE")
    BY <1>1, <2>1, <2>3, <2>4
  <2>6. \A i \in 1..Len(inq) : /\ inq[i].type = "RESPONSE" => i = Owed + 1
                               /\ inq[i].type = "DATA" => i = 1 /\ tx = "datahdr" /\ inq[i].code = Code(op)
    BY <1>1, <1>4, <2>2 DEF DataDue, Answering
  <2>7. /\ \A i \in 1..Len(inq') : inq'[i].type = "RESPONSE" => i = Owed' + 1
        /\ \A i \in 1..Len(inq') : inq'[i].type = "DATA"
                => i = 1 /\ tx' = "datahdr" /\ inq'[i].code = Code(op')
    BY <1>3, <2>3, <2>4, <2>5, <2>6
  <2>8. cam'.phase = "idle" /\ Len(inq') = Owed' + 1 /\ inq'[Owed' + 1].type = "RESPONSE"
    BY <2>1, <2>3, <2>4
  <2> QED
    BY <1>3, <2>1, <2>4, <2>7, <2>8 DEF Answering
<1> QED
  BY <1>6, <1>7, <1>8, <1>9, <1>10 DEF Camera

\* The header of a transaction in step: its data header, followed by what it
\* announces and the response, or the response in its place.
LEMMA GetDataHeaderKeepsStep ==
    ASSUME TypeOK, Phases, Announced, OnItsWay, synced, GetDataHeader
    PROVE  /\ tx' = "none" => InSync'
           /\ tx' # "none" => Answering'
<1>1. /\ inq \in Seq(Containers) /\ inq # <<>> /\ Len(inq) \in Nat \ {0} /\ inq[1] \in Containers
      /\ Head(inq) = inq[1] /\ Tail(inq) \in Seq(Containers) /\ Len(Tail(inq)) = Len(inq) - 1
      /\ \A i \in 1..Len(Tail(inq)) : i + 1 \in 1..Len(inq) /\ Tail(inq)[i] = inq[i + 1]
      /\ 1 \in 1..Len(inq)
  BY TypeParts, TailElements DEF PipesTyped, GetDataHeader
<1>2. /\ inq' = Tail(inq) /\ UNCHANGED <<op, outq, cam>> /\ tx = "datahdr" /\ inq[1].type # "block"
      /\ \/ tx' = "none"
         \/ inq[1].type = "DATA" /\ tx' = "payload" /\ left' = inq[1].n
  BY <1>1 DEF GetDataHeader, Return
<1>3. Answering
  BY <1>1, <1>2 DEF OnItsWay, RequestOut, DataAwaited, DataDue
<1>4. cam.left \in Nat /\ (cam.phase = "payload" => cam.left > 0) /\ inq[1].n \in Nat
  BY <1>1, TypeParts, JobFields, ContainerFields DEF PipesTyped, Phases
<1>5. CASE inq[1].type = "DATA"
  <2>1. Owed = 1 + inq[1].n /\ inq[1].code = Code(op)
    BY <1>1, <1>2, <1>3, <1>5 DEF Owed, Answering
  <2>2. tx' = "payload" /\ left' = inq[1].n /\ Owed' = inq[1].n
    BY <1>1, <1>2, <1>5, <2>1 DEF GetDataHeader, Owed
  <2>3. Owed = Owed' + 1 /\ Len(inq') = Len(inq) - 1 /\ Owed' \in Nat
    BY <1>1, <1>2, <1>4, <2>1, <2>2
  <2>4. \A i \in 1..Len(inq') : inq'[i].type # "DATA" /\ (inq'[i].type = "RESPONSE" => i = Owed' + 1)
    BY <1>1, <1>2, <1>3, <2>3 DEF Answering
  <2>5. \/ cam'.phase = "payload" /\ Len(inq') + cam'.left = Owed'
        \/ cam'.phase = "resp" /\ Len(inq') = Owed'
        \/ cam'.phase = "idle" /\ Len(inq') = Owed' + 1 /\ inq'[Owed' + 1].type = "RESPONSE"
    <3>1. CASE cam.phase = "payload" /\ Len(inq) + cam.left = Owed
      BY <1>1, <1>2, <1>4, <2>3, <3>1
    <3>2. CASE cam.phase = "resp" /\ Len(inq) = Owed
      BY <1>1, <1>2, <2>3, <3>2
    <3>3. CASE cam.phase = "idle" /\ Len(inq) = Owed + 1 /\ inq[Owed + 1].type = "RESPONSE"
      <4>1. PICK d \in Nat : d = Owed'
        BY <2>3
      <4>2. Owed = d + 1 /\ Len(inq) = d + 2 /\ Len(Tail(inq)) = d + 1
        BY <1>1, <2>3, <3>3, <4>1
      <4>a. \A k \in Nat : k + 1 \in 1..(k + 1)
        OBVIOUS
      <4>3. d + 1 \in 1..Len(Tail(inq))
        BY <4>2, <4>a
      <4>4. Tail(inq)[d + 1] = inq[d + 2] /\ inq[d + 2].type = "RESPONSE"
        BY <1>1, <3>3, <4>1, <4>2, <4>3
      <4> QED
        BY <1>2, <3>3, <4>1, <4>2, <4>4
    <3> QED
      BY <1>3, <3>1, <3>2, <3>3 DEF Answering
  <2> QED
    BY <1>2, <1>3, <2>2, <2>4, <2>5 DEF Answering
<1>6. CASE inq[1].type # "DATA"
  <2>1. inq[1].type = "RESPONSE" /\ Owed = 0
    BY <1>1, <1>2, <1>6, ContainerFields DEF Owed
  <2>2. cam.phase = "idle" /\ Len(inq) = 1 /\ outq = <<>>
    BY <1>1, <1>3, <1>4, <2>1 DEF Answering
  <2>3. inq' = <<>> /\ tx' = "none"
    BY <1>1, <1>2, <1>6, <2>2
  <2> QED
    BY <1>2, <2>2, <2>3 DEF InSync
<1> QED
  BY <1>5, <1>6

\* A block of a transaction in step.
LEMMA GetBlockKeepsStep ==
    ASSUME TypeOK, Phases, Announced, OnItsWay, synced, GetBlock
    PROVE  Answering'
<1>1. /\ inq \in Seq(Containers) /\ inq # <<>> /\ Len(inq) \in Nat \ {0}
      /\ Tail(inq) \in Seq(Containers) /\ Len(Tail(inq)) = Len(inq) - 1
      /\ \A i \in 1..Len(Tail(inq)) : i + 1 \in 1..Len(inq) /\ Tail(inq)[i] = inq[i + 1]
  BY TypeParts, TailElements DEF PipesTyped, GetBlock
<1>2. /\ inq' = Tail(inq) /\ UNCHANGED <<op, outq, cam>> /\ tx = "payload" /\ left' = left - 1
      /\ tx' = IF left = 1 THEN "resp" ELSE "payload"
  BY DEF GetBlock
<1>3. Answering
  BY <1>1, <1>2 DEF OnItsWay, RequestOut, DataAwaited, DataDue
<1>4. cam.left \in Nat /\ left \in Nat \ {0}
  BY <1>2, TypeParts, JobFields, BlocksAssumption DEF PipesTyped, HostTyped, Phases
<1>5. Owed = left /\ Owed' = left - 1 /\ Len(inq') = Len(inq) - 1 /\ Owed' \in Nat /\ Owed = Owed' + 1
  BY <1>1, <1>2, <1>4 DEF Owed
<1>6. \A i \in 1..Len(inq') : inq'[i].type # "DATA" /\ (inq'[i].type = "RESPONSE" => i = Owed' + 1)
  BY <1>1, <1>2, <1>3, <1>5 DEF Answering
<1>7. \/ cam'.phase = "payload" /\ Len(inq') + cam'.left = Owed'
      \/ cam'.phase = "resp" /\ Len(inq') = Owed'
      \/ cam'.phase = "idle" /\ Len(inq') = Owed' + 1 /\ inq'[Owed' + 1].type = "RESPONSE"
  <2>1. CASE cam.phase = "payload" /\ Len(inq) + cam.left = Owed
    BY <1>1, <1>2, <1>4, <1>5, <2>1
  <2>2. CASE cam.phase = "resp" /\ Len(inq) = Owed
    BY <1>1, <1>2, <1>5, <2>2
  <2>3. CASE cam.phase = "idle" /\ Len(inq) = Owed + 1 /\ inq[Owed + 1].type = "RESPONSE"
    BY <1>1, <1>2, <1>5, <2>3
  <2> QED
    BY <1>3, <2>1, <2>2, <2>3 DEF Answering
<1> QED
  BY <1>2, <1>3, <1>6, <1>7 DEF Answering

\* The response of a transaction in step is the last thing in the pipes.
LEMMA GetRespKeepsStep ==
    ASSUME TypeOK, Phases, OnItsWay, synced, GetResp
    PROVE  InSync'
<1>1. /\ inq \in Seq(Containers) /\ inq # <<>> /\ Len(inq) \in Nat \ {0}
      /\ inq' = Tail(inq) /\ Len(Tail(inq)) = Len(inq) - 1 /\ UNCHANGED <<outq, cam>> /\ tx = "resp"
  BY TypeParts, TailElements DEF PipesTyped, GetResp
<1>2. Answering /\ Owed = 0
  BY <1>1 DEF OnItsWay, RequestOut, DataAwaited, DataDue, Owed
<1>3. cam.left \in Nat /\ (cam.phase = "payload" => cam.left > 0)
  BY TypeParts, JobFields DEF PipesTyped, Phases
<1>4. cam.phase = "idle" /\ Len(inq) = 1 /\ outq = <<>>
  BY <1>1, <1>2, <1>3 DEF Answering
<1>5. inq' = <<>>
  BY <1>1, <1>4
<1> QED
  BY <1>1, <1>4, <1>5 DEF InSync

\* Every step keeps the host in step with the camera.
LEMMA InStepStep ==
    ASSUME TypeOK, Phases, Announced, InStep, Next PROVE InStep'
<1> DEFINE Busy == tx \in {"senddata", "datahdr", "payload", "resp"}
<1> DEFINE Somewhere == RequestOut \/ DataAwaited \/ DataDue \/ Answering
<1>1. OnItsWay /\ (synced /\ Busy => Somewhere) /\ SyncKept
  BY DEF OnItsWay, InStep
<1>2. CASE Camera
  <2>1. UNCHANGED <<tx, synced, rc>>
    BY <1>2 DEF Camera, CamRequest, CamDataIn, CamData, CamBlock, CamResponse, CamSend, host
  <2>2. SyncKept'
    BY <1>1, <1>2, <2>1, QuietCamera DEF SyncKept
  <2>3. (synced /\ Busy => Somewhere)'
    BY <1>1, <1>2, <2>1, CameraKeepsStep
  <2> QED
    BY <2>2, <2>3 DEF InStep
<1>3. CASE SendReq
  <2>1. /\ synced' = InSync /\ op' = op /\ inq' = AllForeign(inq) /\ cam' = Foreign(cam)
        /\ outq' = <<[type |-> "REQ", op |-> op, mine |-> TRUE]>>
        /\ tx' = CASE DataPhase[op] = "get" -> "datahdr" [] DataPhase[op] = "send" -> "senddata"
                   [] OTHER -> "resp"
    BY <1>3 DEF SendReq
  <2>2. Len(outq') = 1 /\ outq'[1].type = "REQ" /\ outq'[1].op = op'
    BY <2>1
  <2>3. tx' \in {"senddata", "datahdr", "resp"} /\ (tx' = "resp" => DataPhase[op'] = "nodata")
    <3>1. DataPhase[op] \in {"nodata", "get", "send"}
      BY Operations DEF TypeOK
    <3> QED
      BY <2>1, <3>1
  <2>4. synced' => inq' = <<>> /\ cam'.phase = "idle"
    <3>1. /\ AllForeign(inq) \in Seq(Containers) /\ Len(AllForeign(inq)) = Len(inq)
          /\ Foreign(cam).phase = cam.phase
      BY TypeParts, ForeignElements, JobFields DEF PipesTyped
    <3>2. inq = <<>> => AllForeign(inq) = <<>>
      BY <3>1
    <3> QED
      BY <2>1, <3>1, <3>2 DEF InSync
  <2> QED
    BY <2>2, <2>3, <2>4 DEF InStep, RequestOut, SyncKept
<1>4. CASE SendData
  <2>1. /\ tx = "senddata" /\ outq = <<>> /\ tx' = "resp" /\ UNCHANGED <<synced, inq, cam>>
        /\ outq' = <<[type |-> "DATA", op |-> op, mine |-> TRUE]>>
    BY <1>4 DEF SendData, WriteOK
  <2>2. Len(outq') = 1 /\ outq'[1].type = "DATA" /\ Len(outq) = 0
    BY <2>1
  <2>3. synced => DataAwaited
    BY <1>1, <2>1, <2>2 DEF RequestOut, DataDue, Answering
  <2> QED
    BY <2>1, <2>2, <2>3 DEF InStep, DataAwaited, SyncKept
<1>5. CASE WriteFail \/ ReadFail \/ ReadGarbage \/ HandlerFail
  BY <1>5, GivenUp DEF InStep, SyncKept
<1>6. CASE GetDataHeader
  <2>1. UNCHANGED synced
    BY <1>6 DEF GetDataHeader
  <2> QED
    BY <1>1, <1>6, <2>1, GetDataHeaderKeepsStep DEF InStep, SyncKept
<1>7. CASE GetBlock
  <2>1. UNCHANGED synced /\ tx' # "none"
    BY <1>7 DEF GetBlock
  <2> QED
    BY <1>1, <1>7, <2>1, GetBlockKeepsStep DEF InStep, SyncKept
<1>8. CASE GetResp
  <2>1. UNCHANGED synced /\ tx' = "none"
    BY <1>8 DEF GetResp, Return
  <2> QED
    BY <1>1, <1>8, <2>1, GetRespKeepsStep DEF InStep, SyncKept
<1>9. CASE Procedure \/ Connect \/ CloseCamera \/ Call
  <2>1. ~Busy'
    BY <1>9, BetweenTransactions
  <2>2. SyncKept'
    <3>1. outq' = <<>> /\ inq' = <<>> /\ cam' = Idle => InSync'
      BY Operations DEF InSync
    <3>2. UNCHANGED <<outq, inq, cam>> => InSync' = InSync
      BY DEF InSync
    <3> QED
      BY <1>1, <1>9, <3>1, <3>2, BetweenTransactions DEF SyncKept
  <2> QED
    BY <2>1, <2>2 DEF InStep
<1> QED
  BY <1>2, <1>3, <1>4, <1>5, <1>6, <1>7, <1>8, <1>9 DEF Next, Transaction

\* The invariant holds when the program starts.
LEMMA InvInit == Init => IInv
<1> SUFFICES ASSUME Init PROVE IInv
  OBVIOUS
<1>1. inq \in Seq(Containers) /\ Len(inq) = 0 /\ outq \in Seq(Requests) /\ cam \in Jobs /\ cam.phase = "idle"
  BY Operations DEF Init
<1>2. op \in DOMAIN DataPhase
  BY Operations DEF Init
<1>3. TypeOK
  <2>1. PipesTyped
    BY <1>1, PipeAssumption DEF PipesTyped
  <2>2. HostTyped
    <3>1. left \in 0..MaxBlocks /\ faults \in 0..MaxFaults
      BY BlocksAssumption, FaultsAssumption DEF Init
    <3>2. /\ usb_reset_on_close \in BOOLEAN /\ connected \in BOOLEAN
          /\ own \in BOOLEAN /\ synced \in BOOLEAN /\ session \in BOOLEAN
      BY DEF Init
    <3>3. /\ proc = "none" /\ tx = "none" /\ rc = "none"
      BY DEF Init
    <3> QED
      BY <1>2, <3>1, <3>2, <3>3 DEF HostTyped
  <2> QED
    BY <2>1, <2>2, TypeParts
<1>4. Phases
  BY <1>1 DEF Init, Phases
<1>5. Announced
  BY <1>1 DEF Init, Announced, HeadersFollowed
<1>6. InStep
  BY <1>1 DEF Init, InStep, SyncKept, InSync
<1> QED
  BY <1>3, <1>4, <1>5, <1>6 DEF IInv

\* Every step keeps the invariant.
LEMMA InvStep == IInv /\ [Next]_vars => IInv'
<1> SUFFICES ASSUME IInv, [Next]_vars PROVE IInv'
  OBVIOUS
<1>1. CASE Next
  BY <1>1, TypeStep, PhasesStep, AnnouncedStep, InStepStep DEF IInv
<1>2. CASE UNCHANGED vars
  <2> USE <1>2 DEF vars, host
  <2>1. TypeOK'
    BY DEF IInv, TypeOK
  <2>2. Phases'
    BY DEF IInv, Phases
  <2>3. Announced'
    BY DEF IInv, Announced, HeadersFollowed, Follow
  <2>4. InStep'
    BY DEF IInv, InStep, SyncKept, InSync, RequestOut, DataAwaited, DataDue, Answering, Owed
  <2> QED
    BY <2>1, <2>2, <2>3, <2>4 DEF IInv
<1> QED
  BY <1>1, <1>2

\* Each variable keeps its type, for payloads of any size, any room in the
\* pipe and any number of faults.
THEOREM UsbTyped == Spec => []TypeOK
<1>1. IInv => TypeOK
  BY DEF IInv
<1> QED
  BY <1>1, InvInit, InvStep, PTL DEF Spec

\* ptp_transaction leaves the pipes idle when a transaction that began on idle
\* pipes was answered, and the blocks ptp_usb_getdata counts down are the next
\* things in the pipe.
THEOREM UsbInStep == Spec => []PipesInStep
<1>1. IInv => PipesInStep
  <2> SUFFICES ASSUME IInv PROVE PipesInStep
    OBVIOUS
  <2>1. SyncKept
    BY DEF IInv, InStep
  <2>2. ASSUME tx = "payload", NEW i \in 1..left, i <= Len(inq) PROVE inq[i].type = "block"
    <3>1. Follow(inq, cam, 0, left) /\ left \in Nat /\ Len(inq) \in Nat
      BY <2>2, TypeParts, BlocksAssumption DEF IInv, Announced, HostTyped, PipesTyped
    <3> QED
      BY <2>2, <3>1 DEF Follow
  <2> QED
    BY <2>1, <2>2 DEF PipesInStep, PayloadAligned
<1> QED
  BY <1>1, InvInit, InvStep, PTL DEF Spec

-----------------------------------------------------------------------------
\* Only responses to OpenSession are left when the host reads or drops one of them.
LEMMA OpensKept ==
    ASSUME PipesTyped, OnlyOpens, UNCHANGED <<outq, cam>>, inq' = inq \/ (inq # <<>> /\ inq' = Tail(inq))
    PROVE  OnlyOpens'
<1>1. inq # <<>> => \A i \in 1..Len(Tail(inq)) : i + 1 \in 1..Len(inq) /\ Tail(inq)[i] = inq[i + 1]
  BY TailElements DEF PipesTyped
<1>2. \A i \in 1..Len(inq') : inq'[i].type = "RESPONSE"
  BY <1>1 DEF OnlyOpens
<1> QED
  BY <1>2 DEF OnlyOpens

\* The camera answers the OpenSession requests it still has, each with a response.
LEMMA CameraOnlyOpens ==
    ASSUME TypeOK, Phases, OnlyOpens, Camera PROVE OnlyOpens'
<1>1. PipesTyped /\ outq \in Seq(Requests) /\ inq \in Seq(Containers) /\ Len(inq) \in Nat
  BY TypeParts DEF PipesTyped
<1>2. outq # <<>> => /\ 1 \in 1..Len(outq)
                     /\ \A i \in 1..Len(Tail(outq)) : i + 1 \in 1..Len(outq) /\ Tail(outq)[i] = outq[i + 1]
  BY <1>1, TailElements
<1>3. CASE CamRequest
  <2>1. /\ UNCHANGED inq /\ outq # <<>> /\ outq' = Tail(outq) /\ cam'.op = outq[1].op
        /\ cam'.phase \in {"data", "waitdata", "resp"}
        /\ cam'.phase = "data" <=> DataPhase[outq[1].op] = "get"
        /\ cam'.phase = "waitdata" <=> DataPhase[outq[1].op] = "send"
    BY <1>1, <1>3, CamRequestEffect
  <2>2. cam'.op = "Open" /\ cam'.phase = "resp"
    BY <1>2, <2>1, Operations DEF OnlyOpens
  <2> QED
    BY <1>2, <2>1, <2>2 DEF OnlyOpens
<1>4. CASE CamDataIn
  BY <1>1, <1>2, <1>4, CamDataInEffect DEF OnlyOpens
<1>5. CASE CamData \/ CamBlock
  BY <1>5 DEF CamData, CamBlock, OnlyOpens
<1>6. CASE CamResponse
  <2>1. PICK x \in Containers :
           UNCHANGED outq /\ inq' = Append(inq, x) /\ x.type = "RESPONSE" /\ cam'.phase = "idle"
    BY <1>1, <1>6, CamResponseEffect
  <2>2. /\ Len(inq') = Len(inq) + 1 /\ inq'[Len(inq) + 1] = x
        /\ \A i \in 1..Len(inq) : inq'[i] = inq[i]
    BY <1>1, <2>1, AppendElements
  <2>3. \A i \in 1..Len(inq') : i \in 1..Len(inq) \/ i = Len(inq) + 1
    BY <1>1, <2>2
  <2> QED
    BY <2>1, <2>2, <2>3 DEF OnlyOpens
<1> QED
  BY <1>3, <1>4, <1>5, <1>6 DEF Camera

\* A leftover response is what the next read meets, whatever the camera does.
LEMMA CameraResponseFirst ==
    ASSUME TypeOK, Phases, ResponseFirst, Camera PROVE ResponseFirst'
<1>1. PipesTyped /\ inq \in Seq(Containers) /\ Len(inq) \in Nat
  BY TypeParts DEF PipesTyped
<1>2. ASSUME inq # <<>>, NEW x \in Containers, inq' = Append(inq, x)
      PROVE  inq' # <<>> /\ inq'[1] = inq[1]
  <2>1. 1 \in 1..Len(inq) /\ Len(inq') = Len(inq) + 1
    BY <1>1, <1>2, AppendElements
  <2> QED
    BY <1>1, <1>2, <2>1, AppendElements
<1>3. CASE CamRequest \/ CamDataIn
  <2>1. UNCHANGED inq /\ cam.phase # "resp"
    BY <1>1, <1>3, CamRequestEffect, CamDataInEffect
  <2> QED
    BY <2>1 DEF ResponseFirst
<1>4. CASE CamData \/ CamBlock
  <2>1. PICK x \in Containers : inq' = Append(inq, x) /\ cam.phase # "resp"
    BY <1>1, <1>4, CamDataEffect, CamBlockEffect
  <2> QED
    BY <1>2, <2>1 DEF ResponseFirst
<1>5. CASE CamResponse
  <2>1. PICK x \in Containers : inq' = Append(inq, x) /\ x.type = "RESPONSE"
    BY <1>1, <1>5, CamResponseEffect
  <2>2. CASE inq = <<>>
    <3>1. inq' = <<x>>
      BY <2>1, <2>2
    <3> QED
      BY <2>1, <3>1 DEF ResponseFirst
  <2>3. CASE inq # <<>>
    BY <1>2, <2>1, <2>3 DEF ResponseFirst
  <2> QED
    BY <2>2, <2>3
<1> QED
  BY <1>3, <1>4, <1>5 DEF Camera

\* Every step keeps what is known of a connect under way.
LEMMA OpeningStep ==
    ASSUME IInv, Opening, Next PROVE Opening'
<1> DEFINE Early == \/ proc = "none" /\ ~connected
                    \/ proc \in {"open1", "open2"}
                    \/ proc = "devinfo" /\ tx = "sendreq"
<1> DEFINE Later == /\ proc = "devinfo" /\ tx = "datahdr" /\ ~synced => ResponseFirst
                    /\ proc = "devinfo" /\ tx \in {"payload", "resp"} => synced
                    /\ proc = "devinfo" /\ tx = "none" /\ rc = "OK" => synced
<1>1. usb_reset_on_close' = usb_reset_on_close
  BY DEF Next, Camera, Transaction, Procedure, Connect, CloseCamera, Call
<1> SUFFICES ASSUME usb_reset_on_close PROVE (Early => OnlyOpens)' /\ Later'
  BY <1>1 DEF Opening
<1>2. TypeOK /\ Phases /\ PipesTyped /\ (Early => OnlyOpens) /\ Later
  BY TypeParts DEF IInv, Opening
<1>3. CASE Camera
  <2>1. UNCHANGED <<proc, connected, tx, synced, rc>>
    BY <1>3 DEF Camera, CamRequest, CamDataIn, CamData, CamBlock, CamResponse, CamSend, host
  <2> QED
    BY <1>2, <1>3, <2>1, CameraOnlyOpens, CameraResponseFirst
<1>4. CASE SendReq
  <2>1. /\ UNCHANGED <<proc, connected, op>> /\ tx = "sendreq" /\ outq = <<>> /\ synced' = InSync
        /\ outq' = <<[type |-> "REQ", op |-> op, mine |-> TRUE]>>
        /\ inq' = AllForeign(inq) /\ cam' = Foreign(cam)
        /\ tx' = CASE DataPhase[op] = "get" -> "datahdr" [] DataPhase[op] = "send" -> "senddata"
                   [] OTHER -> "resp"
    BY <1>4 DEF SendReq, WriteOK
  <2>2. /\ inq \in Seq(Containers) /\ inq' \in Seq(Containers)
        /\ Len(inq) \in Nat /\ Len(inq') = Len(inq) /\ \A i \in 1..Len(inq) : inq'[i].type = inq[i].type
        /\ cam'.phase = cam.phase /\ cam'.op = cam.op
    BY <1>2, <2>1, ForeignElements, JobFields DEF PipesTyped
  <2>3. CASE proc \in {"open1", "open2"}
    <3>1. op = "Open" /\ OnlyOpens
      BY <1>2, <2>3 DEF Phases
    <3>2. Len(outq') = 1 /\ outq'[1].type = "REQ" /\ outq'[1].op = "Open"
      BY <2>1, <3>1
    <3>3. OnlyOpens'
      BY <2>2, <3>1, <3>2 DEF OnlyOpens
    <3> QED
      BY <2>1, <2>3, <3>3
  <2>4. CASE proc = "devinfo"
    <3>1. op = "DevInfo" /\ OnlyOpens
      BY <1>2, <2>1, <2>4 DEF Phases
    <3>2. tx' = "datahdr"
      BY <2>1, <3>1, Operations
    <3>3. inq = <<>> \/ 1 \in 1..Len(inq)
      BY <2>2
    <3>4. ~synced' => ResponseFirst'
      <4>1. CASE inq = <<>>
        <5>1. inq' = <<>>
          BY <2>2, <4>1
        <5> QED
          BY <2>1, <2>2, <3>1, <4>1, <5>1 DEF OnlyOpens, InSync, ResponseFirst
      <4>2. CASE inq # <<>>
        <5>1. inq' # <<>> /\ inq[1].type = "RESPONSE" /\ inq'[1].type = inq[1].type
          BY <2>2, <3>1, <3>3, <4>2 DEF OnlyOpens
        <5> QED
          BY <5>1 DEF ResponseFirst
      <4> QED
        BY <4>1, <4>2
    <3> QED
      BY <2>1, <2>4, <3>2, <3>4
  <2>5. CASE proc \notin {"open1", "open2", "devinfo"}
    BY <1>2, <2>1, <2>5 DEF Phases
  <2> QED
    BY <2>3, <2>4, <2>5
<1>5. CASE SendData
  BY <1>2, <1>5, Operations DEF SendData, Phases
<1>6. CASE WriteFail \/ ReadFail \/ ReadGarbage \/ HandlerFail
  <2>1. Early' => Early
    BY <1>2, <1>6, GivenUp DEF Phases
  <2> QED
    BY <1>2, <1>6, <2>1, GivenUp, OpensKept
<1>7. CASE GetDataHeader \/ GetBlock \/ GetResp
  <2>1. /\ UNCHANGED <<outq, cam, proc, connected, synced>> /\ inq # <<>> /\ inq' = Tail(inq)
        /\ Head(inq) = inq[1] /\ tx \in {"datahdr", "payload", "resp"}
        /\ tx' \in {"payload", "resp", "none"}
        /\ tx = "datahdr" => \/ tx' = "none" /\ rc' # "OK"
                             \/ tx' = "payload" /\ inq[1].type = "DATA"
    BY <1>2, <1>7, TailElements DEF PipesTyped, GetDataHeader, GetBlock, GetResp, Return
  <2>2. OnlyOpens => OnlyOpens'
    BY <1>2, <2>1, OpensKept
  <2>3. (Early => OnlyOpens)'
    BY <1>2, <2>1, <2>2 DEF Phases
  <2>4. proc = "devinfo" /\ (tx' \in {"payload", "resp"} \/ (tx' = "none" /\ rc' = "OK")) => synced
    BY <1>2, <2>1 DEF ResponseFirst
  <2> QED
    BY <2>1, <2>3, <2>4
<1>8. CASE ResetAndRetry \/ CloseUsb
  <2>1. outq' = <<>> /\ inq' = <<>> /\ cam'.phase = "idle" /\ proc' # "devinfo"
    BY <1>8, Operations DEF ResetAndRetry, CloseUsb, ResetEffect
  <2> QED
    BY <2>1 DEF OnlyOpens
<1>9. CASE SessionOpened \/ OpenFailed
  <2>1. /\ proc \in {"open1", "open2"} /\ UNCHANGED <<inq, outq, cam>>
        /\ proc' = "devinfo" => tx' = "sendreq"
    BY <1>9 DEF SessionOpened, OpenFailed, Begin
  <2>2. OnlyOpens'
    BY <1>2, <2>1 DEF OnlyOpens
  <2> QED
    BY <2>1, <2>2
<1>10. CASE Opened \/ CallDone
  BY <1>2, <1>10 DEF Opened, CallDone, Phases
<1>11. CASE CloseCamera \/ Call
  BY <1>11 DEF CloseCamera, Call
<1>12. CASE Connect
  <2>1. /\ proc = "none" /\ ~connected /\ proc' = "open1" /\ UNCHANGED <<outq, cam>>
        /\ inq' = inq \/ (inq # <<>> /\ inq' = Tail(inq))
    BY <1>12, BufferedElements DEF Connect
  <2>2. OnlyOpens'
    BY <1>2, <2>1, OpensKept
  <2> QED
    BY <2>1, <2>2
<1> QED
  BY <1>3, <1>4, <1>5, <1>6, <1>7, <1>8, <1>9, <1>10, <1>11, <1>12 DEF Next, Transaction, Procedure

\* con:connect reports success only on a synchronised connection when
\* usb_reset_on_close is set: leftovers of earlier attempts can only be
\* responses to OpenSession, and GetDeviceInfo fails on those.
THEOREM UsbConnectSyncs == Spec => ConnectSyncs
<1>1. Init => Opening
  <2>1. Len(<<>>) = 0
    OBVIOUS
  <2> QED
    BY <2>1, Operations DEF Init, Opening, OnlyOpens
<1>2. IInv /\ Opening /\ [Next]_vars => Opening'
  <2> SUFFICES ASSUME IInv, Opening, [Next]_vars PROVE Opening'
    OBVIOUS
  <2>1. CASE UNCHANGED vars
    BY <2>1 DEF vars, host, Opening, OnlyOpens, ResponseFirst
  <2> QED
    BY <2>1, OpeningStep
<1>3. IInv /\ Opening /\ [Next]_vars
        => [(usb_reset_on_close /\ connected' /\ ~connected) => InSync']_vars
  <2> SUFFICES ASSUME IInv, Opening, Next, usb_reset_on_close, connected', ~connected PROVE InSync'
    OBVIOUS
  <2>1. Opened
    <3>1. ~Camera
      BY DEF Camera, CamRequest, CamDataIn, CamData, CamBlock, CamResponse, CamSend, host
    <3>2. ~Transaction
      BY DEF Transaction, SendReq, SendData, WriteFail, ReadFail, ReadGarbage, GetDataHeader, GetBlock,
            HandlerFail, GetResp
    <3> QED
      BY <3>1, <3>2 DEF Next, Procedure, ResetAndRetry, SessionOpened, OpenFailed, CloseUsb, CallDone,
            Connect, CloseCamera, Call
  <2>2. InSync
    BY <2>1 DEF Opened, Opening, IInv, InStep, SyncKept
  <2> QED
    BY <2>1, <2>2 DEF Opened, InSync
<1> QED
  BY <1>1, <1>2, <1>3, InvInit, InvStep, PTL DEF Spec, ConnectSyncs
=============================================================================

--------------------------- MODULE TransportBuffer ---------------------------
(***************************************************************************)
(* The packet buffer through which ptp.c reads every header, response and  *)
(* payload of the camera, over USB and over PTP/IP.                        *)
(*                                                                         *)
(* A transport read (params->read_func) returns as many bytes as it likes, *)
(* up to the size asked for.  Control reads go through the buffer, data    *)
(* reads drain it and then read straight into the caller's memory; the USB *)
(* one finishes with a buffered read, because a USB read has to ask for a  *)
(* multiple of the packet size, so bytes beyond the request stay behind.   *)
(* The USB one also cuts a long request in URBs, and places each by what    *)
(* was asked for before it, not by what came.                              *)
(*                                                                         *)
(* A byte is named by its index in the camera's stream, so "the right      *)
(* bytes in the right order" is arithmetic on indices.  One action is the  *)
(* code from one blocking bulk read or recv to the next.                   *)
(***************************************************************************)
EXTENDS Integers

CONSTANTS
    BufSize,      \* PTP_PACKET_BUFFER_SIZE, which is the USB packet length too
    Urb,          \* PTPCAM_USB_URB, the longest single bulk read
    MaxControl,   \* longest control read: a header, or what the length in a
                  \* header from the wire says is to follow it
    MaxData,      \* longest data read: a block or a whole payload
    MaxStream     \* bound on the bytes the camera ever sends

ASSUME BufSizeAssumption   == BufSize \in Nat \ {0}
ASSUME UrbAssumption       == Urb \in Nat /\ BufSize <= Urb
ASSUME ControlAssumption   == MaxControl \in Nat
ASSUME DataAssumption      == MaxData \in Nat
ASSUME StreamAssumption    == MaxStream \in Nat

VARIABLES
    transport, \* "usb" or "tcp": which read_data_func the connection has
    sent,      \* bytes the camera has put on the wire
    taken,     \* bytes read_func has returned, also the next one's index
    data,      \* PTPPacketBuffer.data
    pos,       \* PTPPacketBuffer.pos, where the bytes not yet read begin
    len,       \* PTPPacketBuffer.len, how many there are
    phase,     \* "direct" or "fill": the read_func call being waited for;
               \* "none": no read is in progress
    size,      \* the current or last read: bytes asked for
    buffered,  \* of which came from the buffer at once
    rtotal,    \* of which are in the caller's memory
    bulktotal, \* of which are to get there directly
    asked,     \* bytes the URBs of this read_func call have asked for so far
    fetched,   \* and returned
    gap,       \* this read went on behind a hole an URB had left
    total,     \* bytes ptp_transport_read_to_buffer has read so far
    dst,       \* the caller's memory
    start,     \* stream index at which the read began
    ret        \* its result: "none", "ok", "io", "badparam", "mismatch"

pkt_buf == <<data, pos, len>>
sizes   == <<size, buffered, bulktotal>>
urbs    == <<asked, fetched>>
vars    == <<transport, sent, taken, pkt_buf, phase, sizes, rtotal, urbs, gap,
             total, dst, start, ret>>

NoByte == -1
Bytes  == 0..(BufSize - 1)

-----------------------------------------------------------------------------
\* ptp_transport_read_from_buffer on a buffer of l bytes at p: how many bytes
\* move, what the destination holds once they are at offset off, and the new
\* length and position.
FromBuffer(l, max) == IF l > max THEN max ELSE l

\* Faulty variant: copies from the start of the buffer, not from pos.
CopyFrom_FromStart(src, p, n, d, off) ==
    [i \in DOMAIN d |-> IF i >= off /\ i < off + n THEN src[i - off] ELSE d[i]]

CopyFrom(src, p, n, d, off) ==
    [i \in DOMAIN d |-> IF i >= off /\ i < off + n THEN src[p + i - off] ELSE d[i]]

\* Faulty variants: len not reduced; pos not rewound; pos not advanced.
TakeFrom_KeepLen(p, l, n)  == len' = l /\ pos' = IF l = n THEN 0 ELSE p + n
TakeFrom_NoRewind(p, l, n) == len' = l - n /\ pos' = p + n
TakeFrom_KeepPos(p, l, n)  == len' = l - n /\ pos' = IF l = n THEN 0 ELSE p

TakeFrom(p, l, n) ==
    /\ len' = l - n
    /\ pos' = IF l = n THEN 0 ELSE p + n

\* What memory m holds after a bulk read or recv has put n bytes at offset off.
Received(m, off, n) ==
    [i \in DOMAIN m |-> IF i >= off /\ i < off + n THEN taken + i - off ELSE m[i]]

\* Faulty variant: a request for a whole buffer is refused.
RefillAllowed_Strict(p, l, min) == l = 0 /\ p = 0 /\ min < BufSize

\* The argument check at the head of ptp_transport_read_to_buffer.
RefillAllowed(p, l, min) == l = 0 /\ p = 0 /\ min <= BufSize

-----------------------------------------------------------------------------
Init ==
    /\ transport \in {"usb", "tcp"}
    /\ sent = 0 /\ taken = 0
    /\ data = [i \in Bytes |-> NoByte] /\ pos = 0 /\ len = 0
    /\ phase = "none"
    /\ size = 0 /\ buffered = 0 /\ bulktotal = 0 /\ rtotal = 0 /\ total = 0
    /\ asked = 0 /\ fetched = 0 /\ gap = FALSE
    /\ dst = [i \in 0..(-1) |-> NoByte]
    /\ start = 0
    /\ ret = "none"

\* The camera writes more of its stream.
CameraSend ==
    /\ sent' \in (sent + 1)..MaxStream
    /\ UNCHANGED <<transport, taken, pkt_buf, phase, sizes, rtotal, urbs, gap, total,
                   dst, start, ret>>

\* What every read of s bytes does first: take the n of them the buffer has.
TakeBuffered(s, n) ==
    /\ phase = "none"
    /\ size' = s /\ buffered' = n /\ rtotal' = n /\ total' = 0
    /\ dst' = CopyFrom(data, pos, n, [i \in 0..(s - 1) |-> NoByte], 0)
    /\ TakeFrom(pos, len, n)
    /\ start' = taken - len
    /\ gap' = FALSE
    /\ UNCHANGED <<transport, sent, taken, data, urbs>>

\* The read then has everything, or reads directly until it has bulk bytes,
\* or calls ptp_transport_read_to_buffer for the bytes from bulk on.
Enter(s, n, bulk) ==
    /\ bulktotal' = bulk
    /\ IF n = s THEN phase' = "none" /\ ret' = "ok"
       ELSE IF n < bulk THEN phase' = "direct" /\ ret' = "none"
       ELSE IF RefillAllowed(pos', len', s - bulk) THEN phase' = "fill" /\ ret' = "none"
       ELSE phase' = "none" /\ ret' = "badparam"

\* ptp_control_read_buffered: everything the buffer lacks is read through it.
ControlRead(s) ==
    LET n == FromBuffer(len, s)
    IN  TakeBuffered(s, n) /\ Enter(s, n, n)

\* How much of a data read that lacks toread bytes does not go straight to
\* the caller's memory: nothing on TCP, what is not a whole packet on USB.
Rest(toread) == IF transport = "usb" THEN toread % BufSize ELSE 0

\* Faulty variant: the rest is that of the whole size, not of what the buffer lacks.
DataRead_RestOfSize(s) ==
    LET n    == FromBuffer(len, s)
        bulk == s - Rest(s)
    IN  TakeBuffered(s, n) /\ Enter(s, n, IF bulk < n THEN n ELSE bulk)

\* ptp_tcp_read_data and ptp_usb_read_data.
DataRead(s) ==
    LET n == FromBuffer(len, s)
    IN  TakeBuffered(s, n) /\ Enter(s, n, s - Rest(s - n))

-----------------------------------------------------------------------------
\* The counts a bulk read or recv can return for a request of max bytes.  A
\* USB read ends at any packet shorter than the maximum, an empty one included
\* (and an empty one is tried again once); recv returns at least one byte.
ReadCounts(max) ==
    {n \in 0..max : n <= sent - taken /\ (transport = "tcp" => n > 0)}

\* What the next bulk read of a read_func call for max bytes asks for.
NextUrb(max) == IF transport = "usb" /\ max - asked > Urb THEN Urb ELSE max - asked

\* Where it puts them: behind what was asked for, not behind what was fetched.
\* Faulty variant: every URB over the first.
UrbOffset_First == rtotal

UrbOffset == rtotal + asked

\* A data read's loop over read_func got n bytes in all.  Over TCP the last
\* call returns to the caller; over USB a buffered read of the rest follows,
\* also when the rest is nothing.
DirectReturns(n) ==
    /\ rtotal' = rtotal + n /\ asked' = 0 /\ fetched' = 0
    /\ \/ /\ rtotal + n < bulktotal
          /\ UNCHANGED <<phase, ret>>
       \/ /\ rtotal + n = bulktotal /\ transport = "tcp"
          /\ phase' = "none" /\ ret' = "ok"
       \/ /\ rtotal + n = bulktotal /\ transport = "usb"
          /\ IF RefillAllowed(pos, len, size - bulktotal)
             THEN phase' = "fill" /\ UNCHANGED ret
             ELSE phase' = "none" /\ ret' = "badparam"

\* One bulk read or recv of the direct loop.  ptp_usb_read_func goes on to the
\* next URB even if this one came short; what came after a short one lies
\* behind a hole, and only the sum of the counts is returned.
DirectRead ==
    LET max    == bulktotal - rtotal
        toread == NextUrb(max)
    IN  /\ phase = "direct"
        /\ \E n \in ReadCounts(toread) :
            /\ taken' = taken + n
            /\ dst' = Received(dst, UrbOffset, n)
            /\ gap' = (gap \/ (fetched # asked /\ n > 0))
            /\ \/ /\ asked + toread < max
                  /\ asked' = asked + toread /\ fetched' = fetched + n
                  /\ UNCHANGED <<rtotal, phase, ret>>
               \/ /\ asked + toread = max
                  /\ DirectReturns(fetched + n)
        /\ UNCHANGED <<transport, sent, pkt_buf, sizes, total, start>>

\* One read_func call of ptp_transport_read_to_buffer, never more than one
\* URB.  Short of min_size the loop goes on; otherwise len is set, the caller takes the bytes it lacks
\* and checks that it has them all.
FillRead ==
    LET min_size == size - bulktotal
    IN  /\ phase = "fill"
        /\ \E n \in ReadCounts(BufSize - total) :
            LET got == FromBuffer(total + n, min_size)
            IN  /\ taken' = taken + n
                /\ data' = Received(data, total, n)
                /\ total' = total + n
                /\ \/ /\ total + n < min_size
                      /\ UNCHANGED <<pos, len, phase, rtotal, dst, ret>>
                   \/ /\ total + n >= min_size
                      /\ TakeFrom(pos, total + n, got)
                      /\ dst' = CopyFrom(data', pos, got, dst, rtotal)
                      /\ rtotal' = rtotal + got
                      /\ phase' = "none"
                      /\ ret' = IF rtotal + got = size THEN "ok" ELSE "mismatch"
        /\ UNCHANGED <<transport, sent, sizes, urbs, gap, start>>

\* Faulty variant: the error of read_func is not passed on.
ReadFail_Ignored ==
    /\ phase # "none" /\ phase' = "none" /\ ret' = "ok"
    /\ asked' = 0 /\ fetched' = 0
    /\ UNCHANGED <<transport, sent, taken, pkt_buf, sizes, rtotal, gap, total, dst, start>>

\* read_func fails (timeout, unplugged camera, closed socket): what the call
\* had read, into dst or into the buffer, is lost.
ReadFail ==
    /\ phase # "none"
    /\ phase' = "none"
    /\ ret' = "io"
    /\ asked' = 0 /\ fetched' = 0
    /\ UNCHANGED <<transport, sent, taken, pkt_buf, sizes, rtotal, gap, total, dst, start>>

Next ==
    \/ CameraSend
    \/ \E s \in 1..MaxControl : ControlRead(s)
    \/ \E s \in 0..MaxData : DataRead(s)
    \/ DirectRead
    \/ FillRead
    \/ ReadFail

Spec == Init /\ [][Next]_vars

-----------------------------------------------------------------------------
\* The first byte no caller has been given and no failed read has lost.
Position == IF phase = "none" THEN taken - len ELSE start

Words == Nat \cup {NoByte}

\* Types and index ranges: the buffer window stays inside the buffer, the
\* copies of ptp_transport_read_from_buffer stay inside both memories.
TypeOK ==
    /\ transport \in {"usb", "tcp"}
    /\ sent \in Nat /\ taken \in Nat /\ taken <= sent
    /\ data \in [Bytes -> Words] /\ pos \in Nat /\ len \in Nat
    /\ pos + len <= BufSize
    /\ phase \in {"none", "direct", "fill"}
    /\ size \in Nat /\ buffered \in Nat /\ rtotal \in Nat /\ bulktotal \in Nat
    /\ asked \in Nat /\ fetched \in 0..asked /\ gap \in BOOLEAN
    /\ total \in 0..BufSize
    /\ dst \in [0..(size - 1) -> Words]
    /\ start \in Nat
    /\ ret \in {"none", "ok", "io", "badparam", "mismatch"}

Accounted ==
    phase # "none" => /\ len = 0 /\ pos = 0
                      /\ taken = start + rtotal + fetched + total

BufferInOrder ==
    phase = "none" =>
        \A i \in 0..(BufSize - 1) :
            i < len => data[pos + i] = taken - len + i

DeliveredInOrder ==
    ret = "ok" => /\ taken - len = start + size
                  /\ gap \/ \A i \in 0..(size - 1) : dst[i] = start + i

\* A read that reports success has taken the next size bytes of the stream, and
\* no others; they are in the caller's memory in order, unless an URB of a USB
\* read came short and the next one brought bytes (gap; ExactData is what the
\* code does then).  The bytes left behind by earlier reads are the ones that
\* come next, so that excess data read with a response packet is neither lost
\* nor reordered (the purpose stated at PTPPacketBuffer in ptp.h), also after a
\* read with a gap; and while a read is in progress every byte is accounted for.
\* One double copy or one missed pos/len update of the two
\* ptp_transport_read_ functions breaks it.
StreamKept == Accounted /\ BufferInOrder /\ DeliveredInOrder

\* "read exactly size dataphase data, buffering any excess" (ptp.c): every read
\* that reports success, whatever packets the camera cut the data into, has
\* left the next size bytes in the caller's memory.  Over USB the code does not:
\* ptp_usb_read_func advances by the length of each URB, so behind one that
\* came short the bytes of the next are in the wrong place.
ExactData == ret = "ok" => \A i \in 0..(size - 1) : dst[i] = start + i

\* Whatever sequence of reads came before, the buffer is empty when it is
\* refilled and holds what was asked for afterwards: "size mismatch" and "bad
\* length" never happen, and "bad param" only when a control read, whose length
\* is the camera's and is not checked, asks for more than the buffer holds; no
\* payload read fails so, however much an earlier read left behind.
OnlyTooLongRefused ==
    /\ ret # "mismatch"
    /\ ret = "badparam" => bulktotal = buffered /\ size - buffered > BufSize

\* "USB only wants to read whole packets": the part of a data read that goes
\* straight to the caller's memory is a whole number of packets, however many
\* bytes an earlier read left in the buffer.
WholePackets ==
    (transport = "usb" /\ phase = "direct")
        => (bulktotal - buffered) % BufSize = 0

\* The transport reads implement the ordered byte stream: a read that succeeds
\* without a gap delivers the next bytes, and every other one, the read across a
\* short URB that the code reports as a success included, only drops some, so
\* that the reads after it are in order again.
Stream == INSTANCE ByteStream WITH
            next  <- Position,
            block <- IF ret = "ok" /\ ~gap THEN dst ELSE [i \in 0..(-1) |-> 0]

ImplementsByteStream == Stream!Spec
=============================================================================

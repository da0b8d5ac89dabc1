------------------------ MODULE TransportBuffer_proofs ------------------------
(***************************************************************************)
(* Proofs about TransportBuffer for every buffer size, every bound on the  *)
(* sizes of the reads and on the stream, and both transports.              *)
(***************************************************************************)
EXTENDS TransportBuffer, TLAPS

\* What holds between two bulk reads or recvs: short of a gap the caller's
\* memory is right up to what was fetched, the buffer being filled continues it, and the sizes still to be
\* read fit where they go.
CallInv ==
    phase # "none" =>
        /\ ret = "none"
        /\ rtotal + asked <= bulktotal /\ bulktotal <= size
        /\ size - bulktotal <= BufSize
        /\ phase = "direct" => total = 0
        /\ phase = "fill" => rtotal = bulktotal
        /\ transport = "tcp" /\ phase = "direct" => bulktotal = size
        /\ gap \/ \A i \in 0..(size - 1) : i < rtotal + fetched => dst[i] = start + i
        /\ \A i \in Bytes : i < total => data[i] = start + rtotal + i

\* An empty buffer starts over at its first byte, and what is buffered has
\* been read.
Rewound == (len = 0 => pos = 0) /\ len <= taken

\* No URB is on its way outside the direct loop.
UrbsIdle == phase # "direct" => asked = 0 /\ fetched = 0

\* The inductive invariant.
IInv == /\ TypeOK /\ Accounted /\ BufferInOrder /\ DeliveredInOrder
        /\ OnlyTooLongRefused /\ CallInv /\ Rewound /\ UrbsIdle

USE BufSizeAssumption, UrbAssumption, ControlAssumption, DataAssumption

-----------------------------------------------------------------------------
\* The rest of a USB data read is less than a packet and no more than what
\* is to be read.
LEMMA RestBound ==
    ASSUME NEW x \in Nat
    PROVE  Rest(x) \in 0..x /\ Rest(x) < BufSize
  <1>1. x % BufSize \in 0..(BufSize - 1)
    OBVIOUS
  <1>2. x % BufSize <= x
    OBVIOUS
  <1> QED BY <1>1, <1>2 DEF Rest

\* init_ptp_usb and init_ptp_tcp empty the buffer: the invariant holds.
LEMMA InitIInv == Init => IInv
  BY DEF Init, IInv, TypeOK, Accounted, BufferInOrder, DeliveredInOrder,
         OnlyTooLongRefused, CallInv, Rewound, UrbsIdle, Bytes, Words, NoByte

-----------------------------------------------------------------------------
\* Entering a read: whatever the buffer held is at the head of dst, in order,
\* and if that was not everything the buffer is left empty and rewound.
LEMMA EnterIInv ==
    ASSUME IInv, NEW s \in Nat, NEW bulk \in Nat,
           NEW n, n = FromBuffer(len, s),
           n <= bulk, bulk <= s, n < bulk => s - bulk <= BufSize,
           transport = "tcp" /\ n < bulk => bulk = s,
           TakeBuffered(s, n), Enter(s, n, bulk)
    PROVE  IInv'
  <1>1. n \in Nat /\ n <= len /\ n <= s /\ (n < s => n = len)
    BY DEF FromBuffer, IInv, TypeOK
  <1>2. /\ transport' = transport /\ sent' = sent /\ taken' = taken
        /\ data' = data /\ start' = taken - len
        /\ size' = s /\ buffered' = n /\ rtotal' = n /\ total' = 0
        /\ phase = "none" /\ gap' = FALSE /\ asked' = 0 /\ fetched' = 0
    BY DEF TakeBuffered, urbs, IInv, UrbsIdle
  <1>3. len' = len - n /\ pos' = IF len = n THEN 0 ELSE pos + n
    BY DEF TakeBuffered, TakeFrom
  <1>4. /\ transport \in {"usb", "tcp"}
        /\ sent \in Nat /\ taken \in Nat /\ taken <= sent /\ data \in [Bytes -> Words]
        /\ len \in Nat /\ pos \in Nat /\ pos + len <= BufSize
        /\ (len = 0 => pos = 0) /\ len <= taken
    BY DEF IInv, TypeOK, Rewound
  <1>5. \A i \in 0..(BufSize - 1) : i < len => data[pos + i] = taken - len + i
    BY <1>2 DEF IInv, BufferInOrder
  <1>6. /\ dst' \in [0..(s - 1) -> Words]
        /\ \A i \in 0..(s - 1) : i < n => dst'[i] = start' + i
    <2>1. dst' = [i \in 0..(s - 1) |-> IF i >= 0 /\ i < 0 + n THEN data[pos + i - 0]
                                                                 ELSE NoByte]
      BY DEF TakeBuffered, CopyFrom
    <2>2. \A i \in 0..(s - 1) : i < n => /\ i \in 0..(BufSize - 1) /\ i < len
                                            /\ pos + i - 0 = pos + i
      BY <1>1, <1>4
    <2>3. \A i \in 0..(s - 1) : i < n => dst'[i] = taken - len + i
      BY <2>1, <2>2, <1>1, <1>5
    <2>4. \A i \in 0..(s - 1) : dst'[i] \in Words
      BY <2>1, <2>3, <1>1, <1>4 DEF Words
    <2> QED BY <2>1, <2>3, <2>4, <1>2
  <1>7. /\ bulktotal' = bulk
        /\ phase' \in {"none", "direct", "fill"}
        /\ phase' # "none" => n < s /\ ret' = "none"
        /\ phase' = "direct" => n < bulk
        /\ phase' = "fill" => n = bulk
        /\ phase' # "none" => s - bulk <= BufSize
        /\ ret' = "ok" => n = s
        /\ ret' \in {"none", "ok", "badparam"}
        /\ ret' = "badparam" => bulk = n /\ s - n > BufSize
    <2>1. CASE n = s
      BY <2>1 DEF Enter
    <2>2. CASE n # s /\ n < bulk
      BY <2>2, <1>1 DEF Enter
    <2>3. CASE n # s /\ n = bulk
      <3>1. RefillAllowed(pos', len', s - bulk) <=> s - bulk <= BufSize
        BY <2>3, <1>1, <1>3, <1>4 DEF RefillAllowed
      <3> QED BY <3>1, <2>3, <1>1 DEF Enter
    <2> QED BY <1>1, <2>1, <2>2, <2>3
  <1>8. TypeOK'
    <2>1. gap' \in BOOLEAN /\ fetched' \in 0..asked' /\ asked' \in Nat
      <3>1. gap' \in BOOLEAN
        BY <1>2
      <3>2. asked' = 0 /\ fetched' = 0 /\ 0 \in 0..0 /\ 0 \in Nat
        BY <1>2
      <3> QED BY <3>1, <3>2
    <2>2. dst' \in [0..(size' - 1) -> Words] /\ size' \in Nat
      BY <1>2, <1>6
    <2>3. len' \in Nat /\ pos' \in Nat /\ pos' + len' <= BufSize
      BY <1>1, <1>3, <1>4
    <2>4. /\ buffered' \in Nat /\ rtotal' \in Nat /\ bulktotal' \in Nat
          /\ total' \in 0..BufSize /\ start' \in Nat
      BY <1>1, <1>2, <1>4, <1>7
    <2>5. ret' \in {"none", "ok", "io", "badparam", "mismatch"}
      BY <1>7
    <2> QED BY <2>1, <2>2, <2>3, <2>4, <2>5, <1>2, <1>4, <1>7 DEF TypeOK
  <1>9. Accounted'
    BY <1>1, <1>2, <1>3, <1>4, <1>7 DEF Accounted
  <1>10. BufferInOrder'
    <2> SUFFICES ASSUME NEW i \in 0..(BufSize - 1), i < len'
                 PROVE  data'[pos' + i] = taken' - len' + i
      BY DEF BufferInOrder
    <2>1. pos' + i = pos + (n + i) /\ n + i \in 0..(BufSize - 1) /\ n + i < len
      BY <1>1, <1>3, <1>4
    <2>2. data[pos + (n + i)] = taken - len + (n + i)
      BY <2>1, <1>5
    <2> QED BY <2>1, <2>2, <1>1, <1>2, <1>3, <1>4
  <1>11. DeliveredInOrder'
    <2> SUFFICES ASSUME ret' = "ok"
                 PROVE  /\ taken' - len' = start' + size'
                        /\ gap' \/ \A i \in 0..(size' - 1) : dst'[i] = start' + i
      BY DEF DeliveredInOrder
    <2>1. n = s
      BY <1>7
    <2>2. taken' - len' = start' + size'
      BY <2>1, <1>1, <1>2, <1>3, <1>4, <1>7
    <2>3. \A i \in 0..(size' - 1) : dst'[i] = start' + i
      BY <2>1, <1>1, <1>2, <1>6
    <2> QED BY <2>2, <2>3
  <1>12. CallInv'
    BY <1>1, <1>2, <1>6, <1>7 DEF CallInv, Bytes
  <1>13. Rewound' /\ UrbsIdle'
    BY <1>1, <1>2, <1>3, <1>4 DEF Rewound, UrbsIdle
  <1>14. OnlyTooLongRefused'
    BY <1>2, <1>7 DEF OnlyTooLongRefused
  <1> QED
    BY <1>8, <1>9, <1>10, <1>11, <1>12, <1>13, <1>14 DEF IInv

\* Beginning ptp_control_read_buffered keeps the invariant.
LEMMA ControlReadIInv ==
    ASSUME IInv, NEW s \in 1..MaxControl, ControlRead(s)
    PROVE  IInv'
  <1> DEFINE n == FromBuffer(len, s)
  <1>1. n \in Nat /\ n <= s
    BY DEF FromBuffer, IInv, TypeOK
  <1>2. TakeBuffered(s, n) /\ Enter(s, n, n)
    BY DEF ControlRead
  <1>3. s \in Nat
    OBVIOUS
  <1> QED
    BY <1>1, <1>2, <1>3, EnterIInv

\* Beginning a payload read, of either transport, keeps the invariant.
LEMMA DataReadIInv ==
    ASSUME IInv, NEW s \in 0..MaxData, DataRead(s)
    PROVE  IInv'
  <1> DEFINE n == FromBuffer(len, s)
             bulk == s - Rest(s - n)
  <1>1. n \in Nat /\ n <= s
    BY DEF FromBuffer, IInv, TypeOK
  <1>2. Rest(s - n) \in 0..(s - n) /\ Rest(s - n) < BufSize
    BY <1>1, RestBound
  <1>3. bulk \in Nat /\ n <= bulk /\ bulk <= s /\ s - bulk <= BufSize
    BY <1>1, <1>2
  <1>4. transport = "tcp" /\ n < bulk => bulk = s
    BY <1>1 DEF Rest
  <1>5. TakeBuffered(s, n) /\ Enter(s, n, bulk)
    BY DEF DataRead
  <1> QED
    BY <1>1, <1>3, <1>4, <1>5, EnterIInv

-----------------------------------------------------------------------------
\* A bulk read of the direct loop puts the next bytes of the stream behind those
\* already there, or leaves a gap.
LEMMA DirectReadIInv ==
    ASSUME IInv, DirectRead
    PROVE  IInv'
  <1> DEFINE max    == bulktotal - rtotal
             toread == NextUrb(max)
  <1>1. PICK n \in ReadCounts(toread) :
            /\ taken' = taken + n
            /\ dst' = Received(dst, UrbOffset, n)
            /\ gap' = (gap \/ (fetched # asked /\ n > 0))
            /\ \/ /\ asked + toread < max
                  /\ asked' = asked + toread /\ fetched' = fetched + n
                  /\ rtotal' = rtotal /\ phase' = phase /\ ret' = ret
               \/ /\ asked + toread = max
                  /\ DirectReturns(fetched + n)
    BY DEF DirectRead
  <1>2. /\ phase = "direct"
        /\ transport' = transport /\ sent' = sent /\ data' = data
        /\ pos' = pos /\ len' = len /\ start' = start
        /\ size' = size /\ buffered' = buffered /\ bulktotal' = bulktotal
        /\ total' = total
    BY DEF DirectRead, pkt_buf, sizes
  <1>3. /\ ret = "none" /\ len = 0 /\ pos = 0 /\ total = 0
        /\ rtotal + asked <= bulktotal /\ bulktotal <= size
        /\ size - bulktotal <= BufSize
        /\ transport = "tcp" => bulktotal = size
        /\ taken = start + rtotal + fetched
        /\ gap \/ \A i \in 0..(size - 1) : i < rtotal + fetched => dst[i] = start + i
    BY <1>2 DEF IInv, TypeOK, Accounted, CallInv
  <1>4. /\ transport \in {"usb", "tcp"}
        /\ rtotal \in Nat /\ bulktotal \in Nat /\ size \in Nat /\ buffered \in Nat
        /\ sent \in Nat /\ taken \in Nat /\ data \in [Bytes -> Words]
        /\ start \in Nat /\ dst \in [0..(size - 1) -> Words]
        /\ asked \in Nat /\ fetched \in Nat /\ fetched <= asked /\ gap \in BOOLEAN
    BY DEF IInv, TypeOK
  <1>5. /\ toread \in Nat /\ asked + toread <= max
        /\ n \in Nat /\ n <= toread /\ taken + n <= sent
    <2>1. toread \in Nat /\ asked + toread <= max
      BY <1>3, <1>4 DEF NextUrb
    <2> HIDE DEF toread
    <2> QED BY <2>1, <1>4 DEF ReadCounts
  <1> HIDE DEF toread
  <1>6. /\ dst' \in [0..(size - 1) -> Words]
        /\ gap' \/ \A i \in 0..(size - 1) : i < rtotal + fetched + n => dst'[i] = start + i
    <2>1. dst' = [i \in 0..(size - 1) |->
                    IF i >= rtotal + asked /\ i < rtotal + asked + n
                    THEN taken + i - (rtotal + asked) ELSE dst[i]]
      BY <1>1, <1>4 DEF Received, UrbOffset
    <2>2. ~gap' => ~gap /\ (fetched = asked \/ ~(n > 0))
      BY <1>1
    <2>3. ASSUME ~gap', NEW i \in 0..(size - 1), i < rtotal + fetched + n
          PROVE  dst'[i] = start + i
      <3>1. \A j \in 0..(size - 1) : j < rtotal + fetched => dst[j] = start + j
        BY <2>2, <2>3, <1>3
      <3>2. CASE n = 0
        BY <3>1, <3>2, <2>1, <2>3, <1>4
      <3>3. CASE n > 0
        <4>1. fetched = asked
          BY <2>2, <2>3, <3>3
        <4> QED BY <4>1, <3>1, <2>1, <2>3, <1>3, <1>4, <1>5
      <3> QED BY <3>2, <3>3, <1>5
    <2>4. gap' \/ \A i \in 0..(size - 1) : i < rtotal + fetched + n => dst'[i] = start + i
      BY <2>3
    <2>5. \A i \in 0..(size - 1) : dst'[i] \in Words
      BY <2>1, <1>4, <1>5 DEF Words
    <2> QED BY <2>1, <2>4, <2>5
  <1>7. /\ phase' \in {"none", "direct", "fill"}
        /\ rtotal' \in Nat /\ asked' \in Nat /\ fetched' \in Nat /\ fetched' <= asked'
        /\ rtotal' + fetched' = rtotal + fetched + n
        /\ rtotal' + asked' <= bulktotal
        /\ phase' # "direct" => asked' = 0 /\ fetched' = 0
        /\ phase' = "fill" => rtotal' = bulktotal
        /\ phase' # "none" => ret' = "none"
        /\ phase' = "none" => rtotal' = size
        /\ ret' = "ok" => phase' = "none"
        /\ ret' \in {"none", "ok"}
    <2>1. RefillAllowed(pos, len, size - bulktotal)
      BY <1>3 DEF RefillAllowed
    <2>2. CASE /\ asked + toread < max
               /\ asked' = asked + toread /\ fetched' = fetched + n
               /\ rtotal' = rtotal /\ phase' = phase /\ ret' = ret
      BY <2>2, <1>2, <1>3, <1>4, <1>5
    <2>3. CASE asked + toread = max /\ DirectReturns(fetched + n)
      BY <2>1, <2>3, <1>2, <1>3, <1>4, <1>5 DEF DirectReturns
    <2> QED BY <1>1, <2>2, <2>3
  <1>8. TypeOK'
    <2>1. gap' \in BOOLEAN
      BY <1>1
    <2> QED BY <2>1, <1>1, <1>2, <1>3, <1>4, <1>5, <1>6, <1>7 DEF TypeOK
  <1>9. Accounted'
    <2>1. taken' = start' + rtotal' + fetched' + total'
      <3>1. taken' = start + rtotal + fetched + n
        BY <1>1, <1>3, <1>4, <1>5
      <3>2. start' = start /\ total' = 0 /\ rtotal' + fetched' = rtotal + fetched + n
        BY <1>2, <1>3, <1>7
      <3>3. \A r, f \in Nat : r + f = rtotal + fetched + n
                             => start + rtotal + fetched + n = start + r + f + 0
        BY <1>4, <1>5
      <3> QED BY <3>1, <3>2, <3>3, <1>7
    <2> QED BY <2>1, <1>2, <1>3 DEF Accounted
  <1>10. BufferInOrder'
    BY <1>2, <1>3 DEF BufferInOrder
  <1>11. DeliveredInOrder'
    <2> SUFFICES ASSUME ret' = "ok"
                 PROVE  /\ taken' - len' = start' + size'
                        /\ gap' \/ \A i \in 0..(size' - 1) : dst'[i] = start' + i
      BY DEF DeliveredInOrder
    <2>1. rtotal + fetched + n = size
      BY <1>7, <1>4
    <2> QED BY <2>1, <1>1, <1>2, <1>3, <1>4, <1>5, <1>6
  <1>12. CallInv'
    <2>1. gap' \/ \A i \in 0..(size - 1) : i < rtotal' + fetched' => dst'[i] = start + i
      BY <1>6, <1>7
    <2>2. \A i \in Bytes : ~(i < total')
      BY <1>2, <1>3 DEF Bytes
    <2> QED BY <2>1, <2>2, <1>2, <1>3, <1>7 DEF CallInv
  <1>13. Rewound' /\ UrbsIdle'
    BY <1>1, <1>2, <1>3, <1>4, <1>5, <1>7 DEF Rewound, UrbsIdle
  <1>14. OnlyTooLongRefused'
    BY <1>7 DEF OnlyTooLongRefused
  <1> QED
    BY <1>8, <1>9, <1>10, <1>11, <1>12, <1>13, <1>14 DEF IInv

-----------------------------------------------------------------------------
\* One read into the buffer continues what it holds; the one that completes
\* the read continues the caller's memory with the front of the buffer.
LEMMA FillReadIInv ==
    ASSUME IInv, FillRead
    PROVE  IInv'
  <1> DEFINE min_size == size - bulktotal
             got(n) == FromBuffer(total + n, min_size)
  <1>1. PICK n \in ReadCounts(BufSize - total) :
            /\ taken' = taken + n
            /\ data' = Received(data, total, n)
            /\ total' = total + n
            /\ \/ /\ total + n < min_size
                  /\ pos' = pos /\ len' = len /\ phase' = phase /\ rtotal' = rtotal
                  /\ dst' = dst /\ ret' = ret
               \/ /\ total + n >= min_size
                  /\ TakeFrom(pos, total + n, got(n))
                  /\ dst' = CopyFrom(data', pos, got(n), dst, rtotal)
                  /\ rtotal' = rtotal + got(n)
                  /\ phase' = "none"
                  /\ ret' = IF rtotal + got(n) = size THEN "ok" ELSE "mismatch"
    BY DEF FillRead
  <1>2. /\ phase = "fill" /\ transport' = transport /\ sent' = sent /\ start' = start
        /\ size' = size /\ buffered' = buffered /\ bulktotal' = bulktotal
        /\ asked = 0 /\ fetched = 0 /\ asked' = 0 /\ fetched' = 0 /\ gap' = gap
    BY DEF FillRead, sizes, urbs, IInv, UrbsIdle
  <1>3. /\ ret = "none" /\ len = 0 /\ pos = 0
        /\ rtotal = bulktotal /\ bulktotal <= size /\ size - bulktotal <= BufSize
        /\ taken = start + rtotal + total
        /\ gap \/ \A i \in 0..(size - 1) : i < rtotal => dst[i] = start + i
        /\ \A i \in Bytes : i < total => data[i] = start + rtotal + i
    BY <1>2 DEF IInv, TypeOK, Accounted, CallInv
  <1>4. /\ transport \in {"usb", "tcp"}
        /\ rtotal \in Nat /\ bulktotal \in Nat /\ size \in Nat /\ buffered \in Nat
        /\ total \in Nat /\ total <= BufSize
        /\ sent \in Nat /\ taken \in Nat /\ data \in [Bytes -> Words]
        /\ start \in Nat /\ dst \in [0..(size - 1) -> Words] /\ gap \in BOOLEAN
    BY DEF IInv, TypeOK
  <1>5. n \in Nat /\ total + n <= BufSize /\ taken + n <= sent
    BY <1>4 DEF ReadCounts
  <1>6. /\ data' \in [Bytes -> Words]
        /\ \A i \in Bytes : i < total + n => data'[i] = start + rtotal + i
    <2>1. data' = [i \in Bytes |-> IF i >= total /\ i < total + n
                                   THEN taken + i - total ELSE data[i]]
      BY <1>1, <1>4 DEF Received
    <2>2. \A i \in Bytes : i < total + n => data'[i] = start + rtotal + i
      BY <2>1, <1>3, <1>4, <1>5 DEF Bytes
    <2>3. \A i \in Bytes : data'[i] \in Words
      BY <2>1, <1>4, <1>5 DEF Words, Bytes
    <2> QED BY <2>1, <2>2, <2>3
  <1>7. CASE total + n < min_size
    <2>1. /\ pos' = pos /\ len' = len /\ phase' = phase /\ rtotal' = rtotal
          /\ dst' = dst /\ ret' = ret
      BY <1>1, <1>4, <1>5, <1>7
    <2>2. TypeOK'
      BY <1>1, <1>2, <1>3, <1>4, <1>5, <1>6, <2>1 DEF TypeOK
    <2>3. Accounted' /\ BufferInOrder' /\ DeliveredInOrder' /\ Rewound' /\ UrbsIdle'
      BY <1>1, <1>2, <1>3, <1>4, <1>5, <2>1
         DEF Accounted, BufferInOrder, DeliveredInOrder, Rewound, UrbsIdle
    <2>4. CallInv'
      BY <1>1, <1>2, <1>3, <1>4, <1>5, <1>6, <2>1 DEF CallInv
    <2> QED BY <2>1, <2>2, <2>3, <2>4, <1>3 DEF IInv, OnlyTooLongRefused
  <1>8. CASE total + n >= min_size
    <2>1. min_size \in Nat /\ min_size <= BufSize /\ got(n) = min_size
          /\ rtotal + min_size = size
      BY <1>3, <1>4, <1>5, <1>8 DEF FromBuffer
    <2>2. /\ phase' = "none" /\ ret' = "ok" /\ rtotal' = size
          /\ TakeFrom(pos, total + n, min_size)
          /\ dst' = CopyFrom(data', pos, min_size, dst, rtotal)
      BY <1>1, <1>4, <1>5, <1>8, <2>1
    <2>3. /\ len' = total + n - min_size
          /\ pos' = IF total + n = min_size THEN 0 ELSE pos + min_size
      BY <2>1, <2>2, <1>3, <1>4, <1>5 DEF TakeFrom
    <2>4. /\ dst' \in [0..(size - 1) -> Words]
          /\ gap \/ \A i \in 0..(size - 1) : dst'[i] = start + i
      <3>1. dst' = [i \in 0..(size - 1) |-> IF i >= rtotal /\ i < rtotal + min_size
                                            THEN data'[pos + i - rtotal] ELSE dst[i]]
        BY <2>2, <1>4 DEF CopyFrom
      <3>2. ASSUME NEW i \in 0..(size - 1), i >= rtotal
            PROVE  dst'[i] = start + i
        <4>1. /\ i < rtotal + min_size /\ pos + i - rtotal = i - rtotal
              /\ i - rtotal \in Bytes /\ i - rtotal < total + n
          BY <3>2, <1>3, <1>4, <1>5, <1>8, <2>1 DEF Bytes
        <4>2. dst'[i] = data'[i - rtotal]
          BY <3>1, <3>2, <4>1
        <4>3. data'[i - rtotal] = start + rtotal + (i - rtotal)
          BY <4>1, <1>6
        <4> QED BY <4>2, <4>3, <1>4
      <3>3. ASSUME NEW i \in 0..(size - 1), i < rtotal
            PROVE  dst'[i] = dst[i]
        BY <3>1, <3>3, <1>3, <1>4
      <3>4. gap \/ \A i \in 0..(size - 1) : dst'[i] = start + i
        BY <3>2, <3>3, <1>3, <1>4
      <3>5. \A i \in 0..(size - 1) : dst'[i] \in Words
        BY <3>2, <3>3, <1>4 DEF Words
      <3> QED BY <3>1, <3>4, <3>5
    <2>5. TypeOK'
      BY <1>1, <1>2, <1>3, <1>4, <1>5, <1>6, <1>8, <2>1, <2>2, <2>3, <2>4 DEF TypeOK
    <2>6. BufferInOrder'
      <3> SUFFICES ASSUME NEW i \in 0..(BufSize - 1), i < len'
                   PROVE  data'[pos' + i] = taken' - len' + i
        BY DEF BufferInOrder
      <3>1. pos' = min_size
        BY <1>3, <1>4, <1>5, <2>1, <2>3
      <3>2. pos' + i \in Bytes /\ pos' + i < total + n
        BY <3>1, <2>1, <2>3, <1>4, <1>5 DEF Bytes
      <3>3. data'[pos' + i] = start + rtotal + (pos' + i)
        BY <3>2, <1>6
      <3> QED BY <3>1, <3>3, <2>1, <2>3, <1>1, <1>3, <1>4, <1>5
    <2>7. DeliveredInOrder'
      <3>1. taken' - len' = start' + size'
        BY <1>1, <1>2, <1>3, <1>4, <1>5, <2>1, <2>3
      <3> QED BY <3>1, <2>4, <1>2 DEF DeliveredInOrder
    <2>8. Rewound' /\ UrbsIdle'
      BY <1>1, <1>2, <1>3, <1>4, <1>5, <2>1, <2>3 DEF Rewound, UrbsIdle
    <2> QED
      BY <2>2, <2>5, <2>6, <2>7, <2>8 DEF IInv, OnlyTooLongRefused, Accounted, CallInv
  <1> QED BY <1>1, <1>7, <1>8

-----------------------------------------------------------------------------
\* Every step of the reads, and every byte the camera sends, keeps it.
LEMMA NextIInv == IInv /\ [Next]_vars => IInv'
  <1> SUFFICES ASSUME IInv, [Next]_vars PROVE IInv'
    OBVIOUS
  <1>1. CASE CameraSend
    BY <1>1 DEF CameraSend, pkt_buf, sizes, urbs, IInv, TypeOK, Accounted, BufferInOrder,
                DeliveredInOrder, OnlyTooLongRefused, CallInv, Rewound, UrbsIdle
  <1>2. ASSUME NEW s \in 1..MaxControl, ControlRead(s) PROVE IInv'
    BY <1>2, ControlReadIInv
  <1>3. ASSUME NEW s \in 0..MaxData, DataRead(s) PROVE IInv'
    BY <1>3, DataReadIInv
  <1>4. CASE DirectRead
    BY <1>4, DirectReadIInv
  <1>5. CASE FillRead
    BY <1>5, FillReadIInv
  <1>6. CASE ReadFail
    BY <1>6 DEF ReadFail, pkt_buf, sizes, urbs, IInv, TypeOK, Accounted, BufferInOrder,
                DeliveredInOrder, OnlyTooLongRefused, CallInv, Rewound, UrbsIdle
  <1>7. CASE UNCHANGED vars
    BY <1>7 DEF vars, pkt_buf, sizes, urbs, IInv, TypeOK, Accounted, BufferInOrder,
                DeliveredInOrder, OnlyTooLongRefused, CallInv, Rewound, UrbsIdle
  <1> QED
    BY <1>1, <1>2, <1>3, <1>4, <1>5, <1>6, <1>7 DEF Next

\* The inductive invariant holds in every state: the buffer window, the
\* caller's memory and the byte accounting always agree.
THEOREM Invariance == Spec => []IInv
  BY InitIInv, NextIInv, PTL DEF Spec

\* Every index computed by the transport reads stays inside the buffer and
\* inside the caller's memory.
THEOREM TypeCorrect == Spec => []TypeOK
  BY Invariance, PTL DEF IInv

\* A read that reports success has taken the next bytes of the stream and, unless
\* a short URB left a gap, delivered them in order, whatever mix of control and
\* data reads, short reads and failures came before it, and the bytes it left in
\* the buffer come next.
THEOREM InOrder == Spec => []StreamKept
  BY Invariance, PTL DEF IInv, StreamKept

\* The "bad length" and "size mismatch" returns of ptp_control_read_buffered and
\* ptp_usb_read_data never happen, and ptp_transport_read_to_buffer refuses only
\* control reads of more than a buffer, never a payload read.
THEOREM PayloadNeverRefused == Spec => []OnlyTooLongRefused
  BY Invariance, PTL DEF IInv
-----------------------------------------------------------------------------
\* A step of the transport leaves the abstract stream alone, or is a step of
\* a read; then, if it reports success, it started at the stream's position,
\* and the position never moves backwards.
LEMMA StreamStep ==
    ASSUME IInv, IInv', [Next]_vars
    PROVE  /\ Position \in Int /\ Position' \in Int
           /\ \/ Position' = Position /\ ret' = ret /\ dst' = dst /\ gap' = gap
              \/ /\ Position' >= Position
                 /\ ret' = "ok" => Position = start'
  <1>1. Position \in Int /\ Position' \in Int
    <2>1. taken \in Nat /\ len \in Nat /\ start \in Nat
      BY DEF IInv, TypeOK
    <2>2. taken' \in Nat /\ len' \in Nat /\ start' \in Nat
      BY DEF IInv, TypeOK
    <2> QED BY <2>1, <2>2 DEF Position
  <1>2. CASE UNCHANGED vars
    <2>1. UNCHANGED <<taken, len, phase, start, ret, dst, gap>>
      BY <1>2 DEF vars, pkt_buf
    <2> QED BY <1>1, <2>1 DEF Position
  <1>3. CASE CameraSend
    BY <1>1, <1>3 DEF CameraSend, pkt_buf, Position
  <1>4. ASSUME NEW s \in Nat, NEW n, n = FromBuffer(len, s), TakeBuffered(s, n)
        PROVE  Position = start' /\ Position' >= Position
    <2>1. /\ phase = "none" /\ start' = taken - len /\ taken' = taken /\ len' = len - n
      BY <1>4 DEF TakeBuffered, TakeFrom
    <2>2. n \in Nat /\ len \in Nat /\ taken \in Nat
      BY <1>4 DEF FromBuffer, IInv, TypeOK
    <2> QED BY <2>1, <2>2 DEF Position
  <1>5. ASSUME NEW s \in 1..MaxControl, ControlRead(s)
        PROVE  Position = start' /\ Position' >= Position
    BY <1>4, <1>5 DEF ControlRead
  <1>6. ASSUME NEW s \in 0..MaxData, DataRead(s)
        PROVE  Position = start' /\ Position' >= Position
    BY <1>4, <1>6 DEF DataRead
  <1>7. CASE DirectRead \/ FillRead \/ ReadFail
    <2>1. phase # "none" /\ start' = start
      BY <1>7 DEF DirectRead, FillRead, ReadFail, sizes
    <2>2. Position = start
      BY <2>1 DEF Position
    <2>3. taken' >= taken /\ (phase' # "none" \/ taken' - len' >= start)
      <3>1. CASE ReadFail
        BY <3>1, <2>1 DEF ReadFail, pkt_buf, IInv, TypeOK, Accounted
      <3>2. CASE DirectRead
        BY <3>2, <2>1 DEF DirectRead, ReadCounts, pkt_buf, IInv, TypeOK, Accounted, CallInv
      <3>3. CASE FillRead
        <4>1. PICK n \in ReadCounts(BufSize - total) : taken' = taken + n
          BY <3>3 DEF FillRead
        <4>2. n \in Nat /\ taken \in Nat
          BY <4>1 DEF ReadCounts, IInv, TypeOK
        <4>3. ASSUME phase' = "none" PROVE taken' - len' >= start
          \* the read is complete, so ret' = "ok" and DeliveredInOrder' applies
          <5>1. ret' \in {"ok", "mismatch"}
            BY <3>3, <4>3 DEF FillRead
          <5>2. ret' = "ok"
            BY <5>1 DEF IInv, OnlyTooLongRefused
          <5>3. taken' - len' = start' + size' /\ size' \in Nat /\ start' \in Nat
            BY <5>2 DEF IInv, DeliveredInOrder, TypeOK
          <5> QED BY <5>3, <2>1
        <4> QED BY <4>1, <4>2, <4>3
      <3> QED BY <1>7, <3>1, <3>2, <3>3
    <2>4. start \in Nat
      BY DEF IInv, TypeOK
    <2>5. Position' >= Position
      BY <2>1, <2>2, <2>3, <2>4 DEF Position
    <2> QED BY <1>1, <2>1, <2>2, <2>5
  <1> QED
    BY <1>1, <1>2, <1>3, <1>5, <1>6, <1>7 DEF Next

\* The transport reads implement the ordered byte stream: a read that succeeds
\* without a gap is Deliver, every other step is Drop or a stutter.
THEOREM Refinement == Spec => ImplementsByteStream
  <1>1. Init => Stream!Init
    BY DEF Init, Stream!Init, Position
  <1>2. ASSUME IInv, IInv', [Next]_vars
        PROVE  [Stream!Next]_(Stream!vars)
    <2>1. Position \in Int /\ Position' \in Int
      BY <1>2, StreamStep
    <2>2. CASE Position' = Position /\ ret' = ret /\ dst' = dst /\ gap' = gap
      BY <2>2 DEF Stream!vars
    <2>3. CASE Position' >= Position /\ ret' = "ok" /\ ~gap' /\ Position = start'
      <3>1. /\ taken' - len' = start' + size' /\ size' \in Nat /\ start' \in Nat
            /\ \A i \in 0..(size' - 1) : dst'[i] = start' + i
            /\ dst' \in [0..(size' - 1) -> Words]
        <4>1. (DeliveredInOrder /\ TypeOK)'
          BY <1>2 DEF IInv
        <4> QED BY <4>1, <2>3 DEF DeliveredInOrder, TypeOK, Words
      <3>2. phase' = "none"
        BY <1>2, <2>3 DEF IInv, CallInv
      <3>3. Position' - Position - 1 = size' - 1
        BY <3>1, <3>2, <2>1, <2>3 DEF Position
      <3>4. dst' = [i \in 0..(size' - 1) |-> Position + i]
        BY <3>1, <2>3
      <3>5. Stream!Deliver
        BY <2>3, <3>3, <3>4 DEF Stream!Deliver
      <3> QED BY <3>5 DEF Stream!Next
    <2>4. CASE Position' >= Position /\ ~(ret' = "ok" /\ ~gap')
      BY <2>4 DEF Stream!Drop, Stream!Next
    <2> QED BY <1>2, <2>2, <2>3, <2>4, StreamStep
  <1> QED
    BY <1>1, <1>2, Invariance, PTL DEF Spec, ImplementsByteStream, Stream!Spec

-----------------------------------------------------------------------------
\* A number of packets is a multiple of the packet size.
LEMMA PacketMultiple ==
    ASSUME NEW q \in Int
    PROVE  (BufSize * q) % BufSize = 0
  BY BufSizeAssumption, SMTT(20)

\* What ptp_usb_read_data reads directly, all but the rest, is whole packets.
LEMMA RestWhole ==
    ASSUME NEW x \in Nat
    PROVE  (x - (x % BufSize)) % BufSize = 0
  <1> DEFINE q == x \div BufSize
             r == x % BufSize
  <1>1. q \in Int /\ r \in Int /\ x = BufSize * q + r
    BY BufSizeAssumption, SMTT(20)
  <1>2. x - r = BufSize * q
    <2> HIDE DEF q, r
    <2>1. BufSize * q \in Int
      BY <1>1, BufSizeAssumption
    <2> QED BY <1>1, <2>1
  <1>3. (BufSize * q) % BufSize = 0
    <2> HIDE DEF q, r
    <2> QED BY <1>1, PacketMultiple
  <1> QED BY <1>2, <1>3

\* Over USB the direct part of a data read is a whole number of packets,
\* whatever was in the buffer when it began.
THEOREM DirectWhole == Spec => []WholePackets
  <1>1. Init => WholePackets
    BY DEF Init, WholePackets
  <1>2. ASSUME IInv, WholePackets, [Next]_vars
        PROVE  WholePackets'
    <2>1. CASE UNCHANGED vars
      BY <1>2, <2>1 DEF vars, sizes, WholePackets
    <2>2. CASE CameraSend
      BY <1>2, <2>2 DEF CameraSend, sizes, WholePackets
    <2>3. ASSUME NEW s \in 1..MaxControl, ControlRead(s) PROVE WholePackets'
      <3> DEFINE n == FromBuffer(len, s)
      <3>1. n \in Nat
        BY <1>2 DEF FromBuffer, IInv, TypeOK
      <3>2. phase' # "direct"
        BY <2>3, <3>1 DEF ControlRead, Enter
      <3> QED BY <3>2 DEF WholePackets
    <2>4. ASSUME NEW s \in 0..MaxData, DataRead(s) PROVE WholePackets'
      <3> DEFINE n == FromBuffer(len, s)
      <3>1. n \in Nat /\ n <= s /\ s - n \in Nat
        BY <1>2 DEF FromBuffer, IInv, TypeOK
      <3>2. transport' = transport /\ buffered' = n /\ bulktotal' = s - Rest(s - n)
        BY <2>4 DEF DataRead, TakeBuffered, Enter
      <3>3. CASE transport = "usb"
        <4> DEFINE x == s - n
        <4>1. x \in Nat /\ x \in Int /\ n \in Nat /\ s = x + n
          BY <3>1
        <4>2. bulktotal' = s - Rest(x) /\ buffered' = n
          BY <3>2
        <4> HIDE DEF n, x
        <4>3. Rest(x) = x % BufSize /\ Rest(x) \in Int
          BY <3>3, <4>1, RestBound DEF Rest
        <4>4. (x - Rest(x)) % BufSize = 0
          BY <4>1, <4>3, RestWhole
        <4>5. bulktotal' - buffered' = x - Rest(x)
          BY <4>1, <4>2, <4>3
        <4> QED BY <4>4, <4>5 DEF WholePackets
      <3> QED BY <3>2, <3>3 DEF WholePackets
    <2>5. CASE DirectRead \/ FillRead \/ ReadFail
      BY <1>2, <2>5 DEF DirectRead, FillRead, ReadFail, sizes, WholePackets
    <2> QED
      BY <1>2, <2>1, <2>2, <2>3, <2>4, <2>5 DEF Next
  <1> QED
    BY <1>1, <1>2, Invariance, PTL DEF Spec
=============================================================================

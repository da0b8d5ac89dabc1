-------------------------------- MODULE Lbuf --------------------------------
(***************************************************************************)
(* Byte buffers of scripts (lbuf.c): new, string, sub, byte, the get and   *)
(* set functions of 1, 2 and 4 byte values, fill, reverse_bytes and the    *)
(* file functions.  The state is one buffer and the last call with what it *)
(* returned; the properties compare both with what Lua's string functions  *)
(* and the comments of lbuf.c promise.                                     *)
(***************************************************************************)
EXTENDS Integers, Sequences, SequencesExt

CONSTANTS LbufLen,     \* bytes of the longest buffer
          LbufOps      \* calls of a script

ASSUME LbufAssumption ==
    LbufLen \in Nat \ {0} /\ LbufOps \in Nat

Min2(a, b) == IF a <= b THEN a ELSE b
Max2(a, b) == IF a >= b THEN a ELSE b
Part(s, start, end) == SubSeq(s, start + 1, end)     \* the bytes of offsets start..end-1

(***************************************************************************)
(* string, sub and byte take 1-based indices, negative ones from the end.  *)
(***************************************************************************)
\* Faulty variant: indices from the end are one off.
get_index_arg_End(buf, val) ==
    LET i == IF val < 0 THEN Len(buf) + val ELSE val IN IF i < 0 THEN 0 ELSE i

get_index_arg(buf, val) ==
    LET i == IF val < 0 THEN Len(buf) + val + 1 ELSE val IN IF i < 0 THEN 0 ELSE i

lbuf_slice(buf, i, j) ==
    LET start == get_index_arg(buf, i)
        end == Min2(get_index_arg(buf, j), Len(buf))
    IN  IF Len(buf) = 0 \/ end < start THEN <<>>
        ELSE Part(buf, IF start > 0 THEN start - 1 ELSE start, end)

(***************************************************************************)
(* Values of size bytes, lowest byte first as on every machine the program *)
(* is built for.  A value is its bytes and whether it reads as negative.   *)
(***************************************************************************)
Value(bytes, signed) == [bytes |-> bytes, negative |-> signed /\ Last(bytes) >= 128]
Weight == <<1, 256, 65536, 16777216>>
ToBytes(v, size) == [k \in 1..size |-> (v \div Weight[k]) % 256]

\* off > buf->len - size.  The difference is unsigned: in a buffer shorter than
\* one value it is larger than any offset, and the test lets all of them pass.
NoRoom(buf, off, size) == size <= Len(buf) /\ off > Len(buf) - size

\* The offset has passed and lies behind the buffer.  buf->len - off wraps then,
\* and is larger than what any number of arguments needs.
Behind(buf, off, size) == size > Len(buf) /\ off > Len(buf)

get_vals(buf, off, n, size, signed) ==
    LET fit == (Len(buf) - off) \div size
        count == IF n < 0 \/ off + n * size > Len(buf) THEN fit ELSE n
    IN  IF NoRoom(buf, off, size) \/ Behind(buf, off, size) THEN <<>>
        ELSE [k \in 1..count |->
                LET b == Part(buf, off + (k - 1) * size, off + k * size)
                IN  Value(b, signed)]

\* Faulty variant: values that do not fit whole are written in part.
set_vals_Partial(buf, off, vals, size) ==
    LET count == IF Len(vals) * size > Len(buf) - off
                 THEN ((Len(buf) - off) \div size) + 1 ELSE Len(vals)
    IN  IF NoRoom(buf, off, size) THEN [n |-> 0, buf |-> buf]
        ELSE [n |-> count,
              buf |-> [i \in DOMAIN buf |->
                         IF i - 1 \in off..(off + count * size - 1)
                         THEN ToBytes(vals[((i - 1 - off) \div size) + 1], size)[((i - 1 - off) % size) + 1]
                         ELSE buf[i]]]

\* The number set and the buffer after it.  Behind the buffer nothing is cut:
\* the values go to memory that is not the buffer's.
set_vals(buf, off, vals, size) ==
    LET fit == (Len(buf) - off) \div size
        count == IF Len(vals) * size > Len(buf) - off /\ ~Behind(buf, off, size)
                 THEN fit ELSE Len(vals)
    IN  IF NoRoom(buf, off, size) THEN [n |-> 0, buf |-> buf]
        ELSE [n |-> count,
              buf |-> [i \in DOMAIN buf |->
                         IF i - 1 \in off..(off + count * size - 1)
                         THEN ToBytes(vals[((i - 1 - off) \div size) + 1], size)[((i - 1 - off) % size) + 1]
                         ELSE buf[i]]]

\* t in the buffer's order of pairs; the bound len - 1 is unsigned too.
lbuf_reverse_bytes(buf) ==
    [i \in DOMAIN buf |-> IF i % 2 = 1 THEN (IF i < Len(buf) THEN buf[i + 1] ELSE buf[i])
                          ELSE buf[i - 1]]

\* Faulty variant: the last copy is not cut at the end of the buffer.
lbuf_fill_Uncut(buf, val, offset, n) ==
    LET count == IF n < 0 THEN (Len(buf) \div Len(val)) + 1 ELSE n
        bytes == count * Len(val)
    IN  IF val = <<>> \/ offset >= Len(buf) \/ bytes = 0 THEN [n |-> 0, buf |-> buf]
        ELSE [n |-> bytes,
              buf |-> [i \in 1..Max2(Len(buf), offset + bytes) |->
                         IF i - 1 \in offset..(offset + bytes - 1)
                         THEN val[((i - 1 - offset) % Len(val)) + 1] ELSE buf[i]]]

\* count copies of a pattern, cut at the end of the buffer; -1 stands for the
\* default count, which is enough to fill the buffer.
lbuf_fill(buf, val, offset, n) ==
    LET count == IF n < 0 THEN (Len(buf) \div Len(val)) + 1 ELSE n
        bytes == Min2(Len(buf) - offset, count * Len(val))
        unit == Min2(Len(val), bytes)
    IN  IF val = <<>> \/ offset >= Len(buf) \/ bytes = 0 THEN [n |-> 0, buf |-> buf]
        ELSE [n |-> bytes,
              buf |-> [i \in DOMAIN buf |->
                         IF i - 1 \in offset..(offset + bytes - 1)
                         THEN val[((i - 1 - offset) % unit) + 1] ELSE buf[i]]]

\* fread and fwrite take a range inside the buffer or raise an error.
file_range_error(buf, offset, count) == offset >= Len(buf) \/ count > Len(buf) - offset

(***************************************************************************)
(* The calls.                                                              *)
(***************************************************************************)
VARIABLES lb, lbCall, lbLeft
lbVars == <<lb, lbCall, lbLeft>>

Contents(len) == { [i \in 1..len |-> 0], [i \in 1..len |-> 255], [i \in 1..len |-> (37 * i) % 256] }
Index == (-LbufLen - 2)..(LbufLen + 2)
Offsets == -1..(LbufLen + 2)
Sizes124 == {1, 2, 4}
Extremes == {-1, 2^15, 258}

LbufInit == lb = [bytes |-> <<>>, readonly |-> FALSE] /\ lbCall = [op |-> "none"] /\ lbLeft = LbufOps

\* lbuf.new of a string or a size; the read-only flag is set by C code only.
LbufNew ==
    \E len \in 0..LbufLen, ro \in BOOLEAN :
      /\ lbCall.op = "none"
      /\ \E s \in Contents(len) : lb' = [bytes |-> s, readonly |-> ro]
      /\ lbCall' = [op |-> "new"]
LbufSlice ==
    \E i, j \in Index :
      /\ lbCall' = [op |-> "sub", i |-> i, j |-> j, ret |-> lbuf_slice(lb.bytes, i, j)]
      /\ UNCHANGED lb
\* Behind a buffer the wrapped count is more than Lua's stack can take, or, for
\* values of one byte, negative, and then nothing is returned.
LbufGet ==
    \E off \in Offsets, n \in -1..LbufLen, size \in Sizes124, signed \in BOOLEAN :
      /\ lbCall' = IF off < 0 \/ (Behind(lb.bytes, off, size) /\ size > 1) THEN [op |-> "error"]
                   ELSE [op |-> "get", off |-> off, n |-> n, size |-> size, signed |-> signed,
                         ret |-> get_vals(lb.bytes, off, n, size, signed)]
      /\ UNCHANGED lb
LbufSet ==
    \E off \in Offsets, vals \in {<<v>> : v \in Extremes} \cup {<<v, 7>> : v \in Extremes}, size \in Sizes124 :
      IF lb.readonly \/ off < 0 THEN UNCHANGED lb /\ lbCall' = [op |-> "error"]
      ELSE /\ lb' = [lb EXCEPT !.bytes = set_vals(@, off, vals, size).buf]
           /\ lbCall' = [op |-> "set", off |-> off, vals |-> vals, size |-> size,
                         ret |-> set_vals(lb.bytes, off, vals, size).n]
LbufFill ==
    \E offset \in 0..LbufLen, n \in -1..2, len \in 0..LbufLen + 1 :
      LET val == [k \in 1..len |-> (100 + k) % 256]
          done == lbuf_fill(lb.bytes, val, offset, n)
      IN  /\ lb' = [lb EXCEPT !.bytes = done.buf]
          /\ lbCall' = [op |-> "fill", val |-> val, offset |-> offset, n |-> n, ret |-> done.n]
LbufReverse ==
    /\ lb.bytes # <<>>
    /\ lb' = [lb EXCEPT !.bytes = lbuf_reverse_bytes(@)]
    /\ lbCall' = [op |-> "reverse"]
\* A read that ends before count bytes leaves what it got in the buffer.
LbufFread ==
    \E offset, count \in 0..LbufLen :
      /\ ~file_range_error(lb.bytes, offset, count)
      /\ \E got \in 0..count :
           /\ lb' = [lb EXCEPT !.bytes = [i \in DOMAIN @ |->
                        IF i - 1 \in offset..(offset + got - 1) THEN (200 + i) % 256 ELSE @[i]]]
           /\ lbCall' = [op |-> "fread", ret |-> got = count /\ count > 0]
LbufFwrite ==
    \E offset, count \in 0..LbufLen :
      /\ ~file_range_error(lb.bytes, offset, count)
      /\ lbCall' = [op |-> "fwrite", offset |-> offset, count |-> count,
                    ret |-> Part(lb.bytes, offset, offset + count)]
      /\ UNCHANGED lb

LbufNext ==
    /\ lbLeft > 0 /\ lbLeft' = lbLeft - 1
    /\ \/ LbufNew
       \/ /\ lbCall.op # "none"
          /\ (LbufSlice \/ LbufGet \/ LbufSet \/ LbufFill \/ LbufReverse \/ LbufFread \/ LbufFwrite)

(***************************************************************************)
(* Properties.                                                             *)
(***************************************************************************)
LbufTypeOK == lb.bytes \in Seq(0..255) /\ Len(lb.bytes) <= LbufLen /\ lbLeft \in 0..LbufOps

\* string.sub of Lua 5.1: the characters at positions i..j after translation.
LuaSub(s, i, j) ==
    LET from == Max2(IF i < 0 THEN Len(s) + i + 1 ELSE i, 1)
        to == Min2(IF j < 0 THEN Len(s) + j + 1 ELSE j, Len(s))
    IN  SubSeq(s, from, to)

SubLikeString ==
    lbCall'.op = "sub" => lbCall'.ret = LuaSub(lb.bytes, lbCall'.i, lbCall'.j)

\* The offset is in the buffer, or the buffer holds a value at all.
Reached(c) == c.off <= Len(lb.bytes) \/ c.size <= Len(lb.bytes)

SetReadsBack ==
    (lbCall'.op = "set" /\ Reached(lbCall')) =>
      LET c == lbCall'   whole == Max2((Len(lb.bytes) - c.off) \div c.size, 0)
      IN  /\ c.ret = Min2(whole, Len(c.vals))
          /\ get_vals(lb'.bytes, c.off, c.ret, c.size, c.size = 1)
               = [k \in 1..c.ret |-> Value(ToBytes(c.vals[k], c.size), c.size = 1)]
          /\ \A i \in DOMAIN lb.bytes : i - 1 \notin c.off..(c.off + c.ret * c.size - 1)
               => lb'.bytes[i] = lb.bytes[i]

FillRepeats ==
    lbCall'.op = "fill" =>
      LET c == lbCall'
          asked == IF c.n < 0 THEN LbufLen ELSE c.n * Len(c.val)
          room == Max2(Len(lb.bytes) - c.offset, 0)
      IN  /\ c.ret = IF c.val = <<>> THEN 0 ELSE Min2(asked, room)
          /\ \A i \in DOMAIN lb.bytes :
               lb'.bytes[i] = IF i - 1 \in c.offset..(c.offset + c.ret - 1)
                              THEN c.val[((i - 1 - c.offset) % Len(c.val)) + 1] ELSE lb.bytes[i]

LengthKept == lbCall.op # "none" => Len(lb'.bytes) = Len(lb.bytes)

\* string, sub and byte return what the string functions of Lua return for the
\* same indices, negative, zero and out of range ones included (lbuf.c:74-166).
\* A set writes as many whole values as fit, no other byte changes, and the get
\* function of the same size reads them back (lbuf.c:170-349); buffers too short
\* for one value included, as long as the offset is not behind them.  A fill
\* writes whole copies from the offset on, the last one cut at the end of the
\* buffer, and says how many bytes it wrote (lbuf.c:449-501).  No call makes a
\* buffer longer or shorter.
LbufSound == [][SubLikeString /\ SetReadsBack /\ FillRepeats /\ LengthKept]_lbVars

\* What lbuf.c says of the set functions: "if offset is larger than buffer size,
\* nothing is changed" (295), and they return the number of values actually set.
\* It is false in buffers shorter than one value (Behind).
NothingBehind ==
    (lbCall.op = "set" /\ lbCall.off > Len(lb.bytes)) => lbCall.ret = 0

=============================================================================

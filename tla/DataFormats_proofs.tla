------------------------ MODULE DataFormats_proofs --------------------------
(***************************************************************************)
(* Theorems about the byte buffers of scripts (Lbuf), the images of the    *)
(* live view (LiveImg) and raw images (RawImg), as parts of DataFormats.   *)
(***************************************************************************)
EXTENDS DataFormats, SequenceTheorems, FiniteSetTheorems, WellFoundedInduction, TLAPS

Octet == 0..255

-----------------------------------------------------------------------------
(***************************************************************************)
(* Slices of a buffer.                                                     *)
(***************************************************************************)
\* string, sub and byte take their indices as string.sub of Lua does
\* (lbuf.c:74-166).
LEMMA SliceIsLua ==
    ASSUME NEW s \in Seq(Octet), NEW i \in Int, NEW j \in Int
    PROVE  lbuf_slice(s, i, j) = LuaSub(s, i, j)
<1> DEFINE n == Len(s)
           start == get_index_arg(s, i)
           end == Min2(get_index_arg(s, j), n)
           from == Max2(IF i < 0 THEN n + i + 1 ELSE i, 1)
           to == Min2(IF j < 0 THEN n + j + 1 ELSE j, n)
<1>n. n \in Nat
  BY LenProperties
<1>1. start \in Nat /\ end \in Nat /\ from \in Nat \ {0} /\ to \in Int /\ to <= n
  BY <1>n DEF get_index_arg, Min2, Max2
<1>2. end = IF to < 0 THEN 0 ELSE to
  BY <1>n DEF get_index_arg, Min2
<1>3. from = IF start > 0 THEN start ELSE 1
  BY <1>n DEF get_index_arg, Max2
<1>4. LuaSub(s, i, j) = SubSeq(s, from, to)
  BY DEF LuaSub
<1>5. lbuf_slice(s, i, j) = IF n = 0 \/ end < start THEN <<>>
                            ELSE Part(s, IF start > 0 THEN start - 1 ELSE start, end)
  BY DEF lbuf_slice
<1> HIDE DEF start, end, from, to, n
<1>6. CASE n = 0 \/ end < start
  <2>1. to < from
    BY <1>6, <1>1, <1>2, <1>3, <1>n
  <2>2. SubSeq(s, from, to) = <<>>
    BY <2>1, <1>1, SubSeqEmpty
  <2> QED BY <2>2, <1>4, <1>5, <1>6
<1>7. CASE ~(n = 0 \/ end < start)
  <2>1. lbuf_slice(s, i, j) = SubSeq(s, (IF start > 0 THEN start - 1 ELSE start) + 1, end)
    BY <1>5, <1>7 DEF Part
  <2>2. (IF start > 0 THEN start - 1 ELSE start) + 1 = from
    BY <1>1, <1>3
  <2>3. lbuf_slice(s, i, j) = SubSeq(s, from, end)
    BY <2>1, <2>2
  <2>4. CASE to < 0
    <3>1. end < from /\ to < from
      BY <2>4, <1>1, <1>2
    <3>2. SubSeq(s, from, to) = <<>> /\ SubSeq(s, from, end) = <<>>
      BY <3>1, <1>1, SubSeqEmpty
    <3> QED BY <3>2, <2>3, <1>4
  <2>5. CASE ~(to < 0)
    BY <2>5, <2>3, <1>2, <1>4
  <2> QED BY <2>4, <2>5
<1> QED BY <1>6, <1>7

-----------------------------------------------------------------------------
(***************************************************************************)
(* Values of a buffer.                                                     *)
(***************************************************************************)
\* The size of a value divides the bytes into groups.
LEMMA Groups ==
    ASSUME NEW size \in Sizes124, NEW x \in Int
    PROVE  /\ x \div size \in Int /\ x % size \in 0..(size - 1)
           /\ x % size = x - size * (x \div size)
           /\ size * (x \div size) <= x /\ x < size * (x \div size) + size
           /\ (x < size => x \div size <= 0) /\ (x >= size => x \div size >= 1)
<1> DEFINE q == x \div size
           r == x % size
<1> HIDE DEF q, r
<1> SUFFICES /\ q \in Int /\ r \in 0..(size - 1)
             /\ r = x - size * q
             /\ size * q <= x /\ x < size * q + size
             /\ (x < size => q <= 0) /\ (x >= size => q >= 1)
  BY DEF q, r
<1>1. CASE size = 1
  <2>1. q \in Int /\ r \in 0..0 /\ r = x - 1 * q
    <3>1. x \div 1 \in Int
      OBVIOUS
    <3>2. x % 1 \in 0..0
      OBVIOUS
    <3>3. x % 1 = x - 1 * (x \div 1)
      OBVIOUS
    <3> QED BY <3>1, <3>2, <3>3, <1>1 DEF q, r
  <2>2. size * q = 1 * q /\ size - 1 = 0
    BY <2>1, <1>1
  <2> QED BY <2>1, <2>2, <1>1
<1>2. CASE size = 2
  <2>1. q \in Int /\ r \in 0..1 /\ r = x - 2 * q
    <3>1. x \div 2 \in Int
      OBVIOUS
    <3>2. x % 2 \in 0..1
      OBVIOUS
    <3>3. x % 2 = x - 2 * (x \div 2)
      OBVIOUS
    <3> QED BY <3>1, <3>2, <3>3, <1>2 DEF q, r
  <2>2. size * q = 2 * q /\ size - 1 = 1
    BY <2>1, <1>2
  <2> QED BY <2>1, <2>2, <1>2
<1>4. CASE size = 4
  <2>1. q \in Int /\ r \in 0..3 /\ r = x - 4 * q
    <3>1. x \div 4 \in Int
      OBVIOUS
    <3>2. x % 4 \in 0..3
      OBVIOUS
    <3>3. x % 4 = x - 4 * (x \div 4)
      OBVIOUS
    <3> QED BY <3>1, <3>2, <3>3, <1>4 DEF q, r
  <2>2. size * q = 4 * q /\ size - 1 = 3
    BY <2>1, <1>4
  <2> QED BY <2>1, <2>2, <1>4
<1> QED BY <1>1, <1>2, <1>4 DEF Sizes124

\* Byte m of value k is in group k.
LEMMA GroupOf ==
    ASSUME NEW size \in Sizes124, NEW k \in Int, NEW m \in 0..(size - 1)
    PROVE  (k * size + m) \div size = k /\ (k * size + m) % size = m
<1>1. CASE size = 1 BY <1>1
<1>2. CASE size = 2 BY <1>2
<1>4. CASE size = 4 BY <1>4
<1> QED BY <1>1, <1>2, <1>4 DEF Sizes124

\* Later values are later in the buffer.
LEMMA GroupOrder ==
    ASSUME NEW size \in Sizes124, NEW k \in Int, NEW l \in Int, k <= l
    PROVE  /\ k * size <= l * size /\ k * size \in Int /\ l * size \in Int
           /\ (k - 1) * size = k * size - size
           /\ (k < l => k * size + size <= l * size)
<1>1. CASE size = 1 BY <1>1
<1>2. CASE size = 2 BY <1>2
<1>4. CASE size = 4 BY <1>4
<1> QED BY <1>1, <1>2, <1>4 DEF Sizes124

\* The bytes of a value are bytes, as many as its size.
LEMMA ToBytesType ==
    ASSUME NEW v \in Int, NEW size \in Sizes124
    PROVE  /\ ToBytes(v, size) \in Seq(Octet) /\ Len(ToBytes(v, size)) = size
           /\ \A m \in 1..size : ToBytes(v, size)[m] \in Octet
<1>1. \A k \in 1..size : Weight[k] \in Int /\ Weight[k] > 0
  BY DEF Sizes124, Weight
<1>2. \A k \in 1..size : (v \div Weight[k]) % 256 \in Octet
  <2> SUFFICES ASSUME NEW k \in 1..size PROVE (v \div Weight[k]) % 256 \in Octet
    OBVIOUS
  <2> DEFINE p == Weight[k]
  <2>1. p \in Int /\ p > 0
    BY <1>1
  <2> HIDE DEF p
  <2>2. v \div p \in Int
    BY <2>1
  <2> DEFINE q == v \div p
  <2> HIDE DEF q
  <2>3. q \in Int
    BY <2>2 DEF q
  <2>4. q % 256 \in Octet
    BY <2>3 DEF Octet
  <2> QED BY <2>4 DEF q, p
<1> DEFINE b == ToBytes(v, size)
<1>3. b = [k \in 1..size |-> (v \div Weight[k]) % 256]
  BY DEF ToBytes
<1>4. b \in [1..size -> Octet]
  BY <1>2, <1>3
<1>5. size \in Nat
  BY DEF Sizes124
<1> HIDE DEF b
<1>6. b \in Seq(Octet) /\ Len(b) = size
  BY <1>4, <1>5
<1> QED BY <1>4, <1>6 DEF b

\* The values that fit at off.
FitCount(buf, off, vals, size) ==
    IF off > Len(buf) - size THEN 0
    ELSE IF Len(vals) * size > Len(buf) - off THEN (Len(buf) - off) \div size ELSE Len(vals)

\* The buffer with count of the values in it.
WithValues(buf, off, vals, size, count) ==
    [i \in 1..Len(buf) |->
       IF i - 1 \in off..(off + count * size - 1)
       THEN ToBytes(vals[((i - 1 - off) \div size) + 1], size)[((i - 1 - off) % size) + 1]
       ELSE buf[i]]

\* Fewer bytes than a value has are no value.
LEMMA NoneFits ==
    ASSUME NEW size \in Sizes124, NEW rest \in 0..(size - 1)
    PROVE  rest \div size = 0
<1>1. CASE size = 1
  BY <1>1
<1>2. CASE size = 2
  BY <1>2
<1>3. CASE size = 4
  BY <1>3
<1> QED BY <1>1, <1>2, <1>3 DEF Sizes124

\* In reach of the buffer, what set does is decided by whether a value fits at off.
LEMMA SetIs ==
    ASSUME NEW buf \in Seq(Octet), NEW off \in Nat, NEW vals \in Seq(Int), NEW size \in Sizes124,
           off <= Len(buf) \/ size <= Len(buf)
    PROVE  /\ set_vals(buf, off, vals, size).n = FitCount(buf, off, vals, size)
           /\ off > Len(buf) - size => set_vals(buf, off, vals, size).buf = buf
           /\ ~(off > Len(buf) - size) => set_vals(buf, off, vals, size).buf =
                WithValues(buf, off, vals, size, set_vals(buf, off, vals, size).n)
<1> DEFINE n == Len(buf)
           fit == (n - off) \div size
           new(i) == ToBytes(vals[((i - 1 - off) \div size) + 1], size)[((i - 1 - off) % size) + 1]
           change(k) == [i \in DOMAIN buf |-> IF i - 1 \in off..(off + k * size - 1) THEN new(i) ELSE buf[i]]
           r == set_vals(buf, off, vals, size)
           k == IF Len(vals) * size > n - off /\ ~Behind(buf, off, size) THEN fit ELSE Len(vals)
<1>1. n \in Nat /\ size \in Nat /\ size > 0 /\ DOMAIN buf = 1..n /\ Len(vals) \in Nat
      /\ buf = [i \in 1..n |-> buf[i]]
  BY LenProperties DEF Sizes124
<1>2. r = IF NoRoom(buf, off, size) THEN [n |-> 0, buf |-> buf] ELSE [n |-> k, buf |-> change(k)]
  BY DEF set_vals
<1>3. ~Behind(buf, off, size)
  BY <1>1 DEF Behind
<1>4. CASE size <= n
  <2>1. NoRoom(buf, off, size) <=> off > n - size
    BY <1>4, <1>1 DEF NoRoom
  <2>2. FitCount(buf, off, vals, size) = IF off > n - size THEN 0 ELSE k
    BY <1>3 DEF FitCount
  <2> DEFINE c == k
  <2>3. change(c) = [i \in 1..n |-> IF i - 1 \in off..(off + c * size - 1) THEN new(i) ELSE buf[i]]
    BY <1>1
  <2>4. CASE off > n - size
    BY <2>1, <2>2, <2>4, <1>2
  <2>5. CASE ~(off > n - size)
    <3>1. r = [n |-> c, buf |-> change(c)] /\ FitCount(buf, off, vals, size) = c
      BY <2>1, <2>2, <2>5, <1>2
    <3>w. change(c) = WithValues(buf, off, vals, size, c)
      BY <2>3 DEF WithValues
    <3> HIDE DEF c, r, change
    <3>2. r.n = c /\ r.buf = change(c)
      BY <3>1
    <3> QED BY <3>1, <3>2, <3>w, <2>5 DEF r
  <2> QED BY <2>4, <2>5
<1>5. CASE size > n
  <2>1. ~NoRoom(buf, off, size) /\ off > n - size /\ off <= n
    BY <1>5, <1>1 DEF NoRoom
  <2>2. n - off \in 0..(size - 1)
    BY <2>1, <1>1, <1>5
  <2>3. fit = 0
    <3> DEFINE rest == n - off
    <3>1. rest \in 0..(size - 1)
      BY <2>2
    <3> HIDE DEF rest
    <3>2. rest \div size = 0
      BY <3>1, NoneFits
    <3> QED BY <3>2 DEF rest
  <2>4. k = 0
    <3>1. Len(vals) = 0 \/ Len(vals) * size > n - off
      <4>1. CASE Len(vals) # 0
        <5>1. 1 * size <= Len(vals) * size /\ Len(vals) * size \in Int
          BY <4>1, <1>1, GroupOrder
        <5> QED BY <5>1, <2>2, <1>1
      <4> QED BY <4>1
    <3> QED BY <3>1, <2>3, <1>3
  <2>5. change(0) = buf
    <3>1. \A i \in 1..n : i - 1 \notin off..(off + 0 * size - 1)
      BY <1>1
    <3> QED BY <3>1, <1>1
  <2> HIDE DEF k, change
  <2>6. r.n = 0 /\ r.buf = buf
    BY <1>2, <2>1, <2>4, <2>5
  <2> QED BY <2>6, <2>1 DEF FitCount
<1> QED BY <1>4, <1>5, <1>1

\* Behind a buffer that is too short for a value, the buffer itself stays.
LEMMA SetBehind ==
    ASSUME NEW buf \in Seq(Octet), NEW off \in Nat, NEW vals \in Seq(Int), NEW size \in Sizes124,
           ~(off <= Len(buf) \/ size <= Len(buf))
    PROVE  set_vals(buf, off, vals, size).buf = buf
<1> DEFINE n == Len(buf)
           r == set_vals(buf, off, vals, size)
<1>1. n \in Nat /\ DOMAIN buf = 1..n /\ buf = [i \in 1..n |-> buf[i]] /\ size \in Nat
  BY LenProperties DEF Sizes124
<1>2. ~NoRoom(buf, off, size)
  BY <1>1 DEF NoRoom
<1>3. \A c : \A i \in 1..n : i - 1 \notin off..c
  BY <1>1
<1>4. r.buf = [i \in DOMAIN buf |-> buf[i]]
  BY <1>1, <1>2, <1>3 DEF set_vals
<1> QED BY <1>1, <1>4

\* The number of values set: those asked for, or as many as fit.
LEMMA SetCount ==
    ASSUME NEW buf \in Seq(Octet), NEW off \in Nat, NEW vals \in Seq(Int), NEW size \in Sizes124,
           off <= Len(buf) \/ size <= Len(buf)
    PROVE  LET r == set_vals(buf, off, vals, size)
           IN  /\ r.n \in 0..Len(vals)
               /\ r.n = Min2(Max2((Len(buf) - off) \div size, 0), Len(vals))
               /\ r.n > 0 => off + r.n * size <= Len(buf) /\ off <= Len(buf) - size
<1>0. set_vals(buf, off, vals, size).n = FitCount(buf, off, vals, size)
  BY SetIs
<1> DEFINE n == Len(buf)
           l == Len(vals)
           fit == (n - off) \div size
           c == set_vals(buf, off, vals, size).n
<1>1. n \in Nat /\ l \in Nat /\ size \in Nat /\ size > 0
  BY LenProperties DEF Sizes124
<1>2. c = IF off > n - size THEN 0 ELSE IF l * size > n - off THEN fit ELSE l
  BY <1>0 DEF FitCount
<1>3. /\ fit \in Int /\ size * fit <= n - off /\ n - off < size * fit + size
      /\ (n - off < size => fit <= 0) /\ (n - off >= size => fit >= 1)
  <2>1. n - off \in Int
    BY <1>1
  <2> QED BY <2>1, Groups
<1> HIDE DEF fit, c, n, l
<1>4. \A a \in Int : a * size \in Int /\ a * size = size * a
  BY <1>1
<1>5. l <= fit => l * size <= n - off
  <2> SUFFICES ASSUME l <= fit PROVE l * size <= n - off
    OBVIOUS
  <2>1. l * size <= fit * size
    BY <1>1, <1>3, GroupOrder
  <2> QED BY <2>1, <1>1, <1>3, <1>4
<1>6. l > fit => l * size > n - off
  <2> SUFFICES ASSUME l > fit PROVE l * size > n - off
    OBVIOUS
  <2>1. fit * size + size <= l * size
    BY <1>1, <1>3, GroupOrder
  <2> QED BY <2>1, <1>1, <1>3, <1>4
<1>7. /\ c \in 0..l /\ c = Min2(Max2(fit, 0), l)
      /\ c > 0 => off + c * size <= n /\ off <= n - size
  <2>1. CASE off > n - size
    BY <2>1, <1>1, <1>2, <1>3 DEF Min2, Max2
  <2>2. CASE ~(off > n - size) /\ l > fit
    <3>1. c = fit /\ fit >= 1 /\ fit * size <= n - off
      BY <2>2, <1>1, <1>2, <1>3, <1>4, <1>6
    <3> QED BY <3>1, <2>2, <1>1, <1>3, <1>4 DEF Min2, Max2
  <2>3. CASE ~(off > n - size) /\ l <= fit
    <3>1. c = l /\ fit >= 1 /\ l * size <= n - off
      BY <2>3, <1>1, <1>2, <1>3, <1>4, <1>5
    <3> QED BY <3>1, <2>3, <1>1, <1>3, <1>4 DEF Min2, Max2
  <2> QED BY <2>1, <2>2, <2>3, <1>1, <1>3
<1> QED BY <1>7 DEF c, fit, n, l

\* Every value set has its bytes in its group, and no other byte changes.
LEMMA SetBytes ==
    ASSUME NEW buf \in Seq(Octet), NEW off \in Nat, NEW vals \in Seq(Int), NEW size \in Sizes124,
           off <= Len(buf) \/ size <= Len(buf)
    PROVE  LET r == set_vals(buf, off, vals, size)
           IN  /\ r.buf \in Seq(Octet) /\ Len(r.buf) = Len(buf)
               /\ \A k \in 1..r.n, m \in 1..size :
                    r.buf[off + (k - 1) * size + m] = ToBytes(vals[k], size)[m]
               /\ \A i \in 1..Len(buf) : i - 1 \notin off..(off + r.n * size - 1) => r.buf[i] = buf[i]
<1> DEFINE n == Len(buf)
           c == set_vals(buf, off, vals, size).n
           b == set_vals(buf, off, vals, size).buf
           g(i) == (i - 1 - off) \div size
           o(i) == (i - 1 - off) % size
<1>1. n \in Nat /\ size \in Nat /\ size > 0 /\ buf \in [1..n -> Octet] /\ DOMAIN buf = 1..n
  BY LenProperties DEF Sizes124
<1>2. /\ c \in 0..Len(vals)
      /\ c > 0 => off + c * size <= n /\ off <= n - size
  BY SetCount
<1>s. /\ off > n - size => b = buf /\ c = 0
      /\ ~(off > n - size) => b = [i \in 1..n |-> IF i - 1 \in off..(off + c * size - 1)
                                THEN ToBytes(vals[g(i) + 1], size)[o(i) + 1] ELSE buf[i]]
  BY SetIs DEF FitCount, WithValues
<1>3. Len(vals) \in Nat /\ \A k \in 1..Len(vals) : vals[k] \in Int
  BY LenProperties
<1>4. c * size \in Int /\ c \in Nat
  BY <1>1, <1>2, <1>3
<1>5. \A i \in 1..n : i - 1 \in off..(off + c * size - 1) =>
          g(i) + 1 \in 1..c /\ o(i) + 1 \in 1..size
  <2> SUFFICES ASSUME NEW i \in 1..n, i - 1 \in off..(off + c * size - 1)
               PROVE  g(i) + 1 \in 1..c /\ o(i) + 1 \in 1..size
    OBVIOUS
  <2> DEFINE x == i - 1 - off
             q == x \div size
             z == x % size
  <2>1. x \in Int /\ 0 <= x /\ x < c * size
    BY <1>1, <1>4
  <2>2. /\ q \in Int /\ z \in 0..(size - 1) /\ z = x - size * q
        /\ size * q <= x /\ x < size * q + size
    BY <2>1, Groups
  <2> HIDE DEF x, q, z
  <2>3. q >= 0
    <3> SUFFICES ASSUME q <= -1 PROVE FALSE
      BY <2>2
    <3>1. q * size <= (-1) * size
      BY <2>2, GroupOrder
    <3>2. q * size = size * q /\ (-1) * size = 0 - size /\ size * q \in Int
      BY <2>2, <1>1
    <3>3. size * q + size <= 0
      BY <3>1, <3>2, <1>1
    <3>4. x < 0
      <4> DEFINE t == size * q
      <4>1. t \in Int /\ t + size <= 0 /\ x < t + size /\ x \in Int
        BY <3>2, <3>3, <2>1, <2>2
      <4> HIDE DEF t
      <4> QED BY <4>1, <1>1
    <3> QED BY <3>4, <2>1
  <2>4. q < c
    <3> SUFFICES ASSUME c <= q PROVE FALSE
      BY <2>2, <1>4
    <3>1. c * size <= q * size
      <4>1. c \in Int /\ q \in Int
        BY <2>2, <1>4
      <4> HIDE DEF c
      <4> QED BY <4>1, GroupOrder
    <3>2. q * size = size * q
      BY <2>2, <1>1
    <3> QED BY <3>1, <3>2, <2>1, <2>2, <1>1, <1>4
  <2>5. q + 1 \in 1..c
    BY <2>2, <2>3, <2>4, <1>4
  <2>6. z + 1 \in 1..size
    BY <2>2, <1>1
  <2> QED BY <2>5, <2>6 DEF q, z, x
<1>6. \A i \in 1..n :
        b[i] = IF c > 0 /\ i - 1 \in off..(off + c * size - 1)
               THEN ToBytes(vals[g(i) + 1], size)[o(i) + 1] ELSE buf[i]
  <2>1. CASE off > n - size
    <3>1. b = buf /\ c = 0
      BY <2>1, <1>s
    <3> QED BY <3>1
  <2>2. CASE ~(off > n - size)
    <3>1. b = [i \in 1..n |-> IF i - 1 \in off..(off + c * size - 1)
                              THEN ToBytes(vals[g(i) + 1], size)[o(i) + 1] ELSE buf[i]]
      BY <2>2, <1>s
    <3>2. c > 0 \/ c * size = 0
      BY <1>1, <1>4
    <3>3. ~(c > 0) => \A i \in 1..n : i - 1 \notin off..(off + c * size - 1)
      BY <3>2, <1>1
    <3> QED BY <3>1, <3>3
  <2> QED BY <2>1, <2>2
<1>7. DOMAIN b = 1..n
  <2>1. CASE off > n - size
    BY <2>1, <1>1, <1>s
  <2>2. CASE ~(off > n - size)
    BY <2>2, <1>1, <1>s
  <2> QED BY <2>1, <2>2
<1> HIDE DEF g, o
<1>8. \A i \in 1..n : b[i] \in Octet
  <2> TAKE i \in 1..n
  <2>1. CASE c > 0 /\ i - 1 \in off..(off + c * size - 1)
    <3>1. g(i) + 1 \in 1..c /\ o(i) + 1 \in 1..size
      BY <2>1, <1>5
    <3>2. vals[g(i) + 1] \in Int
      BY <3>1, <1>2, <1>3
    <3>3. ToBytes(vals[g(i) + 1], size)[o(i) + 1] \in Octet
      BY <3>1, <3>2, ToBytesType
    <3> QED BY <3>3, <2>1, <1>6
  <2>2. CASE ~(c > 0 /\ i - 1 \in off..(off + c * size - 1))
    <3>1. b[i] = buf[i]
      BY <2>2, <1>6
    <3> QED BY <3>1, <1>1
  <2> QED BY <2>1, <2>2
<1>9. b \in Seq(Octet) /\ Len(b) = n
  <2>1. b \in [1..n -> Octet]
    <3>1. b = [i \in 1..n |-> b[i]]
      <4>1. CASE off > n - size
        BY <4>1, <1>1 DEF set_vals
      <4>2. CASE ~(off > n - size)
        BY <4>2, <1>1 DEF set_vals
      <4> QED BY <4>1, <4>2
    <3> HIDE DEF b
    <3> QED BY <3>1, <1>8
  <2> HIDE DEF b
  <2> QED BY <2>1, <1>1
<1>10. \A k \in 1..c, m \in 1..size : b[off + (k - 1) * size + m] = ToBytes(vals[k], size)[m]
  <2> SUFFICES ASSUME NEW k \in 1..c, NEW m \in 1..size
               PROVE  b[off + (k - 1) * size + m] = ToBytes(vals[k], size)[m]
    OBVIOUS
  <2> DEFINE p == (k - 1) * size
             i == off + p + m
  <2>1. k \in Int /\ 0 <= p /\ p + size <= c * size /\ p \in Int
    <3>1. /\ 0 * size <= (k - 1) * size /\ (k - 1) * size \in Int
          /\ (k - 1) * size + size <= c * size
      <4>1. k - 1 \in Int /\ 0 \in Int /\ 0 <= k - 1 /\ k - 1 < c /\ k - 1 <= c /\ c \in Int
        BY <1>4
      <4>2. 0 * size <= (k - 1) * size /\ (k - 1) * size \in Int
        BY <4>1, GroupOrder
      <4>3. (k - 1) * size + size <= c * size
        BY <4>1, GroupOrder
      <4> QED BY <4>2, <4>3
    <3> QED BY <3>1, <1>1, <1>4
  <2>2. (p + (m - 1)) \div size = k - 1 /\ (p + (m - 1)) % size = m - 1
    <3>1. m - 1 \in 0..(size - 1) /\ k - 1 \in Int
      BY <1>1, <1>4
    <3> QED BY <3>1, GroupOf
  <2> HIDE DEF p
  <2>3. /\ i \in 1..n /\ i - 1 \in off..(off + c * size - 1) /\ c > 0
        /\ i - 1 - off = p + (m - 1)
    <3>1. c > 0 /\ off + c * size <= n /\ m \in Int /\ 1 <= m /\ m <= size
      BY <1>1, <1>2, <1>4
    <3>2. i - 1 - off = p + (m - 1) /\ i \in Int
      BY <3>1, <2>1
    <3>3. i <= off + c * size /\ 1 <= i /\ off <= i - 1
      BY <3>1, <2>1, <1>1, <1>4
    <3> HIDE DEF i
    <3>4. i \in 1..n /\ i - 1 \in off..(off + c * size - 1)
      <4> DEFINE t == c * size
      <4>1. t \in Int /\ off + t <= n /\ i <= off + t
        BY <3>1, <3>3, <1>4
      <4> HIDE DEF t, n
      <4>2. i \in 1..n /\ i - 1 \in off..(off + t - 1)
        BY <4>1, <3>2, <3>3, <1>1
      <4> QED BY <4>2 DEF t
    <3> QED BY <3>1, <3>2, <3>4
  <2>4. g(i) = k - 1 /\ o(i) = m - 1
    BY <2>2, <2>3 DEF g, o
  <2>5. b[i] = ToBytes(vals[g(i) + 1], size)[o(i) + 1]
    BY <2>3, <1>6
  <2>6. g(i) + 1 = k /\ o(i) + 1 = m
    BY <2>4, <1>1, <1>4
  <2>7. b[i] = ToBytes(vals[k], size)[m]
    BY <2>5, <2>6
  <2> QED BY <2>7 DEF p
<1>11. \A i \in 1..n : i - 1 \notin off..(off + c * size - 1) => b[i] = buf[i]
  BY <1>6
<1> QED BY <1>9, <1>10, <1>11

\* Two sequences of the same length with the same elements are equal.
LEMMA SameSequence ==
    ASSUME NEW S, NEW T, NEW s \in Seq(S), NEW t \in Seq(T), Len(s) = Len(t),
           \A i \in 1..Len(s) : s[i] = t[i]
    PROVE  s = t
  BY SeqEqual

\* What is set reads back, and nothing else is changed (lbuf.c:170-349).
LEMMA ReadsBack ==
    ASSUME NEW buf \in Seq(Octet), NEW off \in Nat, NEW vals \in Seq(Int), NEW size \in Sizes124,
           off <= Len(buf) \/ size <= Len(buf)
    PROVE  LET r == set_vals(buf, off, vals, size)
           IN  get_vals(r.buf, off, r.n, size, size = 1)
                 = [k \in 1..r.n |-> Value(ToBytes(vals[k], size), size = 1)]
<1> DEFINE n == Len(buf)
           c == set_vals(buf, off, vals, size).n
           b == set_vals(buf, off, vals, size).buf
           part(k) == Part(b, off + (k - 1) * size, off + k * size)
<1>1. n \in Nat /\ size \in Nat /\ size > 0
  BY LenProperties DEF Sizes124
<1>2. c \in 0..Len(vals) /\ (c > 0 => off + c * size <= n /\ off <= n - size)
  BY SetCount
<1>3. Len(vals) \in Nat /\ \A k \in 1..Len(vals) : vals[k] \in Int
  BY LenProperties
<1>4. c \in Nat /\ c * size \in Int
  BY <1>1, <1>2, <1>3
<1>5. /\ b \in Seq(Octet) /\ Len(b) = n
      /\ \A k \in 1..c, m \in 1..size : b[off + (k - 1) * size + m] = ToBytes(vals[k], size)[m]
  BY SetBytes
<1>6. get_vals(b, off, c, size, size = 1)
        = IF NoRoom(b, off, size) \/ Behind(b, off, size) THEN <<>>
          ELSE [k \in 1..(IF c < 0 \/ off + c * size > n THEN (n - off) \div size ELSE c) |->
                  Value(part(k), size = 1)]
  BY <1>5 DEF get_vals
<1> HIDE DEF b, c, n
<1>7. \A k \in 1..c : part(k) = ToBytes(vals[k], size)
  <2> SUFFICES ASSUME NEW k \in 1..c PROVE part(k) = ToBytes(vals[k], size)
    OBVIOUS
  <2> DEFINE p == (k - 1) * size
             from == off + p + 1
             to == off + k * size
             t == ToBytes(vals[k], size)
  <2>1. /\ 0 <= p /\ p \in Int /\ k * size = p + size /\ p + size <= c * size
    <3>1. k - 1 \in Int /\ 0 \in Int /\ 0 <= k - 1 /\ k - 1 < c /\ k - 1 <= c /\ c \in Int
          /\ k \in Int /\ k <= k
      BY <1>4
    <3>2. 0 * size <= (k - 1) * size /\ (k - 1) * size \in Int /\ k * size \in Int
      BY <3>1, GroupOrder
    <3>3. (k - 1) * size + size <= c * size
      BY <3>1, GroupOrder
    <3>4. (k - 1) * size = k * size - size
      BY <3>1, GroupOrder
    <3> QED BY <3>2, <3>3, <3>4, <1>1
  <2>2. t \in Seq(Octet) /\ Len(t) = size
    BY <1>2, <1>3, ToBytesType
  <2> HIDE DEF p, t
  <2>3. from \in Int /\ to \in Int /\ to - from + 1 = size /\ from >= 1 /\ to <= n /\ from <= to
    <3>1. c > 0 /\ off + c * size <= n
      BY <1>2, <1>4
    <3> QED BY <3>1, <2>1, <1>1, <1>4
  <2>4. part(k) = SubSeq(b, from, to)
    BY DEF Part, p
  <2>5. \A i \in from..to : b[i] \in Octet
    <3>1. \A i \in from..to : i \in 1..Len(b)
      BY <2>3, <1>5, <1>1
    <3> QED BY <3>1, <1>5
  <2> DEFINE q == SubSeq(b, from, to)
  <2> HIDE DEF from, to
  <2>6. /\ q \in Seq(Octet) /\ Len(q) = size
        /\ \A m \in 1..size : q[m] = b[from + m - 1]
    <3>1. /\ q \in Seq(Octet)
          /\ Len(q) = IF from <= to THEN to - from + 1 ELSE 0
          /\ \A i \in 1..(to - from + 1) : q[i] = b[from + i - 1]
      BY <2>3, <2>5, SubSeqProperties
    <3> HIDE DEF q
    <3> QED BY <3>1, <2>3
  <2> HIDE DEF q
  <2>7. \A m \in 1..size : from + m - 1 = off + (k - 1) * size + m
    BY <2>1, <1>1 DEF from, p
  <2>8. \A m \in 1..size : q[m] = t[m]
    <3> TAKE m \in 1..size
    <3>1. q[m] = b[off + (k - 1) * size + m]
      BY <2>6, <2>7
    <3>2. b[off + (k - 1) * size + m] = ToBytes(vals[k], size)[m]
      BY <1>5
    <3> QED BY <3>1, <3>2 DEF t
  <2>9. q = t
    BY <2>2, <2>6, <2>8, SameSequence
  <2> QED BY <2>9, <2>4 DEF q, t
<1> HIDE DEF part
<1>8. CASE c = 0
  <2>1. get_vals(b, off, c, size, size = 1) = <<>>
    <3>1. CASE NoRoom(b, off, size) \/ Behind(b, off, size)
      BY <3>1, <1>6
    <3>2. CASE ~(NoRoom(b, off, size) \/ Behind(b, off, size))
      <4>1. ~(c < 0 \/ off + c * size > n)
        <5>1. off <= n
          BY <3>2, <1>1, <1>5 DEF NoRoom, Behind
        <5> QED BY <5>1, <1>8, <1>1
      <4>2. get_vals(b, off, c, size, size = 1) = [k \in 1..c |-> Value(part(k), size = 1)]
        BY <3>2, <4>1, <1>6
      <4> QED BY <4>2, <1>8
    <3> QED BY <3>1, <3>2
  <2>2. [k \in 1..c |-> Value(ToBytes(vals[k], size), size = 1)] = <<>>
    BY <1>8
  <2>3. get_vals(b, off, c, size, size = 1) = [k \in 1..c |-> Value(ToBytes(vals[k], size), size = 1)]
    BY <2>1, <2>2
  <2> QED BY <2>3 DEF b, c
<1>9. CASE c # 0
  <2>1. ~(NoRoom(b, off, size) \/ Behind(b, off, size)) /\ ~(c < 0 \/ off + c * size > n)
    BY <1>9, <1>1, <1>2, <1>4, <1>5 DEF NoRoom, Behind
  <2>2. get_vals(b, off, c, size, size = 1) = [k \in 1..c |-> Value(part(k), size = 1)]
    BY <2>1, <1>6
  <2>3. get_vals(b, off, c, size, size = 1) = [k \in 1..c |-> Value(ToBytes(vals[k], size), size = 1)]
    BY <2>2, <1>7
  <2> QED BY <2>3 DEF b, c
<1> QED BY <1>8, <1>9

-----------------------------------------------------------------------------
(***************************************************************************)
(* Fills.                                                                  *)
(***************************************************************************)
\* Division and remainder.
LEMMA DivMod ==
    ASSUME NEW a \in Int, NEW b \in Nat, b > 0
    PROVE  /\ a \div b \in Int /\ a % b \in 0..(b - 1)
           /\ a % b = a - b * (a \div b)
<1>1. a \div b \in Int
  OBVIOUS
<1>2. a % b \in 0..(b - 1)
  OBVIOUS
<1>3. a % b = a - b * (a \div b)
  OBVIOUS
<1> QED BY <1>1, <1>2, <1>3

\* A fill writes copies of the pattern from the offset on as far as there is
\* room, says how many bytes that is, and changes no others (lbuf.c:449-501).
LEMMA FillSound ==
    ASSUME NEW buf \in Seq(Octet), NEW val \in Seq(Octet), NEW offset \in Nat, NEW n \in Int,
           Len(buf) <= LbufLen
    PROVE  LET r == lbuf_fill(buf, val, offset, n)
               asked == IF n < 0 THEN LbufLen ELSE n * Len(val)
               room == Max2(Len(buf) - offset, 0)
           IN  /\ r.buf \in Seq(Octet) /\ Len(r.buf) = Len(buf)
               /\ r.n = IF val = <<>> THEN 0 ELSE Min2(asked, room)
               /\ \A i \in 1..Len(buf) :
                    r.buf[i] = IF i - 1 \in offset..(offset + r.n - 1)
                               THEN val[((i - 1 - offset) % Len(val)) + 1] ELSE buf[i]
<1> DEFINE m == Len(buf)
           l == Len(val)
           asked == IF n < 0 THEN LbufLen ELSE n * l
           room == Max2(m - offset, 0)
           count == IF n < 0 THEN (m \div l) + 1 ELSE n
           w == count * l
           bytes == Min2(m - offset, w)
           unit == Min2(l, bytes)
           r == lbuf_fill(buf, val, offset, n)
           fresh == [i \in 1..m |-> IF i - 1 \in offset..(offset + bytes - 1)
                                    THEN val[((i - 1 - offset) % unit) + 1] ELSE buf[i]]
<1>1. /\ m \in Nat /\ l \in Nat /\ buf \in [1..m -> Octet] /\ val \in [1..l -> Octet]
      /\ DOMAIN buf = 1..m
  BY LenProperties
<1>2. (val = <<>>) <=> (l = 0)
  BY EmptySeq
<1>3. r = IF val = <<>> \/ offset >= m \/ bytes = 0 THEN [n |-> 0, buf |-> buf]
          ELSE [n |-> bytes, buf |-> fresh]
  BY <1>1 DEF lbuf_fill
<1>4. LbufLen \in Nat /\ m <= LbufLen
  BY LbufAssumption
<1> HIDE DEF m, l
<1>5. ASSUME l > 0
      PROVE  w \in Int /\ w >= 0 /\ (n < 0 => w > m) /\ (n >= 0 => w = n * l)
  <2>1. CASE n < 0
    <3> DEFINE q == m \div l
    <3>1. q \in Int /\ m % l \in 0..(l - 1) /\ m % l = m - l * q
      BY <1>1, <1>5, DivMod
    <3>2. w = (q + 1) * l
      BY <2>1
    <3> HIDE DEF q
    <3>3. (q + 1) * l = l * q + l /\ l * q \in Int
      BY <3>1, <1>1
    <3> DEFINE t == l * q
    <3> HIDE DEF t, w
    <3>4. t \in Int /\ w = t + l /\ m - t < l
      BY <3>1, <3>2, <3>3, <1>1 DEF t
    <3> QED BY <3>4, <2>1, <1>1
  <2>2. CASE ~(n < 0)
    <3>1. w = n * l
      BY <2>2
    <3>2. n \in Nat /\ l \in Nat
      BY <2>2, <1>1
    <3>3. n * l \in Nat
      BY <3>2
    <3> HIDE DEF w
    <3> QED BY <3>1, <3>3, <2>2
  <2> QED BY <2>1, <2>2
<1>6. CASE val = <<>>
  <2>1. r.n = 0 /\ r.buf = buf
    BY <1>3, <1>6
  <2>2. \A i \in 1..m : i - 1 \notin offset..(offset + 0 - 1)
    BY <1>1
  <2> QED BY <2>1, <2>2, <1>1, <1>6 DEF m
<1>7. CASE val # <<>>
  <2>1. l > 0
    BY <1>1, <1>2, <1>7
  <2>2. w \in Int /\ w >= 0 /\ (n < 0 => w > m) /\ (n >= 0 => w = n * l)
    BY <2>1, <1>5
  <2>w. w \in Int /\ w >= 0 /\ (n < 0 => w > m)
    BY <2>2
  <2> HIDE DEF w
  <2>3. asked \in Int /\ Min2(asked, room) = IF offset >= m THEN 0 ELSE bytes
    <3>1. CASE n < 0
      <4>1. asked = LbufLen
        BY <3>1
      <4> HIDE DEF asked
      <4>2. offset < m => bytes = m - offset
        BY <3>1, <2>w, <1>1 DEF Min2
      <4>3. room = IF offset >= m THEN 0 ELSE m - offset
        BY <1>1 DEF Max2
      <4>4. m <= LbufLen
        BY <1>4
      <4> HIDE DEF bytes, room
      <4>5. CASE offset >= m
        BY <4>1, <4>3, <4>5, <1>4 DEF Min2
      <4>6. CASE ~(offset >= m)
        BY <4>1, <4>2, <4>3, <4>4, <4>6, <1>1, <1>4 DEF Min2
      <4> QED BY <4>5, <4>6
    <3>2. CASE ~(n < 0)
      <4>1. asked = w
        BY <3>2, <2>2
      <4> HIDE DEF asked
      <4> QED BY <4>1, <2>w, <1>1 DEF Min2, Max2
    <3> QED BY <3>1, <3>2
  <2>4. CASE offset >= m \/ bytes = 0
    <3>1. r.n = 0 /\ r.buf = buf
      BY <1>3, <2>4
    <3>2. Min2(asked, room) = 0
      BY <2>3, <2>4
    <3>3. \A i \in 1..m : i - 1 \notin offset..(offset + 0 - 1)
      BY <1>1
    <3> QED BY <3>1, <3>2, <3>3, <1>1, <1>7 DEF m, l
  <2>5. CASE ~(offset >= m \/ bytes = 0)
    <3>1. r = [n |-> bytes, buf |-> fresh]
      BY <1>3, <1>7, <2>5
    <3>2. r.n = bytes /\ r.buf = fresh
      BY <3>1
    <3>3. bytes = Min2(asked, room)
      BY <2>3, <2>5
    <3>4. bytes \in Nat /\ bytes > 0 /\ offset + bytes <= m
      BY <2>w, <2>5, <1>1 DEF Min2
    <3> HIDE DEF bytes
    <3>5. unit \in Nat /\ unit > 0 /\ (unit = l \/ (unit = bytes /\ bytes < l))
      <4>1. unit = IF l <= bytes THEN l ELSE bytes
        BY DEF Min2
      <4> HIDE DEF unit
      <4> QED BY <4>1, <3>4, <2>1, <1>1
    <3> HIDE DEF unit
    <3>6. \A x \in 0..(bytes - 1) : x % unit = x % l /\ x % l \in 0..(l - 1)
      <4> SUFFICES ASSUME NEW x \in 0..(bytes - 1)
                   PROVE  x % unit = x % l /\ x % l \in 0..(l - 1)
        OBVIOUS
      <4>1. x \in Int /\ x % l \in 0..(l - 1)
        BY <2>1, <3>4, <1>1
      <4>2. CASE unit = l
        BY <4>1, <4>2
      <4>3. CASE unit = bytes /\ bytes < l
        <5>1. x \in Nat /\ x < bytes /\ x < l
          BY <4>3, <3>4, <1>1
        <5>2. x % bytes = x
          BY <5>1, <3>4
        <5>3. x % l = x
          BY <5>1, <2>1, <1>1
        <5> QED BY <5>2, <5>3, <4>1, <4>3
      <4> QED BY <4>2, <4>3, <3>5
    <3>7. \A i \in 1..m :
            /\ fresh[i] = IF i - 1 \in offset..(offset + bytes - 1)
                          THEN val[((i - 1 - offset) % l) + 1] ELSE buf[i]
            /\ fresh[i] \in Octet
      <4> SUFFICES ASSUME NEW i \in 1..m
                   PROVE  /\ fresh[i] = IF i - 1 \in offset..(offset + bytes - 1)
                                        THEN val[((i - 1 - offset) % l) + 1] ELSE buf[i]
                          /\ fresh[i] \in Octet
        OBVIOUS
      <4>1. CASE i - 1 \in offset..(offset + bytes - 1)
        <5> DEFINE x == i - 1 - offset
        <5>1. x \in 0..(bytes - 1)
          BY <4>1, <3>4, <1>1
        <5>2. fresh[i] = val[(x % unit) + 1]
          BY <4>1
        <5> HIDE DEF x
        <5>3. x % unit = x % l /\ x % l \in 0..(l - 1)
          BY <5>1, <3>6
        <5>4. fresh[i] = val[(x % l) + 1]
          BY <5>2, <5>3
        <5> HIDE DEF fresh
        <5>5. (x % l) + 1 \in 1..l
          <6> DEFINE y == x % l
          <6>1. y \in 0..(l - 1)
            BY <5>3
          <6> HIDE DEF y
          <6>2. y + 1 \in 1..l
            BY <6>1, <1>1
          <6> QED BY <6>2 DEF y
        <5>6. val[(x % l) + 1] \in Octet
          BY <5>5, <1>1
        <5> QED BY <5>4, <5>6, <4>1 DEF x
      <4>2. CASE ~(i - 1 \in offset..(offset + bytes - 1))
        <5>1. fresh[i] = buf[i]
          BY <4>2
        <5> HIDE DEF fresh
        <5> QED BY <5>1, <4>2, <1>1
      <4> QED BY <4>1, <4>2
    <3>8. fresh \in [1..m -> Octet]
      BY <3>7
    <3> HIDE DEF fresh
    <3>9. fresh \in Seq(Octet) /\ Len(fresh) = m
      BY <3>8, <1>1
    <3> HIDE DEF asked, room, r
    <3> QED BY <3>2, <3>3, <3>7, <3>9, <1>7 DEF asked, room, r, m, l
  <2> QED BY <2>4, <2>5
<1> QED BY <1>6, <1>7

-----------------------------------------------------------------------------
(***************************************************************************)
(* The calls of a script on a buffer.                                      *)
(***************************************************************************)
LbInv == /\ lb \in [bytes : Seq(Octet), readonly : BOOLEAN]
         /\ Len(lb.bytes) <= LbufLen
         /\ lbLeft \in 0..LbufOps

\* What LbufSound says of one call.
CallSound == SubLikeString /\ SetReadsBack /\ FillRepeats /\ LengthKept

\* A buffer with other bytes, as many as it had, is a buffer.
LEMMA NewBytes ==
    ASSUME LbInv, NEW b \in Seq(Octet), Len(b) = Len(lb.bytes), lb' = [lb EXCEPT !.bytes = b]
    PROVE  lb'.bytes = b /\ lb' \in [bytes : Seq(Octet), readonly : BOOLEAN]
           /\ Len(lb'.bytes) <= LbufLen /\ LengthKept
BY DEF LbInv, LengthKept

\* A function on the positions of a buffer is a buffer.
LEMMA Positions ==
    ASSUME NEW n \in Nat, NEW f, f = [i \in 1..n |-> f[i]], \A i \in 1..n : f[i] \in Octet
    PROVE  f \in Seq(Octet) /\ Len(f) = n
<1>1. f \in [1..n -> Octet]
  OBVIOUS
<1> QED BY <1>1

\* The buffer after LbufNew.
LEMMA NewStep ==
    ASSUME LbInv, LbufNew
    PROVE  CallSound /\ lb' \in [bytes : Seq(Octet), readonly : BOOLEAN] /\ Len(lb'.bytes) <= LbufLen
<1>1. PICK len \in 0..LbufLen, ro \in BOOLEAN :
        lbCall.op = "none" /\ (\E t \in Contents(len) : lb' = [bytes |-> t, readonly |-> ro]) /\ lbCall' = [op |-> "new"]
  BY DEF LbufNew
<1>2. PICK b \in Contents(len) : lb' = [bytes |-> b, readonly |-> ro]
  BY <1>1
<1>3. LbufLen \in Nat /\ len \in Nat /\ len <= LbufLen
  BY LbufAssumption
<1>4. b \in Seq(Octet) /\ Len(b) = len
  <2>1. CASE b = [i \in 1..len |-> 0]
    <3>1. \A i \in 1..len : b[i] \in Octet
      BY <2>1 DEF Octet
    <3> QED BY <3>1, <2>1, <1>3, Positions
  <2>2. CASE b = [i \in 1..len |-> 255]
    <3>1. \A i \in 1..len : b[i] \in Octet
      BY <2>2 DEF Octet
    <3> QED BY <3>1, <2>2, <1>3, Positions
  <2>3. CASE b = [i \in 1..len |-> (37 * i) % 256]
    <3>1. \A i \in 1..len : (37 * i) % 256 \in Octet
      BY <1>3 DEF Octet
    <3>2. \A i \in 1..len : b[i] \in Octet
      BY <3>1, <2>3
    <3> QED BY <3>2, <2>3, <1>3, Positions
  <2> QED BY <2>1, <2>2, <2>3 DEF Contents
<1>5. CallSound
  <2>1. lbCall.op = "none" /\ lbCall'.op = "new"
    BY <1>1
  <2> QED BY <2>1 DEF CallSound, SubLikeString, SetReadsBack, FillRepeats, LengthKept
<1>6. lb' \in [bytes : Seq(Octet), readonly : BOOLEAN] /\ lb'.bytes = b
  BY <1>2, <1>4
<1> QED BY <1>3, <1>4, <1>5, <1>6

\* What a slice returns.
LEMMA SliceStep ==
    ASSUME LbInv, LbufSlice
    PROVE  CallSound
<1>1. PICK i \in Index, j \in Index :
        lbCall' = [op |-> "sub", i |-> i, j |-> j, ret |-> lbuf_slice(lb.bytes, i, j)]
  BY DEF LbufSlice
<1>2. i \in Int /\ j \in Int
  BY LbufAssumption DEF Index
<1>3. lb.bytes \in Seq(Octet)
  BY DEF LbInv
<1>4. lbCall'.op = "sub" /\ lbCall'.i = i /\ lbCall'.j = j /\ lbCall'.ret = lbuf_slice(lb.bytes, i, j)
  BY <1>1
<1>5. lbuf_slice(lb.bytes, i, j) = LuaSub(lb.bytes, i, j)
  BY <1>2, <1>3, SliceIsLua
<1>6. lbCall'.ret = LuaSub(lb.bytes, lbCall'.i, lbCall'.j)
  BY <1>4, <1>5
<1>7. lb' = lb
  BY DEF LbufSlice
<1> QED BY <1>4, <1>6, <1>7 DEF CallSound, SubLikeString, SetReadsBack, FillRepeats, LengthKept

\* What a set writes and reads back.
LEMMA SetStep ==
    ASSUME LbInv, LbufSet
    PROVE  CallSound /\ lb' \in [bytes : Seq(Octet), readonly : BOOLEAN] /\ Len(lb'.bytes) <= LbufLen
<1>0. PICK off \in Offsets, vals \in {<<v>> : v \in Extremes} \cup {<<v, 7>> : v \in Extremes},
           size \in Sizes124 :
        IF lb.readonly \/ off < 0 THEN UNCHANGED lb /\ lbCall' = [op |-> "error"]
        ELSE /\ lb' = [lb EXCEPT !.bytes = set_vals(@, off, vals, size).buf]
             /\ lbCall' = [op |-> "set", off |-> off, vals |-> vals, size |-> size,
                           ret |-> set_vals(lb.bytes, off, vals, size).n]
  BY DEF LbufSet
<1>e. CASE lb.readonly \/ off < 0
  <2>1. lb' = lb /\ lbCall'.op = "error"
    BY <1>0, <1>e
  <2> QED BY <2>1 DEF LbInv, CallSound, SubLikeString, SetReadsBack, FillRepeats, LengthKept
<1>r. SUFFICES ASSUME ~(lb.readonly \/ off < 0)
               PROVE  CallSound /\ lb' \in [bytes : Seq(Octet), readonly : BOOLEAN] /\ Len(lb'.bytes) <= LbufLen
  BY <1>e
<1>1. /\ lb' = [lb EXCEPT !.bytes = set_vals(@, off, vals, size).buf]
      /\ lbCall' = [op |-> "set", off |-> off, vals |-> vals, size |-> size,
                    ret |-> set_vals(lb.bytes, off, vals, size).n]
  BY <1>0, <1>r
<1> DEFINE buf == lb.bytes
           n == set_vals(buf, off, vals, size).n
           b == set_vals(buf, off, vals, size).buf
<1>2. buf \in Seq(Octet) /\ off \in Nat
  BY <1>r, LbufAssumption DEF LbInv, Offsets
<1>3. vals \in Seq(Int)
  <2>1. \A v \in Extremes : v \in Int
    BY DEF Extremes
  <2>2. PICK v \in Extremes : vals = <<v>> \/ vals = <<v, 7>>
    OBVIOUS
  <2>3. <<v>> \in Seq(Int) /\ <<v, 7>> \in Seq(Int)
    BY <2>1
  <2> QED BY <2>2, <2>3
<1>4. lb' = [lb EXCEPT !.bytes = b]
  BY <1>1
<1>5. /\ lbCall'.op = "set" /\ lbCall'.off = off /\ lbCall'.vals = vals /\ lbCall'.size = size
      /\ lbCall'.ret = n
  BY <1>1
<1>b. CASE ~(off <= Len(buf) \/ size <= Len(buf))
  <2>1. b = buf
    BY <1>b, <1>2, <1>3, SetBehind
  <2>2. Len(b) = Len(lb.bytes) /\ b \in Seq(Octet)
    BY <2>1, <1>2
  <2>3. ~Reached(lbCall')
    BY <1>5, <1>b DEF Reached
  <2> HIDE DEF b
  <2>4. lb' \in [bytes : Seq(Octet), readonly : BOOLEAN] /\ Len(lb'.bytes) <= LbufLen /\ LengthKept
    BY <2>2, <1>4, NewBytes
  <2> QED BY <2>3, <2>4, <1>5 DEF CallSound, SubLikeString, SetReadsBack, FillRepeats
<1>s. SUFFICES ASSUME off <= Len(buf) \/ size <= Len(buf)
               PROVE  CallSound /\ lb' \in [bytes : Seq(Octet), readonly : BOOLEAN] /\ Len(lb'.bytes) <= LbufLen
  BY <1>b
<1>6. n = Min2(Max2((Len(buf) - off) \div size, 0), Len(vals))
  BY <1>2, <1>3, <1>s, SetCount
<1>7. /\ b \in Seq(Octet) /\ Len(b) = Len(buf)
      /\ \A i \in 1..Len(buf) : i - 1 \notin off..(off + n * size - 1) => b[i] = buf[i]
  BY <1>2, <1>3, <1>s, SetBytes
<1>8. get_vals(b, off, n, size, size = 1) = [k \in 1..n |-> Value(ToBytes(vals[k], size), size = 1)]
  BY <1>2, <1>3, <1>s, ReadsBack
<1> HIDE DEF b, n
<1>9. lb'.bytes = b /\ lb' \in [bytes : Seq(Octet), readonly : BOOLEAN] /\ Len(lb'.bytes) <= LbufLen
      /\ LengthKept
  BY <1>4, <1>7, NewBytes
<1>10. DOMAIN lb.bytes = 1..Len(buf)
  BY <1>2
<1>11. SetReadsBack
  <2>1. lbCall'.ret = Min2(Max2((Len(lb.bytes) - lbCall'.off) \div lbCall'.size, 0), Len(lbCall'.vals))
    BY <1>5, <1>6
  <2>2. get_vals(lb'.bytes, lbCall'.off, lbCall'.ret, lbCall'.size, lbCall'.size = 1)
          = [k \in 1..lbCall'.ret |-> Value(ToBytes(lbCall'.vals[k], lbCall'.size), lbCall'.size = 1)]
    BY <1>5, <1>8, <1>9
  <2>3. \A i \in DOMAIN lb.bytes :
          i - 1 \notin lbCall'.off..(lbCall'.off + lbCall'.ret * lbCall'.size - 1)
            => lb'.bytes[i] = lb.bytes[i]
    BY <1>5, <1>7, <1>9, <1>10
  <2> QED BY <2>1, <2>2, <2>3 DEF SetReadsBack
<1>12. SubLikeString /\ FillRepeats
  BY <1>5 DEF SubLikeString, FillRepeats
<1> QED BY <1>9, <1>11, <1>12 DEF CallSound

\* What a fill writes.
LEMMA FillStep ==
    ASSUME LbInv, LbufFill
    PROVE  CallSound /\ lb' \in [bytes : Seq(Octet), readonly : BOOLEAN] /\ Len(lb'.bytes) <= LbufLen
<1>1. PICK offset \in 0..LbufLen, n \in -1..2, len \in 0..LbufLen + 1 :
        LET val == [k \in 1..len |-> (100 + k) % 256]
            done == lbuf_fill(lb.bytes, val, offset, n)
        IN  /\ lb' = [lb EXCEPT !.bytes = done.buf]
            /\ lbCall' = [op |-> "fill", val |-> val, offset |-> offset, n |-> n, ret |-> done.n]
  BY DEF LbufFill
<1> DEFINE buf == lb.bytes
           val == [k \in 1..len |-> (100 + k) % 256]
           r == lbuf_fill(buf, val, offset, n)
           b == r.buf
           asked == IF n < 0 THEN LbufLen ELSE n * Len(val)
           room == Max2(Len(buf) - offset, 0)
<1>2. buf \in Seq(Octet) /\ offset \in Nat /\ Len(buf) <= LbufLen /\ len \in Nat /\ n \in Int
  BY LbufAssumption DEF LbInv
<1>3. val \in Seq(Octet)
  <2>1. \A k \in 1..len : (100 + k) % 256 \in Octet
    BY <1>2 DEF Octet
  <2> QED BY <2>1, <1>2
<1>4. lb' = [lb EXCEPT !.bytes = b]
  BY <1>1
<1>5. /\ lbCall'.op = "fill" /\ lbCall'.val = val /\ lbCall'.offset = offset /\ lbCall'.n = n
      /\ lbCall'.ret = r.n
  BY <1>1
<1> HIDE DEF val
<1>6. /\ b \in Seq(Octet) /\ Len(b) = Len(buf)
      /\ r.n = IF val = <<>> THEN 0 ELSE Min2(asked, room)
      /\ \A i \in 1..Len(buf) :
           b[i] = IF i - 1 \in offset..(offset + r.n - 1)
                  THEN val[((i - 1 - offset) % Len(val)) + 1] ELSE buf[i]
  <2> HIDE DEF buf
  <2>1. /\ lbuf_fill(buf, val, offset, n).buf \in Seq(Octet)
        /\ Len(lbuf_fill(buf, val, offset, n).buf) = Len(buf)
        /\ lbuf_fill(buf, val, offset, n).n = IF val = <<>> THEN 0 ELSE Min2(asked, room)
        /\ \A i \in 1..Len(buf) :
             lbuf_fill(buf, val, offset, n).buf[i]
               = IF i - 1 \in offset..(offset + lbuf_fill(buf, val, offset, n).n - 1)
                 THEN val[((i - 1 - offset) % Len(val)) + 1] ELSE buf[i]
    BY <1>2, <1>3, FillSound
  <2> QED BY <2>1
<1> HIDE DEF b, r
<1>7. lb'.bytes = b /\ lb' \in [bytes : Seq(Octet), readonly : BOOLEAN] /\ Len(lb'.bytes) <= LbufLen
      /\ LengthKept
  BY <1>4, <1>6, NewBytes
<1>8. DOMAIN lb.bytes = 1..Len(buf)
  BY <1>2
<1>9. FillRepeats
  <2>1. lbCall'.ret = IF lbCall'.val = <<>> THEN 0
                      ELSE Min2(IF lbCall'.n < 0 THEN LbufLen ELSE lbCall'.n * Len(lbCall'.val),
                                Max2(Len(lb.bytes) - lbCall'.offset, 0))
    BY <1>5, <1>6
  <2>2. \A i \in DOMAIN lb.bytes :
          lb'.bytes[i] = IF i - 1 \in lbCall'.offset..(lbCall'.offset + lbCall'.ret - 1)
                         THEN lbCall'.val[((i - 1 - lbCall'.offset) % Len(lbCall'.val)) + 1]
                         ELSE lb.bytes[i]
    BY <1>5, <1>6, <1>7, <1>8
  <2> QED BY <2>1, <2>2 DEF FillRepeats
<1>10. SubLikeString /\ SetReadsBack
  BY <1>5 DEF SubLikeString, SetReadsBack
<1> QED BY <1>7, <1>9, <1>10 DEF CallSound

\* The calls that return bytes or change them without more ado.
LEMMA OtherStep ==
    ASSUME LbInv, LbufGet \/ LbufReverse \/ LbufFread \/ LbufFwrite
    PROVE  CallSound /\ lb' \in [bytes : Seq(Octet), readonly : BOOLEAN] /\ Len(lb'.bytes) <= LbufLen
<1> DEFINE buf == lb.bytes
           n == Len(buf)
<1>1. /\ buf \in Seq(Octet) /\ n \in Nat /\ DOMAIN buf = 1..n
      /\ \A i \in 1..n : buf[i] \in Octet
      /\ lb \in [bytes : Seq(Octet), readonly : BOOLEAN] /\ n <= LbufLen
  BY LenProperties DEF LbInv
<1>2. lbCall'.op \notin {"sub", "set", "fill"}
  BY DEF LbufGet, LbufReverse, LbufFread, LbufFwrite
<1>3. LengthKept => CallSound
  BY <1>2 DEF CallSound, SubLikeString, SetReadsBack, FillRepeats
<1>4. CASE LbufGet \/ LbufFwrite
  <2>1. lb' = lb
    BY <1>4 DEF LbufGet, LbufFwrite
  <2> QED BY <2>1, <1>1, <1>3 DEF LengthKept
<1>5. CASE LbufReverse
  <2> DEFINE b == lbuf_reverse_bytes(buf)
  <2>1. lb' = [lb EXCEPT !.bytes = b]
    BY <1>5 DEF LbufReverse
  <2>2. b = [i \in 1..n |-> IF i % 2 = 1 THEN (IF i < n THEN buf[i + 1] ELSE buf[i]) ELSE buf[i - 1]]
    BY <1>1 DEF lbuf_reverse_bytes
  <2> HIDE DEF b
  <2>3. \A i \in 1..n : b[i] \in Octet
    <3> SUFFICES ASSUME NEW i \in 1..n PROVE b[i] \in Octet
      OBVIOUS
    <3>1. CASE i % 2 = 1
      <4>1. b[i] = IF i < n THEN buf[i + 1] ELSE buf[i]
        BY <3>1, <2>2
      <4>2. i < n => i + 1 \in 1..n
        BY <1>1
      <4> QED BY <4>1, <4>2, <1>1
    <3>2. CASE ~(i % 2 = 1)
      <4>1. b[i] = buf[i - 1]
        BY <3>2, <2>2
      <4>2. i # 1
        BY <3>2
      <4>3. i - 1 \in 1..n
        BY <4>2, <1>1
      <4> QED BY <4>1, <4>3, <1>1
    <3> QED BY <3>1, <3>2
  <2>4. b \in Seq(Octet) /\ Len(b) = n
    BY <2>2, <2>3, <1>1, Positions
  <2> QED BY <2>1, <2>4, <1>3, NewBytes
<1>6. CASE LbufFread
  <2>1. PICK offset \in 0..LbufLen, got \in Nat :
          lb' = [lb EXCEPT !.bytes = [i \in DOMAIN @ |->
                   IF i - 1 \in offset..(offset + got - 1) THEN (200 + i) % 256 ELSE @[i]]]
    <3>1. PICK offset \in 0..LbufLen, count \in 0..LbufLen : \E got \in 0..count :
            lb' = [lb EXCEPT !.bytes = [i \in DOMAIN @ |->
                     IF i - 1 \in offset..(offset + got - 1) THEN (200 + i) % 256 ELSE @[i]]]
      BY <1>6, Zenon DEF LbufFread
    <3>2. \A got \in 0..count : got \in Nat
      BY LbufAssumption
    <3> QED BY <3>1, <3>2
  <2> DEFINE b == [i \in 1..n |-> IF i - 1 \in offset..(offset + got - 1) THEN (200 + i) % 256 ELSE buf[i]]
  <2>2. lb' = [lb EXCEPT !.bytes = b]
    BY <2>1, <1>1
  <2>3. \A i \in 1..n : b[i] \in Octet
    <3> TAKE i \in 1..n
    <3>1. (200 + i) % 256 \in Octet
      BY <1>1 DEF Octet
    <3>2. b[i] = (200 + i) % 256 \/ b[i] = buf[i]
      OBVIOUS
    <3> HIDE DEF b
    <3> QED BY <3>1, <3>2, <1>1
  <2>4. b \in Seq(Octet) /\ Len(b) = n
    <3>1. b = [i \in 1..n |-> b[i]]
      OBVIOUS
    <3> HIDE DEF b
    <3> QED BY <3>1, <2>3, <1>1, Positions
  <2> HIDE DEF b
  <2> QED BY <2>2, <2>4, <1>3, NewBytes
<1> QED BY <1>4, <1>5, <1>6

\* Every step of a script on a buffer keeps the buffer and does as LbufSound says.
LEMMA LbufStepSound ==
    ASSUME LbInv, LbufNext
    PROVE  LbInv' /\ CallSound
<1>1. lbLeft > 0 /\ lbLeft' = lbLeft - 1
  BY DEF LbufNext
<1>2. lbLeft' \in 0..LbufOps
  BY <1>1, LbufAssumption DEF LbInv
<1>3. LbufNew \/ LbufSlice \/ LbufSet \/ LbufFill \/ (LbufGet \/ LbufReverse \/ LbufFread \/ LbufFwrite)
  BY DEF LbufNext
<1>4. LbufSlice => lb' = lb
  BY DEF LbufSlice
<1>5. CallSound /\ lb' \in [bytes : Seq(Octet), readonly : BOOLEAN] /\ Len(lb'.bytes) <= LbufLen
  <2>1. CASE LbufSlice
    BY <2>1, <1>4, SliceStep DEF LbInv
  <2> QED BY <2>1, <1>3, NewStep, SetStep, FillStep, OtherStep
<1> QED BY <1>2, <1>5 DEF LbInv

\* A buffer keeps its bytes and its length in every behaviour.
LEMMA LbInvariance == Spec => []LbInv
<1>1. Init => LbInv
  BY LbufAssumption DEF Init, LbufInit, LbInv
<1>2. LbInv /\ [Next]_vars => LbInv'
  <2> SUFFICES ASSUME LbInv, [Next]_vars PROVE LbInv'
    OBVIOUS
  <2>1. LbufNext \/ (lb' = lb /\ lbLeft' = lbLeft)
    BY DEF Next, RawStep, LiveStep, LbufStep, PackStep, vars, lbVars
  <2> QED BY <2>1, LbufStepSound DEF LbInv
<1> QED BY <1>1, <1>2, PTL DEF Spec

\* What a script sees of a byte buffer: string, sub and byte as Lua's strings,
\* sets that read back and leave the rest alone, fills that say what they wrote
\* (lbuf.c:74-501).
THEOREM BuffersSound == Spec => LbufSound
<1>1. LbInv /\ [Next]_vars => [SubLikeString /\ SetReadsBack /\ FillRepeats /\ LengthKept]_lbVars
  <2> SUFFICES ASSUME LbInv, [Next]_vars
               PROVE  [SubLikeString /\ SetReadsBack /\ FillRepeats /\ LengthKept]_lbVars
    OBVIOUS
  <2>1. LbufNext \/ UNCHANGED lbVars
    BY DEF Next, RawStep, LiveStep, LbufStep, PackStep, vars, lbVars
  <2> QED BY <2>1, LbufStepSound DEF CallSound
<1> QED BY <1>1, LbInvariance, PTL DEF Spec, LbufSound

-----------------------------------------------------------------------------
(***************************************************************************)
(* Places in a packed image.                                               *)
(***************************************************************************)
\* A larger number of rows takes at least as much room.
LEMMA Monotone ==
    ASSUME NEW a \in Int, NEW b \in Int, NEW c \in Nat, a <= b
    PROVE  a * c \in Int /\ b * c \in Int /\ a * c <= b * c
<1>1. a * c \in Int /\ b * c \in Int
  OBVIOUS
<1>2. b - a \in Nat
  OBVIOUS
<1>3. (b - a) * c \in Nat
  BY <1>2
<1>4. (b - a) * c = b * c - a * c
  OBVIOUS
<1> QED BY <1>1, <1>3, <1>4

\* The quotient and the rest of a number that is put together from them.
LEMMA Radix ==
    ASSUME NEW a \in Nat, NEW b \in Nat, NEW c \in 0..(b - 1)
    PROVE  (a * b + c) \div b = a /\ (a * b + c) % b = c
<1> DEFINE x == a * b + c
           q == x \div b
           r == x % b
           s == q * b
           t == a * b
<1>1. b > 0 /\ x \in Int /\ c \in Int /\ t \in Int
  OBVIOUS
<1>2. q \in Int /\ r \in 0..(b - 1) /\ r = x - b * q
  <2> HIDE DEF x
  <2> QED BY <1>1, DivMod
<1>3. x = t + c
  OBVIOUS
<1> HIDE DEF x, q, r
<1>4. b * q = s /\ s \in Int
  BY <1>2
<1>5. r = x - s
  BY <1>2, <1>4
<1>6. ~(q >= a + 1)
  <2> SUFFICES ASSUME q >= a + 1 PROVE FALSE
    OBVIOUS
  <2>1. (a + 1) * b <= q * b
    BY <1>2, Monotone
  <2>2. (a + 1) * b = t + b
    OBVIOUS
  <2>3. t + b <= s
    BY <2>1, <2>2
  <2> HIDE DEF s, t
  <2> QED BY <2>3, <1>1, <1>2, <1>3, <1>4, <1>5
<1>7. ~(q <= a - 1)
  <2> SUFFICES ASSUME q <= a - 1 PROVE FALSE
    OBVIOUS
  <2>1. q * b <= (a - 1) * b
    BY <1>2, Monotone
  <2>2. (a - 1) * b = t - b
    OBVIOUS
  <2>3. s <= t - b
    BY <2>1, <2>2
  <2> HIDE DEF s, t
  <2> QED BY <2>3, <1>1, <1>2, <1>3, <1>4, <1>5
<1>8. q = a
  BY <1>2, <1>6, <1>7
<1>9. s = t
  BY <1>8
<1> HIDE DEF s, t
<1>10. r = c
  BY <1>1, <1>3, <1>4, <1>5, <1>9
<1> QED BY <1>8, <1>10 DEF q, r, x, t

\* Where sample i of a pixel is in a packed image, and which pixel of which
\* group of a layout col is.  Kept closed where the provers need no arithmetic.
PlacedAt(at, w, depth, row, col, i) == at = (row * w + col) * depth + i - 1
Placed(at, w, h, depth, row, col, i) ==
    /\ at \in 0..(w * h * depth - 1)
    /\ at \div (w * depth) = row /\ (at \div depth) % w = col /\ at % depth = i - 1
InGroup(col, L, group, j) == group = col \div L.out /\ j = col % L.out
SourceOf(s, L, frame, d, row, col, skip) ==
    L = Layout(d.type, skip) /\ s = YuvPixel(frame, d, row, SourceCol(d.type, skip, col))

\* Sample i of a pixel in a packed image is found under its row and column.
LEMMA PlaceOf ==
    ASSUME NEW w \in Nat, NEW h \in Nat, NEW depth \in Nat,
           NEW row \in 0..(h - 1), NEW col \in 0..(w - 1), NEW i \in 1..depth,
           NEW at, PlacedAt(at, w, depth, row, col, i)
    PROVE  Placed(at, w, h, depth, row, col, i)
<1> DEFINE p == row * w + col
           n == p * depth + (i - 1)
           wd == w * depth
           c == col * depth + (i - 1)
<1>1. row \in Nat /\ col \in Nat /\ i - 1 \in 0..(depth - 1) /\ p \in Nat /\ wd \in Nat
  <2>1. row \in Nat /\ col \in Nat /\ i - 1 \in 0..(depth - 1)
    OBVIOUS
  <2>2. row * w \in Nat /\ wd \in Nat
    BY <2>1
  <2> QED BY <2>1, <2>2
<1>2. n \div depth = p /\ n % depth = i - 1
  <2> HIDE DEF p
  <2> QED BY <1>1, Radix
<1>3. p % w = col
  BY <1>1, Radix
<1>4. c \in 0..(wd - 1)
  <2>1. col * depth \in Nat
    BY <1>1
  <2>2. (col + 1) * depth <= w * depth
    <3>1. col + 1 <= w /\ col + 1 \in Int /\ w \in Int
      BY <1>1
    <3> QED BY <3>1, Monotone
  <2>3. (col + 1) * depth = col * depth + depth
    BY <1>1
  <2> DEFINE t == col * depth
  <2>4. t \in Nat /\ t + depth <= wd
    BY <2>1, <2>2, <2>3
  <2> HIDE DEF t, wd
  <2> QED BY <2>4, <1>1 DEF t
<1>5. n = row * wd + c
  <2>1. (row * w + col) * depth = row * (w * depth) + col * depth
    BY <1>1
  <2> QED BY <2>1, <1>1
<1>6. n \div wd = row
  <2> HIDE DEF n, wd, c
  <2>1. (row * wd + c) \div wd = row
    BY <1>1, <1>4, Radix
  <2> QED BY <2>1, <1>5
<1>7. n \in 0..(w * h * depth - 1)
  <2>1. (row + 1) * wd <= h * wd
    <3> HIDE DEF wd
    <3>1. row + 1 \in Int /\ h \in Int /\ row + 1 <= h
      BY <1>1
    <3> QED BY <3>1, <1>1, Monotone
  <2>2. h * wd = w * h * depth
    OBVIOUS
  <2> DEFINE all == w * h * depth
             t == row * wd
  <2>3. t \in Nat /\ t + wd <= all
    <3>1. (row + 1) * wd = t + wd
      <4> HIDE DEF wd
      <4> QED BY <1>1
    <3>2. t \in Nat
      <4> HIDE DEF wd
      <4> QED BY <1>1
    <3> QED BY <3>1, <3>2, <2>1, <2>2
  <2>4. all \in Int
    OBVIOUS
  <2> HIDE DEF all, t, n, wd, c
  <2> QED BY <2>3, <2>4, <1>1, <1>4, <1>5 DEF t, all
<1>8. n = at
  BY DEF PlacedAt
<1> HIDE DEF n
<1> QED BY <1>2, <1>3, <1>6, <1>7, <1>8 DEF p, wd, Placed

\* The image has the samples of px, and perhaps others.
Holds(im, px) ==
    /\ DOMAIN im.px = DOMAIN px
    /\ \A n \in DOMAIN px : \A i \in DOMAIN px[n] : i \in DOMAIN im.px[n] /\ im.px[n][i] = px[n][i]

\* An image is packed into as many bytes as it has pixels and channels.
LEMMA PackedSize ==
    ASSUME NEW im, NEW depth, NEW old
    PROVE  DOMAIN pimg_to_packed(im, depth, old) = 0..(im.w * im.h * depth - 1)
<1> DEFINE size == im.w * im.h * depth
<1>1. DOMAIN Target(old, size) = 0..(size - 1)
  <2> HIDE DEF size
  <2> QED BY Zenon DEF Target
<1>2. DOMAIN pimg_to_packed(im, depth, old) = DOMAIN Target(old, size)
  BY Zenon DEF pimg_to_packed
<1> QED BY <1>1, <1>2

\* What an image of w by h pixels is packed into, whatever buffer was handed in:
\* the pixel the image has for the row, upside down.
LEMMA PackedPixel ==
    ASSUME NEW w \in Nat, NEW h \in Nat, NEW depth \in Nat, NEW pixel, NEW im,
           NEW old, im.w = w, im.h = h, Holds(im, Emit(w, h, pixel)),
           NEW row \in 0..(h - 1), NEW col \in 0..(w - 1), NEW i \in 1..depth,
           NEW at, PlacedAt(at, w, depth, row, col, i), i \in DOMAIN pixel[row][col]
    PROVE  pimg_to_packed(im, depth, old)[at] = pixel[row][col][i]
<1> DEFINE m == (h - 1 - row) * w + col
<1>1. /\ at \in 0..(w * h * depth - 1)
      /\ at \div (w * depth) = row /\ (at \div depth) % w = col /\ at % depth = i - 1
  <2>1. Placed(at, w, h, depth, row, col, i)
    BY PlaceOf
  <2> QED BY <2>1 DEF Placed
<1>2. pimg_to_packed(im, depth, old)[at]
        = LET px == im.px[(h - 1 - row) * w + col]
          IN  IF (i - 1) + 1 \in DOMAIN px THEN px[(i - 1) + 1] ELSE 255
  <2> DEFINE target == Target(old, im.w * im.h * depth)
  <2>1. DOMAIN target = 0..(w * h * depth - 1)
    <3>1. DOMAIN pimg_to_packed(im, depth, old) = DOMAIN target
      BY Zenon DEF pimg_to_packed
    <3> QED BY <3>1, PackedSize
  <2> DEFINE y == at \div (im.w * depth)
             x == (at \div depth) % im.w
             px == im.px[(im.h - 1 - y) * im.w + x]
  <2>2. pimg_to_packed(im, depth, old)[at]
          = IF y >= im.h THEN target[at]
            ELSE IF (at % depth) + 1 \in DOMAIN px THEN px[(at % depth) + 1] ELSE 255
    <3>1. at \in DOMAIN target
      BY <1>1, <2>1
    <3> HIDE DEF target
    <3> QED BY <3>1 DEF pimg_to_packed, target
  <2>3. y = row /\ x = col /\ at % depth = i - 1 /\ im.h = h /\ im.w = w
    BY <1>1
  <2>4. ~(row >= h)
    OBVIOUS
  <2> HIDE DEF y, x, target
  <2> QED BY <2>2, <2>3, <2>4
<1>3. (i - 1) + 1 = i
  OBVIOUS
<1>4. m \div w = h - 1 - row /\ m % w = col /\ m \in 0..(w * h - 1)
  <2> DEFINE k == h - 1 - row
  <2>1. k \in Nat /\ k + 1 <= h
    OBVIOUS
  <2> HIDE DEF k
  <2>2. (k * w + col) \div w = k /\ (k * w + col) % w = col
    BY <2>1, Radix
  <2>3. k * w + col \in 0..(w * h - 1)
    <3>1. (k + 1) * w <= h * w
      BY <2>1, Monotone
    <3> DEFINE t == k * w
               all == w * h
    <3>2. t \in Nat /\ all \in Nat /\ t + w <= all
      <4>1. (k + 1) * w = t + w
        BY <2>1
      <4>2. h * w = all
        OBVIOUS
      <4>3. t \in Nat /\ all \in Nat
        BY <2>1
      <4> QED BY <3>1, <4>1, <4>2, <4>3
    <3>3. t + col \in 0..(all - 1)
      <4> HIDE DEF t, all
      <4> QED BY <3>2
    <3> QED BY <3>3
  <2> QED BY <2>2, <2>3 DEF k
<1>5. Emit(w, h, pixel)[m] = pixel[h - 1 - (h - 1 - row)][col] /\ m \in DOMAIN Emit(w, h, pixel)
  <2> HIDE DEF m
  <2>1. Emit(w, h, pixel)[m] = pixel[h - 1 - (m \div w)][m % w]
    BY <1>4 DEF Emit
  <2>2. pixel[h - 1 - (m \div w)][m % w] = pixel[h - 1 - (h - 1 - row)][col]
    BY <1>4
  <2>3. m \in DOMAIN Emit(w, h, pixel)
    BY <1>4 DEF Emit
  <2> QED BY <2>1, <2>2, <2>3
<1>6. h - 1 - (h - 1 - row) = row
  OBVIOUS
<1> HIDE DEF m
<1>7. Emit(w, h, pixel)[m] = pixel[row][col]
  BY <1>5, <1>6
<1>8. i \in DOMAIN im.px[m] /\ im.px[m][i] = pixel[row][col][i]
  BY <1>5, <1>7 DEF Holds
<1> QED BY <1>2, <1>3, <1>8 DEF m

-----------------------------------------------------------------------------
(***************************************************************************)
(* Colours.                                                                *)
(***************************************************************************)
\* A sample is clipped to a byte and stays within a unit of the exact value.
LEMMA ClipNear ==
    ASSUME NEW k \in Int, NEW exact \in Int,
           4096 * exact <= 1000 * k + 400 * 1000, 1000 * k <= 4096 * exact + 400 * 1000
    PROVE  Near(clip_yuv((k + 2048) \div 4096), exact)
<1> DEFINE q == (k + 2048) \div 4096
<1>1. q \in Int /\ 4096 * q <= k + 2048 /\ k + 2048 < 4096 * q + 4096
  BY SMT
<1> SUFFICES Near(clip_yuv(q), exact)
  BY SMT
<1> HIDE DEF q
<1>2. exact - 600 <= 1000 * q /\ 1000 * q <= exact + 600
  BY <1>1, SMT
<1>3. CASE q < 0
  BY <1>1, <1>2, <1>3, SMT DEF Near, clip_yuv
<1>4. CASE q > 255
  BY <1>1, <1>2, <1>4, SMT DEF Near, clip_yuv
<1>5. CASE ~(q < 0) /\ ~(q > 255)
  BY <1>1, <1>2, <1>5, SMT DEF Near, clip_yuv
<1> QED BY <1>3, <1>4, <1>5, SMT

\* A colour with its transparency appended.
LEMMA FourSamples ==
    ASSUME NEW s, NEW r, NEW g, NEW b, NEW a, s = <<r, g, b>>
    PROVE  /\ DOMAIN Append(s, a) = 1..4
           /\ Append(s, a)[4] = a /\ \A i \in 1..3 : Append(s, a)[i] = s[i]
<1>1. DOMAIN Append(s, a) = 1..4 /\ Append(s, a)[4] = a
  OBVIOUS
<1>2. \A i \in 1..3 : Append(s, a)[i] = s[i]
  OBVIOUS
<1> QED BY <1>1, <1>2

\* The samples of a pixel converted from yuv, with a fourth behind them.
LEMMA Samples ==
    ASSUME NEW y, NEW u, NEW v, NEW a, NEW s, s = Rgb(y, u, v), NEW t, t = Append(s, a)
    PROVE  DOMAIN t = 1..4 /\ t[4] = a /\ \A i \in 1..3 : t[i] = s[i]
<1> DEFINE r == yuv_to_r(y, v)
           g == yuv_to_g(y, u, v)
           b == yuv_to_b(y, u)
<1>1. s = <<r, g, b>>
  BY DEF Rgb
<1> HIDE DEF r, g, b
<1>2. /\ DOMAIN Append(s, a) = 1..4
      /\ Append(s, a)[4] = a /\ \A i \in 1..3 : Append(s, a)[i] = s[i]
  BY <1>1, FourSamples
<1> QED BY <1>2

\* The three channels rgb of the pixel s.
Converted(rgb, s) ==
    /\ s.y \in Octet /\ s.u \in -128..127 /\ s.v \in -128..127
    /\ rgb[1] = yuv_to_r(s.y, s.v) /\ rgb[2] = yuv_to_g(s.y, s.u, s.v) /\ rgb[3] = yuv_to_b(s.y, s.u)

\* The conversion of yuv to rgb is that of ITU-R BT.601 (liveimg.c:100-143).
LEMMA ColourOf ==
    ASSUME NEW rgb, NEW s, Converted(rgb, s)
    PROVE  IsColour(rgb, s)
<1> DEFINE y == s.y
           u == s.u
           v == s.v
<1>0. rgb[1] = yuv_to_r(y, v) /\ rgb[2] = yuv_to_g(y, u, v) /\ rgb[3] = yuv_to_b(y, u)
  BY DEF Converted
<1>1. /\ y \in Int /\ u \in Int /\ v \in Int
      /\ 0 <= y /\ y <= 255 /\ -128 <= u /\ u <= 127 /\ -128 <= v /\ v <= 127
  <2>1. y \in Octet /\ u \in -128..127 /\ v \in -128..127
    BY DEF Converted
  <2> HIDE DEF y, u, v
  <2> QED BY <2>1 DEF Octet
<1> HIDE DEF y, u, v
<1>2. Near(rgb[1], 1000 * y + 1402 * v)
  <2> DEFINE k == y * 4096 + v * 5743
             exact == 1000 * y + 1402 * v
  <2>1. k \in Int /\ exact \in Int
    BY <1>1
  <2>e. 4096 * exact <= 1000 * k + 400 * 1000 /\ 1000 * k <= 4096 * exact + 400 * 1000
    BY <1>1
  <2>2. rgb[1] = clip_yuv((k + 2048) \div 4096)
    BY <1>0 DEF yuv_to_r
  <2> HIDE DEF k, exact
  <2>3. Near(rgb[1], exact)
    BY <2>1, <2>e, <2>2, ClipNear
  <2> QED BY <2>3 DEF exact
<1>3. Near(rgb[2], 1000 * y - 344 * u - 714 * v)
  <2> DEFINE k == y * 4096 - u * 1411 - v * 2925
             exact == 1000 * y - 344 * u - 714 * v
  <2>1. k \in Int /\ exact \in Int
    BY <1>1
  <2>e. 4096 * exact <= 1000 * k + 400 * 1000 /\ 1000 * k <= 4096 * exact + 400 * 1000
    BY <1>1
  <2>2. rgb[2] = clip_yuv((k + 2048) \div 4096)
    BY <1>0 DEF yuv_to_g
  <2> HIDE DEF k, exact
  <2>3. Near(rgb[2], exact)
    BY <2>1, <2>e, <2>2, ClipNear
  <2> QED BY <2>3 DEF exact
<1>4. Near(rgb[3], 1000 * y + 1772 * u)
  <2> DEFINE k == y * 4096 + u * 7258
             exact == 1000 * y + 1772 * u
  <2>1. k \in Int /\ exact \in Int
    BY <1>1
  <2>e. 4096 * exact <= 1000 * k + 400 * 1000 /\ 1000 * k <= 4096 * exact + 400 * 1000
    BY <1>1
  <2>2. rgb[3] = clip_yuv((k + 2048) \div 4096)
    BY <1>0 DEF yuv_to_b
  <2> HIDE DEF k, exact
  <2>3. Near(rgb[3], exact)
    BY <2>1, <2>e, <2>2, ClipNear
  <2> QED BY <2>3 DEF exact
<1> QED BY <1>2, <1>3, <1>4 DEF IsColour, y, u, v

\* A paletted pixel has four samples.
LEMMA PaletteSamples ==
    ASSUME NEW frame, NEW pixel
    PROVE  DOMAIN Colour(frame, pixel) = 1..4
<1>1. \A a, c : DOMAIN Rgba(a, c) = 1..4
  <2> SUFFICES ASSUME NEW a, NEW c PROVE DOMAIN Append(Rgb(c.y, c.u, c.v), a) = 1..4
    BY DEF Rgba
  <2> DEFINE s == Rgb(c.y, c.u, c.v)
             t == Append(s, a)
  <2>1. s = Rgb(c.y, c.u, c.v) /\ t = Append(s, a)
    OBVIOUS
  <2> HIDE DEF s, t
  <2>2. DOMAIN t = 1..4
    BY <2>1, Samples
  <2> QED BY <2>1, <2>2
<1>2. DOMAIN Clear = 1..4
  BY DEF Clear
<1>3. \A palette : \A type \in 1..5 : DOMAIN to_rgba(type, palette, pixel) = 1..4
  <2> SUFFICES ASSUME NEW palette, NEW type \in 1..5
               PROVE  DOMAIN to_rgba(type, palette, pixel) = 1..4
    OBVIOUS
  <2>1. CASE type = 1
    BY <2>1, <1>1 DEF to_rgba
  <2>2. CASE type = 2
    BY <2>2, <1>1 DEF to_rgba
  <2>3. CASE type = 3
    BY <2>3, <1>1, <1>2 DEF to_rgba
  <2>4. CASE type = 4
    BY <2>4, <1>1, <1>2 DEF to_rgba
  <2>5. CASE type = 5
    BY <2>5, <1>1, <1>2 DEF to_rgba
  <2> QED BY <2>1, <2>2, <2>3, <2>4, <2>5
<1>4. DOMAIN num_entries = 1..5
  BY DEF num_entries
<1>5. CASE frame.palette_type \in DOMAIN num_entries /\ frame.palette_start # 0
  BY <1>5, <1>3, <1>4 DEF Colour
<1>6. CASE ~(frame.palette_type \in DOMAIN num_entries /\ frame.palette_start # 0)
  BY <1>6, <1>3 DEF Colour
<1> QED BY <1>5, <1>6

-----------------------------------------------------------------------------
(***************************************************************************)
(* Frames.                                                                 *)
(***************************************************************************)
Sized(d, b, w, h) == d.buffer_width = b /\ d.visible_width = w /\ d.visible_height = h

VpShape(d) == /\ d.type \in {"YUV8", "YUV8B", "YUV8C"} /\ d.start \in {-20, 80}
              /\ Sized(d, 8, 4, 2) \/ Sized(d, 8, 8, 1) \/ Sized(d, 4, 4, 1)
PalShape(d) == d.type = "PAL8" /\ d.start = 80 /\ (Sized(d, 8, 4, 2) \/ Sized(d, 8, 6, 1) \/ Sized(d, 8, 8, 1))
YuvShape(d, o) == /\ d.type = "YUV8B" /\ d.start = 80 /\ Sized(d, 8, 4, 2)
                  /\ o.start \in {0, 120} /\ (Sized(o, 4, 4, 2) \/ Sized(o, 8, 8, 2))

\* The frames a camera sends: a viewport, an overlay of either kind, or neither.
LEMMA FrameShapes ==
    ASSUME NEW f \in Frames
    PROVE  /\ f.seed \in Nat /\ f.len \in Nat /\ f.palette_start \in Int
           /\ f.palette_type \in 0..6
           /\ f.vp.at <= 0 \/ VpShape(f.vp)
           /\ f.bm.at <= 0 \/ PalShape(f.bm) \/ (YuvShape(f.bm, f.bmo) /\ f.len = 400)
<1> DEFINE Z == {<<8, 4, 2>>, <<8, 6, 1>>, <<8, 8, 1>>}
<1>1. /\ BaseFrame.seed = 0 /\ BaseFrame.len = 400 /\ BaseFrame.palette_type = 0
      /\ BaseFrame.palette_start = 0 /\ BaseFrame.vp = NoDesc /\ BaseFrame.bm = NoDesc
      /\ BaseFrame.bmo = NoDesc
      /\ DOMAIN BaseFrame = {"seed", "minor", "len", "palette_type", "palette_start", "vp", "bm", "bmo"}
  BY DEF BaseFrame
<1>2. NoDesc.at = 0
  BY DEF NoDesc, Desc
<1>3. \A type, start, size :
        /\ Desc(type, start, size).type = type /\ Desc(type, start, size).start = start
        /\ Desc(type, start, size).buffer_width = size[1]
        /\ Desc(type, start, size).visible_width = size[2]
        /\ Desc(type, start, size).visible_height = size[3]
  BY DEF Desc
<1>4. \A z \in LiveSeeds : z \in Nat
  BY LiveAssumption
<1>5. CASE \E z \in LiveSeeds, v \in Viewports :
             f = ViewportFrame(z, v)
  <2>1. PICK z \in LiveSeeds, v \in Viewports :
             f = ViewportFrame(z, v)
    BY <1>5
  <2>2. f.seed = z /\ f.len = v.len /\ f.palette_type = 0 /\ f.palette_start = 0
        /\ f.vp = Desc(v.type, 80, v.size) /\ f.bm = NoDesc
    BY <2>1, <1>1 DEF ViewportFrame
  <2>3. v.type \in {"YUV8", "YUV8B", "YUV8C"} /\ v.size \in Sizes /\ v.len \in {90, 400}
    BY DEF Viewports
  <2>4. VpShape(f.vp)
    BY <2>2, <2>3, <1>3 DEF VpShape, Sized, Sizes
  <2> QED BY <2>2, <2>3, <2>4, <1>2, <1>4
<1>6. CASE \E z \in LiveSeeds, o \in Overlays, y \in Z :
             f = PaletteFrame(z, o, y)
  <2>1. PICK z \in LiveSeeds, o \in Overlays, y \in Z :
             f = PaletteFrame(z, o, y)
    BY <1>6
  <2>2. f.seed = z /\ f.len = o.len /\ f.palette_type = o.palette /\ f.palette_start = o.start
        /\ f.vp = NoDesc /\ f.bm = Desc("PAL8", 80, y)
    BY <2>1, <1>1 DEF PaletteFrame
  <2>3. o.palette \in 1..6 /\ o.start \in {-16, 0, 100} /\ o.len \in {1100, 1200}
    BY DEF Overlays
  <2>4. PalShape(f.bm)
    BY <2>2, <1>3 DEF PalShape, Sized
  <2> QED BY <2>2, <2>3, <2>4, <1>2, <1>4
<1>7. CASE \E z \in LiveSeeds, o \in {0, 120}, w \in {4, 8} :
             f = OpacityFrame(z, o, w)
  <2>1. PICK z \in LiveSeeds, o \in {0, 120}, w \in {4, 8} :
             f = OpacityFrame(z, o, w)
    BY <1>7
  <2>2. f.seed = z /\ f.len = 400 /\ f.palette_type = 0 /\ f.palette_start = 0
        /\ f.vp = NoDesc /\ f.bm = Desc("YUV8B", 80, <<8, 4, 2>>)
        /\ f.bmo = Desc("OPACITY8", o, <<w, w, 2>>)
    BY <2>1, <1>1 DEF OpacityFrame
  <2>3. YuvShape(f.bm, f.bmo)
    BY <2>2, <1>3 DEF YuvShape, Sized
  <2> QED BY <2>2, <2>3, <1>2, <1>4
<1>8. CASE f = BaseFrame
  BY <1>8, <1>1, <1>2
<1>10. CASE \E at \in {-32, 32}, start \in {-20, 80} : f = SignedFrame(at, start)
  <2>1. PICK at \in {-32, 32}, start \in {-20, 80} : f = SignedFrame(at, start)
    BY <1>10
  <2> DEFINE d == Desc("YUV8", start, <<8, 4, 2>>)
  <2>2. f.seed = 0 /\ f.len = 400 /\ f.palette_type = 0 /\ f.palette_start = 0
        /\ f.vp = [d EXCEPT !.at = at] /\ f.bm = NoDesc
    BY <2>1, <1>1 DEF SignedFrame
  <2>3. [d EXCEPT !.at = at].type = "YUV8" /\ [d EXCEPT !.at = at].start = start
        /\ [d EXCEPT !.at = at].buffer_width = 8 /\ [d EXCEPT !.at = at].visible_width = 4
        /\ [d EXCEPT !.at = at].visible_height = 2
    BY DEF Desc
  <2>4. VpShape(f.vp)
    BY <2>2, <2>3 DEF VpShape, Sized
  <2> QED BY <2>2, <2>4, <1>2
<1>9. \/ \E z \in LiveSeeds, v \in Viewports : f = ViewportFrame(z, v)
      \/ \E z \in LiveSeeds, o \in Overlays, y \in Z : f = PaletteFrame(z, o, y)
      \/ \E z \in LiveSeeds, o \in {0, 120}, w \in {4, 8} : f = OpacityFrame(z, o, w)
      \/ \E at \in {-32, 32}, start \in {-20, 80} : f = SignedFrame(at, start)
      \/ f = BaseFrame
  BY DEF Frames
<1> QED BY <1>5, <1>6, <1>7, <1>8, <1>9, <1>10

-----------------------------------------------------------------------------
(***************************************************************************)
(* Pixels of a frame.                                                      *)
(***************************************************************************)
YuvTypes == {"YUV8", "YUV8B", "YUV8C"}

\* A byte is a byte, a chroma a signed one.
LEMMA Bytewise ==
    ASSUME NEW frame, frame.seed \in Nat, NEW i \in Int, NEW type
    PROVE  Byte(frame, i) \in Octet /\ Chroma(type, Byte(frame, i)) \in -128..127
<1> DEFINE x == i * 53 + (i \div 7) * 5 + frame.seed
           b == Byte(frame, i)
<1>1. x \in Int
  OBVIOUS
<1>2. b = x % 256
  BY DEF Byte
<1> HIDE DEF x, b
<1>3. b \in Octet
  BY <1>1, <1>2 DEF Octet
<1>4. \A z \in Int : int8(z) \in -128..127
  <2> SUFFICES ASSUME NEW z \in Int PROVE int8(z) \in -128..127
    OBVIOUS
  <2> DEFINE r == z % 256
  <2>1. r \in 0..255
    OBVIOUS
  <2>2. int8(z) = IF r < 128 THEN r ELSE r - 256
    BY DEF int8
  <2> HIDE DEF r
  <2> QED BY <2>1, <2>2
<1>5. Chroma(type, b) \in -128..127
  <2>1. b \in Int /\ b - 128 \in Int
    BY <1>3 DEF Octet
  <2> QED BY <2>1, <1>4 DEF Chroma
<1> QED BY <1>3, <1>5 DEF b

\* The loop over a row takes pixel col from the source pixel of SourceCol, in
\* every layout and with every other pixel skipped or not (liveimg.c:264-401).
LEMMA YuvSource ==
    ASSUME NEW frame, NEW d, d.type \in YuvTypes, NEW skip \in BOOLEAN, NEW row, NEW col \in Nat,
           NEW L, NEW s, SourceOf(s, L, frame, d, row, col, skip),
           NEW group, NEW j, InGroup(col, L, group, j)
    PROVE  YuvAt(frame, d, row, group, j, L) = Rgb(s.y, s.u, s.v)
<1> DEFINE base == d.start + row * row_inc(d)
           at == SourceCol(d.type, skip, col)
           six == d.type = "YUV8"
           p == IF six THEN base + 6 * (at \div 4) ELSE base + 4 * (at \div 2)
           o == IF six THEN <<1, 3, 4, 5>>[(at % 4) + 1] ELSE 1 + 2 * (at % 2)
           q == base + (col \div L.out) * L.bytes
<1>1. s.y = Byte(frame, p + o) /\ s.u = Chroma(d.type, Byte(frame, p))
      /\ s.v = Chroma(d.type, Byte(frame, p + 2))
  BY DEF YuvPixel, SourceOf
<1>2. YuvAt(frame, d, row, group, j, L)
        = Rgb(Byte(frame, q + L.y[(col % L.out) + 1]), Chroma(d.type, Byte(frame, q)),
              Chroma(d.type, Byte(frame, q + 2)))
  BY DEF YuvAt, InGroup
<1>L. L = Layout(d.type, skip)
  BY DEF SourceOf
<1> HIDE DEF base
<1>3. q = p /\ L.y[(col % L.out) + 1] = o
  <2>1. CASE six /\ skip
    <3> DEFINE g == col \div 2
               r == col % 2
    <3>1. L.out = 2 /\ L.bytes = 6 /\ L.y = <<1, 3, 4, 5>>
      BY <1>L, <2>1 DEF Layout
    <3>2. at = 4 * g + r
      BY <2>1 DEF SourceCol
    <3>3. g \in Int /\ r \in 0..1
      OBVIOUS
    <3> HIDE DEF g, r, at
    <3>4. at \div 4 = g /\ at % 4 = r
      BY <3>2, <3>3
    <3>5. q = base + g * 6 /\ p = base + 6 * g
      BY <3>1, <3>4, <2>1 DEF g
    <3>6. o = <<1, 3, 4, 5>>[r + 1] /\ L.y[(col % L.out) + 1] = <<1, 3, 4, 5>>[r + 1]
      BY <3>1, <3>4, <2>1 DEF r
    <3>7. g * 6 = 6 * g
      BY <3>3
    <3> QED BY <3>5, <3>6, <3>7
  <2>2. CASE six /\ ~skip
    <3> DEFINE g == col \div 4
    <3>1. L.out = 4 /\ L.bytes = 6 /\ L.y = <<1, 3, 4, 5>>
      BY <1>L, <2>2 DEF Layout
    <3>2. at = col
      BY <2>2 DEF SourceCol
    <3>3. g \in Int /\ g * 6 = 6 * g
      OBVIOUS
    <3>4. q = base + g * 6 /\ p = base + 6 * g
      BY <3>1, <3>2, <2>2
    <3>5. o = <<1, 3, 4, 5>>[(col % 4) + 1] /\ L.y[(col % L.out) + 1] = <<1, 3, 4, 5>>[(col % 4) + 1]
      BY <3>1, <3>2, <2>2
    <3> HIDE DEF g, q, p, o
    <3> QED BY <3>3, <3>4, <3>5
  <2>3. CASE ~six /\ skip
    <3>1. L.out = 1 /\ L.bytes = 4 /\ L.y = <<1, 3>>
      BY <1>L, <2>3 DEF Layout
    <3>2. at = 2 * col
      BY <2>3 DEF SourceCol
    <3>3. col \div 1 = col /\ col % 1 = 0
      OBVIOUS
    <3> HIDE DEF at
    <3>4. at \div 2 = col /\ at % 2 = 0
      BY <3>2
    <3>5. q = base + col * 4 /\ p = base + 4 * col
      BY <3>1, <3>3, <3>4, <2>3
    <3>6. o = 1 /\ L.y[(col % L.out) + 1] = 1
      BY <3>1, <3>3, <3>4, <2>3
    <3>7. col * 4 = 4 * col
      OBVIOUS
    <3> QED BY <3>5, <3>6, <3>7
  <2>4. CASE ~six /\ ~skip
    <3> DEFINE g == col \div 2
               r == col % 2
    <3>1. L.out = 2 /\ L.bytes = 4 /\ L.y = <<1, 3>>
      BY <1>L, <2>4 DEF Layout
    <3>2. at = col
      BY <2>4 DEF SourceCol
    <3>3. g \in Int /\ r \in 0..1 /\ g * 4 = 4 * g
      OBVIOUS
    <3>4. q = base + g * 4 /\ p = base + 4 * g
      BY <3>1, <3>2, <2>4
    <3>5. o = 1 + 2 * r /\ L.y[(col % L.out) + 1] = <<1, 3>>[r + 1]
      BY <3>1, <3>2, <2>4
    <3> HIDE DEF g, r, q, p, o
    <3>6. <<1, 3>>[r + 1] = 1 + 2 * r
      <4>1. r = 0 \/ r = 1
        BY <3>3
      <4>2. \A k \in {0, 1} : <<1, 3>>[k + 1] = 1 + 2 * k
        OBVIOUS
      <4> QED BY <4>1, <4>2
    <3> QED BY <3>3, <3>4, <3>5, <3>6
  <2> QED BY <2>1, <2>2, <2>3, <2>4
<1> HIDE DEF p, o, q
<1> QED BY <1>1, <1>2, <1>3

\* The colour a source pixel is converted to is its own.
LEMMA YuvShown ==
    ASSUME NEW frame, frame.seed \in Nat, NEW d, d.type \in YuvTypes, d.start \in Int,
           d.buffer_width \in Nat, NEW row \in Nat, NEW col \in Nat, NEW skip \in BOOLEAN,
           NEW s, s = YuvPixel(frame, d, row, SourceCol(d.type, skip, col)), NEW rgb,
           \A i \in 1..3 : rgb[i] = Rgb(s.y, s.u, s.v)[i]
    PROVE  IsColour(rgb, s)
<1> DEFINE at == SourceCol(d.type, skip, col)
           base == d.start + row * row_inc(d)
           p == IF d.type = "YUV8" THEN base + 6 * (at \div 4) ELSE base + 4 * (at \div 2)
           o == IF d.type = "YUV8" THEN <<1, 3, 4, 5>>[(at % 4) + 1] ELSE 1 + 2 * (at % 2)
<1>1. at \in Int
  <2>1. col \div 2 \in Int /\ col % 2 \in Int
    OBVIOUS
  <2> QED BY <2>1 DEF SourceCol
<1>2. base \in Int
  <2>1. d.buffer_width * (IF d.type = "YUV8" THEN 12 ELSE 16) \in Int
    OBVIOUS
  <2>2. row_inc(d) \in Int
    BY <2>1 DEF row_inc
  <2>3. row * row_inc(d) \in Int
    BY <2>2
  <2> QED BY <2>3
<1> HIDE DEF base, at
<1>3. p \in Int /\ o \in Int
  <2>1. at \div 4 \in Int /\ at \div 2 \in Int /\ at % 4 \in 0..3 /\ at % 2 \in 0..1
    BY <1>1
  <2>2. \A r \in 0..3 : <<1, 3, 4, 5>>[r + 1] \in Int
    OBVIOUS
  <2> QED BY <2>1, <2>2, <1>2
<1>4. s = [y |-> Byte(frame, p + o), u |-> Chroma(d.type, Byte(frame, p)),
           v |-> Chroma(d.type, Byte(frame, p + 2))]
  BY DEF YuvPixel, base, at
<1>5. s.y = Byte(frame, p + o) /\ s.u = Chroma(d.type, Byte(frame, p))
      /\ s.v = Chroma(d.type, Byte(frame, p + 2))
  BY <1>4
<1> HIDE DEF p, o
<1>6. s.y \in Octet /\ s.u \in -128..127 /\ s.v \in -128..127
  <2>1. p + o \in Int /\ p + 2 \in Int
    BY <1>3
  <2>2. Byte(frame, p + o) \in Octet
    BY <2>1, Bytewise
  <2>3. Chroma(d.type, Byte(frame, p)) \in -128..127
    BY <1>3, Bytewise
  <2>4. Chroma(d.type, Byte(frame, p + 2)) \in -128..127
    BY <2>1, Bytewise
  <2> QED BY <2>2, <2>3, <2>4, <1>5
<1>7. rgb[1] = yuv_to_r(s.y, s.v) /\ rgb[2] = yuv_to_g(s.y, s.u, s.v) /\ rgb[3] = yuv_to_b(s.y, s.u)
  <2>1. rgb[1] = Rgb(s.y, s.u, s.v)[1] /\ rgb[2] = Rgb(s.y, s.u, s.v)[2] /\ rgb[3] = Rgb(s.y, s.u, s.v)[3]
    OBVIOUS
  <2> QED BY <2>1 DEF Rgb
<1>8. Converted(rgb, s)
  BY <1>6, <1>7 DEF Converted
<1> QED BY <1>8, ColourOf

-----------------------------------------------------------------------------
(***************************************************************************)
(* The images made from a frame.                                           *)
(***************************************************************************)
VpPlanes(f, skip) == yuv_live_to_cd_rgb(f, f.vp, skip)
BmPlanes(f, skip) == IF f.bm.type = "YUV8B" THEN yuvb_live_to_cd_rgba(f, f.bm, f.bmo, skip)
                     ELSE palette_to_rgba(f, f.bm, skip)
VpGood == {f \in Frames : vp_error(f) = "" /\ f.vp.start # 0}
BmGood == {f \in Frames : /\ bm_error(f) = "" /\ f.bm.start # 0
                          /\ f.bm.type = "YUV8B" => opacity_error(f) = ""
                          /\ f.bm.type # "YUV8B" => palette_error(f) = ""}

\* The buffer packed from a viewport shows it (liveimg.c:264-401, 912-964).
LEMMA VpPacked ==
    ASSUME NEW f \in Frames, VpShape(f.vp), NEW skip \in BOOLEAN, NEW depth \in {3, 4}, NEW old,
           NEW im, im.w = f.vp.visible_width \div par(skip), im.h = f.vp.visible_height,
           Holds(im, VpPlanes(f, skip))
    PROVE  ShowsFrame(pimg_to_packed(im, depth, old), depth, "viewport", f, skip)
<1> DEFINE d == f.vp
           L == Layout(d.type, skip)
           w == d.visible_width \div par(skip)
           h == d.visible_height
           perRow == (d.visible_width \div L.pixels) * L.out
           data == pimg_to_packed(im, depth, old)
           pixel == [row \in 0..h - 1 |-> [n \in 0..perRow - 1 |->
                       YuvAt(f, d, row, n \div L.out, n % L.out, L)]]
           px(row, col) == PackedPx(data, w, depth, row, col)
<1>1. /\ f.seed \in Nat /\ d.type \in YuvTypes /\ d.type # "PAL8" /\ d.start \in Int
      /\ d.buffer_width \in Nat /\ d.visible_width \in {4, 8} /\ h \in 1..2
  BY FrameShapes DEF VpShape, Sized, YuvTypes
<1>2. w = perRow /\ w \in 1..8
  <2>1. CASE d.type = "YUV8" /\ skip
    BY <2>1, <1>1 DEF Layout, par
  <2>2. CASE d.type = "YUV8" /\ ~skip
    BY <2>2, <1>1 DEF Layout, par
  <2>3. CASE d.type # "YUV8" /\ skip
    BY <2>3, <1>1 DEF Layout, par
  <2>4. CASE d.type # "YUV8" /\ ~skip
    BY <2>4, <1>1 DEF Layout, par
  <2> QED BY <2>1, <2>2, <2>3, <2>4
<1>3. im.w = w /\ im.h = h /\ Holds(im, Emit(perRow, h, pixel))
  BY Zenon DEF VpPlanes, yuv_live_to_cd_rgb
<1>4. DOMAIN data = 0..(w * h * depth - 1)
  BY <1>3, PackedSize
<1> HIDE DEF data, pixel, w, perRow, L, h, d
<1>5. \A row \in 0..(h - 1), col \in 0..(w - 1) :
        IsColour(px(row, col), YuvPixel(f, d, row, SourceCol(d.type, skip, col)))
  <2> SUFFICES ASSUME NEW row \in 0..(h - 1), NEW col \in 0..(w - 1)
               PROVE  IsColour(px(row, col), YuvPixel(f, d, row, SourceCol(d.type, skip, col)))
    OBVIOUS
  <2> DEFINE s == YuvPixel(f, d, row, SourceCol(d.type, skip, col))
             rgb == px(row, col)
  <2>1. row \in Nat /\ col \in Nat /\ w \in Nat /\ h \in Nat /\ depth \in Nat
    BY <1>1, <1>2
  <2>2. pixel[row][col] = YuvAt(f, d, row, col \div L.out, col % L.out, L)
    BY <1>2 DEF pixel
  <2>s. SourceOf(s, L, f, d, row, col, skip)
    BY DEF L, SourceOf
  <2> HIDE DEF s
  <2>3. YuvAt(f, d, row, col \div L.out, col % L.out, L) = Rgb(s.y, s.u, s.v)
    <3> DEFINE group == col \div L.out
               j == col % L.out
    <3>1. d.type \in YuvTypes /\ col \in Nat
      BY <2>1, <1>1
    <3>2. group = col \div L.out /\ j = col % L.out /\ InGroup(col, L, group, j)
      BY DEF InGroup
    <3> HIDE DEF group, j
    <3>3. YuvAt(f, d, row, group, j, L) = Rgb(s.y, s.u, s.v)
      BY <3>1, <3>2, <2>s, YuvSource
    <3> QED BY <3>2, <3>3
  <2>4. DOMAIN pixel[row][col] = 1..3
    BY <2>2, <2>3 DEF Rgb
  <2>5. \A i \in 1..3 : rgb[i] = Rgb(s.y, s.u, s.v)[i]
    <3> SUFFICES ASSUME NEW i \in 1..3 PROVE rgb[i] = Rgb(s.y, s.u, s.v)[i]
      OBVIOUS
    <3>1. i \in 1..depth
      OBVIOUS
    <3> DEFINE at == (row * w + col) * depth + i - 1
    <3>2. rgb[i] = data[at] /\ PlacedAt(at, w, depth, row, col, i)
      BY <3>1 DEF PlacedAt, PackedPx
    <3> HIDE DEF at
    <3>3. data[at] = pixel[row][col][i]
      <4>1. im.w = w /\ im.h = h /\ Holds(im, Emit(w, h, pixel))
        BY <1>2, <1>3
      <4>2. i \in DOMAIN pixel[row][col]
        BY <2>4
      <4>3. pimg_to_packed(im, depth, old)[at] = pixel[row][col][i]
        BY <4>1, <4>2, <3>1, <3>2, <2>1, PackedPixel
      <4> QED BY <4>3 DEF data
    <3> QED BY <3>2, <3>3, <2>2, <2>3, <2>4
  <2> HIDE DEF rgb
  <2>6. IsColour(rgb, s)
    <3>1. s = YuvPixel(f, d, row, SourceCol(d.type, skip, col))
      BY DEF s
    <3>2. f.seed \in Nat /\ d.type \in YuvTypes /\ d.start \in Int /\ d.buffer_width \in Nat
      BY <1>1
    <3> QED BY <2>1, <2>5, <3>1, <3>2, YuvShown
  <2> QED BY <2>6 DEF s, rgb
<1>6. ShowsFrame(data, depth, "viewport", f, skip)
  <2>1. Described("viewport", f) = d
    BY DEF Described, d
  <2>2. d.visible_width \div par(skip) = w /\ d.visible_height = h
    BY DEF w, h
  <2>3. \A row \in 0..(h - 1), col \in 0..(w - 1) :
          PixelShown("viewport", f, d, skip, depth, PackedPx(data, w, depth, row, col), row, col)
    BY <1>1, <1>5 DEF PixelShown
  <2> QED BY <1>4, <2>1, <2>2, <2>3 DEF ShowsFrame
<1> QED BY <1>6 DEF data

\* The transparency of a pixel is that of its source pixel, skipped or not.
LEMMA OpacitySource ==
    ASSUME NEW skip \in BOOLEAN, NEW L, L = Layout("YUV8B", skip), NEW col \in Nat, NEW base \in Int
    PROVE  base + (col \div L.out) * 2 + (col % L.out) = base + SourceCol("YUV8B", skip, col)
<1>1. CASE skip
  <2>1. L.out = 1 /\ SourceCol("YUV8B", skip, col) = 2 * col
    BY <1>1 DEF Layout, SourceCol
  <2>2. col \div 1 = col /\ col % 1 = 0
    OBVIOUS
  <2> QED BY <2>1, <2>2
<1>2. CASE ~skip
  <2>1. L.out = 2 /\ SourceCol("YUV8B", skip, col) = col
    BY <1>2 DEF Layout, SourceCol
  <2>2. (col \div 2) * 2 + (col % 2) = col /\ col \div 2 \in Int /\ col % 2 \in Int
    OBVIOUS
  <2> QED BY <2>1, <2>2
<1> QED BY <1>1, <1>2

\* The buffer packed from a YUV overlay shows it, with the transparency of the
\* opacity buffer if there is one (liveimg.c:264-401, 531-700, 912-964).
LEMMA YuvOverlayPacked ==
    ASSUME NEW f \in Frames, YuvShape(f.bm, f.bmo), NEW skip \in BOOLEAN, NEW depth \in {3, 4}, NEW old,
           NEW im, im.w = f.bm.visible_width \div par(skip), im.h = f.bm.visible_height,
           Holds(im, BmPlanes(f, skip))
    PROVE  ShowsFrame(pimg_to_packed(im, depth, old), depth, "bitmap", f, skip)
<1> DEFINE d == f.bm
           o == f.bmo
           L == Layout("YUV8B", skip)
           w == d.visible_width \div par(skip)
           h == d.visible_height
           perRow == (d.visible_width \div 2) * L.out
           data == pimg_to_packed(im, depth, old)
           group(row, n) == d.start + row * row_inc(d) + (n \div L.out) * 4
           none(p) == [i \in 1..4 |-> Byte(f, p + i - 1)] = <<128, 0, 128, 0>>
           alpha(row, n) ==
             IF o.start # 0
             THEN Byte(f, o.start + row * o.buffer_width + (n \div L.out) * 2 + (n % L.out))
             ELSE IF none(group(row, n)) THEN 0 ELSE 255
           pixel == [row \in 0..h - 1 |-> [n \in 0..perRow - 1 |->
                       Append(YuvAt(f, d, row, n \div L.out, n % L.out, L), alpha(row, n))]]
           px(row, col) == PackedPx(data, w, depth, row, col)
           opacity(row, col) ==
             Byte(f, o.start + row * o.buffer_width + SourceCol(d.type, skip, col))
<1>1. /\ f.seed \in Nat /\ d.type = "YUV8B" /\ d.type \in YuvTypes /\ d.type # "PAL8" /\ d.start \in Nat
      /\ d.buffer_width \in Nat /\ d.visible_width = 4 /\ h = 2
      /\ o.start \in Nat /\ o.buffer_width \in Nat
  BY FrameShapes DEF YuvShape, Sized, YuvTypes
<1>2. w = perRow /\ w \in 1..4
  <2>1. CASE skip
    BY <2>1, <1>1 DEF Layout, par
  <2>2. CASE ~skip
    BY <2>2, <1>1 DEF Layout, par
  <2> QED BY <2>1, <2>2
<1>3. im.w = w /\ im.h = h /\ Holds(im, Emit(perRow, h, pixel))
  BY <1>1, SMTT(30) DEF BmPlanes, yuvb_live_to_cd_rgba
<1>4. DOMAIN data = 0..(w * h * depth - 1)
  BY <1>3, PackedSize
<1>L. L = Layout(d.type, skip) /\ L = Layout("YUV8B", skip)
  BY <1>1
<1>a. ASSUME NEW row \in Nat, NEW col \in Nat, o.start # 0
      PROVE  alpha(row, col) = opacity(row, col)
  <2> DEFINE base == o.start + row * o.buffer_width
  <2>1. base \in Int
    BY <1>1
  <2> HIDE DEF base, L
  <2>2. base + (col \div L.out) * 2 + (col % L.out) = base + SourceCol(d.type, skip, col)
    BY <2>1, <1>L, <1>1, OpacitySource
  <2>3. Byte(f, base + (col \div L.out) * 2 + (col % L.out)) = Byte(f, base + SourceCol(d.type, skip, col))
    BY <2>2
  <2> QED BY <2>3, <1>a DEF base
<1> HIDE DEF data, alpha, opacity, pixel, w, perRow, L, h, d, o
<1>5. \A row \in 0..(h - 1), col \in 0..(w - 1) :
        /\ IsColour(px(row, col), YuvPixel(f, d, row, SourceCol(d.type, skip, col)))
        /\ depth = 4 /\ o.start # 0 => px(row, col)[4] = opacity(row, col)
  <2> SUFFICES ASSUME NEW row \in 0..(h - 1), NEW col \in 0..(w - 1)
               PROVE  /\ IsColour(px(row, col), YuvPixel(f, d, row, SourceCol(d.type, skip, col)))
                      /\ depth = 4 /\ o.start # 0 => px(row, col)[4] = opacity(row, col)
    OBVIOUS
  <2> DEFINE s == YuvPixel(f, d, row, SourceCol(d.type, skip, col))
             rgb == px(row, col)
             y == YuvAt(f, d, row, col \div L.out, col % L.out, L)
             a == alpha(row, col)
             t == pixel[row][col]
  <2>1. row \in Nat /\ col \in Nat /\ w \in Nat /\ h \in Nat /\ depth \in Nat
    BY <1>1, <1>2
  <2>2. t = Append(y, a)
    BY <1>2 DEF pixel
  <2>s. SourceOf(s, L, f, d, row, col, skip)
    BY <1>L DEF SourceOf
  <2> HIDE DEF s
  <2>3. y = Rgb(s.y, s.u, s.v)
    <3> DEFINE group_ == col \div L.out
               j == col % L.out
    <3>1. d.type \in YuvTypes /\ col \in Nat
      BY <2>1, <1>1
    <3>2. group_ = col \div L.out /\ j = col % L.out /\ InGroup(col, L, group_, j)
      BY DEF InGroup
    <3> HIDE DEF group_, j
    <3>3. YuvAt(f, d, row, group_, j, L) = Rgb(s.y, s.u, s.v)
      BY <3>1, <3>2, <2>s, YuvSource
    <3> QED BY <3>2, <3>3
  <2> HIDE DEF y, a, t
  <2>4. DOMAIN t = 1..4 /\ t[4] = a /\ \A i \in 1..3 : t[i] = y[i]
    BY <2>2, <2>3, Samples
  <2>5. \A i \in 1..depth : rgb[i] = t[i]
    <3> SUFFICES ASSUME NEW i \in 1..depth PROVE rgb[i] = t[i]
      OBVIOUS
    <3>1. i \in 1..4
      OBVIOUS
    <3> DEFINE at == (row * w + col) * depth + i - 1
    <3>2. rgb[i] = data[at] /\ PlacedAt(at, w, depth, row, col, i)
      BY DEF PlacedAt, PackedPx
    <3> HIDE DEF at
    <3>3. data[at] = pixel[row][col][i]
      <4>1. im.w = w /\ im.h = h /\ Holds(im, Emit(w, h, pixel))
        BY <1>2, <1>3
      <4>2. i \in DOMAIN pixel[row][col]
        BY <3>1, <2>4 DEF t
      <4>3. pimg_to_packed(im, depth, old)[at] = pixel[row][col][i]
        BY <4>1, <4>2, <3>2, <2>1, PackedPixel
      <4> QED BY <4>3 DEF data
    <3> QED BY <3>1, <3>2, <3>3, <2>4 DEF t
  <2> HIDE DEF rgb
  <2>6. IsColour(rgb, s)
    <3>1. \A i \in 1..3 : rgb[i] = Rgb(s.y, s.u, s.v)[i]
      <4>1. \A i \in 1..3 : i \in 1..depth
        OBVIOUS
      <4> QED BY <4>1, <2>3, <2>4, <2>5
    <3>2. s = YuvPixel(f, d, row, SourceCol(d.type, skip, col))
      BY DEF s
    <3>3. f.seed \in Nat /\ d.type \in YuvTypes /\ d.start \in Nat /\ d.buffer_width \in Nat
      BY <1>1
    <3> HIDE DEF d
    <3> QED BY <2>1, <3>1, <3>2, <3>3, YuvShown
  <2>7. depth = 4 /\ o.start # 0 => rgb[4] = opacity(row, col)
    <3> SUFFICES ASSUME depth = 4, o.start # 0 PROVE rgb[4] = opacity(row, col)
      OBVIOUS
    <3>1. rgb[4] = a
      BY <2>4, <2>5
    <3>2. a = opacity(row, col)
      BY <2>1, <1>a DEF a
    <3> QED BY <3>1, <3>2
  <2> QED BY <2>6, <2>7 DEF s, rgb
<1>6. ShowsFrame(data, depth, "bitmap", f, skip)
  <2>1. Described("bitmap", f) = d
    BY DEF Described, d
  <2>2. d.visible_width \div par(skip) = w /\ d.visible_height = h
    BY DEF w, h
  <2>3. \A row \in 0..(h - 1), col \in 0..(w - 1) :
          PixelShown("bitmap", f, d, skip, depth, PackedPx(data, w, depth, row, col), row, col)
    BY <1>1, <1>5 DEF PixelShown, opacity, o
  <2> QED BY <1>4, <2>1, <2>2, <2>3 DEF ShowsFrame
<1> QED BY <1>6 DEF data

\* The buffer packed from a paletted overlay shows the colours of its palette
\* (liveimg.c:145-262, 702-841, 912-964).
LEMMA PaletteOverlayPacked ==
    ASSUME NEW f \in Frames, PalShape(f.bm), NEW skip \in BOOLEAN, NEW depth \in {3, 4}, NEW old,
           NEW im, im.w = f.bm.visible_width \div par(skip), im.h = f.bm.visible_height,
           Holds(im, BmPlanes(f, skip))
    PROVE  ShowsFrame(pimg_to_packed(im, depth, old), depth, "bitmap", f, skip)
<1> DEFINE d == f.bm
           w == d.visible_width \div par(skip)
           h == d.visible_height
           data == pimg_to_packed(im, depth, old)
           pixel == [row \in 0..h - 1 |-> [n \in 0..w - 1 |->
                       Colour(f, Byte(f, d.start + row * d.buffer_width + n * par(skip)))]]
<1>1. /\ d.type = "PAL8" /\ d.start \in Nat
      /\ d.buffer_width \in Nat /\ d.visible_width \in {4, 6, 8} /\ h \in 1..2
  BY DEF PalShape, Sized
<1>2. w \in 1..8
  <2>1. CASE skip
    BY <2>1, <1>1 DEF par
  <2>2. CASE ~skip
    BY <2>2, <1>1 DEF par
  <2> QED BY <2>1, <2>2
<1>3. im.w = w /\ im.h = h /\ Holds(im, Emit(w, h, pixel))
  BY <1>1 DEF BmPlanes, palette_to_rgba
<1>4. DOMAIN data = 0..(w * h * depth - 1)
  BY <1>3, PackedSize
<1>a. \A col \in Nat : SourceCol(d.type, skip, col) = col * par(skip)
  <2>1. CASE skip
    BY <2>1, <1>1 DEF par, SourceCol
  <2>2. CASE ~skip
    BY <2>2, <1>1 DEF par, SourceCol
  <2> QED BY <2>1, <2>2
<1> HIDE DEF data, pixel, w, h, d
<1>5. \A row \in 0..(h - 1), col \in 0..(w - 1) :
        PixelShown("bitmap", f, d, skip, depth, PackedPx(data, w, depth, row, col), row, col)
  <2> SUFFICES ASSUME NEW row \in 0..(h - 1), NEW col \in 0..(w - 1)
               PROVE  PixelShown("bitmap", f, d, skip, depth, PackedPx(data, w, depth, row, col), row, col)
    OBVIOUS
  <2> DEFINE rgb == PackedPx(data, w, depth, row, col)
             t == pixel[row][col]
  <2>1. row \in Nat /\ col \in Nat /\ w \in Nat /\ h \in Nat /\ depth \in Nat
    BY <1>1, <1>2
  <2>2. t = Colour(f, Byte(f, d.start + row * d.buffer_width + SourceCol(d.type, skip, col)))
    <3>1. t = Colour(f, Byte(f, d.start + row * d.buffer_width + col * par(skip)))
      BY <1>2 DEF pixel
    <3> QED BY <3>1, <2>1, <1>a
  <2>3. DOMAIN t = 1..4
    BY <2>2, PaletteSamples
  <2> HIDE DEF t
  <2>4. \A i \in 1..depth : rgb[i] = t[i]
    <3> SUFFICES ASSUME NEW i \in 1..depth PROVE rgb[i] = t[i]
      OBVIOUS
    <3>1. i \in 1..4
      OBVIOUS
    <3> DEFINE at == (row * w + col) * depth + i - 1
    <3>2. rgb[i] = data[at] /\ PlacedAt(at, w, depth, row, col, i)
      BY DEF PlacedAt, PackedPx
    <3> HIDE DEF at
    <3>3. data[at] = pixel[row][col][i]
      <4>1. i \in DOMAIN pixel[row][col]
        BY <3>1, <2>3 DEF t
      <4>2. pimg_to_packed(im, depth, old)[at] = pixel[row][col][i]
        BY <4>1, <1>3, <3>2, <2>1, PackedPixel
      <4> QED BY <4>2 DEF data
    <3> QED BY <3>1, <3>2, <3>3, <2>3 DEF t
  <2> HIDE DEF rgb
  <2>5. PixelShown("bitmap", f, d, skip, depth, rgb, row, col)
    BY <1>1, <2>2, <2>4 DEF PixelShown
  <2> QED BY <2>5 DEF rgb
<1>6. ShowsFrame(data, depth, "bitmap", f, skip)
  <2>1. Described("bitmap", f) = d
    BY DEF Described, d
  <2>2. d.visible_width \div par(skip) = w /\ d.visible_height = h
    BY DEF w, h
  <2> QED BY <1>4, <1>5, <2>1, <2>2 DEF ShowsFrame
<1> QED BY <1>6 DEF data

-----------------------------------------------------------------------------
(***************************************************************************)
(* The images a script has.                                                *)
(***************************************************************************)
\* The images that can be made from a viewport have its sides, and the bytes
\* they are made from were received (liveimg.c:703-841).
LEMMA VpSound ==
    ASSUME NEW f \in VpGood, NEW skip \in BOOLEAN
    PROVE  VpShape(f.vp) /\ Inside("viewport", f)
<1> DEFINE d == f.vp
           bpp == [YUV8 |-> 12, YUV8B |-> 16, YUV8C |-> 16]
<1>1. f \in Frames /\ vp_error(f) = "" /\ d.start # 0
  BY DEF VpGood
<1>2. ~(d.at <= 0)
  BY <1>1 DEF vp_error, desc_error
<1>3. VpShape(d) /\ f.len \in Nat
  <2>1. f.len \in Nat /\ (f.vp.at <= 0 \/ VpShape(f.vp))
    BY <1>1, FrameShapes, Zenon
  <2> QED BY <1>2, <2>1
<1>4. bpp[d.type] = IF d.type = "YUV8" THEN 12 ELSE 16
  BY <1>3 DEF VpShape
<1>5. ~(d.start + (d.buffer_width * d.visible_height * bpp[d.type]) \div 8 > f.len)
  BY <1>1 DEF vp_error, desc_error
<1> HIDE DEF bpp
<1>6. d.start + (d.buffer_width * d.visible_height * (IF d.type = "YUV8" THEN 12 ELSE 16)) \div 8 \in Int
  BY <1>3 DEF VpShape, Sized
<1>7. FbEnd(d, IF d.type = "YUV8" THEN 12 ELSE 16) <= f.len
  BY <1>3, <1>4, <1>5, <1>6 DEF FbEnd
<1> QED BY <1>3, <1>7 DEF Inside

\* The same of an overlay, with its opacity buffer or its palette
\* (liveimg.c:264-401, 531-700).
LEMMA BmSound ==
    ASSUME NEW f \in BmGood
    PROVE  (PalShape(f.bm) \/ YuvShape(f.bm, f.bmo)) /\ Inside("bitmap", f)
<1> DEFINE d == f.bm
           o == f.bmo
           bpp == [PAL8 |-> 8, YUV8B |-> 16]
<1>1. f \in Frames /\ bm_error(f) = "" /\ d.start # 0
      /\ (d.type = "YUV8B" => opacity_error(f) = "") /\ (d.type # "YUV8B" => palette_error(f) = "")
  BY DEF BmGood
<1>2. ~(d.at <= 0)
  BY <1>1 DEF bm_error, desc_error
<1>3. (PalShape(d) \/ (YuvShape(d, o) /\ f.len = 400)) /\ f.len \in Nat /\ f.palette_start \in Int
  <2>1. /\ f.len \in Nat /\ f.palette_start \in Int
        /\ f.bm.at <= 0 \/ PalShape(f.bm) \/ (YuvShape(f.bm, f.bmo) /\ f.len = 400)
    BY <1>1, FrameShapes, Zenon
  <2> QED BY <1>2, <2>1
<1>4. ~(d.start + (d.buffer_width * d.visible_height * bpp[d.type]) \div 8 > f.len)
  BY <1>1 DEF bm_error, desc_error
<1>5. CASE PalShape(d)
  <2>1. d.type = "PAL8" /\ d.type # "YUV8B" /\ bpp[d.type] = 8
    BY <1>5 DEF PalShape
  <2> HIDE DEF bpp
  <2>2. d.start + (d.buffer_width * d.visible_height * 8) \div 8 \in Int
    BY <1>5 DEF PalShape, Sized
  <2>3. FbEnd(d, 8) <= f.len
    BY <1>3, <1>4, <2>1, <2>2 DEF FbEnd
  <2>4. ASSUME f.palette_type \in 1..5
        PROVE  f.palette_start + 4 * num_entries[f.palette_type] <= f.len
    <3> DEFINE size == num_entries[f.palette_type]
    <3>1. size \in Nat /\ f.palette_type \in DOMAIN num_entries
      BY <2>4 DEF num_entries
    <3>2. get_palette_size(f.palette_type) + f.palette_start \in 0..f.len
      BY <1>1, <2>1 DEF palette_error
    <3>3. get_palette_size(f.palette_type) = size * 4
      BY <3>1 DEF get_palette_size
    <3> HIDE DEF size
    <3>4. f.palette_start + 4 * size <= f.len
      BY <3>1, <3>2, <3>3, <1>3
    <3> QED BY <3>4 DEF size
  <2> QED BY <1>5, <2>1, <2>3, <2>4 DEF Inside
<1>6. CASE YuvShape(d, o) /\ f.len = 400
  <2>1. d.type = "YUV8B" /\ bpp[d.type] = 16
    BY <1>6 DEF YuvShape
  <2> HIDE DEF bpp
  <2>2. d.start + (d.buffer_width * d.visible_height * 16) \div 8 \in Int
    BY <1>6 DEF YuvShape, Sized
  <2>3. FbEnd(d, 16) <= f.len
    BY <1>3, <1>4, <2>1, <2>2 DEF FbEnd
  <2>4. bmo_error(f) = ""
    BY <1>1, <2>1 DEF opacity_error
  <2>5. o.start # 0 => ~(o.start + (o.buffer_width * o.visible_height * 8) \div 8 > f.len)
    BY <2>4 DEF bmo_error, desc_error
  <2>6. o.start + (o.buffer_width * o.visible_height * 8) \div 8 \in Int
        /\ (o.start = 0 => o.start + (o.buffer_width * o.visible_height * 8) \div 8 <= 400)
    BY <1>6 DEF YuvShape, Sized
  <2>7. FbEnd(o, 8) <= f.len
    BY <1>3, <1>6, <2>5, <2>6 DEF FbEnd
  <2> QED BY <1>6, <2>1, <2>3, <2>7 DEF Inside
<1> QED BY <1>3, <1>5, <1>6

VpW(f, skip) == f.vp.visible_width \div par(skip)
BmW(f, skip) == f.bm.visible_width \div par(skip)

\* Every pixel of an image made of rows is one of a row.
LEMMA EmittedImage ==
    ASSUME NEW w \in Nat \ {0}, NEW h \in Nat \ {0}, NEW pixel
    PROVE  /\ DOMAIN Emit(w, h, pixel) = 0..(w * h - 1)
           /\ \A n \in 0..(w * h - 1) : \E row \in 0..(h - 1), col \in 0..(w - 1) :
                Emit(w, h, pixel)[n] = pixel[row][col]
<1> DEFINE e == w * h
<1>1. e \in Nat /\ DOMAIN Emit(w, h, pixel) = 0..(e - 1)
  BY DEF Emit
<1>2. ASSUME NEW n \in 0..(e - 1)
      PROVE  \E row \in 0..(h - 1), col \in 0..(w - 1) : Emit(w, h, pixel)[n] = pixel[row][col]
  <2> DEFINE q == n \div w
             r == n % w
  <2>1. Emit(w, h, pixel)[n] = pixel[h - 1 - q][r]
    BY DEF Emit
  <2>2. n \in Int /\ n >= 0 /\ n < e
    BY <1>1
  <2>3. q \in Int /\ r \in 0..(w - 1) /\ r = n - w * q
    <3> HIDE DEF e
    <3> QED BY <2>2, DivMod
  <2> HIDE DEF q, r
  <2>4. q < h
    <3> SUFFICES ASSUME h <= q PROVE FALSE
      BY <2>3
    <3>1. h * w <= q * w /\ h * w \in Int /\ q * w \in Int
      BY <2>3, Monotone
    <3>2. h * w = e /\ q * w = w * q
      BY <2>3
    <3> DEFINE s == w * q
    <3>3. e <= s /\ s \in Int /\ r = n - s
      BY <2>3, <3>1, <3>2
    <3> HIDE DEF e, s
    <3> QED BY <1>1, <2>2, <2>3, <3>3
  <2>5. q >= 0
    <3> SUFFICES ASSUME q + 1 <= 0 PROVE FALSE
      BY <2>3
    <3>1. (q + 1) * w <= 0 * w
      BY <2>3, Monotone
    <3>2. (q + 1) * w = w * q + w /\ 0 * w = 0
      BY <2>3
    <3> DEFINE s == w * q
    <3>3. s + w <= 0 /\ s \in Int /\ r = n - s
      BY <2>3, <3>1, <3>2
    <3> HIDE DEF e, s
    <3> QED BY <2>2, <2>3, <3>3
  <2>6. h - 1 - q \in 0..(h - 1)
    BY <2>3, <2>4, <2>5
  <2> QED BY <2>1, <2>3, <2>6
<1> QED BY <1>1, <1>2

\* The planes made from a viewport have its pixels, of three channels each.
LEMMA VpPlanesOK ==
    ASSUME NEW f \in VpGood, NEW skip \in BOOLEAN
    PROVE  /\ VpW(f, skip) \in Nat \ {0} /\ f.vp.visible_height \in Nat \ {0}
           /\ DOMAIN VpPlanes(f, skip) = 0..(VpW(f, skip) * f.vp.visible_height - 1)
           /\ \A n \in DOMAIN VpPlanes(f, skip) : \E r, g, b : VpPlanes(f, skip)[n] = <<r, g, b>>
<1> DEFINE d == f.vp
           L == Layout(d.type, skip)
           w == d.visible_width \div par(skip)
           h == d.visible_height
           perRow == (d.visible_width \div L.pixels) * L.out
           pixel == [row \in 0..h - 1 |-> [n \in 0..perRow - 1 |->
                       YuvAt(f, d, row, n \div L.out, n % L.out, L)]]
<1>2. d.type \in YuvTypes /\ d.visible_width \in {4, 8} /\ h \in 1..2
  BY VpSound DEF VpShape, Sized, YuvTypes
<1>3. w = perRow /\ w \in 1..8
  <2>1. CASE d.type = "YUV8" /\ skip
    BY <2>1, <1>2 DEF Layout, par
  <2>2. CASE d.type = "YUV8" /\ ~skip
    BY <2>2, <1>2 DEF Layout, par
  <2>3. CASE d.type # "YUV8" /\ skip
    BY <2>3, <1>2 DEF Layout, par
  <2>4. CASE d.type # "YUV8" /\ ~skip
    BY <2>4, <1>2 DEF Layout, par
  <2> QED BY <2>1, <2>2, <2>3, <2>4
<1>4. VpPlanes(f, skip) = Emit(perRow, h, pixel)
  BY Zenon DEF VpPlanes, yuv_live_to_cd_rgb
<1>5. \A row \in 0..(h - 1), n \in 0..(w - 1) : \E r, g, b : pixel[row][n] = <<r, g, b>>
  <2> SUFFICES ASSUME NEW row \in 0..(h - 1), NEW n \in 0..(w - 1)
               PROVE  \E r, g, b : pixel[row][n] = <<r, g, b>>
    OBVIOUS
  <2>1. pixel[row][n] = YuvAt(f, d, row, n \div L.out, n % L.out, L)
    <3> HIDE DEF L, h, w, perRow, d
    <3> QED BY <1>3
  <2>2. \E r, g, b : YuvAt(f, d, row, n \div L.out, n % L.out, L) = <<r, g, b>>
    BY Zenon DEF YuvAt, Rgb
  <2> HIDE DEF pixel, L
  <2> QED BY <2>1, <2>2
<1>7. VpW(f, skip) = w /\ f.vp.visible_height = h
  BY DEF VpW
<1> HIDE DEF pixel, w, h, perRow, d, L
<1>6. w \in Nat \ {0} /\ h \in Nat \ {0} /\ VpPlanes(f, skip) = Emit(w, h, pixel)
  BY <1>2, <1>3, <1>4
<1>8. /\ DOMAIN VpPlanes(f, skip) = 0..(w * h - 1)
      /\ \A n \in 0..(w * h - 1) : \E row \in 0..(h - 1), col \in 0..(w - 1) :
           VpPlanes(f, skip)[n] = pixel[row][col]
  <2>1. /\ DOMAIN Emit(w, h, pixel) = 0..(w * h - 1)
        /\ \A n \in 0..(w * h - 1) : \E row \in 0..(h - 1), col \in 0..(w - 1) :
             Emit(w, h, pixel)[n] = pixel[row][col]
    <3>1. w \in Nat \ {0} /\ h \in Nat \ {0}
      BY <1>6
    <3> QED BY <3>1, EmittedImage
  <2> QED BY <2>1, <1>6, Zenon
<1> QED BY <1>5, <1>6, <1>7, <1>8

\* A colour of a palette has four channels.
LEMMA ColourSamples ==
    ASSUME NEW frame, NEW pixel
    PROVE  Len(Colour(frame, pixel)) = 4
<1>1. \A a, c : Len(Rgba(a, c)) = 4
  <2> SUFFICES ASSUME NEW a, NEW c PROVE Len(Append(Rgb(c.y, c.u, c.v), a)) = 4
    BY DEF Rgba
  <2> DEFINE s == Rgb(c.y, c.u, c.v)
  <2>1. \E r, g, b : s = <<r, g, b>>
    BY Zenon DEF Rgb
  <2> HIDE DEF s
  <2>2. Len(Append(s, a)) = 4
    BY <2>1
  <2> QED BY <2>2 DEF s
<1>2. Len(Clear) = 4
  BY DEF Clear
<1>3. \A palette : \A type \in 1..5 : Len(to_rgba(type, palette, pixel)) = 4
  <2> SUFFICES ASSUME NEW palette, NEW type \in 1..5
               PROVE  Len(to_rgba(type, palette, pixel)) = 4
    OBVIOUS
  <2>1. CASE type = 1
    BY <2>1, <1>1 DEF to_rgba
  <2>2. CASE type = 2
    BY <2>2, <1>1 DEF to_rgba
  <2>3. CASE type = 3
    BY <2>3, <1>1, <1>2 DEF to_rgba
  <2>4. CASE type = 4
    BY <2>4, <1>1, <1>2 DEF to_rgba
  <2>5. CASE type = 5
    BY <2>5, <1>1, <1>2 DEF to_rgba
  <2> QED BY <2>1, <2>2, <2>3, <2>4, <2>5
<1>4. DOMAIN num_entries = 1..5
  BY DEF num_entries
<1>5. CASE frame.palette_type \in DOMAIN num_entries /\ frame.palette_start # 0
  BY <1>5, <1>3, <1>4 DEF Colour
<1>6. CASE ~(frame.palette_type \in DOMAIN num_entries /\ frame.palette_start # 0)
  BY <1>6, <1>3 DEF Colour
<1> QED BY <1>5, <1>6

\* Those made from an overlay have its pixels, of four channels each.
PlanesOK(f, skip) ==
    /\ BmW(f, skip) \in Nat \ {0} /\ f.bm.visible_height \in Nat \ {0}
    /\ DOMAIN BmPlanes(f, skip) = 0..(BmW(f, skip) * f.bm.visible_height - 1)
    /\ \A n \in DOMAIN BmPlanes(f, skip) : Len(BmPlanes(f, skip)[n]) = 4
LEMMA BmPlanesOK ==
    ASSUME NEW frame \in BmGood, NEW skipped \in BOOLEAN
    PROVE  PlanesOK(frame, skipped)
<1>2. ASSUME NEW f \in BmGood, NEW skip \in BOOLEAN, YuvShape(f.bm, f.bmo)
      PROVE  PlanesOK(f, skip)
  <2> DEFINE d == f.bm
             o == f.bmo
             L == Layout("YUV8B", skip)
             w == d.visible_width \div par(skip)
             h == d.visible_height
             perRow == (d.visible_width \div 2) * L.out
             group(row, n) == d.start + row * row_inc(d) + (n \div L.out) * 4
             none(p) == [i \in 1..4 |-> Byte(f, p + i - 1)] = <<128, 0, 128, 0>>
             alpha(row, n) ==
               IF o.start # 0
               THEN Byte(f, o.start + row * o.buffer_width + (n \div L.out) * 2 + (n % L.out))
               ELSE IF none(group(row, n)) THEN 0 ELSE 255
             pixel == [row \in 0..h - 1 |-> [n \in 0..perRow - 1 |->
                         Append(YuvAt(f, d, row, n \div L.out, n % L.out, L), alpha(row, n))]]
  <2>1. d.type = "YUV8B" /\ d.visible_width = 4 /\ h = 2
    BY <1>2 DEF YuvShape, Sized
  <2>2. w = perRow /\ w \in 1..4
    <3>1. CASE skip
      BY <3>1, <2>1 DEF Layout, par
    <3>2. CASE ~skip
      BY <3>2, <2>1 DEF Layout, par
    <3> QED BY <3>1, <3>2
  <2>3. BmPlanes(f, skip) = Emit(perRow, h, pixel)
    BY <1>2, <2>1, SMTT(30) DEF BmPlanes, yuvb_live_to_cd_rgba
  <2>4. \A row \in 0..(h - 1), n \in 0..(w - 1) : Len(pixel[row][n]) = 4
    <3> SUFFICES ASSUME NEW row \in 0..(h - 1), NEW n \in 0..(w - 1) PROVE Len(pixel[row][n]) = 4
      OBVIOUS
    <3> DEFINE y == YuvAt(f, d, row, n \div L.out, n % L.out, L)
               a == alpha(row, n)
    <3>1. pixel[row][n] = Append(y, a)
      <4> HIDE DEF alpha, L, h, w, perRow, d
      <4> QED BY <2>2
    <3>2. Len(Append(y, a)) = 4
      <4>1. \E r, g, b : y = <<r, g, b>>
        BY Zenon DEF YuvAt, Rgb
      <4> HIDE DEF y, a
      <4> QED BY <4>1
    <3> HIDE DEF pixel, y, a
    <3> QED BY <3>1, <3>2
  <2> HIDE DEF pixel, w, h, perRow, d
  <2>5. w \in Nat \ {0} /\ h \in Nat \ {0} /\ BmPlanes(f, skip) = Emit(w, h, pixel)
    BY <2>1, <2>2, <2>3
  <2>7. BmW(f, skip) = w /\ f.bm.visible_height = h
    BY DEF BmW, w, h, d
  <2>8. /\ DOMAIN BmPlanes(f, skip) = 0..(w * h - 1)
        /\ \A n \in 0..(w * h - 1) : \E row \in 0..(h - 1), col \in 0..(w - 1) :
             BmPlanes(f, skip)[n] = pixel[row][col]
    BY <2>3, <2>5, EmittedImage
  <2> QED BY <2>4, <2>5, <2>7, <2>8 DEF PlanesOK
<1>3. ASSUME NEW f \in BmGood, NEW skip \in BOOLEAN, PalShape(f.bm)
      PROVE  PlanesOK(f, skip)
  <2> DEFINE d == f.bm
             w == d.visible_width \div par(skip)
             h == d.visible_height
             pixel == [row \in 0..h - 1 |-> [n \in 0..w - 1 |->
                         Colour(f, Byte(f, d.start + row * d.buffer_width + n * par(skip)))]]
  <2>1. d.type = "PAL8" /\ d.visible_width \in {4, 6, 8} /\ h \in 1..2
    BY <1>3 DEF PalShape, Sized
  <2>2. w \in 1..8
    <3>1. CASE skip
      BY <3>1, <2>1 DEF par
    <3>2. CASE ~skip
      BY <3>2, <2>1 DEF par
    <3> QED BY <3>1, <3>2
  <2>3. BmPlanes(f, skip) = Emit(w, h, pixel)
    BY <1>3, <2>1 DEF BmPlanes, palette_to_rgba
  <2>4. \A row \in 0..(h - 1), n \in 0..(w - 1) : Len(pixel[row][n]) = 4
    <3> SUFFICES ASSUME NEW row \in 0..(h - 1), NEW n \in 0..(w - 1) PROVE Len(pixel[row][n]) = 4
      OBVIOUS
    <3> DEFINE c == Colour(f, Byte(f, d.start + row * d.buffer_width + n * par(skip)))
    <3>1. pixel[row][n] = c
      OBVIOUS
    <3>2. Len(c) = 4
      BY ColourSamples
    <3> QED BY <3>1, <3>2
  <2> HIDE DEF pixel, w, h, d
  <2>5. w \in Nat \ {0} /\ h \in Nat \ {0}
    BY <2>1, <2>2
  <2>7. BmW(f, skip) = w /\ f.bm.visible_height = h
    BY DEF BmW, w, h, d
  <2>8. /\ DOMAIN BmPlanes(f, skip) = 0..(w * h - 1)
        /\ \A n \in 0..(w * h - 1) : \E row \in 0..(h - 1), col \in 0..(w - 1) :
             BmPlanes(f, skip)[n] = pixel[row][col]
    BY <2>3, <2>5, EmittedImage
  <2> QED BY <2>4, <2>5, <2>7, <2>8 DEF PlanesOK
<1> QED BY <1>2, <1>3, BmSound

\* The image of a script shows a viewport or an overlay.  One of an overlay may
\* have other sides than the overlay (liveimg.c:788-796).
OfVp(im, f, skip) ==
    /\ im.of = <<"viewport", f, skip>> /\ im.w = VpW(f, skip) /\ im.h = f.vp.visible_height
    /\ Holds(im, VpPlanes(f, skip))
OfBm(im, f, skip) == im.of = <<"bitmap", f, skip>> /\ Holds(im, BmPlanes(f, skip))
IsImage(im) == /\ im = [w |-> im.w, h |-> im.h, alpha |-> im.alpha, px |-> im.px, of |-> im.of]
               /\ im.alpha \in BOOLEAN /\ im.w \in Nat /\ im.h \in Nat
Filled(im) == /\ DOMAIN im.px = 0..(im.w * im.h - 1)
              /\ \A n \in DOMAIN im.px : Len(im.px[n]) = IF im.alpha THEN 4 ELSE 3
ImgInv(im) ==
    \/ im = NoImg \/ im = Killed
    \/ /\ IsImage(im) /\ Filled(im)
       /\ \/ \E f \in VpGood, skip \in BOOLEAN : OfVp(im, f, skip)
          \/ \E f \in BmGood, skip \in BOOLEAN : OfBm(im, f, skip)

\* Whatever was handed in for reuse, a script's image is of one of its frames,
\* and the buffer it packed last shows one if it has its sides.
LiveInv == /\ live = [frame |-> live.frame, img |-> live.img, lb |-> live.lb]
           /\ live.frame \in Frames /\ ImgInv(live.img) /\ PackedIsFrame

\* The images that the loops write into.
VpInto(im, w, h) == Reuse(im, w, h, FALSE, TRUE)
BmInto(im, w, h) == Reuse(im, w, h, TRUE, FALSE)

\* A record of an image is one.
LEMMA ImageOf ==
    ASSUME NEW w \in Nat, NEW h \in Nat, NEW alpha \in BOOLEAN, NEW px, NEW of, NEW im,
           im = [w |-> w, h |-> h, alpha |-> alpha, px |-> px, of |-> of]
    PROVE  IsImage(im) /\ im.w = w /\ im.h = h
BY DEF IsImage

\* The image that the loops write into has room for their pixels.
LEMMA VpReuse ==
    ASSUME NEW im, ImgInv(im), im # Killed, NEW w \in Nat, NEW h \in Nat,
           NEW into, into = VpInto(im, w, h)
    PROVE  IsImage(into) /\ into.w = w /\ into.h = h
<1>1. CASE im # NoImg /\ im.w * im.h = w * h
  <2>1. IsImage(im)
    BY <1>1 DEF ImgInv
  <2>2. into = [im EXCEPT !.w = w, !.h = h]
    BY <1>1 DEF Reuse, VpInto
  <2>3. into = [w |-> w, h |-> h, alpha |-> im.alpha, px |-> im.px, of |-> im.of]
    BY <2>1, <2>2 DEF IsImage
  <2>4. im.alpha \in BOOLEAN
    BY <2>1 DEF IsImage
  <2> QED BY <2>3, <2>4, ImageOf
<1>2. CASE ~(im # NoImg /\ im.w * im.h = w * h)
  <2>0. PICK a \in BOOLEAN : a = FALSE
    OBVIOUS
  <2>1. into = [NoImg EXCEPT !.w = w, !.h = h, !.alpha = FALSE]
    BY <1>2 DEF Reuse, VpInto
  <2>2. into = [w |-> w, h |-> h, alpha |-> a, px |-> <<>>, of |-> <<>>]
    BY <2>0, <2>1 DEF NoImg
  <2> QED BY <2>2 DEF IsImage
<1> QED BY <1>1, <1>2

SameArea(im, w, h) == im.w * im.h = w * h

\* The same for an overlay, whose image keeps the sides it has.
LEMMA BmReuse ==
    ASSUME NEW im, ImgInv(im), im # Killed, NEW w \in Nat, NEW h \in Nat,
           NEW into, into = BmInto(im, w, h)
    PROVE  IsImage(into) /\ SameArea(into, w, h)
<1>1. CASE im # NoImg /\ im.w * im.h = w * h
  <2>1. into = im
    BY <1>1 DEF Reuse, BmInto
  <2> QED BY <1>1, <2>1 DEF ImgInv, SameArea
<1>2. CASE ~(im # NoImg /\ im.w * im.h = w * h)
  <2>0. PICK a \in BOOLEAN : a = TRUE
    OBVIOUS
  <2>1. into = [NoImg EXCEPT !.w = w, !.h = h, !.alpha = TRUE]
    BY <1>2 DEF Reuse, BmInto
  <2>2. into = [w |-> w, h |-> h, alpha |-> a, px |-> <<>>, of |-> <<>>]
    BY <2>0, <2>1 DEF NoImg
  <2>3. IsImage(into) /\ into.w = w /\ into.h = h
    BY <2>2 DEF IsImage
  <2> QED BY <2>3 DEF SameArea
<1> QED BY <1>1, <1>2

\* What the loops wrote into it.
Written4(into, px) ==
    [n \in DOMAIN px |-> IF into.alpha /\ Len(px[n]) = 3 THEN Append(px[n], into.px[n][4]) ELSE px[n]]
LEMMA PaintedIs ==
    ASSUME NEW into, IsImage(into), NEW px, NEW of, NEW im, im = Painted(into, px, of)
    PROVE  /\ IsImage(im) /\ im.w = into.w /\ im.h = into.h /\ im.alpha = into.alpha
           /\ im.of = of /\ im.px = Written4(into, px)
<1> DEFINE q == Written4(into, px)
<1>1. im = [into EXCEPT !.px = q, !.of = of]
  BY Zenon DEF Painted, Written4
<1> HIDE DEF q
<1>2. im = [w |-> into.w, h |-> into.h, alpha |-> into.alpha, px |-> q, of |-> of]
  BY <1>1 DEF IsImage
<1> QED BY <1>2 DEF IsImage, q

\* A frame's viewport becomes its image, whatever image was handed in.
LEMMA VpMade ==
    ASSUME NEW im, ImgInv(im), im # Killed, NEW f \in Frames, NEW skip \in BOOLEAN
    PROVE  ImgInv(get_viewport_pimg(im, f, skip))
<1> DEFINE d == f.vp
           w == d.visible_width \div par(skip)
           h == d.visible_height
           px == yuv_live_to_cd_rgb(f, d, skip)
           into == Reuse(im, w, h, FALSE, TRUE)
           new == Painted(into, px, <<"viewport", f, skip>>)
<1>0. get_viewport_pimg(im, f, skip)
        = IF vp_error(f) # "" THEN im ELSE IF d.start = 0 \/ w * h = 0 THEN NoImg ELSE new
  BY DEF get_viewport_pimg
<1>1. CASE vp_error(f) # "" \/ d.start = 0 \/ w * h = 0
  BY <1>0, <1>1 DEF ImgInv
<1>2. CASE vp_error(f) = "" /\ ~(d.start = 0 \/ w * h = 0)
  <2>1. get_viewport_pimg(im, f, skip) = new /\ f \in VpGood
    BY <1>0, <1>2 DEF VpGood
  <2>2. VpW(f, skip) = w /\ VpPlanes(f, skip) = px /\ f.vp.visible_height = h
    BY DEF VpW, VpPlanes
  <2> HIDE DEF w, h, px
  <2>3. /\ w \in Nat \ {0} /\ h \in Nat \ {0} /\ DOMAIN px = 0..(w * h - 1)
        /\ \A n \in DOMAIN px : \E r, g, b : px[n] = <<r, g, b>>
    BY <2>1, <2>2, VpPlanesOK
  <2>i. into = VpInto(im, w, h) /\ w \in Nat /\ h \in Nat
    BY <2>3 DEF VpInto
  <2> HIDE DEF into
  <2>4. IsImage(into) /\ into.w = w /\ into.h = h
    BY <2>i, VpReuse
  <2>5. /\ IsImage(new) /\ new.w = w /\ new.h = h /\ new.alpha = into.alpha
        /\ new.of = <<"viewport", f, skip>> /\ new.px = Written4(into, px)
    BY <2>4, PaintedIs
  <2> HIDE DEF new
  <2>6. ASSUME NEW n \in DOMAIN px
        PROVE  /\ Len(new.px[n]) = IF new.alpha THEN 4 ELSE 3
               /\ \A i \in DOMAIN px[n] : i \in DOMAIN new.px[n] /\ new.px[n][i] = px[n][i]
    <3>1. PICK r, g, b : px[n] = <<r, g, b>>
      BY <2>3
    <3>2. new.px[n] = IF into.alpha /\ Len(px[n]) = 3 THEN Append(px[n], into.px[n][4]) ELSE px[n]
      BY <2>5 DEF Written4
    <3>3. CASE into.alpha
      <4>1. new.px[n] = Append(<<r, g, b>>, into.px[n][4])
        BY <3>1, <3>2, <3>3
      <4> QED BY <4>1, <3>1, <3>3, <2>5
    <3>4. CASE ~into.alpha
      BY <3>1, <3>2, <3>4, <2>5
    <3> QED BY <3>3, <3>4, <2>4 DEF IsImage
  <2>7. DOMAIN new.px = DOMAIN px
    BY <2>5 DEF Written4
  <2>8. Filled(new)
    BY <2>3, <2>5, <2>6, <2>7 DEF Filled
  <2>9. Holds(new, px)
    BY <2>6, <2>7 DEF Holds
  <2>10. OfVp(new, f, skip)
    BY <2>2, <2>5, <2>9 DEF OfVp
  <2> QED BY <2>1, <2>5, <2>8, <2>10 DEF ImgInv
<1> QED BY <1>1, <1>2

\* A frame's overlay becomes its image, unless the image handed in has no plane
\* for the transparency.
LEMMA BmMade ==
    ASSUME NEW im, ImgInv(im), im # Killed, NEW f \in Frames, NEW skip \in BOOLEAN
    PROVE  ImgInv(get_bitmap_pimg(im, f, skip))
<1> DEFINE d == f.bm
           w == d.visible_width \div par(skip)
           h == d.visible_height
           wrong == IF d.type = "YUV8B" THEN opacity_error(f) ELSE palette_error(f)
           px == IF d.type = "YUV8B" THEN yuvb_live_to_cd_rgba(f, d, f.bmo, skip)
                 ELSE palette_to_rgba(f, d, skip)
           into == Reuse(im, w, h, TRUE, FALSE)
           new == Painted(into, px, <<"bitmap", f, skip>>)
<1>0. get_bitmap_pimg(im, f, skip)
        = IF bm_error(f) # "" THEN im
          ELSE IF d.start = 0 \/ w * h = 0 THEN NoImg
          ELSE IF wrong # "" THEN im
          ELSE IF ~into.alpha THEN Killed
          ELSE new
  BY DEF get_bitmap_pimg
<1>1. CASE bm_error(f) # "" \/ d.start = 0 \/ w * h = 0 \/ wrong # "" \/ ~into.alpha
  BY <1>0, <1>1 DEF ImgInv
<1>2. CASE bm_error(f) = "" /\ ~(d.start = 0 \/ w * h = 0) /\ wrong = "" /\ into.alpha
  <2>1. get_bitmap_pimg(im, f, skip) = new /\ f \in BmGood
    BY <1>0, <1>2 DEF BmGood
  <2>2. BmW(f, skip) = w /\ BmPlanes(f, skip) = px /\ f.bm.visible_height = h
    BY DEF BmW, BmPlanes
  <2>a. into.alpha
    BY <1>2
  <2> HIDE DEF w, h, px
  <2>3. /\ w \in Nat \ {0} /\ h \in Nat \ {0} /\ DOMAIN px = 0..(w * h - 1)
        /\ \A n \in DOMAIN px : Len(px[n]) = 4
    BY <2>1, <2>2, BmPlanesOK DEF PlanesOK
  <2>i. into = BmInto(im, w, h) /\ w \in Nat /\ h \in Nat
    BY <2>3 DEF BmInto
  <2> HIDE DEF into
  <2>4. IsImage(into) /\ into.w * into.h = w * h
    <3>1. IsImage(into) /\ SameArea(into, w, h)
      BY <2>i, BmReuse
    <3> QED BY <3>1 DEF SameArea
  <2>5. /\ IsImage(new) /\ new.w = into.w /\ new.h = into.h /\ new.alpha
        /\ new.of = <<"bitmap", f, skip>> /\ new.px = Written4(into, px)
    BY <2>4, <2>a, PaintedIs
  <2> HIDE DEF new
  <2>6. ASSUME NEW n \in DOMAIN px PROVE new.px[n] = px[n]
    <3>1. new.px[n] = IF into.alpha /\ Len(px[n]) = 3 THEN Append(px[n], into.px[n][4]) ELSE px[n]
      BY <2>5 DEF Written4
    <3>2. Len(px[n]) = 4
      BY <2>3, Zenon
    <3> QED BY <3>1, <3>2
  <2>7. DOMAIN new.px = DOMAIN px
    BY <2>5 DEF Written4
  <2>8. Filled(new)
    BY <2>3, <2>4, <2>5, <2>6, <2>7 DEF Filled
  <2>9. Holds(new, px)
    BY <2>6, <2>7 DEF Holds
  <2>10. OfBm(new, f, skip)
    BY <2>2, <2>5, <2>9 DEF OfBm
  <2> QED BY <2>1, <2>5, <2>8, <2>10 DEF ImgInv
<1> QED BY <1>1, <1>2

\* An image with the sides of its frame is packed into a buffer that shows it.
LEMMA PackSound ==
    ASSUME NEW im, ImgInv(im), Shows(im), HasSides(im), NEW depth \in {3, 4}, NEW old
    PROVE  ShowsFrame(pimg_to_packed(im, depth, old), depth, im.of[1], im.of[2], im.of[3])
<1>1. CASE \E f \in VpGood, skip \in BOOLEAN : OfVp(im, f, skip)
  <2>1. PICK f \in VpGood, skip \in BOOLEAN : OfVp(im, f, skip)
    BY <1>1
  <2>2. im.of[1] = "viewport" /\ im.of[2] = f /\ im.of[3] = skip
    BY <2>1 DEF OfVp
  <2>3. f \in Frames /\ VpShape(f.vp)
    BY VpSound DEF VpGood
  <2>4. /\ im.w = f.vp.visible_width \div par(skip) /\ im.h = f.vp.visible_height
        /\ Holds(im, VpPlanes(f, skip))
    BY <2>1 DEF OfVp, VpW
  <2>5. ShowsFrame(pimg_to_packed(im, depth, old), depth, "viewport", f, skip)
    BY <2>3, <2>4, VpPacked
  <2> QED BY <2>2, <2>5
<1>2. CASE \E f \in BmGood, skip \in BOOLEAN : OfBm(im, f, skip)
  <2>1. PICK f \in BmGood, skip \in BOOLEAN : OfBm(im, f, skip)
    BY <1>2
  <2>2. im.of[1] = "bitmap" /\ im.of[2] = f /\ im.of[3] = skip
    BY <2>1 DEF OfBm
  <2>3. f \in Frames /\ (PalShape(f.bm) \/ YuvShape(f.bm, f.bmo))
    BY BmSound DEF BmGood
  <2>4. /\ im.w = f.bm.visible_width \div par(skip) /\ im.h = f.bm.visible_height
        /\ Holds(im, BmPlanes(f, skip))
    BY <2>1, <2>2 DEF OfBm, HasSides, Described
  <2>5. ShowsFrame(pimg_to_packed(im, depth, old), depth, "bitmap", f, skip)
    BY <2>3, <2>4, PaletteOverlayPacked, YuvOverlayPacked
  <2> QED BY <2>2, <2>5
<1> QED BY <1>1, <1>2 DEF ImgInv, Shows

PackOf(im, depth, old) ==
    [data |-> pimg_to_packed(im, depth, old), of |-> im.of, depth |-> depth, w |-> im.w, h |-> im.h]

\* A buffer that is kept goes on showing its frame.
LEMMA SameBuffer ==
    ASSUME PackedIsFrame, live'.lb = live.lb
    PROVE  PackedIsFrame'
BY DEF PackedIsFrame

\* Every step of a script on images keeps the invariant.
LEMMA LiveInvStep ==
    ASSUME LiveInv, LiveNext
    PROVE  LiveInv'
<1>1. /\ live = [frame |-> live.frame, img |-> live.img, lb |-> live.lb]
      /\ live.frame \in Frames /\ ImgInv(live.img) /\ live.img # Killed /\ PackedIsFrame
  BY DEF LiveInv, LiveNext
<1>2. CASE LiveFrame
  <2>1. PICK f \in Frames : live' = [live EXCEPT !.frame = f]
    BY <1>2 DEF LiveFrame
  <2>2. live' = [frame |-> f, img |-> live.img, lb |-> live.lb]
    BY <1>1, <2>1
  <2> QED BY <1>1, <2>2, SameBuffer DEF LiveInv
<1>3. CASE LiveViewport
  <2>1. PICK skip \in BOOLEAN : live' = [live EXCEPT !.img = get_viewport_pimg(live.img, live.frame, skip)]
    BY <1>3, <1>1 DEF LiveViewport
  <2>2. ImgInv(get_viewport_pimg(live.img, live.frame, skip))
    BY <1>1, VpMade
  <2>3. live' = [frame |-> live.frame, img |-> get_viewport_pimg(live.img, live.frame, skip), lb |-> live.lb]
    BY <1>1, <2>1
  <2> QED BY <1>1, <2>2, <2>3, SameBuffer DEF LiveInv
<1>4. CASE LiveBitmap
  <2>1. PICK skip \in BOOLEAN : live' = [live EXCEPT !.img = get_bitmap_pimg(live.img, live.frame, skip)]
    BY <1>4, <1>1 DEF LiveBitmap
  <2>2. ImgInv(get_bitmap_pimg(live.img, live.frame, skip))
    BY <1>1, BmMade
  <2>3. live' = [frame |-> live.frame, img |-> get_bitmap_pimg(live.img, live.frame, skip), lb |-> live.lb]
    BY <1>1, <2>1
  <2> QED BY <1>1, <2>2, <2>3, SameBuffer DEF LiveInv
<1>5. CASE LivePack
  <2>1. PICK depth \in {3, 4}, old \in {<<>>, live.lb.data} :
          live.img # NoImg /\ live' = [live EXCEPT !.lb = PackOf(live.img, depth, old)]
    BY <1>5 DEF LivePack, PackOf
  <2>2. live' = [frame |-> live.frame, img |-> live.img, lb |-> PackOf(live.img, depth, old)]
    BY <1>1, <2>1
  <2> DEFINE im == live.img
             b == PackOf(im, depth, old)
             data == pimg_to_packed(im, depth, old)
  <2>3. b.data = data /\ b.of = im.of /\ b.depth = depth /\ b.w = im.w /\ b.h = im.h
    BY DEF PackOf
  <2>4. Shows(im)
    BY <1>1, <2>1 DEF Shows
  <2>5. HasSides(b) <=> HasSides(im)
    BY <2>3 DEF HasSides
  <2>6. HasSides(im) => ShowsFrame(data, depth, im.of[1], im.of[2], im.of[3])
    BY <1>1, <2>4, PackSound
  <2>7. HasSides(b) => ShowsFrame(b.data, b.depth, b.of[1], b.of[2], b.of[3])
    <3> HIDE DEF data, b
    <3> QED BY <2>3, <2>5, <2>6
  <2> HIDE DEF b, im
  <2>8. live'.lb = b /\ live'.img = im /\ live'.frame = live.frame
    BY <2>2 DEF b, im
  <2>9. PackedIsFrame'
    BY <2>7, <2>8 DEF PackedIsFrame
  <2> QED BY <1>1, <2>2, <2>9 DEF LiveInv
<1>6. CASE LiveKill
  <2>1. live' = [frame |-> live.frame, img |-> NoImg, lb |-> live.lb]
    BY <1>1, <1>6 DEF LiveKill
  <2>2. ImgInv(NoImg)
    BY DEF ImgInv
  <2> QED BY <1>1, <2>1, <2>2, SameBuffer DEF LiveInv
<1> QED BY <1>2, <1>3, <1>4, <1>5, <1>6 DEF LiveNext

\* What the invariant says of the image and of the buffer.
LEMMA ImagesSound ==
    ASSUME LiveInv
    PROVE  LiveSound
<1> DEFINE im == live.img
<1>1. ImgInv(im) /\ PackedIsFrame
  BY DEF LiveInv
<1>2. ASSUME Shows(im)
      PROVE  Inside(im.of[1], im.of[2]) /\ (im.of[1] = "viewport" => HasSides(im))
  <2>1. CASE \E f \in VpGood, skip \in BOOLEAN : OfVp(im, f, skip)
    <3>1. PICK f \in VpGood, skip \in BOOLEAN : OfVp(im, f, skip)
      BY <2>1
    <3>2. im.of[1] = "viewport" /\ im.of[2] = f /\ im.of[3] = skip
      BY <3>1 DEF OfVp
    <3>3. HasSides(im)
      BY <3>1, <3>2 DEF OfVp, VpW, HasSides, Described
    <3> QED BY <3>2, <3>3, VpSound
  <2>2. CASE \E f \in BmGood, skip \in BOOLEAN : OfBm(im, f, skip)
    <3>1. PICK f \in BmGood, skip \in BOOLEAN : OfBm(im, f, skip)
      BY <2>2
    <3>2. im.of[1] = "bitmap" /\ im.of[2] = f
      BY <3>1 DEF OfBm
    <3> QED BY <3>2, BmSound
  <2> QED BY <1>1, <1>2, <2>1, <2>2 DEF ImgInv, Shows
<1> QED BY <1>1, <1>2 DEF LiveSound, FrameInside, ViewportSides

\* A script has such images in every behaviour.
LEMMA LiveInvariance == Spec => []LiveInv
<1>1. Init => LiveInv
  <2> SUFFICES ASSUME Init PROVE LiveInv
    OBVIOUS
  <2>1. live = [frame |-> BaseFrame, img |-> NoImg, lb |-> NoLbuf]
    BY DEF Init, LiveInit
  <2>2. BaseFrame \in Frames /\ ImgInv(NoImg)
    BY DEF Frames, ImgInv
  <2>3. PackedIsFrame
    BY <2>1 DEF PackedIsFrame
  <2> QED BY <2>1, <2>2, <2>3 DEF LiveInv
<1>2. LiveInv /\ [Next]_vars => LiveInv'
  <2> SUFFICES ASSUME LiveInv, [Next]_vars PROVE LiveInv'
    OBVIOUS
  <2>1. LiveNext \/ live' = live
    BY DEF Next, RawStep, LiveStep, LbufStep, PackStep, vars, liveVars
  <2> QED BY <2>1, LiveInvStep, SameBuffer DEF LiveInv
<1> QED BY <1>1, <1>2, PTL DEF Spec

\* A packed image shows the frame it was made from, and no image is made from
\* bytes that were not received (liveimg.c:264-401, 531-841, 912-964).
THEOREM ImagesAreFrames == Spec => []LiveSound
BY LiveInvariance, ImagesSound, PTL

-----------------------------------------------------------------------------
(***************************************************************************)
(* Pixels of a raw image within their block.                               *)
(***************************************************************************)
\* What a byte contributes to a pixel, and what becomes of it in a write.
Cut(b, m, s) == Shift(Mask(b, m), s)
Blend(b, m, v, s) == Mask(b, m) + (Shift(v, s) % 256)

\* The parts of a pixel in a read and in a write, and the bytes of a block.
Reads(f, z) == raw_formats[f].get[z + 1]
Writes(f, z) == raw_formats[f].set[z + 1]
BlockBytes(f) == 0..(raw_formats[f].block_bytes - 1)

\* Pixel z of a block with the bytes q, and the block after it was written.
PixelOf(f, q, z) ==
    LET parts == Reads(f, z)
    IN  Total([k \in DOMAIN parts |-> Shift(Mask(q[parts[k][1]], parts[k][2]), parts[k][3])])
Written(f, q, z, v) ==
    LET parts == Writes(f, z)
    IN  [k \in DOMAIN q |->
            IF \E t \in parts : t[1] = k
            THEN LET t == CHOOSE t \in parts : t[1] = k
                 IN  Mask(q[k], t[2]) + (Shift(v, t[3]) % 256)
            ELSE q[k]]

\* The powers the code shifts by.
LEMMA Powers ==
    /\ Pow2[1] = 2 /\ Pow2[2] = 4 /\ Pow2[3] = 8 /\ Pow2[4] = 16 /\ Pow2[5] = 32 /\ Pow2[6] = 64
    /\ Pow2[7] = 128 /\ Pow2[8] = 256 /\ Pow2[9] = 512 /\ Pow2[10] = 1024 /\ Pow2[11] = 2048
    /\ Pow2[12] = 4096 /\ Pow2[13] = 8192 /\ Pow2[14] = 16384 /\ Pow2[15] = 32768 /\ Pow2[16] = 65536
BY DEF Pow2

\* A number is its quotient and its rest.
LEMMA Quotient ==
    ASSUME NEW v \in Nat, NEW b \in Nat, b > 0
    PROVE  v \div b \in Nat /\ v % b \in 0..(b - 1) /\ v = (v \div b) * b + (v % b)
<1> DEFINE q == v \div b
           r == v % b
<1>1. q \in Int /\ r \in 0..(b - 1) /\ r = v - b * q
  BY DivMod
<1> HIDE DEF q, r
<1>2. b * q = q * b /\ q * b \in Int
  BY <1>1
<1>3. ~(q <= -1)
  <2> SUFFICES ASSUME q <= -1 PROVE FALSE
    OBVIOUS
  <2>1. q * b <= (-1) * b
    BY <1>1, Monotone
  <2>2. (-1) * b = -b
    OBVIOUS
  <2> DEFINE t == q * b
  <2>3. t <= -b /\ t \in Int /\ r = v - t
    BY <2>1, <2>2, <1>1, <1>2
  <2> HIDE DEF t
  <2> QED BY <2>3, <1>1
<1>4. v = q * b + r
  <2> DEFINE t == q * b
  <2>1. t \in Int /\ r = v - t
    BY <1>1, <1>2
  <2>2. v = t + r
    <3> HIDE DEF t
    <3> QED BY <2>1, <1>1
  <2> QED BY <2>2
<1>5. q \in Nat /\ r \in 0..(b - 1) /\ v = q * b + r
  BY <1>1, <1>3, <1>4
<1> QED BY <1>5, Zenon DEF q, r

\* The same for the numbers the code divides by.
LEMMA Quotients ==
    ASSUME NEW v \in Nat
    PROVE  \A b \in {4, 16, 64, 256, 1024, 4096} :
             v \div b \in Nat /\ v % b \in 0..(b - 1) /\ v = (v \div b) * b + (v % b)
BY Quotient

\* A quotient is less than what the number is less than a multiple of.
LEMMA Below ==
    ASSUME NEW v \in Nat, NEW b \in Nat, b > 0, NEW c \in Nat, v < c * b
    PROVE  v \div b < c
<1> DEFINE q == v \div b
<1>1. q \in Nat /\ v % b \in 0..(b - 1) /\ v = q * b + (v % b)
  BY Quotient
<1> HIDE DEF q
<1> SUFFICES ASSUME c <= q PROVE FALSE
  BY <1>1 DEF q
<1>2. c * b <= q * b
  BY <1>1, Monotone
<1> DEFINE t == c * b
           u == q * b
           r == v % b
<1>3. t <= u /\ v < t /\ v = u + r /\ r \in 0..(b - 1)
  BY <1>1, <1>2
<1>4. t \in Int /\ u \in Int
  BY <1>1
<1> HIDE DEF t, u, r
<1> QED BY <1>3, <1>4

\* The pieces of a value that the code shifts down.
LEMMA Bounded ==
    ASSUME NEW v \in Nat
    PROVE  \A b \in {4, 16, 64, 256, 1024, 4096}, c \in {4, 16, 64, 256} :
             v < c * b => v \div b < c
BY Below

\* A multiple of a power that divides 256 keeps the low bits of its factor.
LEMMA Scaled ==
    ASSUME NEW v \in Nat
    PROVE  /\ (v * 64) % 256 = (v % 4) * 64 /\ (v * 16) % 256 = (v % 16) * 16
           /\ (v * 4) % 256 = (v % 64) * 4
<1>1. (v * 64) % 256 = (v % 4) * 64
  <2> DEFINE q == v \div 4
             r == v % 4
  <2>1. q \in Nat /\ r \in 0..3 /\ v = q * 4 + r
    BY Quotients
  <2> HIDE DEF q, r
  <2>2. v * 64 = q * 256 + r * 64 /\ r * 64 \in 0..(256 - 1)
    BY <2>1
  <2>3. (q * 256 + r * 64) % 256 = r * 64
    BY <2>1, <2>2, Radix
  <2> QED BY <2>2, <2>3 DEF r
<1>2. (v * 16) % 256 = (v % 16) * 16
  <2> DEFINE q == v \div 16
             r == v % 16
  <2>1. q \in Nat /\ r \in 0..15 /\ v = q * 16 + r
    BY Quotients
  <2> HIDE DEF q, r
  <2>2. v * 16 = q * 256 + r * 16 /\ r * 16 \in 0..(256 - 1)
    BY <2>1
  <2>3. (q * 256 + r * 16) % 256 = r * 16
    BY <2>1, <2>2, Radix
  <2> QED BY <2>2, <2>3 DEF r
<1>3. (v * 4) % 256 = (v % 64) * 4
  <2> DEFINE q == v \div 64
             r == v % 64
  <2>1. q \in Nat /\ r \in 0..63 /\ v = q * 64 + r
    BY Quotients
  <2> HIDE DEF q, r
  <2>2. v * 4 = q * 256 + r * 4 /\ r * 4 \in 0..(256 - 1)
    BY <2>1
  <2>3. (q * 256 + r * 4) % 256 = r * 4
    BY <2>1, <2>2, Radix
  <2> QED BY <2>2, <2>3 DEF r
<1> QED BY <1>1, <1>2, <1>3

\* The bits of a byte that a read takes, in their place in the value.
LEMMA Cuts ==
    \A b \in Octet :
      /\ Cut(b, 255, 0) = b          /\ Cut(b, 255, 2) = b * 4      /\ Cut(b, 255, 4) = b * 16
      /\ Cut(b, 255, 6) = b * 64     /\ Cut(b, 255, 8) = b * 256    /\ Cut(b, 255, -2) = b \div 4
      /\ Cut(b, 255, -4) = b \div 16 /\ Cut(b, 255, -6) = b \div 64
      /\ Cut(b, 63, 4) = (b % 64) * 16  /\ Cut(b, 63, 8) = (b % 64) * 256
      /\ Cut(b, 15, 6) = (b % 16) * 64  /\ Cut(b, 15, 8) = (b % 16) * 256
      /\ Cut(b, 15, 10) = (b % 16) * 1024
      /\ Cut(b, 3, 8) = (b % 4) * 256   /\ Cut(b, 3, 12) = (b % 4) * 4096
BY Powers DEF Cut, Shift, Mask, Octet

\* The bits of a value that a write takes.
LEMMA Shifts ==
    \A v \in Nat :
      /\ Shift(v, 0) = v
      /\ Shift(v, -2) = v \div 4     /\ Shift(v, -4) = v \div 16     /\ Shift(v, -6) = v \div 64
      /\ Shift(v, -8) = v \div 256   /\ Shift(v, -10) = v \div 1024  /\ Shift(v, -12) = v \div 4096
BY Powers DEF Shift

\* A byte is its two halves, wherever it is divided.
LEMMA Halves ==
    /\ \A h \in 0..3, l \in 0..63 :
         h * 64 + l \in Octet /\ (h * 64 + l) \div 64 = h /\ (h * 64 + l) % 64 = l
    /\ \A h \in 0..15, l \in 0..15 :
         h * 16 + l \in Octet /\ (h * 16 + l) \div 16 = h /\ (h * 16 + l) % 16 = l
    /\ \A h \in 0..63, l \in 0..3 :
         h * 4 + l \in Octet /\ (h * 4 + l) \div 4 = h /\ (h * 4 + l) % 4 = l
<1>1. \A h \in 0..3, l \in 0..63 :
         h * 64 + l \in Octet /\ (h * 64 + l) \div 64 = h /\ (h * 64 + l) % 64 = l
  BY DEF Octet
<1>2. \A h \in 0..15, l \in 0..15 :
         h * 16 + l \in Octet /\ (h * 16 + l) \div 16 = h /\ (h * 16 + l) % 16 = l
  BY DEF Octet
<1>3. \A h \in 0..63, l \in 0..3 :
         h * 4 + l \in Octet /\ (h * 4 + l) \div 4 = h /\ (h * 4 + l) % 4 = l
  BY DEF Octet
<1> QED BY <1>1, <1>2, <1>3

\* A write that keeps the low bits of a byte leaves them, and its high bits are
\* the low ones of the value.
LEMMA LowKept ==
    ASSUME NEW b \in Octet, NEW v \in Nat
    PROVE  /\ /\ Blend(b, 63, v, 6) \in Octet
              /\ Blend(b, 63, v, 6) % 64 = b % 64 /\ Blend(b, 63, v, 6) \div 64 = v % 4
           /\ /\ Blend(b, 15, v, 4) \in Octet
              /\ Blend(b, 15, v, 4) % 16 = b % 16 /\ Blend(b, 15, v, 4) \div 16 = v % 16
           /\ /\ Blend(b, 3, v, 2) \in Octet
              /\ Blend(b, 3, v, 2) % 4 = b % 4 /\ Blend(b, 3, v, 2) \div 4 = v % 64
<1>1. /\ v % 4 \in 0..3 /\ v % 16 \in 0..15 /\ v % 64 \in 0..63
      /\ b % 4 \in 0..3 /\ b % 16 \in 0..15 /\ b % 64 \in 0..63
  BY Quotients DEF Octet
<1>2. /\ Blend(b, 63, v, 6) \in Octet
      /\ Blend(b, 63, v, 6) % 64 = b % 64 /\ Blend(b, 63, v, 6) \div 64 = v % 4
  <2>1. Mask(b, 63) = b % 64 /\ Shift(v, 6) = v * 64
    BY Powers DEF Mask, Shift
  <2>2. (v * 64) % 256 = (v % 4) * 64
    BY Scaled
  <2> DEFINE h == v % 4
             l == b % 64
  <2>3. h \in 0..3 /\ l \in 0..63
    BY <1>1
  <2>4. Blend(b, 63, v, 6) = l + h * 64
    BY <2>1, <2>2 DEF Blend
  <2> HIDE DEF h, l
  <2>5. l + h * 64 = h * 64 + l
    BY <2>3
  <2>6. h * 64 + l \in Octet /\ (h * 64 + l) \div 64 = h /\ (h * 64 + l) % 64 = l
    BY <2>3, Halves
  <2>7. /\ Blend(b, 63, v, 6) \in Octet
        /\ Blend(b, 63, v, 6) % 64 = l /\ Blend(b, 63, v, 6) \div 64 = h
    BY <2>4, <2>5, <2>6
  <2> QED BY <2>7 DEF h, l
<1>3. /\ Blend(b, 15, v, 4) \in Octet
      /\ Blend(b, 15, v, 4) % 16 = b % 16 /\ Blend(b, 15, v, 4) \div 16 = v % 16
  <2>1. Mask(b, 15) = b % 16 /\ Shift(v, 4) = v * 16
    BY Powers DEF Mask, Shift
  <2>2. (v * 16) % 256 = (v % 16) * 16
    BY Scaled
  <2> DEFINE h == v % 16
             l == b % 16
  <2>3. h \in 0..15 /\ l \in 0..15
    BY <1>1
  <2>4. Blend(b, 15, v, 4) = l + h * 16
    BY <2>1, <2>2 DEF Blend
  <2> HIDE DEF h, l
  <2>5. l + h * 16 = h * 16 + l
    BY <2>3
  <2>6. h * 16 + l \in Octet /\ (h * 16 + l) \div 16 = h /\ (h * 16 + l) % 16 = l
    BY <2>3, Halves
  <2>7. /\ Blend(b, 15, v, 4) \in Octet
        /\ Blend(b, 15, v, 4) % 16 = l /\ Blend(b, 15, v, 4) \div 16 = h
    BY <2>4, <2>5, <2>6
  <2> QED BY <2>7 DEF h, l
<1>4. /\ Blend(b, 3, v, 2) \in Octet
      /\ Blend(b, 3, v, 2) % 4 = b % 4 /\ Blend(b, 3, v, 2) \div 4 = v % 64
  <2>1. Mask(b, 3) = b % 4 /\ Shift(v, 2) = v * 4
    BY Powers DEF Mask, Shift
  <2>2. (v * 4) % 256 = (v % 64) * 4
    BY Scaled
  <2> DEFINE h == v % 64
             l == b % 4
  <2>3. h \in 0..63 /\ l \in 0..3
    BY <1>1
  <2>4. Blend(b, 3, v, 2) = l + h * 4
    BY <2>1, <2>2 DEF Blend
  <2> HIDE DEF h, l
  <2>5. l + h * 4 = h * 4 + l
    BY <2>3
  <2>6. h * 4 + l \in Octet /\ (h * 4 + l) \div 4 = h /\ (h * 4 + l) % 4 = l
    BY <2>3, Halves
  <2>7. /\ Blend(b, 3, v, 2) \in Octet
        /\ Blend(b, 3, v, 2) % 4 = l /\ Blend(b, 3, v, 2) \div 4 = h
    BY <2>4, <2>5, <2>6
  <2> QED BY <2>7 DEF h, l
<1> QED BY <1>2, <1>3, <1>4

\* A write that keeps the high bits of a byte leaves them, and its low bits are
\* what is left of the value.
LEMMA HighKept ==
    ASSUME NEW b \in Octet, NEW v, NEW s, NEW w \in Nat, Shift(v, s) = w
    PROVE  /\ w < 64 => /\ Blend(b, 192, v, s) \in Octet
                        /\ Blend(b, 192, v, s) \div 64 = b \div 64 /\ Blend(b, 192, v, s) % 64 = w
           /\ w < 16 => /\ Blend(b, 240, v, s) \in Octet
                        /\ Blend(b, 240, v, s) \div 16 = b \div 16 /\ Blend(b, 240, v, s) % 16 = w
           /\ w < 4  => /\ Blend(b, 252, v, s) \in Octet
                        /\ Blend(b, 252, v, s) \div 4 = b \div 4 /\ Blend(b, 252, v, s) % 4 = w
<1>1. /\ Mask(b, 192) = (b \div 64) * 64 /\ Mask(b, 240) = (b \div 16) * 16 /\ Mask(b, 252) = (b \div 4) * 4
      /\ b \div 64 \in 0..3 /\ b \div 16 \in 0..15 /\ b \div 4 \in 0..63
  BY DEF Mask, Octet
<1>2. w < 256 => w % 256 = w
  OBVIOUS
<1>3. ASSUME w < 64 PROVE /\ Blend(b, 192, v, s) \in Octet
                          /\ Blend(b, 192, v, s) \div 64 = b \div 64 /\ Blend(b, 192, v, s) % 64 = w
  <2>1. Blend(b, 192, v, s) = (b \div 64) * 64 + w /\ w \in 0..63
    BY <1>1, <1>2, <1>3 DEF Blend
  <2> QED BY <2>1, <1>1, Halves
<1>4. ASSUME w < 16 PROVE /\ Blend(b, 240, v, s) \in Octet
                          /\ Blend(b, 240, v, s) \div 16 = b \div 16 /\ Blend(b, 240, v, s) % 16 = w
  <2>1. Blend(b, 240, v, s) = (b \div 16) * 16 + w /\ w \in 0..15
    BY <1>1, <1>2, <1>4 DEF Blend
  <2> QED BY <2>1, <1>1, Halves
<1>5. ASSUME w < 4 PROVE /\ Blend(b, 252, v, s) \in Octet
                         /\ Blend(b, 252, v, s) \div 4 = b \div 4 /\ Blend(b, 252, v, s) % 4 = w
  <2>1. Blend(b, 252, v, s) = (b \div 4) * 4 + w /\ w \in 0..3
    BY <1>1, <1>2, <1>5 DEF Blend
  <2> QED BY <2>1, <1>1, Halves
<1> QED BY <1>3, <1>4, <1>5

\* A write that keeps nothing of a byte.
LEMMA NoneKept ==
    ASSUME NEW b \in Octet, NEW v, NEW s, NEW w \in Nat, Shift(v, s) = w
    PROVE  Blend(b, 0, v, s) = w % 256 /\ w % 256 \in Octet
BY DEF Blend, Mask, Octet

\* The pieces of a value make it up, and fit where a write puts them.
LEMMA Pieces ==
    ASSUME NEW v \in Nat
    PROVE  /\ v < 1024 => v \div 4 < 256 /\ v \div 16 < 64 /\ v \div 64 < 16 /\ v \div 256 < 4
           /\ v < 4096 => v \div 16 < 256 /\ v \div 256 < 16
           /\ v < 16384 => /\ v \div 64 < 256 /\ v \div 256 < 64
                           /\ v \div 1024 < 16 /\ v \div 4096 < 4
           /\ v < 65536 => v \div 256 < 256
           /\ v = (v \div 4096) * 4096 + ((v \div 16) % 256) * 16 + (v % 16)
           /\ v = (v \div 1024) * 1024 + ((v \div 4) % 256) * 4 + (v % 4)
<1>1. v < 1024 => v \div 4 < 256 /\ v \div 16 < 64 /\ v \div 64 < 16 /\ v \div 256 < 4
  BY Bounded
<1>2. v < 4096 => v \div 16 < 256 /\ v \div 256 < 16
  BY Bounded
<1>3. v < 16384 => v \div 64 < 256 /\ v \div 256 < 64 /\ v \div 1024 < 16 /\ v \div 4096 < 4
  BY Bounded
<1>4. v < 65536 => v \div 256 < 256
  BY Bounded
<1>5. v = (v \div 4096) * 4096 + ((v \div 16) % 256) * 16 + (v % 16)
  <2> DEFINE x == v \div 16
             m == x % 256
             l == v % 16
             y == x \div 256
  <2>1. x \in Nat /\ l \in 0..15 /\ v = x * 16 + l
    BY Quotients
  <2>2. y \in Nat /\ m \in 0..255 /\ x = y * 256 + m
    <3> HIDE DEF x
    <3> QED BY <2>1, Quotients
  <2> HIDE DEF x, m, l, y
  <2> DEFINE c == m * 16 + l
  <2>3. v = y * 4096 + c /\ c \in 0..(4096 - 1)
    BY <2>1, <2>2
  <2>4. (y * 4096 + c) \div 4096 = y
    <3> HIDE DEF c
    <3> QED BY <2>2, <2>3, Radix
  <2>5. v \div 4096 = y
    <3> HIDE DEF c
    <3> QED BY <2>3, <2>4
  <2>6. v = y * 4096 + m * 16 + l
    BY <2>1, <2>2, <2>3
  <2> DEFINE u == v \div 4096
  <2>7. u = y
    BY <2>5
  <2>8. v = u * 4096 + m * 16 + l
    <3> HIDE DEF u
    <3> QED BY <2>6, <2>7
  <2> HIDE DEF u
  <2> QED BY <2>8 DEF m, l, x, u
<1>6. v = (v \div 1024) * 1024 + ((v \div 4) % 256) * 4 + (v % 4)
  <2> DEFINE x == v \div 4
             m == x % 256
             l == v % 4
             y == x \div 256
  <2>1. x \in Nat /\ l \in 0..3 /\ v = x * 4 + l
    BY Quotients
  <2>2. y \in Nat /\ m \in 0..255 /\ x = y * 256 + m
    <3> HIDE DEF x
    <3> QED BY <2>1, Quotients
  <2> HIDE DEF x, m, l, y
  <2> DEFINE c == m * 4 + l
  <2>3. v = y * 1024 + c /\ c \in 0..(1024 - 1)
    BY <2>1, <2>2
  <2>4. (y * 1024 + c) \div 1024 = y
    <3> HIDE DEF c
    <3> QED BY <2>2, <2>3, Radix
  <2>5. v \div 1024 = y
    <3> HIDE DEF c
    <3> QED BY <2>3, <2>4
  <2>6. v = y * 1024 + m * 4 + l
    BY <2>1, <2>2, <2>3
  <2> DEFINE u == v \div 1024
  <2>7. u = y
    BY <2>5
  <2>8. v = u * 1024 + m * 4 + l
    <3> HIDE DEF u
    <3> QED BY <2>6, <2>7
  <2> HIDE DEF u
  <2> QED BY <2>8 DEF m, l, x, u
<1> QED BY <1>1, <1>2, <1>3, <1>4, <1>5, <1>6

\* The values that the reads make of the bits a write put.
LEMMA Sums ==
    ASSUME NEW v \in Nat
    PROVE  /\ v < 256 => v % 256 = v
           /\ v < 1024 => ((v \div 4) % 256) * 4 + (v % 4) = v
           /\ v < 4096 => ((v \div 16) % 256) * 16 + (v % 16) = v
           /\ v < 16384 => ((v \div 64) % 256) * 64 + (v % 64) = v
           /\ v < 65536 => ((v \div 256) % 256) * 256 + (v % 256) = v
           /\ (v \div 16) * 16 + (v % 16) = v /\ (v \div 64) * 64 + (v % 64) = v
           /\ (v \div 256) * 256 + (v % 256) = v
<1>1. \A w \in Nat : w < 256 => w % 256 = w
  OBVIOUS
<1>2. v < 1024 => ((v \div 4) % 256) * 4 + (v % 4) = v
  <2> DEFINE x == v \div 4
             y == v % 4
  <2>1. x \in Nat /\ y \in Nat /\ x * 4 + y = v
    BY Quotients
  <2>2. v < 1024 => x < 256
    BY Pieces
  <2> HIDE DEF x, y
  <2>3. v < 1024 => (x % 256) * 4 + y = v
    BY <2>1, <2>2, <1>1
  <2> QED BY <2>3 DEF x, y
<1>3. v < 4096 => ((v \div 16) % 256) * 16 + (v % 16) = v
  <2> DEFINE x == v \div 16
             y == v % 16
  <2>1. x \in Nat /\ y \in Nat /\ x * 16 + y = v
    BY Quotients
  <2>2. v < 4096 => x < 256
    BY Pieces
  <2> HIDE DEF x, y
  <2>3. v < 4096 => (x % 256) * 16 + y = v
    BY <2>1, <2>2, <1>1
  <2> QED BY <2>3 DEF x, y
<1>4. v < 16384 => ((v \div 64) % 256) * 64 + (v % 64) = v
  <2> DEFINE x == v \div 64
             y == v % 64
  <2>1. x \in Nat /\ y \in Nat /\ x * 64 + y = v
    BY Quotients
  <2>2. v < 16384 => x < 256
    BY Pieces
  <2> HIDE DEF x, y
  <2>3. v < 16384 => (x % 256) * 64 + y = v
    BY <2>1, <2>2, <1>1
  <2> QED BY <2>3 DEF x, y
<1>5. v < 65536 => ((v \div 256) % 256) * 256 + (v % 256) = v
  <2> DEFINE x == v \div 256
             y == v % 256
  <2>1. x \in Nat /\ y \in Nat /\ x * 256 + y = v
    BY Quotients
  <2>2. v < 65536 => x < 256
    BY Pieces
  <2> HIDE DEF x, y
  <2>3. v < 65536 => (x % 256) * 256 + y = v
    BY <2>1, <2>2, <1>1
  <2> QED BY <2>3 DEF x, y
<1>6. /\ (v \div 16) * 16 + (v % 16) = v /\ (v \div 64) * 64 + (v % 64) = v
      /\ (v \div 256) * 256 + (v % 256) = v
  BY Quotients
<1> QED BY <1>1, <1>2, <1>3, <1>4, <1>5, <1>6

\* A pixel is the sum of its parts.
LEMMA OnePart ==
    ASSUME NEW f, NEW q, NEW z, NEW i, NEW m, NEW s,
           Reads(f, z) = << <<i, m, s>> >>,
           NEW v \in Int, Cut(q[i], m, s) = v
    PROVE  PixelOf(f, q, z) = v
<1> DEFINE parts == Reads(f, z)
           terms == [l \in DOMAIN parts |-> Shift(Mask(q[parts[l][1]], parts[l][2]), parts[l][3])]
<1>1. /\ DOMAIN parts = {1}
      /\ parts[1][1] = i /\ parts[1][2] = m /\ parts[1][3] = s
  OBVIOUS
<1>2. DOMAIN terms = {1} /\ terms[1] = v
  BY <1>1 DEF Cut
<1> HIDE DEF terms
<1>3. Total(terms) = v
  BY <1>2 DEF Total, Term
<1> QED BY <1>3 DEF PixelOf, terms

\* The same for two parts.
LEMMA TwoParts ==
    ASSUME NEW f, NEW q, NEW z, NEW i, NEW m, NEW s, NEW j, NEW n, NEW t,
           Reads(f, z) = << <<i, m, s>>, <<j, n, t>> >>,
           NEW v \in Int, Cut(q[i], m, s) = v, NEW w \in Int, Cut(q[j], n, t) = w
    PROVE  PixelOf(f, q, z) = v + w
<1> DEFINE parts == Reads(f, z)
           terms == [l \in DOMAIN parts |-> Shift(Mask(q[parts[l][1]], parts[l][2]), parts[l][3])]
<1>1. /\ DOMAIN parts = {1, 2}
      /\ parts[1][1] = i /\ parts[1][2] = m /\ parts[1][3] = s
      /\ parts[2][1] = j /\ parts[2][2] = n /\ parts[2][3] = t
  OBVIOUS
<1>2. DOMAIN terms = {1, 2} /\ terms[1] = v /\ terms[2] = w
  BY <1>1 DEF Cut
<1> HIDE DEF terms
<1>3. Total(terms) = v + w
  BY <1>2 DEF Total, Term
<1> QED BY <1>3 DEF PixelOf, terms

\* The same for three parts.
LEMMA ThreeParts ==
    ASSUME NEW f, NEW q, NEW z, NEW i, NEW m, NEW s, NEW j, NEW n, NEW t, NEW k, NEW o, NEW u,
           Reads(f, z) = << <<i, m, s>>, <<j, n, t>>, <<k, o, u>> >>,
           NEW v \in Int, Cut(q[i], m, s) = v, NEW w \in Int, Cut(q[j], n, t) = w, NEW x \in Int, Cut(q[k], o, u) = x
    PROVE  PixelOf(f, q, z) = v + w + x
<1> DEFINE parts == Reads(f, z)
           terms == [l \in DOMAIN parts |-> Shift(Mask(q[parts[l][1]], parts[l][2]), parts[l][3])]
<1>1. /\ DOMAIN parts = {1, 2, 3}
      /\ parts[1][1] = i /\ parts[1][2] = m /\ parts[1][3] = s
      /\ parts[2][1] = j /\ parts[2][2] = n /\ parts[2][3] = t
      /\ parts[3][1] = k /\ parts[3][2] = o /\ parts[3][3] = u
  OBVIOUS
<1>2. DOMAIN terms = {1, 2, 3} /\ terms[1] = v /\ terms[2] = w /\ terms[3] = x
  BY <1>1 DEF Cut
<1> HIDE DEF terms
<1>3. Total(terms) = v + w + x
  BY <1>2 DEF Total, Term
<1> QED BY <1>3 DEF PixelOf, terms

\* What a write adds to a byte falls on the bits it does not keep.
FitsAt(m, s, v) ==
    /\ Shift(v, s) \in Nat
    /\ \/ m = 0
       \/ (m = 63 /\ s = 6) \/ (m = 15 /\ s = 4) \/ (m = 3 /\ s = 2)
       \/ (m = 192 /\ Shift(v, s) < 64) \/ (m = 240 /\ Shift(v, s) < 16)
       \/ (m = 252 /\ Shift(v, s) < 4)
Fits(u, v) == FitsAt(u[2], u[3], v)

\* The bits part t of a read takes of a byte are among those part u of a write keeps.
Apart(t, u) ==
    \/ (t[2] = 63 /\ u[2] = 63) \/ (t[2] = 15 /\ u[2] = 15) \/ (t[2] = 3 /\ u[2] = 3)
    \/ t[2] = 255 /\ ((t[3] = -6 /\ u[2] = 192) \/ (t[3] = -4 /\ u[2] = 240) \/ (t[3] = -2 /\ u[2] = 252))

\* A write leaves a byte a byte, and the bits it keeps.
LEMMA Blended ==
    ASSUME NEW b \in Octet, NEW v \in Nat, NEW u, Fits(u, v), NEW c, c = Blend(b, u[2], v, u[3])
    PROVE  /\ c \in Octet
           /\ \A t : Apart(t, u) => Cut(c, t[2], t[3]) = Cut(b, t[2], t[3])
<1>1. CASE u[2] = 0
  BY <1>1, NoneKept DEF Apart, Fits, FitsAt
<1>2. CASE (u[2] = 63 /\ u[3] = 6) \/ (u[2] = 15 /\ u[3] = 4) \/ (u[2] = 3 /\ u[3] = 2)
  <2>1. /\ c \in Octet
        /\ u[2] = 63 => c % 64 = b % 64
        /\ u[2] = 15 => c % 16 = b % 16
        /\ u[2] = 3 => c % 4 = b % 4
    <3>1. CASE u[2] = 63 /\ u[3] = 6
      BY <3>1, LowKept
    <3>2. CASE u[2] = 15 /\ u[3] = 4
      BY <3>2, LowKept
    <3>3. CASE u[2] = 3 /\ u[3] = 2
      BY <3>3, LowKept
    <3> QED BY <1>2, <3>1, <3>2, <3>3
  <2>2. \A m \in {63, 15, 3} : u[2] = m => Mask(c, m) = Mask(b, m)
    BY <2>1 DEF Mask
  <2>3. ASSUME NEW t, Apart(t, u) PROVE Cut(c, t[2], t[3]) = Cut(b, t[2], t[3])
    BY <1>2, <2>2, <2>3 DEF Cut, Apart
  <2> QED BY <2>1, <2>3
<1>3. CASE \/ (u[2] = 192 /\ Shift(v, u[3]) < 64) \/ (u[2] = 240 /\ Shift(v, u[3]) < 16)
           \/ (u[2] = 252 /\ Shift(v, u[3]) < 4)
  <2>1. /\ c \in Octet
        /\ u[2] = 192 => c \div 64 = b \div 64
        /\ u[2] = 240 => c \div 16 = b \div 16
        /\ u[2] = 252 => c \div 4 = b \div 4
    BY <1>3, HighKept DEF Fits, FitsAt
  <2>2. \A x \in Octet : Cut(x, 255, -6) = x \div 64 /\ Cut(x, 255, -4) = x \div 16 /\ Cut(x, 255, -2) = x \div 4
    BY Cuts
  <2>3. ASSUME NEW t, Apart(t, u) PROVE Cut(c, t[2], t[3]) = Cut(b, t[2], t[3])
    BY <1>3, <2>1, <2>2, <2>3 DEF Apart
  <2> QED BY <2>1, <2>3
<1> QED BY <1>1, <1>2, <1>3 DEF Fits, FitsAt

\* A write of v to pixel z can be made: its parts are bytes of the block, one each.
Writable(f, z, v) ==
    LET parts == Writes(f, z)
    IN  \A t \in parts : /\ t[1] \in BlockBytes(f) /\ Fits(t, v)
                         /\ \A u \in parts : u[1] = t[1] => u = t

\* The byte of a part after the write.
LEMMA PartWritten ==
    ASSUME NEW f, NEW q, NEW z, NEW v, Writable(f, z, v), NEW t \in Writes(f, z),
           DOMAIN q = BlockBytes(f)
    PROVE  Written(f, q, z, v)[t[1]] = Blend(q[t[1]], t[2], v, t[3])
<1> DEFINE parts == Writes(f, z)
           c == CHOOSE u \in parts : u[1] = t[1]
<1>1. c \in parts /\ c[1] = t[1]
  OBVIOUS
<1>2. c = t /\ t[1] \in DOMAIN q
  BY <1>1 DEF Writable
<1>3. Written(f, q, z, v)[t[1]] = Mask(q[t[1]], c[2]) + (Shift(v, c[3]) % 256)
  BY <1>2 DEF Written
<1> HIDE DEF c
<1> QED BY <1>2, <1>3 DEF Blend

\* The same with the part taken apart.
LEMMA WriteOf ==
    ASSUME NEW f, NEW q, NEW z, NEW v, Writable(f, z, v), NEW i, NEW m, NEW s,
           <<i, m, s>> \in Writes(f, z), DOMAIN q = BlockBytes(f)
    PROVE  Written(f, q, z, v)[i] = Blend(q[i], m, v, s)
<1>1. Written(f, q, z, v)[<<i, m, s>>[1]] = Blend(q[<<i, m, s>>[1]], <<i, m, s>>[2], v, <<i, m, s>>[3])
  BY PartWritten
<1> QED BY <1>1

\* The other bytes.
LEMMA OthersKept ==
    ASSUME NEW f, NEW q, NEW z, NEW v, NEW i \in DOMAIN q,
           \A t \in Writes(f, z) : t[1] # i
    PROVE  Written(f, q, z, v)[i] = q[i]
BY DEF Written

\* The bytes of a block stay bytes.
LEMMA WrittenOctets ==
    ASSUME NEW f, NEW q \in [BlockBytes(f) -> Octet],
           NEW z, NEW v \in Nat, Writable(f, z, v)
    PROVE  Written(f, q, z, v) \in [BlockBytes(f) -> Octet]
<1> DEFINE s == Written(f, q, z, v)
           D == BlockBytes(f)
           parts == Writes(f, z)
<1>0. DOMAIN q = D
  OBVIOUS
<1>1. s = [i \in D |-> s[i]]
  BY <1>0 DEF Written
<1>2. ASSUME NEW i \in D PROVE s[i] \in Octet
  <2>1. CASE \A t \in parts : t[1] # i
    BY <2>1, <1>0, OthersKept
  <2>2. CASE \E t \in parts : t[1] = i
    <3>1. PICK t \in parts : t[1] = i
      BY <2>2
    <3>2. s[i] = Blend(q[i], t[2], v, t[3])
      BY <3>1, <1>0, PartWritten
    <3>3. Fits(t, v) /\ q[i] \in Octet
      BY <3>1 DEF Writable
    <3> QED BY <3>2, <3>3, Blended
  <2> QED BY <2>1, <2>2
<1> QED BY <1>1, <1>2

\* Pixel y of a block does not see a write to pixel z.
Unseen(f, y, z) ==
    LET read == Reads(f, y)
    IN  \A k \in DOMAIN read :
          /\ read[k][1] \in BlockBytes(f)
          /\ \A u \in Writes(f, z) : read[k][1] = u[1] => Apart(read[k], u)

\* It reads as before.
LEMMA OtherPixel ==
    ASSUME NEW f, NEW q \in [BlockBytes(f) -> Octet],
           NEW y, NEW z, NEW v \in Nat, Writable(f, z, v), Unseen(f, y, z)
    PROVE  PixelOf(f, Written(f, q, z, v), y) = PixelOf(f, q, y)
<1> DEFINE s == Written(f, q, z, v)
           read == Reads(f, y)
<1>1. ASSUME NEW k \in DOMAIN read
      PROVE  Shift(Mask(s[read[k][1]], read[k][2]), read[k][3]) = Shift(Mask(q[read[k][1]], read[k][2]), read[k][3])
  <2> DEFINE t == read[k]
  <2>0. t[1] \in DOMAIN q /\ q[t[1]] \in Octet
    BY DEF Unseen
  <2>1. CASE \A u \in Writes(f, z) : u[1] # t[1]
    BY <2>0, <2>1, OthersKept
  <2>2. CASE \E u \in Writes(f, z) : u[1] = t[1]
    <3>1. PICK u \in Writes(f, z) : u[1] = t[1]
      BY <2>2
    <3>2. s[u[1]] = Blend(q[u[1]], u[2], v, u[3])
      <4>1. DOMAIN q = BlockBytes(f)
        OBVIOUS
      <4> QED BY <4>1, PartWritten
    <3>3. Fits(u, v) /\ Apart(t, u)
      BY <3>1 DEF Writable, Unseen
    <3> HIDE DEF t, s
    <3>4. Cut(s[t[1]], t[2], t[3]) = Cut(q[t[1]], t[2], t[3])
      BY <3>1, <3>2, <3>3, <2>0, Blended
    <3> QED BY <3>4 DEF Cut, t
  <2> QED BY <2>1, <2>2
<1> HIDE DEF s
<1>2. [k \in DOMAIN read |-> Shift(Mask(s[read[k][1]], read[k][2]), read[k][3])]
        = [k \in DOMAIN read |-> Shift(Mask(q[read[k][1]], read[k][2]), read[k][3])]
  BY <1>1
<1> QED BY <1>2 DEF PixelOf, s

\* What a read makes of the byte a write of v has left: the bits it put there.
\* First a byte whose low bits the write keeps.
LEMMA Back63 ==
    ASSUME NEW b \in Octet, NEW v \in Nat
    PROVE  Cut(Blend(b, 63, v, 6), 255, -6) = v % 4
<1> DEFINE c == Blend(b, 63, v, 6)
<1>1. c \in Octet /\ c \div 64 = v % 4
  BY LowKept
<1> HIDE DEF c
<1>2. Cut(c, 255, -6) = c \div 64
  BY <1>1, Cuts
<1> QED BY <1>1, <1>2 DEF c

\* The same for another mask.
LEMMA Back15 ==
    ASSUME NEW b \in Octet, NEW v \in Nat
    PROVE  Cut(Blend(b, 15, v, 4), 255, -4) = v % 16
<1> DEFINE c == Blend(b, 15, v, 4)
<1>1. c \in Octet /\ c \div 16 = v % 16
  BY LowKept
<1> HIDE DEF c
<1>2. Cut(c, 255, -4) = c \div 16
  BY <1>1, Cuts
<1> QED BY <1>1, <1>2 DEF c

\* The same for another mask.
LEMMA Back3 ==
    ASSUME NEW b \in Octet, NEW v \in Nat
    PROVE  Cut(Blend(b, 3, v, 2), 255, -2) = v % 64
<1> DEFINE c == Blend(b, 3, v, 2)
<1>1. c \in Octet /\ c \div 4 = v % 64
  BY LowKept
<1> HIDE DEF c
<1>2. Cut(c, 255, -2) = c \div 4
  BY <1>1, Cuts
<1> QED BY <1>1, <1>2 DEF c

\* A byte of which the write keeps nothing.
LEMMA Back0_0 ==
    ASSUME NEW b \in Octet, NEW v \in Nat
    PROVE  Cut(Blend(b, 0, v, 0), 255, 0) = v % 256
<1> DEFINE w == v
           c == w % 256
<1>1. w \in Nat /\ Shift(v, 0) = w
  BY Quotients, Shifts
<1>2. Blend(b, 0, v, 0) = c /\ c \in Octet
  <2> HIDE DEF w
  <2> QED BY <1>1, NoneKept
<1> HIDE DEF c
<1>3. Cut(c, 255, 0) = c
  BY <1>2, Cuts
<1> QED BY <1>2, <1>3 DEF c

\* The same for another shift.
LEMMA Back0_2 ==
    ASSUME NEW b \in Octet, NEW v \in Nat
    PROVE  Cut(Blend(b, 0, v, -2), 255, 2) = ((v \div 4) % 256) * 4
<1> DEFINE w == v \div 4
           c == w % 256
<1>1. w \in Nat /\ Shift(v, -2) = w
  BY Quotients, Shifts
<1>2. Blend(b, 0, v, -2) = c /\ c \in Octet
  <2> HIDE DEF w
  <2> QED BY <1>1, NoneKept
<1> HIDE DEF c
<1>3. Cut(c, 255, 2) = c * 4
  BY <1>2, Cuts
<1> QED BY <1>2, <1>3 DEF c

\* The same for another shift.
LEMMA Back0_4 ==
    ASSUME NEW b \in Octet, NEW v \in Nat
    PROVE  Cut(Blend(b, 0, v, -4), 255, 4) = ((v \div 16) % 256) * 16
<1> DEFINE w == v \div 16
           c == w % 256
<1>1. w \in Nat /\ Shift(v, -4) = w
  BY Quotients, Shifts
<1>2. Blend(b, 0, v, -4) = c /\ c \in Octet
  <2> HIDE DEF w
  <2> QED BY <1>1, NoneKept
<1> HIDE DEF c
<1>3. Cut(c, 255, 4) = c * 16
  BY <1>2, Cuts
<1> QED BY <1>2, <1>3 DEF c

\* The same for another shift.
LEMMA Back0_6 ==
    ASSUME NEW b \in Octet, NEW v \in Nat
    PROVE  Cut(Blend(b, 0, v, -6), 255, 6) = ((v \div 64) % 256) * 64
<1> DEFINE w == v \div 64
           c == w % 256
<1>1. w \in Nat /\ Shift(v, -6) = w
  BY Quotients, Shifts
<1>2. Blend(b, 0, v, -6) = c /\ c \in Octet
  <2> HIDE DEF w
  <2> QED BY <1>1, NoneKept
<1> HIDE DEF c
<1>3. Cut(c, 255, 6) = c * 64
  BY <1>2, Cuts
<1> QED BY <1>2, <1>3 DEF c

\* The same for another shift.
LEMMA Back0_8 ==
    ASSUME NEW b \in Octet, NEW v \in Nat
    PROVE  Cut(Blend(b, 0, v, -8), 255, 8) = ((v \div 256) % 256) * 256
<1> DEFINE w == v \div 256
           c == w % 256
<1>1. w \in Nat /\ Shift(v, -8) = w
  BY Quotients, Shifts
<1>2. Blend(b, 0, v, -8) = c /\ c \in Octet
  <2> HIDE DEF w
  <2> QED BY <1>1, NoneKept
<1> HIDE DEF c
<1>3. Cut(c, 255, 8) = c * 256
  BY <1>2, Cuts
<1> QED BY <1>2, <1>3 DEF c

\* A byte whose high bits the write keeps.
LEMMA Back192_4 ==
    ASSUME NEW b \in Octet, NEW v \in Nat, v < 1024
    PROVE  Cut(Blend(b, 192, v, -4), 63, 4) = (v \div 16) * 16
<1> DEFINE w == v \div 16
           c == Blend(b, 192, v, -4)
<1>1. w \in Nat /\ Shift(v, -4) = w /\ w < 64
  BY Quotients, Shifts, Pieces
<1> HIDE DEF w
<1>2. c \in Octet /\ c % 64 = w
  BY <1>1, HighKept
<1> HIDE DEF c
<1>3. Cut(c, 63, 4) = (c % 64) * 16
  BY <1>2, Cuts
<1> QED BY <1>2, <1>3 DEF c, w

\* The same for another mask and shift.
LEMMA Back240_6 ==
    ASSUME NEW b \in Octet, NEW v \in Nat, v < 1024
    PROVE  Cut(Blend(b, 240, v, -6), 15, 6) = (v \div 64) * 64
<1> DEFINE w == v \div 64
           c == Blend(b, 240, v, -6)
<1>1. w \in Nat /\ Shift(v, -6) = w /\ w < 16
  BY Quotients, Shifts, Pieces
<1> HIDE DEF w
<1>2. c \in Octet /\ c % 16 = w
  BY <1>1, HighKept
<1> HIDE DEF c
<1>3. Cut(c, 15, 6) = (c % 16) * 64
  BY <1>2, Cuts
<1> QED BY <1>2, <1>3 DEF c, w

\* The same for another mask and shift.
LEMMA Back252_8 ==
    ASSUME NEW b \in Octet, NEW v \in Nat, v < 1024
    PROVE  Cut(Blend(b, 252, v, -8), 3, 8) = (v \div 256) * 256
<1> DEFINE w == v \div 256
           c == Blend(b, 252, v, -8)
<1>1. w \in Nat /\ Shift(v, -8) = w /\ w < 4
  BY Quotients, Shifts, Pieces
<1> HIDE DEF w
<1>2. c \in Octet /\ c % 4 = w
  BY <1>1, HighKept
<1> HIDE DEF c
<1>3. Cut(c, 3, 8) = (c % 4) * 256
  BY <1>2, Cuts
<1> QED BY <1>2, <1>3 DEF c, w

\* The same for another mask and shift.
LEMMA Back240_8 ==
    ASSUME NEW b \in Octet, NEW v \in Nat, v < 4096
    PROVE  Cut(Blend(b, 240, v, -8), 15, 8) = (v \div 256) * 256
<1> DEFINE w == v \div 256
           c == Blend(b, 240, v, -8)
<1>1. w \in Nat /\ Shift(v, -8) = w /\ w < 16
  BY Quotients, Shifts, Pieces
<1> HIDE DEF w
<1>2. c \in Octet /\ c % 16 = w
  BY <1>1, HighKept
<1> HIDE DEF c
<1>3. Cut(c, 15, 8) = (c % 16) * 256
  BY <1>2, Cuts
<1> QED BY <1>2, <1>3 DEF c, w

\* The same for another mask and shift.
LEMMA Back252_12 ==
    ASSUME NEW b \in Octet, NEW v \in Nat, v < 16384
    PROVE  Cut(Blend(b, 252, v, -12), 3, 12) = (v \div 4096) * 4096
<1> DEFINE w == v \div 4096
           c == Blend(b, 252, v, -12)
<1>1. w \in Nat /\ Shift(v, -12) = w /\ w < 4
  BY Quotients, Shifts, Pieces
<1> HIDE DEF w
<1>2. c \in Octet /\ c % 4 = w
  BY <1>1, HighKept
<1> HIDE DEF c
<1>3. Cut(c, 3, 12) = (c % 4) * 4096
  BY <1>2, Cuts
<1> QED BY <1>2, <1>3 DEF c, w

\* The same for another mask and shift.
LEMMA Back240_10 ==
    ASSUME NEW b \in Octet, NEW v \in Nat, v < 16384
    PROVE  Cut(Blend(b, 240, v, -10), 15, 10) = (v \div 1024) * 1024
<1> DEFINE w == v \div 1024
           c == Blend(b, 240, v, -10)
<1>1. w \in Nat /\ Shift(v, -10) = w /\ w < 16
  BY Quotients, Shifts, Pieces
<1> HIDE DEF w
<1>2. c \in Octet /\ c % 16 = w
  BY <1>1, HighKept
<1> HIDE DEF c
<1>3. Cut(c, 15, 10) = (c % 16) * 1024
  BY <1>2, Cuts
<1> QED BY <1>2, <1>3 DEF c, w

\* The same for another mask and shift.
LEMMA Back192_8 ==
    ASSUME NEW b \in Octet, NEW v \in Nat, v < 16384
    PROVE  Cut(Blend(b, 192, v, -8), 63, 8) = (v \div 256) * 256
<1> DEFINE w == v \div 256
           c == Blend(b, 192, v, -8)
<1>1. w \in Nat /\ Shift(v, -8) = w /\ w < 64
  BY Quotients, Shifts, Pieces
<1> HIDE DEF w
<1>2. c \in Octet /\ c % 64 = w
  BY <1>1, HighKept
<1> HIDE DEF c
<1>3. Cut(c, 63, 8) = (c % 64) * 256
  BY <1>2, Cuts
<1> QED BY <1>2, <1>3 DEF c, w

\* The parts of the writes fit.
LEMMA Fitting ==
    ASSUME NEW v \in Nat
    PROVE  /\ FitsAt(63, 6, v) /\ FitsAt(15, 4, v) /\ FitsAt(3, 2, v)
           /\ \A s \in {0, -2, -4, -6, -8} : FitsAt(0, s, v)
           /\ v < 1024 => FitsAt(192, -4, v) /\ FitsAt(240, -6, v) /\ FitsAt(252, -8, v)
           /\ v < 4096 => FitsAt(240, -8, v)
           /\ v < 16384 => FitsAt(252, -12, v) /\ FitsAt(240, -10, v) /\ FitsAt(192, -8, v)
<1>1. Shift(v, 6) \in Nat /\ Shift(v, 4) \in Nat /\ Shift(v, 2) \in Nat
  BY Powers DEF Shift
<1>2. \A s \in {0, -2, -4, -6, -8, -10, -12} : Shift(v, s) \in Nat
  BY Shifts, Quotients
<1>3. FitsAt(63, 6, v) /\ FitsAt(15, 4, v) /\ FitsAt(3, 2, v)
  BY <1>1 DEF FitsAt
<1>4. \A s \in {0, -2, -4, -6, -8} : FitsAt(0, s, v)
  BY <1>2 DEF FitsAt
<1>5. v < 1024 => FitsAt(192, -4, v) /\ FitsAt(240, -6, v) /\ FitsAt(252, -8, v)
  <2>1. v < 1024 => Shift(v, -4) < 64 /\ Shift(v, -6) < 16 /\ Shift(v, -8) < 4
    BY Shifts, Pieces
  <2> QED BY <2>1, <1>2 DEF FitsAt
<1>6. v < 4096 => FitsAt(240, -8, v)
  <2>1. v < 4096 => Shift(v, -8) < 16
    BY Shifts, Pieces
  <2> QED BY <2>1, <1>2 DEF FitsAt
<1>7. v < 16384 => FitsAt(252, -12, v) /\ FitsAt(240, -10, v) /\ FitsAt(192, -8, v)
  <2>1. v < 16384 => Shift(v, -12) < 4 /\ Shift(v, -10) < 16 /\ Shift(v, -8) < 64
    BY Shifts, Pieces
  <2> QED BY <2>1, <1>2 DEF FitsAt
<1> QED BY <1>3, <1>4, <1>5, <1>6, <1>7

\* A part fits when its mask and its shift do.
LEMMA PartFits ==
    ASSUME NEW v, NEW i, NEW m, NEW s, FitsAt(m, s, v)
    PROVE  Fits(<<i, m, s>>, v)
BY DEF Fits

-----------------------------------------------------------------------------
(***************************************************************************)
(* The layout of a block: the reference, and what the reads make of it.    *)
(***************************************************************************)
\* Where byte i of a row's bits is kept, and pixel z of the block at base cut
\* out of its bits as Stored does.
Swapped(f, i) == IF f \in Little THEN i + 1 - 2 * (i % 2) ELSE i
FirstByte(f, z) == (z * raw_formats[f].bpp) \div 8
LastByte(f, z) == ((z + 1) * raw_formats[f].bpp - 1) \div 8
Excess(f, z) == (z + 1) * raw_formats[f].bpp - 8 * (LastByte(f, z) + 1)
Word(f, p, base, first, last) ==
    Total([k \in 1..(last - first + 1) |->
             Shift(p[base + Swapped(f, first + k - 1)], 8 * (last - first + 1 - k))])
BlockStored(f, p, base, z) ==
    Shift(Word(f, p, base, FirstByte(f, z), LastByte(f, z)), Excess(f, z)) % Pow2[raw_formats[f].bpp]

\* Whole bytes before a bit move its byte on by as many.
LEMMA BytesBefore ==
    ASSUME NEW m \in Int, NEW c \in Int
    PROVE  (m * 8 + c) \div 8 = m + (c \div 8)
OBVIOUS

\* A distance that keeps the halves of words.
EvenIn(f, m) == f \in Little => m % 2 = 0

\* Whole words before a byte do not change which half it is.
LEMMA SwappedOn ==
    ASSUME NEW f, NEW m \in Int, NEW i \in Int, EvenIn(f, m)
    PROVE  Swapped(f, m + i) = m + Swapped(f, i) /\ Swapped(f, i) \in Int
BY DEF Swapped, EvenIn

\* The sizes of a format's block.
RawSizes(f) ==
    /\ raw_formats[f].bpp \in Nat /\ raw_formats[f].block_bytes \in Nat /\ raw_formats[f].block_pixels \in Nat
    /\ raw_formats[f].block_pixels * raw_formats[f].bpp = raw_formats[f].block_bytes * 8
    /\ f \in Little => raw_formats[f].block_bytes % 2 = 0

\* Pixel x of row y is pixel z of the row's block n, which is at this place.
InBlock(f, at, off, row, y, n, x, z) ==
    /\ x = n * raw_formats[f].block_pixels + z
    /\ at = off + (y * row + n * raw_formats[f].block_bytes)

\* A pixel is stored in its block as the block's first row has it.
LEMMA StoredInBlock ==
    ASSUME NEW f, RawSizes(f), NEW p, NEW off \in Nat, NEW row \in Nat, NEW y \in Nat,
           NEW n \in Nat, NEW z \in Nat, NEW x, NEW at, InBlock(f, at, off, row, y, n, x, z)
    PROVE  Stored(f, p, off, row, x, y) = BlockStored(f, p, at, z)
<1> DEFINE bits == raw_formats[f].bpp
           bb == raw_formats[f].block_bytes
           bp == raw_formats[f].block_pixels
           m == n * bb
           c == z * bits
           start == y * row
<1>1. bits \in Nat /\ bb \in Nat /\ bp \in Nat /\ bp * bits = bb * 8 /\ x = n * bp + z
  BY DEF RawSizes, InBlock
<1>2. m \in Nat /\ c \in Nat /\ start \in Nat /\ x \in Nat
  BY <1>1
<1>3. x * bits = m * 8 + c /\ (x + 1) * bits = m * 8 + (c + bits)
  <2> HIDE DEF bits, bb, bp
  <2>1. n * bp \in Nat
    BY <1>1
  <2>2. (n * bp) * bits = n * (bp * bits)
    BY <1>1
  <2>3. n * (bb * 8) = m * 8
    BY <1>1
  <2>4. (n * bp + z) * bits = (n * bp) * bits + z * bits
    BY <1>1, <2>1
  <2>5. (x + 1) * bits = x * bits + bits
    BY <1>1, <1>2
  <2>6. x * bits = m * 8 + c
    BY <1>1, <2>2, <2>3, <2>4
  <2> HIDE DEF m, c
  <2> QED BY <2>5, <2>6, <1>1, <1>2
<1>4. EvenIn(f, m)
  <2> SUFFICES ASSUME f \in Little PROVE m % 2 = 0
    BY DEF EvenIn
  <2> DEFINE h == bb \div 2
  <2>1. h \in Nat /\ bb = 2 * h
    BY <1>1 DEF RawSizes
  <2> HIDE DEF bb, h
  <2>2. m = 2 * (n * h) /\ n * h \in Nat
    BY <2>1
  <2> DEFINE t == n * h
  <2> HIDE DEF t, m
  <2> QED BY <2>2 DEF t
<1> DEFINE fx == (x * bits) \div 8
           lx == ((x + 1) * bits - 1) \div 8
           fz == FirstByte(f, z)
           lz == LastByte(f, z)
<1>5. fx = m + fz /\ lx = m + lz /\ fz \in Int /\ lz \in Int
  <2>1. fx = (m * 8 + c) \div 8 /\ lx = (m * 8 + (c + bits - 1)) \div 8
    <3>1. (x + 1) * bits - 1 = m * 8 + (c + bits - 1)
      <4> DEFINE e == (x + 1) * bits
      <4>1. e = m * 8 + (c + bits)
        BY <1>3
      <4> HIDE DEF m, c, bits, e
      <4>2. e - 1 = m * 8 + (c + bits - 1)
        BY <4>1, <1>1, <1>2
      <4> QED BY <4>2 DEF e
    <3> QED BY <1>3, <3>1, Zenon
  <2>2. (z + 1) * bits - 1 = c + bits - 1
    <3> HIDE DEF bits
    <3> QED BY <1>1
  <2>3. fz = c \div 8 /\ lz = (c + bits - 1) \div 8
    BY <2>2 DEF FirstByte, LastByte
  <2> HIDE DEF m, c, bits, fx, lx, fz, lz
  <2> DEFINE d == c + bits - 1
  <2>4. d \in Int
    BY <1>1, <1>2
  <2> HIDE DEF d
  <2>5. fx = m + (c \div 8) /\ lx = m + (d \div 8) /\ c \div 8 \in Int /\ d \div 8 \in Int
    BY <2>1, <2>4, <1>2, BytesBefore DEF d
  <2> QED BY <2>3, <2>5 DEF d
<1>6. (x + 1) * bits - 8 * (lx + 1) = Excess(f, z)
  <2>1. (z + 1) * bits = c + bits
    <3> HIDE DEF bits
    <3> QED BY <1>1
  <2>2. Excess(f, z) = (c + bits) - 8 * (lz + 1)
    BY <2>1, Zenon DEF Excess
  <2> HIDE DEF m, c, bits, lx, lz
  <2> QED BY <2>2, <1>1, <1>2, <1>3, <1>5
<1> DEFINE base == off + (start + m)
           N == lx - fx + 1
           M == lz - fz + 1
<1>7. \A k \in Int : off + start + Swapped(f, fx + k - 1) = base + Swapped(f, fz + k - 1)
  <2> SUFFICES ASSUME NEW k \in Int
               PROVE  off + start + Swapped(f, fx + k - 1) = base + Swapped(f, fz + k - 1)
    OBVIOUS
  <2> DEFINE j == fz + k - 1
  <2> HIDE DEF fx, fz, lx, lz, m, start
  <2>1. j \in Int /\ fx + k - 1 = m + j
    BY <1>5, <1>2
  <2> HIDE DEF j
  <2>2. Swapped(f, m + j) = m + Swapped(f, j) /\ Swapped(f, j) \in Int
    BY <2>1, <1>2, <1>4, SwappedOn
  <2>3. off + start + (m + Swapped(f, j)) = off + (start + m) + Swapped(f, j)
    <3> DEFINE w == Swapped(f, j)
    <3> HIDE DEF w
    <3> QED BY <2>2, <1>2 DEF w
  <2> QED BY <2>1, <2>2, <2>3 DEF j
<1>8. Stored(f, p, off, row, x, y)
        = Shift(Total([k \in 1..N |-> Shift(p[off + start + Swapped(f, fx + k - 1)], 8 * (lx - fx + 1 - k))]),
                (x + 1) * bits - 8 * (lx + 1)) % Pow2[bits]
  BY Zenon DEF Stored, Swapped
<1>9. N = M /\ \A k \in Int : lx - fx + 1 - k = lz - fz + 1 - k
  <2> HIDE DEF fx, fz, lx, lz
  <2> QED BY <1>5, <1>2
<1>10. [k \in 1..N |-> Shift(p[off + start + Swapped(f, fx + k - 1)], 8 * (lx - fx + 1 - k))]
         = [k \in 1..M |-> Shift(p[base + Swapped(f, fz + k - 1)], 8 * (lz - fz + 1 - k))]
  <2>1. \A k \in 1..M : k \in Int
    BY <1>5
  <2> HIDE DEF base, N, M, fx, fz, lx, lz, start
  <2> QED BY <1>7, <1>9, <2>1
<1>11. BlockStored(f, p, base, z)
         = Shift(Total([k \in 1..M |-> Shift(p[base + Swapped(f, fz + k - 1)], 8 * (lz - fz + 1 - k))]), Excess(f, z))
           % Pow2[bits]
  BY Zenon DEF BlockStored, Word
<1> HIDE DEF base, N, M, fx, fz, lx, lz, start, bits
<1>12. Stored(f, p, off, row, x, y) = BlockStored(f, p, base, z)
  BY <1>6, <1>8, <1>10, <1>11
<1>13. at = base
  BY DEF InBlock, base, start, m
<1> QED BY <1>12, <1>13

\* Two bytes hold a pixel: the bits below it are dropped from the word they
\* make, and those above it.
Pair(bits, m, s, t) ==
    \A a, b \in Octet : /\ Cut(a, m, s) \in Int /\ Cut(b, 255, t) \in Int
                         /\ Cut(a, m, s) + Cut(b, 255, t) = Shift(a * 256 + b, t) % Pow2[bits]
                         /\ Shift(a * 256 + b, t) \in Nat
Triple(m, s, t, u) ==
    \A a, b, c \in Octet :
      /\ Cut(a, m, s) \in Int /\ Cut(b, 255, t) \in Int /\ Cut(c, 255, u) \in Int
      /\ Cut(a, m, s) + Cut(b, 255, t) + Cut(c, 255, u) = Shift(a * 65536 + b * 256 + c, u) % Pow2[14]
      /\ Shift(a * 65536 + b * 256 + c, u) \in Nat

\* What a read takes of a byte is a number.
LEMMA CutNumbers ==
    \A b \in Octet :
      /\ \A s \in {0, 2, 4, 6, 8, -2, -4, -6} : Cut(b, 255, s) \in Nat
      /\ \A s \in {4, 8} : Cut(b, 63, s) \in Nat
      /\ \A s \in {6, 8, 10} : Cut(b, 15, s) \in Nat
      /\ \A s \in {8, 12} : Cut(b, 3, s) \in Nat
<1> SUFFICES ASSUME NEW b \in Octet
             PROVE  /\ \A s \in {0, 2, 4, 6, 8, -2, -4, -6} : Cut(b, 255, s) \in Nat
                    /\ \A s \in {4, 8} : Cut(b, 63, s) \in Nat
                    /\ \A s \in {6, 8, 10} : Cut(b, 15, s) \in Nat
                    /\ \A s \in {8, 12} : Cut(b, 3, s) \in Nat
  OBVIOUS
<1>1. b \in Nat /\ b \div 4 \in Nat /\ b \div 16 \in Nat /\ b \div 64 \in Nat
      /\ b % 4 \in Nat /\ b % 16 \in Nat /\ b % 64 \in Nat
  BY DEF Octet
<1> QED BY <1>1, Cuts

\* The ways pixels lie across two bytes.
LEMMA Pairs ==
    /\ Pair(10, 255, 2, -6) /\ Pair(10, 63, 4, -4) /\ Pair(10, 15, 6, -2) /\ Pair(10, 3, 8, 0)
    /\ Pair(12, 255, 4, -4) /\ Pair(12, 15, 8, 0)
    /\ Pair(14, 255, 6, -2) /\ Pair(14, 63, 8, 0)
    /\ Pair(16, 255, 8, 0)
<1>1. \A a, b \in Octet : a * 4 + (b \div 64) = ((a * 256 + b) \div 64) % 1024
  BY DEF Octet
<1>2. \A a, b \in Octet : (a % 64) * 16 + (b \div 16) = ((a * 256 + b) \div 16) % 1024
  BY DEF Octet
<1>3. \A a, b \in Octet : (a % 16) * 64 + (b \div 4) = ((a * 256 + b) \div 4) % 1024
  BY DEF Octet
<1>4. \A a, b \in Octet : (a % 4) * 256 + b = (a * 256 + b) % 1024
  BY DEF Octet
<1>5. \A a, b \in Octet : a * 16 + (b \div 16) = ((a * 256 + b) \div 16) % 4096
  BY DEF Octet
<1>6. \A a, b \in Octet : (a % 16) * 256 + b = (a * 256 + b) % 4096
  BY DEF Octet
<1>7. \A a, b \in Octet : a * 64 + (b \div 4) = ((a * 256 + b) \div 4) % 16384
  BY DEF Octet
<1>8. \A a, b \in Octet : (a % 64) * 256 + b = (a * 256 + b) % 16384
  BY DEF Octet
<1>9. \A a, b \in Octet : a * 256 + b = (a * 256 + b) % 65536
  BY DEF Octet
<1>10. \A a, b \in Octet : LET w == a * 256 + b IN w \in Nat /\ w \div 4 \in Nat /\ w \div 16 \in Nat /\ w \div 64 \in Nat
  BY DEF Octet
<1>a1. Pair(10, 255, 2, -6)
  BY <1>1, <1>10, Cuts, CutNumbers, Shifts, Powers DEF Pair
<1>a2. Pair(10, 63, 4, -4)
  BY <1>2, <1>10, Cuts, CutNumbers, Shifts, Powers DEF Pair
<1>a3. Pair(10, 15, 6, -2)
  BY <1>3, <1>10, Cuts, CutNumbers, Shifts, Powers DEF Pair
<1>a4. Pair(10, 3, 8, 0)
  BY <1>4, <1>10, Cuts, CutNumbers, Shifts, Powers DEF Pair
<1>a5. Pair(12, 255, 4, -4)
  BY <1>5, <1>10, Cuts, CutNumbers, Shifts, Powers DEF Pair
<1>a6. Pair(12, 15, 8, 0)
  BY <1>6, <1>10, Cuts, CutNumbers, Shifts, Powers DEF Pair
<1>a7. Pair(14, 255, 6, -2)
  BY <1>7, <1>10, Cuts, CutNumbers, Shifts, Powers DEF Pair
<1>a8. Pair(14, 63, 8, 0)
  BY <1>8, <1>10, Cuts, CutNumbers, Shifts, Powers DEF Pair
<1>a9. Pair(16, 255, 8, 0)
  BY <1>9, <1>10, Cuts, CutNumbers, Shifts, Powers DEF Pair
<1> QED BY <1>a1, <1>a2, <1>a3, <1>a4, <1>a5, <1>a6, <1>a7, <1>a8, <1>a9

\* The ways pixels lie across three.
LEMMA Triples == Triple(3, 12, 4, -4) /\ Triple(15, 10, 2, -6)
<1>1. \A a, b, c \in Octet : (a % 4) * 4096 + b * 16 + (c \div 16) = ((a * 65536 + b * 256 + c) \div 16) % 16384
  BY DEF Octet
<1>2. \A a, b, c \in Octet : (a % 16) * 1024 + b * 4 + (c \div 64) = ((a * 65536 + b * 256 + c) \div 64) % 16384
  BY DEF Octet
<1>3. \A a, b, c \in Octet : LET w == a * 65536 + b * 256 + c IN w \in Nat /\ w \div 16 \in Nat /\ w \div 64 \in Nat
  BY DEF Octet
<1>4. Triple(3, 12, 4, -4)
  BY <1>1, <1>3, Cuts, CutNumbers, Shifts, Powers DEF Triple
<1>5. Triple(15, 10, 2, -6)
  BY <1>2, <1>3, Cuts, CutNumbers, Shifts, Powers DEF Triple
<1> QED BY <1>4, <1>5

\* The bytes of the block at base, and what it means that pixel z is read as
\* it is stored.
BlockAt(f, p, base) == [k \in BlockBytes(f) |-> p[base + k]]
ReadsInside(f, z) == \A k \in DOMAIN Reads(f, z) : Reads(f, z)[k][1] \in BlockBytes(f)
Laid(f, p, base, z) ==
    /\ ReadsInside(f, z)
    /\ PixelOf(f, BlockAt(f, p, base), z) = BlockStored(f, p, base, z)
    /\ BlockStored(f, p, base, z) \in Nat /\ BlockStored(f, p, base, z) < Pow2[raw_formats[f].bpp]

\* The bytes pixel z has bits in, and how many bits follow it in the last one.
LiesIn(f, z, first, last, t) == FirstByte(f, z) = first /\ LastByte(f, z) = last /\ Excess(f, z) = t

\* A number cut to the depth of a format fits it.
LEMMA Depth ==
    ASSUME NEW bits \in 1..16, NEW w \in Nat
    PROVE  w % Pow2[bits] \in Nat /\ w % Pow2[bits] < Pow2[bits] /\ Pow2[bits] \in Nat
<1>1. Pow2[bits] \in Nat /\ Pow2[bits] > 0
  BY Powers
<1> DEFINE b == Pow2[bits]
<1>2. b \in Nat /\ b > 0
  BY <1>1
<1> HIDE DEF b
<1>3. w % b \in 0..(b - 1)
  BY <1>2, Quotient
<1> QED BY <1>2, <1>3 DEF b

\* Pixel z of a block is read from these parts, with their masks and shifts, or
\* written to them.
Reads1(f, z, i, m, s) == Reads(f, z) = << <<i, m, s>> >> /\ i \in BlockBytes(f)
Reads2(f, z, i, m, s, j, n, t) ==
    Reads(f, z) = << <<i, m, s>>, <<j, n, t>> >> /\ i \in BlockBytes(f) /\ j \in BlockBytes(f)
Reads3(f, z, i, m, s, j, n, t, k, o, u) ==
    /\ Reads(f, z) = << <<i, m, s>>, <<j, n, t>>, <<k, o, u>> >>
    /\ i \in BlockBytes(f) /\ j \in BlockBytes(f) /\ k \in BlockBytes(f)
Writes1(f, z, i, m, s) == Writes(f, z) = {<<i, m, s>>} /\ i \in BlockBytes(f)
Writes2(f, z, i, m, s, j, n, t) ==
    /\ Writes(f, z) = {<<i, m, s>>, <<j, n, t>>}
    /\ i \in BlockBytes(f) /\ j \in BlockBytes(f) /\ i # j
Writes3(f, z, i, m, s, j, n, t, k, o, u) ==
    /\ Writes(f, z) = {<<i, m, s>>, <<j, n, t>>, <<k, o, u>>}
    /\ i \in BlockBytes(f) /\ j \in BlockBytes(f) /\ k \in BlockBytes(f)
    /\ i # j /\ i # k /\ j # k

\* A pixel of one byte is read as it is stored.
LEMMA OneLaid ==
    ASSUME NEW f, NEW p, NEW base \in Nat, BlockAt(f, p, base) \in [BlockBytes(f) -> Octet],
           NEW z \in Nat, NEW i, Reads1(f, z, i, 255, 0), raw_formats[f].bpp = 8,
           NEW a \in Int, LiesIn(f, z, a, a, 0), Swapped(f, a) = i
    PROVE  Laid(f, p, base, z)
<1>0. Reads(f, z) = << <<i, 255, 0>> >> /\ i \in BlockBytes(f)
  BY DEF Reads1
<1> DEFINE q == BlockAt(f, p, base)
           bits == raw_formats[f].bpp
           BlockByte(l) == Shift(p[base + Swapped(f, a + l - 1)], 8 * (a - a + 1 - l))
           word == Total([l \in 1..(a - a + 1) |-> BlockByte(l)])
<1>1. BlockStored(f, p, base, z) = Shift(word, 0) % Pow2[bits]
  BY Zenon DEF BlockStored, Word, LiesIn
<1>2. q[i] \in Octet /\ q[i] = p[base + i]
  BY <1>0 DEF BlockAt
<1>3. BlockByte(1) = Shift(q[i], 0)
  <2>1. a + 1 - 1 = a /\ 8 * (a - a + 1 - 1) = 0
    OBVIOUS
  <2> QED BY <2>1, <1>2
<1>4. Shift(q[i], 0) = q[i]
  BY Powers DEF Shift
<1>5. word = q[i]
  <2> DEFINE terms == [l \in 1..(a - a + 1) |-> BlockByte(l)]
  <2>1. a - a + 1 = 1
    OBVIOUS
  <2>2. DOMAIN terms = {1} /\ terms[1] = BlockByte(1)
    BY <2>1
  <2> HIDE DEF BlockByte, terms
  <2>3. Total(terms) = q[i]
    BY <2>2, <1>2, <1>3, <1>4 DEF Total, Term, Octet
  <2> QED BY <2>3 DEF terms
<1> HIDE DEF word, BlockByte, q
<1>6. PixelOf(f, q, z) = q[i]
  BY <1>0, <1>2, Cuts, OnePart DEF Octet
<1>7. Shift(word, 0) = q[i] /\ q[i] % 256 = q[i] /\ Pow2[bits] = 256
  BY <1>2, <1>5, Powers DEF Shift, Octet
<1>i. ReadsInside(f, z)
  BY <1>0 DEF ReadsInside
<1> QED BY <1>i, <1>1, <1>2, <1>6, <1>7 DEF Laid, q, Octet

\* The same of two bytes.
LEMMA TwoLaid ==
    ASSUME NEW f, NEW p, NEW base \in Nat, BlockAt(f, p, base) \in [BlockBytes(f) -> Octet],
           NEW z \in Nat, NEW i, NEW m, NEW s, NEW j, NEW t,
           Reads2(f, z, i, m, s, j, 255, t), raw_formats[f].bpp \in 1..16, Pair(raw_formats[f].bpp, m, s, t),
           NEW a \in Int, LiesIn(f, z, a, a + 1, t), Swapped(f, a) = i, Swapped(f, a + 1) = j
    PROVE  Laid(f, p, base, z)
<1>0. Reads(f, z) = << <<i, m, s>>, <<j, 255, t>> >> /\ i \in BlockBytes(f) /\ j \in BlockBytes(f)
  BY DEF Reads2
<1> DEFINE q == BlockAt(f, p, base)
           bits == raw_formats[f].bpp
           BlockByte(l) == Shift(p[base + Swapped(f, a + l - 1)], 8 * ((a + 1) - a + 1 - l))
           word == Total([l \in 1..((a + 1) - a + 1) |-> BlockByte(l)])
<1>1. BlockStored(f, p, base, z) = Shift(word, t) % Pow2[bits]
  BY Zenon DEF BlockStored, Word, LiesIn
<1>2. q[i] \in Octet /\ q[i] = p[base + i] /\ q[j] \in Octet /\ q[j] = p[base + j]
  BY <1>0 DEF BlockAt
<1>3. BlockByte(1) = Shift(q[i], 8) /\ BlockByte(2) = Shift(q[j], 0)
  <2>1. a + 1 - 1 = a /\ 8 * ((a + 1) - a + 1 - 1) = 8 /\ a + 2 - 1 = a + 1 /\ 8 * ((a + 1) - a + 1 - 2) = 0
    OBVIOUS
  <2> QED BY <2>1, <1>2
<1>4. Shift(q[i], 8) = q[i] * 256 /\ Shift(q[j], 0) = q[j]
  BY Powers DEF Shift
<1>5. word = q[i] * 256 + q[j]
  <2> DEFINE terms == [l \in 1..((a + 1) - a + 1) |-> BlockByte(l)]
  <2>1. (a + 1) - a + 1 = 2
    OBVIOUS
  <2>2. DOMAIN terms = {1, 2} /\ terms[1] = BlockByte(1) /\ terms[2] = BlockByte(2)
    BY <2>1
  <2> HIDE DEF BlockByte, terms
  <2> DEFINE x == q[i] * 256
             y == q[j]
  <2>3. x \in Int /\ terms[1] = x /\ y \in Int /\ terms[2] = y
    BY <2>2, <1>2, <1>3, <1>4 DEF Octet
  <2> HIDE DEF x, y
  <2>4. Total(terms) = x + y
    BY <2>2, <2>3 DEF Total, Term
  <2> QED BY <2>4 DEF terms, x, y
<1> HIDE DEF word, BlockByte, q
<1>6. /\ Cut(q[i], m, s) \in Int /\ Cut(q[j], 255, t) \in Int
      /\ Cut(q[i], m, s) + Cut(q[j], 255, t) = Shift(word, t) % Pow2[bits]
      /\ Shift(word, t) \in Nat
  BY <1>2, <1>5 DEF Pair
<1>7. PixelOf(f, q, z) = Cut(q[i], m, s) + Cut(q[j], 255, t)
  BY <1>0, <1>6, TwoParts
<1>8. PixelOf(f, q, z) = BlockStored(f, p, base, z)
  BY <1>1, <1>6, <1>7
<1>9. BlockStored(f, p, base, z) \in Nat /\ BlockStored(f, p, base, z) < Pow2[bits]
  BY <1>1, <1>6, Depth
<1>i. ReadsInside(f, z)
  BY <1>0 DEF ReadsInside
<1> QED BY <1>i, <1>8, <1>9 DEF Laid, q

\* The same of three.
LEMMA ThreeLaid ==
    ASSUME NEW f, NEW p, NEW base \in Nat, BlockAt(f, p, base) \in [BlockBytes(f) -> Octet],
           NEW z \in Nat, NEW i, NEW m, NEW s, NEW j, NEW t, NEW k, NEW u,
           Reads3(f, z, i, m, s, j, 255, t, k, 255, u), raw_formats[f].bpp = 14, Triple(m, s, t, u),
           NEW a \in Int, LiesIn(f, z, a, a + 2, u),
           Swapped(f, a) = i, Swapped(f, a + 1) = j, Swapped(f, a + 2) = k
    PROVE  Laid(f, p, base, z)
<1>0. Reads(f, z) = << <<i, m, s>>, <<j, 255, t>>, <<k, 255, u>> >> /\ i \in BlockBytes(f) /\ j \in BlockBytes(f) /\ k \in BlockBytes(f)
  BY DEF Reads3
<1> DEFINE q == BlockAt(f, p, base)
           bits == raw_formats[f].bpp
           BlockByte(l) == Shift(p[base + Swapped(f, a + l - 1)], 8 * ((a + 2) - a + 1 - l))
           word == Total([l \in 1..((a + 2) - a + 1) |-> BlockByte(l)])
<1>1. BlockStored(f, p, base, z) = Shift(word, u) % Pow2[bits]
  BY Zenon DEF BlockStored, Word, LiesIn
<1>2. q[i] \in Octet /\ q[i] = p[base + i] /\ q[j] \in Octet /\ q[j] = p[base + j] /\ q[k] \in Octet /\ q[k] = p[base + k]
  BY <1>0 DEF BlockAt
<1>3. BlockByte(1) = Shift(q[i], 16) /\ BlockByte(2) = Shift(q[j], 8) /\ BlockByte(3) = Shift(q[k], 0)
  <2>1. a + 1 - 1 = a /\ 8 * ((a + 2) - a + 1 - 1) = 16 /\ a + 2 - 1 = a + 1 /\ 8 * ((a + 2) - a + 1 - 2) = 8 /\ a + 3 - 1 = a + 2 /\ 8 * ((a + 2) - a + 1 - 3) = 0
    OBVIOUS
  <2> QED BY <2>1, <1>2
<1>4. Shift(q[i], 16) = q[i] * 65536 /\ Shift(q[j], 8) = q[j] * 256 /\ Shift(q[k], 0) = q[k]
  BY Powers DEF Shift
<1>5. word = q[i] * 65536 + q[j] * 256 + q[k]
  <2> DEFINE terms == [l \in 1..((a + 2) - a + 1) |-> BlockByte(l)]
  <2>1. 1..((a + 2) - a + 1) = {1, 2, 3}
    OBVIOUS
  <2>2. DOMAIN terms = {1, 2, 3} /\ terms[1] = BlockByte(1) /\ terms[2] = BlockByte(2) /\ terms[3] = BlockByte(3)
    BY <2>1, Zenon
  <2> HIDE DEF BlockByte, terms
  <2> DEFINE x == q[i] * 65536
             y == q[j] * 256
             w == q[k]
  <2>3. x \in Int /\ terms[1] = x /\ y \in Int /\ terms[2] = y /\ w \in Int /\ terms[3] = w
    BY <2>2, <1>2, <1>3, <1>4 DEF Octet
  <2> HIDE DEF x, y, w
  <2>4. Total(terms) = x + y + w
    BY <2>2, <2>3 DEF Total, Term
  <2> QED BY <2>4 DEF terms, x, y, w
<1> HIDE DEF word, BlockByte, q
<1>6. /\ Cut(q[i], m, s) \in Int /\ Cut(q[j], 255, t) \in Int /\ Cut(q[k], 255, u) \in Int
      /\ Cut(q[i], m, s) + Cut(q[j], 255, t) + Cut(q[k], 255, u) = Shift(word, u) % Pow2[bits]
      /\ Shift(word, u) \in Nat
  BY <1>2, <1>5 DEF Triple
<1>7. PixelOf(f, q, z) = Cut(q[i], m, s) + Cut(q[j], 255, t) + Cut(q[k], 255, u)
  BY <1>0, <1>6, ThreeParts
<1>8. PixelOf(f, q, z) = BlockStored(f, p, base, z)
  BY <1>1, <1>6, <1>7
<1>9. BlockStored(f, p, base, z) \in Nat /\ BlockStored(f, p, base, z) < Pow2[bits]
  BY <1>1, <1>6, Depth
<1>i. ReadsInside(f, z)
  BY <1>0 DEF ReadsInside
<1> QED BY <1>i, <1>8, <1>9 DEF Laid, q

\* The parts of a read give back what the parts of a write of v put into their
\* bytes: each part is the mask and the shift of the read, then of the write.
Restores1(v, m, s, c, d) ==
    \A a \in Octet : Cut(Blend(a, c, v, d), m, s) = v
Restores2(v, m, s, c, d, n, t, g, h) ==
    \A a, b \in Octet : LET x == Cut(Blend(a, c, v, d), m, s)
                            y == Cut(Blend(b, g, v, h), n, t)
                        IN  x \in Int /\ y \in Int /\ x + y = v
Restores3(v, m, s, c, d, n, t, g, h, o, u, k, l) ==
    \A a, b, e \in Octet : LET x == Cut(Blend(a, c, v, d), m, s)
                               y == Cut(Blend(b, g, v, h), n, t)
                               w == Cut(Blend(e, k, v, l), o, u)
                           IN  x \in Int /\ y \in Int /\ w \in Int /\ x + y + w = v

\* They do in every format.
LEMMA Restored ==
    ASSUME NEW v \in Nat
    PROVE  /\ v < 256 => /\ Restores1(v, 255, 0, 0, 0)
           /\ v < 1024 => /\ Restores2(v, 255, 2, 0, -2, 255, -6, 63, 6)
                          /\ Restores2(v, 63, 4, 192, -4, 255, -4, 15, 4)
                          /\ Restores2(v, 15, 6, 240, -6, 255, -2, 3, 2)
                          /\ Restores2(v, 3, 8, 252, -8, 255, 0, 0, 0)
           /\ v < 4096 => /\ Restores2(v, 255, 4, 0, -4, 255, -4, 15, 4)
                          /\ Restores2(v, 15, 8, 240, -8, 255, 0, 0, 0)
           /\ v < 16384 => /\ Restores2(v, 255, 6, 0, -6, 255, -2, 3, 2)
                           /\ Restores2(v, 63, 8, 192, -8, 255, 0, 0, 0)
                           /\ Restores3(v, 3, 12, 252, -12, 255, 4, 0, -4, 255, -4, 15, 4)
                           /\ Restores3(v, 15, 10, 240, -10, 255, 2, 0, -2, 255, -6, 63, 6)
           /\ v < 65536 => /\ Restores2(v, 255, 8, 0, -8, 255, 0, 0, 0)
<1>1. v < 256 => Restores1(v, 255, 0, 0, 0)
  <2> SUFFICES ASSUME v < 256 PROVE Restores1(v, 255, 0, 0, 0)
    OBVIOUS
  <2> DEFINE x == v % 256
  <2>1. x \in Int
    BY Quotients
  <2>2. x = v
    BY Sums
  <2>3. \A a \in Octet : Cut(Blend(a, 0, v, 0), 255, 0) = x
    BY Back0_0
  <2> HIDE DEF x
  <2> QED BY <2>1, <2>2, <2>3 DEF Restores1
<1>2. v < 1024 => Restores2(v, 255, 2, 0, -2, 255, -6, 63, 6)
  <2> SUFFICES ASSUME v < 1024 PROVE Restores2(v, 255, 2, 0, -2, 255, -6, 63, 6)
    OBVIOUS
  <2> DEFINE x == ((v \div 4) % 256) * 4
             y == v % 4
  <2>1. x \in Int /\ y \in Int
    BY Quotients
  <2>2. x + y = v
    BY Sums
  <2>3. \A a \in Octet : Cut(Blend(a, 0, v, -2), 255, 2) = x
    BY Back0_2
  <2>4. \A b \in Octet : Cut(Blend(b, 63, v, 6), 255, -6) = y
    BY Back63
  <2> HIDE DEF x, y
  <2> QED BY <2>1, <2>2, <2>3, <2>4 DEF Restores2
<1>3. v < 1024 => Restores2(v, 63, 4, 192, -4, 255, -4, 15, 4)
  <2> SUFFICES ASSUME v < 1024 PROVE Restores2(v, 63, 4, 192, -4, 255, -4, 15, 4)
    OBVIOUS
  <2> DEFINE x == (v \div 16) * 16
             y == v % 16
  <2>1. x \in Int /\ y \in Int
    BY Quotients
  <2>2. x + y = v
    BY Sums
  <2>3. \A a \in Octet : Cut(Blend(a, 192, v, -4), 63, 4) = x
    BY Back192_4
  <2>4. \A b \in Octet : Cut(Blend(b, 15, v, 4), 255, -4) = y
    BY Back15
  <2> HIDE DEF x, y
  <2> QED BY <2>1, <2>2, <2>3, <2>4 DEF Restores2
<1>4. v < 1024 => Restores2(v, 15, 6, 240, -6, 255, -2, 3, 2)
  <2> SUFFICES ASSUME v < 1024 PROVE Restores2(v, 15, 6, 240, -6, 255, -2, 3, 2)
    OBVIOUS
  <2> DEFINE x == (v \div 64) * 64
             y == v % 64
  <2>1. x \in Int /\ y \in Int
    BY Quotients
  <2>2. x + y = v
    BY Sums
  <2>3. \A a \in Octet : Cut(Blend(a, 240, v, -6), 15, 6) = x
    BY Back240_6
  <2>4. \A b \in Octet : Cut(Blend(b, 3, v, 2), 255, -2) = y
    BY Back3
  <2> HIDE DEF x, y
  <2> QED BY <2>1, <2>2, <2>3, <2>4 DEF Restores2
<1>5. v < 1024 => Restores2(v, 3, 8, 252, -8, 255, 0, 0, 0)
  <2> SUFFICES ASSUME v < 1024 PROVE Restores2(v, 3, 8, 252, -8, 255, 0, 0, 0)
    OBVIOUS
  <2> DEFINE x == (v \div 256) * 256
             y == v % 256
  <2>1. x \in Int /\ y \in Int
    BY Quotients
  <2>2. x + y = v
    BY Sums
  <2>3. \A a \in Octet : Cut(Blend(a, 252, v, -8), 3, 8) = x
    BY Back252_8
  <2>4. \A b \in Octet : Cut(Blend(b, 0, v, 0), 255, 0) = y
    BY Back0_0
  <2> HIDE DEF x, y
  <2> QED BY <2>1, <2>2, <2>3, <2>4 DEF Restores2
<1>6. v < 4096 => Restores2(v, 255, 4, 0, -4, 255, -4, 15, 4)
  <2> SUFFICES ASSUME v < 4096 PROVE Restores2(v, 255, 4, 0, -4, 255, -4, 15, 4)
    OBVIOUS
  <2> DEFINE x == ((v \div 16) % 256) * 16
             y == v % 16
  <2>1. x \in Int /\ y \in Int
    BY Quotients
  <2>2. x + y = v
    BY Sums
  <2>3. \A a \in Octet : Cut(Blend(a, 0, v, -4), 255, 4) = x
    BY Back0_4
  <2>4. \A b \in Octet : Cut(Blend(b, 15, v, 4), 255, -4) = y
    BY Back15
  <2> HIDE DEF x, y
  <2> QED BY <2>1, <2>2, <2>3, <2>4 DEF Restores2
<1>7. v < 4096 => Restores2(v, 15, 8, 240, -8, 255, 0, 0, 0)
  <2> SUFFICES ASSUME v < 4096 PROVE Restores2(v, 15, 8, 240, -8, 255, 0, 0, 0)
    OBVIOUS
  <2> DEFINE x == (v \div 256) * 256
             y == v % 256
  <2>1. x \in Int /\ y \in Int
    BY Quotients
  <2>2. x + y = v
    BY Sums
  <2>3. \A a \in Octet : Cut(Blend(a, 240, v, -8), 15, 8) = x
    BY Back240_8
  <2>4. \A b \in Octet : Cut(Blend(b, 0, v, 0), 255, 0) = y
    BY Back0_0
  <2> HIDE DEF x, y
  <2> QED BY <2>1, <2>2, <2>3, <2>4 DEF Restores2
<1>8. v < 16384 => Restores2(v, 255, 6, 0, -6, 255, -2, 3, 2)
  <2> SUFFICES ASSUME v < 16384 PROVE Restores2(v, 255, 6, 0, -6, 255, -2, 3, 2)
    OBVIOUS
  <2> DEFINE x == ((v \div 64) % 256) * 64
             y == v % 64
  <2>1. x \in Int /\ y \in Int
    BY Quotients
  <2>2. x + y = v
    BY Sums
  <2>3. \A a \in Octet : Cut(Blend(a, 0, v, -6), 255, 6) = x
    BY Back0_6
  <2>4. \A b \in Octet : Cut(Blend(b, 3, v, 2), 255, -2) = y
    BY Back3
  <2> HIDE DEF x, y
  <2> QED BY <2>1, <2>2, <2>3, <2>4 DEF Restores2
<1>9. v < 16384 => Restores2(v, 63, 8, 192, -8, 255, 0, 0, 0)
  <2> SUFFICES ASSUME v < 16384 PROVE Restores2(v, 63, 8, 192, -8, 255, 0, 0, 0)
    OBVIOUS
  <2> DEFINE x == (v \div 256) * 256
             y == v % 256
  <2>1. x \in Int /\ y \in Int
    BY Quotients
  <2>2. x + y = v
    BY Sums
  <2>3. \A a \in Octet : Cut(Blend(a, 192, v, -8), 63, 8) = x
    BY Back192_8
  <2>4. \A b \in Octet : Cut(Blend(b, 0, v, 0), 255, 0) = y
    BY Back0_0
  <2> HIDE DEF x, y
  <2> QED BY <2>1, <2>2, <2>3, <2>4 DEF Restores2
<1>10. v < 16384 => Restores3(v, 3, 12, 252, -12, 255, 4, 0, -4, 255, -4, 15, 4)
  <2> SUFFICES ASSUME v < 16384 PROVE Restores3(v, 3, 12, 252, -12, 255, 4, 0, -4, 255, -4, 15, 4)
    OBVIOUS
  <2> DEFINE x == (v \div 4096) * 4096
             y == ((v \div 16) % 256) * 16
             w == v % 16
  <2>1. x \in Int /\ y \in Int /\ w \in Int
    BY Quotients
  <2>2. x + y + w = v
    BY Pieces
  <2>3. \A a \in Octet : Cut(Blend(a, 252, v, -12), 3, 12) = x
    BY Back252_12
  <2>4. \A b \in Octet : Cut(Blend(b, 0, v, -4), 255, 4) = y
    BY Back0_4
  <2>5. \A e \in Octet : Cut(Blend(e, 15, v, 4), 255, -4) = w
    BY Back15
  <2> HIDE DEF x, y, w
  <2> QED BY <2>1, <2>2, <2>3, <2>4, <2>5 DEF Restores3
<1>11. v < 16384 => Restores3(v, 15, 10, 240, -10, 255, 2, 0, -2, 255, -6, 63, 6)
  <2> SUFFICES ASSUME v < 16384 PROVE Restores3(v, 15, 10, 240, -10, 255, 2, 0, -2, 255, -6, 63, 6)
    OBVIOUS
  <2> DEFINE x == (v \div 1024) * 1024
             y == ((v \div 4) % 256) * 4
             w == v % 4
  <2>1. x \in Int /\ y \in Int /\ w \in Int
    BY Quotients
  <2>2. x + y + w = v
    BY Pieces
  <2>3. \A a \in Octet : Cut(Blend(a, 240, v, -10), 15, 10) = x
    BY Back240_10
  <2>4. \A b \in Octet : Cut(Blend(b, 0, v, -2), 255, 2) = y
    BY Back0_2
  <2>5. \A e \in Octet : Cut(Blend(e, 63, v, 6), 255, -6) = w
    BY Back63
  <2> HIDE DEF x, y, w
  <2> QED BY <2>1, <2>2, <2>3, <2>4, <2>5 DEF Restores3
<1>12. v < 65536 => Restores2(v, 255, 8, 0, -8, 255, 0, 0, 0)
  <2> SUFFICES ASSUME v < 65536 PROVE Restores2(v, 255, 8, 0, -8, 255, 0, 0, 0)
    OBVIOUS
  <2> DEFINE x == ((v \div 256) % 256) * 256
             y == v % 256
  <2>1. x \in Int /\ y \in Int
    BY Quotients
  <2>2. x + y = v
    BY Sums
  <2>3. \A a \in Octet : Cut(Blend(a, 0, v, -8), 255, 8) = x
    BY Back0_8
  <2>4. \A b \in Octet : Cut(Blend(b, 0, v, 0), 255, 0) = y
    BY Back0_0
  <2> HIDE DEF x, y
  <2> QED BY <2>1, <2>2, <2>3, <2>4 DEF Restores2
<1> QED BY <1>1, <1>2, <1>3, <1>4, <1>5, <1>6, <1>7, <1>8, <1>9, <1>10, <1>11, <1>12

\* A write of one part can be made when it fits.
LEMMA OneWritable ==
    ASSUME NEW f, NEW z, NEW v, NEW i, NEW m, NEW s,
           Writes1(f, z, i, m, s),
           FitsAt(m, s, v)
    PROVE  Writable(f, z, v)
<1>1. Fits(<<i, m, s>>, v)
  BY PartFits
<1> QED BY <1>1 DEF Writable, Writes1

\* Of two.
LEMMA TwoWritable ==
    ASSUME NEW f, NEW z, NEW v, NEW i, NEW m, NEW s, NEW j, NEW n, NEW t,
           Writes2(f, z, i, m, s, j, n, t),
           FitsAt(m, s, v), FitsAt(n, t, v)
    PROVE  Writable(f, z, v)
<1>1. Fits(<<i, m, s>>, v) /\ Fits(<<j, n, t>>, v)
  BY PartFits
<1> QED BY <1>1 DEF Writable, Writes2

\* Of three.
LEMMA ThreeWritable ==
    ASSUME NEW f, NEW z, NEW v, NEW i, NEW m, NEW s, NEW j, NEW n, NEW t, NEW k, NEW o, NEW u,
           Writes3(f, z, i, m, s, j, n, t, k, o, u),
           FitsAt(m, s, v), FitsAt(n, t, v), FitsAt(o, u, v)
    PROVE  Writable(f, z, v)
<1>1. Fits(<<i, m, s>>, v) /\ Fits(<<j, n, t>>, v) /\ Fits(<<k, o, u>>, v)
  BY PartFits
<1> QED BY <1>1 DEF Writable, Writes3

\* What was written to a pixel of one part is read from it.
LEMMA OneWritten ==
    ASSUME NEW f, NEW q \in [BlockBytes(f) -> Octet], NEW z, NEW v \in Int, Writable(f, z, v),
           NEW i, NEW m, NEW s, NEW c, NEW d,
           Reads1(f, z, i, m, s),
           Writes1(f, z, i, c, d),
           Restores1(v, m, s, c, d)
    PROVE  PixelOf(f, Written(f, q, z, v), z) = v
<1> DEFINE r == Written(f, q, z, v)
<1>0. /\ Reads(f, z) = << <<i, m, s>> >>
      /\ <<i, c, d>> \in Writes(f, z)
      /\ i \in BlockBytes(f)
  BY DEF Reads1, Writes1
<1>1. DOMAIN q = BlockBytes(f) /\ q[i] \in Octet
  BY <1>0
<1>2. r[i] = Blend(q[i], c, v, d)
  BY <1>0, <1>1, WriteOf
<1> HIDE DEF r
<1>3. Cut(r[i], m, s) = v
  BY <1>1, <1>2 DEF Restores1
<1> QED BY <1>0, <1>3, OnePart DEF r

\* Of two.
LEMMA TwoWritten ==
    ASSUME NEW f, NEW q \in [BlockBytes(f) -> Octet], NEW z, NEW v \in Int, Writable(f, z, v),
           NEW i, NEW m, NEW s, NEW c, NEW d, NEW j, NEW n, NEW t, NEW g, NEW h,
           Reads2(f, z, i, m, s, j, n, t),
           Writes2(f, z, i, c, d, j, g, h),
           Restores2(v, m, s, c, d, n, t, g, h)
    PROVE  PixelOf(f, Written(f, q, z, v), z) = v
<1> DEFINE r == Written(f, q, z, v)
<1>0. /\ Reads(f, z) = << <<i, m, s>>, <<j, n, t>> >>
      /\ <<i, c, d>> \in Writes(f, z) /\ <<j, g, h>> \in Writes(f, z)
      /\ i \in BlockBytes(f) /\ j \in BlockBytes(f)
  BY DEF Reads2, Writes2
<1>1. DOMAIN q = BlockBytes(f) /\ q[i] \in Octet /\ q[j] \in Octet
  BY <1>0
<1>2. r[i] = Blend(q[i], c, v, d)
  BY <1>0, <1>1, WriteOf
<1>3. r[j] = Blend(q[j], g, v, h)
  BY <1>0, <1>1, WriteOf
<1> HIDE DEF r
<1>4. Cut(r[i], m, s) \in Int /\ Cut(r[j], n, t) \in Int /\ Cut(r[i], m, s) + Cut(r[j], n, t) = v
  BY <1>1, <1>2, <1>3 DEF Restores2
<1>5. PixelOf(f, r, z) = Cut(r[i], m, s) + Cut(r[j], n, t)
  BY <1>0, <1>4, TwoParts
<1> QED BY <1>4, <1>5 DEF r

\* Of three.
LEMMA ThreeWritten ==
    ASSUME NEW f, NEW q \in [BlockBytes(f) -> Octet], NEW z, NEW v \in Int, Writable(f, z, v),
           NEW i, NEW m, NEW s, NEW c, NEW d, NEW j, NEW n, NEW t, NEW g, NEW h, NEW k, NEW o, NEW u, NEW x, NEW y,
           Reads3(f, z, i, m, s, j, n, t, k, o, u),
           Writes3(f, z, i, c, d, j, g, h, k, x, y),
           Restores3(v, m, s, c, d, n, t, g, h, o, u, x, y)
    PROVE  PixelOf(f, Written(f, q, z, v), z) = v
<1> DEFINE r == Written(f, q, z, v)
<1>0. /\ Reads(f, z) = << <<i, m, s>>, <<j, n, t>>, <<k, o, u>> >>
      /\ <<i, c, d>> \in Writes(f, z) /\ <<j, g, h>> \in Writes(f, z) /\ <<k, x, y>> \in Writes(f, z)
      /\ i \in BlockBytes(f) /\ j \in BlockBytes(f) /\ k \in BlockBytes(f)
  BY DEF Reads3, Writes3
<1>1. DOMAIN q = BlockBytes(f) /\ q[i] \in Octet /\ q[j] \in Octet /\ q[k] \in Octet
  BY <1>0
<1>2. r[i] = Blend(q[i], c, v, d)
  BY <1>0, <1>1, WriteOf
<1>3. r[j] = Blend(q[j], g, v, h)
  BY <1>0, <1>1, WriteOf
<1>4. r[k] = Blend(q[k], x, v, y)
  BY <1>0, <1>1, WriteOf
<1> HIDE DEF r
<1>5. Cut(r[i], m, s) \in Int /\ Cut(r[j], n, t) \in Int /\ Cut(r[k], o, u) \in Int /\ Cut(r[i], m, s) + Cut(r[j], n, t) + Cut(r[k], o, u) = v
  BY <1>1, <1>2, <1>3, <1>4 DEF Restores3
<1>6. PixelOf(f, r, z) = Cut(r[i], m, s) + Cut(r[j], n, t) + Cut(r[k], o, u)
  BY <1>0, <1>5, ThreeParts
<1> QED BY <1>5, <1>6 DEF r

-----------------------------------------------------------------------------
(***************************************************************************)
(* The nine formats.                                                       *)
(***************************************************************************)
\* The 8 bit format: the sizes of its block.
LEMMA Shape8l ==
    /\ raw_formats["f8l"].bpp = 8 /\ raw_formats["f8l"].block_bytes = 1 /\ raw_formats["f8l"].block_pixels = 1
    /\ Len(raw_formats["f8l"].get) = 1 /\ Len(raw_formats["f8l"].set) = 1
    /\ BlockBytes("f8l") = 0..0 /\ RawSizes("f8l") /\ "f8l" \notin Little
<1>1. raw_formats["f8l"] = Pixel8
  BY DEF raw_formats
<1>2. Pixel8.bpp = 8 /\ Pixel8.block_bytes = 1 /\ Pixel8.block_pixels = 1
  BY DEF Pixel8, FMT_DEF
<1>3. Len(Pixel8.get) = 1 /\ Len(Pixel8.set) = 1
  BY DEF Pixel8, FMT_DEF
<1>4. "f8l" \notin Little
  BY DEF Little
<1> QED BY <1>1, <1>2, <1>3, <1>4 DEF BlockBytes, RawSizes

\* The parts of its pixels.
LEMMA Rows8l ==
    /\ Reads1("f8l", 0, 0, 255, 0) /\ Writes1("f8l", 0, 0, 0, 0)
<1>1. raw_formats["f8l"] = Pixel8
  BY DEF raw_formats
<1>2. Reads1("f8l", 0, 0, 255, 0) /\ Writes1("f8l", 0, 0, 0, 0)
  <2>1. Reads("f8l", 0) = << <<0, 255, 0>> >> /\ Writes("f8l", 0) = {<<0, 0, 0>>}
    BY <1>1 DEF Pixel8, FMT_DEF, Reads, Writes
  <2> QED BY <2>1, Shape8l DEF Reads1, Writes1
<1> QED BY <1>2

\* Its pixels are read where the format stores them.
LEMMA Layout8l ==
    ASSUME NEW p, NEW base \in Nat, BlockAt("f8l", p, base) \in [BlockBytes("f8l") -> Octet],
           NEW z \in 0..0
    PROVE  Laid("f8l", p, base, z)
<1>0. Laid("f8l", p, base, 0)
  <2>1. LiesIn("f8l", 0, 0, 0, 0)
    BY Shape8l DEF LiesIn, FirstByte, LastByte, Excess
  <2>2. Swapped("f8l", 0) = 0
    BY Shape8l DEF Swapped
  <2>3. Reads1("f8l", 0, 0, 255, 0) /\ raw_formats["f8l"].bpp = 8
    BY Shape8l, Rows8l
  <2> QED BY <2>1, <2>2, <2>3, OneLaid
<1> QED BY <1>0

\* Its writes fit their bytes.
LEMMA Writes8l ==
    ASSUME NEW v \in Nat, v < Pow2[8], NEW z \in 0..0
    PROVE  Writable("f8l", z, v)
<1>0. v < 256
  BY Powers
<1>1. Writable("f8l", 0, v)
  <2>1. FitsAt(0, 0, v)
    BY <1>0, Fitting
  <2> QED BY <2>1, Rows8l, Shape8l, OneWritable
<1> QED BY <1>1

\* What is written to one of its pixels is read from it.
LEMMA Written8l ==
    ASSUME NEW q \in [BlockBytes("f8l") -> Octet], NEW v \in Nat, v < Pow2[8], NEW z \in 0..0
    PROVE  PixelOf("f8l", Written("f8l", q, z, v), z) = v
<1>0. v < 256
  BY Powers
<1>1. PixelOf("f8l", Written("f8l", q, 0, v), 0) = v
  <2>1. Writable("f8l", 0, v) /\ Restores1(v, 255, 0, 0, 0)
    BY <1>0, Writes8l, Restored
  <2> QED BY <2>1, Rows8l, Shape8l, OneWritten
<1> QED BY <1>1

\* The 10 bit format, little endian: the sizes of its block.
LEMMA Shape10l ==
    /\ raw_formats["f10l"].bpp = 10 /\ raw_formats["f10l"].block_bytes = 10 /\ raw_formats["f10l"].block_pixels = 8
    /\ Len(raw_formats["f10l"].get) = 8 /\ Len(raw_formats["f10l"].set) = 8
    /\ BlockBytes("f10l") = 0..9 /\ RawSizes("f10l") /\ "f10l" \in Little
<1>1. raw_formats["f10l"] = Pixel10l
  BY DEF raw_formats
<1>2. Pixel10l.bpp = 10 /\ Pixel10l.block_bytes = 10 /\ Pixel10l.block_pixels = 8
  BY DEF Pixel10l, FMT_DEF
<1>3. Len(Pixel10l.get) = 8 /\ Len(Pixel10l.set) = 8
  BY DEF Pixel10l, FMT_DEF
<1>4. "f10l" \in Little
  BY DEF Little
<1> QED BY <1>1, <1>2, <1>3, <1>4 DEF BlockBytes, RawSizes

\* The parts of its pixels.
LEMMA Rows10l ==
    /\ Reads2("f10l", 0, 1, 255, 2, 0, 255, -6) /\ Writes2("f10l", 0, 1, 0, -2, 0, 63, 6)
    /\ Reads2("f10l", 1, 0, 63, 4, 3, 255, -4) /\ Writes2("f10l", 1, 0, 192, -4, 3, 15, 4)
    /\ Reads2("f10l", 2, 3, 15, 6, 2, 255, -2) /\ Writes2("f10l", 2, 3, 240, -6, 2, 3, 2)
    /\ Reads2("f10l", 3, 2, 3, 8, 5, 255, 0) /\ Writes2("f10l", 3, 2, 252, -8, 5, 0, 0)
    /\ Reads2("f10l", 4, 4, 255, 2, 7, 255, -6) /\ Writes2("f10l", 4, 4, 0, -2, 7, 63, 6)
    /\ Reads2("f10l", 5, 7, 63, 4, 6, 255, -4) /\ Writes2("f10l", 5, 7, 192, -4, 6, 15, 4)
    /\ Reads2("f10l", 6, 6, 15, 6, 9, 255, -2) /\ Writes2("f10l", 6, 6, 240, -6, 9, 3, 2)
    /\ Reads2("f10l", 7, 9, 3, 8, 8, 255, 0) /\ Writes2("f10l", 7, 9, 252, -8, 8, 0, 0)
<1>1. raw_formats["f10l"] = Pixel10l
  BY DEF raw_formats
<1>2. Reads2("f10l", 0, 1, 255, 2, 0, 255, -6) /\ Writes2("f10l", 0, 1, 0, -2, 0, 63, 6)
  <2>1. Reads("f10l", 0) = << <<1, 255, 2>>, <<0, 255, -6>> >> /\ Writes("f10l", 0) = {<<0, 63, 6>>, <<1, 0, -2>>}
    BY <1>1 DEF Pixel10l, FMT_DEF, Reads, Writes
  <2> QED BY <2>1, Shape10l DEF Reads2, Writes2
<1>3. Reads2("f10l", 1, 0, 63, 4, 3, 255, -4) /\ Writes2("f10l", 1, 0, 192, -4, 3, 15, 4)
  <2>1. Reads("f10l", 1) = << <<0, 63, 4>>, <<3, 255, -4>> >> /\ Writes("f10l", 1) = {<<0, 192, -4>>, <<3, 15, 4>>}
    BY <1>1 DEF Pixel10l, FMT_DEF, Reads, Writes
  <2> QED BY <2>1, Shape10l DEF Reads2, Writes2
<1>4. Reads2("f10l", 2, 3, 15, 6, 2, 255, -2) /\ Writes2("f10l", 2, 3, 240, -6, 2, 3, 2)
  <2>1. Reads("f10l", 2) = << <<3, 15, 6>>, <<2, 255, -2>> >> /\ Writes("f10l", 2) = {<<2, 3, 2>>, <<3, 240, -6>>}
    BY <1>1 DEF Pixel10l, FMT_DEF, Reads, Writes
  <2> QED BY <2>1, Shape10l DEF Reads2, Writes2
<1>5. Reads2("f10l", 3, 2, 3, 8, 5, 255, 0) /\ Writes2("f10l", 3, 2, 252, -8, 5, 0, 0)
  <2>1. Reads("f10l", 3) = << <<2, 3, 8>>, <<5, 255, 0>> >> /\ Writes("f10l", 3) = {<<2, 252, -8>>, <<5, 0, 0>>}
    BY <1>1 DEF Pixel10l, FMT_DEF, Reads, Writes
  <2> QED BY <2>1, Shape10l DEF Reads2, Writes2
<1>6. Reads2("f10l", 4, 4, 255, 2, 7, 255, -6) /\ Writes2("f10l", 4, 4, 0, -2, 7, 63, 6)
  <2>1. Reads("f10l", 4) = << <<4, 255, 2>>, <<7, 255, -6>> >> /\ Writes("f10l", 4) = {<<4, 0, -2>>, <<7, 63, 6>>}
    BY <1>1 DEF Pixel10l, FMT_DEF, Reads, Writes
  <2> QED BY <2>1, Shape10l DEF Reads2, Writes2
<1>7. Reads2("f10l", 5, 7, 63, 4, 6, 255, -4) /\ Writes2("f10l", 5, 7, 192, -4, 6, 15, 4)
  <2>1. Reads("f10l", 5) = << <<7, 63, 4>>, <<6, 255, -4>> >> /\ Writes("f10l", 5) = {<<6, 15, 4>>, <<7, 192, -4>>}
    BY <1>1 DEF Pixel10l, FMT_DEF, Reads, Writes
  <2> QED BY <2>1, Shape10l DEF Reads2, Writes2
<1>8. Reads2("f10l", 6, 6, 15, 6, 9, 255, -2) /\ Writes2("f10l", 6, 6, 240, -6, 9, 3, 2)
  <2>1. Reads("f10l", 6) = << <<6, 15, 6>>, <<9, 255, -2>> >> /\ Writes("f10l", 6) = {<<6, 240, -6>>, <<9, 3, 2>>}
    BY <1>1 DEF Pixel10l, FMT_DEF, Reads, Writes
  <2> QED BY <2>1, Shape10l DEF Reads2, Writes2
<1>9. Reads2("f10l", 7, 9, 3, 8, 8, 255, 0) /\ Writes2("f10l", 7, 9, 252, -8, 8, 0, 0)
  <2>1. Reads("f10l", 7) = << <<9, 3, 8>>, <<8, 255, 0>> >> /\ Writes("f10l", 7) = {<<8, 0, 0>>, <<9, 252, -8>>}
    BY <1>1 DEF Pixel10l, FMT_DEF, Reads, Writes
  <2> QED BY <2>1, Shape10l DEF Reads2, Writes2
<1> QED BY <1>2, <1>3, <1>4, <1>5, <1>6, <1>7, <1>8, <1>9

\* Its pixels are read where the format stores them.
LEMMA Layout10l ==
    ASSUME NEW p, NEW base \in Nat, BlockAt("f10l", p, base) \in [BlockBytes("f10l") -> Octet],
           NEW z \in 0..7
    PROVE  Laid("f10l", p, base, z)
<1>0. Laid("f10l", p, base, 0)
  <2>1. LiesIn("f10l", 0, 0, 0 + 1, -6)
    BY Shape10l DEF LiesIn, FirstByte, LastByte, Excess
  <2>2. Swapped("f10l", 0) = 1 /\ Swapped("f10l", 0 + 1) = 0
    BY Shape10l DEF Swapped
  <2>3. Reads2("f10l", 0, 1, 255, 2, 0, 255, -6) /\ raw_formats["f10l"].bpp = 10 /\ Pair(10, 255, 2, -6)
    BY Shape10l, Rows10l, Pairs
  <2> QED BY <2>1, <2>2, <2>3, TwoLaid
<1>1. Laid("f10l", p, base, 1)
  <2>1. LiesIn("f10l", 1, 1, 1 + 1, -4)
    BY Shape10l DEF LiesIn, FirstByte, LastByte, Excess
  <2>2. Swapped("f10l", 1) = 0 /\ Swapped("f10l", 1 + 1) = 3
    BY Shape10l DEF Swapped
  <2>3. Reads2("f10l", 1, 0, 63, 4, 3, 255, -4) /\ raw_formats["f10l"].bpp = 10 /\ Pair(10, 63, 4, -4)
    BY Shape10l, Rows10l, Pairs
  <2> QED BY <2>1, <2>2, <2>3, TwoLaid
<1>2. Laid("f10l", p, base, 2)
  <2>1. LiesIn("f10l", 2, 2, 2 + 1, -2)
    BY Shape10l DEF LiesIn, FirstByte, LastByte, Excess
  <2>2. Swapped("f10l", 2) = 3 /\ Swapped("f10l", 2 + 1) = 2
    BY Shape10l DEF Swapped
  <2>3. Reads2("f10l", 2, 3, 15, 6, 2, 255, -2) /\ raw_formats["f10l"].bpp = 10 /\ Pair(10, 15, 6, -2)
    BY Shape10l, Rows10l, Pairs
  <2> QED BY <2>1, <2>2, <2>3, TwoLaid
<1>3. Laid("f10l", p, base, 3)
  <2>1. LiesIn("f10l", 3, 3, 3 + 1, 0)
    BY Shape10l DEF LiesIn, FirstByte, LastByte, Excess
  <2>2. Swapped("f10l", 3) = 2 /\ Swapped("f10l", 3 + 1) = 5
    BY Shape10l DEF Swapped
  <2>3. Reads2("f10l", 3, 2, 3, 8, 5, 255, 0) /\ raw_formats["f10l"].bpp = 10 /\ Pair(10, 3, 8, 0)
    BY Shape10l, Rows10l, Pairs
  <2> QED BY <2>1, <2>2, <2>3, TwoLaid
<1>4. Laid("f10l", p, base, 4)
  <2>1. LiesIn("f10l", 4, 5, 5 + 1, -6)
    BY Shape10l DEF LiesIn, FirstByte, LastByte, Excess
  <2>2. Swapped("f10l", 5) = 4 /\ Swapped("f10l", 5 + 1) = 7
    BY Shape10l DEF Swapped
  <2>3. Reads2("f10l", 4, 4, 255, 2, 7, 255, -6) /\ raw_formats["f10l"].bpp = 10 /\ Pair(10, 255, 2, -6)
    BY Shape10l, Rows10l, Pairs
  <2> QED BY <2>1, <2>2, <2>3, TwoLaid
<1>5. Laid("f10l", p, base, 5)
  <2>1. LiesIn("f10l", 5, 6, 6 + 1, -4)
    BY Shape10l DEF LiesIn, FirstByte, LastByte, Excess
  <2>2. Swapped("f10l", 6) = 7 /\ Swapped("f10l", 6 + 1) = 6
    BY Shape10l DEF Swapped
  <2>3. Reads2("f10l", 5, 7, 63, 4, 6, 255, -4) /\ raw_formats["f10l"].bpp = 10 /\ Pair(10, 63, 4, -4)
    BY Shape10l, Rows10l, Pairs
  <2> QED BY <2>1, <2>2, <2>3, TwoLaid
<1>6. Laid("f10l", p, base, 6)
  <2>1. LiesIn("f10l", 6, 7, 7 + 1, -2)
    BY Shape10l DEF LiesIn, FirstByte, LastByte, Excess
  <2>2. Swapped("f10l", 7) = 6 /\ Swapped("f10l", 7 + 1) = 9
    BY Shape10l DEF Swapped
  <2>3. Reads2("f10l", 6, 6, 15, 6, 9, 255, -2) /\ raw_formats["f10l"].bpp = 10 /\ Pair(10, 15, 6, -2)
    BY Shape10l, Rows10l, Pairs
  <2> QED BY <2>1, <2>2, <2>3, TwoLaid
<1>7. Laid("f10l", p, base, 7)
  <2>1. LiesIn("f10l", 7, 8, 8 + 1, 0)
    BY Shape10l DEF LiesIn, FirstByte, LastByte, Excess
  <2>2. Swapped("f10l", 8) = 9 /\ Swapped("f10l", 8 + 1) = 8
    BY Shape10l DEF Swapped
  <2>3. Reads2("f10l", 7, 9, 3, 8, 8, 255, 0) /\ raw_formats["f10l"].bpp = 10 /\ Pair(10, 3, 8, 0)
    BY Shape10l, Rows10l, Pairs
  <2> QED BY <2>1, <2>2, <2>3, TwoLaid
<1> QED BY <1>0, <1>1, <1>2, <1>3, <1>4, <1>5, <1>6, <1>7

\* Its writes fit their bytes.
LEMMA Writes10l ==
    ASSUME NEW v \in Nat, v < Pow2[10], NEW z \in 0..7
    PROVE  Writable("f10l", z, v)
<1>0. v < 1024
  BY Powers
<1>1. Writable("f10l", 0, v)
  <2>1. FitsAt(63, 6, v) /\ FitsAt(0, -2, v)
    BY <1>0, Fitting
  <2> QED BY <2>1, Rows10l, Shape10l, TwoWritable
<1>2. Writable("f10l", 1, v)
  <2>1. FitsAt(192, -4, v) /\ FitsAt(15, 4, v)
    BY <1>0, Fitting
  <2> QED BY <2>1, Rows10l, Shape10l, TwoWritable
<1>3. Writable("f10l", 2, v)
  <2>1. FitsAt(3, 2, v) /\ FitsAt(240, -6, v)
    BY <1>0, Fitting
  <2> QED BY <2>1, Rows10l, Shape10l, TwoWritable
<1>4. Writable("f10l", 3, v)
  <2>1. FitsAt(252, -8, v) /\ FitsAt(0, 0, v)
    BY <1>0, Fitting
  <2> QED BY <2>1, Rows10l, Shape10l, TwoWritable
<1>5. Writable("f10l", 4, v)
  <2>1. FitsAt(0, -2, v) /\ FitsAt(63, 6, v)
    BY <1>0, Fitting
  <2> QED BY <2>1, Rows10l, Shape10l, TwoWritable
<1>6. Writable("f10l", 5, v)
  <2>1. FitsAt(15, 4, v) /\ FitsAt(192, -4, v)
    BY <1>0, Fitting
  <2> QED BY <2>1, Rows10l, Shape10l, TwoWritable
<1>7. Writable("f10l", 6, v)
  <2>1. FitsAt(240, -6, v) /\ FitsAt(3, 2, v)
    BY <1>0, Fitting
  <2> QED BY <2>1, Rows10l, Shape10l, TwoWritable
<1>8. Writable("f10l", 7, v)
  <2>1. FitsAt(0, 0, v) /\ FitsAt(252, -8, v)
    BY <1>0, Fitting
  <2> QED BY <2>1, Rows10l, Shape10l, TwoWritable
<1> QED BY <1>1, <1>2, <1>3, <1>4, <1>5, <1>6, <1>7, <1>8

\* A write to one of its pixels touches no part of another.
LEMMA Others10l ==
    ASSUME NEW y \in 0..7, NEW z \in 0..7, y # z
    PROVE  Unseen("f10l", y, z)
<1>0. ASSUME y = 0 PROVE Unseen("f10l", 0, z)
  BY <1>0, Rows10l, Shape10l DEF Unseen, Apart, Reads2, Writes2
<1>1. ASSUME y = 1 PROVE Unseen("f10l", 1, z)
  BY <1>1, Rows10l, Shape10l DEF Unseen, Apart, Reads2, Writes2
<1>2. ASSUME y = 2 PROVE Unseen("f10l", 2, z)
  BY <1>2, Rows10l, Shape10l DEF Unseen, Apart, Reads2, Writes2
<1>3. ASSUME y = 3 PROVE Unseen("f10l", 3, z)
  BY <1>3, Rows10l, Shape10l DEF Unseen, Apart, Reads2, Writes2
<1>4. ASSUME y = 4 PROVE Unseen("f10l", 4, z)
  BY <1>4, Rows10l, Shape10l DEF Unseen, Apart, Reads2, Writes2
<1>5. ASSUME y = 5 PROVE Unseen("f10l", 5, z)
  BY <1>5, Rows10l, Shape10l DEF Unseen, Apart, Reads2, Writes2
<1>6. ASSUME y = 6 PROVE Unseen("f10l", 6, z)
  BY <1>6, Rows10l, Shape10l DEF Unseen, Apart, Reads2, Writes2
<1>7. ASSUME y = 7 PROVE Unseen("f10l", 7, z)
  BY <1>7, Rows10l, Shape10l DEF Unseen, Apart, Reads2, Writes2
<1> QED BY <1>0, <1>1, <1>2, <1>3, <1>4, <1>5, <1>6, <1>7

\* What is written to one of its pixels is read from it.
LEMMA Written10l ==
    ASSUME NEW q \in [BlockBytes("f10l") -> Octet], NEW v \in Nat, v < Pow2[10], NEW z \in 0..7
    PROVE  PixelOf("f10l", Written("f10l", q, z, v), z) = v
<1>0. v < 1024
  BY Powers
<1>1. PixelOf("f10l", Written("f10l", q, 0, v), 0) = v
  <2>1. Writable("f10l", 0, v) /\ Restores2(v, 255, 2, 0, -2, 255, -6, 63, 6)
    BY <1>0, Writes10l, Restored
  <2> QED BY <2>1, Rows10l, Shape10l, TwoWritten
<1>2. PixelOf("f10l", Written("f10l", q, 1, v), 1) = v
  <2>1. Writable("f10l", 1, v) /\ Restores2(v, 63, 4, 192, -4, 255, -4, 15, 4)
    BY <1>0, Writes10l, Restored
  <2> QED BY <2>1, Rows10l, Shape10l, TwoWritten
<1>3. PixelOf("f10l", Written("f10l", q, 2, v), 2) = v
  <2>1. Writable("f10l", 2, v) /\ Restores2(v, 15, 6, 240, -6, 255, -2, 3, 2)
    BY <1>0, Writes10l, Restored
  <2> QED BY <2>1, Rows10l, Shape10l, TwoWritten
<1>4. PixelOf("f10l", Written("f10l", q, 3, v), 3) = v
  <2>1. Writable("f10l", 3, v) /\ Restores2(v, 3, 8, 252, -8, 255, 0, 0, 0)
    BY <1>0, Writes10l, Restored
  <2> QED BY <2>1, Rows10l, Shape10l, TwoWritten
<1>5. PixelOf("f10l", Written("f10l", q, 4, v), 4) = v
  <2>1. Writable("f10l", 4, v) /\ Restores2(v, 255, 2, 0, -2, 255, -6, 63, 6)
    BY <1>0, Writes10l, Restored
  <2> QED BY <2>1, Rows10l, Shape10l, TwoWritten
<1>6. PixelOf("f10l", Written("f10l", q, 5, v), 5) = v
  <2>1. Writable("f10l", 5, v) /\ Restores2(v, 63, 4, 192, -4, 255, -4, 15, 4)
    BY <1>0, Writes10l, Restored
  <2> QED BY <2>1, Rows10l, Shape10l, TwoWritten
<1>7. PixelOf("f10l", Written("f10l", q, 6, v), 6) = v
  <2>1. Writable("f10l", 6, v) /\ Restores2(v, 15, 6, 240, -6, 255, -2, 3, 2)
    BY <1>0, Writes10l, Restored
  <2> QED BY <2>1, Rows10l, Shape10l, TwoWritten
<1>8. PixelOf("f10l", Written("f10l", q, 7, v), 7) = v
  <2>1. Writable("f10l", 7, v) /\ Restores2(v, 3, 8, 252, -8, 255, 0, 0, 0)
    BY <1>0, Writes10l, Restored
  <2> QED BY <2>1, Rows10l, Shape10l, TwoWritten
<1> QED BY <1>1, <1>2, <1>3, <1>4, <1>5, <1>6, <1>7, <1>8

\* The 10 bit format, big endian: the sizes of its block.
LEMMA Shape10b ==
    /\ raw_formats["f10b"].bpp = 10 /\ raw_formats["f10b"].block_bytes = 5 /\ raw_formats["f10b"].block_pixels = 4
    /\ Len(raw_formats["f10b"].get) = 4 /\ Len(raw_formats["f10b"].set) = 4
    /\ BlockBytes("f10b") = 0..4 /\ RawSizes("f10b") /\ "f10b" \notin Little
<1>1. raw_formats["f10b"] = Pixel10b
  BY DEF raw_formats
<1>2. Pixel10b.bpp = 10 /\ Pixel10b.block_bytes = 5 /\ Pixel10b.block_pixels = 4
  BY DEF Pixel10b, FMT_DEF
<1>3. Len(Pixel10b.get) = 4 /\ Len(Pixel10b.set) = 4
  BY DEF Pixel10b, FMT_DEF
<1>4. "f10b" \notin Little
  BY DEF Little
<1> QED BY <1>1, <1>2, <1>3, <1>4 DEF BlockBytes, RawSizes

\* The parts of its pixels.
LEMMA Rows10b ==
    /\ Reads2("f10b", 0, 0, 255, 2, 1, 255, -6) /\ Writes2("f10b", 0, 0, 0, -2, 1, 63, 6)
    /\ Reads2("f10b", 1, 1, 63, 4, 2, 255, -4) /\ Writes2("f10b", 1, 1, 192, -4, 2, 15, 4)
    /\ Reads2("f10b", 2, 2, 15, 6, 3, 255, -2) /\ Writes2("f10b", 2, 2, 240, -6, 3, 3, 2)
    /\ Reads2("f10b", 3, 3, 3, 8, 4, 255, 0) /\ Writes2("f10b", 3, 3, 252, -8, 4, 0, 0)
<1>1. raw_formats["f10b"] = Pixel10b
  BY DEF raw_formats
<1>2. Reads2("f10b", 0, 0, 255, 2, 1, 255, -6) /\ Writes2("f10b", 0, 0, 0, -2, 1, 63, 6)
  <2>1. Reads("f10b", 0) = << <<0, 255, 2>>, <<1, 255, -6>> >> /\ Writes("f10b", 0) = {<<0, 0, -2>>, <<1, 63, 6>>}
    BY <1>1 DEF Pixel10b, FMT_DEF, Reads, Writes
  <2> QED BY <2>1, Shape10b DEF Reads2, Writes2
<1>3. Reads2("f10b", 1, 1, 63, 4, 2, 255, -4) /\ Writes2("f10b", 1, 1, 192, -4, 2, 15, 4)
  <2>1. Reads("f10b", 1) = << <<1, 63, 4>>, <<2, 255, -4>> >> /\ Writes("f10b", 1) = {<<1, 192, -4>>, <<2, 15, 4>>}
    BY <1>1 DEF Pixel10b, FMT_DEF, Reads, Writes
  <2> QED BY <2>1, Shape10b DEF Reads2, Writes2
<1>4. Reads2("f10b", 2, 2, 15, 6, 3, 255, -2) /\ Writes2("f10b", 2, 2, 240, -6, 3, 3, 2)
  <2>1. Reads("f10b", 2) = << <<2, 15, 6>>, <<3, 255, -2>> >> /\ Writes("f10b", 2) = {<<3, 3, 2>>, <<2, 240, -6>>}
    BY <1>1 DEF Pixel10b, FMT_DEF, Reads, Writes
  <2> QED BY <2>1, Shape10b DEF Reads2, Writes2
<1>5. Reads2("f10b", 3, 3, 3, 8, 4, 255, 0) /\ Writes2("f10b", 3, 3, 252, -8, 4, 0, 0)
  <2>1. Reads("f10b", 3) = << <<3, 3, 8>>, <<4, 255, 0>> >> /\ Writes("f10b", 3) = {<<3, 252, -8>>, <<4, 0, 0>>}
    BY <1>1 DEF Pixel10b, FMT_DEF, Reads, Writes
  <2> QED BY <2>1, Shape10b DEF Reads2, Writes2
<1> QED BY <1>2, <1>3, <1>4, <1>5

\* Its pixels are read where the format stores them.
LEMMA Layout10b ==
    ASSUME NEW p, NEW base \in Nat, BlockAt("f10b", p, base) \in [BlockBytes("f10b") -> Octet],
           NEW z \in 0..3
    PROVE  Laid("f10b", p, base, z)
<1>0. Laid("f10b", p, base, 0)
  <2>1. LiesIn("f10b", 0, 0, 0 + 1, -6)
    BY Shape10b DEF LiesIn, FirstByte, LastByte, Excess
  <2>2. Swapped("f10b", 0) = 0 /\ Swapped("f10b", 0 + 1) = 1
    BY Shape10b DEF Swapped
  <2>3. Reads2("f10b", 0, 0, 255, 2, 1, 255, -6) /\ raw_formats["f10b"].bpp = 10 /\ Pair(10, 255, 2, -6)
    BY Shape10b, Rows10b, Pairs
  <2> QED BY <2>1, <2>2, <2>3, TwoLaid
<1>1. Laid("f10b", p, base, 1)
  <2>1. LiesIn("f10b", 1, 1, 1 + 1, -4)
    BY Shape10b DEF LiesIn, FirstByte, LastByte, Excess
  <2>2. Swapped("f10b", 1) = 1 /\ Swapped("f10b", 1 + 1) = 2
    BY Shape10b DEF Swapped
  <2>3. Reads2("f10b", 1, 1, 63, 4, 2, 255, -4) /\ raw_formats["f10b"].bpp = 10 /\ Pair(10, 63, 4, -4)
    BY Shape10b, Rows10b, Pairs
  <2> QED BY <2>1, <2>2, <2>3, TwoLaid
<1>2. Laid("f10b", p, base, 2)
  <2>1. LiesIn("f10b", 2, 2, 2 + 1, -2)
    BY Shape10b DEF LiesIn, FirstByte, LastByte, Excess
  <2>2. Swapped("f10b", 2) = 2 /\ Swapped("f10b", 2 + 1) = 3
    BY Shape10b DEF Swapped
  <2>3. Reads2("f10b", 2, 2, 15, 6, 3, 255, -2) /\ raw_formats["f10b"].bpp = 10 /\ Pair(10, 15, 6, -2)
    BY Shape10b, Rows10b, Pairs
  <2> QED BY <2>1, <2>2, <2>3, TwoLaid
<1>3. Laid("f10b", p, base, 3)
  <2>1. LiesIn("f10b", 3, 3, 3 + 1, 0)
    BY Shape10b DEF LiesIn, FirstByte, LastByte, Excess
  <2>2. Swapped("f10b", 3) = 3 /\ Swapped("f10b", 3 + 1) = 4
    BY Shape10b DEF Swapped
  <2>3. Reads2("f10b", 3, 3, 3, 8, 4, 255, 0) /\ raw_formats["f10b"].bpp = 10 /\ Pair(10, 3, 8, 0)
    BY Shape10b, Rows10b, Pairs
  <2> QED BY <2>1, <2>2, <2>3, TwoLaid
<1> QED BY <1>0, <1>1, <1>2, <1>3

\* Its writes fit their bytes.
LEMMA Writes10b ==
    ASSUME NEW v \in Nat, v < Pow2[10], NEW z \in 0..3
    PROVE  Writable("f10b", z, v)
<1>0. v < 1024
  BY Powers
<1>1. Writable("f10b", 0, v)
  <2>1. FitsAt(0, -2, v) /\ FitsAt(63, 6, v)
    BY <1>0, Fitting
  <2> QED BY <2>1, Rows10b, Shape10b, TwoWritable
<1>2. Writable("f10b", 1, v)
  <2>1. FitsAt(192, -4, v) /\ FitsAt(15, 4, v)
    BY <1>0, Fitting
  <2> QED BY <2>1, Rows10b, Shape10b, TwoWritable
<1>3. Writable("f10b", 2, v)
  <2>1. FitsAt(3, 2, v) /\ FitsAt(240, -6, v)
    BY <1>0, Fitting
  <2> QED BY <2>1, Rows10b, Shape10b, TwoWritable
<1>4. Writable("f10b", 3, v)
  <2>1. FitsAt(252, -8, v) /\ FitsAt(0, 0, v)
    BY <1>0, Fitting
  <2> QED BY <2>1, Rows10b, Shape10b, TwoWritable
<1> QED BY <1>1, <1>2, <1>3, <1>4

\* A write to one of its pixels touches no part of another.
LEMMA Others10b ==
    ASSUME NEW y \in 0..3, NEW z \in 0..3, y # z
    PROVE  Unseen("f10b", y, z)
<1>0. ASSUME y = 0 PROVE Unseen("f10b", 0, z)
  BY <1>0, Rows10b, Shape10b DEF Unseen, Apart, Reads2, Writes2
<1>1. ASSUME y = 1 PROVE Unseen("f10b", 1, z)
  BY <1>1, Rows10b, Shape10b DEF Unseen, Apart, Reads2, Writes2
<1>2. ASSUME y = 2 PROVE Unseen("f10b", 2, z)
  BY <1>2, Rows10b, Shape10b DEF Unseen, Apart, Reads2, Writes2
<1>3. ASSUME y = 3 PROVE Unseen("f10b", 3, z)
  BY <1>3, Rows10b, Shape10b DEF Unseen, Apart, Reads2, Writes2
<1> QED BY <1>0, <1>1, <1>2, <1>3

\* What is written to one of its pixels is read from it.
LEMMA Written10b ==
    ASSUME NEW q \in [BlockBytes("f10b") -> Octet], NEW v \in Nat, v < Pow2[10], NEW z \in 0..3
    PROVE  PixelOf("f10b", Written("f10b", q, z, v), z) = v
<1>0. v < 1024
  BY Powers
<1>1. PixelOf("f10b", Written("f10b", q, 0, v), 0) = v
  <2>1. Writable("f10b", 0, v) /\ Restores2(v, 255, 2, 0, -2, 255, -6, 63, 6)
    BY <1>0, Writes10b, Restored
  <2> QED BY <2>1, Rows10b, Shape10b, TwoWritten
<1>2. PixelOf("f10b", Written("f10b", q, 1, v), 1) = v
  <2>1. Writable("f10b", 1, v) /\ Restores2(v, 63, 4, 192, -4, 255, -4, 15, 4)
    BY <1>0, Writes10b, Restored
  <2> QED BY <2>1, Rows10b, Shape10b, TwoWritten
<1>3. PixelOf("f10b", Written("f10b", q, 2, v), 2) = v
  <2>1. Writable("f10b", 2, v) /\ Restores2(v, 15, 6, 240, -6, 255, -2, 3, 2)
    BY <1>0, Writes10b, Restored
  <2> QED BY <2>1, Rows10b, Shape10b, TwoWritten
<1>4. PixelOf("f10b", Written("f10b", q, 3, v), 3) = v
  <2>1. Writable("f10b", 3, v) /\ Restores2(v, 3, 8, 252, -8, 255, 0, 0, 0)
    BY <1>0, Writes10b, Restored
  <2> QED BY <2>1, Rows10b, Shape10b, TwoWritten
<1> QED BY <1>1, <1>2, <1>3, <1>4

\* The 12 bit format, little endian: the sizes of its block.
LEMMA Shape12l ==
    /\ raw_formats["f12l"].bpp = 12 /\ raw_formats["f12l"].block_bytes = 6 /\ raw_formats["f12l"].block_pixels = 4
    /\ Len(raw_formats["f12l"].get) = 4 /\ Len(raw_formats["f12l"].set) = 4
    /\ BlockBytes("f12l") = 0..5 /\ RawSizes("f12l") /\ "f12l" \in Little
<1>1. raw_formats["f12l"] = Pixel12l
  BY DEF raw_formats
<1>2. Pixel12l.bpp = 12 /\ Pixel12l.block_bytes = 6 /\ Pixel12l.block_pixels = 4
  BY DEF Pixel12l, FMT_DEF
<1>3. Len(Pixel12l.get) = 4 /\ Len(Pixel12l.set) = 4
  BY DEF Pixel12l, FMT_DEF
<1>4. "f12l" \in Little
  BY DEF Little
<1> QED BY <1>1, <1>2, <1>3, <1>4 DEF BlockBytes, RawSizes

\* The parts of its pixels.
LEMMA Rows12l ==
    /\ Reads2("f12l", 0, 1, 255, 4, 0, 255, -4) /\ Writes2("f12l", 0, 1, 0, -4, 0, 15, 4)
    /\ Reads2("f12l", 1, 0, 15, 8, 3, 255, 0) /\ Writes2("f12l", 1, 0, 240, -8, 3, 0, 0)
    /\ Reads2("f12l", 2, 2, 255, 4, 5, 255, -4) /\ Writes2("f12l", 2, 2, 0, -4, 5, 15, 4)
    /\ Reads2("f12l", 3, 5, 15, 8, 4, 255, 0) /\ Writes2("f12l", 3, 5, 240, -8, 4, 0, 0)
<1>1. raw_formats["f12l"] = Pixel12l
  BY DEF raw_formats
<1>2. Reads2("f12l", 0, 1, 255, 4, 0, 255, -4) /\ Writes2("f12l", 0, 1, 0, -4, 0, 15, 4)
  <2>1. Reads("f12l", 0) = << <<1, 255, 4>>, <<0, 255, -4>> >> /\ Writes("f12l", 0) = {<<0, 15, 4>>, <<1, 0, -4>>}
    BY <1>1 DEF Pixel12l, FMT_DEF, Reads, Writes
  <2> QED BY <2>1, Shape12l DEF Reads2, Writes2
<1>3. Reads2("f12l", 1, 0, 15, 8, 3, 255, 0) /\ Writes2("f12l", 1, 0, 240, -8, 3, 0, 0)
  <2>1. Reads("f12l", 1) = << <<0, 15, 8>>, <<3, 255, 0>> >> /\ Writes("f12l", 1) = {<<0, 240, -8>>, <<3, 0, 0>>}
    BY <1>1 DEF Pixel12l, FMT_DEF, Reads, Writes
  <2> QED BY <2>1, Shape12l DEF Reads2, Writes2
<1>4. Reads2("f12l", 2, 2, 255, 4, 5, 255, -4) /\ Writes2("f12l", 2, 2, 0, -4, 5, 15, 4)
  <2>1. Reads("f12l", 2) = << <<2, 255, 4>>, <<5, 255, -4>> >> /\ Writes("f12l", 2) = {<<2, 0, -4>>, <<5, 15, 4>>}
    BY <1>1 DEF Pixel12l, FMT_DEF, Reads, Writes
  <2> QED BY <2>1, Shape12l DEF Reads2, Writes2
<1>5. Reads2("f12l", 3, 5, 15, 8, 4, 255, 0) /\ Writes2("f12l", 3, 5, 240, -8, 4, 0, 0)
  <2>1. Reads("f12l", 3) = << <<5, 15, 8>>, <<4, 255, 0>> >> /\ Writes("f12l", 3) = {<<4, 0, 0>>, <<5, 240, -8>>}
    BY <1>1 DEF Pixel12l, FMT_DEF, Reads, Writes
  <2> QED BY <2>1, Shape12l DEF Reads2, Writes2
<1> QED BY <1>2, <1>3, <1>4, <1>5

\* Its pixels are read where the format stores them.
LEMMA Layout12l ==
    ASSUME NEW p, NEW base \in Nat, BlockAt("f12l", p, base) \in [BlockBytes("f12l") -> Octet],
           NEW z \in 0..3
    PROVE  Laid("f12l", p, base, z)
<1>0. Laid("f12l", p, base, 0)
  <2>1. LiesIn("f12l", 0, 0, 0 + 1, -4)
    BY Shape12l DEF LiesIn, FirstByte, LastByte, Excess
  <2>2. Swapped("f12l", 0) = 1 /\ Swapped("f12l", 0 + 1) = 0
    BY Shape12l DEF Swapped
  <2>3. Reads2("f12l", 0, 1, 255, 4, 0, 255, -4) /\ raw_formats["f12l"].bpp = 12 /\ Pair(12, 255, 4, -4)
    BY Shape12l, Rows12l, Pairs
  <2> QED BY <2>1, <2>2, <2>3, TwoLaid
<1>1. Laid("f12l", p, base, 1)
  <2>1. LiesIn("f12l", 1, 1, 1 + 1, 0)
    BY Shape12l DEF LiesIn, FirstByte, LastByte, Excess
  <2>2. Swapped("f12l", 1) = 0 /\ Swapped("f12l", 1 + 1) = 3
    BY Shape12l DEF Swapped
  <2>3. Reads2("f12l", 1, 0, 15, 8, 3, 255, 0) /\ raw_formats["f12l"].bpp = 12 /\ Pair(12, 15, 8, 0)
    BY Shape12l, Rows12l, Pairs
  <2> QED BY <2>1, <2>2, <2>3, TwoLaid
<1>2. Laid("f12l", p, base, 2)
  <2>1. LiesIn("f12l", 2, 3, 3 + 1, -4)
    BY Shape12l DEF LiesIn, FirstByte, LastByte, Excess
  <2>2. Swapped("f12l", 3) = 2 /\ Swapped("f12l", 3 + 1) = 5
    BY Shape12l DEF Swapped
  <2>3. Reads2("f12l", 2, 2, 255, 4, 5, 255, -4) /\ raw_formats["f12l"].bpp = 12 /\ Pair(12, 255, 4, -4)
    BY Shape12l, Rows12l, Pairs
  <2> QED BY <2>1, <2>2, <2>3, TwoLaid
<1>3. Laid("f12l", p, base, 3)
  <2>1. LiesIn("f12l", 3, 4, 4 + 1, 0)
    BY Shape12l DEF LiesIn, FirstByte, LastByte, Excess
  <2>2. Swapped("f12l", 4) = 5 /\ Swapped("f12l", 4 + 1) = 4
    BY Shape12l DEF Swapped
  <2>3. Reads2("f12l", 3, 5, 15, 8, 4, 255, 0) /\ raw_formats["f12l"].bpp = 12 /\ Pair(12, 15, 8, 0)
    BY Shape12l, Rows12l, Pairs
  <2> QED BY <2>1, <2>2, <2>3, TwoLaid
<1> QED BY <1>0, <1>1, <1>2, <1>3

\* Its writes fit their bytes.
LEMMA Writes12l ==
    ASSUME NEW v \in Nat, v < Pow2[12], NEW z \in 0..3
    PROVE  Writable("f12l", z, v)
<1>0. v < 4096
  BY Powers
<1>1. Writable("f12l", 0, v)
  <2>1. FitsAt(15, 4, v) /\ FitsAt(0, -4, v)
    BY <1>0, Fitting
  <2> QED BY <2>1, Rows12l, Shape12l, TwoWritable
<1>2. Writable("f12l", 1, v)
  <2>1. FitsAt(240, -8, v) /\ FitsAt(0, 0, v)
    BY <1>0, Fitting
  <2> QED BY <2>1, Rows12l, Shape12l, TwoWritable
<1>3. Writable("f12l", 2, v)
  <2>1. FitsAt(0, -4, v) /\ FitsAt(15, 4, v)
    BY <1>0, Fitting
  <2> QED BY <2>1, Rows12l, Shape12l, TwoWritable
<1>4. Writable("f12l", 3, v)
  <2>1. FitsAt(0, 0, v) /\ FitsAt(240, -8, v)
    BY <1>0, Fitting
  <2> QED BY <2>1, Rows12l, Shape12l, TwoWritable
<1> QED BY <1>1, <1>2, <1>3, <1>4

\* A write to one of its pixels touches no part of another.
LEMMA Others12l ==
    ASSUME NEW y \in 0..3, NEW z \in 0..3, y # z
    PROVE  Unseen("f12l", y, z)
<1>0. ASSUME y = 0 PROVE Unseen("f12l", 0, z)
  BY <1>0, Rows12l, Shape12l DEF Unseen, Apart, Reads2, Writes2
<1>1. ASSUME y = 1 PROVE Unseen("f12l", 1, z)
  BY <1>1, Rows12l, Shape12l DEF Unseen, Apart, Reads2, Writes2
<1>2. ASSUME y = 2 PROVE Unseen("f12l", 2, z)
  BY <1>2, Rows12l, Shape12l DEF Unseen, Apart, Reads2, Writes2
<1>3. ASSUME y = 3 PROVE Unseen("f12l", 3, z)
  BY <1>3, Rows12l, Shape12l DEF Unseen, Apart, Reads2, Writes2
<1> QED BY <1>0, <1>1, <1>2, <1>3

\* What is written to one of its pixels is read from it.
LEMMA Written12l ==
    ASSUME NEW q \in [BlockBytes("f12l") -> Octet], NEW v \in Nat, v < Pow2[12], NEW z \in 0..3
    PROVE  PixelOf("f12l", Written("f12l", q, z, v), z) = v
<1>0. v < 4096
  BY Powers
<1>1. PixelOf("f12l", Written("f12l", q, 0, v), 0) = v
  <2>1. Writable("f12l", 0, v) /\ Restores2(v, 255, 4, 0, -4, 255, -4, 15, 4)
    BY <1>0, Writes12l, Restored
  <2> QED BY <2>1, Rows12l, Shape12l, TwoWritten
<1>2. PixelOf("f12l", Written("f12l", q, 1, v), 1) = v
  <2>1. Writable("f12l", 1, v) /\ Restores2(v, 15, 8, 240, -8, 255, 0, 0, 0)
    BY <1>0, Writes12l, Restored
  <2> QED BY <2>1, Rows12l, Shape12l, TwoWritten
<1>3. PixelOf("f12l", Written("f12l", q, 2, v), 2) = v
  <2>1. Writable("f12l", 2, v) /\ Restores2(v, 255, 4, 0, -4, 255, -4, 15, 4)
    BY <1>0, Writes12l, Restored
  <2> QED BY <2>1, Rows12l, Shape12l, TwoWritten
<1>4. PixelOf("f12l", Written("f12l", q, 3, v), 3) = v
  <2>1. Writable("f12l", 3, v) /\ Restores2(v, 15, 8, 240, -8, 255, 0, 0, 0)
    BY <1>0, Writes12l, Restored
  <2> QED BY <2>1, Rows12l, Shape12l, TwoWritten
<1> QED BY <1>1, <1>2, <1>3, <1>4

\* The 12 bit format, big endian: the sizes of its block.
LEMMA Shape12b ==
    /\ raw_formats["f12b"].bpp = 12 /\ raw_formats["f12b"].block_bytes = 3 /\ raw_formats["f12b"].block_pixels = 2
    /\ Len(raw_formats["f12b"].get) = 2 /\ Len(raw_formats["f12b"].set) = 2
    /\ BlockBytes("f12b") = 0..2 /\ RawSizes("f12b") /\ "f12b" \notin Little
<1>1. raw_formats["f12b"] = Pixel12b
  BY DEF raw_formats
<1>2. Pixel12b.bpp = 12 /\ Pixel12b.block_bytes = 3 /\ Pixel12b.block_pixels = 2
  BY DEF Pixel12b, FMT_DEF
<1>3. Len(Pixel12b.get) = 2 /\ Len(Pixel12b.set) = 2
  BY DEF Pixel12b, FMT_DEF
<1>4. "f12b" \notin Little
  BY DEF Little
<1> QED BY <1>1, <1>2, <1>3, <1>4 DEF BlockBytes, RawSizes

\* The parts of its pixels.
LEMMA Rows12b ==
    /\ Reads2("f12b", 0, 0, 255, 4, 1, 255, -4) /\ Writes2("f12b", 0, 0, 0, -4, 1, 15, 4)
    /\ Reads2("f12b", 1, 1, 15, 8, 2, 255, 0) /\ Writes2("f12b", 1, 1, 240, -8, 2, 0, 0)
<1>1. raw_formats["f12b"] = Pixel12b
  BY DEF raw_formats
<1>2. Reads2("f12b", 0, 0, 255, 4, 1, 255, -4) /\ Writes2("f12b", 0, 0, 0, -4, 1, 15, 4)
  <2>1. Reads("f12b", 0) = << <<0, 255, 4>>, <<1, 255, -4>> >> /\ Writes("f12b", 0) = {<<0, 0, -4>>, <<1, 15, 4>>}
    BY <1>1 DEF Pixel12b, FMT_DEF, Reads, Writes
  <2> QED BY <2>1, Shape12b DEF Reads2, Writes2
<1>3. Reads2("f12b", 1, 1, 15, 8, 2, 255, 0) /\ Writes2("f12b", 1, 1, 240, -8, 2, 0, 0)
  <2>1. Reads("f12b", 1) = << <<1, 15, 8>>, <<2, 255, 0>> >> /\ Writes("f12b", 1) = {<<1, 240, -8>>, <<2, 0, 0>>}
    BY <1>1 DEF Pixel12b, FMT_DEF, Reads, Writes
  <2> QED BY <2>1, Shape12b DEF Reads2, Writes2
<1> QED BY <1>2, <1>3

\* Its pixels are read where the format stores them.
LEMMA Layout12b ==
    ASSUME NEW p, NEW base \in Nat, BlockAt("f12b", p, base) \in [BlockBytes("f12b") -> Octet],
           NEW z \in 0..1
    PROVE  Laid("f12b", p, base, z)
<1>0. Laid("f12b", p, base, 0)
  <2>1. LiesIn("f12b", 0, 0, 0 + 1, -4)
    BY Shape12b DEF LiesIn, FirstByte, LastByte, Excess
  <2>2. Swapped("f12b", 0) = 0 /\ Swapped("f12b", 0 + 1) = 1
    BY Shape12b DEF Swapped
  <2>3. Reads2("f12b", 0, 0, 255, 4, 1, 255, -4) /\ raw_formats["f12b"].bpp = 12 /\ Pair(12, 255, 4, -4)
    BY Shape12b, Rows12b, Pairs
  <2> QED BY <2>1, <2>2, <2>3, TwoLaid
<1>1. Laid("f12b", p, base, 1)
  <2>1. LiesIn("f12b", 1, 1, 1 + 1, 0)
    BY Shape12b DEF LiesIn, FirstByte, LastByte, Excess
  <2>2. Swapped("f12b", 1) = 1 /\ Swapped("f12b", 1 + 1) = 2
    BY Shape12b DEF Swapped
  <2>3. Reads2("f12b", 1, 1, 15, 8, 2, 255, 0) /\ raw_formats["f12b"].bpp = 12 /\ Pair(12, 15, 8, 0)
    BY Shape12b, Rows12b, Pairs
  <2> QED BY <2>1, <2>2, <2>3, TwoLaid
<1> QED BY <1>0, <1>1

\* Its writes fit their bytes.
LEMMA Writes12b ==
    ASSUME NEW v \in Nat, v < Pow2[12], NEW z \in 0..1
    PROVE  Writable("f12b", z, v)
<1>0. v < 4096
  BY Powers
<1>1. Writable("f12b", 0, v)
  <2>1. FitsAt(0, -4, v) /\ FitsAt(15, 4, v)
    BY <1>0, Fitting
  <2> QED BY <2>1, Rows12b, Shape12b, TwoWritable
<1>2. Writable("f12b", 1, v)
  <2>1. FitsAt(240, -8, v) /\ FitsAt(0, 0, v)
    BY <1>0, Fitting
  <2> QED BY <2>1, Rows12b, Shape12b, TwoWritable
<1> QED BY <1>1, <1>2

\* A write to one of its pixels touches no part of another.
LEMMA Others12b ==
    ASSUME NEW y \in 0..1, NEW z \in 0..1, y # z
    PROVE  Unseen("f12b", y, z)
<1>0. ASSUME y = 0 PROVE Unseen("f12b", 0, z)
  BY <1>0, Rows12b, Shape12b DEF Unseen, Apart, Reads2, Writes2
<1>1. ASSUME y = 1 PROVE Unseen("f12b", 1, z)
  BY <1>1, Rows12b, Shape12b DEF Unseen, Apart, Reads2, Writes2
<1> QED BY <1>0, <1>1

\* What is written to one of its pixels is read from it.
LEMMA Written12b ==
    ASSUME NEW q \in [BlockBytes("f12b") -> Octet], NEW v \in Nat, v < Pow2[12], NEW z \in 0..1
    PROVE  PixelOf("f12b", Written("f12b", q, z, v), z) = v
<1>0. v < 4096
  BY Powers
<1>1. PixelOf("f12b", Written("f12b", q, 0, v), 0) = v
  <2>1. Writable("f12b", 0, v) /\ Restores2(v, 255, 4, 0, -4, 255, -4, 15, 4)
    BY <1>0, Writes12b, Restored
  <2> QED BY <2>1, Rows12b, Shape12b, TwoWritten
<1>2. PixelOf("f12b", Written("f12b", q, 1, v), 1) = v
  <2>1. Writable("f12b", 1, v) /\ Restores2(v, 15, 8, 240, -8, 255, 0, 0, 0)
    BY <1>0, Writes12b, Restored
  <2> QED BY <2>1, Rows12b, Shape12b, TwoWritten
<1> QED BY <1>1, <1>2

\* The 14 bit format, little endian: the sizes of its block.
LEMMA Shape14l ==
    /\ raw_formats["f14l"].bpp = 14 /\ raw_formats["f14l"].block_bytes = 14 /\ raw_formats["f14l"].block_pixels = 8
    /\ Len(raw_formats["f14l"].get) = 8 /\ Len(raw_formats["f14l"].set) = 8
    /\ BlockBytes("f14l") = 0..13 /\ RawSizes("f14l") /\ "f14l" \in Little
<1>1. raw_formats["f14l"] = Pixel14l
  BY DEF raw_formats
<1>2. Pixel14l.bpp = 14 /\ Pixel14l.block_bytes = 14 /\ Pixel14l.block_pixels = 8
  BY DEF Pixel14l, FMT_DEF
<1>3. Len(Pixel14l.get) = 8 /\ Len(Pixel14l.set) = 8
  BY DEF Pixel14l, FMT_DEF
<1>4. "f14l" \in Little
  BY DEF Little
<1> QED BY <1>1, <1>2, <1>3, <1>4 DEF BlockBytes, RawSizes

\* The parts of its pixels.
LEMMA Rows14l ==
    /\ Reads2("f14l", 0, 1, 255, 6, 0, 255, -2) /\ Writes2("f14l", 0, 1, 0, -6, 0, 3, 2)
    /\ Reads3("f14l", 1, 0, 3, 12, 3, 255, 4, 2, 255, -4) /\ Writes3("f14l", 1, 0, 252, -12, 3, 0, -4, 2, 15, 4)
    /\ Reads3("f14l", 2, 2, 15, 10, 5, 255, 2, 4, 255, -6) /\ Writes3("f14l", 2, 2, 240, -10, 5, 0, -2, 4, 63, 6)
    /\ Reads2("f14l", 3, 4, 63, 8, 7, 255, 0) /\ Writes2("f14l", 3, 4, 192, -8, 7, 0, 0)
    /\ Reads2("f14l", 4, 6, 255, 6, 9, 255, -2) /\ Writes2("f14l", 4, 6, 0, -6, 9, 3, 2)
    /\ Reads3("f14l", 5, 9, 3, 12, 8, 255, 4, 11, 255, -4) /\ Writes3("f14l", 5, 9, 252, -12, 8, 0, -4, 11, 15, 4)
    /\ Reads3("f14l", 6, 11, 15, 10, 10, 255, 2, 13, 255, -6) /\ Writes3("f14l", 6, 11, 240, -10, 10, 0, -2, 13, 63, 6)
    /\ Reads2("f14l", 7, 13, 63, 8, 12, 255, 0) /\ Writes2("f14l", 7, 13, 192, -8, 12, 0, 0)
<1>1. raw_formats["f14l"] = Pixel14l
  BY DEF raw_formats
<1>2. Reads2("f14l", 0, 1, 255, 6, 0, 255, -2) /\ Writes2("f14l", 0, 1, 0, -6, 0, 3, 2)
  <2>1. Reads("f14l", 0) = << <<1, 255, 6>>, <<0, 255, -2>> >> /\ Writes("f14l", 0) = {<<0, 3, 2>>, <<1, 0, -6>>}
    BY <1>1 DEF Pixel14l, FMT_DEF, Reads, Writes
  <2> QED BY <2>1, Shape14l DEF Reads2, Writes2
<1>3. Reads3("f14l", 1, 0, 3, 12, 3, 255, 4, 2, 255, -4) /\ Writes3("f14l", 1, 0, 252, -12, 3, 0, -4, 2, 15, 4)
  <2>1. Reads("f14l", 1) = << <<0, 3, 12>>, <<3, 255, 4>>, <<2, 255, -4>> >> /\ Writes("f14l", 1) = {<<0, 252, -12>>, <<2, 15, 4>>, <<3, 0, -4>>}
    BY <1>1 DEF Pixel14l, FMT_DEF, Reads, Writes
  <2> QED BY <2>1, Shape14l DEF Reads3, Writes3
<1>4. Reads3("f14l", 2, 2, 15, 10, 5, 255, 2, 4, 255, -6) /\ Writes3("f14l", 2, 2, 240, -10, 5, 0, -2, 4, 63, 6)
  <2>1. Reads("f14l", 2) = << <<2, 15, 10>>, <<5, 255, 2>>, <<4, 255, -6>> >> /\ Writes("f14l", 2) = {<<2, 240, -10>>, <<4, 63, 6>>, <<5, 0, -2>>}
    BY <1>1 DEF Pixel14l, FMT_DEF, Reads, Writes
  <2> QED BY <2>1, Shape14l DEF Reads3, Writes3
<1>5. Reads2("f14l", 3, 4, 63, 8, 7, 255, 0) /\ Writes2("f14l", 3, 4, 192, -8, 7, 0, 0)
  <2>1. Reads("f14l", 3) = << <<4, 63, 8>>, <<7, 255, 0>> >> /\ Writes("f14l", 3) = {<<4, 192, -8>>, <<7, 0, 0>>}
    BY <1>1 DEF Pixel14l, FMT_DEF, Reads, Writes
  <2> QED BY <2>1, Shape14l DEF Reads2, Writes2
<1>6. Reads2("f14l", 4, 6, 255, 6, 9, 255, -2) /\ Writes2("f14l", 4, 6, 0, -6, 9, 3, 2)
  <2>1. Reads("f14l", 4) = << <<6, 255, 6>>, <<9, 255, -2>> >> /\ Writes("f14l", 4) = {<<6, 0, -6>>, <<9, 3, 2>>}
    BY <1>1 DEF Pixel14l, FMT_DEF, Reads, Writes
  <2> QED BY <2>1, Shape14l DEF Reads2, Writes2
<1>7. Reads3("f14l", 5, 9, 3, 12, 8, 255, 4, 11, 255, -4) /\ Writes3("f14l", 5, 9, 252, -12, 8, 0, -4, 11, 15, 4)
  <2>1. Reads("f14l", 5) = << <<9, 3, 12>>, <<8, 255, 4>>, <<11, 255, -4>> >> /\ Writes("f14l", 5) = {<<8, 0, -4>>, <<9, 252, -12>>, <<11, 15, 4>>}
    BY <1>1 DEF Pixel14l, FMT_DEF, Reads, Writes
  <2> QED BY <2>1, Shape14l DEF Reads3, Writes3
<1>8. Reads3("f14l", 6, 11, 15, 10, 10, 255, 2, 13, 255, -6) /\ Writes3("f14l", 6, 11, 240, -10, 10, 0, -2, 13, 63, 6)
  <2>1. Reads("f14l", 6) = << <<11, 15, 10>>, <<10, 255, 2>>, <<13, 255, -6>> >> /\ Writes("f14l", 6) = {<<10, 0, -2>>, <<11, 240, -10>>, <<13, 63, 6>>}
    BY <1>1 DEF Pixel14l, FMT_DEF, Reads, Writes
  <2> QED BY <2>1, Shape14l DEF Reads3, Writes3
<1>9. Reads2("f14l", 7, 13, 63, 8, 12, 255, 0) /\ Writes2("f14l", 7, 13, 192, -8, 12, 0, 0)
  <2>1. Reads("f14l", 7) = << <<13, 63, 8>>, <<12, 255, 0>> >> /\ Writes("f14l", 7) = {<<12, 0, 0>>, <<13, 192, -8>>}
    BY <1>1 DEF Pixel14l, FMT_DEF, Reads, Writes
  <2> QED BY <2>1, Shape14l DEF Reads2, Writes2
<1> QED BY <1>2, <1>3, <1>4, <1>5, <1>6, <1>7, <1>8, <1>9

\* Its pixels are read where the format stores them.
LEMMA Layout14l ==
    ASSUME NEW p, NEW base \in Nat, BlockAt("f14l", p, base) \in [BlockBytes("f14l") -> Octet],
           NEW z \in 0..7
    PROVE  Laid("f14l", p, base, z)
<1>0. Laid("f14l", p, base, 0)
  <2>1. LiesIn("f14l", 0, 0, 0 + 1, -2)
    BY Shape14l DEF LiesIn, FirstByte, LastByte, Excess
  <2>2. Swapped("f14l", 0) = 1 /\ Swapped("f14l", 0 + 1) = 0
    BY Shape14l DEF Swapped
  <2>3. Reads2("f14l", 0, 1, 255, 6, 0, 255, -2) /\ raw_formats["f14l"].bpp = 14 /\ Pair(14, 255, 6, -2)
    BY Shape14l, Rows14l, Pairs
  <2> QED BY <2>1, <2>2, <2>3, TwoLaid
<1>1. Laid("f14l", p, base, 1)
  <2>1. LiesIn("f14l", 1, 1, 1 + 2, -4)
    BY Shape14l DEF LiesIn, FirstByte, LastByte, Excess
  <2>2. Swapped("f14l", 1) = 0 /\ Swapped("f14l", 1 + 1) = 3 /\ Swapped("f14l", 1 + 2) = 2
    BY Shape14l DEF Swapped
  <2>3. Reads3("f14l", 1, 0, 3, 12, 3, 255, 4, 2, 255, -4) /\ raw_formats["f14l"].bpp = 14 /\ Triple(3, 12, 4, -4)
    BY Shape14l, Rows14l, Triples
  <2> QED BY <2>1, <2>2, <2>3, ThreeLaid
<1>2. Laid("f14l", p, base, 2)
  <2>1. LiesIn("f14l", 2, 3, 3 + 2, -6)
    BY Shape14l DEF LiesIn, FirstByte, LastByte, Excess
  <2>2. Swapped("f14l", 3) = 2 /\ Swapped("f14l", 3 + 1) = 5 /\ Swapped("f14l", 3 + 2) = 4
    BY Shape14l DEF Swapped
  <2>3. Reads3("f14l", 2, 2, 15, 10, 5, 255, 2, 4, 255, -6) /\ raw_formats["f14l"].bpp = 14 /\ Triple(15, 10, 2, -6)
    BY Shape14l, Rows14l, Triples
  <2> QED BY <2>1, <2>2, <2>3, ThreeLaid
<1>3. Laid("f14l", p, base, 3)
  <2>1. LiesIn("f14l", 3, 5, 5 + 1, 0)
    BY Shape14l DEF LiesIn, FirstByte, LastByte, Excess
  <2>2. Swapped("f14l", 5) = 4 /\ Swapped("f14l", 5 + 1) = 7
    BY Shape14l DEF Swapped
  <2>3. Reads2("f14l", 3, 4, 63, 8, 7, 255, 0) /\ raw_formats["f14l"].bpp = 14 /\ Pair(14, 63, 8, 0)
    BY Shape14l, Rows14l, Pairs
  <2> QED BY <2>1, <2>2, <2>3, TwoLaid
<1>4. Laid("f14l", p, base, 4)
  <2>1. LiesIn("f14l", 4, 7, 7 + 1, -2)
    BY Shape14l DEF LiesIn, FirstByte, LastByte, Excess
  <2>2. Swapped("f14l", 7) = 6 /\ Swapped("f14l", 7 + 1) = 9
    BY Shape14l DEF Swapped
  <2>3. Reads2("f14l", 4, 6, 255, 6, 9, 255, -2) /\ raw_formats["f14l"].bpp = 14 /\ Pair(14, 255, 6, -2)
    BY Shape14l, Rows14l, Pairs
  <2> QED BY <2>1, <2>2, <2>3, TwoLaid
<1>5. Laid("f14l", p, base, 5)
  <2>1. LiesIn("f14l", 5, 8, 8 + 2, -4)
    BY Shape14l DEF LiesIn, FirstByte, LastByte, Excess
  <2>2. Swapped("f14l", 8) = 9 /\ Swapped("f14l", 8 + 1) = 8 /\ Swapped("f14l", 8 + 2) = 11
    BY Shape14l DEF Swapped
  <2>3. Reads3("f14l", 5, 9, 3, 12, 8, 255, 4, 11, 255, -4) /\ raw_formats["f14l"].bpp = 14 /\ Triple(3, 12, 4, -4)
    BY Shape14l, Rows14l, Triples
  <2> QED BY <2>1, <2>2, <2>3, ThreeLaid
<1>6. Laid("f14l", p, base, 6)
  <2>1. LiesIn("f14l", 6, 10, 10 + 2, -6)
    BY Shape14l DEF LiesIn, FirstByte, LastByte, Excess
  <2>2. Swapped("f14l", 10) = 11 /\ Swapped("f14l", 10 + 1) = 10 /\ Swapped("f14l", 10 + 2) = 13
    BY Shape14l DEF Swapped
  <2>3. Reads3("f14l", 6, 11, 15, 10, 10, 255, 2, 13, 255, -6) /\ raw_formats["f14l"].bpp = 14 /\ Triple(15, 10, 2, -6)
    BY Shape14l, Rows14l, Triples
  <2> QED BY <2>1, <2>2, <2>3, ThreeLaid
<1>7. Laid("f14l", p, base, 7)
  <2>1. LiesIn("f14l", 7, 12, 12 + 1, 0)
    BY Shape14l DEF LiesIn, FirstByte, LastByte, Excess
  <2>2. Swapped("f14l", 12) = 13 /\ Swapped("f14l", 12 + 1) = 12
    BY Shape14l DEF Swapped
  <2>3. Reads2("f14l", 7, 13, 63, 8, 12, 255, 0) /\ raw_formats["f14l"].bpp = 14 /\ Pair(14, 63, 8, 0)
    BY Shape14l, Rows14l, Pairs
  <2> QED BY <2>1, <2>2, <2>3, TwoLaid
<1> QED BY <1>0, <1>1, <1>2, <1>3, <1>4, <1>5, <1>6, <1>7

\* Its writes fit their bytes.
LEMMA Writes14l ==
    ASSUME NEW v \in Nat, v < Pow2[14], NEW z \in 0..7
    PROVE  Writable("f14l", z, v)
<1>0. v < 16384
  BY Powers
<1>1. Writable("f14l", 0, v)
  <2>1. FitsAt(3, 2, v) /\ FitsAt(0, -6, v)
    BY <1>0, Fitting
  <2> QED BY <2>1, Rows14l, Shape14l, TwoWritable
<1>2. Writable("f14l", 1, v)
  <2>1. FitsAt(252, -12, v) /\ FitsAt(15, 4, v) /\ FitsAt(0, -4, v)
    BY <1>0, Fitting
  <2> QED BY <2>1, Rows14l, Shape14l, ThreeWritable
<1>3. Writable("f14l", 2, v)
  <2>1. FitsAt(240, -10, v) /\ FitsAt(63, 6, v) /\ FitsAt(0, -2, v)
    BY <1>0, Fitting
  <2> QED BY <2>1, Rows14l, Shape14l, ThreeWritable
<1>4. Writable("f14l", 3, v)
  <2>1. FitsAt(192, -8, v) /\ FitsAt(0, 0, v)
    BY <1>0, Fitting
  <2> QED BY <2>1, Rows14l, Shape14l, TwoWritable
<1>5. Writable("f14l", 4, v)
  <2>1. FitsAt(0, -6, v) /\ FitsAt(3, 2, v)
    BY <1>0, Fitting
  <2> QED BY <2>1, Rows14l, Shape14l, TwoWritable
<1>6. Writable("f14l", 5, v)
  <2>1. FitsAt(0, -4, v) /\ FitsAt(252, -12, v) /\ FitsAt(15, 4, v)
    BY <1>0, Fitting
  <2> QED BY <2>1, Rows14l, Shape14l, ThreeWritable
<1>7. Writable("f14l", 6, v)
  <2>1. FitsAt(0, -2, v) /\ FitsAt(240, -10, v) /\ FitsAt(63, 6, v)
    BY <1>0, Fitting
  <2> QED BY <2>1, Rows14l, Shape14l, ThreeWritable
<1>8. Writable("f14l", 7, v)
  <2>1. FitsAt(0, 0, v) /\ FitsAt(192, -8, v)
    BY <1>0, Fitting
  <2> QED BY <2>1, Rows14l, Shape14l, TwoWritable
<1> QED BY <1>1, <1>2, <1>3, <1>4, <1>5, <1>6, <1>7, <1>8

\* A write to one of its pixels touches no part of another.
LEMMA Others14l ==
    ASSUME NEW y \in 0..7, NEW z \in 0..7, y # z
    PROVE  Unseen("f14l", y, z)
<1>0. ASSUME y = 0 PROVE Unseen("f14l", 0, z)
  BY <1>0, Rows14l, Shape14l DEF Unseen, Apart, Reads2, Reads3, Writes2, Writes3
<1>1. ASSUME y = 1 PROVE Unseen("f14l", 1, z)
  BY <1>1, Rows14l, Shape14l DEF Unseen, Apart, Reads2, Reads3, Writes2, Writes3
<1>2. ASSUME y = 2 PROVE Unseen("f14l", 2, z)
  BY <1>2, Rows14l, Shape14l DEF Unseen, Apart, Reads2, Reads3, Writes2, Writes3
<1>3. ASSUME y = 3 PROVE Unseen("f14l", 3, z)
  BY <1>3, Rows14l, Shape14l DEF Unseen, Apart, Reads2, Reads3, Writes2, Writes3
<1>4. ASSUME y = 4 PROVE Unseen("f14l", 4, z)
  BY <1>4, Rows14l, Shape14l DEF Unseen, Apart, Reads2, Reads3, Writes2, Writes3
<1>5. ASSUME y = 5 PROVE Unseen("f14l", 5, z)
  BY <1>5, Rows14l, Shape14l DEF Unseen, Apart, Reads2, Reads3, Writes2, Writes3
<1>6. ASSUME y = 6 PROVE Unseen("f14l", 6, z)
  BY <1>6, Rows14l, Shape14l DEF Unseen, Apart, Reads2, Reads3, Writes2, Writes3
<1>7. ASSUME y = 7 PROVE Unseen("f14l", 7, z)
  BY <1>7, Rows14l, Shape14l DEF Unseen, Apart, Reads2, Reads3, Writes2, Writes3
<1> QED BY <1>0, <1>1, <1>2, <1>3, <1>4, <1>5, <1>6, <1>7

\* What is written to one of its pixels is read from it.
LEMMA Written14l ==
    ASSUME NEW q \in [BlockBytes("f14l") -> Octet], NEW v \in Nat, v < Pow2[14], NEW z \in 0..7
    PROVE  PixelOf("f14l", Written("f14l", q, z, v), z) = v
<1>0. v < 16384
  BY Powers
<1>1. PixelOf("f14l", Written("f14l", q, 0, v), 0) = v
  <2>1. Writable("f14l", 0, v) /\ Restores2(v, 255, 6, 0, -6, 255, -2, 3, 2)
    BY <1>0, Writes14l, Restored
  <2> QED BY <2>1, Rows14l, Shape14l, TwoWritten
<1>2. PixelOf("f14l", Written("f14l", q, 1, v), 1) = v
  <2>1. Writable("f14l", 1, v) /\ Restores3(v, 3, 12, 252, -12, 255, 4, 0, -4, 255, -4, 15, 4)
    BY <1>0, Writes14l, Restored
  <2> QED BY <2>1, Rows14l, Shape14l, ThreeWritten
<1>3. PixelOf("f14l", Written("f14l", q, 2, v), 2) = v
  <2>1. Writable("f14l", 2, v) /\ Restores3(v, 15, 10, 240, -10, 255, 2, 0, -2, 255, -6, 63, 6)
    BY <1>0, Writes14l, Restored
  <2> QED BY <2>1, Rows14l, Shape14l, ThreeWritten
<1>4. PixelOf("f14l", Written("f14l", q, 3, v), 3) = v
  <2>1. Writable("f14l", 3, v) /\ Restores2(v, 63, 8, 192, -8, 255, 0, 0, 0)
    BY <1>0, Writes14l, Restored
  <2> QED BY <2>1, Rows14l, Shape14l, TwoWritten
<1>5. PixelOf("f14l", Written("f14l", q, 4, v), 4) = v
  <2>1. Writable("f14l", 4, v) /\ Restores2(v, 255, 6, 0, -6, 255, -2, 3, 2)
    BY <1>0, Writes14l, Restored
  <2> QED BY <2>1, Rows14l, Shape14l, TwoWritten
<1>6. PixelOf("f14l", Written("f14l", q, 5, v), 5) = v
  <2>1. Writable("f14l", 5, v) /\ Restores3(v, 3, 12, 252, -12, 255, 4, 0, -4, 255, -4, 15, 4)
    BY <1>0, Writes14l, Restored
  <2> QED BY <2>1, Rows14l, Shape14l, ThreeWritten
<1>7. PixelOf("f14l", Written("f14l", q, 6, v), 6) = v
  <2>1. Writable("f14l", 6, v) /\ Restores3(v, 15, 10, 240, -10, 255, 2, 0, -2, 255, -6, 63, 6)
    BY <1>0, Writes14l, Restored
  <2> QED BY <2>1, Rows14l, Shape14l, ThreeWritten
<1>8. PixelOf("f14l", Written("f14l", q, 7, v), 7) = v
  <2>1. Writable("f14l", 7, v) /\ Restores2(v, 63, 8, 192, -8, 255, 0, 0, 0)
    BY <1>0, Writes14l, Restored
  <2> QED BY <2>1, Rows14l, Shape14l, TwoWritten
<1> QED BY <1>1, <1>2, <1>3, <1>4, <1>5, <1>6, <1>7, <1>8

\* The 14 bit format, big endian: the sizes of its block.
LEMMA Shape14b ==
    /\ raw_formats["f14b"].bpp = 14 /\ raw_formats["f14b"].block_bytes = 7 /\ raw_formats["f14b"].block_pixels = 4
    /\ Len(raw_formats["f14b"].get) = 4 /\ Len(raw_formats["f14b"].set) = 8
    /\ BlockBytes("f14b") = 0..6 /\ RawSizes("f14b") /\ "f14b" \notin Little
<1>1. raw_formats["f14b"] = Pixel14b
  BY DEF raw_formats
<1>2. Pixel14b.bpp = 14 /\ Pixel14b.block_bytes = 7 /\ Pixel14b.block_pixels = 4
  BY DEF Pixel14b, FMT_DEF
<1>3. Len(Pixel14b.get) = 4 /\ Len(Pixel14b.set) = 8
  BY DEF Pixel14b, FMT_DEF
<1>4. "f14b" \notin Little
  BY DEF Little
<1> QED BY <1>1, <1>2, <1>3, <1>4 DEF BlockBytes, RawSizes

\* The parts of its pixels.
LEMMA Rows14b ==
    /\ Reads2("f14b", 0, 0, 255, 6, 1, 255, -2) /\ Writes2("f14b", 0, 0, 0, -6, 1, 3, 2)
    /\ Reads3("f14b", 1, 1, 3, 12, 2, 255, 4, 3, 255, -4) /\ Writes3("f14b", 1, 1, 252, -12, 2, 0, -4, 3, 15, 4)
    /\ Reads3("f14b", 2, 3, 15, 10, 4, 255, 2, 5, 255, -6) /\ Writes3("f14b", 2, 3, 240, -10, 4, 0, -2, 5, 63, 6)
    /\ Reads2("f14b", 3, 5, 63, 8, 6, 255, 0) /\ Writes2("f14b", 3, 5, 192, -8, 6, 0, 0)
    /\ Writes("f14b", 4) = {}
    /\ Writes("f14b", 5) = {}
    /\ Writes("f14b", 6) = {}
    /\ Writes("f14b", 7) = {}
<1>1. raw_formats["f14b"] = Pixel14b
  BY DEF raw_formats
<1>2. Reads2("f14b", 0, 0, 255, 6, 1, 255, -2) /\ Writes2("f14b", 0, 0, 0, -6, 1, 3, 2)
  <2>1. Reads("f14b", 0) = << <<0, 255, 6>>, <<1, 255, -2>> >> /\ Writes("f14b", 0) = {<<1, 3, 2>>, <<0, 0, -6>>}
    BY <1>1 DEF Pixel14b, FMT_DEF, Reads, Writes
  <2> QED BY <2>1, Shape14b DEF Reads2, Writes2
<1>3. Reads3("f14b", 1, 1, 3, 12, 2, 255, 4, 3, 255, -4) /\ Writes3("f14b", 1, 1, 252, -12, 2, 0, -4, 3, 15, 4)
  <2>1. Reads("f14b", 1) = << <<1, 3, 12>>, <<2, 255, 4>>, <<3, 255, -4>> >> /\ Writes("f14b", 1) = {<<1, 252, -12>>, <<3, 15, 4>>, <<2, 0, -4>>}
    BY <1>1 DEF Pixel14b, FMT_DEF, Reads, Writes
  <2> QED BY <2>1, Shape14b DEF Reads3, Writes3
<1>4. Reads3("f14b", 2, 3, 15, 10, 4, 255, 2, 5, 255, -6) /\ Writes3("f14b", 2, 3, 240, -10, 4, 0, -2, 5, 63, 6)
  <2>1. Reads("f14b", 2) = << <<3, 15, 10>>, <<4, 255, 2>>, <<5, 255, -6>> >> /\ Writes("f14b", 2) = {<<3, 240, -10>>, <<5, 63, 6>>, <<4, 0, -2>>}
    BY <1>1 DEF Pixel14b, FMT_DEF, Reads, Writes
  <2> QED BY <2>1, Shape14b DEF Reads3, Writes3
<1>5. Reads2("f14b", 3, 5, 63, 8, 6, 255, 0) /\ Writes2("f14b", 3, 5, 192, -8, 6, 0, 0)
  <2>1. Reads("f14b", 3) = << <<5, 63, 8>>, <<6, 255, 0>> >> /\ Writes("f14b", 3) = {<<5, 192, -8>>, <<6, 0, 0>>}
    BY <1>1 DEF Pixel14b, FMT_DEF, Reads, Writes
  <2> QED BY <2>1, Shape14b DEF Reads2, Writes2
<1>6. Writes("f14b", 4) = {}
  <2>1. Writes("f14b", 4) = {}
    BY <1>1 DEF Pixel14b, FMT_DEF, Reads, Writes
  <2> QED BY <2>1, Shape14b
<1>7. Writes("f14b", 5) = {}
  <2>1. Writes("f14b", 5) = {}
    BY <1>1 DEF Pixel14b, FMT_DEF, Reads, Writes
  <2> QED BY <2>1, Shape14b
<1>8. Writes("f14b", 6) = {}
  <2>1. Writes("f14b", 6) = {}
    BY <1>1 DEF Pixel14b, FMT_DEF, Reads, Writes
  <2> QED BY <2>1, Shape14b
<1>9. Writes("f14b", 7) = {}
  <2>1. Writes("f14b", 7) = {}
    BY <1>1 DEF Pixel14b, FMT_DEF, Reads, Writes
  <2> QED BY <2>1, Shape14b
<1> QED BY <1>2, <1>3, <1>4, <1>5, <1>6, <1>7, <1>8, <1>9

\* Its pixels are read where the format stores them.
LEMMA Layout14b ==
    ASSUME NEW p, NEW base \in Nat, BlockAt("f14b", p, base) \in [BlockBytes("f14b") -> Octet],
           NEW z \in 0..3
    PROVE  Laid("f14b", p, base, z)
<1>0. Laid("f14b", p, base, 0)
  <2>1. LiesIn("f14b", 0, 0, 0 + 1, -2)
    BY Shape14b DEF LiesIn, FirstByte, LastByte, Excess
  <2>2. Swapped("f14b", 0) = 0 /\ Swapped("f14b", 0 + 1) = 1
    BY Shape14b DEF Swapped
  <2>3. Reads2("f14b", 0, 0, 255, 6, 1, 255, -2) /\ raw_formats["f14b"].bpp = 14 /\ Pair(14, 255, 6, -2)
    BY Shape14b, Rows14b, Pairs
  <2> QED BY <2>1, <2>2, <2>3, TwoLaid
<1>1. Laid("f14b", p, base, 1)
  <2>1. LiesIn("f14b", 1, 1, 1 + 2, -4)
    BY Shape14b DEF LiesIn, FirstByte, LastByte, Excess
  <2>2. Swapped("f14b", 1) = 1 /\ Swapped("f14b", 1 + 1) = 2 /\ Swapped("f14b", 1 + 2) = 3
    BY Shape14b DEF Swapped
  <2>3. Reads3("f14b", 1, 1, 3, 12, 2, 255, 4, 3, 255, -4) /\ raw_formats["f14b"].bpp = 14 /\ Triple(3, 12, 4, -4)
    BY Shape14b, Rows14b, Triples
  <2> QED BY <2>1, <2>2, <2>3, ThreeLaid
<1>2. Laid("f14b", p, base, 2)
  <2>1. LiesIn("f14b", 2, 3, 3 + 2, -6)
    BY Shape14b DEF LiesIn, FirstByte, LastByte, Excess
  <2>2. Swapped("f14b", 3) = 3 /\ Swapped("f14b", 3 + 1) = 4 /\ Swapped("f14b", 3 + 2) = 5
    BY Shape14b DEF Swapped
  <2>3. Reads3("f14b", 2, 3, 15, 10, 4, 255, 2, 5, 255, -6) /\ raw_formats["f14b"].bpp = 14 /\ Triple(15, 10, 2, -6)
    BY Shape14b, Rows14b, Triples
  <2> QED BY <2>1, <2>2, <2>3, ThreeLaid
<1>3. Laid("f14b", p, base, 3)
  <2>1. LiesIn("f14b", 3, 5, 5 + 1, 0)
    BY Shape14b DEF LiesIn, FirstByte, LastByte, Excess
  <2>2. Swapped("f14b", 5) = 5 /\ Swapped("f14b", 5 + 1) = 6
    BY Shape14b DEF Swapped
  <2>3. Reads2("f14b", 3, 5, 63, 8, 6, 255, 0) /\ raw_formats["f14b"].bpp = 14 /\ Pair(14, 63, 8, 0)
    BY Shape14b, Rows14b, Pairs
  <2> QED BY <2>1, <2>2, <2>3, TwoLaid
<1> QED BY <1>0, <1>1, <1>2, <1>3

\* Its writes fit their bytes.
LEMMA Writes14b ==
    ASSUME NEW v \in Nat, v < Pow2[14], NEW z \in 0..7
    PROVE  Writable("f14b", z, v)
<1>0. v < 16384
  BY Powers
<1>1. Writable("f14b", 0, v)
  <2>1. FitsAt(3, 2, v) /\ FitsAt(0, -6, v)
    BY <1>0, Fitting
  <2> QED BY <2>1, Rows14b, Shape14b, TwoWritable
<1>2. Writable("f14b", 1, v)
  <2>1. FitsAt(252, -12, v) /\ FitsAt(15, 4, v) /\ FitsAt(0, -4, v)
    BY <1>0, Fitting
  <2> QED BY <2>1, Rows14b, Shape14b, ThreeWritable
<1>3. Writable("f14b", 2, v)
  <2>1. FitsAt(240, -10, v) /\ FitsAt(63, 6, v) /\ FitsAt(0, -2, v)
    BY <1>0, Fitting
  <2> QED BY <2>1, Rows14b, Shape14b, ThreeWritable
<1>4. Writable("f14b", 3, v)
  <2>1. FitsAt(192, -8, v) /\ FitsAt(0, 0, v)
    BY <1>0, Fitting
  <2> QED BY <2>1, Rows14b, Shape14b, TwoWritable
<1>5. Writable("f14b", 4, v)
  BY Rows14b DEF Writable
<1>6. Writable("f14b", 5, v)
  BY Rows14b DEF Writable
<1>7. Writable("f14b", 6, v)
  BY Rows14b DEF Writable
<1>8. Writable("f14b", 7, v)
  BY Rows14b DEF Writable
<1> QED BY <1>1, <1>2, <1>3, <1>4, <1>5, <1>6, <1>7, <1>8

\* The 16 bit format, little endian: the sizes of its block.
LEMMA Shape16l ==
    /\ raw_formats["f16l"].bpp = 16 /\ raw_formats["f16l"].block_bytes = 2 /\ raw_formats["f16l"].block_pixels = 1
    /\ Len(raw_formats["f16l"].get) = 1 /\ Len(raw_formats["f16l"].set) = 1
    /\ BlockBytes("f16l") = 0..1 /\ RawSizes("f16l") /\ "f16l" \in Little
<1>1. raw_formats["f16l"] = Pixel16l
  BY DEF raw_formats
<1>2. Pixel16l.bpp = 16 /\ Pixel16l.block_bytes = 2 /\ Pixel16l.block_pixels = 1
  BY DEF Pixel16l, FMT_DEF
<1>3. Len(Pixel16l.get) = 1 /\ Len(Pixel16l.set) = 1
  BY DEF Pixel16l, FMT_DEF
<1>4. "f16l" \in Little
  BY DEF Little
<1> QED BY <1>1, <1>2, <1>3, <1>4 DEF BlockBytes, RawSizes

\* The parts of its pixels.
LEMMA Rows16l ==
    /\ Reads2("f16l", 0, 1, 255, 8, 0, 255, 0) /\ Writes2("f16l", 0, 1, 0, -8, 0, 0, 0)
<1>1. raw_formats["f16l"] = Pixel16l
  BY DEF raw_formats
<1>2. Reads2("f16l", 0, 1, 255, 8, 0, 255, 0) /\ Writes2("f16l", 0, 1, 0, -8, 0, 0, 0)
  <2>1. Reads("f16l", 0) = << <<1, 255, 8>>, <<0, 255, 0>> >> /\ Writes("f16l", 0) = {<<0, 0, 0>>, <<1, 0, -8>>}
    BY <1>1 DEF Pixel16l, FMT_DEF, Reads, Writes
  <2> QED BY <2>1, Shape16l DEF Reads2, Writes2
<1> QED BY <1>2

\* Its pixels are read where the format stores them.
LEMMA Layout16l ==
    ASSUME NEW p, NEW base \in Nat, BlockAt("f16l", p, base) \in [BlockBytes("f16l") -> Octet],
           NEW z \in 0..0
    PROVE  Laid("f16l", p, base, z)
<1>0. Laid("f16l", p, base, 0)
  <2>1. LiesIn("f16l", 0, 0, 0 + 1, 0)
    BY Shape16l DEF LiesIn, FirstByte, LastByte, Excess
  <2>2. Swapped("f16l", 0) = 1 /\ Swapped("f16l", 0 + 1) = 0
    BY Shape16l DEF Swapped
  <2>3. Reads2("f16l", 0, 1, 255, 8, 0, 255, 0) /\ raw_formats["f16l"].bpp = 16 /\ Pair(16, 255, 8, 0)
    BY Shape16l, Rows16l, Pairs
  <2> QED BY <2>1, <2>2, <2>3, TwoLaid
<1> QED BY <1>0

\* Its writes fit their bytes.
LEMMA Writes16l ==
    ASSUME NEW v \in Nat, v < Pow2[16], NEW z \in 0..0
    PROVE  Writable("f16l", z, v)
<1>0. v < 65536
  BY Powers
<1>1. Writable("f16l", 0, v)
  <2>1. FitsAt(0, 0, v) /\ FitsAt(0, -8, v)
    BY <1>0, Fitting
  <2> QED BY <2>1, Rows16l, Shape16l, TwoWritable
<1> QED BY <1>1

\* What is written to one of its pixels is read from it.
LEMMA Written16l ==
    ASSUME NEW q \in [BlockBytes("f16l") -> Octet], NEW v \in Nat, v < Pow2[16], NEW z \in 0..0
    PROVE  PixelOf("f16l", Written("f16l", q, z, v), z) = v
<1>0. v < 65536
  BY Powers
<1>1. PixelOf("f16l", Written("f16l", q, 0, v), 0) = v
  <2>1. Writable("f16l", 0, v) /\ Restores2(v, 255, 8, 0, -8, 255, 0, 0, 0)
    BY <1>0, Writes16l, Restored
  <2> QED BY <2>1, Rows16l, Shape16l, TwoWritten
<1> QED BY <1>1

\* The 16 bit format, big endian: the sizes of its block.
LEMMA Shape16b ==
    /\ raw_formats["f16b"].bpp = 16 /\ raw_formats["f16b"].block_bytes = 2 /\ raw_formats["f16b"].block_pixels = 1
    /\ Len(raw_formats["f16b"].get) = 1 /\ Len(raw_formats["f16b"].set) = 1
    /\ BlockBytes("f16b") = 0..1 /\ RawSizes("f16b") /\ "f16b" \notin Little
<1>1. raw_formats["f16b"] = Pixel16b
  BY DEF raw_formats
<1>2. Pixel16b.bpp = 16 /\ Pixel16b.block_bytes = 2 /\ Pixel16b.block_pixels = 1
  BY DEF Pixel16b, FMT_DEF
<1>3. Len(Pixel16b.get) = 1 /\ Len(Pixel16b.set) = 1
  BY DEF Pixel16b, FMT_DEF
<1>4. "f16b" \notin Little
  BY DEF Little
<1> QED BY <1>1, <1>2, <1>3, <1>4 DEF BlockBytes, RawSizes

\* The parts of its pixels.
LEMMA Rows16b ==
    /\ Reads2("f16b", 0, 0, 255, 8, 1, 255, 0) /\ Writes2("f16b", 0, 0, 0, -8, 1, 0, 0)
<1>1. raw_formats["f16b"] = Pixel16b
  BY DEF raw_formats
<1>2. Reads2("f16b", 0, 0, 255, 8, 1, 255, 0) /\ Writes2("f16b", 0, 0, 0, -8, 1, 0, 0)
  <2>1. Reads("f16b", 0) = << <<0, 255, 8>>, <<1, 255, 0>> >> /\ Writes("f16b", 0) = {<<0, 0, -8>>, <<1, 0, 0>>}
    BY <1>1 DEF Pixel16b, FMT_DEF, Reads, Writes
  <2> QED BY <2>1, Shape16b DEF Reads2, Writes2
<1> QED BY <1>2

\* Its pixels are read where the format stores them.
LEMMA Layout16b ==
    ASSUME NEW p, NEW base \in Nat, BlockAt("f16b", p, base) \in [BlockBytes("f16b") -> Octet],
           NEW z \in 0..0
    PROVE  Laid("f16b", p, base, z)
<1>0. Laid("f16b", p, base, 0)
  <2>1. LiesIn("f16b", 0, 0, 0 + 1, 0)
    BY Shape16b DEF LiesIn, FirstByte, LastByte, Excess
  <2>2. Swapped("f16b", 0) = 0 /\ Swapped("f16b", 0 + 1) = 1
    BY Shape16b DEF Swapped
  <2>3. Reads2("f16b", 0, 0, 255, 8, 1, 255, 0) /\ raw_formats["f16b"].bpp = 16 /\ Pair(16, 255, 8, 0)
    BY Shape16b, Rows16b, Pairs
  <2> QED BY <2>1, <2>2, <2>3, TwoLaid
<1> QED BY <1>0

\* Its writes fit their bytes.
LEMMA Writes16b ==
    ASSUME NEW v \in Nat, v < Pow2[16], NEW z \in 0..0
    PROVE  Writable("f16b", z, v)
<1>0. v < 65536
  BY Powers
<1>1. Writable("f16b", 0, v)
  <2>1. FitsAt(0, -8, v) /\ FitsAt(0, 0, v)
    BY <1>0, Fitting
  <2> QED BY <2>1, Rows16b, Shape16b, TwoWritable
<1> QED BY <1>1

\* What is written to one of its pixels is read from it.
LEMMA Written16b ==
    ASSUME NEW q \in [BlockBytes("f16b") -> Octet], NEW v \in Nat, v < Pow2[16], NEW z \in 0..0
    PROVE  PixelOf("f16b", Written("f16b", q, z, v), z) = v
<1>0. v < 65536
  BY Powers
<1>1. PixelOf("f16b", Written("f16b", q, 0, v), 0) = v
  <2>1. Writable("f16b", 0, v) /\ Restores2(v, 255, 8, 0, -8, 255, 0, 0, 0)
    BY <1>0, Writes16b, Restored
  <2> QED BY <2>1, Rows16b, Shape16b, TwoWritten
<1> QED BY <1>1

-----------------------------------------------------------------------------
(***************************************************************************)
(* All formats.                                                            *)
(***************************************************************************)
\* Their names.
LEMMA FormatNames ==
    ASSUME NEW f \in DOMAIN raw_formats
    PROVE  f \in {"f8l", "f10l", "f10b", "f12l", "f12b", "f14l", "f14b", "f16l", "f16b"}
BY DEF raw_formats

\* What their sizes have in common: blocks of whole bytes that divide eight pixels.
Regular(f) ==
    /\ RawSizes(f) /\ raw_formats[f].bpp \in {8, 10, 12, 14, 16} /\ raw_formats[f].block_bytes > 0
    /\ raw_formats[f].block_pixels \in {1, 2, 4, 8}
    /\ Len(raw_formats[f].get) = raw_formats[f].block_pixels

\* All formats are regular, and all but one write as many pixels as they read.
LEMMA FormatsRegular ==
    ASSUME NEW f \in DOMAIN raw_formats
    PROVE  /\ Regular(f) /\ Len(raw_formats[f].set) \in Nat \ {0}
           /\ f # "f14b" => Len(raw_formats[f].set) = raw_formats[f].block_pixels
<1>1. ASSUME f = "f8l" PROVE Regular(f) /\ Len(raw_formats[f].set) \in Nat \ {0}
                                     /\ (f # "f14b" => Len(raw_formats[f].set) = raw_formats[f].block_pixels)
  BY <1>1, Shape8l DEF Regular
<1>2. ASSUME f = "f10l" PROVE Regular(f) /\ Len(raw_formats[f].set) \in Nat \ {0}
                                     /\ (f # "f14b" => Len(raw_formats[f].set) = raw_formats[f].block_pixels)
  BY <1>2, Shape10l DEF Regular
<1>3. ASSUME f = "f10b" PROVE Regular(f) /\ Len(raw_formats[f].set) \in Nat \ {0}
                                     /\ (f # "f14b" => Len(raw_formats[f].set) = raw_formats[f].block_pixels)
  BY <1>3, Shape10b DEF Regular
<1>4. ASSUME f = "f12l" PROVE Regular(f) /\ Len(raw_formats[f].set) \in Nat \ {0}
                                     /\ (f # "f14b" => Len(raw_formats[f].set) = raw_formats[f].block_pixels)
  BY <1>4, Shape12l DEF Regular
<1>5. ASSUME f = "f12b" PROVE Regular(f) /\ Len(raw_formats[f].set) \in Nat \ {0}
                                     /\ (f # "f14b" => Len(raw_formats[f].set) = raw_formats[f].block_pixels)
  BY <1>5, Shape12b DEF Regular
<1>6. ASSUME f = "f14l" PROVE Regular(f) /\ Len(raw_formats[f].set) \in Nat \ {0}
                                     /\ (f # "f14b" => Len(raw_formats[f].set) = raw_formats[f].block_pixels)
  BY <1>6, Shape14l DEF Regular
<1>7. ASSUME f = "f14b" PROVE Regular(f) /\ Len(raw_formats[f].set) \in Nat \ {0}
                                     /\ (f # "f14b" => Len(raw_formats[f].set) = raw_formats[f].block_pixels)
  BY <1>7, Shape14b DEF Regular
<1>8. ASSUME f = "f16l" PROVE Regular(f) /\ Len(raw_formats[f].set) \in Nat \ {0}
                                     /\ (f # "f14b" => Len(raw_formats[f].set) = raw_formats[f].block_pixels)
  BY <1>8, Shape16l DEF Regular
<1>9. ASSUME f = "f16b" PROVE Regular(f) /\ Len(raw_formats[f].set) \in Nat \ {0}
                                     /\ (f # "f14b" => Len(raw_formats[f].set) = raw_formats[f].block_pixels)
  BY <1>9, Shape16b DEF Regular
<1> QED BY FormatNames, <1>1, <1>2, <1>3, <1>4, <1>5, <1>6, <1>7, <1>8, <1>9

\* Every pixel is read where it is stored.
LEMMA FormatsLaid ==
    ASSUME NEW f \in DOMAIN raw_formats, NEW p, NEW base \in Nat,
           BlockAt(f, p, base) \in [BlockBytes(f) -> Octet],
           NEW z \in 0..(raw_formats[f].block_pixels - 1)
    PROVE  Laid(f, p, base, z)
<1>1. ASSUME f = "f8l" PROVE Laid(f, p, base, z)
  BY <1>1, Shape8l, Layout8l
<1>2. ASSUME f = "f10l" PROVE Laid(f, p, base, z)
  BY <1>2, Shape10l, Layout10l
<1>3. ASSUME f = "f10b" PROVE Laid(f, p, base, z)
  BY <1>3, Shape10b, Layout10b
<1>4. ASSUME f = "f12l" PROVE Laid(f, p, base, z)
  BY <1>4, Shape12l, Layout12l
<1>5. ASSUME f = "f12b" PROVE Laid(f, p, base, z)
  BY <1>5, Shape12b, Layout12b
<1>6. ASSUME f = "f14l" PROVE Laid(f, p, base, z)
  BY <1>6, Shape14l, Layout14l
<1>7. ASSUME f = "f14b" PROVE Laid(f, p, base, z)
  BY <1>7, Shape14b, Layout14b
<1>8. ASSUME f = "f16l" PROVE Laid(f, p, base, z)
  BY <1>8, Shape16l, Layout16l
<1>9. ASSUME f = "f16b" PROVE Laid(f, p, base, z)
  BY <1>9, Shape16b, Layout16b
<1> QED BY FormatNames, <1>1, <1>2, <1>3, <1>4, <1>5, <1>6, <1>7, <1>8, <1>9

\* Every write fits its bytes.
LEMMA FormatsWritable ==
    ASSUME NEW f \in DOMAIN raw_formats, NEW v \in Nat, v < Pow2[raw_formats[f].bpp],
           NEW z \in 0..(Len(raw_formats[f].set) - 1)
    PROVE  Writable(f, z, v)
<1>1. ASSUME f = "f8l" PROVE Writable(f, z, v)
  BY <1>1, Shape8l, Writes8l
<1>2. ASSUME f = "f10l" PROVE Writable(f, z, v)
  BY <1>2, Shape10l, Writes10l
<1>3. ASSUME f = "f10b" PROVE Writable(f, z, v)
  BY <1>3, Shape10b, Writes10b
<1>4. ASSUME f = "f12l" PROVE Writable(f, z, v)
  BY <1>4, Shape12l, Writes12l
<1>5. ASSUME f = "f12b" PROVE Writable(f, z, v)
  BY <1>5, Shape12b, Writes12b
<1>6. ASSUME f = "f14l" PROVE Writable(f, z, v)
  BY <1>6, Shape14l, Writes14l
<1>7. ASSUME f = "f14b" PROVE Writable(f, z, v)
  BY <1>7, Shape14b, Writes14b
<1>8. ASSUME f = "f16l" PROVE Writable(f, z, v)
  BY <1>8, Shape16l, Writes16l
<1>9. ASSUME f = "f16b" PROVE Writable(f, z, v)
  BY <1>9, Shape16b, Writes16b
<1> QED BY FormatNames, <1>1, <1>2, <1>3, <1>4, <1>5, <1>6, <1>7, <1>8, <1>9

\* In all formats but one, a write changes one pixel of its block.
LEMMA FormatsUnseen ==
    ASSUME NEW f \in DOMAIN raw_formats, f # "f14b",
           NEW y \in 0..(raw_formats[f].block_pixels - 1), NEW z \in 0..(raw_formats[f].block_pixels - 1), y # z
    PROVE  Unseen(f, y, z)
<1>1. ASSUME f = "f8l" PROVE Unseen(f, y, z)
  BY <1>1, Shape8l
<1>2. ASSUME f = "f10l" PROVE Unseen(f, y, z)
  BY <1>2, Shape10l, Others10l
<1>3. ASSUME f = "f10b" PROVE Unseen(f, y, z)
  BY <1>3, Shape10b, Others10b
<1>4. ASSUME f = "f12l" PROVE Unseen(f, y, z)
  BY <1>4, Shape12l, Others12l
<1>5. ASSUME f = "f12b" PROVE Unseen(f, y, z)
  BY <1>5, Shape12b, Others12b
<1>6. ASSUME f = "f14l" PROVE Unseen(f, y, z)
  BY <1>6, Shape14l, Others14l
<1>7. ASSUME f = "f14b" PROVE Unseen(f, y, z)
  BY <1>7
<1>8. ASSUME f = "f16l" PROVE Unseen(f, y, z)
  BY <1>8, Shape16l
<1>9. ASSUME f = "f16b" PROVE Unseen(f, y, z)
  BY <1>9, Shape16b
<1> QED BY FormatNames, <1>1, <1>2, <1>3, <1>4, <1>5, <1>6, <1>7, <1>8, <1>9

\* And that one reads back.
LEMMA FormatsWritten ==
    ASSUME NEW f \in DOMAIN raw_formats, f # "f14b", NEW q \in [BlockBytes(f) -> Octet],
           NEW v \in Nat, v < Pow2[raw_formats[f].bpp], NEW z \in 0..(raw_formats[f].block_pixels - 1)
    PROVE  PixelOf(f, Written(f, q, z, v), z) = v
<1>1. ASSUME f = "f8l" PROVE PixelOf(f, Written(f, q, z, v), z) = v
  BY <1>1, Shape8l, Written8l
<1>2. ASSUME f = "f10l" PROVE PixelOf(f, Written(f, q, z, v), z) = v
  BY <1>2, Shape10l, Written10l
<1>3. ASSUME f = "f10b" PROVE PixelOf(f, Written(f, q, z, v), z) = v
  BY <1>3, Shape10b, Written10b
<1>4. ASSUME f = "f12l" PROVE PixelOf(f, Written(f, q, z, v), z) = v
  BY <1>4, Shape12l, Written12l
<1>5. ASSUME f = "f12b" PROVE PixelOf(f, Written(f, q, z, v), z) = v
  BY <1>5, Shape12b, Written12b
<1>6. ASSUME f = "f14l" PROVE PixelOf(f, Written(f, q, z, v), z) = v
  BY <1>6, Shape14l, Written14l
<1>7. ASSUME f = "f14b" PROVE PixelOf(f, Written(f, q, z, v), z) = v
  BY <1>7
<1>8. ASSUME f = "f16l" PROVE PixelOf(f, Written(f, q, z, v), z) = v
  BY <1>8, Shape16l, Written16l
<1>9. ASSUME f = "f16b" PROVE PixelOf(f, Written(f, q, z, v), z) = v
  BY <1>9, Shape16b, Written16b
<1> QED BY FormatNames, <1>1, <1>2, <1>3, <1>4, <1>5, <1>6, <1>7, <1>8, <1>9

-----------------------------------------------------------------------------
(***************************************************************************)
(* Pixels of an image.                                                     *)
(***************************************************************************)
\* A read of a pixel is a read of its block.
LEMMA GetBlock ==
    ASSUME NEW f, NEW p, NEW off, NEW row, NEW x, NEW y,
           NEW base, base = off + Block(f, row, x, y),
           NEW z, z = x % Len(raw_formats[f].get), ReadsInside(f, z)
    PROVE  raw_get_pixel(f, p, off, row, x, y) = PixelOf(f, BlockAt(f, p, base), z)
<1> DEFINE parts == Reads(f, z)
           q == BlockAt(f, p, base)
<1>1. raw_get_pixel(f, p, off, row, x, y)
        = Total([k \in DOMAIN parts |-> Shift(Mask(p[base + parts[k][1]], parts[k][2]), parts[k][3])])
  BY Zenon DEF raw_get_pixel, Reads
<1>2. \A k \in DOMAIN parts : p[base + parts[k][1]] = q[parts[k][1]]
  BY DEF ReadsInside, BlockAt
<1>3. [k \in DOMAIN parts |-> Shift(Mask(p[base + parts[k][1]], parts[k][2]), parts[k][3])]
        = [k \in DOMAIN parts |-> Shift(Mask(q[parts[k][1]], parts[k][2]), parts[k][3])]
  <2> HIDE DEF parts, q
  <2> QED BY <1>2, Zenon
<1>4. PixelOf(f, q, z) = Total([k \in DOMAIN parts |-> Shift(Mask(q[parts[k][1]], parts[k][2]), parts[k][3])])
  BY Zenon DEF PixelOf
<1> QED BY <1>1, <1>3, <1>4, Zenon

\* Value v is written to a pixel, which is pixel z of a write to the block at base.
SetAt(f, D, p, off, row, x, y, v, base, z, r) ==
    /\ base = off + Block(f, row, x, y) /\ z = x % Len(raw_formats[f].set)
    /\ \A k \in BlockBytes(f) : base + k \in D
    /\ r = raw_set_pixel(f, p, off, row, x, y, v)

\* That changes the block, and no other bytes.
Changed(f, D, p, v, base, z, r) ==
    /\ r \in [D -> Octet]
    /\ BlockAt(f, r, base) = Written(f, BlockAt(f, p, base), z, v)
    /\ \A i \in D : (\A k \in BlockBytes(f) : base + k # i) => r[i] = p[i]

\* A write to a pixel is a write to its block, and leaves the other bytes.
LEMMA SetBlock ==
    ASSUME NEW f, NEW D, NEW p \in [D -> Octet], NEW off, NEW row, NEW x, NEW y, NEW v \in Nat,
           NEW base \in Int, NEW z, Writable(f, z, v), NEW r, SetAt(f, D, p, off, row, x, y, v, base, z, r)
    PROVE  Changed(f, D, p, v, base, z, r)
<1> DEFINE parts == Writes(f, z)
           q == BlockAt(f, p, base)
           B == BlockBytes(f)
<1>0. DOMAIN p = D /\ B \subseteq Int /\ \A k \in B : base + k \in D
  BY DEF BlockBytes, SetAt
<1>q. q \in [B -> Octet] /\ DOMAIN q = B /\ \A k \in B : q[k] = p[base + k]
  BY <1>0 DEF BlockAt
<1>w. \A t \in parts : t[1] \in B /\ Fits(t, v) /\ \A u \in parts : u[1] = t[1] => u = t
  BY DEF Writable
<1>1. r = [i \in D |-> IF \E t \in parts : base + t[1] = i
                       THEN LET t == CHOOSE t \in parts : base + t[1] = i
                            IN  Mask(p[i], t[2]) + (Shift(v, t[3]) % 256)
                       ELSE p[i]]
  BY <1>0, Zenon DEF raw_set_pixel, Writes, SetAt
<1>2. ASSUME NEW t \in parts PROVE r[base + t[1]] = Blend(p[base + t[1]], t[2], v, t[3])
  <2> DEFINE i == base + t[1]
             c == CHOOSE u \in parts : base + u[1] = i
  <2>1. i \in D
    BY <1>0, <1>w
  <2>2. c \in parts /\ base + c[1] = i
    OBVIOUS
  <2>3. c[1] \in Int /\ t[1] \in Int
    BY <1>0, <1>w, <2>2
  <2>4. c[1] = t[1]
    <3> DEFINE m == c[1]
               n == t[1]
    <3>1. m \in Int /\ n \in Int /\ base + m = base + n
      BY <2>2, <2>3
    <3> HIDE DEF m, n
    <3>2. m = n
      BY <3>1
    <3> QED BY <3>2 DEF m, n
  <2> HIDE DEF c, parts
  <2>5. c = t
    BY <1>w, <2>2, <2>4, Zenon
  <2> USE DEF c
  <2>6. r[i] = Mask(p[i], c[2]) + (Shift(v, c[3]) % 256)
    <3>1. \E u \in parts : base + u[1] = i
      OBVIOUS
    <3> HIDE DEF i
    <3> QED BY <1>1, <2>1, <3>1, Zenon
  <2> HIDE DEF c
  <2> QED BY <2>5, <2>6, Zenon DEF Blend
<1>3. ASSUME NEW i \in D, \A t \in parts : base + t[1] # i PROVE r[i] = p[i]
  BY <1>1, <1>3, Zenon
<1> HIDE DEF parts, q, B
<1>4. BlockAt(f, r, base) = Written(f, q, z, v)
  <2>1. BlockAt(f, r, base) = [k \in B |-> r[base + k]]
    BY Zenon DEF BlockAt, B
  <2>2. Written(f, q, z, v) = [k \in B |-> Written(f, q, z, v)[k]]
    BY <1>q DEF Written
  <2>3. ASSUME NEW k \in B PROVE r[base + k] = Written(f, q, z, v)[k]
    <3>1. CASE \E t \in parts : t[1] = k
      <4>1. PICK t \in parts : t[1] = k
        BY <3>1
      <4>2. Written(f, q, z, v)[t[1]] = Blend(q[t[1]], t[2], v, t[3])
        BY <1>q, PartWritten DEF parts, B
      <4> QED BY <1>2, <1>q, <4>1, <4>2
    <3>2. CASE \A t \in parts : t[1] # k
      <4>1. Written(f, q, z, v)[k] = q[k]
        BY <3>2, <1>q, OthersKept DEF parts
      <4>2. ASSUME NEW t \in parts PROVE base + t[1] # base + k
        <5>1. t[1] \in Int /\ k \in Int /\ t[1] # k
          BY <3>2, <1>0, <1>w
        <5> DEFINE n == t[1]
        <5>2. n \in Int /\ n # k
          BY <5>1
        <5> HIDE DEF n
        <5>3. base + n # base + k
          BY <5>1, <5>2
        <5> QED BY <5>3 DEF n
      <4>3. r[base + k] = p[base + k]
        BY <1>0, <1>3, <4>2
      <4> QED BY <1>q, <4>1, <4>3
    <3> QED BY <3>1, <3>2
  <2> QED BY <2>1, <2>2, <2>3, Zenon
<1>5. ASSUME NEW i \in D, \A k \in B : base + k # i PROVE r[i] = p[i]
  BY <1>3, <1>5, <1>w
<1>6. r \in [D -> Octet]
  <2>1. Written(f, q, z, v) \in [B -> Octet]
    BY <1>q, WrittenOctets DEF B
  <2>2. ASSUME NEW i \in D PROVE r[i] \in Octet
    <3>1. CASE \E k \in B : base + k = i
      <4>1. PICK k \in B : base + k = i
        BY <3>1
      <4>2. BlockAt(f, r, base)[k] = r[i]
        BY <4>1 DEF BlockAt, B
      <4> QED BY <1>4, <2>1, <4>2
    <3>2. CASE \A k \in B : base + k # i
      BY <1>5, <3>2
    <3> QED BY <3>1, <3>2
  <2>3. r = [i \in D |-> r[i]]
    BY <1>1
  <2> QED BY <2>2, <2>3
<1> QED BY <1>4, <1>5, <1>6, Zenon DEF q, B, Changed

\* The images scripts have: what bind_lbuf accepts of Specs, and what the calls
\* make of it.
RawBuffers == UNION {[0..n -> Octet] : n \in Int}
RawAreas == { [top |-> 0, left |-> 0, bottom |-> RawHeight, right |-> Width],
              [top |-> 0, left |-> 2, bottom |-> RawHeight, right |-> Width - 2] }
Records == [fmt : RawFormats, data : RawBuffers, off : Nat, width : {Width}, height : {RawHeight},
            row_bytes : Nat, cfa : {<<0, 1, 1, 2>>, <<0, 0, 0, 0>>}, black : Nat, area : RawAreas]
Image(im) ==
    /\ im \in Records /\ im.row_bytes = raw_formats[im.fmt].bpp
    /\ \A i \in im.off..(im.off + im.row_bytes * im.height - 1) : i \in DOMAIN im.data

\* The block of pixel x in its row, and where pixel x is in it.
Blk(f, x) == x \div raw_formats[f].block_pixels
Pos(f, x) == x % raw_formats[f].block_pixels
Base(im, x, y) == im.off + Block(im.fmt, im.row_bytes, x, y)

\* The blocks of a row fill it and do not overlap.
LEMMA BlocksOfRow ==
    ASSUME NEW f, Regular(f), NEW x \in 0..(Width - 1), NEW w \in 0..(Width - 1)
    PROVE  LET bb == raw_formats[f].block_bytes
               m == Blk(f, x) * bb
               n == Blk(f, w) * bb
           IN  /\ Blk(f, x) \in Nat /\ Pos(f, x) \in 0..(raw_formats[f].block_pixels - 1)
               /\ x = Blk(f, x) * raw_formats[f].block_pixels + Pos(f, x)
               /\ bb \in Nat \ {0} /\ m \in Nat /\ n \in Nat
               /\ m + bb <= raw_formats[f].bpp
               /\ Blk(f, x) # Blk(f, w) => m + bb <= n \/ n + bb <= m
<1> DEFINE bp == raw_formats[f].block_pixels
           bb == raw_formats[f].block_bytes
           bits == raw_formats[f].bpp
           a == Blk(f, x)
           b == Blk(f, w)
<1>1. bp \in {1, 2, 4, 8} /\ bb \in Nat \ {0} /\ bits \in Nat /\ bp * bits = bb * 8 /\ x \in 0..7 /\ w \in 0..7
  BY DEF Regular, RawSizes, Width
<1>2. a = x \div bp /\ b = w \div bp /\ Pos(f, x) = x % bp
  BY DEF Blk, Pos
<1> HIDE DEF a, b, bp, bb, bits
<1>3. /\ a \in 0..7 /\ b \in 0..7 /\ (a + 1) * bp <= 8 /\ x % bp \in 0..(bp - 1) /\ x = a * bp + (x % bp)
      /\ (bp = 8 => a = 0 /\ b = 0) /\ (bp = 4 => a \in 0..1 /\ b \in 0..1)
      /\ (bp = 2 => a \in 0..3 /\ b \in 0..3)
  <2>1. CASE bp = 1
    BY <2>1, <1>1, <1>2
  <2>2. CASE bp = 2
    BY <2>2, <1>1, <1>2
  <2>3. CASE bp = 4
    BY <2>3, <1>1, <1>2
  <2>4. CASE bp = 8
    BY <2>4, <1>1, <1>2
  <2> QED BY <1>1, <2>1, <2>2, <2>3, <2>4
<1>4. a * bb + bb <= bits
  <2>1. CASE bp = 1
    BY <2>1, <1>1, <1>3
  <2>2. CASE bp = 2
    BY <2>2, <1>1, <1>3
  <2>3. CASE bp = 4
    BY <2>3, <1>1, <1>3
  <2>4. CASE bp = 8
    BY <2>4, <1>1, <1>3
  <2> QED BY <1>1, <2>1, <2>2, <2>3, <2>4
<1>5. a * bb \in Nat /\ b * bb \in Nat
  BY <1>1, <1>3
<1>6. a # b => a * bb + bb <= b * bb \/ b * bb + bb <= a * bb
  <2>1. (a + 1) * bb = a * bb + bb /\ (b + 1) * bb = b * bb + bb
    BY <1>1, <1>3
  <2>2. a + 1 <= b => (a + 1) * bb <= b * bb
    BY <1>1, <1>3, Monotone
  <2>3. b + 1 <= a => (b + 1) * bb <= a * bb
    BY <1>1, <1>3, Monotone
  <2>4. a # b => a + 1 <= b \/ b + 1 <= a
    BY <1>3
  <2> QED BY <2>1, <2>2, <2>3, <2>4
<1> QED BY <1>1, <1>2, <1>3, <1>4, <1>5, <1>6 DEF a, b, bp, bb, bits

\* Rows and blocks at their places: inside of the image, and apart.
LEMMA Places ==
    ASSUME NEW row \in Nat, NEW bb \in Nat, NEW H \in Nat, NEW y \in 0..(H - 1), NEW v \in 0..(H - 1),
           NEW m \in Nat, m + bb <= row, NEW n \in Nat, n + bb <= row,
           NEW k \in 0..(bb - 1), NEW l \in 0..(bb - 1)
    PROVE  /\ y * row \in Nat /\ y * row + m + k < row * H
           /\ y # v \/ m + bb <= n \/ n + bb <= m => y * row + m + k # v * row + n + l
<1>1. y * row \in Nat /\ v * row \in Nat /\ row * H \in Nat
  BY H \in Nat
<1>2. (y + 1) * row <= H * row /\ (y + 1) * row = y * row + row /\ H * row = row * H /\ (v + 1) * row = v * row + row
  <2>1. (y + 1) * row <= H * row
    BY Monotone
  <2> QED BY <2>1
<1>3. y + 1 <= v => (y + 1) * row <= v * row
  BY Monotone
<1>4. v + 1 <= y => (v + 1) * row <= y * row
  BY Monotone
<1> DEFINE s == y * row
           t == v * row
           e == row * H
<1>5. /\ s \in Nat /\ t \in Nat /\ e \in Nat /\ s + row <= e
      /\ (y < v => s + row <= t) /\ (v < y => t + row <= s) /\ (y = v => s = t)
  <2>1. y < v => y + 1 <= v
    OBVIOUS
  <2>2. v < y => v + 1 <= y
    OBVIOUS
  <2> QED BY <1>1, <1>2, <1>3, <1>4, <2>1, <2>2
<1> HIDE DEF s, t, e
<1>6. s + m + k < e
  BY <1>5
<1>7. ASSUME y # v \/ m + bb <= n \/ n + bb <= m PROVE s + m + k # t + n + l
  <2>1. CASE y < v
    BY <2>1, <1>5
  <2>2. CASE v < y
    BY <2>2, <1>5
  <2>3. CASE y = v
    BY <2>3, <1>5, <1>7
  <2> QED BY <2>1, <2>2, <2>3
<1> QED BY <1>5, <1>6, <1>7 DEF s, t, e

\* The parts of an image.
LEMMA ImageParts ==
    ASSUME NEW im, Image(im)
    PROVE  /\ im.fmt \in RawFormats /\ im.fmt \in DOMAIN raw_formats /\ Regular(im.fmt)
           /\ im.off \in Nat /\ im.width = Width /\ im.height = RawHeight /\ im.black \in Nat /\ im.area \in RawAreas
           /\ im.row_bytes = raw_formats[im.fmt].bpp /\ im.row_bytes \in 1..16
           /\ RawHeight \in Nat \ {0}
           /\ im.data \in [DOMAIN im.data -> Octet] /\ im.data \in RawBuffers
           /\ \A i \in im.off..(im.off + im.row_bytes * im.height - 1) : i \in DOMAIN im.data
<1>1. im \in Records
  BY DEF Image
<1>2. /\ im.fmt \in RawFormats /\ im.off \in Nat /\ im.width = Width /\ im.height = RawHeight /\ im.black \in Nat
      /\ im.area \in RawAreas /\ im.data \in RawBuffers
  BY <1>1 DEF Records
<1>3. RawHeight \in Nat \ {0} /\ im.fmt \in DOMAIN raw_formats
  BY <1>2, RawAssumption
<1>4. Regular(im.fmt)
  BY <1>3, FormatsRegular
<1>5. im.row_bytes = raw_formats[im.fmt].bpp /\ im.row_bytes \in 1..16
  BY <1>4 DEF Image, Regular
<1>6. im.data \in [DOMAIN im.data -> Octet]
  BY <1>2 DEF RawBuffers
<1>7. \A i \in im.off..(im.off + im.row_bytes * im.height - 1) : i \in DOMAIN im.data
  BY DEF Image
<1> QED BY <1>2, <1>3, <1>4, <1>5, <1>6, <1>7

\* The block of a pixel lies inside the image.
LEMMA BlockInside ==
    ASSUME NEW im, Image(im), NEW x \in 0..(Width - 1), NEW y \in 0..(RawHeight - 1)
    PROVE  /\ Base(im, x, y) \in Nat
           /\ \A k \in BlockBytes(im.fmt) : Base(im, x, y) + k \in DOMAIN im.data
           /\ BlockAt(im.fmt, im.data, Base(im, x, y)) \in [BlockBytes(im.fmt) -> Octet]
<1> DEFINE f == im.fmt
           bb == raw_formats[f].block_bytes
           m == Blk(f, x) * bb
           row == im.row_bytes
           s == y * row
           off == im.off
           base == Base(im, x, y)
<1>1. Regular(f) /\ off \in Nat /\ row \in 1..16 /\ row = raw_formats[f].bpp /\ RawHeight \in Nat
  BY ImageParts
<1>2. m \in Nat /\ bb \in Nat /\ m + bb <= row
  BY <1>1, BlocksOfRow
<1>3. base = off + (s + m)
  BY Zenon DEF Base, Block, Blk
<1>4. BlockBytes(f) = 0..(bb - 1)
  BY DEF BlockBytes
<1> DEFINE e == row * RawHeight
<1>5. \A i \in off..(off + e - 1) : i \in DOMAIN im.data
  BY ImageParts
<1>6. ASSUME NEW k \in 0..(bb - 1) PROVE s \in Nat /\ s + m + k < e /\ e \in Nat
  <2> HIDE DEF m, bb, row
  <2> QED BY <1>1, <1>2, Places
<1>7. s \in Nat /\ e \in Nat
  BY <1>1
<1> HIDE DEF base, s, m, bb, off, e, row
<1>8. base \in Nat
  BY <1>1, <1>2, <1>3, <1>7
<1>9. ASSUME NEW k \in 0..(bb - 1) PROVE base + k \in off..(off + e - 1)
  BY <1>1, <1>2, <1>3, <1>6, <1>7
<1>10. \A k \in BlockBytes(f) : base + k \in DOMAIN im.data
  BY <1>4, <1>5, <1>9
<1>11. im.data \in [DOMAIN im.data -> Octet]
  BY ImageParts
<1>12. BlockAt(f, im.data, base) \in [BlockBytes(f) -> Octet]
  BY <1>10, <1>11 DEF BlockAt
<1> QED BY <1>8, <1>10, <1>12 DEF base

\* Two pixels are in the same block, or their blocks have no byte in common.
SameBlock(f, x, y, w, v) == y = v /\ Blk(f, x) = Blk(f, w)
LEMMA BlocksApart ==
    ASSUME NEW im, Image(im), NEW x \in 0..(Width - 1), NEW y \in 0..(RawHeight - 1),
           NEW w \in 0..(Width - 1), NEW v \in 0..(RawHeight - 1)
    PROVE  /\ SameBlock(im.fmt, x, y, w, v) => Base(im, x, y) = Base(im, w, v)
           /\ ~SameBlock(im.fmt, x, y, w, v) =>
                \A k, l \in BlockBytes(im.fmt) : Base(im, x, y) + k # Base(im, w, v) + l
<1> DEFINE f == im.fmt
           bb == raw_formats[f].block_bytes
           m == Blk(f, x) * bb
           n == Blk(f, w) * bb
           row == im.row_bytes
           s == y * row
           t == v * row
           off == im.off
<1>1. Regular(f) /\ off \in Nat /\ row \in 1..16 /\ row = raw_formats[f].bpp /\ RawHeight \in Nat
  BY ImageParts
<1>2. m \in Nat /\ bb \in Nat /\ m + bb <= row /\ (Blk(f, x) # Blk(f, w) => m + bb <= n \/ n + bb <= m)
  BY <1>1, BlocksOfRow
<1>3. n \in Nat /\ n + bb <= row
  BY <1>1, BlocksOfRow
<1>4. Base(im, x, y) = off + (s + m) /\ Base(im, w, v) = off + (t + n)
  BY Zenon DEF Base, Block, Blk
<1>5. BlockBytes(f) = 0..(bb - 1)
  BY DEF BlockBytes
<1>6. SameBlock(f, x, y, w, v) => s = t /\ m = n
  BY DEF SameBlock
<1>7. ASSUME ~SameBlock(f, x, y, w, v), NEW k \in 0..(bb - 1), NEW l \in 0..(bb - 1)
      PROVE  s + m + k # t + n + l
  <2>1. y # v \/ m + bb <= n \/ n + bb <= m
    BY <1>2, <1>7 DEF SameBlock
  <2> HIDE DEF m, n, bb, row
  <2> QED BY <1>1, <1>2, <1>3, <2>1, Places
<1>8. s \in Nat /\ t \in Nat
  BY <1>1
<1> HIDE DEF s, t, m, n, bb, off, row, f
<1>9. ASSUME ~SameBlock(f, x, y, w, v), NEW k \in 0..(bb - 1), NEW l \in 0..(bb - 1)
      PROVE  off + (s + m) + k # off + (t + n) + l
  <2>1. s + m + k # t + n + l /\ k \in Int /\ l \in Int
    BY <1>7, <1>9
  <2> QED BY <2>1, <1>1, <1>2, <1>3, <1>8
<1> QED BY <1>4, <1>5, <1>6, <1>9 DEF f

\* A pixel is read as it is stored, and fits the depth of the format.
LEMMA GetIs ==
    ASSUME NEW im, Image(im), NEW x \in 0..(Width - 1), NEW y \in 0..(RawHeight - 1)
    PROVE  /\ get(im, x, y) = PixelOf(im.fmt, BlockAt(im.fmt, im.data, Base(im, x, y)), Pos(im.fmt, x))
           /\ get(im, x, y) = Stored(im.fmt, im.data, im.off, im.row_bytes, x, y)
           /\ get(im, x, y) \in Nat /\ get(im, x, y) < Pow2[raw_formats[im.fmt].bpp]
<1> DEFINE f == im.fmt
           p == im.data
           off == im.off
           row == im.row_bytes
           base == Base(im, x, y)
           z == Pos(f, x)
           n == Blk(f, x)
<1>1. Regular(f) /\ off \in Nat /\ row \in Nat /\ f \in DOMAIN raw_formats /\ RawHeight \in Nat
  BY ImageParts
<1>2. n \in Nat /\ z \in 0..(raw_formats[f].block_pixels - 1) /\ x = n * raw_formats[f].block_pixels + z
  BY <1>1, BlocksOfRow
<1>3. base \in Nat /\ BlockAt(f, p, base) \in [BlockBytes(f) -> Octet]
  BY BlockInside
<1>4. Laid(f, p, base, z)
  <2> HIDE DEF base, z, f, p
  <2> QED BY <1>1, <1>2, <1>3, FormatsLaid
<1>5. z = x % Len(raw_formats[f].get) /\ Len(raw_formats[f].get) = raw_formats[f].block_pixels
  BY <1>1 DEF Regular, Pos
<1>6. base = off + Block(f, row, x, y)
  BY DEF Base
<1>7. get(im, x, y) = raw_get_pixel(f, p, off, row, x, y)
  BY DEF get
<1>8. raw_get_pixel(f, p, off, row, x, y) = PixelOf(f, BlockAt(f, p, base), z)
  <2>1. ReadsInside(f, z)
    BY <1>4 DEF Laid
  <2> HIDE DEF base, z, f, p, off, row
  <2> QED BY <1>5, <1>6, <2>1, GetBlock
<1>9. base = off + (y * row + n * raw_formats[f].block_bytes)
  BY Zenon DEF Base, Block, Blk
<1>10. Stored(f, p, off, row, x, y) = BlockStored(f, p, base, z)
  <2>1. z \in Nat /\ y \in Nat /\ RawSizes(f)
    BY <1>1, <1>2 DEF Regular
  <2> HIDE DEF base, z, f, p, off, row, n
  <2>2. InBlock(f, base, off, row, y, n, x, z)
    BY <1>2, <1>9 DEF InBlock
  <2> QED BY <1>1, <1>2, <2>1, <2>2, StoredInBlock
<1> QED BY <1>4, <1>7, <1>8, <1>10 DEF Laid

\* The same of all pixels at once.
LEMMA ReadIs ==
    ASSUME NEW im, Image(im)
    PROVE  /\ Read(im) \in [Coords -> Nat]
           /\ \A c \in Coords : Read(im)[c] = get(im, c[1], c[2])
<1>1. Read(im) = [c \in Coords |-> Stored(im.fmt, im.data, im.off, im.row_bytes, c[1], c[2])]
  BY DEF Read
<1>2. ASSUME NEW c \in Coords PROVE c[1] \in 0..(Width - 1) /\ c[2] \in 0..(RawHeight - 1)
  BY DEF Coords
<1>3. \A c \in Coords : Stored(im.fmt, im.data, im.off, im.row_bytes, c[1], c[2]) = get(im, c[1], c[2])
                        /\ get(im, c[1], c[2]) \in Nat
  BY <1>2, GetIs
<1> QED BY <1>1, <1>3

\* What an image has but its pixels.
Alike(a, b) ==
    /\ b.fmt = a.fmt /\ b.off = a.off /\ b.row_bytes = a.row_bytes /\ b.cfa = a.cfa
    /\ b.black = a.black /\ b.area = a.area

\* Another buffer of the size for the same image.
LEMMA OtherData ==
    ASSUME NEW im, Image(im), NEW d \in [DOMAIN im.data -> Octet]
    PROVE  LET b == [im EXCEPT !.data = d]
           IN  Image(b) /\ Alike(im, b) /\ b.data = d
<1> DEFINE b == [im EXCEPT !.data = d]
<1>1. im \in Records
  BY DEF Image
<1>2. PICK n \in Int : im.data \in [0..n -> Octet]
  BY <1>1 DEF Records, RawBuffers
<1>3. d \in RawBuffers /\ DOMAIN d = DOMAIN im.data
  BY <1>2 DEF RawBuffers
<1>4. b \in Records /\ b.data = d /\ b.width = im.width /\ b.height = im.height
  BY <1>1, <1>3 DEF Records
<1>5. Alike(im, b)
  BY <1>1 DEF Records, Alike
<1> HIDE DEF b
<1>6. Image(b)
  BY <1>3, <1>4, <1>5 DEF Image, Alike
<1> QED BY <1>4, <1>5, <1>6 DEF b

\* A value that fits the depth of the image.
Deep(im, v) == v \in Nat /\ v < Pow2[raw_formats[im.fmt].bpp]

\* Image b is a with v written to a pixel: other bytes are only in its block.
Wrote(a, b, x, y, v) ==
    /\ Image(b) /\ Alike(a, b) /\ b.data \in [DOMAIN a.data -> Octet]
    /\ BlockAt(a.fmt, b.data, Base(a, x, y))
         = Written(a.fmt, BlockAt(a.fmt, a.data, Base(a, x, y)), x % Len(raw_formats[a.fmt].set), v)
    /\ \A i \in DOMAIN a.data : (\A k \in BlockBytes(a.fmt) : Base(a, x, y) + k # i) => b.data[i] = a.data[i]

\* set does that.
LEMMA SetData ==
    ASSUME NEW im, Image(im), NEW x \in 0..(Width - 1), NEW y \in 0..(RawHeight - 1), NEW v, Deep(im, v)
    PROVE  Wrote(im, set(im, x, y, v), x, y, v)
<1> DEFINE f == im.fmt
           p == im.data
           D == DOMAIN p
           off == im.off
           row == im.row_bytes
           base == Base(im, x, y)
           z == x % Len(raw_formats[f].set)
           r == raw_set_pixel(f, p, off, row, x, y, v)
<1>1. f \in DOMAIN raw_formats /\ p \in [D -> Octet] /\ v \in Nat /\ v < Pow2[raw_formats[f].bpp]
  BY ImageParts DEF Deep
<1>2. z \in 0..(Len(raw_formats[f].set) - 1)
  <2> DEFINE n == Len(raw_formats[f].set)
  <2>1. n \in Nat \ {0} /\ x \in Int
    BY <1>1, FormatsRegular
  <2> HIDE DEF n
  <2>2. x % n \in 0..(n - 1)
    BY <2>1, DivMod
  <2> QED BY <2>2 DEF n
<1>3. Writable(f, z, v)
  <2> HIDE DEF f, z
  <2> QED BY <1>1, <1>2, FormatsWritable
<1>4. base \in Int /\ \A k \in BlockBytes(f) : base + k \in D
  BY BlockInside
<1>5. base = off + Block(f, row, x, y)
  BY DEF Base
<1>6. Changed(f, D, p, v, base, z, r)
  <2>1. SetAt(f, D, p, off, row, x, y, v, base, z, r)
    BY <1>4, <1>5, Zenon DEF SetAt
  <2> HIDE DEF f, p, D, off, row, base, z, r
  <2> QED BY <1>1, <1>3, <1>4, <2>1, SetBlock
<1>7. set(im, x, y, v) = [im EXCEPT !.data = r]
  BY DEF set
<1>8. LET b == [im EXCEPT !.data = r] IN Image(b) /\ Alike(im, b) /\ b.data = r
  <2> HIDE DEF r
  <2> QED BY <1>6, OtherData DEF Changed
<1> QED BY <1>6, <1>7, <1>8, Zenon DEF Wrote, Changed

\* The image after it, which reads as before but for the pixel.
LEMMA GetSet ==
    ASSUME NEW im, Image(im), im.fmt # "f14b", NEW x \in 0..(Width - 1), NEW y \in 0..(RawHeight - 1), NEW v, Deep(im, v),
           NEW b, Wrote(im, b, x, y, v),
           NEW w \in 0..(Width - 1), NEW u \in 0..(RawHeight - 1)
    PROVE  get(b, w, u) = IF w = x /\ u = y THEN v ELSE get(im, w, u)
<1> DEFINE f == im.fmt
           p == im.data
           r == b.data
           bp == raw_formats[f].block_pixels
           here == Base(im, x, y)
           there == Base(im, w, u)
<1>1. /\ Image(b) /\ b.fmt = f /\ Base(b, w, u) = there /\ r \in [DOMAIN p -> Octet]
  BY DEF Wrote, Alike, Base
<1>2. /\ get(b, w, u) = PixelOf(f, BlockAt(f, r, there), Pos(f, w))
      /\ get(im, w, u) = PixelOf(f, BlockAt(f, p, there), Pos(f, w))
  <2>1. get(b, w, u) = PixelOf(b.fmt, BlockAt(b.fmt, r, Base(b, w, u)), Pos(b.fmt, w))
    BY <1>1, GetIs
  <2>2. get(im, w, u) = PixelOf(f, BlockAt(f, p, there), Pos(f, w))
    BY GetIs
  <2> QED BY <1>1, <2>1, <2>2
<1>3. f \in DOMAIN raw_formats /\ Regular(f) /\ v \in Nat /\ v < Pow2[raw_formats[f].bpp]
  BY ImageParts DEF Deep
<1>4. /\ Pos(f, x) \in 0..(bp - 1) /\ Pos(f, w) \in 0..(bp - 1)
      /\ x = Blk(f, x) * bp + Pos(f, x) /\ w = Blk(f, w) * bp + Pos(f, w)
  BY <1>3, BlocksOfRow
<1>5. Pos(f, x) = x % Len(raw_formats[f].set) /\ Len(raw_formats[f].set) = bp
  BY <1>3, FormatsRegular DEF Pos
<1>6. BlockAt(f, p, here) \in [BlockBytes(f) -> Octet] /\ BlockAt(f, p, there) \in [BlockBytes(f) -> Octet]
  BY BlockInside
<1>7. CASE SameBlock(f, x, y, w, u)
  <2>1. here = there
    BY <1>7, BlocksApart
  <2>2. BlockAt(f, r, there) = Written(f, BlockAt(f, p, there), Pos(f, x), v)
    BY <1>5, <2>1, Zenon DEF Wrote
  <2>3. CASE Pos(f, x) = Pos(f, w)
    <3>1. w = x /\ u = y
      BY <1>4, <1>7, <2>3 DEF SameBlock
    <3> DEFINE q == BlockAt(f, p, there)
    <3> HIDE DEF f, r, bp, q
    <3>2. PixelOf(f, Written(f, q, Pos(f, x), v), Pos(f, x)) = v
      BY <1>3, <1>4, <1>6, FormatsWritten DEF f, bp, q
    <3> QED BY <1>2, <2>2, <2>3, <3>1, <3>2 DEF q
  <2>4. CASE Pos(f, x) # Pos(f, w)
    <3>1. ~(w = x /\ u = y)
      BY <2>4
    <3> DEFINE q == BlockAt(f, p, there)
    <3>2. Unseen(f, Pos(f, w), Pos(f, x))
      <4> HIDE DEF q
      <4> QED BY <1>3, <1>4, <2>4, FormatsUnseen
    <3>3. Writable(f, Pos(f, x), v)
      BY <1>3, <1>4, <1>5, FormatsWritable
    <3>4. PixelOf(f, Written(f, q, Pos(f, x), v), Pos(f, w)) = PixelOf(f, q, Pos(f, w))
      <4>1. q \in [BlockBytes(f) -> Octet]
        BY <1>6
      <4> HIDE DEF q, f
      <4> QED BY <1>3, <3>2, <3>3, <4>1, OtherPixel
    <3> QED BY <1>2, <2>2, <3>1, <3>4, Zenon
  <2> QED BY <2>3, <2>4
<1>8. CASE ~SameBlock(f, x, y, w, u)
  <2>1. ~(w = x /\ u = y)
    BY <1>8 DEF SameBlock
  <2>2. ASSUME NEW k \in BlockBytes(f) PROVE r[there + k] = p[there + k]
    <3>1. there + k \in DOMAIN p
      BY BlockInside
    <3>2. \A l \in BlockBytes(f) : here + l # there + k
      BY <1>8, BlocksApart
    <3>3. \A i \in DOMAIN p : (\A l \in BlockBytes(f) : here + l # i) => r[i] = p[i]
      BY Zenon DEF Wrote
    <3> QED BY <3>1, <3>2, <3>3, Zenon
  <2>3. BlockAt(f, r, there) = BlockAt(f, p, there)
    BY <2>2, Zenon DEF BlockAt
  <2> QED BY <1>2, <2>1, <2>3, Zenon
<1> QED BY <1>7, <1>8

-----------------------------------------------------------------------------
(***************************************************************************)
(* Loops.                                                                  *)
(***************************************************************************)
\* A set of natural numbers has a least member.
LEMMA LeastNumber ==
    ASSUME NEW S, S \subseteq Nat, S # {}
    PROVE  \E n \in S : \A m \in S : n <= m
<1> DEFINE R == OpToRel(<, Nat)
<1>1. IsWellFoundedOn(R, Nat)
  BY NatLessThanWellFounded
<1>2. \A x, y \in Nat : y < x => <<y, x>> \in R
  BY DEF OpToRel
<1> HIDE DEF R
<1>3. \E x \in S : \A y \in S : <<y, x>> \notin R
  BY <1>1, WFMin
<1>4. \A x, y \in Nat : ~(y < x) => x <= y
  OBVIOUS
<1> QED BY <1>2, <1>3, <1>4

\* A set with 0 and the successors of its numbers has all of them.
LEMMA Induction ==
    ASSUME NEW S, 0 \in S, \A n \in Nat : n \in S => n + 1 \in S
    PROVE  Nat \subseteq S
<1> SUFFICES ASSUME Nat \ S # {} PROVE FALSE
  OBVIOUS
<1>1. PICK n \in Nat \ S : \A m \in Nat \ S : n <= m
  BY LeastNumber
<1>2. n # 0 /\ n - 1 \in Nat
  OBVIOUS
<1>3. n - 1 \in S
  BY <1>1, <1>2
<1> QED BY <1>1, <1>2, <1>3

\* What holds before the first turn of a loop and is kept by each holds after
\* the last; A says for each turn what may be true before it.
LEMMA LoopKeeps ==
    ASSUME NEW N \in Nat, NEW g, NEW A, g[0] \in A[0],
           \A n \in 0..(N - 1) : g[n] \in A[n] => g[n + 1] \in A[n + 1]
    PROVE  \A n \in 0..N : g[n] \in A[n]
<1> DEFINE K == {n \in Nat : n <= N => g[n] \in A[n]}
<1>1. 0 \in K
  OBVIOUS
<1>2. ASSUME NEW n \in Nat, n \in K PROVE n + 1 \in K
  <2> SUFFICES ASSUME n + 1 <= N PROVE g[n + 1] \in A[n + 1]
    OBVIOUS
  <2>1. n \in 0..(N - 1) /\ g[n] \in A[n]
    BY <1>2
  <2> QED BY <2>1
<1> HIDE DEF K
<1>3. Nat \subseteq K
  BY <1>1, <1>2, Induction
<1> QED BY <1>3 DEF K

\* The states a loop goes through when turn n makes F[n] of them.
Loop(g, N, a, F) == g = [n \in 0..N |-> IF n = 0 THEN a ELSE F[n - 1][g[n - 1]]]

\* There are such states.
LEMMA LoopRuns ==
    ASSUME NEW N \in Nat, NEW S, NEW a \in S, NEW F \in [0..(N - 1) -> [S -> S]]
    PROVE  \E g \in [0..N -> S] : Loop(g, N, a, F)
<1> DEFINE Upto(n, h) == h \in [0..n -> S] /\ h[0] = a /\ \A m \in 0..(n - 1) : h[m + 1] = F[m][h[m]]
           K == {n \in Nat : n <= N => \E h : Upto(n, h)}
<1>1. 0 \in K
  <2> DEFINE h == [m \in 0..0 |-> a]
  <2>1. Upto(0, h)
    OBVIOUS
  <2> HIDE DEF h, Upto
  <2> QED BY <2>1
<1>2. ASSUME NEW n \in Nat, n \in K PROVE n + 1 \in K
  <2> SUFFICES ASSUME n + 1 <= N PROVE \E h : Upto(n + 1, h)
    OBVIOUS
  <2>1. n <= N /\ n \in 0..(N - 1)
    OBVIOUS
  <2>2. PICK h : Upto(n, h)
    BY <1>2, <2>1
  <2>3. F[n] \in [S -> S]
    BY <2>1
  <2>4. h[n] \in S
    BY <2>2
  <2> DEFINE next == F[n][h[n]]
             k == [m \in 0..(n + 1) |-> IF m = n + 1 THEN next ELSE h[m]]
  <2>5. next \in S
    BY <2>3, <2>4
  <2> HIDE DEF next
  <2>6. k \in [0..(n + 1) -> S]
    BY <2>2, <2>5
  <2>7. k[0] = a
    BY <2>2
  <2>8. ASSUME NEW m \in 0..n PROVE k[m + 1] = F[m][k[m]]
    <3>1. CASE m = n
      BY <3>1 DEF next
    <3>2. CASE m # n
      <4>1. m \in 0..(n - 1) /\ m + 1 \in 0..n /\ m + 1 # n + 1 /\ m \in 0..(n + 1) /\ m # n + 1 /\ m + 1 \in 0..(n + 1)
        BY <3>2
      <4>2. k[m + 1] = h[m + 1] /\ k[m] = h[m]
        BY <4>1
      <4> QED BY <2>2, <4>1, <4>2
    <3> QED BY <3>1, <3>2
  <2> HIDE DEF k
  <2>9. n + 1 - 1 = n
    OBVIOUS
  <2>10. Upto(n + 1, k)
    BY <2>6, <2>7, <2>8, <2>9
  <2> HIDE DEF Upto
  <2> QED BY <2>10
<1>3. \E h : Upto(N, h)
  <2> HIDE DEF Upto
  <2>1. Nat \subseteq K
    <3> HIDE DEF K
    <3> QED BY <1>1, <1>2, Induction
  <2> QED BY <2>1
<1>4. PICK h : Upto(N, h)
  BY <1>3
<1>5. ASSUME NEW n \in 0..N PROVE h[n] = IF n = 0 THEN a ELSE F[n - 1][h[n - 1]]
  <2>1. CASE n = 0
    BY <1>4, <2>1
  <2>2. CASE n # 0
    <3> DEFINE m == n - 1
    <3>1. m \in 0..(N - 1) /\ m + 1 = n
      BY <2>2
    <3> HIDE DEF m
    <3>2. h[m + 1] = F[m][h[m]]
      BY <1>4, <3>1
    <3> QED BY <2>2, <3>1, <3>2 DEF m
  <2> QED BY <2>1, <2>2
<1>6. h = [n \in 0..N |-> h[n]] /\ h \in [0..N -> S]
  BY <1>4
<1>7. Loop(h, N, a, F)
  BY <1>5, <1>6, Zenon DEF Loop
<1> QED BY <1>6, <1>7

-----------------------------------------------------------------------------
(***************************************************************************)
(* Conversion.                                                             *)
(***************************************************************************)
\* Depths differ by a power of two.
LEMMA Depths ==
    ASSUME NEW a \in {8, 10, 12, 14, 16}, NEW b \in {8, 10, 12, 14, 16}, NEW d, d = a - b
    PROVE  /\ Pow2[a] \in Nat /\ Pow2[b] \in Nat
           /\ d > 0 => Pow2[d] \in Nat /\ Pow2[d] > 0 /\ Pow2[a] = Pow2[b] * Pow2[d]
           /\ d < 0 => Pow2[-d] \in Nat /\ Pow2[-d] > 0 /\ Pow2[b] = Pow2[a] * Pow2[-d]
           /\ d \in Int
<1>1. CASE a = 8
  BY <1>1, Powers
<1>2. CASE a = 10
  BY <1>2, Powers
<1>3. CASE a = 12
  BY <1>3, Powers
<1>4. CASE a = 14
  BY <1>4, Powers
<1>5. CASE a = 16
  BY <1>5, Powers
<1> QED BY <1>1, <1>2, <1>3, <1>4, <1>5

\* What RawConvert may ask for: to lower depths values are shifted down.
Asked(f, g, s) ==
    \E up, down \in BOOLEAN : /\ s = ConvertShift(f, g, up, down)
                              /\ raw_formats[f].bpp > raw_formats[g].bpp => down

\* A value that fits one depth fits the other when it is shifted.
LEMMA ShiftedFits ==
    ASSUME NEW f \in DOMAIN raw_formats, NEW g \in DOMAIN raw_formats, NEW s, Asked(f, g, s),
           NEW v \in Nat
    PROVE  /\ s \in Int
           /\ v < Pow2[raw_formats[f].bpp] => Shift(v, -s) \in Nat /\ Shift(v, -s) < Pow2[raw_formats[g].bpp]
           /\ s >= 0 => Shift(v, -s) \in Nat
<1> DEFINE a == raw_formats[f].bpp
           b == raw_formats[g].bpp
           d == a - b
<1>1. a \in {8, 10, 12, 14, 16} /\ b \in {8, 10, 12, 14, 16}
  BY FormatsRegular DEF Regular
<1>2. s = d \/ (s = 0 /\ ~(d > 0))
  <2>1. PICK up \in BOOLEAN, down \in BOOLEAN : s = ConvertShift(f, g, up, down) /\ (a > b => down)
    BY DEF Asked
  <2>2. ConvertShift(f, g, up, down) = IF d > 0 THEN (IF down THEN d ELSE 0) ELSE (IF up THEN d ELSE 0)
    BY Zenon DEF ConvertShift
  <2>3. d > 0 => a > b
    <3> HIDE DEF a, b
    <3> QED BY <1>1
  <2> HIDE DEF a, b, d
  <2> QED BY <2>1, <2>2, <2>3
<1>3. /\ Pow2[a] \in Nat /\ Pow2[b] \in Nat
      /\ d > 0 => Pow2[d] \in Nat /\ Pow2[d] > 0 /\ Pow2[a] = Pow2[b] * Pow2[d]
      /\ d < 0 => Pow2[-d] \in Nat /\ Pow2[-d] > 0 /\ Pow2[b] = Pow2[a] * Pow2[-d]
      /\ d \in Int /\ (d = 0 => a = b)
  <2>1. d = 0 => a = b
    <3> HIDE DEF a, b
    <3> QED BY <1>1
  <2> HIDE DEF a, b
  <2> QED BY <1>1, <2>1, Depths
<1> HIDE DEF a, b, d
<1>4. CASE d > 0
  <2> DEFINE p == Pow2[d]
  <2>1. s = d /\ Shift(v, -s) = v \div p
    <3>1. s = d /\ ~(-s > 0) /\ -s < 0 /\ -(-s) = d
      BY <1>2, <1>3, <1>4
    <3> QED BY <3>1 DEF Shift
  <2>2. p \in Nat /\ p > 0 /\ Pow2[a] = Pow2[b] * p
    BY <1>3, <1>4
  <2> HIDE DEF p
  <2>3. v \div p \in Nat
    BY <2>2, Quotient
  <2>4. v < Pow2[a] => v \div p < Pow2[b]
    BY <1>3, <2>2, Below
  <2> QED BY <1>3, <2>1, <2>3, <2>4 DEF a, b
<1>5. CASE s = 0 /\ ~(d > 0)
  <2>1. Shift(v, -s) = v
    BY <1>5 DEF Shift
  <2>2. Pow2[a] <= Pow2[b]
    <3>1. CASE d = 0
      BY <1>3, <3>1
    <3>2. CASE d < 0
      <4> DEFINE p == Pow2[-d]
      <4>1. p \in Nat /\ p > 0 /\ Pow2[b] = Pow2[a] * p
        BY <1>3, <3>2
      <4> HIDE DEF p
      <4>2. Pow2[a] * 1 <= Pow2[a] * p
        <5>1. 1 * Pow2[a] <= p * Pow2[a]
          BY <1>3, <4>1, Monotone
        <5> QED BY <5>1, <1>3, <4>1
      <4> QED BY <1>3, <4>1, <4>2
    <3> QED BY <1>3, <1>5, <3>1, <3>2
  <2> QED BY <1>3, <1>5, <2>1, <2>2 DEF a, b
<1>6. CASE s = d /\ ~(d > 0) /\ s # 0
  <2> DEFINE p == Pow2[-d]
  <2>1. s = d /\ s < 0 /\ Shift(v, -s) = v * p
    <3>1. s = d /\ -s > 0 /\ s < 0
      BY <1>3, <1>6
    <3> QED BY <3>1 DEF Shift
  <2>2. p \in Nat /\ p > 0 /\ Pow2[b] = Pow2[a] * p
    BY <1>3, <1>6
  <2> HIDE DEF p
  <2>3. v * p \in Nat
    BY <2>2
  <2>4. v < Pow2[a] => v * p < Pow2[b]
    <3> SUFFICES ASSUME v < Pow2[a] PROVE v * p < Pow2[a] * p
      BY <2>2
    <3>1. (v + 1) * p <= Pow2[a] * p /\ (v + 1) * p = v * p + p
      BY <1>3, <2>2, Monotone
    <3> DEFINE e == Pow2[a] * p
    <3>2. e \in Nat
      BY <1>3, <2>2
    <3> HIDE DEF e
    <3>3. v * p + p <= e
      BY <3>1 DEF e
    <3>4. v * p < e
      BY <3>2, <3>3, <2>2, <2>3
    <3> QED BY <3>4 DEF e
  <2> QED BY <1>3, <2>1, <2>3, <2>4 DEF a, b
<1> QED BY <1>2, <1>3, <1>4, <1>5, <1>6

\* The pixels of an image one after the other.
LEMMA PixelOrder ==
    ASSUME NEW n \in 0..(Width * RawHeight - 1), RawHeight \in Nat
    PROVE  n % Width \in 0..(Width - 1) /\ n \div Width \in 0..(RawHeight - 1) /\ n = (n \div Width) * Width + (n % Width)
BY DEF Width

\* The buffer convert is given, and the image it starts with.
Fresh(img, to, junk) == [i \in 0..(Row_bytes(to, img.width) * img.height - 1) |-> junk]
Blank(img, to, shift, fresh) ==
    [img EXCEPT !.fmt = to, !.off = 0, !.data = fresh,
                !.row_bytes = Row_bytes(to, img.width),
                !.black = IF shift < 0 THEN 0 ELSE Shift(@, -shift)]

\* It is an image of the new format.
LEMMA BlankImage ==
    ASSUME NEW img, Image(img), NEW to \in RawFormats, NEW s, Asked(img.fmt, to, s), NEW junk \in Octet
    PROVE  LET blank == Blank(img, to, s, Fresh(img, to, junk))
           IN  Image(blank) /\ blank.fmt = to
<1> DEFINE fresh == Fresh(img, to, junk)
           blank == Blank(img, to, s, fresh)
<1>1. img \in Records /\ img.width = Width /\ img.height = RawHeight /\ RawHeight \in Nat /\ img.black \in Nat
      /\ img.fmt \in DOMAIN raw_formats
  BY ImageParts DEF Image
<1>2. to \in DOMAIN raw_formats /\ Regular(to)
  BY RawAssumption, FormatsRegular
<1>3. Row_bytes(to, img.width) = raw_formats[to].bpp /\ raw_formats[to].bpp \in Nat
  BY <1>1, <1>2 DEF Row_bytes, Width, Regular
<1> DEFINE row == Row_bytes(to, img.width)
           black == IF s < 0 THEN 0 ELSE Shift(img.black, -s)
<1>4. black \in Nat
  BY <1>1, <1>2, ShiftedFits
<1>5. fresh \in RawBuffers /\ DOMAIN fresh = 0..(row * RawHeight - 1)
  <2>1. row * RawHeight - 1 \in Int
    BY <1>1, <1>3
  <2>2. fresh \in [0..(row * RawHeight - 1) -> Octet]
    BY <1>1 DEF Fresh
  <2> QED BY <2>1, <2>2 DEF RawBuffers
<1>6. blank = [img EXCEPT !.fmt = to, !.off = 0, !.data = fresh, !.row_bytes = row, !.black = black]
  BY Zenon DEF Blank
<1> HIDE DEF row, black, fresh, blank
<1>7. row \in Nat /\ row = raw_formats[to].bpp
  BY <1>3 DEF row
<1>8. /\ blank \in Records /\ blank.fmt = to /\ blank.off = 0 /\ blank.data = fresh /\ blank.row_bytes = row
      /\ blank.height = RawHeight
  <2>1. img \in Records /\ img.height = RawHeight
    BY <1>1
  <2>2. /\ blank.fmt = to /\ blank.off = 0 /\ blank.data = fresh /\ blank.row_bytes = row /\ blank.black = black
        /\ blank.width = img.width /\ blank.height = img.height /\ blank.cfa = img.cfa /\ blank.area = img.area
    BY <2>1, <1>6 DEF Records
  <2>3. blank = [fmt |-> to, data |-> fresh, off |-> 0, width |-> img.width, height |-> img.height, row_bytes |-> row,
                 cfa |-> img.cfa, black |-> black, area |-> img.area]
    BY <2>1, <1>6 DEF Records
  <2>4. blank \in Records
    BY <2>1, <2>3, <1>4, <1>5, <1>7 DEF Records
  <2> QED BY <2>1, <2>2, <2>4
<1>9. \A i \in blank.off..(blank.off + blank.row_bytes * blank.height - 1) : i \in DOMAIN blank.data
  <2> DEFINE e == row * RawHeight
  <2>1. e \in Nat /\ 0 + e - 1 = e - 1
    BY <1>1, <1>7
  <2>2. blank.off..(blank.off + blank.row_bytes * blank.height - 1) = 0..(0 + e - 1)
    BY <1>8 DEF e
  <2>3. DOMAIN blank.data = 0..(e - 1)
    BY <1>5, <1>8 DEF e
  <2> HIDE DEF e
  <2> QED BY <2>1, <2>2, <2>3
<1> QED BY <1>7, <1>8, <1>9 DEF Image, fresh, blank

\* convert makes an image of the new format, and in all formats but one every
\* pixel is the old one, shifted.
LEMMA ConvertedImage ==
    ASSUME NEW img, Image(img), NEW to \in RawFormats, NEW s, Asked(img.fmt, to, s), NEW junk \in Octet,
           NEW b, b = convert(img, to, s, Fresh(img, to, junk))
    PROVE  /\ Image(b) /\ b.fmt = to
           /\ to # "f14b" => \A x \in 0..(Width - 1), y \in 0..(RawHeight - 1) : get(b, x, y) = Shift(get(img, x, y), -s)
<1> DEFINE blank == Blank(img, to, s, Fresh(img, to, junk))
           NewValue(n) == Shift(get(img, n % img.width, n \div img.width), -s)
           Step(im, n) == set(im, n % img.width, n \div img.width, NewValue(n))
           all == img.width * img.height
           P(g) == g = [n \in 0..all |-> IF n = 0 THEN blank ELSE Step(g[n - 1], n - 1)]
           after == CHOOSE g : P(g)
           S == {im \in Records : Image(im) /\ im.fmt = to}
           F == [n \in 0..(all - 1) |-> [im \in S |-> Step(im, n)]]
<1>1. b = after[all]
  BY Zenon DEF convert, Blank
<1>2. /\ img.width = Width /\ img.height = RawHeight /\ RawHeight \in Nat \ {0} /\ all \in Nat /\ all = Width * RawHeight
      /\ img.fmt \in DOMAIN raw_formats /\ to \in DOMAIN raw_formats
  BY ImageParts, RawAssumption DEF Width
<1>3. blank \in S
  <2>1. Image(blank) /\ blank.fmt = to
    BY BlankImage, Zenon
  <2> HIDE DEF blank
  <2> QED BY <2>1 DEF Image
<1>4. ASSUME NEW n \in 0..(all - 1)
      PROVE  /\ n % Width \in 0..(Width - 1) /\ n \div Width \in 0..(RawHeight - 1)
             /\ NewValue(n) = Shift(get(img, n % Width, n \div Width), -s)
             /\ NewValue(n) \in Nat /\ NewValue(n) < Pow2[raw_formats[to].bpp]
  <2> DEFINE x == n % Width
             y == n \div Width
  <2>1. x \in 0..(Width - 1) /\ y \in 0..(RawHeight - 1)
    BY <1>2, PixelOrder
  <2>2. NewValue(n) = Shift(get(img, x, y), -s)
    BY <1>2
  <2> HIDE DEF x, y, NewValue
  <2>3. get(img, x, y) \in Nat /\ get(img, x, y) < Pow2[raw_formats[img.fmt].bpp]
    BY <2>1, GetIs
  <2>4. Shift(get(img, x, y), -s) \in Nat /\ Shift(get(img, x, y), -s) < Pow2[raw_formats[to].bpp]
    <3> DEFINE v == get(img, x, y)
    <3> HIDE DEF v
    <3> QED BY <1>2, <2>3, ShiftedFits DEF v
  <2> QED BY <2>1, <2>2, <2>4 DEF x, y
<1>5. ASSUME NEW n \in 0..(all - 1), NEW im \in S
      PROVE  /\ Step(im, n) \in S
             /\ Wrote(im, Step(im, n), n % Width, n \div Width, NewValue(n))
  <2> DEFINE x == n % Width
             y == n \div Width
             v == NewValue(n)
             c == Step(im, n)
  <2>1. x \in 0..(Width - 1) /\ y \in 0..(RawHeight - 1) /\ Image(im) /\ Deep(im, v)
    BY <1>4 DEF Deep
  <2>2. c = set(im, x, y, v)
    BY <1>2
  <2> HIDE DEF x, y, v, c
  <2>3. Wrote(im, c, x, y, v)
    BY <2>1, <2>2, SetData
  <2>4. c \in S
    BY <2>3 DEF Wrote, Alike, Image
  <2> QED BY <2>3, <2>4 DEF x, y, v, c
<1>6. F \in [0..(all - 1) -> [S -> S]]
  BY <1>5
<1>7. P(after)
  <2>1. PICK g \in [0..all -> S] : Loop(g, all, blank, F)
    <3>1. all \in Nat
      BY <1>2
    <3> HIDE DEF S, F, blank, all
    <3> QED BY <1>3, <1>6, <3>1, LoopRuns
  <2>2. ASSUME NEW n \in 0..all, n # 0 PROVE F[n - 1][g[n - 1]] = Step(g[n - 1], n - 1)
    <3>1. n - 1 \in 0..(all - 1) /\ n - 1 \in 0..all
      BY <1>2, <2>2
    <3>2. g[n - 1] \in S
      BY <2>1, <3>1
    <3> HIDE DEF S, Step, all
    <3> QED BY <3>1, <3>2
  <2>3. P(g)
    <3> HIDE DEF F, S, Step, blank, all
    <3> QED BY <2>1, <2>2, Zenon DEF Loop
  <2> HIDE DEF P
  <2> QED BY <2>3
<1> DEFINE Done(im, m) == get(im, m % Width, m \div Width) = NewValue(m)
           A == [n \in 0..all |-> {im \in S : to # "f14b" => \A m \in 0..(n - 1) : Done(im, m)}]
<1>8. after[0] \in A[0]
  <2>1. 0 \in 0..all
    BY <1>2
  <2>2. after[0] = blank
    BY <1>7, <2>1
  <2> HIDE DEF after, blank, S, Done, all
  <2> QED BY <1>3, <2>1, <2>2
<1>9. ASSUME NEW n \in 0..(all - 1), after[n] \in A[n] PROVE after[n + 1] \in A[n + 1]
  <2>1. n \in 0..all /\ n + 1 \in 0..all /\ n + 1 # 0 /\ n + 1 - 1 = n /\ n \in Nat
    BY <1>2
  <2>2. after[n + 1] = Step(after[n], n)
    <3> HIDE DEF Step, blank, after, all
    <3> QED BY <1>7, <2>1
  <2> DEFINE im == after[n]
             c == after[n + 1]
  <2>3. im \in S /\ (to # "f14b" => \A m \in 0..(n - 1) : Done(im, m))
    <3> HIDE DEF S, Done, after, all
    <3> QED BY <1>9, <2>1
  <2> HIDE DEF im, c, after
  <2>4. c \in S /\ Wrote(im, c, n % Width, n \div Width, NewValue(n))
    <3> HIDE DEF S, Step, all, NewValue
    <3> QED BY <1>5, <2>2, <2>3 DEF im, c
  <2>5. ASSUME to # "f14b", NEW m \in 0..(n + 1 - 1) PROVE Done(c, m)
    <3>1. n \in 0..(all - 1) /\ m \in 0..(all - 1) /\ m \in Int /\ m <= n
      BY <1>2, <2>1
    <3>2. Image(im) /\ im.fmt # "f14b" /\ Deep(im, NewValue(n))
      BY <1>4, <2>3, <2>5 DEF Deep
    <3> DEFINE x == n % Width
               y == n \div Width
               w == m % Width
               u == m \div Width
               v == NewValue(n)
    <3>3. x \in 0..(Width - 1) /\ y \in 0..(RawHeight - 1) /\ w \in 0..(Width - 1) /\ u \in 0..(RawHeight - 1)
      BY <1>4, <3>1
    <3>4. n = y * Width + x /\ m = u * Width + w
      BY <1>2, <3>1, PixelOrder
    <3> HIDE DEF NewValue, x, y, w, u, v
    <3>5. get(c, w, u) = IF w = x /\ u = y THEN v ELSE get(im, w, u)
      BY <2>4, <3>2, <3>3, GetSet DEF x, y, v
    <3>6. CASE m = n
      BY <3>5, <3>6 DEF x, y, w, u, v
    <3>7. CASE m # n
      <4>1. m \in 0..(n - 1) /\ ~(w = x /\ u = y)
        BY <3>1, <3>4, <3>7, <2>1
      <4>2. Done(im, m)
        BY <2>3, <2>5, <4>1
      <4> QED BY <3>5, <4>1, <4>2 DEF w, u
    <3> QED BY <3>6, <3>7
  <2>6. A[n + 1] = {i \in S : to # "f14b" => \A m \in 0..(n + 1 - 1) : Done(i, m)}
    BY <2>1
  <2>7. c \in A[n + 1]
    <3> HIDE DEF Done, S, A
    <3> QED BY <2>4, <2>5, <2>6
  <2> QED BY <2>7 DEF c
<1>10. b \in S /\ (to # "f14b" => \A m \in 0..(all - 1) : Done(b, m))
  <2>1. all \in 0..all
    BY <1>2
  <2>2. after[all] \in A[all]
    <3> HIDE DEF after, A, all
    <3> QED BY <1>2, <1>8, <1>9, <2>1, LoopKeeps
  <2> HIDE DEF after, S, Done, all
  <2> QED BY <1>1, <2>1, <2>2
<1>11. ASSUME to # "f14b", NEW x \in 0..(Width - 1), NEW y \in 0..(RawHeight - 1)
       PROVE  get(b, x, y) = Shift(get(img, x, y), -s)
  <2> DEFINE n == y * Width + x
  <2>1. n \in 0..(all - 1) /\ n % Width = x /\ n \div Width = y
    <3> HIDE DEF all
    <3> QED BY <1>2 DEF Width
  <2> HIDE DEF n
  <2>2. get(b, x, y) = NewValue(n)
    BY <1>10, <1>11, <2>1
  <2>3. NewValue(n) = Shift(get(img, x, y), -s)
    BY <1>4, <2>1
  <2> QED BY <2>2, <2>3
<1>12. Image(b) /\ b.fmt = to
  BY <1>10
<1> QED BY <1>11, <1>12

-----------------------------------------------------------------------------
(***************************************************************************)
(* Patching.                                                               *)
(***************************************************************************)
\* The sum of the numbers above a limit, and how many there are.
Above(v, t) == IF v > t THEN v ELSE 0
CountAbove(v, t) == IF v > t THEN 1 ELSE 0

\* A whole number of equal parts lies between the bounds of the parts.
LEMMA Between ==
    ASSUME NEW n \in 1..4, NEW s \in Int, NEW lo \in Int, NEW hi \in Int, n * lo <= s, s <= n * hi
    PROVE  s \div n \in Int /\ lo <= s \div n /\ s \div n <= hi
<1>1. CASE n = 1
  BY <1>1
<1>2. CASE n = 2
  BY <1>2
<1>3. CASE n = 3
  BY <1>3
<1>4. CASE n = 4
  BY <1>4
<1> QED BY <1>1, <1>2, <1>3, <1>4

\* The average of the numbers above the limit is between two of them.
LEMMA Average ==
    ASSUME NEW v \in [1..4 -> Nat], NEW t \in Nat,
           NEW total, total = Above(v[1], t) + Above(v[2], t) + Above(v[3], t) + Above(v[4], t),
           NEW count, count = CountAbove(v[1], t) + CountAbove(v[2], t) + CountAbove(v[3], t) + CountAbove(v[4], t),
           count # 0
    PROVE  /\ total \div count \in Nat
           /\ \E i, j \in 1..4 : /\ v[i] > t /\ v[j] > t
                                 /\ v[i] <= total \div count /\ total \div count <= v[j]
<1> DEFINE a == v[1]
           b == v[2]
           c == v[3]
           d == v[4]
<1>1. a \in Nat /\ b \in Nat /\ c \in Nat /\ d \in Nat
  OBVIOUS
<1>2. count \in 1..4 /\ total \in Nat
  BY <1>1 DEF Above, CountAbove
<1>3. \E i \in 1..4 : v[i] > t
  BY <1>1 DEF CountAbove
<1>4. \E j \in 1..4 : v[j] > t /\ \A k \in 1..4 : v[k] > t => v[k] <= v[j]
  BY <1>1, <1>3
<1>5. \E i \in 1..4 : v[i] > t /\ \A k \in 1..4 : v[k] > t => v[i] <= v[k]
  BY <1>1, <1>3
<1>6. PICK j \in 1..4 : v[j] > t /\ \A k \in 1..4 : v[k] > t => v[k] <= v[j]
  BY <1>4
<1>7. PICK i \in 1..4 : v[i] > t /\ \A k \in 1..4 : v[k] > t => v[i] <= v[k]
  BY <1>5
<1> DEFINE lo == v[i]
           hi == v[j]
<1>8. /\ lo \in Nat /\ hi \in Nat
      /\ (a > t => lo <= a /\ a <= hi) /\ (b > t => lo <= b /\ b <= hi)
      /\ (c > t => lo <= c /\ c <= hi) /\ (d > t => lo <= d /\ d <= hi)
  BY <1>6, <1>7
<1>9. count * lo <= total /\ total <= count * hi
  <2> DEFINE n(x) == CountAbove(x, t)
             u(x) == Above(x, t)
  <2>1. ASSUME NEW x \in Nat, x > t => lo <= x /\ x <= hi
        PROVE  n(x) \in 0..1 /\ u(x) \in Nat /\ n(x) * lo \in Int /\ n(x) * hi \in Int /\ n(x) * lo <= u(x) /\ u(x) <= n(x) * hi
    BY <1>8, <2>1 DEF Above, CountAbove
  <2>2. /\ n(a) \in 0..1 /\ u(a) \in Nat /\ n(a) * lo <= u(a) /\ u(a) <= n(a) * hi
        /\ n(b) \in 0..1 /\ u(b) \in Nat /\ n(b) * lo <= u(b) /\ u(b) <= n(b) * hi
        /\ n(c) \in 0..1 /\ u(c) \in Nat /\ n(c) * lo <= u(c) /\ u(c) <= n(c) * hi
        /\ n(d) \in 0..1 /\ u(d) \in Nat /\ n(d) * lo <= u(d) /\ u(d) <= n(d) * hi
    <3> HIDE DEF n, u, a, b, c, d, lo, hi
    <3> QED BY <1>1, <1>8, <2>1
  <2>3. count = n(a) + n(b) + n(c) + n(d) /\ total = u(a) + u(b) + u(c) + u(d)
    OBVIOUS
  <2> HIDE DEF n, u, a, b, c, d, lo, hi
  <2>4. \A x \in Int : count * x = n(a) * x + n(b) * x + n(c) * x + n(d) * x
    BY <2>2, <2>3
  <2>5. count * lo = n(a) * lo + n(b) * lo + n(c) * lo + n(d) * lo
    BY <1>8, <2>4
  <2>6. count * hi = n(a) * hi + n(b) * hi + n(c) * hi + n(d) * hi
    BY <1>8, <2>4
  <2> DEFINE l(x) == n(x) * lo
             h(x) == n(x) * hi
  <2>7. /\ l(a) \in Int /\ l(b) \in Int /\ l(c) \in Int /\ l(d) \in Int
        /\ h(a) \in Int /\ h(b) \in Int /\ h(c) \in Int /\ h(d) \in Int
    BY <1>8, <2>2
  <2>8. /\ l(a) <= u(a) /\ l(b) <= u(b) /\ l(c) <= u(c) /\ l(d) <= u(d)
        /\ u(a) <= h(a) /\ u(b) <= h(b) /\ u(c) <= h(c) /\ u(d) <= h(d)
    BY <2>2
  <2>9. count * lo = l(a) + l(b) + l(c) + l(d) /\ count * hi = h(a) + h(b) + h(c) + h(d)
    BY <2>5, <2>6
  <2> HIDE DEF l, h
  <2>10. l(a) + l(b) + l(c) + l(d) <= total /\ total <= h(a) + h(b) + h(c) + h(d)
    BY <2>2, <2>3, <2>7, <2>8
  <2> QED BY <2>9, <2>10
<1> HIDE DEF lo, hi
<1>10. total \div count \in Int /\ lo <= total \div count /\ total \div count <= hi
  BY <1>2, <1>8, <1>9, Between
<1> QED BY <1>6, <1>7, <1>8, <1>10 DEF lo, hi

\* The colours of a pattern: pixels of one parity have one colour, and the two
\* on a diagonal from a green pixel are green.
LEMMA Colours ==
    ASSUME NEW im, Image(im), NEW x \in Int, NEW y \in Int, NEW w \in Int, NEW u \in Int,
           (w % 2 = x % 2 /\ u % 2 = y % 2)
             \/ (cfa_color(im, x, y) = GREEN /\ w % 2 # x % 2 /\ u % 2 # y % 2)
    PROVE  cfa_color(im, w, u) = cfa_color(im, x, y)
<1>1. im.cfa \in {<<0, 1, 1, 2>>, <<0, 0, 0, 0>>}
  BY DEF Image, Records
<1>2. cfa_color(im, x, y) = im.cfa[(x % 2) + 2 * (y % 2) + 1] /\ cfa_color(im, w, u) = im.cfa[(w % 2) + 2 * (u % 2) + 1]
  BY DEF cfa_color
<1>3. x % 2 \in {0, 1} /\ y % 2 \in {0, 1} /\ w % 2 \in {0, 1} /\ u % 2 \in {0, 1}
  OBVIOUS
<1>4. CASE im.cfa = <<0, 0, 0, 0>>
  BY <1>2, <1>3, <1>4
<1>5. CASE im.cfa = <<0, 1, 1, 2>>
  <2>1. CASE w % 2 = x % 2 /\ u % 2 = y % 2
    BY <1>2, <2>1
  <2>2. CASE cfa_color(im, x, y) = GREEN /\ w % 2 # x % 2 /\ u % 2 # y % 2
    <3> DEFINE p == x % 2
               q == y % 2
               r == w % 2
               s == u % 2
    <3>1. p \in {0, 1} /\ q \in {0, 1} /\ r \in {0, 1} /\ s \in {0, 1} /\ r # p /\ s # q
      BY <1>3, <2>2
    <3>2. <<0, 1, 1, 2>>[p + 2 * q + 1] = 1
      BY <1>2, <1>5, <2>2 DEF GREEN
    <3> HIDE DEF p, q, r, s
    <3>3. (p = 1 /\ q = 0) \/ (p = 0 /\ q = 1)
      BY <3>1, <3>2
    <3>4. <<0, 1, 1, 2>>[r + 2 * s + 1] = 1
      BY <3>1, <3>3
    <3> QED BY <1>2, <1>5, <2>2, <3>4 DEF r, s, GREEN
  <2> QED BY <2>1, <2>2
<1> QED BY <1>1, <1>4, <1>5

\* The four neighbours a pixel is patched from, and what is read of them.
Around(im, x, y) == IF cfa_color(im, x, y) = GREEN
                  THEN << <<x-1, y-1>>, <<x+1, y-1>>, <<x-1, y+1>>, <<x+1, y+1>> >>
                  ELSE << <<x-2, y>>, <<x+2, y>>, <<x, y-2>>, <<x, y+2>> >>
Neighbour(im, x, y, i) == get_pixel_safe(im, Around(im, x, y)[i][1], Around(im, x, y)[i][2])

\* A good pixel of the colour of (x, y).
Alive(im, c, x, y) ==
    /\ c \in Coords /\ cfa_color(im, c[1], c[2]) = cfa_color(im, x, y)
    /\ get(im, c[1], c[2]) > im.black

\* Neighbours have the colour of the pixel.
LEMMA NearColour ==
    ASSUME NEW im, Image(im), NEW x \in Int, NEW y \in Int, NEW i \in 1..4,
           NEW w, NEW u, w = Around(im, x, y)[i][1], u = Around(im, x, y)[i][2]
    PROVE  w \in Int /\ u \in Int /\ cfa_color(im, w, u) = cfa_color(im, x, y)
<1>1. i = 1 \/ i = 2 \/ i = 3 \/ i = 4
  OBVIOUS
<1>2. CASE cfa_color(im, x, y) = GREEN
  <2>1. /\ w \in {x-1, x+1} /\ u \in {y-1, y+1}
    <3>1. Around(im, x, y) = << <<x-1, y-1>>, <<x+1, y-1>>, <<x-1, y+1>>, <<x+1, y+1>> >>
      BY <1>2 DEF Around
    <3> QED BY <1>1, <3>1
  <2>2. w \in Int /\ u \in Int /\ w % 2 # x % 2 /\ u % 2 # y % 2
    BY <2>1
  <2> QED BY <1>2, <2>2, Colours
<1>3. CASE cfa_color(im, x, y) # GREEN
  <2>1. (w \in {x-2, x+2} /\ u = y) \/ (w = x /\ u \in {y-2, y+2})
    <3>1. Around(im, x, y) = << <<x-2, y>>, <<x+2, y>>, <<x, y-2>>, <<x, y+2>> >>
      BY <1>3 DEF Around
    <3> QED BY <1>1, <3>1
  <2>2. w \in Int /\ u \in Int /\ w % 2 = x % 2 /\ u % 2 = y % 2
    BY <2>1
  <2> QED BY <2>2, Colours
<1> QED BY <1>2, <1>3

\* A neighbour above the black level is a good pixel; outside of the image 0 is read.
LEMMA Neighbours ==
    ASSUME NEW im, Image(im), NEW x \in 0..(Width - 1), NEW y \in 0..(RawHeight - 1), NEW i \in 1..4
    PROVE  /\ Neighbour(im, x, y, i) \in Nat
           /\ Neighbour(im, x, y, i) > im.black =>
                \E c \in Coords : Alive(im, c, x, y) /\ get(im, c[1], c[2]) = Neighbour(im, x, y, i)
<1> DEFINE w == Around(im, x, y)[i][1]
           u == Around(im, x, y)[i][2]
           v == Neighbour(im, x, y, i)
<1>1. im.width = Width /\ im.height = RawHeight /\ im.black \in Nat
  BY ImageParts
<1>2. v = IF w \in 0..(Width - 1) /\ u \in 0..(RawHeight - 1) THEN get(im, w, u) ELSE 0
  BY <1>1, Zenon DEF Neighbour, get_pixel_safe
<1>3. cfa_color(im, w, u) = cfa_color(im, x, y)
  BY NearColour
<1> HIDE DEF w, u, v
<1>4. CASE w \in 0..(Width - 1) /\ u \in 0..(RawHeight - 1)
  <2>1. v = get(im, w, u) /\ v \in Nat
    BY <1>2, <1>4, GetIs
  <2>2. <<w, u>> \in Coords /\ <<w, u>>[1] = w /\ <<w, u>>[2] = u
    BY <1>4 DEF Coords
  <2>3. v > im.black => Alive(im, <<w, u>>, x, y) /\ get(im, <<w, u>>[1], <<w, u>>[2]) = v
    BY <1>3, <2>1, <2>2 DEF Alive
  <2> QED BY <2>1, <2>2, <2>3 DEF v
<1>5. CASE ~(w \in 0..(Width - 1) /\ u \in 0..(RawHeight - 1))
  BY <1>1, <1>2, <1>5 DEF v
<1> QED BY <1>4, <1>5

\* Value v is between those of two good pixels of the colour.
Spanned(im, x, y, v) ==
    \E c, d \in Coords : /\ Alive(im, c, x, y) /\ Alive(im, d, x, y)
                         /\ get(im, c[1], c[2]) <= v /\ v <= get(im, d[1], d[2])

\* A pixel is left alone or gets such a value.
LEMMA PatchPixel ==
    ASSUME NEW im, Image(im), NEW x \in 0..(Width - 1), NEW y \in 0..(RawHeight - 1)
    PROVE  \/ rawimg_patch_pixel(im, x, y) = im
           \/ \E v : /\ Deep(im, v) /\ Spanned(im, x, y, v)
                     /\ rawimg_patch_pixel(im, x, y) = set(im, x, y, v)
<1> DEFINE v(i) == get_pixel_safe(im, Around(im, x, y)[i][1], Around(im, x, y)[i][2])
           t == im.black
           total == Total([i \in 1..4 |-> IF v(i) > t THEN v(i) ELSE 0])
           count == Total([i \in 1..4 |-> IF v(i) > t THEN 1 ELSE 0])
           q == total \div count
           n == [i \in 1..4 |-> Neighbour(im, x, y, i)]
<1>1. rawimg_patch_pixel(im, x, y) = IF count = 0 THEN im ELSE set(im, x, y, q)
  BY Zenon DEF rawimg_patch_pixel, Around
<1>2. \A i \in 1..4 : v(i) = n[i]
  BY DEF Neighbour
<1>3. n \in [1..4 -> Nat] /\ t \in Nat
  BY Neighbours, ImageParts
<1> HIDE DEF v, t, n
<1>4. total = Above(n[1], t) + Above(n[2], t) + Above(n[3], t) + Above(n[4], t)
  BY <1>2 DEF Total, Term, Above
<1>5. count = CountAbove(n[1], t) + CountAbove(n[2], t) + CountAbove(n[3], t) + CountAbove(n[4], t)
  BY <1>2 DEF Total, Term, CountAbove
<1> HIDE DEF total, count
<1>6. CASE count = 0
  BY <1>1, <1>6
<1>7. CASE count # 0
  <2>1. q \in Nat /\ \E i, j \in 1..4 : n[i] > t /\ n[j] > t /\ n[i] <= q /\ q <= n[j]
    BY <1>3, <1>4, <1>5, <1>7, Average
  <2> HIDE DEF q
  <2>2. PICK i \in 1..4, j \in 1..4 : n[i] > t /\ n[j] > t /\ n[i] <= q /\ q <= n[j]
    BY <2>1
  <2>3. PICK c \in Coords : Alive(im, c, x, y) /\ get(im, c[1], c[2]) = n[i]
    BY <2>2, Neighbours DEF n, t
  <2>4. PICK d \in Coords : Alive(im, d, x, y) /\ get(im, d[1], d[2]) = n[j]
    BY <2>2, Neighbours DEF n, t
  <2>5. Spanned(im, x, y, q)
    BY <2>2, <2>3, <2>4 DEF Spanned
  <2>6. Deep(im, q)
    <3> DEFINE p == Pow2[raw_formats[im.fmt].bpp]
    <3>1. d[1] \in 0..(Width - 1) /\ d[2] \in 0..(RawHeight - 1)
      BY DEF Coords
    <3>2. n[j] < p
      BY <2>4, <3>1, GetIs
    <3>3. p \in Nat
      <4>1. raw_formats[im.fmt].bpp \in {8, 10, 12, 14, 16}
        BY ImageParts DEF Regular
      <4> DEFINE e == raw_formats[im.fmt].bpp
      <4> HIDE DEF e
      <4> QED BY <4>1, Powers DEF e
    <3> HIDE DEF p
    <3>4. q < p
      BY <1>3, <2>1, <2>2, <3>2, <3>3
    <3> QED BY <2>1, <3>4 DEF Deep, p
  <2> QED BY <1>1, <1>7, <2>5, <2>6 DEF q
<1> QED BY <1>6, <1>7

\* What patching makes of image img: bad pixels of the area have values between
\* those of good pixels of their colour, and the others are as they were.
Mended(img, badval, im, c) ==
    /\ get(img, c[1], c[2]) <= badval
    /\ c[1] \in img.area.left..(img.area.right - 1)
    /\ Spanned(img, c[1], c[2], get(im, c[1], c[2]))
Patched(img, badval, im) ==
    /\ Image(im) /\ Alike(img, im)
    /\ img.fmt # "f14b" =>
         \A c \in Coords : get(im, c[1], c[2]) # get(img, c[1], c[2]) => Mended(img, badval, im, c)

\* What is between good pixels of a patched image is between good pixels of the
\* image.
LEMMA SpannedBefore ==
    ASSUME NEW img, Image(img), img.fmt # "f14b", NEW badval, NEW im, Patched(img, badval, im),
           NEW x, NEW y, NEW v \in Nat, Spanned(im, x, y, v)
    PROVE  Spanned(img, x, y, v)
<1>1. PICK c \in Coords, d \in Coords : /\ Alive(im, c, x, y) /\ Alive(im, d, x, y)
                                        /\ get(im, c[1], c[2]) <= v /\ v <= get(im, d[1], d[2])
  BY DEF Spanned
<1>2. Image(im) /\ im.black = img.black /\ im.cfa = img.cfa /\ \A w, u : cfa_color(im, w, u) = cfa_color(img, w, u)
  BY DEF Patched, Alike, cfa_color
<1>3. ASSUME NEW e \in Coords PROVE get(im, e[1], e[2]) \in Nat /\ get(img, e[1], e[2]) \in Nat
  BY <1>2, GetIs DEF Coords
<1>4. ASSUME NEW e \in Coords, Alive(im, e, x, y)
      PROVE  \E lo, hi \in Coords : /\ Alive(img, lo, x, y) /\ Alive(img, hi, x, y)
                                    /\ get(img, lo[1], lo[2]) <= get(im, e[1], e[2])
                                    /\ get(im, e[1], e[2]) <= get(img, hi[1], hi[2])
  <2>1. CASE get(im, e[1], e[2]) = get(img, e[1], e[2])
    <3>1. Alive(img, e, x, y)
      BY <1>2, <1>4, <2>1 DEF Alive
    <3> QED BY <1>3, <2>1, <3>1
  <2>2. CASE get(im, e[1], e[2]) # get(img, e[1], e[2])
    <3>1. Spanned(img, e[1], e[2], get(im, e[1], e[2]))
      BY <2>2 DEF Patched, Mended
    <3>2. PICK lo \in Coords, hi \in Coords :
             /\ Alive(img, lo, e[1], e[2]) /\ Alive(img, hi, e[1], e[2])
             /\ get(img, lo[1], lo[2]) <= get(im, e[1], e[2])
             /\ get(im, e[1], e[2]) <= get(img, hi[1], hi[2])
      BY <3>1 DEF Spanned
    <3>3. cfa_color(img, e[1], e[2]) = cfa_color(img, x, y)
      BY <1>2, <1>4 DEF Alive
    <3>4. Alive(img, lo, x, y) /\ Alive(img, hi, x, y)
      BY <3>2, <3>3 DEF Alive
    <3> QED BY <3>2, <3>4
  <2> QED BY <2>1, <2>2
<1>5. PICK lo \in Coords : Alive(img, lo, x, y) /\ get(img, lo[1], lo[2]) <= get(im, c[1], c[2])
  BY <1>1, <1>4
<1>6. PICK hi \in Coords : Alive(img, hi, x, y) /\ get(im, d[1], d[2]) <= get(img, hi[1], hi[2])
  BY <1>1, <1>4
<1>7. get(img, lo[1], lo[2]) <= v /\ v <= get(img, hi[1], hi[2])
  BY <1>1, <1>3, <1>5, <1>6
<1> QED BY <1>5, <1>6, <1>7 DEF Spanned

\* One turn of the loop: a pixel of the area is patched if it is bad.
LEMMA PatchedOnce ==
    ASSUME NEW img, Image(img), NEW badval \in Nat, NEW im, Patched(img, badval, im),
           NEW x \in img.area.left..(img.area.right - 1), x \in 0..(Width - 1), NEW y \in 0..(RawHeight - 1),
           NEW b, b = IF get(im, x, y) <= badval THEN rawimg_patch_pixel(im, x, y) ELSE im
    PROVE  Patched(img, badval, b)
<1>1. Image(im) /\ Alike(img, im)
  BY DEF Patched
<1>2. CASE b = im
  BY <1>2
<1>3. CASE b # im
  <2>1. PICK v : Deep(im, v) /\ Spanned(im, x, y, v) /\ b = set(im, x, y, v) /\ get(im, x, y) <= badval
    BY <1>1, <1>3, PatchPixel
  <2>2. Wrote(im, b, x, y, v)
    BY <1>1, <2>1, SetData
  <2>3. Image(b) /\ Alike(img, b)
    BY <1>1, <2>2 DEF Wrote, Alike
  <2>4. ASSUME img.fmt # "f14b", NEW c \in Coords, get(b, c[1], c[2]) # get(img, c[1], c[2])
        PROVE  Mended(img, badval, b, c)
    <3>1. c[1] \in 0..(Width - 1) /\ c[2] \in 0..(RawHeight - 1)
      BY DEF Coords
    <3>2. im.fmt # "f14b"
      BY <1>1, <2>4 DEF Alike
    <3>3. get(b, c[1], c[2]) = IF c[1] = x /\ c[2] = y THEN v ELSE get(im, c[1], c[2])
      BY <1>1, <2>1, <2>2, <3>1, <3>2, GetSet
    <3>4. get(im, c[1], c[2]) # get(img, c[1], c[2]) => Mended(img, badval, im, c)
      BY <2>4 DEF Patched
    <3>5. CASE c[1] = x /\ c[2] = y
      <4>1. get(b, c[1], c[2]) = v
        BY <3>3, <3>5
      <4>2. Spanned(img, x, y, v)
        BY <2>1, <2>4, SpannedBefore DEF Deep
      <4>3. get(img, c[1], c[2]) <= badval
        BY <2>1, <3>4, <3>5 DEF Mended
      <4> QED BY <3>5, <4>1, <4>2, <4>3 DEF Mended
    <3>6. CASE ~(c[1] = x /\ c[2] = y)
      BY <2>4, <3>3, <3>4, <3>6 DEF Mended
    <3> QED BY <3>5, <3>6
  <2> QED BY <2>3, <2>4 DEF Patched
<1> QED BY <1>2, <1>3

\* The pixels of the active area.
LEMMA AreaPlaces ==
    ASSUME NEW img, Image(img), NEW w, w = img.area.right - img.area.left,
           NEW h, h = img.area.bottom - img.area.top
    PROVE  /\ w * h \in Nat
           /\ \A n \in 0..(w * h - 1) :
                /\ img.area.left + (n % w) \in img.area.left..(img.area.right - 1)
                /\ img.area.left + (n % w) \in 0..(Width - 1)
                /\ img.area.top + (n \div w) \in 0..(RawHeight - 1)
<1>1. img.area \in RawAreas /\ RawHeight \in Nat \ {0}
  BY ImageParts
<1>2. CASE img.area = [top |-> 0, left |-> 0, bottom |-> RawHeight, right |-> Width]
  <2>1. img.area.left = 0 /\ img.area.right = 8 /\ img.area.top = 0 /\ w = 8 /\ h = RawHeight
    BY <1>1, <1>2 DEF Width
  <2> QED BY <1>1, <2>1 DEF Width
<1>3. CASE img.area = [top |-> 0, left |-> 2, bottom |-> RawHeight, right |-> Width - 2]
  <2>1. img.area.left = 2 /\ img.area.right = 6 /\ img.area.top = 0 /\ w = 4 /\ h = RawHeight
    BY <1>1, <1>3 DEF Width
  <2> QED BY <1>1, <2>1 DEF Width
<1> QED BY <1>1, <1>2, <1>3 DEF RawAreas

\* The whole loop.
LEMMA PatchedImage ==
    ASSUME NEW img, Image(img), NEW badval \in Nat, NEW b, b = patch_pixels(img, badval)
    PROVE  Patched(img, badval, b)
<1> DEFINE w == img.area.right - img.area.left
           X(n) == img.area.left + (n % w)
           Y(n) == img.area.top + (n \div w)
           Step(im, n) == IF get(im, X(n), Y(n)) <= badval THEN rawimg_patch_pixel(im, X(n), Y(n)) ELSE im
           all == w * (img.area.bottom - img.area.top)
           P(g) == g = [n \in 0..all |-> IF n = 0 THEN img ELSE Step(g[n - 1], n - 1)]
           after == CHOOSE g : P(g)
           S == {im \in Records : Patched(img, badval, im)}
           F == [n \in 0..(all - 1) |-> [im \in S |-> Step(im, n)]]
<1>1. b = after[all]
  BY Zenon DEF patch_pixels
<1>2. /\ all \in Nat
      /\ \A n \in 0..(all - 1) : X(n) \in img.area.left..(img.area.right - 1) /\ X(n) \in 0..(Width - 1) /\ Y(n) \in 0..(RawHeight - 1)
  BY AreaPlaces
<1>3. img \in S
  <2>1. img \in Records /\ Patched(img, badval, img)
    BY DEF Image, Patched, Alike
  <2> QED BY <2>1
<1>4. ASSUME NEW n \in 0..(all - 1), NEW im \in S PROVE Step(im, n) \in S
  <2> DEFINE x == X(n)
             y == Y(n)
             c == Step(im, n)
  <2>1. x \in img.area.left..(img.area.right - 1) /\ x \in 0..(Width - 1) /\ y \in 0..(RawHeight - 1)
    BY <1>2
  <2>2. c = IF get(im, x, y) <= badval THEN rawimg_patch_pixel(im, x, y) ELSE im
    OBVIOUS
  <2> HIDE DEF x, y, c
  <2>3. Patched(img, badval, c)
    BY <2>1, <2>2, PatchedOnce
  <2>4. c \in Records
    BY <2>3 DEF Patched, Image
  <2>5. c \in S
    BY <2>3, <2>4
  <2> QED BY <2>5 DEF c
<1>5. F \in [0..(all - 1) -> [S -> S]]
  <2> HIDE DEF S, Step, all
  <2> QED BY <1>4
<1>6. P(after)
  <2>1. PICK g \in [0..all -> S] : Loop(g, all, img, F)
    <3> HIDE DEF S, F, all
    <3> QED BY <1>2, <1>3, <1>5, LoopRuns
  <2>2. ASSUME NEW n \in 0..all, n # 0 PROVE F[n - 1][g[n - 1]] = Step(g[n - 1], n - 1)
    <3>1. n - 1 \in 0..(all - 1) /\ n - 1 \in 0..all
      BY <1>2, <2>2
    <3>2. g[n - 1] \in S
      BY <2>1, <3>1
    <3> HIDE DEF S, Step, all
    <3> QED BY <3>1, <3>2
  <2>3. P(g)
    <3> HIDE DEF F, S, Step, all
    <3> QED BY <2>1, <2>2, Zenon DEF Loop
  <2> HIDE DEF P
  <2> QED BY <2>3
<1> DEFINE A == [n \in 0..all |-> S]
<1>7. after[0] \in A[0]
  <2>1. 0 \in 0..all
    <3>1. all \in Nat
      BY <1>2
    <3> HIDE DEF all
    <3> QED BY <3>1
  <2>2. after[0] = img
    <3> HIDE DEF after, Step, all
    <3> QED BY <1>6, <2>1
  <2> HIDE DEF after, S, all
  <2> QED BY <1>3, <2>1, <2>2
<1>8. ASSUME NEW n \in 0..(all - 1), after[n] \in A[n] PROVE after[n + 1] \in A[n + 1]
  <2>1. n \in 0..all /\ n + 1 \in 0..all /\ n + 1 # 0 /\ n + 1 - 1 = n
    BY <1>2
  <2>2. after[n + 1] = Step(after[n], n)
    <3> HIDE DEF Step, after, all
    <3> QED BY <1>6, <2>1
  <2> HIDE DEF after, S, Step, all
  <2> QED BY <1>4, <1>8, <2>1, <2>2
<1>9. after[all] \in S
  <2>1. all \in 0..all
    BY <1>2
  <2>2. after[all] \in A[all]
    <3> HIDE DEF after, A, all
    <3> QED BY <1>2, <1>7, <1>8, <2>1, LoopKeeps
  <2> HIDE DEF after, S, all
  <2> QED BY <2>1, <2>2
<1> QED BY <1>1, <1>9

-----------------------------------------------------------------------------
(***************************************************************************)
(* The calls of a script on an image.                                      *)
(***************************************************************************)
\* What a buffer is bound as is an image.
LEMMA BoundImage ==
    ASSUME NEW s \in Specs, NEW b, b = bind_lbuf(s), b # NoImage
    PROVE  Image(b)
<1>1. PICK f \in RawFormats, d \in RawFills, o \in {0, 3}, a \in Areas :
        s = [fmt |-> f, data |-> d, off |-> o, width |-> Width, height |-> RawHeight,
             cfa |-> IF o = 0 THEN <<0, 1, 1, 2>> ELSE <<0, 0, 0, 0>>, black |-> o, area |-> a]
  BY DEF Specs
<1> DEFINE row == Row_bytes(f, Width)
           cfa == IF o = 0 THEN <<0, 1, 1, 2>> ELSE <<0, 0, 0, 0>>
<1>2. /\ b = [fmt |-> f, data |-> d, off |-> o, width |-> Width, height |-> RawHeight, row_bytes |-> row,
              cfa |-> cfa, black |-> o, area |-> a]
      /\ ~(a.left >= a.right) /\ ~(o + row * RawHeight > Cardinality(DOMAIN d))
  <2>1. /\ s.fmt = f /\ s.data = d /\ s.off = o /\ s.width = Width /\ s.height = RawHeight
        /\ s.cfa = cfa /\ s.black = o /\ s.area = a
    BY <1>1
  <2> HIDE DEF cfa
  <2> QED BY <2>1, Zenon DEF bind_lbuf
<1>3. f \in DOMAIN raw_formats /\ Regular(f) /\ RawHeight \in Nat \ {0} /\ d \in [0..(RawHeight * 16 + 1) -> 0..255]
  BY RawAssumption, FormatsRegular
<1>4. row = raw_formats[f].bpp /\ row \in Nat
  BY <1>3 DEF Row_bytes, Width, Regular
<1>5. a \in RawAreas
  BY <1>2 DEF Areas, RawAreas, Width
<1> DEFINE n == RawHeight * 16 + 1
<1>6. n \in Nat /\ d \in [0..n -> Octet]
  BY <1>3 DEF Octet
<1>7. d \in RawBuffers
  BY <1>6 DEF RawBuffers
<1>8. Cardinality(DOMAIN d) = n + 1
  <2>1. DOMAIN d = 0..n
    BY <1>6
  <2> HIDE DEF n
  <2>2. Cardinality(0..n) = n + 1
    BY <1>6, FS_Interval
  <2> QED BY <2>1, <2>2
<1>9. b \in Records
  <2> HIDE DEF n, row
  <2> QED BY <1>2, <1>4, <1>5, <1>7 DEF Records
<1> DEFINE e == row * RawHeight
<1>10. e \in Nat /\ o + e <= n + 1
  BY <1>2, <1>3, <1>4, <1>8
<1>11. \A i \in o..(o + e - 1) : i \in DOMAIN d
  <2>1. DOMAIN d = 0..n
    BY <1>6
  <2> HIDE DEF n, e
  <2> QED BY <1>6, <1>10, <2>1
<1> HIDE DEF row, n
<1>12. b.fmt = f /\ b.data = d /\ b.off = o /\ b.height = RawHeight /\ b.row_bytes = row
  BY <1>2
<1>13. \A i \in b.off..(b.off + b.row_bytes * b.height - 1) : i \in DOMAIN b.data
  BY <1>11, <1>12
<1> QED BY <1>4, <1>9, <1>12, <1>13 DEF Image

\* No image and an image are different.
LEMMA SomeImage ==
    ASSUME NEW im, Image(im)
    PROVE  im # NoImage
<1>1. im.fmt \in DOMAIN raw_formats
  BY ImageParts
<1>2. im.fmt # "none"
  BY <1>1, FormatNames
<1> QED BY <1>2 DEF NoImage

\* Images, where all formats keep their pixels, have those the script knows of.
Shown(im) == [c \in Coords |-> get(im, c[1], c[2])]
Whole == "f14b" \notin RawFormats
RawInv ==
    /\ rawLeft \in 0..RawOps
    /\ raw # NoImage => Image(raw) /\ (Whole => rawPix = Shown(raw))

\* Reading all pixels of an image.
LEMMA ReadShown ==
    ASSUME NEW im, Image(im)
    PROVE  Read(im) = Shown(im)
<1>1. Read(im) \in [Coords -> Nat] /\ \A c \in Coords : Read(im)[c] = get(im, c[1], c[2])
  BY ReadIs
<1> QED BY <1>1 DEF Shown

\* Binding an image.
LEMMA RawBindInv ==
    ASSUME RawBind
    PROVE  raw' # NoImage => Image(raw') /\ rawPix' = Shown(raw')
<1> SUFFICES ASSUME raw' # NoImage PROVE Image(raw') /\ rawPix' = Shown(raw')
  OBVIOUS
<1>1. PICK s \in Specs : raw' = bind_lbuf(s) /\ rawPix' = Read(raw')
  BY DEF RawBind
<1>2. Image(raw')
  BY <1>1, BoundImage
<1> QED BY <1>1, <1>2, ReadShown

\* Setting a pixel.
LEMMA RawSetInv ==
    ASSUME RawSet, Image(raw), Whole => rawPix = Shown(raw)
    PROVE  Image(raw') /\ (Whole => rawPix' = Shown(raw'))
<1>1. PICK c \in Coords, v \in Values(raw.fmt) :
        raw' = set(raw, c[1], c[2], v) /\ rawPix' = [rawPix EXCEPT ![c] = v]
  BY DEF RawSet
<1>2. raw.fmt \in RawFormats /\ Regular(raw.fmt)
  BY ImageParts
<1>3. Deep(raw, v)
  <2> DEFINE p == Pow2[raw_formats[raw.fmt].bpp]
  <2>1. PICK u \in RawValues : v = u % p
    BY DEF Values
  <2>2. p \in Nat /\ p > 0
    <3> DEFINE e == raw_formats[raw.fmt].bpp
    <3>1. e \in {8, 10, 12, 14, 16}
      BY <1>2 DEF Regular
    <3> HIDE DEF e, p
    <3>2. Pow2[e] \in Nat /\ Pow2[e] > 0
      BY <3>1, Powers
    <3> QED BY <3>2 DEF e, p
  <2> HIDE DEF p
  <2>3. u \in Int
    BY RawAssumption
  <2>4. v \in 0..(p - 1)
    BY <2>1, <2>2, <2>3, DivMod
  <2>5. v \in Nat /\ v < p
    BY <2>2, <2>4
  <2> QED BY <2>5 DEF Deep, p
<1>4. c[1] \in 0..(Width - 1) /\ c[2] \in 0..(RawHeight - 1)
  BY DEF Coords
<1>5. Wrote(raw, raw', c[1], c[2], v)
  BY <1>1, <1>3, <1>4, SetData
<1>6. Image(raw')
  BY <1>5 DEF Wrote
<1>7. ASSUME Whole PROVE rawPix' = Shown(raw')
  <2>1. raw.fmt # "f14b" /\ rawPix = Shown(raw)
    BY <1>2, <1>7 DEF Whole
  <2>2. ASSUME NEW d \in Coords PROVE rawPix'[d] = get(raw', d[1], d[2])
    <3>1. d[1] \in 0..(Width - 1) /\ d[2] \in 0..(RawHeight - 1) /\ (d = c <=> d[1] = c[1] /\ d[2] = c[2])
      BY DEF Coords
    <3>2. get(raw', d[1], d[2]) = IF d[1] = c[1] /\ d[2] = c[2] THEN v ELSE get(raw, d[1], d[2])
      BY <1>3, <1>4, <1>5, <2>1, <3>1, GetSet
    <3>3. rawPix'[d] = IF d = c THEN v ELSE get(raw, d[1], d[2])
      BY <1>1, <2>1, Zenon DEF Shown
    <3> QED BY <3>1, <3>2, <3>3
  <2>3. rawPix' = [d \in Coords |-> rawPix'[d]]
    BY <1>1, <2>1, Zenon DEF Shown
  <2> QED BY <2>2, <2>3, Zenon DEF Shown
<1> QED BY <1>6, <1>7

\* Patching.
LEMMA RawPatchInv ==
    ASSUME RawPatch, Image(raw)
    PROVE  /\ Image(raw') /\ rawPix' = Shown(raw')
           /\ \E badval \in Nat : Patched(raw, badval, raw') /\ rawCall' = [op |-> "patch_pixels", badval |-> badval]
<1>1. PICK badval \in {0, Pow2[raw_formats[raw.fmt].bpp] \div 4} :
        /\ raw' = patch_pixels(raw, badval) /\ rawPix' = Read(raw')
        /\ rawCall' = [op |-> "patch_pixels", badval |-> badval]
  BY DEF RawPatch
<1>2. badval \in Nat
  <2> DEFINE e == raw_formats[raw.fmt].bpp
  <2>1. e \in {8, 10, 12, 14, 16}
    BY ImageParts DEF Regular
  <2> HIDE DEF e
  <2>2. Pow2[e] \in Nat
    BY <2>1, Powers
  <2>3. Pow2[e] \div 4 \in Nat
    BY <2>2, Quotient
  <2> QED BY <1>1, <2>3 DEF e
<1>3. Patched(raw, badval, raw')
  BY <1>1, <1>2, PatchedImage
<1>4. Image(raw')
  BY <1>3 DEF Patched
<1> QED BY <1>1, <1>2, <1>3, <1>4, ReadShown

\* Converting.
LEMMA RawConvertInv ==
    ASSUME RawConvert, Image(raw), Whole => rawPix = Shown(raw)
    PROVE  Image(raw') /\ (Whole => rawPix' = Shown(raw'))
<1>1. PICK to \in RawFormats, up \in BOOLEAN, down \in BOOLEAN, junk \in {0, 255} :
         LET shift == ConvertShift(raw.fmt, to, up, down)
             size == Row_bytes(to, raw.width) * raw.height
         IN  /\ raw_formats[raw.fmt].bpp > raw_formats[to].bpp => down
             /\ raw' = convert(raw, to, shift, [i \in 0..(size - 1) |-> junk])
             /\ rawPix' = [c \in Coords |-> Shift(rawPix[c], -shift)]
  BY DEF RawConvert
<1> DEFINE s == ConvertShift(raw.fmt, to, up, down)
<1>2. Asked(raw.fmt, to, s)
  BY <1>1, Zenon DEF Asked
<1>3. raw' = convert(raw, to, s, Fresh(raw, to, junk)) /\ rawPix' = [c \in Coords |-> Shift(rawPix[c], -s)]
  BY <1>1 DEF Fresh
<1> HIDE DEF s
<1>4. junk \in Octet
  BY DEF Octet
<1>5. /\ Image(raw')
      /\ to # "f14b" => \A x \in 0..(Width - 1), y \in 0..(RawHeight - 1) : get(raw', x, y) = Shift(get(raw, x, y), -s)
  BY <1>2, <1>3, <1>4, ConvertedImage
<1>6. ASSUME Whole PROVE rawPix' = Shown(raw')
  <2>1. to # "f14b" /\ rawPix = Shown(raw)
    BY <1>6 DEF Whole
  <2>2. ASSUME NEW c \in Coords PROVE Shift(rawPix[c], -s) = get(raw', c[1], c[2])
    <3>1. c[1] \in 0..(Width - 1) /\ c[2] \in 0..(RawHeight - 1)
      BY DEF Coords
    <3>2. rawPix[c] = get(raw, c[1], c[2])
      BY <2>1 DEF Shown
    <3>3. get(raw', c[1], c[2]) = Shift(get(raw, c[1], c[2]), -s)
      BY <1>5, <2>1, <3>1
    <3> QED BY <3>2, <3>3
  <2>3. Shown(raw') = [c \in Coords |-> get(raw', c[1], c[2])]
    BY DEF Shown
  <2>4. rawPix' = [c \in Coords |-> Shift(rawPix[c], -s)]
    BY <1>3
  <2> QED BY <2>2, <2>3, <2>4
<1> QED BY <1>5, <1>6

\* Every call keeps the invariant.
LEMMA RawInvStep ==
    ASSUME RawInv, RawNext
    PROVE  RawInv'
<1>1. rawLeft' \in 0..RawOps
  BY RawAssumption DEF RawInv, RawNext, RawBind, RawSet, RawPatch, RawThumb, RawConvert
<1>2. raw # NoImage => Image(raw) /\ (Whole => rawPix = Shown(raw))
  BY DEF RawInv
<1>3. ASSUME raw' # NoImage PROVE Image(raw') /\ (Whole => rawPix' = Shown(raw'))
  <2>1. CASE RawBind
    BY <1>3, <2>1, RawBindInv
  <2>2. CASE RawSet
    <3>1. raw # NoImage
      BY <2>2 DEF RawSet
    <3> QED BY <1>2, <2>2, <3>1, RawSetInv
  <2>3. CASE RawPatch
    <3>1. raw # NoImage
      BY <2>3 DEF RawPatch
    <3> QED BY <1>2, <2>3, <3>1, RawPatchInv
  <2>4. CASE RawThumb
    <3>1. raw # NoImage /\ raw' = raw /\ rawPix' = rawPix
      BY <2>4, Zenon DEF RawThumb
    <3> QED BY <1>2, <3>1, Zenon
  <2>5. CASE RawConvert
    <3>1. raw # NoImage
      BY <2>5 DEF RawConvert
    <3> QED BY <1>2, <2>5, <3>1, RawConvertInv
  <2> QED BY <2>1, <2>2, <2>3, <2>4, <2>5 DEF RawNext
<1> QED BY <1>1, <1>3 DEF RawInv

\* What the invariant says of the image.
LEMMA RawInvSound ==
    ASSUME RawInv
    PROVE  RawTypeOK /\ (Whole => Decoded)
<1>1. rawLeft \in 0..RawOps /\ (raw # NoImage => Image(raw) /\ (Whole => rawPix = Shown(raw)))
  BY DEF RawInv
<1>2. ASSUME raw # NoImage
      PROVE  /\ raw.data \in [DOMAIN raw.data -> 0..255]
             /\ \A i \in raw.off..(raw.off + Dim(raw) - 1) : i \in DOMAIN raw.data
  BY <1>1, <1>2, ImageParts DEF Dim, Octet
<1>3. ASSUME raw # NoImage, Whole, NEW c \in Coords
      PROVE  get(raw, c[1], c[2]) = rawPix[c] /\ Read(raw)[c] = rawPix[c]
  <2>1. Image(raw) /\ rawPix = Shown(raw)
    BY <1>1, <1>3
  <2>2. Read(raw) = Shown(raw)
    BY <2>1, ReadShown
  <2> QED BY <2>1, <2>2, Zenon DEF Shown
<1> QED BY <1>1, <1>2, <1>3 DEF RawTypeOK, Decoded

\* What a step does to an image that it patches.
LEMMA RawPatchSound ==
    ASSUME RawInv, RawNext, Whole, rawCall'.op = "patch_pixels"
    PROVE  PatchedOnly
<1>1. RawPatch
  BY DEF RawNext, RawBind, RawSet, RawThumb, RawConvert
<1>2. raw # NoImage
  BY <1>1 DEF RawPatch
<1>3. Image(raw) /\ rawPix = Shown(raw)
  BY <1>2 DEF RawInv
<1>4. PICK badval \in Nat : Patched(raw, badval, raw') /\ rawCall' = [op |-> "patch_pixels", badval |-> badval]
  BY <1>1, <1>3, RawPatchInv
<1>5. Image(raw') /\ rawPix' = Shown(raw')
  BY <1>1, <1>3, RawPatchInv
<1>6. raw.fmt # "f14b"
  BY <1>3, ImageParts DEF Whole
<1>7. ASSUME NEW c \in Coords PROVE rawPix[c] = get(raw, c[1], c[2]) /\ rawPix'[c] = get(raw', c[1], c[2])
  BY <1>3, <1>5, Zenon DEF Shown
<1>8. rawCall'.badval = badval
  BY <1>4
<1>9. ASSUME NEW c \in Coords, rawPix'[c] # rawPix[c]
      PROVE  /\ rawPix[c] <= rawCall'.badval
             /\ c[1] \in raw.area.left..(raw.area.right - 1)
             /\ \E lo, hi \in Good(c) : lo <= rawPix'[c] /\ rawPix'[c] <= hi
  <2>1. Mended(raw, badval, raw', c)
    BY <1>4, <1>6, <1>7, <1>9, Zenon DEF Patched
  <2>2. PICK a \in Coords, b \in Coords :
          /\ Alive(raw, a, c[1], c[2]) /\ Alive(raw, b, c[1], c[2])
          /\ get(raw, a[1], a[2]) <= get(raw', c[1], c[2]) /\ get(raw', c[1], c[2]) <= get(raw, b[1], b[2])
    BY <2>1, Zenon DEF Mended, Spanned
  <2>3. ASSUME NEW d \in Coords, Alive(raw, d, c[1], c[2]) PROVE rawPix[d] \in Good(c)
    BY <1>7, <2>3 DEF Alive, Good
  <2>4. rawPix[a] \in Good(c) /\ rawPix[b] \in Good(c)
    BY <2>2, <2>3
  <2>5. rawPix[a] <= rawPix'[c] /\ rawPix'[c] <= rawPix[b]
    BY <1>7, <2>2
  <2>6. rawPix[c] <= rawCall'.badval /\ c[1] \in raw.area.left..(raw.area.right - 1)
    BY <1>7, <1>8, <2>1, Zenon DEF Mended
  <2> QED BY <2>4, <2>5, <2>6
<1> QED BY <1>9 DEF PatchedOnly

-----------------------------------------------------------------------------
(***************************************************************************)
(* Raw images and the types of all objects in the behaviours of scripts.   *)
(***************************************************************************)
\* An image stays inside its buffer and, where all formats keep their pixels,
\* shows those the script knows of.
LEMMA RawInvariance == Spec => []RawInv
<1>1. Init => RawInv
  BY RawAssumption DEF Init, RawInit, RawInv
<1>2. RawInv /\ [Next]_vars => RawInv'
  <2> SUFFICES ASSUME RawInv, [Next]_vars PROVE RawInv'
    OBVIOUS
  <2>1. RawNext \/ (raw' = raw /\ rawPix' = rawPix /\ rawLeft' = rawLeft)
    BY DEF Next, RawStep, LiveStep, LbufStep, PackStep, vars, rawVars
  <2> QED BY <2>1, RawInvStep DEF RawInv
<1> QED BY <1>1, <1>2, PTL DEF Spec

\* Every pixel of a raw image reads back as what was last written to it, in this
\* or the format it was converted from, and is stored where the format puts it,
\* whatever the format, the number of rows and the contents of the buffer - but for the
\* 14 bit big endian format, whose write function drops pixels
\* (rawimg.c:157-391, 598-676).
THEOREM PixelsDecoded ==
    ASSUME "f14b" \notin RawFormats
    PROVE  Spec => []Decoded
<1>1. RawInv => Decoded
  BY RawInvSound DEF Whole
<1> QED BY <1>1, RawInvariance, PTL

\* patch_pixels changes only bad pixels of the active area and gives them
\* values between those of good pixels of their colour, although it works in
\* place and interpolates from pixels it has patched (rawimg.c:507-596).
THEOREM PatchesSound ==
    ASSUME "f14b" \notin RawFormats
    PROVE  Spec => PatchSound
<1>1. RawInv /\ [Next]_vars => [rawCall'.op = "patch_pixels" => PatchedOnly]_rawVars
  <2> SUFFICES ASSUME RawInv, [Next]_vars
               PROVE  [rawCall'.op = "patch_pixels" => PatchedOnly]_rawVars
    OBVIOUS
  <2>1. RawNext \/ UNCHANGED rawVars
    BY DEF Next, RawStep, LiveStep, LbufStep, PackStep, vars, rawVars
  <2> QED BY <2>1, RawPatchSound DEF Whole
<1> QED BY <1>1, RawInvariance, PTL DEF Spec, PatchSound

\* Scripts make no more calls than they may.
LiveCount == liveLeft \in 0..LiveOps
LEMMA LiveCalls == Spec => []LiveCount
<1>1. Init => LiveCount
  BY LiveAssumption DEF Init, LiveInit, LiveCount
<1>2. LiveCount /\ [Next]_vars => LiveCount'
  <2> SUFFICES ASSUME LiveCount, [Next]_vars PROVE LiveCount'
    OBVIOUS
  <2>1. LiveNext \/ liveLeft' = liveLeft
    BY DEF Next, RawStep, LiveStep, LbufStep, PackStep, vars, liveVars
  <2>2. CASE LiveNext
    BY <2>2, LiveAssumption DEF LiveNext, LiveCount
  <2> QED BY <2>1, <2>2 DEF LiveCount
<1> QED BY <1>1, <1>2, PTL DEF Spec

\* The objects of scripts are well formed: buffers keep their length, raw images
\* of every format lie inside theirs, and planar images have all their pixels
\* (rawimg.c:680-790, liveimg.c:264-401, lbuf.c:168-501).
THEOREM ObjectsTyped == Spec => []TypeOK
<1>1. LiveInv /\ LiveCount => LiveTypeOK
  <2> SUFFICES ASSUME LiveInv, LiveCount PROVE LiveTypeOK
    OBVIOUS
  <2>1. ImgInv(live.img)
    BY DEF LiveInv
  <2>2. ImgOK(NoImg) /\ ImgOK(Killed)
    BY DEF NoImg, Killed, ImgOK
  <2>3. ImgOK(live.img)
    BY <2>1, <2>2, Zenon DEF ImgInv, Filled, ImgOK
  <2> QED BY <2>3 DEF LiveTypeOK, LiveCount
<1>2. LbInv => LbufTypeOK
  BY DEF LbInv, LbufTypeOK, Octet
<1>3. RawInv => RawTypeOK
  BY RawInvSound
<1>4. RawInv /\ LiveInv /\ LiveCount /\ LbInv => TypeOK
  BY <1>1, <1>2, <1>3 DEF TypeOK
<1> QED BY <1>4, RawInvariance, LiveInvariance, LiveCalls, LbInvariance, PTL

=============================================================================

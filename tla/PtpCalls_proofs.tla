--------------------------- MODULE PtpCalls_proofs ---------------------------
(***************************************************************************)
(* Proofs about PtpCalls and PtpIp for any operations, payloads, blocks,   *)
(* backlog and number of faults: what a connection over PTP/IP holds on    *)
(* to, when the stream is in step, and what a call returns.                *)
(***************************************************************************)
EXTENDS PtpCalls, SequenceTheorems, WellFoundedInduction, TLAPS

-----------------------------------------------------------------------------
\* Induction.

\* A set of natural numbers has a least member.
LEMMA LeastNumber ==
    ASSUME NEW S, S \subseteq Nat, S # {}
    PROVE  \E n \in S : \A m \in S : n <= m
<1> DEFINE R == OpToRel(<, Nat)
<1>1. IsWellFoundedOn(R, Nat)
  BY NatLessThanWellFounded
<1>2. \A x, y \in Nat : y < x => <<y, x>> \in R
  BY DEF OpToRel
<1> HIDE DEF R
<1>3. \E x \in S : \A y \in S : <<y, x>> \notin R
  BY <1>1, WFMin
<1>4. \A x, y \in Nat : ~(y < x) => x <= y
  OBVIOUS
<1> QED
  BY <1>2, <1>3, <1>4

\* A set with 0 and the successors of its numbers has all of them.
LEMMA Induction ==
    ASSUME NEW S, 0 \in S, \A n \in Nat : n \in S => n + 1 \in S
    PROVE  Nat \subseteq S
<1> SUFFICES ASSUME Nat \ S # {} PROVE FALSE
  OBVIOUS
<1>1. PICK n \in Nat \ S : \A m \in Nat \ S : n <= m
  BY LeastNumber
<1>2. n # 0 /\ n - 1 \in Nat
  OBVIOUS
<1>3. n - 1 \in S
  BY <1>1, <1>2
<1> QED
  BY <1>1, <1>2, <1>3

\* FlattenSeq joins its parts one after the other.
Joins(s, f) == f = [i \in 1..Len(s) |-> IF i = 1 THEN s[i] ELSE f[i - 1] \o s[i]]

\* FlattenSeq joins the sequences one after the other.
LEMMA FlattenUnfold ==
    ASSUME NEW s, Len(s) # 0, NEW g, Joins(s, g)
    PROVE  \E f : Joins(s, f) /\ FlattenSeq(s) = f[Len(s)]
<1> DEFINE P(f) == f = [i \in 1..Len(s) |-> IF i = 1 THEN s[i] ELSE f[i - 1] \o s[i]]
<1> DEFINE c == CHOOSE f : P(f)
<1>1. FlattenSeq(s) = c[Len(s)]
  BY Zenon DEF FlattenSeq
<1>2. P(g)
  BY DEF Joins
<1>3. P(c)
  <2> HIDE DEF P
  <2> QED
    BY <1>2
<1> QED
  BY <1>1, <1>3 DEF Joins

\* There is such a function.
LEMMA JoinsExists ==
    ASSUME NEW S, NEW s \in Seq(Seq(S)) PROVE \E f : Joins(s, f)
<1> DEFINE Part(m, g) == \A i \in 1..m : g[i] = IF i = 1 THEN s[i] ELSE g[i - 1] \o s[i]
<1> DEFINE Ok(m) == m <= Len(s) => \E g \in [Nat -> Seq(S)] : Part(m, g)
<1>0. Len(s) \in Nat /\ \A i \in 1..Len(s) : s[i] \in Seq(S)
  OBVIOUS
<1>1. Ok(0)
  <2>1. [i \in Nat |-> <<>>] \in [Nat -> Seq(S)]
    OBVIOUS
  <2>2. \A g : Part(0, g)
    OBVIOUS
  <2> QED
    BY <2>1, <2>2
<1>2. ASSUME NEW m \in Nat, Ok(m) PROVE Ok(m + 1)
  <2> HIDE DEF Part
  <2>1. SUFFICES ASSUME m + 1 <= Len(s) PROVE \E h \in [Nat -> Seq(S)] : Part(m + 1, h)
    OBVIOUS
  <2>2. m <= Len(s)
    BY <1>0, <2>1
  <2>3. PICK g \in [Nat -> Seq(S)] : Part(m, g)
    BY <1>2, <2>2
  <2> USE DEF Part
  <2>4. s[m + 1] \in Seq(S) /\ g[m] \in Seq(S)
    BY <1>0, <2>1
  <2> DEFINE new == IF m + 1 = 1 THEN s[m + 1] ELSE g[m] \o s[m + 1]
  <2>5. new \in Seq(S)
    <3>1. g[m] \o s[m + 1] \in Seq(S)
      BY <2>4
    <3> QED
      BY <2>4, <3>1
  <2>6. PICK h \in [Nat -> Seq(S)] : h = [g EXCEPT ![m + 1] = new]
    <3> HIDE DEF new
    <3> QED
      BY <2>5
  <2>7. h[m + 1] = new /\ \A i \in Nat : i # m + 1 => h[i] = g[i]
    BY <2>6
  <2>8. ASSUME NEW i \in 1..(m + 1) PROVE h[i] = IF i = 1 THEN s[i] ELSE h[i - 1] \o s[i]
    <3>1. CASE i = m + 1
      <4>1. h[m] = g[m]
        BY <2>7
      <4> QED
        BY <2>5, <2>7, <3>1, <4>1
    <3>2. CASE i # m + 1
      <4>0. i \in 1..m /\ i \in Nat /\ (i # 1 => i - 1 \in Nat /\ i - 1 # m + 1)
        BY <3>2
      <4>1. i \in 1..m /\ h[i] = g[i] /\ (i # 1 => h[i - 1] = g[i - 1])
        BY <2>7, <4>0, <3>2
      <4>2. g[i] = IF i = 1 THEN s[i] ELSE g[i - 1] \o s[i]
        BY <2>3, <4>1
      <4> QED
        BY <4>1, <4>2
    <3> QED
      BY <3>1, <3>2
  <2> QED
    BY <2>8
<1>3. Ok(Len(s))
  <2> HIDE DEF Ok
  <2> DEFINE K == {m \in Nat : Ok(m)}
  <2>1. 0 \in K /\ \A m \in Nat : m \in K => m + 1 \in K
    BY <1>1, <1>2
  <2> HIDE DEF K
  <2>2. Len(s) \in K
    BY <1>0, <2>1, Induction
  <2> QED
    BY <2>2 DEF K
<1>4. PICK g \in [Nat -> Seq(S)] : Part(Len(s), g)
  <2> HIDE DEF Part
  <2> QED
    BY <1>0, <1>3
<1> DEFINE f == [i \in 1..Len(s) |-> g[i]]
<1>5. ASSUME NEW i \in 1..Len(s) PROVE f[i] = IF i = 1 THEN s[i] ELSE f[i - 1] \o s[i]
  <2>1. i # 1 => i - 1 \in 1..Len(s)
    BY <1>0
  <2> QED
    BY <1>4, <2>1
<1>6. f = [i \in 1..Len(s) |-> f[i]]
  OBVIOUS
<1>7. f = [i \in 1..Len(s) |-> IF i = 1 THEN s[i] ELSE f[i - 1] \o s[i]]
  <2> HIDE DEF f
  <2> QED
    BY <1>5, <1>6
<1> QED
  BY <1>7 DEF Joins

\* What holds of no part, and stays true when the next part is joined, holds of
\* all of them joined.
LEMMA FlattenInduction ==
    ASSUME NEW S, NEW s \in Seq(Seq(S)), NEW A,
           <<>> \in A[0], \A i \in 1..Len(s) : \A p \in A[i - 1] : p \o s[i] \in A[i]
    PROVE  FlattenSeq(s) \in A[Len(s)]
<1>0. Len(s) \in Nat /\ \A i \in 1..Len(s) : s[i] \in Seq(S)
  OBVIOUS
<1>1. CASE Len(s) = 0
  <2>1. FlattenSeq(s) = s
    BY <1>1, Zenon DEF FlattenSeq
  <2>2. s = <<>>
    BY <1>1
  <2> QED
    BY <1>1, <2>1, <2>2
<1>2. CASE Len(s) # 0
  <2>1. PICK f : Joins(s, f) /\ FlattenSeq(s) = f[Len(s)]
    BY <1>2, JoinsExists, FlattenUnfold
  <2>2. \A i \in 1..Len(s) : f[i] = IF i = 1 THEN s[i] ELSE f[i - 1] \o s[i]
    BY <2>1 DEF Joins
  <2> DEFINE K == {m \in Nat : m + 1 <= Len(s) => f[m + 1] \in A[m + 1]}
  <2>3. 0 \in K
    <3>1. 1 \in 1..Len(s) /\ 1 - 1 = 0
      BY <1>0, <1>2
    <3>2. <<>> \o s[1] = s[1]
      BY <1>0, <3>1
    <3>3. <<>> \o s[1] \in A[1]
      BY <3>1
    <3>4. f[1] = s[1]
      BY <2>2, <3>1
    <3> QED
      BY <3>2, <3>3, <3>4
  <2>4. ASSUME NEW m \in Nat, m \in K PROVE m + 1 \in K
    <3> DEFINE i == m + 2
    <3>1. SUFFICES ASSUME m + 1 + 1 <= Len(s) PROVE f[m + 1 + 1] \in A[m + 1 + 1]
      OBVIOUS
    <3>2. i \in 1..Len(s) /\ i # 1 /\ i - 1 = m + 1 /\ m + 1 <= Len(s) /\ m + 1 + 1 = i
      BY <1>0, <3>1
    <3>3. f[m + 1] \in A[m + 1]
      BY <2>4, <3>2
    <3> HIDE DEF i
    <3>4. f[i] = f[i - 1] \o s[i]
      BY <2>2, <3>2
    <3>5. f[i - 1] \in A[i - 1]
      BY <3>2, <3>3
    <3>6. f[i - 1] \o s[i] \in A[i]
      BY <3>2, <3>5
    <3> QED
      BY <3>2, <3>4, <3>6
  <2>5. Len(s) - 1 \in Nat /\ Len(s) - 1 + 1 = Len(s)
    BY <1>0, <1>2
  <2>6. Len(s) - 1 \in K
    <3> HIDE DEF K
    <3> QED
      BY <2>3, <2>4, <2>5, Induction
  <2>7. f[Len(s)] \in A[Len(s)]
    BY <2>5, <2>6
  <2> QED
    BY <2>1, <2>7
<1> QED
  BY <1>1, <1>2

-----------------------------------------------------------------------------
\* The stream.

Items == [type : Headers \cup {"unit", "rest"}, v : -1..MaxUnits, mine : BOOLEAN]
Requests == [op : DOMAIN Shape, want : 0..MaxUnits, data : BOOLEAN, mine : BOOLEAN]

\* How far a reader of the stream has come: outside of a data phase (n = -1), or
\* in one of n units, of which at were read and left remain in the packet; end
\* is set in its END_DATA packet, fresh before its first packet.
Positions ==
    {s \in [n : -1..MaxUnits, at : 0..MaxUnits, left : 0..MaxUnits, end : BOOLEAN, fresh : BOOLEAN] :
        s.n >= 0 => s.at + s.left <= s.n /\ (s.end => s.at + s.left = s.n)}

\* The item x takes the reader from s to t.  Of a damaged item nothing is known.
Reads(s, x, t) ==
    \/ x.type = "rest"
    \/ /\ x.type = "START_DATA" /\ s.n = -1
       /\ t.n = x.v /\ t.n >= 0 /\ t.at = 0 /\ t.left = 0 /\ ~t.end /\ t.fresh
    \/ /\ x.type \in {"DATA", "END_DATA"} /\ s.n >= 0 /\ s.left = 0 /\ ~s.end
       /\ (x.type = "DATA" /\ x.v = 0 => s.fresh /\ s.n = 0)
       /\ t.n = s.n /\ t.at = s.at /\ t.left = x.v /\ (t.end <=> x.type = "END_DATA") /\ ~t.fresh
    \/ /\ x.type = "unit" /\ s.n >= 0 /\ s.left > 0 /\ x.v = s.at + 1
       /\ t.n = s.n /\ t.at = s.at + 1 /\ t.left = s.left - 1 /\ (t.end <=> s.end) /\ ~t.fresh
    \/ /\ x.type = "RESP" /\ t.n = -1
       /\ \/ s.n = -1 /\ x.v \in {0, Refused}
          \/ s.n >= 0 /\ s.end /\ s.left = 0 /\ x.v \in {s.n, Refused}

\* r is the positions of the reader along q.
Along(q, r) == \A k \in 1..Len(q) : Reads(r[k], q[k], r[k + 1])
Runs(q, s, t) ==
    \E r \in [Nat -> Positions] : r[1] = s /\ r[Len(q) + 1] = t /\ Along(q, r)

\* Without items the reader stays.
LEMMA RunNone ==
    ASSUME NEW s \in Positions, NEW t \in Positions PROVE Runs(<<>>, s, t) <=> s = t
<1>1. [k \in Nat |-> s] \in [Nat -> Positions]
  OBVIOUS
<1>2. Along(<<>>, [k \in Nat |-> s])
  BY DEF Along
<1> QED
  BY <1>1, <1>2 DEF Runs

\* One item.
LEMMA RunOne ==
    ASSUME NEW x, NEW s \in Positions, NEW t \in Positions, Reads(s, x, t) PROVE Runs(<<x>>, s, t)
<1>1. PICK r \in [Nat -> Positions] : r = [k \in Nat |-> IF k = 1 THEN s ELSE t]
  OBVIOUS
<1>2. r[1] = s /\ r[2] = t /\ Len(<<x>>) = 1
  BY <1>1
<1>3. Along(<<x>>, r)
  BY <1>2 DEF Along
<1> QED
  BY <1>2, <1>3 DEF Runs

\* Two runs one after the other.
LEMMA RunJoin ==
    ASSUME NEW S, NEW p \in Seq(S), NEW q \in Seq(S), NEW s, NEW t, NEW u, Runs(p, s, t), Runs(q, t, u)
    PROVE  Runs(p \o q, s, u)
<1>1. PICK r1 \in [Nat -> Positions] : r1[1] = s /\ r1[Len(p) + 1] = t /\ Along(p, r1)
  BY DEF Runs
<1>2. PICK r2 \in [Nat -> Positions] : r2[1] = t /\ r2[Len(q) + 1] = u /\ Along(q, r2)
  BY DEF Runs
<1> DEFINE m == Len(p)
<1> DEFINE f == [k \in Nat |-> IF k <= m THEN r1[k] ELSE r2[k - m]]
<1>3. m \in Nat /\ Len(q) \in Nat /\ Len(p \o q) = m + Len(q)
  OBVIOUS
<1>3a. /\ \A k \in 1..m : (p \o q)[k] = p[k]
       /\ \A k \in 1..(m + Len(q)) : k > m => (p \o q)[k] = q[k - m]
  OBVIOUS
<1> HIDE DEF m
<1>4. f \in [Nat -> Positions]
  <2> SUFFICES ASSUME NEW k \in Nat PROVE f[k] \in Positions
    BY <1>3
  <2> QED
    BY <1>3
<1>5. /\ \A k \in Nat : k <= m => f[k] = r1[k]
      /\ \A k \in Nat : k > m => f[k] = r2[k - m]
  BY <1>3
<1> HIDE DEF f
<1>6. f[m + 1] = t
  <2>1. m + 1 - m = 1
    BY <1>3
  <2> QED
    BY <1>2, <1>3, <1>5, <2>1
<1>7. f[1] = s
  <2>1. CASE m = 0
    <3>1. m + 1 = 1
      BY <2>1
    <3> QED
      BY <1>1, <1>6, <2>1, <3>1 DEF m
  <2>2. CASE m # 0
    BY <1>1, <1>3, <1>5, <2>2
  <2> QED
    BY <2>1, <2>2
<1>8. f[Len(p \o q) + 1] = u
  <2>1. m + Len(q) + 1 \in Nat /\ m + Len(q) + 1 > m /\ m + Len(q) + 1 - m = Len(q) + 1
    BY <1>3
  <2> QED
    BY <1>2, <1>3, <1>5, <2>1
<1>9. ASSUME NEW k \in 1..Len(p \o q) PROVE Reads(f[k], (p \o q)[k], f[k + 1])
  <2>1. CASE k <= m
    <3>1. k \in 1..m /\ k \in Nat
      BY <1>3, <2>1
    <3>2. f[k] = r1[k] /\ (p \o q)[k] = p[k]
      BY <1>3a, <1>5, <3>1
    <3>3. f[k + 1] = r1[k + 1]
      <4>1. CASE k = m
        BY <1>1, <1>6, <4>1 DEF m
      <4>2. CASE k # m
        BY <1>3, <1>5, <3>1, <4>2
      <4> QED
        BY <4>1, <4>2
    <3> QED
      BY <1>1, <3>1, <3>2, <3>3 DEF Along, m
  <2>2. CASE k > m
    <3>1. k - m \in 1..Len(q) /\ k \in Nat /\ k + 1 > m /\ k + 1 - m = k - m + 1 /\ k \in 1..(m + Len(q))
      BY <1>3, <2>2
    <3>2. f[k] = r2[k - m] /\ (p \o q)[k] = q[k - m]
      BY <1>3a, <1>5, <2>2, <3>1
    <3>3. f[k + 1] = r2[k - m + 1]
      <4>1. PICK i \in Nat : i = k + 1
        BY <3>1
      <4>2. f[i] = r2[i - m]
        BY <1>5, <3>1, <4>1
      <4> QED
        BY <1>3, <3>1, <4>1, <4>2
    <3> QED
      BY <1>2, <3>1, <3>2, <3>3 DEF Along
  <2>3. k <= m \/ k > m
    BY <1>3
  <2> QED
    BY <2>1, <2>2, <2>3
<1> QED
  BY <1>4, <1>7, <1>8, <1>9 DEF Runs, Along

\* The first item, and the rest from where it leads.
LEMMA RunHead ==
    ASSUME NEW S, NEW q \in Seq(S), q # <<>>, NEW s, NEW t, Runs(q, s, t)
    PROVE  \E u \in Positions : Reads(s, Head(q), u) /\ Runs(Tail(q), u, t)
<1>1. PICK r \in [Nat -> Positions] : r[1] = s /\ r[Len(q) + 1] = t /\ Along(q, r)
  BY DEF Runs
<1>2. /\ Len(q) \in Nat /\ 1 \in 1..Len(q) /\ Head(q) = q[1]
      /\ Len(Tail(q)) = Len(q) - 1 /\ \A k \in 1..Len(Tail(q)) : Tail(q)[k] = q[k + 1]
  OBVIOUS
<1>3. PICK f \in [Nat -> Positions] : f = [k \in Nat |-> r[k + 1]]
  <2>1. \A k \in Nat : r[k + 1] \in Positions
    OBVIOUS
  <2> QED
    BY <2>1
<1>4. \A k \in Nat : f[k] = r[k + 1]
  BY <1>3
<1>5. f[1] = r[2] /\ f[Len(Tail(q)) + 1] = t
  <2>1. Len(Tail(q)) + 1 \in Nat /\ Len(Tail(q)) + 1 + 1 = Len(q) + 1
    BY <1>2
  <2> QED
    BY <1>1, <1>4, <2>1
<1>6. Along(Tail(q), f)
  <2> SUFFICES ASSUME NEW k \in 1..Len(Tail(q)) PROVE Reads(f[k], Tail(q)[k], f[k + 1])
    BY DEF Along
  <2>1. k + 1 \in 1..Len(q) /\ k \in Nat
    BY <1>2
  <2> QED
    BY <1>1, <1>2, <1>4, <2>1 DEF Along
<1>7. Reads(s, Head(q), r[2])
  <2>1. 1 + 1 = 2
    OBVIOUS
  <2> QED
    BY <1>1, <1>2, <2>1 DEF Along
<1>8. r[2] \in Positions
  OBVIOUS
<1> QED
  BY <1>5, <1>6, <1>7, <1>8 DEF Runs

\* A beginning of the stream leads somewhere.
LEMMA RunPrefix ==
    ASSUME NEW S, NEW q \in Seq(S), NEW s, NEW t, Runs(q, s, t), NEW i \in 0..Len(q)
    PROVE  \E u \in Positions : Runs(SubSeq(q, 1, i), s, u)
<1>1. PICK r \in [Nat -> Positions] : r[1] = s /\ r[Len(q) + 1] = t /\ Along(q, r)
  BY DEF Runs
<1>2. i \in Nat /\ Len(SubSeq(q, 1, i)) = i /\ \A k \in 1..i : k \in 1..Len(q) /\ SubSeq(q, 1, i)[k] = q[k]
  OBVIOUS
<1>3. Along(SubSeq(q, 1, i), r) /\ r[i + 1] \in Positions
  BY <1>1, <1>2 DEF Along
<1> QED
  BY <1>1, <1>2, <1>3 DEF Runs

\* Runs look only at the type and the number of an item.
LEMMA RunSame ==
    ASSUME NEW q, NEW p, Len(p) = Len(q), NEW s, NEW t, Runs(q, s, t),
           \A k \in 1..Len(q) : p[k].type = q[k].type /\ p[k].v = q[k].v
    PROVE  Runs(p, s, t)
<1>1. PICK r \in [Nat -> Positions] : r[1] = s /\ r[Len(q) + 1] = t /\ Along(q, r)
  BY DEF Runs
<1>2. Along(p, r)
  <2> SUFFICES ASSUME NEW k \in 1..Len(q) PROVE Reads(r[k], p[k], r[k + 1])
    BY DEF Along
  <2>1. Reads(r[k], q[k], r[k + 1])
    BY <1>1 DEF Along
  <2> QED
    BY <2>1 DEF Reads
<1> QED
  BY <1>1, <1>2 DEF Runs

\* A damaged first item may be met anywhere.
LEMMA RunDamaged ==
    ASSUME NEW S, NEW q \in Seq(S), q # <<>>, NEW p, Len(p) = Len(q), NEW s, NEW t, Runs(q, s, t),
           p[1].type = "rest", \A k \in 2..Len(q) : p[k] = q[k]
    PROVE  Runs(p, s, t)
<1>1. PICK r \in [Nat -> Positions] : r[1] = s /\ r[Len(q) + 1] = t /\ Along(q, r)
  BY DEF Runs
<1>2. Along(p, r)
  <2> SUFFICES ASSUME NEW k \in 1..Len(q) PROVE Reads(r[k], p[k], r[k + 1])
    BY DEF Along
  <2>1. CASE k = 1
    BY <2>1 DEF Reads
  <2>2. CASE k # 1
    <3>1. k \in 2..Len(q)
      BY <2>2
    <3> QED
      BY <1>1, <3>1 DEF Along
  <2> QED
    BY <2>1, <2>2
<1> QED
  BY <1>1, <1>2 DEF Runs

-----------------------------------------------------------------------------
\* The data phases of the camera.

\* Items of one data phase of n units, without its response, that lead from s to t.
Phase(n, q, s, t) ==
    /\ q \in Seq(Items) /\ Runs(q, s, t)
    /\ \A k \in 1..Len(q) : /\ q[k].mine /\ q[k].type \notin {"RESP", "rest"}
                            /\ q[k].type = "START_DATA" => q[k].v = n

\* Phases without items, of one item, and one after the other.
LEMMA PhaseNone ==
    ASSUME NEW n, NEW s \in Positions PROVE Phase(n, <<>>, s, s)
  BY RunNone DEF Phase

\* One item without damage and without a response is a phase.
LEMMA PhaseOne ==
    ASSUME NEW n, NEW type \in {"START_DATA", "DATA", "END_DATA", "unit"}, NEW v \in 0..MaxUnits,
           type = "START_DATA" => v = n,
           NEW s \in Positions, NEW t \in Positions, Reads(s, Item(type, v), t)
    PROVE  Phase(n, <<Item(type, v)>>, s, t)
<1>1. Item(type, v) \in Items
  BY UnitsAssumption DEF Item, Items, Headers
<1>2. Runs(<<Item(type, v)>>, s, t)
  BY RunOne
<1> QED
  BY <1>1, <1>2 DEF Phase, Item

\* Two phases in a row are a phase.
LEMMA PhaseJoin ==
    ASSUME NEW n, NEW p, NEW q, NEW s, NEW t, NEW u, Phase(n, p, s, t), Phase(n, q, t, u)
    PROVE  Phase(n, p \o q, s, u)
<1>1. p \in Seq(Items) /\ q \in Seq(Items) /\ p \o q \in Seq(Items)
  BY DEF Phase
<1>2. Runs(p \o q, s, u)
  BY <1>1, RunJoin DEF Phase
<1>3. ASSUME NEW k \in 1..Len(p \o q)
      PROVE  (\E i \in 1..Len(p) : (p \o q)[k] = p[i]) \/ (\E i \in 1..Len(q) : (p \o q)[k] = q[i])
  <2>1. CASE k <= Len(p)
    BY <1>1, <2>1
  <2>2. CASE k > Len(p)
    <3>1. k - Len(p) \in 1..Len(q) /\ (p \o q)[k] = q[k - Len(p)]
      BY <1>1, <2>2
    <3> QED
      BY <3>1
  <2> QED
    BY <1>1, <2>1, <2>2
<1>4. ASSUME NEW k \in 1..Len(p \o q)
      PROVE  /\ (p \o q)[k].mine /\ (p \o q)[k].type \notin {"RESP", "rest"}
             /\ (p \o q)[k].type = "START_DATA" => (p \o q)[k].v = n
  <2>1. CASE \E i \in 1..Len(p) : (p \o q)[k] = p[i]
    BY <2>1 DEF Phase
  <2>2. CASE \E i \in 1..Len(q) : (p \o q)[k] = q[i]
    BY <2>2 DEF Phase
  <2> QED
    BY <1>3, <2>1, <2>2
<1> QED
  BY <1>1, <1>2, <1>4 DEF Phase

\* The least number of a set that comes after i.
LEMMA LeastAfter ==
    ASSUME NEW S, S \subseteq Nat, NEW i \in Nat, \E j \in S : j > i
    PROVE  LET m == Min({j \in S : j > i})
           IN  m \in S /\ m > i /\ \A j \in S : j > i => m <= j
<1> DEFINE T == {j \in S : j > i}
<1>1. T \subseteq Nat /\ T # {}
  OBVIOUS
<1> HIDE DEF T
<1>2. \E m \in T : \A j \in T : m <= j
  BY <1>1, LeastNumber
<1>3. Min(T) \in T /\ \A j \in T : Min(T) <= j
  BY <1>2 DEF Min
<1> QED
  BY <1>3 DEF T

\* However the camera cuts a payload of n units into packets, its data phase
\* takes the reader from outside of any to the end of one of n units.
LEMMA DataPhase ==
    ASSUME NEW n \in 0..MaxUnits, NEW d \in DataPhases(n), NEW s \in Positions, s.n = -1
    PROVE  \E t \in Positions : Phase(n, d, s, t) /\ t.n = n /\ t.left = 0 /\ t.end
<1>1. PICK starts \in SUBSET (1..n) : \E inEnd \in BOOLEAN : (n > 0 => 1 \in starts) /\ d = DataPackets(n, starts, inEnd)
  BY DEF DataPhases
<1>2. PICK inEnd \in BOOLEAN : (n > 0 => 1 \in starts) /\ d = DataPackets(n, starts, inEnd)
  BY <1>1
<1> DEFINE Next1(i) == Min({j \in starts \cup {n + 1} : j > i})
           Type(i)  == IF inEnd /\ i + (Next1(i) - i) = n + 1 THEN "END_DATA" ELSE "DATA"
           Part(i)  == (IF i \in starts THEN <<Item(Type(i), Next1(i) - i)>> ELSE <<>>) \o <<Item("unit", i)>>
           parts    == [i \in 1..n |-> Part(i)]
           zero     == IF n = 0 /\ ~inEnd THEN <<Item("DATA", 0)>> ELSE <<>>
           last     == IF n = 0 \/ ~inEnd THEN <<Item("END_DATA", 0)>> ELSE <<>>
<1>3. d = <<Item("START_DATA", n)>> \o zero \o FlattenSeq(parts) \o last
  BY <1>2 DEF DataPackets
<1>4. MaxUnits \in Nat /\ n \in Nat /\ n <= MaxUnits /\ starts \subseteq 1..n
  BY UnitsAssumption
<1>5. ASSUME NEW i \in 0..n
      PROVE  /\ Next1(i) \in starts \cup {n + 1} /\ Next1(i) > i
             /\ \A j \in starts \cup {n + 1} : j > i => Next1(i) <= j
  <2>1. starts \cup {n + 1} \subseteq Nat /\ i \in Nat /\ n + 1 > i
    BY <1>4
  <2>2. \E j \in starts \cup {n + 1} : j > i
    BY <2>1
  <2> QED
    BY <2>1, <2>2, LeastAfter
<1> DEFINE At(i) == [n |-> n, at |-> i, left |-> Next1(i) - i - 1, end |-> i > 0 /\ inEnd /\ Next1(i) = n + 1,
                     fresh |-> i = 0 /\ (n > 0 \/ inEnd)]
<1>6. ASSUME NEW i \in 0..n
      PROVE  /\ At(i).n = n /\ At(i).at = i /\ At(i).left = Next1(i) - i - 1
             /\ (At(i).end <=> i > 0 /\ inEnd /\ Next1(i) = n + 1)
             /\ (At(i).fresh <=> i = 0 /\ (n > 0 \/ inEnd))
  OBVIOUS
<1>7. ASSUME NEW i \in 0..n PROVE Next1(i) \in 1..(n + 1)
  <2> HIDE DEF Next1
  <2>1. Next1(i) \in starts \cup {n + 1} /\ Next1(i) > i
    BY <1>5
  <2>2. starts \subseteq 1..(n + 1) /\ n + 1 \in 1..(n + 1)
    BY <1>4
  <2> QED
    BY <2>1, <2>2
<1>8. ASSUME NEW i \in 0..n PROVE At(i) \in Positions
  <2> HIDE DEF Next1
  <2>1. i \in 0..MaxUnits /\ n \in -1..MaxUnits /\ Next1(i) - i - 1 \in 0..MaxUnits /\ Next1(i) - i - 1 + i <= n
    BY <1>4, <1>5, <1>7
  <2>2. Next1(i) = n + 1 => Next1(i) - i - 1 + i = n
    BY <1>4, <1>7
  <2>3. At(i) \in [n : -1..MaxUnits, at : 0..MaxUnits, left : 0..MaxUnits, end : BOOLEAN, fresh : BOOLEAN]
    BY <2>1
  <2> HIDE DEF At
  <2> QED
    BY <1>6, <2>1, <2>2, <2>3 DEF Positions
<1>9. Next1(0) = 1
  <2>1. 0 \in 0..n
    BY <1>4
  <2>2. CASE n > 0
    BY <1>2, <1>5, <1>7, <2>1, <2>2
  <2>3. CASE n = 0
    BY <1>7, <2>1, <2>3
  <2> QED
    BY <1>4, <2>2, <2>3
<1> HIDE DEF At, Next1
  \* The start.
<1>10. Phase(n, <<Item("START_DATA", n)>> \o zero, s, At(0))
  <2>1. 0 \in 0..n /\ At(0) \in Positions /\ At(0).n = n /\ At(0).at = 0 /\ At(0).left = 0 /\ ~At(0).end
        /\ (At(0).fresh <=> n > 0 \/ inEnd)
    BY <1>4, <1>6, <1>8, <1>9
  <2>2. CASE n = 0 /\ ~inEnd
    <3>1. PICK u \in Positions : u.n = n /\ u.at = 0 /\ u.left = 0 /\ ~u.end /\ u.fresh
      <4>1. [n |-> n, at |-> 0, left |-> 0, end |-> FALSE, fresh |-> TRUE] \in Positions
        BY <1>4 DEF Positions
      <4> QED
        BY <4>1
    <3>2. Phase(n, <<Item("START_DATA", n)>>, s, u)
      <4>1. Reads(s, Item("START_DATA", n), u)
        BY <1>4, <3>1 DEF Reads, Item
      <4> QED
        BY <1>4, <4>1, PhaseOne
    <3>3. Phase(n, <<Item("DATA", 0)>>, u, At(0))
      <4>1. Reads(u, Item("DATA", 0), At(0))
        BY <1>4, <2>1, <2>2, <3>1 DEF Reads, Item
      <4>2. 0 \in 0..MaxUnits /\ "DATA" \in {"START_DATA", "DATA", "END_DATA", "unit"} /\ "DATA" # "START_DATA"
        BY <1>4
      <4>3. u \in Positions /\ At(0) \in Positions
        BY <2>1, <3>1
      <4> QED
        BY <4>1, <4>2, <4>3, PhaseOne
    <3> QED
      BY <2>2, <3>2, <3>3, PhaseJoin
  <2>3. CASE ~(n = 0 /\ ~inEnd)
    <3>1. Reads(s, Item("START_DATA", n), At(0))
      BY <1>4, <2>1, <2>3 DEF Reads, Item
    <3>2. Phase(n, <<Item("START_DATA", n)>>, s, At(0))
      BY <1>4, <2>1, <3>1, PhaseOne
    <3>3. Phase(n, zero, At(0), At(0))
      BY <2>1, <2>3, PhaseNone
    <3> QED
      BY <3>2, <3>3, PhaseJoin
  <2> QED
    BY <2>2, <2>3
  \* Each unit, with the header of a packet before it that starts there.
<1>11. ASSUME NEW i \in 1..n PROVE Phase(n, Part(i), At(i - 1), At(i))
  <2>1. i \in 0..n /\ i - 1 \in 0..n /\ i \in Nat /\ i <= MaxUnits
    BY <1>4
  <2>2. At(i) \in Positions /\ At(i - 1) \in Positions
    BY <1>8, <2>1
  <2>3. /\ At(i).n = n /\ At(i).at = i /\ At(i).left = Next1(i) - i - 1
        /\ (At(i).end <=> inEnd /\ Next1(i) = n + 1) /\ ~At(i).fresh
    BY <1>6, <2>1
  <2>4. /\ At(i - 1).n = n /\ At(i - 1).at = i - 1 /\ At(i - 1).left = Next1(i - 1) - (i - 1) - 1
        /\ (At(i - 1).end <=> i - 1 > 0 /\ inEnd /\ Next1(i - 1) = n + 1)
    BY <1>6, <2>1
  <2>5. Next1(i) \in 1..(n + 1) /\ Next1(i - 1) \in 1..(n + 1) /\ Next1(i) > i /\ Next1(i - 1) > i - 1
    BY <1>5, <1>7, <2>1
  <2>6. CASE i \in starts
    <3>1. Next1(i - 1) = i
      BY <1>4, <1>5, <2>1, <2>5, <2>6
    <3>2. At(i - 1).left = 0 /\ ~At(i - 1).end
      BY <1>4, <2>1, <2>4, <2>5, <3>1
    <3>3. PICK u \in Positions : u.n = n /\ u.at = i - 1 /\ u.left = Next1(i) - i
                                 /\ (u.end <=> inEnd /\ Next1(i) = n + 1) /\ ~u.fresh
      <4>1. i - 1 \in 0..MaxUnits /\ Next1(i) - i \in 0..MaxUnits /\ n \in -1..MaxUnits /\ i - 1 + (Next1(i) - i) <= n
            /\ (Next1(i) = n + 1 => i - 1 + (Next1(i) - i) = n)
        BY <1>4, <2>1, <2>5
      <4>2. [n |-> n, at |-> i - 1, left |-> Next1(i) - i, end |-> inEnd /\ Next1(i) = n + 1, fresh |-> FALSE] \in Positions
        BY <4>1 DEF Positions
      <4> QED
        BY <4>2
    <3>4. Type(i) \in {"DATA", "END_DATA"} /\ (Type(i) = "END_DATA" <=> inEnd /\ Next1(i) = n + 1)
          /\ Next1(i) - i > 0 /\ Next1(i) - i \in 0..MaxUnits
      BY <1>4, <2>1, <2>5
    <3> HIDE DEF Type
    <3>5. Reads(At(i - 1), Item(Type(i), Next1(i) - i), u)
      BY <1>4, <2>4, <3>2, <3>3, <3>4 DEF Reads, Item
    <3>6. Phase(n, <<Item(Type(i), Next1(i) - i)>>, At(i - 1), u)
      BY <2>2, <3>4, <3>5, PhaseOne
    <3>7. Reads(u, Item("unit", i), At(i))
      BY <1>4, <2>1, <2>3, <2>5, <3>3, <3>4 DEF Reads, Item
    <3>8. Phase(n, <<Item("unit", i)>>, u, At(i))
      <4>1. i \in 0..MaxUnits
        BY <1>4, <2>1
      <4> QED
        BY <2>2, <3>3, <3>7, <4>1, PhaseOne
    <3> QED
      BY <2>6, <3>6, <3>8, PhaseJoin
  <2>7. CASE i \notin starts
    <3>1. i # 1 /\ Next1(i - 1) # i
      BY <1>2, <1>4, <1>5, <2>1, <2>7
    <3>2. Next1(i - 1) = Next1(i)
      BY <1>4, <1>5, <2>1, <2>5, <3>1
    <3>3. Reads(At(i - 1), Item("unit", i), At(i))
      BY <1>4, <2>1, <2>3, <2>4, <2>5, <3>1, <3>2 DEF Reads, Item
    <3>4. Phase(n, <<Item("unit", i)>>, At(i - 1), At(i))
      <4>1. i \in 0..MaxUnits
        BY <1>4, <2>1
      <4> QED
        BY <2>2, <3>3, <4>1, PhaseOne
    <3>5. Phase(n, <<>>, At(i - 1), At(i - 1))
      BY <2>2, PhaseNone
    <3> QED
      BY <2>7, <3>4, <3>5, PhaseJoin
  <2> QED
    BY <2>6, <2>7
<1> HIDE DEF Part
  \* All of them.
<1>12. Phase(n, FlattenSeq(parts), At(0), At(n))
  <2> DEFINE A == [i \in 0..n |-> {q \in Seq(Items) : Phase(n, q, At(0), At(i))}]
  <2>1. parts \in Seq(Seq(Items)) /\ Len(parts) = n /\ \A i \in 1..n : parts[i] = Part(i)
    <3>1. \A i \in 1..n : Part(i) \in Seq(Items)
      BY <1>11 DEF Phase
    <3> QED
      BY <1>4, <3>1
  <2>2. <<>> \in A[0]
    <3>1. 0 \in 0..n
      BY <1>4
    <3>2. Phase(n, <<>>, At(0), At(0))
      BY <1>8, <3>1, PhaseNone
    <3> QED
      BY <3>1, <3>2
  <2>3. ASSUME NEW i \in 1..n, NEW p \in A[i - 1] PROVE p \o parts[i] \in A[i]
    <3>1. i \in 0..n /\ i - 1 \in 0..n
      BY <1>4
    <3>2. Phase(n, p, At(0), At(i - 1))
      BY <2>3, <3>1
    <3>3. Phase(n, p \o parts[i], At(0), At(i))
      BY <1>11, <2>1, <3>2, PhaseJoin
    <3>4. p \o parts[i] \in Seq(Items)
      BY <3>3 DEF Phase
    <3> QED
      BY <3>1, <3>3, <3>4
  <2> HIDE DEF A, parts
  <2>4. FlattenSeq(parts) \in A[n]
    BY <2>1, <2>2, <2>3, FlattenInduction
  <2> QED
    BY <1>4, <2>4 DEF A
<1> HIDE DEF parts
  \* The end.
<1>13. n \in 0..n /\ At(n) \in Positions /\ At(n).n = n /\ At(n).at = n /\ At(n).left = 0 /\ (At(n).end <=> n > 0 /\ inEnd)
  <2>1. n \in 0..n
    BY <1>4
  <2>2. Next1(n) = n + 1
    BY <1>4, <1>5, <1>7, <2>1
  <2> QED
    BY <1>4, <1>6, <1>8, <2>1, <2>2
<1>14. \E t \in Positions : Phase(n, last, At(n), t) /\ t.n = n /\ t.left = 0 /\ t.end
  <2>1. CASE n = 0 \/ ~inEnd
    <3>1. PICK t \in Positions : t.n = n /\ t.at = n /\ t.left = 0 /\ t.end /\ ~t.fresh
      <4>1. [n |-> n, at |-> n, left |-> 0, end |-> TRUE, fresh |-> FALSE] \in Positions
        BY <1>4 DEF Positions
      <4> QED
        BY <4>1
    <3>2. Reads(At(n), Item("END_DATA", 0), t)
      BY <1>4, <1>13, <2>1, <3>1 DEF Reads, Item
    <3>3. Phase(n, <<Item("END_DATA", 0)>>, At(n), t)
      BY <1>4, <1>13, <3>2, PhaseOne
    <3> QED
      BY <2>1, <3>1, <3>3
  <2>2. CASE ~(n = 0 \/ ~inEnd)
    <3>1. At(n).end
      BY <1>4, <1>13, <2>2
    <3>2. Phase(n, last, At(n), At(n))
      BY <1>13, <2>2, PhaseNone
    <3> QED
      BY <1>13, <3>1, <3>2
  <2> QED
    BY <2>1, <2>2
<1>15. PICK t \in Positions : Phase(n, last, At(n), t) /\ t.n = n /\ t.left = 0 /\ t.end
  BY <1>14
<1> HIDE DEF zero, last
<1>16. Phase(n, d, s, t)
  BY <1>3, <1>10, <1>12, <1>15, PhaseJoin
<1> QED
  BY <1>15, <1>16

-----------------------------------------------------------------------------
\* The invariant, part by part.

\* The type invariant, with the queues as sequences.
Flags == connected \in BOOLEAN /\ cmd_sock \in BOOLEAN /\ event_sock \in BOOLEAN /\ ai \in BOOLEAN
         /\ id \in BOOLEAN /\ own \in BOOLEAN /\ synced \in BOOLEAN /\ session \in BOOLEAN
Places == /\ proc \in {"none", "initack", "event", "open", "devinfo", "failed", "close", "call"}
          /\ tx \in {"none", "sendreq", "senddata", "start", "packet", "payload", "flush", "end", "resp"}
          /\ link \in {"none", "up", "lost"} /\ faults \in 0..MaxFaults
          /\ rc \in {"none", "OK", "code", "io", "badparam", "nomem", "handler", "data_expected", "resp_expected"}
Numbers == op \in DOMAIN Shape /\ want \in 0..MaxUnits /\ param \in 0..MaxUnits
Locals == gd \in [total : 0..MaxUnits, read : 0..MaxUnits, pkt : 0..MaxUnits, end : BOOLEAN,
                  block : Seq(1..MaxUnits), out : Seq(1..MaxUnits)]
Queues == inq \in Seq(Items) /\ outq \in Seq(Requests)
Calls  == call \in Methods \cup {Idle} /\ step \in 1..2
TypeInv == Flags /\ Places /\ Numbers /\ Locals /\ Queues /\ Calls

\* Operations that fetch data, and the phases in which their data is read.
Data == {"get", "file"}
InData == tx \in {"packet", "payload", "flush", "end"} \/ (tx = "resp" /\ Shape[op] \in Data)

\* ptp_tcp_getdata is where the stream is.
AtGd(s) ==
    /\ s.n = gd.total /\ s.at = gd.read /\ s.left = gd.pkt /\ (s.end <=> gd.end \/ tx = "resp")
    /\ (s.fresh <=> tx = "packet" /\ gd.read = 0)

\* The stream is part of a sequence of answers: it begins where the reader is,
\* and ends with an answer, unless the connection is lost.
StreamInv ==
    \E s \in Positions, t \in Positions :
        /\ Runs(inq, s, t) /\ (link = "up" => t.n = -1)
        /\ (InData => AtGd(s)) /\ (tx = "start" /\ synced => s.n = -1)

\* Only the first item may be damaged, and not in the middle of a data phase.
RestInv == \A k \in 1..Len(inq) : inq[k].type = "rest" => k = 1 /\ ~InData

\* What each phase of a transaction knows.
TxInv ==
    /\ tx \in {"start", "packet", "payload", "flush", "end"} => Shape[op] \in Data
    /\ tx = "senddata" => Shape[op] = "send"
    /\ tx \in {"sendreq", "senddata", "start"} \/ (tx = "resp" /\ Shape[op] \notin Data) => gd = NoData
    /\ tx = "packet" => gd.pkt = 0 /\ ~gd.end /\ (gd.read < gd.total \/ gd.total = 0)
    /\ tx = "payload" => gd.pkt > 0
    /\ tx \in {"flush", "end"} \/ (tx = "resp" /\ Shape[op] \in Data) => gd.pkt = 0 /\ gd.read = gd.total
    /\ tx = "end" => ~gd.end
    /\ tx = "flush" => Shape[op] = "file"
    /\ tx \in {"end", "resp"} => gd.block = <<>>
    /\ tx # "none" => rc = "none" /\ param = 0

\* Numbers from i + 1 on: what a download has got.
Counted(q, i) == \A k \in 1..Len(q) : q[k] = i + k

\* The block continues what the handler got, both in the order of the file.
GdInv ==
    /\ gd.read <= gd.total /\ Len(gd.block) < BlockUnits
    /\ Counted(gd.out, 0)
    /\ tx # "none" => Counted(gd.block, Len(gd.out))
    /\ tx # "none" => Len(gd.out) + Len(gd.block) = gd.read
    /\ Shape[op] # "file" => gd.block = <<>>

\* A transaction that went well has all its data.
DoneInv ==
    /\ tx = "none" /\ rc = "OK" /\ Shape[op] \in Data =>
           Len(gd.out) = gd.total /\ param = gd.total /\ (own /\ want > 0 => gd.total = want)
    /\ InData /\ own /\ want > 0 => gd.total = want

\* What is marked as the transaction's is its own.
MineInv == tx \notin {"none", "sendreq"} =>
    /\ \A k \in 1..Len(inq) : inq[k].mine /\ inq[k].type = "START_DATA" /\ want > 0 => inq[k].v = want
    /\ \A k \in 1..Len(outq) : outq[k].mine => outq[k].op = op /\ outq[k].want = want

\* A call, and what the camera is asked for.
CallInv ==
    /\ proc = "call" => /\ call \in Methods /\ step \in 1..Len(call.ops) /\ op = call.ops[step]
                        /\ call.len = "arg" => want > 0
    /\ want > 0 => Shape[op] \in Data

\* What close_camera_tcp has left behind holds no socket.
NotHeld == (proc = "none" /\ ~connected) => ~cmd_sock /\ ~event_sock /\ ~ai

\* How far the connection is at each step of a procedure.
ConnInv ==
    /\ NotHeld
    /\ proc \in {"call", "devinfo"} => connected
    /\ proc \in {"initack", "event", "open"} => ~connected
    /\ proc \in {"initack", "event", "open", "devinfo"} => cmd_sock
    /\ proc \in {"open", "devinfo"} => event_sock
    /\ proc = "devinfo" => id
    /\ proc = "open" => op = "Open" /\ tx \in {"sendreq", "resp", "none"}
    /\ tx # "none" => proc \in {"open", "devinfo", "call", "close"}

\* In a transaction that began in step, nothing but its own answer is coming, and
\* one that ended with an answer has read all of it.
SyncInv ==
    /\ tx \notin {"none", "sendreq"} /\ synced =>
           /\ inq = <<>> \/ outq = <<>>
           /\ Len(outq) <= 1
           /\ \A k \in 1..Len(inq) : k < Len(inq) => inq[k].type # "RESP"
    /\ /\ tx = "none" /\ synced /\ rc \in {"OK", "code", "data_expected"}
       /\ (connected \/ proc = "open") /\ proc \notin {"initack", "event", "failed"}
       => InSync
    /\ link # "up" => outq = <<>>

\* The handshake leaves nothing unread, or something OpenSession stumbles over.
HandInv ==
    /\ proc = "initack" => InSync /\ ~id
    /\ proc = "event" /\ id => InSync
    /\ proc \in {"event", "open"} /\ ~id =>
           \/ inq # <<>> /\ inq[1].type = "rest"
           \/ inq = <<>> /\ link # "up"
           \/ proc = "open" /\ tx = "none" /\ rc # "OK"
    /\ proc \in {"open", "devinfo"} /\ id =>
           /\ tx = "sendreq" => InSync
           /\ tx \notin {"none", "sendreq"} /\ ~synced => link # "up" /\ InSync
           /\ tx = "none" /\ rc = "OK" => synced
    /\ proc = "open" /\ tx = "none" /\ rc = "OK" => id

IInv == /\ TypeInv /\ StreamInv /\ RestInv /\ TxInv /\ GdInv /\ DoneInv /\ MineInv /\ CallInv
        /\ ConnInv /\ SyncInv /\ HandInv

-----------------------------------------------------------------------------
\* The steps, and what they leave alone.

\* The constants, as numbers and operations.
LEMMA Constants ==
    /\ MaxUnits \in Nat /\ MaxUnits >= 1 /\ BlockUnits \in Nat /\ BlockUnits >= 1 /\ MaxFaults \in Nat
    /\ \A o \in DOMAIN Shape : Shape[o] \in {"nodata", "send", "get", "file"}
    /\ {"Open", "Close", "DevInfo", "nodata", "send", "get", "file"} \subseteq DOMAIN Shape
    /\ Shape["Open"] = "nodata" /\ Shape["Close"] = "nodata" /\ Shape["DevInfo"] = "get"
    /\ Shape["nodata"] = "nodata" /\ Shape["send"] = "send" /\ Shape["get"] = "get" /\ Shape["file"] = "file"
  BY ShapeAssumption, UnitsAssumption, FaultsAssumption, OpsAssumption

\* A step of a transaction is one of a transaction under way, and leaves alone
\* the connection, the procedure and what was asked for.
LEMMA TransactionKeeps ==
    ASSUME Transaction
    PROVE  tx # "none" /\ UNCHANGED <<connected, cmd_sock, event_sock, ai, id, proc, op, want, link, session>>
<1> USE DEF sockets
<1>1. CASE SendReq     BY <1>1 DEF SendReq, Stay
<1>2. CASE SendData    BY <1>2 DEF SendData, Stay
<1>3. CASE ReadFail    BY <1>3 DEF ReadFail, Stay, Reading
<1>4. CASE ReadGarbage BY <1>4 DEF ReadGarbage, Stay, Reading
<1>5. CASE GetStart    BY <1>5 DEF GetStart
<1>6. CASE GetPacket   BY <1>6 DEF GetPacket, Stay
<1>7. CASE GetUnit     BY <1>7 DEF GetUnit
<1>8. CASE FinalFlush  BY <1>8 DEF FinalFlush
<1>9. CASE GetEnd      BY <1>9 DEF GetEnd, Stay
<1>10. CASE GetResp    BY <1>10 DEF GetResp, Stay
<1> QED BY <1>1, <1>2, <1>3, <1>4, <1>5, <1>6, <1>7, <1>8, <1>9, <1>10 DEF Transaction

\* The camera touches only the wire.
LEMMA CameraKeeps ==
    ASSUME CamAnswer \/ CamGone
    PROVE  UNCHANGED <<connected, cmd_sock, event_sock, ai, id, proc, tx, op, gd, rc, want, param, own, synced>>
<1> USE DEF sockets, trans
<1>1. CASE CamAnswer BY <1>1 DEF CamAnswer
<1>2. CASE CamGone   BY <1>2 DEF CamGone
<1> QED BY <1>1, <1>2

\* Foreign items and requests differ from what they were in the mark.
LEMMA ForeignItems ==
    ASSUME NEW q \in Seq(Items)
    PROVE  /\ Foreign(q) \in Seq(Items) /\ Len(Foreign(q)) = Len(q)
           /\ \A k \in 1..Len(q) : /\ Foreign(q)[k].type = q[k].type /\ Foreign(q)[k].v = q[k].v
                                   /\ ~Foreign(q)[k].mine
<1>1. DOMAIN q = 1..Len(q) /\ \A k \in 1..Len(q) : q[k] \in Items
  OBVIOUS
<1>2. \A k \in 1..Len(q) : [q[k] EXCEPT !.mine = FALSE] \in Items
  BY <1>1 DEF Items
<1>3. Foreign(q) = [i \in 1..Len(q) |-> [q[i] EXCEPT !.mine = FALSE]]
  BY <1>1 DEF Foreign
<1>4. Foreign(q) \in Seq(Items) /\ Len(Foreign(q)) = Len(q)
  BY <1>2, <1>3
<1> QED
  BY <1>1, <1>3, <1>4 DEF Items

\* The same for requests.
LEMMA ForeignRequests ==
    ASSUME NEW q \in Seq(Requests)
    PROVE  /\ Foreign(q) \in Seq(Requests) /\ Len(Foreign(q)) = Len(q)
           /\ \A k \in 1..Len(q) : ~Foreign(q)[k].mine
<1>1. DOMAIN q = 1..Len(q) /\ \A k \in 1..Len(q) : q[k] \in Requests
  OBVIOUS
<1>2. \A k \in 1..Len(q) : [q[k] EXCEPT !.mine = FALSE] \in Requests
  BY <1>1 DEF Requests
<1>3. Foreign(q) = [i \in 1..Len(q) |-> [q[i] EXCEPT !.mine = FALSE]]
  BY <1>1 DEF Foreign
<1>4. Foreign(q) \in Seq(Requests) /\ Len(Foreign(q)) = Len(q)
  BY <1>2, <1>3
<1> QED
  BY <1>1, <1>3, <1>4 DEF Requests

\* An answer whose data, if any, is of n units: it leads out of the data phase,
\* and its last item is the response.
Answers(n, q) ==
    /\ q \in Seq(Items) /\ q # <<>>
    /\ \A s \in Positions : s.n = -1 => \E t \in Positions : t.n = -1 /\ Runs(q, s, t)
    /\ \A k \in 1..Len(q) : /\ q[k].type # "rest" /\ (k < Len(q) => q[k].type # "RESP")
                            /\ q[k].type = "START_DATA" => q[k].v = n

\* A response ends a data phase, or comes without one.
LEMMA PhaseAnswer ==
    ASSUME NEW n \in 0..MaxUnits, NEW d, NEW v \in {n, Refused},
           (d = <<>> /\ v \in {0, Refused}) \/ d \in DataPhases(n),
           NEW q, q = d \o <<Item("RESP", v)>>
    PROVE  Answers(n, q)
<1> DEFINE x == Item("RESP", v)
<1>0. MaxUnits \in Nat
  BY Constants
<1>1. x \in Items /\ x.type = "RESP" /\ x.v = v
  BY <1>0 DEF Items, Item, Headers, Refused
<1>2. PICK idle \in Positions : idle.n = -1
  <2>1. [n |-> -1, at |-> 0, left |-> 0, end |-> FALSE, fresh |-> FALSE] \in Positions
    BY <1>0 DEF Positions
  <2> QED
    BY <2>1
<1> HIDE DEF x
<1>3. \A s \in Positions : s.n = -1 => \E t \in Positions :
          Phase(n, d, s, t) /\ ((t.n = -1 /\ v \in {0, Refused}) \/ (t.n = n /\ t.left = 0 /\ t.end))
  <2> SUFFICES ASSUME NEW s \in Positions, s.n = -1
               PROVE  \E t \in Positions : Phase(n, d, s, t)
                         /\ ((t.n = -1 /\ v \in {0, Refused}) \/ (t.n = n /\ t.left = 0 /\ t.end))
    OBVIOUS
  <2>1. CASE d = <<>> /\ v \in {0, Refused}
    BY <2>1, PhaseNone
  <2>2. CASE d \in DataPhases(n)
    BY <2>2, DataPhase
  <2> QED
    BY <2>1, <2>2
<1>4. d \in Seq(Items) /\ \A k \in 1..Len(d) : d[k].type \notin {"RESP", "rest"} /\ (d[k].type = "START_DATA" => d[k].v = n)
  BY <1>2, <1>3 DEF Phase
<1>5a. q = d \o <<x>>
  BY DEF x
<1>5. q \in Seq(Items) /\ Len(q) = Len(d) + 1 /\ q[Len(d) + 1] = x /\ \A k \in 1..Len(d) : q[k] = d[k]
  BY <1>1, <1>4, <1>5a
<1>6. ASSUME NEW s \in Positions, s.n = -1 PROVE \E t \in Positions : t.n = -1 /\ Runs(q, s, t)
  <2>1. PICK u \in Positions : Phase(n, d, s, u) /\ ((u.n = -1 /\ v \in {0, Refused}) \/ (u.n = n /\ u.left = 0 /\ u.end))
    BY <1>3, <1>6
  <2>2. Reads(u, x, idle)
    BY <1>1, <1>2, <2>1 DEF Reads, Refused
  <2>3. Runs(<<x>>, u, idle)
    BY <2>2, RunOne
  <2>4. Runs(d, s, u) /\ <<x>> \in Seq(Items)
    BY <1>1, <2>1 DEF Phase
  <2>5. Runs(d \o <<x>>, s, idle)
    BY <1>4, <2>3, <2>4, RunJoin
  <2> QED
    BY <1>2, <1>5a, <2>5
<1>7. ASSUME NEW k \in 1..Len(q)
      PROVE  /\ q[k].type # "rest" /\ (k < Len(q) => q[k].type # "RESP")
             /\ q[k].type = "START_DATA" => q[k].v = n
  <2>1. CASE k = Len(d) + 1
    BY <1>1, <1>5, <2>1
  <2>2. CASE k # Len(d) + 1
    <3>1. k \in 1..Len(d)
      BY <1>4, <1>5, <2>2
    <3> QED
      BY <1>4, <1>5, <3>1
  <2> QED
    BY <2>1, <2>2
<1>8. q # <<>>
  BY <1>4, <1>5
<1> QED
  BY <1>5, <1>6, <1>7, <1>8 DEF Answers

\* What the camera appends takes the reader through an answer, which is the
\* transaction's own if the request was.
LEMMA Answer ==
    ASSUME TypeInv, CamAnswer
    PROVE  \E q \in Seq(Items) :
              /\ inq' = inq \o q /\ q # <<>> /\ outq' = Tail(outq) /\ outq # <<>> /\ link = "up"
              /\ \A s \in Positions : s.n = -1 => \E t \in Positions : t.n = -1 /\ Runs(q, s, t)
              /\ \A k \in 1..Len(q) : /\ q[k].type # "rest" /\ (k < Len(q) => q[k].type # "RESP")
                                      /\ q[k].mine => Head(outq).mine
                                      /\ q[k].type = "START_DATA" /\ Head(outq).want > 0 => q[k].v = Head(outq).want
<1> DEFINE r == Head(outq)
           Mark(q) == IF r.mine THEN q ELSE Foreign(q)
<1>1. outq # <<>> /\ outq' = Tail(outq) /\ link = "up"
  BY DEF CamAnswer
<1>2. r \in Requests
  BY <1>1 DEF TypeInv, Queues
<1>3. \A n \in Lengths(r) : n \in 0..MaxUnits /\ (Shape[r.op] \notin Data => n = 0) /\ (Shape[r.op] \in Data /\ r.want > 0 => n = r.want)
  BY <1>2, Constants DEF Lengths, Data, Requests
<1>4. \E ok \in BOOLEAN, n \in Lengths(r) :
         \/ \E d \in (IF Shape[r.op] \in {"get", "file"} THEN DataPhases(n) ELSE {<<>>}) :
               inq' = inq \o Mark(d \o <<Item("RESP", IF ok THEN n ELSE Refused)>>)
         \/ ~ok /\ inq' = inq \o Mark(<<Item("RESP", Refused)>>)
  BY DEF CamAnswer
<1>5. PICK n \in Lengths(r) : \E ok \in BOOLEAN :
         \/ \E d \in (IF Shape[r.op] \in {"get", "file"} THEN DataPhases(n) ELSE {<<>>}) :
               inq' = inq \o Mark(d \o <<Item("RESP", IF ok THEN n ELSE Refused)>>)
         \/ ~ok /\ inq' = inq \o Mark(<<Item("RESP", Refused)>>)
  BY <1>4
<1>6. n \in 0..MaxUnits /\ (Shape[r.op] \notin Data => n = 0) /\ (Shape[r.op] \in Data /\ r.want > 0 => n = r.want)
  BY <1>3
<1>7. \E d : \E v \in {n, Refused} :
         /\ (d = <<>> /\ v \in {0, Refused}) \/ (Shape[r.op] \in Data /\ d \in DataPhases(n))
         /\ inq' = inq \o Mark(d \o <<Item("RESP", v)>>)
  <2>1. <<>> \o <<Item("RESP", Refused)>> = <<Item("RESP", Refused)>>
    OBVIOUS
  <2> HIDE DEF Mark, r
  <2>2. PICK ok \in BOOLEAN :
         \/ \E d \in (IF Shape[r.op] \in {"get", "file"} THEN DataPhases(n) ELSE {<<>>}) :
               inq' = inq \o Mark(d \o <<Item("RESP", IF ok THEN n ELSE Refused)>>)
         \/ ~ok /\ inq' = inq \o Mark(<<Item("RESP", Refused)>>)
    BY <1>5
  <2>3. CASE inq' = inq \o Mark(<<Item("RESP", Refused)>>)
    BY <2>1, <2>3
  <2>4. CASE \E d \in (IF Shape[r.op] \in {"get", "file"} THEN DataPhases(n) ELSE {<<>>}) :
               inq' = inq \o Mark(d \o <<Item("RESP", IF ok THEN n ELSE Refused)>>)
    <3>1. PICK d \in (IF Shape[r.op] \in {"get", "file"} THEN DataPhases(n) ELSE {<<>>}) :
               inq' = inq \o Mark(d \o <<Item("RESP", IF ok THEN n ELSE Refused)>>)
      BY <2>4
    <3>2. (IF ok THEN n ELSE Refused) \in {n, Refused}
      OBVIOUS
    <3>3. Shape[r.op] \notin Data => d = <<>> /\ n = 0
      BY <1>6 DEF Data
    <3>4. Shape[r.op] \in Data => d \in DataPhases(n)
      BY DEF Data
    <3> QED
      BY <3>1, <3>2, <3>3, <3>4
  <2> QED
    BY <2>2, <2>3, <2>4
<1>8a. PICK d : \E v \in {n, Refused} :
         /\ (d = <<>> /\ v \in {0, Refused}) \/ (Shape[r.op] \in Data /\ d \in DataPhases(n))
         /\ inq' = inq \o Mark(d \o <<Item("RESP", v)>>)
  BY <1>7
<1>8. PICK v \in {n, Refused} :
         /\ (d = <<>> /\ v \in {0, Refused}) \/ (Shape[r.op] \in Data /\ d \in DataPhases(n))
         /\ inq' = inq \o Mark(d \o <<Item("RESP", v)>>)
  BY <1>8a
<1> DEFINE p == d \o <<Item("RESP", v)>>
<1>9a. Answers(n, p)
  <2>1. (d = <<>> /\ v \in {0, Refused}) \/ d \in DataPhases(n)
    BY <1>8
  <2>2. n \in 0..MaxUnits /\ v \in {n, Refused}
    BY <1>6, <1>8
  <2>3. p = d \o <<Item("RESP", v)>>
    OBVIOUS
  <2> HIDE DEF r, Mark, p
  <2> QED
    BY <2>1, <2>2, <2>3, PhaseAnswer
<1>9. /\ p \in Seq(Items) /\ p # <<>>
      /\ \A s \in Positions : s.n = -1 => \E t \in Positions : t.n = -1 /\ Runs(p, s, t)
      /\ \A k \in 1..Len(p) : /\ p[k].type # "rest" /\ (k < Len(p) => p[k].type # "RESP")
                              /\ p[k].type = "START_DATA" => p[k].v = n
  <2> HIDE DEF p
  <2> QED
    BY <1>9a DEF Answers
<1>10. ASSUME Shape[r.op] \notin Data, NEW k \in 1..Len(p) PROVE p[k].type # "START_DATA"
  <2>1. d = <<>>
    BY <1>8, <1>10
  <2>2. p = <<Item("RESP", v)>>
    BY <2>1
  <2> HIDE DEF p
  <2> QED
    BY <2>2 DEF Item
<1> HIDE DEF p
<1>11. CASE r.mine
  <2>1. inq' = inq \o p
    BY <1>8, <1>11 DEF p
  <2>2. \A k \in 1..Len(p) : p[k].type = "START_DATA" /\ r.want > 0 => p[k].v = r.want
    BY <1>6, <1>9, <1>10
  <2> HIDE DEF r
  <2> QED
    BY <1>1, <1>9, <1>11, <2>1, <2>2 DEF r
<1>12. CASE ~r.mine
  <2>1. inq' = inq \o Foreign(p)
    BY <1>8, <1>12 DEF p
  <2>2. /\ Foreign(p) \in Seq(Items) /\ Len(Foreign(p)) = Len(p)
        /\ \A k \in 1..Len(p) : /\ Foreign(p)[k].type = p[k].type /\ Foreign(p)[k].v = p[k].v
                                /\ ~Foreign(p)[k].mine
    BY <1>9, ForeignItems
  <2>3. Foreign(p) # <<>>
    BY <1>9, <2>2
  <2>4. \A s \in Positions : s.n = -1 => \E t \in Positions : t.n = -1 /\ Runs(Foreign(p), s, t)
    BY <1>9, <2>2, RunSame
  <2>5. \A k \in 1..Len(p) : p[k].type = "START_DATA" /\ r.want > 0 => p[k].v = r.want
    BY <1>6, <1>9, <1>10
  <2>6. PICK f \in Seq(Items) : f = Foreign(p)
    BY <2>2
  <2> HIDE DEF r
  <2>7. \A k \in 1..Len(f) : /\ f[k].type # "rest" /\ (k < Len(f) => f[k].type # "RESP") /\ (f[k].mine => r.mine)
                             /\ f[k].type = "START_DATA" /\ r.want > 0 => f[k].v = r.want
    BY <1>9, <2>2, <2>5, <2>6
  <2> QED
    BY <1>1, <2>1, <2>3, <2>4, <2>6, <2>7 DEF r
<1> QED
  BY <1>11, <1>12

-----------------------------------------------------------------------------
\* Types.

\* What IInv says, for steps that do not expand it.
LEMMA Parts ==
    ASSUME IInv
    PROVE  /\ TypeInv /\ StreamInv /\ RestInv /\ TxInv /\ GdInv /\ DoneInv /\ MineInv /\ CallInv
           /\ ConnInv /\ SyncInv /\ HandInv
           /\ Flags /\ Places /\ Numbers /\ Locals /\ Queues /\ Calls
  BY DEF IInv, TypeInv

\* The first item of the stream, and what comes after it.
LEMMA Heads ==
    ASSUME Queues, inq # <<>>
    PROVE  /\ Head(inq) \in Items /\ Head(inq) = inq[1] /\ Tail(inq) \in Seq(Items)
           /\ Len(inq) \in Nat /\ 1 \in 1..Len(inq) /\ Len(Tail(inq)) = Len(inq) - 1
           /\ \A k \in 1..Len(Tail(inq)) : Tail(inq)[k] = inq[k + 1] /\ k + 1 \in 1..Len(inq)
  BY DEF Queues

\* No step makes a flag other than a Boolean, or leaves the known places.
LEMMA FlagsStep ==
    ASSUME TypeInv, Next PROVE Flags'
<1>1. Flags /\ Queues
  BY DEF TypeInv
<1>2. CASE SendReq
  BY <1>1, <1>2, TransactionKeeps DEF SendReq, Flags, Transaction, InSync
<1>3. CASE Transaction /\ ~SendReq
  <2>1. synced' = synced /\ UNCHANGED <<connected, cmd_sock, event_sock, ai, id, session>>
    BY <1>3, TransactionKeeps DEF Transaction, SendData, ReadFail, ReadGarbage, GetStart, GetPacket, GetUnit, FinalFlush, GetEnd, GetResp, Accept
  <2>2. own' = own \/ own' = FALSE \/ (inq # <<>> /\ own' = (own /\ Head(inq).mine))
    BY <1>3 DEF Transaction, SendData, ReadFail, ReadGarbage, GetStart, GetPacket, GetUnit, FinalFlush, GetEnd, GetResp, Accept, Read
  <2>3. own' \in BOOLEAN
    <3>1. inq # <<>> => Head(inq).mine \in BOOLEAN
      BY <1>1, Heads DEF Items
    <3> QED
      BY <1>1, <2>2, <3>1 DEF Flags
  <2> QED
    BY <1>1, <2>1, <2>3 DEF Flags
<1>4. CASE CamAnswer
  <2>1. session' \in BOOLEAN
    BY <1>1, <1>4 DEF CamAnswer, Flags
  <2> QED
    BY <1>1, <1>4, <2>1, CameraKeeps DEF Flags
<1>5. CASE CamGone
  BY <1>1, <1>5, CameraKeeps DEF CamGone, Flags
<1>6. CASE Procedure \/ Connect \/ CloseCamera
  <2>1. CASE InitAck \/ InitEvent \/ SessionOpened
    BY <1>1, <2>1 DEF InitAck, InitEvent, EventSocket, SessionOpened, Begin, Flags, sockets, trans, wire
  <2>2. CASE Opened \/ OpenFailed \/ CloseSockets
    BY <1>1, <2>2 DEF Opened, OpenFailed, CloseSockets, Forget, Flags, sockets, wire
  <2>3. CASE Connect \/ CloseCamera
    BY <1>1, <2>3 DEF Connect, CloseCamera, Begin, Flags, sockets, trans, wire
  <2> QED
    BY <1>6, <2>1, <2>2, <2>3 DEF Procedure
<1>7. CASE Call \/ NextTransaction \/ CallReturn
  BY <1>1, <1>7 DEF Call, NextTransaction, CallReturn, Begin, Forget, Flags, sockets, wire
<1> QED
  BY <1>2, <1>3, <1>4, <1>5, <1>6, <1>7 DEF Next, IpStep

\* Each step leads to a known place, within the bound on faults.
LEMMA PlacesStep ==
    ASSUME TypeInv, Next PROVE Places'
<1>1. Places /\ MaxFaults \in Nat
  BY Constants DEF TypeInv
<1>2. faults' \in 0..MaxFaults
  <2>1. faults' = faults \/ Fault \/ faults' = 0
    BY DEF Next, IpStep, Transaction, SendReq, SendData, ReadFail, ReadGarbage, GetStart, GetPacket, GetUnit, FinalFlush, GetEnd,
       GetResp, CamAnswer, CamGone, Procedure, InitAck, InitEvent, SessionOpened, Opened, OpenFailed, CloseSockets, Connect,
       CloseCamera, Call, NextTransaction, CallReturn, Stay
  <2> QED
    BY <1>1, <2>1 DEF Places, Fault
<1>3. CASE Transaction
  <2>1. UNCHANGED <<proc, link>>
    BY <1>3, TransactionKeeps
  <2>2. /\ tx' \in {"none", "sendreq", "senddata", "start", "packet", "payload", "flush", "end", "resp"}
        /\ rc' = rc \/ rc' \in {"OK", "code", "io", "badparam", "nomem", "handler", "data_expected", "resp_expected"}
    <3>1. CASE SendReq     BY <1>1, <3>1 DEF SendReq, Return, Places
    <3>2. CASE SendData    BY <1>1, <3>2 DEF SendData, Return, Places
    <3>3. CASE ReadFail    BY <1>1, <3>3 DEF ReadFail, Return, Places
    <3>4. CASE ReadGarbage BY <1>1, <3>4 DEF ReadGarbage, Return, Places
    <3>5. CASE GetStart    BY <1>1, <3>5 DEF GetStart, Return, Places
    <3>6. CASE GetPacket   BY <1>1, <3>6 DEF GetPacket, Return, LoopEnd, Places
    <3>7. CASE GetUnit     BY <1>1, <3>7 DEF GetUnit, Return, LoopEnd, Places
    <3>8. CASE FinalFlush  BY <1>1, <3>8 DEF FinalFlush, Return, LoopEnd, Places
    <3>9. CASE GetEnd      BY <1>1, <3>9 DEF GetEnd, Return, Places
    <3>10. CASE GetResp    BY <1>1, <3>10 DEF GetResp, Return, Places
    <3> QED BY <1>3, <3>1, <3>2, <3>3, <3>4, <3>5, <3>6, <3>7, <3>8, <3>9, <3>10 DEF Transaction
  <2> QED
    BY <1>1, <1>2, <2>1, <2>2 DEF Places
<1>4. CASE CamAnswer \/ CamGone
  BY <1>1, <1>2, <1>4, CameraKeeps DEF CamAnswer, CamGone, Places
<1>5. CASE Procedure \/ Connect \/ CloseCamera
  BY <1>1, <1>2, <1>5 DEF Procedure, InitAck, InitEvent, SessionOpened, Opened, OpenFailed, CloseSockets, Connect, CloseCamera,
     Begin, Forget, Places, sockets, trans, wire
<1>6. CASE Call \/ NextTransaction \/ CallReturn
  BY <1>1, <1>2, <1>6 DEF Call, NextTransaction, CallReturn, Begin, Forget, Places, sockets, wire
<1> QED
  BY <1>3, <1>4, <1>5, <1>6 DEF Next, IpStep

\* A method: its transactions and where its length comes from.
LEMMA MethodsKnown ==
    ASSUME NEW m \in Methods
    PROVE  /\ Len(m.ops) \in 1..2 /\ m.ops[1] \in {"nodata", "send", "get"}
           /\ Len(m.ops) = 2 => m.ops[1] = "send" /\ m.ops[2] = "file" /\ m.len = "data"
           /\ m.len \in {"arg", "resp"} => m.ops[1] = "get"
  BY DEF Methods, Method, chdk_camera_api_version, chdk_capture_ready, chdk_upload, chdk_call_function,
     chdk_ptp_send_object, chdk_getmem, chdk_ptp_get_object, chdk_capture_get_chunk, chdk_get_live_data, chdk_download

\* The next transaction of a call is the second of a download.
LEMMA NextOne ==
    ASSUME CallInv, Calls, NextTransaction
    PROVE  step = 1 /\ step' = 2 /\ Len(call.ops) = 2 /\ call \in Methods /\ call.len = "data"
           /\ op' = "file" /\ call.ops[step'] = "file" /\ want' = 0
<1>1. call \in Methods /\ step \in 1..Len(call.ops) /\ step < Len(call.ops) /\ step' = step + 1 /\ op' = call.ops[step + 1] /\ want' = 0
  BY DEF CallInv, NextTransaction, Begin
<1>2. Len(call.ops) \in 1..2
  BY <1>1, MethodsKnown
<1>3. step = 1 /\ Len(call.ops) = 2 /\ step + 1 = 2
  BY <1>1, <1>2
<1> QED
  BY <1>1, <1>3, MethodsKnown

\* The operation and the lengths stay of their types, and so does the call.
LEMMA NumbersStep ==
    ASSUME IInv, Next PROVE Numbers' /\ Calls'
<1>1. Numbers /\ Calls /\ Queues /\ Places /\ CallInv
  BY Parts
<1>2. CASE Transaction /\ UNCHANGED <<call, step>>
  <2>1. op' = op /\ want' = want
    BY <1>2, TransactionKeeps
  <2>2. param' = param \/ param' = 0 \/ (inq # <<>> /\ Head(inq).v # Refused /\ param' = Head(inq).v)
    BY <1>2 DEF Transaction, SendReq, SendData, ReadFail, ReadGarbage, GetStart, GetPacket, GetUnit, FinalFlush, GetEnd, GetResp, Read
  <2>3. inq # <<>> /\ Head(inq).v # Refused => Head(inq).v \in 0..MaxUnits
    <3> SUFFICES ASSUME inq # <<>>, Head(inq).v # Refused PROVE Head(inq).v \in 0..MaxUnits
      OBVIOUS
    <3>1. Head(inq).v \in -1..MaxUnits
      BY <1>1, Heads DEF Items
    <3> QED
      BY <3>1, Constants DEF Refused
  <2> QED
    BY <1>1, <1>2, <2>1, <2>2, <2>3, Constants DEF Numbers, Calls
<1>3. CASE (CamAnswer \/ CamGone) /\ UNCHANGED <<call, step>>
  BY <1>1, <1>3, CameraKeeps DEF Numbers, Calls
<1>4. CASE (Procedure \/ Connect \/ CloseCamera) /\ UNCHANGED <<call, step>>
  <2>1. \/ op' = op /\ want' = want /\ param' = param
        \/ op' \in {"Open", "DevInfo", "Close"} /\ want' = 0 /\ param' = 0
    <3>1. CASE InitAck \/ InitEvent \/ SessionOpened
      BY <3>1 DEF InitAck, InitEvent, SessionOpened, Begin, trans
    <3>2. CASE Opened \/ OpenFailed \/ CloseSockets
      BY <3>2 DEF Opened, OpenFailed, CloseSockets, Forget
    <3>3. CASE Connect \/ CloseCamera
      BY <3>3 DEF Connect, CloseCamera, Begin, trans
    <3> QED
      BY <1>4, <3>1, <3>2, <3>3 DEF Procedure
  <2> QED
    BY <1>1, <1>4, <2>1, Constants DEF Numbers, Calls
<1>5. CASE Call
  <2>1. PICK m \in Methods, n \in 1..MaxUnits : call' = m /\ step' = 1 /\ op' = m.ops[1]
                                              /\ want' = (IF m.len = "arg" THEN n ELSE 0) /\ param' = 0
    BY <1>5 DEF Call, Begin
  <2>2. op' \in DOMAIN Shape
    BY <2>1, MethodsKnown, Constants
  <2> QED
    BY <1>1, <2>1, <2>2, Constants DEF Numbers, Calls
<1>6. CASE NextTransaction
  <2>1. op' = "file" /\ want' = 0 /\ step' = 2 /\ call' = call /\ param' = 0
    BY <1>1, <1>6, NextOne DEF NextTransaction, Begin
  <2> QED
    BY <1>1, <2>1, Constants DEF Numbers, Calls
<1>7. CASE CallReturn
  BY <1>1, <1>7, Constants DEF CallReturn, Forget, Numbers, Calls
<1> QED
  BY <1>2, <1>3, <1>4, <1>5, <1>6, <1>7 DEF Next, IpStep

\* What a read leaves of the stream, when it takes its first item or damages the
\* second.
LEMMA Damage ==
    ASSUME Queues, Len(inq) > 1, NEW q, q = [Tail(inq) EXCEPT ![1].type = "rest"]
    PROVE  /\ q \in Seq(Items) /\ Len(q) = Len(Tail(inq)) /\ q[1].type = "rest"
           /\ \A k \in 2..Len(Tail(inq)) : q[k] = Tail(inq)[k]
<1>1. inq # <<>>
  BY DEF Queues
<1>2. Tail(inq) \in Seq(Items) /\ Len(Tail(inq)) \in Nat /\ Len(Tail(inq)) >= 1
  BY <1>1, Heads
<1>3. PICK p \in Seq(Items) : p = Tail(inq)
  BY <1>2
<1>4. p[1] \in Items /\ 1 \in 1..Len(p)
  BY <1>2, <1>3
<1> DEFINE x == [p[1] EXCEPT !.type = "rest"]
<1>5. x \in Items /\ x.type = "rest"
  BY <1>4 DEF Items
<1>6. q = [p EXCEPT ![1] = x]
  BY <1>3
<1> HIDE DEF x
<1>7. q \in Seq(Items) /\ Len(q) = Len(p)
  <2>1. p \in Seq(Items) /\ 1 \in 1..Len(p)
    BY <1>3, <1>4
  <2>2. [p EXCEPT ![1] = x] \in Seq(Items)
    BY <1>5, <2>1
  <2>3. Len([p EXCEPT ![1] = x]) = Len(p)
    BY <2>1
  <2> QED
    BY <1>6, <2>2, <2>3
<1>8. q[1] = x /\ \A k \in 2..Len(p) : q[k] = p[k]
  BY <1>4, <1>6
<1> QED
  BY <1>3, <1>5, <1>7, <1>8

\* The items after a step are those of before, all or a part, from the front or
\* the back, or one of a new connection.
LEMMA InqSteps ==
    ASSUME TypeInv, Next
    PROVE  \/ UNCHANGED inq
           \/ SendReq /\ inq' = Foreign(inq)
           \/ Transaction /\ inq # <<>> /\ inq' = Tail(inq)
           \/ ReadGarbage /\ tx' = "none" /\ Len(inq) > 1 /\ inq' = [Tail(inq) EXCEPT ![1].type = "rest"]
           \/ CamAnswer
           \/ (CamGone \/ CloseSockets) /\ link' # "up" /\ \E i \in 0..Len(inq) : inq' = SubSeq(inq, 1, i)
           \/ Connect /\ inq' = <<>>
           \/ InitAck /\ inq' = <<Item("rest", 0)>>
<1>1. CASE Transaction /\ ~SendReq
  BY <1>1 DEF Transaction, SendData, ReadFail, ReadGarbage, GetStart, GetPacket, GetUnit, FinalFlush, GetEnd, GetResp, Read, Return
<1>2. CASE SendReq
  BY <1>2 DEF SendReq
<1>3. CASE CamAnswer \/ CamGone
  BY <1>3 DEF CamGone
<1>4. CASE Procedure \/ Connect \/ CloseCamera
  BY <1>4 DEF Procedure, InitAck, InitEvent, SessionOpened, Opened, OpenFailed, CloseSockets, Connect, CloseCamera, wire
<1>5. CASE Call \/ NextTransaction \/ CallReturn
  BY <1>5 DEF Call, NextTransaction, CallReturn, wire
<1> QED
  BY <1>1, <1>2, <1>3, <1>4, <1>5 DEF Next, IpStep

\* The requests after a step.
LEMMA OutqSteps ==
    ASSUME TypeInv, Next
    PROVE  \/ UNCHANGED outq
           \/ SendReq /\ outq' = Foreign(outq)
           \/ SendReq /\ link = "up" /\ tx' # "none"
              /\ outq' = Append(Foreign(outq), [op |-> op, want |-> want, data |-> FALSE, mine |-> TRUE])
           \/ SendData /\ outq # <<>> /\ outq' = [outq EXCEPT ![Len(outq)].data = TRUE]
           \/ CamAnswer /\ outq # <<>> /\ outq' = Tail(outq)
           \/ outq' = <<>> /\ ~Transaction
<1>0. tx \in {"none", "sendreq", "senddata", "start", "packet", "payload", "flush", "end", "resp"}
  BY DEF TypeInv, Places
<1>1. CASE Transaction /\ ~SendReq
  BY <1>1 DEF Transaction, SendData, ReadFail, ReadGarbage, GetStart, GetPacket, GetUnit, FinalFlush, GetEnd, GetResp, Accept
<1>2. CASE SendReq
  <2>1. link # "up" => outq' \in {outq, Foreign(outq)}
    BY <1>2 DEF SendReq, Return
  <2>2. link = "up" => outq' = Append(Foreign(outq), [op |-> op, want |-> want, data |-> FALSE, mine |-> TRUE])
                       /\ tx' \in {"senddata", "start", "resp"}
    BY <1>2 DEF SendReq, Return
  <2> QED
    BY <1>2, <2>1, <2>2
<1>3. CASE CamAnswer
  BY <1>3 DEF CamAnswer
<1>4. CASE ~Transaction /\ (CamGone \/ Procedure \/ Connect \/ CloseCamera)
  BY <1>4 DEF CamGone, Procedure, InitAck, InitEvent, SessionOpened, Opened, OpenFailed, CloseSockets, Connect, CloseCamera, wire
<1>5. CASE Call \/ NextTransaction \/ CallReturn
  BY <1>5 DEF Call, NextTransaction, CallReturn, wire
<1> QED
  BY <1>1, <1>2, <1>3, <1>4, <1>5 DEF Next, IpStep

\* Items and requests on their way are well formed.
LEMMA QueuesStep ==
    ASSUME TypeInv, Next PROVE Queues'
<1>1. inq \in Seq(Items) /\ outq \in Seq(Requests) /\ Queues /\ op \in DOMAIN Shape /\ want \in 0..MaxUnits
  BY DEF TypeInv, Queues, Numbers
<1>2. inq' \in Seq(Items)
  <2>1. CASE SendReq /\ inq' = Foreign(inq)
    BY <1>1, <2>1, ForeignItems
  <2>2. CASE inq # <<>> /\ inq' = Tail(inq)
    BY <1>1, <2>2
  <2>3. CASE Len(inq) > 1 /\ inq' = [Tail(inq) EXCEPT ![1].type = "rest"]
    BY <1>1, <2>3, Damage
  <2>4. CASE CamAnswer
    <3>1. PICK q \in Seq(Items) : inq' = inq \o q
      BY <2>4, Answer
    <3> QED
      BY <1>1, <3>1
  <2>5. CASE \E i \in 0..Len(inq) : inq' = SubSeq(inq, 1, i)
    <3>1. PICK i \in 0..Len(inq) : inq' = SubSeq(inq, 1, i)
      BY <2>5
    <3> QED
      BY <1>1, <3>1
  <2>6. Item("rest", 0) \in Items
    BY Constants DEF Item, Items
  <2>7. inq' = <<Item("rest", 0)>> \/ inq' = <<>> \/ inq' = inq => inq' \in Seq(Items)
    <3>1. <<Item("rest", 0)>> \in Seq(Items) /\ <<>> \in Seq(Items)
      BY <2>6
    <3> QED
      BY <1>1, <3>1, Zenon
  <2> QED
    BY <2>1, <2>2, <2>3, <2>4, <2>5, <2>7, InqSteps
<1>3. outq' \in Seq(Requests)
  <2>1. Foreign(outq) \in Seq(Requests)
    BY <1>1, ForeignRequests
  <2>2. [op |-> op, want |-> want, data |-> FALSE, mine |-> TRUE] \in Requests
    BY <1>1 DEF Requests
  <2>3. Append(Foreign(outq), [op |-> op, want |-> want, data |-> FALSE, mine |-> TRUE]) \in Seq(Requests)
    BY <2>1, <2>2
  <2>4. outq # <<>> => [outq EXCEPT ![Len(outq)].data = TRUE] \in Seq(Requests)
    <3> SUFFICES ASSUME outq # <<>> PROVE [outq EXCEPT ![Len(outq)].data = TRUE] \in Seq(Requests)
      OBVIOUS
    <3>1. Len(outq) \in 1..Len(outq) /\ outq[Len(outq)] \in Requests
      BY <1>1
    <3>2. [outq[Len(outq)] EXCEPT !.data = TRUE] \in Requests
      BY <3>1 DEF Requests
    <3> QED
      BY <1>1, <3>1, <3>2
  <2>5. outq # <<>> => Tail(outq) \in Seq(Requests)
    BY <1>1
  <2>6. <<>> \in Seq(Requests)
    OBVIOUS
  <2> QED
    BY <1>1, <2>1, <2>3, <2>4, <2>5, <2>6, OutqSteps, Zenon
<1> QED
  BY <1>2, <1>3 DEF Queues

-----------------------------------------------------------------------------
\* The reads of a data phase.

\* The first item is what comes where the reader is.
LEMMA HeadReads ==
    ASSUME IInv, inq # <<>>
    PROVE  \E s \in Positions, u \in Positions, t \in Positions :
              /\ Reads(s, Head(inq), u) /\ Runs(Tail(inq), u, t) /\ (link = "up" => t.n = -1)
              /\ InData => AtGd(s) /\ Head(inq).type # "rest"
              /\ tx = "start" /\ synced => s.n = -1
<1>1. Queues /\ StreamInv /\ RestInv
  BY Parts
<1>2. inq \in Seq(Items) /\ Head(inq) = inq[1] /\ 1 \in 1..Len(inq)
  BY <1>1, Heads DEF Queues
<1>3. PICK s \in Positions, t \in Positions :
          /\ Runs(inq, s, t) /\ (link = "up" => t.n = -1)
          /\ (InData => AtGd(s)) /\ (tx = "start" /\ synced => s.n = -1)
  BY <1>1 DEF StreamInv
<1>4. PICK u \in Positions : Reads(s, Head(inq), u) /\ Runs(Tail(inq), u, t)
  BY <1>2, <1>3, RunHead
<1>5. InData => Head(inq).type # "rest"
  BY <1>1, <1>2 DEF RestInv
<1> QED
  BY <1>3, <1>4, <1>5

\* START_DATA is taken as it was sent, or the transaction ends.
LEMMA StartEffect ==
    ASSUME IInv, GetStart
    PROVE  /\ tx = "start" /\ inq # <<>> /\ inq' = Tail(inq) /\ own' = (own /\ Head(inq).mine)
           /\ synced' = synced /\ outq' = outq /\ param' = param
           /\ \/ /\ tx' = "none" /\ gd' = gd
                 /\ rc' = "nomem" \/ (rc' = "data_expected" /\ (synced => Head(inq).type = "RESP"))
              \/ /\ tx' = "packet" /\ rc' = rc /\ Head(inq).type = "START_DATA" /\ Head(inq).v \in 0..MaxUnits
                 /\ gd' = [NoData EXCEPT !.total = Head(inq).v]
<1>1. tx = "start" /\ inq # <<>> /\ inq' = Tail(inq) /\ own' = (own /\ Head(inq).mine)
      /\ synced' = synced /\ outq' = outq /\ param' = param /\ Head(inq).type \in Headers
  BY DEF GetStart, Read, Accept
<1>2. PICK s \in Positions, u \in Positions, t \in Positions :
          Reads(s, Head(inq), u) /\ (synced => s.n = -1)
  BY <1>1, HeadReads
<1>3. Head(inq) \in Items
  BY <1>1, Parts, Heads
<1>4. CASE Head(inq).type # "START_DATA"
  <2>1. tx' = "none" /\ rc' = "data_expected" /\ gd' = gd
    BY <1>4 DEF GetStart, Return
  <2>2. synced => Head(inq).type = "RESP"
    BY <1>1, <1>2, <1>4 DEF Reads, Headers
  <2> QED
    BY <1>1, <2>1, <2>2
<1>5. CASE Head(inq).type = "START_DATA"
  <2>1. Head(inq).v >= 0 /\ Head(inq).v \in -1..MaxUnits
    BY <1>2, <1>3, <1>5 DEF Reads, Items
  <2>2. Head(inq).v \in 0..MaxUnits
    BY <2>1, Constants
  <2>3. (tx' = "none" /\ rc' = "nomem" /\ gd' = gd)
        \/ (tx' = "packet" /\ rc' = rc /\ gd' = [NoData EXCEPT !.total = Head(inq).v])
    BY <1>5 DEF GetStart, Return
  <2> QED
    BY <1>1, <1>5, <2>2, <2>3
<1> QED
  BY <1>4, <1>5

\* In a data phase a packet follows where one is read, and fits into what is left.
LEMMA PacketEffect ==
    ASSUME IInv, GetPacket
    PROVE  /\ tx = "packet" /\ inq # <<>> /\ inq' = Tail(inq) /\ own' = (own /\ Head(inq).mine)
           /\ synced' = synced /\ outq' = outq /\ param' = param /\ rc' = rc
           /\ gd' = [gd EXCEPT !.pkt = Head(inq).v, !.end = (Head(inq).type = "END_DATA")]
           /\ Head(inq).type \in {"DATA", "END_DATA"} /\ Head(inq).v \in 0..MaxUnits
           /\ \/ tx' = "payload" /\ Head(inq).v > 0
              \/ /\ Head(inq).v = 0 /\ gd.read = gd.total /\ gd.block = <<>>
                 /\ tx' = (IF Head(inq).type = "END_DATA" THEN "resp" ELSE "end")
           /\ \E u \in Positions, t \in Positions :
                 /\ Runs(Tail(inq), u, t) /\ (link = "up" => t.n = -1)
                 /\ u.n = gd.total /\ u.at = gd.read /\ u.left = Head(inq).v
                 /\ (u.end <=> Head(inq).type = "END_DATA") /\ ~u.fresh
<1>1. tx = "packet" /\ inq # <<>> /\ inq' = Tail(inq) /\ own' = (own /\ Head(inq).mine)
      /\ synced' = synced /\ outq' = outq /\ param' = param /\ Head(inq).type \in Headers
  BY DEF GetPacket, Read, Accept
<1>2. PICK s \in Positions, u \in Positions, t \in Positions :
          Reads(s, Head(inq), u) /\ Runs(Tail(inq), u, t) /\ (link = "up" => t.n = -1) /\ AtGd(s) /\ Head(inq).type # "rest"
  BY <1>1, HeadReads DEF InData
<1>3. Locals /\ TxInv /\ GdInv
  BY Parts
<1>4. /\ gd.total \in 0..MaxUnits /\ gd.read \in 0..MaxUnits /\ gd.end \in BOOLEAN /\ gd.pkt = 0 /\ ~gd.end
      /\ (gd.read < gd.total \/ gd.total = 0) /\ gd.read <= gd.total
      /\ gd.block \in Seq(1..MaxUnits) /\ gd.out \in Seq(1..MaxUnits) /\ Len(gd.out) + Len(gd.block) = gd.read
  BY <1>1, <1>3 DEF Locals, TxInv, GdInv
<1>5. s.n = gd.total /\ s.at = gd.read /\ s.left = 0 /\ ~s.end /\ s.n >= 0
  BY <1>1, <1>2, <1>4, Constants DEF AtGd
<1>6. /\ Head(inq).type \in {"DATA", "END_DATA"}
      /\ (Head(inq).type = "DATA" /\ Head(inq).v = 0 => s.n = 0)
      /\ u.n = gd.total /\ u.at = gd.read /\ u.left = Head(inq).v
      /\ (u.end <=> Head(inq).type = "END_DATA") /\ ~u.fresh
  BY <1>1, <1>2, <1>4, <1>5, Constants DEF Reads, Headers
<1>7. Head(inq).v \in 0..MaxUnits /\ gd.read + Head(inq).v <= gd.total
      /\ (Head(inq).type = "END_DATA" => gd.read + Head(inq).v = gd.total)
  BY <1>4, <1>6, Constants DEF Positions
<1>8. gd' = [gd EXCEPT !.pkt = Head(inq).v, !.end = @ \/ Head(inq).type = "END_DATA"] /\ LoopEnd(gd') /\ rc' = rc
  BY <1>6 DEF GetPacket
<1>9. /\ gd'.pkt = Head(inq).v /\ gd'.total = gd.total /\ gd'.read = gd.read /\ gd'.block = gd.block
      /\ (gd'.end <=> Head(inq).type = "END_DATA")
      /\ gd' = [gd EXCEPT !.pkt = Head(inq).v, !.end = (Head(inq).type = "END_DATA")]
  <2>1. (gd.end \/ Head(inq).type = "END_DATA") = (Head(inq).type = "END_DATA")
    BY <1>4
  <2> HIDE DEF LoopEnd
  <2> QED
    BY <1>3, <1>8, <2>1 DEF Locals
<1>10. CASE Head(inq).v > 0
  <2>1. tx' = "payload"
    BY <1>8, <1>9, <1>10 DEF LoopEnd
  <2> QED
    BY <1>1, <1>2, <1>6, <1>7, <1>8, <1>9, <1>10, <2>1
<1>11. CASE Head(inq).v = 0
  <2>1. gd.read = gd.total
    BY <1>4, <1>5, <1>6, <1>7, <1>11, Constants
  <2>2. gd.block = <<>>
    <3>1. gd.total = 0
      BY <1>4, <2>1, Constants
    <3>2. Len(gd.block) \in Nat /\ Len(gd.out) \in Nat
      BY <1>4, LenProperties
    <3>3. Len(gd.out) + Len(gd.block) = 0
      BY <1>4, <2>1, <3>1
    <3>4. \A k, m \in Nat : m + k = 0 => k = 0
      OBVIOUS
    <3>5. Len(gd.block) = 0
      BY <3>2, <3>3, <3>4, Zenon
    <3> QED
      BY <1>4, <3>5, EmptySeq
  <2>3. tx' = (IF Head(inq).type = "END_DATA" THEN "resp" ELSE "end")
    BY <1>4, <1>8, <1>9, <1>11, <2>1, <2>2, Constants DEF LoopEnd
  <2> QED
    BY <1>1, <1>2, <1>6, <1>7, <1>8, <1>9, <1>11, <2>1, <2>2, <2>3
<1> QED
  BY <1>7, <1>10, <1>11

\* After the data of a transaction the block is empty, or flushed.
LEMMA LoopEndPlaces ==
    ASSUME NEW g, g.pkt \in Nat, g.read \in Nat, g.total \in Nat, LoopEnd(g)
    PROVE  /\ tx' = "payload" <=> g.pkt > 0
           /\ tx' = "packet" <=> g.pkt = 0 /\ g.read < g.total
           /\ tx' = "flush" <=> g.pkt = 0 /\ ~(g.read < g.total) /\ Shape[op] = "file" /\ g.block # <<>>
           /\ tx' = "resp" <=> g.pkt = 0 /\ ~(g.read < g.total) /\ ~(Shape[op] = "file" /\ g.block # <<>>) /\ g.end
           /\ tx' = "end" <=> g.pkt = 0 /\ ~(g.read < g.total) /\ ~(Shape[op] = "file" /\ g.block # <<>>) /\ ~g.end
           /\ tx' \in {"payload", "packet", "flush", "resp", "end"}
<1>1. CASE g.pkt > 0                     BY <1>1 DEF LoopEnd
<1>2. CASE g.pkt = 0 /\ g.read < g.total BY <1>2 DEF LoopEnd
<1>3. CASE g.pkt = 0 /\ ~(g.read < g.total) /\ Shape[op] = "file" /\ g.block # <<>>
  BY <1>3 DEF LoopEnd
<1>4. CASE g.pkt = 0 /\ ~(g.read < g.total) /\ ~(Shape[op] = "file" /\ g.block # <<>>)
  BY <1>4 DEF LoopEnd
<1>5. g.pkt > 0 \/ g.pkt = 0
  OBVIOUS
<1> QED
  BY <1>1, <1>2, <1>3, <1>4, <1>5

\* A sequence of numbers goes on with the next one.
LEMMA CountedMore ==
    ASSUME NEW q \in Seq(1..MaxUnits), NEW i \in Nat, Counted(q, i), NEW n \in 1..MaxUnits, n = i + Len(q) + 1
    PROVE  Append(q, n) \in Seq(1..MaxUnits) /\ Len(Append(q, n)) = Len(q) + 1 /\ Counted(Append(q, n), i)
<1>1. Append(q, n) \in Seq(1..MaxUnits) /\ Len(Append(q, n)) = Len(q) + 1 /\ Len(q) \in Nat
  OBVIOUS
<1>2. ASSUME NEW k \in 1..(Len(q) + 1) PROVE Append(q, n)[k] = i + k
  <2>1. CASE k = Len(q) + 1
    BY <1>1, <2>1
  <2>2. CASE k # Len(q) + 1
    <3>1. k \in 1..Len(q)
      BY <1>1, <2>2
    <3> QED
      BY <3>1 DEF Counted
  <2> QED
    BY <2>1, <2>2
<1> QED
  BY <1>1, <1>2 DEF Counted

\* Two sequences of numbers, the second going on where the first ends.
LEMMA CountedJoin ==
    ASSUME NEW p \in Seq(1..MaxUnits), NEW q \in Seq(1..MaxUnits), Counted(p, 0), Counted(q, Len(p))
    PROVE  p \o q \in Seq(1..MaxUnits) /\ Len(p \o q) = Len(p) + Len(q) /\ Counted(p \o q, 0)
<1>1. p \o q \in Seq(1..MaxUnits) /\ Len(p \o q) = Len(p) + Len(q) /\ Len(p) \in Nat /\ Len(q) \in Nat
  OBVIOUS
<1>2. ASSUME NEW k \in 1..(Len(p) + Len(q)) PROVE (p \o q)[k] = 0 + k
  <2>1. CASE k <= Len(p)
    BY <1>1, <2>1 DEF Counted
  <2>2. CASE k > Len(p)
    <3>1. k - Len(p) \in 1..Len(q) /\ (p \o q)[k] = q[k - Len(p)]
      BY <1>1, <2>2
    <3>2. q[k - Len(p)] = Len(p) + (k - Len(p))
      BY <3>1 DEF Counted
    <3> QED
      BY <1>1, <3>1, <3>2
  <2> QED
    BY <1>1, <2>1, <2>2
<1> QED
  BY <1>1, <1>2 DEF Counted

\* In a payload the next unit of the data follows.
LEMMA UnitRead ==
    ASSUME IInv, GetUnit
    PROVE  /\ Head(inq).v = gd.read + 1 /\ gd.read + 1 \in 1..MaxUnits
           /\ gd.pkt - 1 \in 0..MaxUnits /\ gd.read + 1 + (gd.pkt - 1) <= gd.total
           /\ (gd.end => gd.read + 1 + (gd.pkt - 1) = gd.total)
           /\ \E u \in Positions, t \in Positions :
                 /\ Runs(Tail(inq), u, t) /\ (link = "up" => t.n = -1)
                 /\ u.n = gd.total /\ u.at = gd.read + 1 /\ u.left = gd.pkt - 1 /\ (u.end <=> gd.end) /\ ~u.fresh
<1>1. tx = "payload" /\ inq # <<>>
  BY DEF GetUnit
<1>2. PICK s \in Positions, u \in Positions, t \in Positions :
          Reads(s, Head(inq), u) /\ Runs(Tail(inq), u, t) /\ (link = "up" => t.n = -1) /\ AtGd(s) /\ Head(inq).type # "rest"
  BY <1>1, HeadReads DEF InData
<1>3. /\ gd.total \in 0..MaxUnits /\ gd.read \in 0..MaxUnits /\ gd.pkt \in 0..MaxUnits /\ gd.pkt > 0
  BY <1>1, Parts DEF Locals, TxInv
<1>4. s.n = gd.total /\ s.at = gd.read /\ s.left = gd.pkt /\ (s.end <=> gd.end) /\ s.n >= 0
  BY <1>1, <1>2, <1>3, Constants DEF AtGd
<1>5. /\ Head(inq).type = "unit" /\ Head(inq).v = gd.read + 1
      /\ u.n = gd.total /\ u.at = gd.read + 1 /\ u.left = gd.pkt - 1 /\ (u.end <=> gd.end) /\ ~u.fresh
  BY <1>2, <1>3, <1>4, Constants DEF Reads
<1>6. gd.read + 1 + (gd.pkt - 1) <= gd.total /\ (gd.end => gd.read + 1 + (gd.pkt - 1) = gd.total)
  BY <1>3, <1>5, Constants DEF Positions
<1>7. gd.read + 1 \in 1..MaxUnits /\ gd.pkt - 1 \in 0..MaxUnits
  BY <1>3, <1>6, Constants
<1> QED
  BY <1>2, <1>5, <1>6, <1>7

\* The unit goes to memory, or to the block, which goes to the handler when it
\* is full; a handler that fails ends the transaction.
LEMMA UnitEffect ==
    ASSUME IInv, GetUnit
    PROVE  /\ tx = "payload" /\ inq # <<>> /\ inq' = Tail(inq) /\ own' = (own /\ Head(inq).mine)
           /\ synced' = synced /\ outq' = outq /\ param' = param
           /\ Locals' /\ gd'.total = gd.total /\ gd'.read = gd.read + 1 /\ gd'.pkt = gd.pkt - 1 /\ gd'.end = gd.end
           /\ Len(gd'.block) < BlockUnits /\ Counted(gd'.out, 0) /\ (Shape[op] # "file" => gd'.block = <<>>)
           /\ \/ tx' = "none" /\ rc' = "handler"
              \/ /\ rc' = rc /\ LoopEnd(gd') /\ Counted(gd'.block, Len(gd'.out))
                 /\ Len(gd'.out) + Len(gd'.block) = gd.read + 1
<1> DEFINE v == Head(inq).v
           block == Append(gd.block, v)
           g == [gd EXCEPT !.pkt = @ - 1, !.read = @ + 1]
           Full == Shape[op] = "file" /\ Len(block) = BlockUnits
<1>1. tx = "payload" /\ inq # <<>> /\ inq' = Tail(inq) /\ own' = (own /\ Head(inq).mine)
      /\ synced' = synced /\ outq' = outq /\ param' = param
  BY DEF GetUnit, Accept
<1>2. /\ gd \in [total : 0..MaxUnits, read : 0..MaxUnits, pkt : 0..MaxUnits, end : BOOLEAN,
                 block : Seq(1..MaxUnits), out : Seq(1..MaxUnits)]
      /\ Len(gd.block) < BlockUnits /\ Counted(gd.out, 0) /\ Counted(gd.block, Len(gd.out))
      /\ Len(gd.out) + Len(gd.block) = gd.read /\ (Shape[op] # "file" => gd.block = <<>>)
  BY <1>1, Parts DEF Locals, GdInv
<1>3. v = gd.read + 1 /\ v \in 1..MaxUnits /\ gd.pkt - 1 \in 0..MaxUnits /\ gd.read + 1 \in 0..MaxUnits
  BY UnitRead
<1>4. PICK out \in Seq(1..MaxUnits) : out = gd.out
  BY <1>2
<1>5. PICK old \in Seq(1..MaxUnits) : old = gd.block
  BY <1>2
<1>6. Len(out) \in Nat /\ Len(old) \in Nat /\ Len(out) + Len(old) = gd.read /\ gd.read \in Nat
  BY <1>2, <1>4, <1>5, LenProperties, Constants
<1>7. v = Len(out) + Len(old) + 1
  BY <1>3, <1>6
<1>8. \/ /\ gd' = CASE Shape[op] # "file" -> [g EXCEPT !.out = Append(@, v)]
                    [] Full               -> [g EXCEPT !.out = @ \o block, !.block = <<>>]
                    [] OTHER              -> [g EXCEPT !.block = block]
         /\ LoopEnd(gd') /\ rc' = rc
      \/ Full /\ tx' = "none" /\ rc' = "handler" /\ gd' = g
  BY DEF GetUnit, Return
<1> HIDE DEF v
<1>9. g.total = gd.total /\ g.read = gd.read + 1 /\ g.pkt = gd.pkt - 1 /\ g.end = gd.end /\ g.block = old /\ g.out = out
      /\ g \in [total : 0..MaxUnits, read : 0..MaxUnits, pkt : 0..MaxUnits, end : BOOLEAN,
                block : Seq(1..MaxUnits), out : Seq(1..MaxUnits)]
  BY <1>2, <1>3, <1>4, <1>5
<1> HIDE DEF g
<1>10. CASE Shape[op] # "file"
  <2>1. gd' = [g EXCEPT !.out = Append(@, v)] /\ LoopEnd(gd') /\ rc' = rc
    BY <1>8, <1>10
  <2>2. old = <<>> /\ Len(old) = 0
    BY <1>2, <1>5, <1>10
  <2>3. v = 0 + Len(out) + 1
    BY <1>6, <1>7, <2>2
  <2>4. Append(out, v) \in Seq(1..MaxUnits) /\ Len(Append(out, v)) = Len(out) + 1 /\ Counted(Append(out, v), 0)
    BY <1>2, <1>3, <1>4, <2>3, CountedMore
  <2>5. gd' = [g EXCEPT !.out = Append(out, v)]
    BY <1>9, <2>1
  <2>6. gd'.total = gd.total /\ gd'.read = gd.read + 1 /\ gd'.pkt = gd.pkt - 1 /\ gd'.end = gd.end /\ gd'.block = <<>>
        /\ gd'.out = Append(out, v) /\ Locals'
    BY <1>9, <2>2, <2>4, <2>5 DEF Locals
  <2>7. Counted(gd'.block, Len(gd'.out)) /\ Len(gd'.block) = 0
    BY <2>6 DEF Counted
  <2>8. Len(gd'.out) + Len(gd'.block) = gd.read + 1
    BY <1>3, <1>6, <2>2, <2>4, <2>6, <2>7
  <2>9. Len(gd'.block) < BlockUnits
    BY <2>7, Constants
  <2> QED
    BY <1>1, <2>1, <2>4, <2>6, <2>7, <2>8, <2>9
<1>11. CASE Shape[op] = "file"
  <2>1. Append(old, v) \in Seq(1..MaxUnits) /\ Len(Append(old, v)) = Len(old) + 1 /\ Counted(Append(old, v), Len(out))
    BY <1>2, <1>3, <1>4, <1>5, <1>6, <1>7, CountedMore
  <2>2. block = Append(old, v)
    BY <1>5
  <2>3. CASE Full /\ tx' = "none" /\ rc' = "handler" /\ gd' = g
    BY <1>1, <1>2, <1>4, <1>5, <1>9, <1>11, <2>3 DEF Locals
  <2>4. CASE Full /\ gd' = [g EXCEPT !.out = @ \o block, !.block = <<>>] /\ LoopEnd(gd') /\ rc' = rc
    <3>1. out \o block \in Seq(1..MaxUnits) /\ Len(out \o block) = Len(out) + Len(block) /\ Counted(out \o block, 0)
      BY <1>2, <1>4, <2>1, <2>2, CountedJoin
    <3> HIDE DEF block, Full
    <3>1a. gd' = [g EXCEPT !.out = out \o block, !.block = <<>>]
      BY <1>9, <2>4
    <3>1b. <<>> \in Seq(1..MaxUnits)
      OBVIOUS
    <3>2. gd'.total = gd.total /\ gd'.read = gd.read + 1 /\ gd'.pkt = gd.pkt - 1 /\ gd'.end = gd.end /\ gd'.block = <<>>
          /\ gd'.out = out \o block /\ Locals'
      BY <1>9, <3>1, <3>1a, <3>1b DEF Locals
    <3>3. Counted(gd'.block, Len(gd'.out)) /\ Len(gd'.block) = 0
      BY <3>2 DEF Counted
    <3>4. Len(gd'.out) + Len(gd'.block) = gd.read + 1
      BY <1>3, <1>6, <2>1, <2>2, <3>1, <3>2, <3>3
    <3>5. Len(gd'.block) < BlockUnits /\ Counted(gd'.out, 0)
      BY <3>1, <3>2, <3>3, Constants
    <3> QED
      BY <1>1, <1>11, <2>4, <3>2, <3>3, <3>4, <3>5
  <2>5. CASE ~Full /\ gd' = [g EXCEPT !.block = block] /\ LoopEnd(gd') /\ rc' = rc
    <3>1. Len(block) < BlockUnits
      <4>1. Len(block) # BlockUnits
        BY <1>11, <2>5
      <4> QED
        BY <1>2, <1>5, <1>6, <2>1, <2>2, <4>1, Constants
    <3>2. block \in Seq(1..MaxUnits) /\ Len(block) = Len(old) + 1 /\ Counted(block, Len(out))
      BY <2>1, <2>2
    <3> HIDE DEF block
    <3>3. gd'.total = gd.total /\ gd'.read = gd.read + 1 /\ gd'.pkt = gd.pkt - 1 /\ gd'.end = gd.end /\ gd'.block = block
          /\ gd'.out = out /\ Locals'
      BY <1>9, <2>5, <3>2 DEF Locals
    <3>4. Len(gd'.out) + Len(gd'.block) = gd.read + 1
      BY <1>3, <1>6, <3>2, <3>3
    <3> QED
      BY <1>1, <1>2, <1>4, <1>11, <2>5, <3>1, <3>2, <3>3, <3>4
  <2> QED
    BY <1>8, <1>11, <2>3, <2>4, <2>5
<1> QED
  BY <1>10, <1>11

\* The last block goes to the handler, or the transaction ends.
LEMMA FlushEffect ==
    ASSUME IInv, FinalFlush
    PROVE  /\ tx = "flush" /\ UNCHANGED <<own, synced, outq, inq, param>>
           /\ Locals' /\ gd'.total = gd.total /\ gd'.read = gd.total /\ gd'.read = gd.read /\ gd'.pkt = 0 /\ gd'.end = gd.end
           /\ Len(gd'.block) < BlockUnits /\ Counted(gd'.out, 0) /\ (Shape[op] # "file" => gd'.block = <<>>)
           /\ \/ tx' = "none" /\ rc' = "handler"
              \/ /\ rc' = rc /\ tx' = (IF gd.end THEN "resp" ELSE "end") /\ gd'.block = <<>>
                 /\ Counted(gd'.block, Len(gd'.out)) /\ Len(gd'.out) + Len(gd'.block) = gd.read
<1>1. tx = "flush" /\ UNCHANGED <<own, synced, outq, inq, param>>
  BY DEF FinalFlush
<1>2. /\ gd \in [total : 0..MaxUnits, read : 0..MaxUnits, pkt : 0..MaxUnits, end : BOOLEAN,
                 block : Seq(1..MaxUnits), out : Seq(1..MaxUnits)]
      /\ Len(gd.block) < BlockUnits /\ Counted(gd.out, 0) /\ Counted(gd.block, Len(gd.out))
      /\ Len(gd.out) + Len(gd.block) = gd.read /\ (Shape[op] # "file" => gd.block = <<>>)
      /\ gd.pkt = 0 /\ gd.read = gd.total
  BY <1>1, Parts DEF Locals, GdInv, TxInv
<1>3. PICK out \in Seq(1..MaxUnits) : out = gd.out
  BY <1>2
<1>4. PICK block \in Seq(1..MaxUnits) : block = gd.block
  BY <1>2
<1>5. CASE tx' = "none" /\ rc' = "handler" /\ gd' = gd
  BY <1>1, <1>2, <1>5 DEF Locals
<1>6. CASE gd' = [gd EXCEPT !.out = @ \o gd.block, !.block = <<>>] /\ LoopEnd(gd') /\ rc' = rc
  <2>1. out \o block \in Seq(1..MaxUnits) /\ Len(out \o block) = Len(out) + Len(block) /\ Counted(out \o block, 0)
    BY <1>2, <1>3, <1>4, CountedJoin
  <2>2. gd' = [gd EXCEPT !.out = out \o block, !.block = <<>>] /\ <<>> \in Seq(1..MaxUnits)
    BY <1>2, <1>3, <1>4, <1>6
  <2>3. gd'.total = gd.total /\ gd'.read = gd.read /\ gd'.pkt = gd.pkt /\ gd'.end = gd.end /\ gd'.block = <<>>
        /\ gd'.out = out \o block /\ Locals'
    BY <1>2, <2>1, <2>2 DEF Locals
  <2>4. Counted(gd'.block, Len(gd'.out)) /\ Len(gd'.block) = 0
    BY <2>3 DEF Counted
  <2>5. Len(gd'.out) + Len(gd'.block) = gd.read
    <3>1. Len(out) \in Nat /\ Len(block) \in Nat
      BY LenProperties
    <3>2. Len(out) + Len(block) = gd.read
      BY <1>2, <1>3, <1>4
    <3> QED
      BY <2>1, <2>3, <2>4, <3>1, <3>2
  <2>6. gd'.pkt \in Nat /\ gd'.read \in Nat /\ gd'.total \in Nat /\ gd'.pkt = 0 /\ ~(gd'.read < gd'.total)
    BY <1>2, <2>3, Constants
  <2>7. tx' = (IF gd.end THEN "resp" ELSE "end")
    BY <1>6, <2>3, <2>6, LoopEndPlaces
  <2>8. Len(gd'.block) < BlockUnits /\ Counted(gd'.out, 0)
    BY <2>1, <2>3, <2>4, Constants
  <2> QED
    BY <1>1, <1>2, <1>6, <2>3, <2>4, <2>5, <2>7, <2>8
<1> QED
  BY <1>5, <1>6 DEF FinalFlush, Return

\* After all the data without END_DATA, nothing but END_DATA comes.
LEMMA EndEffect ==
    ASSUME IInv, GetEnd
    PROVE  /\ tx = "end" /\ inq # <<>> /\ inq' = Tail(inq) /\ own' = (own /\ Head(inq).mine)
           /\ UNCHANGED <<synced, outq, gd, param, rc>> /\ tx' = "resp" /\ Head(inq).type = "END_DATA"
           /\ \E u \in Positions, t \in Positions :
                 /\ Runs(Tail(inq), u, t) /\ (link = "up" => t.n = -1)
                 /\ u.n = gd.total /\ u.at = gd.read /\ u.left = gd.pkt /\ u.end /\ ~u.fresh
<1>1. tx = "end" /\ inq # <<>> /\ inq' = Tail(inq) /\ own' = (own /\ Head(inq).mine)
      /\ UNCHANGED <<synced, outq, gd, param>> /\ Head(inq).type \in Headers
  BY DEF GetEnd, Read, Accept
<1>2. PICK s \in Positions, u \in Positions, t \in Positions :
          Reads(s, Head(inq), u) /\ Runs(Tail(inq), u, t) /\ (link = "up" => t.n = -1) /\ AtGd(s) /\ Head(inq).type # "rest"
  BY <1>1, HeadReads DEF InData
<1>3. /\ gd.total \in 0..MaxUnits /\ gd.read \in 0..MaxUnits /\ gd.pkt = 0 /\ ~gd.end /\ gd.read = gd.total
  BY <1>1, Parts DEF Locals, TxInv
<1>4. s.n = gd.total /\ s.at = gd.read /\ s.left = 0 /\ ~s.end /\ ~s.fresh /\ s.n >= 0
  BY <1>1, <1>2, <1>3, Constants DEF AtGd
<1>5. /\ Head(inq).type \in {"DATA", "END_DATA"} /\ (Head(inq).type = "DATA" => Head(inq).v # 0)
      /\ u.n = gd.total /\ u.at = gd.read /\ u.left = Head(inq).v
      /\ (u.end <=> Head(inq).type = "END_DATA") /\ ~u.fresh
  BY <1>1, <1>2, <1>3, <1>4, Constants DEF Reads, Headers
<1>6. u.at \in 0..MaxUnits /\ u.left \in 0..MaxUnits /\ u.at + u.left <= u.n
  BY <1>3, <1>5, Constants DEF Positions
<1>7. u.left = 0
  BY <1>3, <1>5, <1>6, Constants
<1>8. Head(inq).type = "END_DATA"
  BY <1>5, <1>7
<1>9. tx' = "resp" /\ rc' = rc
  BY <1>8 DEF GetEnd
<1> QED
  BY <1>1, <1>2, <1>3, <1>5, <1>7, <1>8, <1>9

\* After the data the response comes, with their length or an error.
LEMMA RespEffect ==
    ASSUME IInv, GetResp
    PROVE  /\ tx = "resp" /\ inq # <<>> /\ inq' = Tail(inq) /\ own' = (own /\ Head(inq).mine)
           /\ UNCHANGED <<synced, outq, gd>> /\ tx' = "none" /\ Head(inq).type \in Headers
           /\ rc' \in {"OK", "code"} => Head(inq).type = "RESP"
           /\ rc' \in {"OK", "code", "resp_expected"}
           /\ rc' = "OK" /\ Shape[op] \in Data => param' = gd.total /\ gd.read = gd.total /\ gd.block = <<>>
<1>1. tx = "resp" /\ inq # <<>> /\ inq' = Tail(inq) /\ own' = (own /\ Head(inq).mine)
      /\ UNCHANGED <<synced, outq, gd>> /\ Head(inq).type \in Headers
  BY DEF GetResp, Read, Accept
<1>2. /\ tx' = "none"
      /\ rc' = (IF Head(inq).type # "RESP" THEN "resp_expected" ELSE IF Head(inq).v = Refused THEN "code" ELSE "OK")
      /\ param' = (IF Head(inq).type = "RESP" /\ Head(inq).v # Refused THEN Head(inq).v ELSE 0)
  BY DEF GetResp, Return
<1>3. ASSUME rc' = "OK", Shape[op] \in Data
      PROVE  param' = gd.total /\ gd.read = gd.total /\ gd.block = <<>>
  <2>1. Head(inq).type = "RESP" /\ Head(inq).v # Refused /\ param' = Head(inq).v
    BY <1>2, <1>3
  <2>2. PICK s \in Positions, u \in Positions : Reads(s, Head(inq), u) /\ AtGd(s)
    BY <1>1, <1>3, HeadReads DEF InData
  <2>3. gd.total \in 0..MaxUnits /\ gd.read = gd.total /\ gd.block = <<>>
    BY <1>1, <1>3, Parts DEF Locals, TxInv
  <2>4. s.n = gd.total /\ s.n >= 0
    BY <2>2, <2>3, Constants DEF AtGd
  <2>5. Head(inq).v = s.n
    BY <2>1, <2>2, <2>4, Constants DEF Reads
  <2> QED
    BY <2>1, <2>3, <2>4, <2>5
<1> QED
  BY <1>1, <1>2, <1>3

-----------------------------------------------------------------------------
\* The stream under the steps.

\* The stream is a part of a sequence of answers, and only its first item damaged.
Leads(q, whole) == \E s \in Positions, t \in Positions : Runs(q, s, t) /\ (whole => t.n = -1)
RestFirst(q) == \A k \in 1..Len(q) : q[k].type = "rest" => k = 1

\* What is left when items are read, damaged, disowned, or lost.
LEMMA StreamParts ==
    ASSUME IInv
    PROVE  /\ Leads(inq, link = "up") /\ RestFirst(inq)
           /\ inq # <<>> => Leads(Tail(inq), link = "up") /\ \A k \in 1..Len(Tail(inq)) : Tail(inq)[k].type # "rest"
           /\ Leads(Foreign(inq), link = "up") /\ RestFirst(Foreign(inq))
           /\ \A i \in 0..Len(inq) : Leads(SubSeq(inq, 1, i), FALSE) /\ RestFirst(SubSeq(inq, 1, i))
           /\ \A q : Len(inq) > 1 /\ q = [Tail(inq) EXCEPT ![1].type = "rest"] => Leads(q, link = "up") /\ RestFirst(q)
<1>1. inq \in Seq(Items) /\ RestInv /\ StreamInv /\ Queues
  BY Parts DEF Queues
<1>2. PICK s \in Positions, t \in Positions : Runs(inq, s, t) /\ (link = "up" => t.n = -1)
  BY <1>1 DEF StreamInv
<1>3. Leads(inq, link = "up")
  BY <1>2 DEF Leads
<1>4. RestFirst(inq)
  BY <1>1 DEF RestFirst, RestInv
<1>5. ASSUME inq # <<>>
      PROVE  Leads(Tail(inq), link = "up") /\ \A k \in 1..Len(Tail(inq)) : Tail(inq)[k].type # "rest"
  <2>1. PICK u \in Positions, z \in Positions : Runs(Tail(inq), u, z) /\ (link = "up" => z.n = -1)
    BY <1>5, HeadReads
  <2>2. ASSUME NEW k \in 1..Len(Tail(inq)) PROVE Tail(inq)[k].type # "rest"
    <3>1. Tail(inq)[k] = inq[k + 1] /\ k + 1 \in 1..Len(inq) /\ k + 1 # 1
      BY <1>1, <1>5, Heads
    <3> QED
      BY <1>4, <3>1 DEF RestFirst
  <2> QED
    BY <2>1, <2>2 DEF Leads
<1>6. Leads(Foreign(inq), link = "up") /\ RestFirst(Foreign(inq))
  <2>1. Len(Foreign(inq)) = Len(inq) /\ \A k \in 1..Len(inq) : Foreign(inq)[k].type = inq[k].type /\ Foreign(inq)[k].v = inq[k].v
    BY <1>1, ForeignItems
  <2>2. Runs(Foreign(inq), s, t)
    BY <1>2, <2>1, RunSame
  <2>3. RestFirst(Foreign(inq))
    BY <1>4, <2>1 DEF RestFirst
  <2> QED
    BY <1>2, <2>2, <2>3 DEF Leads
<1>7. ASSUME NEW i \in 0..Len(inq) PROVE Leads(SubSeq(inq, 1, i), FALSE) /\ RestFirst(SubSeq(inq, 1, i))
  <2>1. PICK u \in Positions : Runs(SubSeq(inq, 1, i), s, u)
    BY <1>1, <1>2, RunPrefix
  <2>2. Len(SubSeq(inq, 1, i)) = i /\ \A k \in 1..i : SubSeq(inq, 1, i)[k] = inq[k] /\ k \in 1..Len(inq)
    BY <1>1
  <2>3. RestFirst(SubSeq(inq, 1, i))
    BY <1>4, <2>2 DEF RestFirst
  <2> QED
    BY <2>1, <2>3 DEF Leads
<1>8. ASSUME NEW q, Len(inq) > 1, q = [Tail(inq) EXCEPT ![1].type = "rest"] PROVE Leads(q, link = "up") /\ RestFirst(q)
  <2>1. inq # <<>>
    BY <1>1, <1>8
  <2>2. /\ q \in Seq(Items) /\ Len(q) = Len(Tail(inq)) /\ q[1].type = "rest"
        /\ \A k \in 2..Len(Tail(inq)) : q[k] = Tail(inq)[k]
    BY <1>1, <1>8, Damage
  <2>3. PICK u \in Positions, z \in Positions : Runs(Tail(inq), u, z) /\ (link = "up" => z.n = -1)
    BY <2>1, HeadReads
  <2>4. Tail(inq) \in Seq(Items) /\ Tail(inq) # <<>> /\ Len(Tail(inq)) \in Nat
    <3>1. Tail(inq) \in Seq(Items) /\ Len(Tail(inq)) = Len(inq) - 1 /\ Len(inq) \in Nat
      BY <1>1, <2>1, Heads
    <3>2. Len(Tail(inq)) # 0 /\ Len(Tail(inq)) \in Nat
      BY <1>8, <3>1
    <3> QED
      BY <3>1, <3>2, EmptySeq
  <2>5. Runs(q, u, z)
    BY <2>2, <2>3, <2>4, RunDamaged
  <2>6. ASSUME NEW k \in 1..Len(q), k # 1 PROVE q[k].type # "rest"
    <3>1. k \in 2..Len(Tail(inq)) /\ k \in 1..Len(Tail(inq))
      BY <2>2, <2>4, <2>6
    <3> QED
      BY <1>5, <2>1, <2>2, <3>1
  <2> QED
    BY <2>3, <2>5, <2>6 DEF Leads, RestFirst
<1> QED
  BY <1>3, <1>4, <1>5, <1>6, <1>7, <1>8

\* Outside of a data phase the reader may be anywhere.
LEMMA StreamOutside ==
    ASSUME Leads(inq', link' = "up"), RestFirst(inq'), ~InData', tx' = "start" => ~synced'
    PROVE  StreamInv' /\ RestInv'
<1>1. PICK s \in Positions, t \in Positions : Runs(inq', s, t) /\ (link' = "up" => t.n = -1)
  BY DEF Leads
<1> QED
  BY <1>1 DEF StreamInv, RestInv, RestFirst

\* In a data phase the reader is where ptp_tcp_getdata is.
LEMMA StreamInside ==
    ASSUME NEW u \in Positions, NEW t \in Positions, Runs(inq', u, t), link' = "up" => t.n = -1,
           AtGd(u)', tx' # "start", \A k \in 1..Len(inq') : inq'[k].type # "rest"
    PROVE  StreamInv' /\ RestInv'
  BY DEF StreamInv, RestInv

\* The reads of a data phase.
LEMMA StreamDataStep ==
    ASSUME IInv, GetStart \/ GetPacket \/ GetUnit \/ FinalFlush \/ GetEnd
    PROVE  StreamInv' /\ RestInv'
<1>0. link' = link /\ op' = op
  BY TransactionKeeps DEF Transaction
<1>1. inq # <<>> => Leads(Tail(inq), link = "up") /\ (\A k \in 1..Len(Tail(inq)) : Tail(inq)[k].type # "rest") /\ RestFirst(Tail(inq))
  BY StreamParts DEF RestFirst
<1>2. CASE tx' = "none" /\ inq # <<>> /\ inq' = Tail(inq)
  BY <1>0, <1>1, <1>2, StreamOutside DEF InData
<1>3. CASE GetStart
  <2>1. CASE tx' = "none"
    BY <1>2, <1>3, <2>1, StartEffect
  <2>2. CASE tx' # "none"
    <3>1. tx' = "packet" /\ inq # <<>> /\ inq' = Tail(inq) /\ Head(inq).type = "START_DATA"
          /\ gd' = [NoData EXCEPT !.total = Head(inq).v]
      BY <1>3, <2>2, StartEffect
    <3>2. PICK s \in Positions, u \in Positions, t \in Positions :
              Reads(s, Head(inq), u) /\ Runs(Tail(inq), u, t) /\ (link = "up" => t.n = -1)
      BY <3>1, HeadReads
    <3>3. gd'.total = Head(inq).v /\ gd'.read = 0 /\ gd'.pkt = 0 /\ ~gd'.end
      BY <3>1 DEF NoData
    <3>4. u.n = Head(inq).v /\ u.at = 0 /\ u.left = 0 /\ ~u.end /\ u.fresh
      BY <3>1, <3>2 DEF Reads
    <3>5. AtGd(u)'
      BY <3>1, <3>3, <3>4 DEF AtGd
    <3> QED
      BY <1>0, <1>1, <3>1, <3>2, <3>5, StreamInside
  <2> QED
    BY <2>1, <2>2
<1>4. CASE GetPacket
  <2>1. PICK u \in Positions, t \in Positions :
            /\ Runs(Tail(inq), u, t) /\ (link = "up" => t.n = -1)
            /\ u.n = gd.total /\ u.at = gd.read /\ u.left = Head(inq).v
            /\ (u.end <=> Head(inq).type = "END_DATA") /\ ~u.fresh
    BY <1>4, PacketEffect
  <2>2. gd' = [gd EXCEPT !.pkt = Head(inq).v, !.end = (Head(inq).type = "END_DATA")] /\ Locals
        /\ inq # <<>> /\ inq' = Tail(inq) /\ tx' \in {"payload", "resp", "end"}
        /\ (tx' = "resp" => Head(inq).type = "END_DATA")
    BY <1>4, PacketEffect, Parts
  <2>3. gd'.total = gd.total /\ gd'.read = gd.read /\ gd'.pkt = Head(inq).v /\ (gd'.end <=> Head(inq).type = "END_DATA")
    BY <2>2 DEF Locals
  <2>4. AtGd(u)'
    BY <2>1, <2>2, <2>3 DEF AtGd
  <2> QED
    BY <1>0, <1>1, <2>1, <2>2, <2>4, StreamInside
<1>5. CASE GetUnit
  <2>1. CASE tx' = "none"
    BY <1>2, <1>5, <2>1, UnitEffect
  <2>2. CASE tx' # "none"
    <3>1. PICK u \in Positions, t \in Positions :
              /\ Runs(Tail(inq), u, t) /\ (link = "up" => t.n = -1)
              /\ u.n = gd.total /\ u.at = gd.read + 1 /\ u.left = gd.pkt - 1 /\ (u.end <=> gd.end) /\ ~u.fresh
      BY <1>5, UnitRead
    <3>2. inq # <<>> /\ inq' = Tail(inq) /\ LoopEnd(gd') /\ Locals'
          /\ gd'.total = gd.total /\ gd'.read = gd.read + 1 /\ gd'.pkt = gd.pkt - 1 /\ gd'.end = gd.end /\ Locals
      BY <1>5, <2>2, UnitEffect, Parts
    <3>3. gd'.pkt \in Nat /\ gd'.read \in Nat /\ gd'.total \in Nat /\ gd'.read > 0
      BY <3>2, Constants DEF Locals
    <3>4. tx' \in {"payload", "packet", "flush", "resp", "end"} /\ (tx' = "resp" => gd'.end)
      BY <3>2, <3>3, LoopEndPlaces
    <3>5. AtGd(u)'
      BY <3>1, <3>2, <3>3, <3>4 DEF AtGd
    <3> QED
      BY <1>0, <1>1, <3>1, <3>2, <3>4, <3>5, StreamInside
  <2> QED
    BY <2>1, <2>2
<1>6. CASE FinalFlush
  <2>1. tx = "flush" /\ inq' = inq /\ gd'.total = gd.total /\ gd'.read = gd.read /\ gd'.pkt = 0 /\ gd'.end = gd.end /\ gd.pkt = 0
        /\ gd.end \in BOOLEAN
    BY <1>6, FlushEffect, Parts DEF TxInv, Locals
  <2>2. StreamInv /\ RestInv /\ InData
    BY <2>1, Parts DEF InData
  <2>3. CASE tx' = "none"
    BY <1>0, <2>1, <2>3, StreamParts, StreamOutside DEF InData
  <2>4. CASE tx' # "none"
    <3>1. tx' = (IF gd.end THEN "resp" ELSE "end")
      BY <1>6, <2>4, FlushEffect
    <3>2. PICK u \in Positions, t \in Positions : Runs(inq, u, t) /\ (link = "up" => t.n = -1) /\ AtGd(u)
      BY <2>2 DEF StreamInv
    <3>3. AtGd(u)'
      BY <2>1, <3>1, <3>2 DEF AtGd
    <3>4. \A k \in 1..Len(inq) : inq[k].type # "rest"
      BY <2>2 DEF RestInv
    <3> QED
      BY <1>0, <2>1, <3>1, <3>2, <3>3, <3>4, StreamInside
  <2> QED
    BY <2>3, <2>4
<1>7. CASE GetEnd
  <2>1. PICK u \in Positions, t \in Positions :
            /\ Runs(Tail(inq), u, t) /\ (link = "up" => t.n = -1)
            /\ u.n = gd.total /\ u.at = gd.read /\ u.left = gd.pkt /\ u.end /\ ~u.fresh
    BY <1>7, EndEffect
  <2>2. gd' = gd /\ inq # <<>> /\ inq' = Tail(inq) /\ tx' = "resp"
    BY <1>7, EndEffect
  <2>3. AtGd(u)'
    BY <2>1, <2>2 DEF AtGd
  <2> QED
    BY <1>0, <1>1, <2>1, <2>2, <2>3, StreamInside
<1> QED
  BY <1>3, <1>4, <1>5, <1>6, <1>7

\* Outside of transactions and calls the host has sent nothing, or nothing but
\* the request is to be sent.
LEMMA ProcedureTx ==
    ASSUME IInv, Procedure \/ Connect \/ CloseCamera \/ Call \/ NextTransaction \/ CallReturn
    PROVE  /\ tx = "none" /\ tx' \in {"none", "sendreq"}
           /\ tx' = "none" => (op' = op /\ gd' = gd /\ rc' = rc /\ param' = param /\ want' = want /\ own' = own)
                              \/ (op' = "Close" /\ gd' = NoData /\ rc' = rc /\ want' = 0 /\ param' = 0)
           /\ tx' = "sendreq" => gd' = NoData /\ rc' = "none" /\ param' = 0
           /\ synced' = synced
<1>1. ConnInv /\ HandInv /\ Places
  BY Parts
<1>2. CASE InitAck \/ InitEvent \/ Connect \/ CloseCamera \/ Call
  <2>1. proc \in {"initack", "event", "none", "failed"}
    BY <1>2 DEF InitAck, InitEvent, Connect, CloseCamera, Call
  <2>2. tx = "none"
    BY <1>1, <2>1 DEF ConnInv, Places
  <2> QED
    BY <1>2, <2>2 DEF InitAck, InitEvent, Connect, CloseCamera, Call, Begin, trans
<1>3. CASE SessionOpened \/ NextTransaction
  BY <1>3 DEF SessionOpened, NextTransaction, Begin
<1>4. CASE Opened \/ OpenFailed \/ CloseSockets \/ CallReturn
  BY <1>4 DEF Opened, OpenFailed, CloseSockets, CallReturn, Forget
<1> QED
  BY <1>2, <1>3, <1>4 DEF Procedure

\* A request is followed by its data phase or by the wait for the response.
LEMMA SendEffect ==
    ASSUME IInv, SendReq
    PROVE  /\ tx = "sendreq" /\ inq' = Foreign(inq) /\ gd' = gd /\ param' = param /\ own' = own
           /\ synced' = (InSync /\ link = "up")
           /\ \/ tx' = "none" /\ rc' = "io" /\ link = "lost" /\ outq' = Foreign(outq)
              \/ /\ rc' = rc
                 /\ outq' = (IF link = "up"
                             THEN Append(Foreign(outq), [op |-> op, want |-> want, data |-> FALSE, mine |-> TRUE])
                             ELSE outq)
                 /\ \/ tx' = "senddata" /\ Shape[op] = "send"
                    \/ tx' = "start" /\ Shape[op] \in Data
                    \/ tx' = "resp" /\ Shape[op] = "nodata"
<1>1. Shape[op] \in {"nodata", "send", "get", "file"}
  BY Constants, Parts DEF Numbers
<1>2. CASE rc' = rc /\ tx' = (CASE Shape[op] = "send"            -> "senddata"
                               [] Shape[op] \in {"get", "file"} -> "start"
                               [] OTHER                         -> "resp")
           /\ outq' = (IF link = "up"
                       THEN Append(Foreign(outq), [op |-> op, want |-> want, data |-> FALSE, mine |-> TRUE])
                       ELSE outq)
  <2>1. \/ tx' = "senddata" /\ Shape[op] = "send"
        \/ tx' = "start" /\ Shape[op] \in Data
        \/ tx' = "resp" /\ Shape[op] = "nodata"
    <3>1. CASE Shape[op] = "send"           BY <1>2, <3>1
    <3>2. CASE Shape[op] \in {"get", "file"} BY <1>2, <3>2 DEF Data
    <3>3. CASE Shape[op] = "nodata"         BY <1>2, <3>3
    <3> QED
      BY <1>1, <3>1, <3>2, <3>3
  <2> QED
    BY <1>2, <2>1 DEF SendReq
<1>3. CASE tx' = "none" /\ rc' = "io" /\ link = "lost" /\ outq' = Foreign(outq)
  BY <1>3 DEF SendReq
<1> QED
  BY <1>2, <1>3 DEF SendReq, Return

\* Every step leaves a stream that is part of a sequence of answers.
LEMMA StreamStep ==
    ASSUME IInv, Next PROVE StreamInv' /\ RestInv'
<1>0. Queues /\ StreamInv /\ RestInv /\ TxInv
  BY Parts
<1>1. PICK idle \in Positions : idle.n = -1
  <2>1. [n |-> -1, at |-> 0, left |-> 0, end |-> FALSE, fresh |-> FALSE] \in Positions
    BY Constants DEF Positions
  <2> QED
    BY <2>1
<1>2. Runs(<<>>, idle, idle)
  BY RunNone
<1>3. CASE GetStart \/ GetPacket \/ GetUnit \/ FinalFlush \/ GetEnd
  BY <1>3, StreamDataStep
<1>4. CASE SendReq
  <2>1. link' = link /\ op' = op
    BY <1>4, TransactionKeeps DEF Transaction
  <2>2. CASE synced'
    <3>1. inq = <<>> /\ inq' = Foreign(inq)
      BY <1>4, <2>2, SendEffect DEF InSync
    <3>2. inq' = <<>>
      BY <3>1 DEF Foreign
    <3>3. tx' \in {"none", "senddata", "start", "resp"} /\ (tx' = "resp" => Shape[op] = "nodata")
      BY <1>4, SendEffect
    <3>4. ~InData'
      BY <2>1, <3>3 DEF InData, Data
    <3> QED
      BY <1>1, <1>2, <3>2, <3>4 DEF StreamInv, RestInv
  <2>3. CASE ~synced'
    <3>1. tx' \in {"none", "senddata", "start", "resp"} /\ (tx' = "resp" => Shape[op] = "nodata") /\ inq' = Foreign(inq)
      BY <1>4, SendEffect
    <3>2. ~InData'
      BY <2>1, <3>1 DEF InData, Data
    <3> QED
      BY <2>1, <2>3, <3>1, <3>2, StreamParts, StreamOutside
  <2> QED
    BY <2>2, <2>3
<1>5. CASE SendData \/ ReadFail
  <2>1. link' = link /\ op' = op /\ inq' = inq
    BY <1>5, TransactionKeeps DEF Transaction, SendData, ReadFail
  <2>2. tx' \in {"none", "resp"} /\ (tx' = "resp" => Shape[op] = "send")
    BY <1>0, <1>5 DEF SendData, ReadFail, TxInv, Return
  <2>3. ~InData'
    BY <2>1, <2>2 DEF InData, Data
  <2> QED
    BY <2>1, <2>2, <2>3, StreamParts, StreamOutside
<1>6. CASE ReadGarbage \/ GetResp
  <2>1. link' = link /\ tx' = "none"
    BY <1>6, TransactionKeeps DEF Transaction, ReadGarbage, GetResp, Return
  <2>2. ~InData'
    BY <2>1 DEF InData
  <2>3. Leads(inq', link = "up") /\ RestFirst(inq')
    <3>1. \/ inq' = inq
          \/ inq # <<>> /\ inq' = Tail(inq)
          \/ Len(inq) > 1 /\ inq' = [Tail(inq) EXCEPT ![1].type = "rest"]
      BY <1>6 DEF ReadGarbage, GetResp, Read
    <3>2. CASE inq # <<>> /\ inq' = Tail(inq)
      BY <3>2, StreamParts DEF RestFirst
    <3> QED
      BY <3>1, <3>2, StreamParts
  <2> QED
    BY <2>1, <2>2, <2>3, StreamOutside
<1>7. CASE CamAnswer
  <2>1. PICK q \in Seq(Items) :
              /\ inq' = inq \o q /\ link = "up"
              /\ \A s \in Positions : s.n = -1 => \E t \in Positions : t.n = -1 /\ Runs(q, s, t)
              /\ \A k \in 1..Len(q) : q[k].type # "rest"
    BY <1>7, Parts, Answer
  <2>2. UNCHANGED <<tx, op, gd, synced, link>>
    BY <1>7, CameraKeeps DEF CamAnswer
  <2>3. PICK s \in Positions, t \in Positions :
          /\ Runs(inq, s, t) /\ (link = "up" => t.n = -1)
          /\ (InData => AtGd(s)) /\ (tx = "start" /\ synced => s.n = -1)
    BY <1>0 DEF StreamInv
  <2>4. PICK z \in Positions : z.n = -1 /\ Runs(q, t, z)
    BY <2>1, <2>3
  <2>5. Runs(inq', s, z)
    BY <1>0, <2>1, <2>3, <2>4, RunJoin DEF Queues
  <2>6. (InData' <=> InData) /\ (AtGd(s)' <=> AtGd(s))
    BY <2>2 DEF InData, AtGd
  <2>7. ASSUME NEW k \in 1..Len(inq'), inq'[k].type = "rest" PROVE k = 1 /\ ~InData
    <3>1. inq \in Seq(Items) /\ Len(inq') = Len(inq) + Len(q) /\ Len(inq) \in Nat /\ Len(q) \in Nat
      BY <1>0, <2>1, LenProperties DEF Queues
    <3>2. CASE k <= Len(inq)
      <4>1. k \in 1..Len(inq) /\ inq'[k] = inq[k]
        BY <2>1, <3>1, <3>2
      <4> QED
        BY <1>0, <2>7, <4>1 DEF RestInv
    <3>3. CASE k > Len(inq)
      <4>1. k - Len(inq) \in 1..Len(q) /\ inq'[k] = q[k - Len(inq)]
        BY <2>1, <3>1, <3>3
      <4> QED
        BY <2>1, <2>7, <4>1
    <3> QED
      BY <3>1, <3>2, <3>3
  <2> QED
    BY <2>2, <2>3, <2>4, <2>5, <2>6, <2>7 DEF StreamInv, RestInv
<1>8. CASE CamGone
  <2>1. PICK i \in 0..Len(inq) : inq' = SubSeq(inq, 1, i)
    BY <1>8 DEF CamGone
  <2>2. UNCHANGED <<tx, op, gd, synced>> /\ link' = "lost"
    BY <1>8, CameraKeeps DEF CamGone
  <2>3. PICK s \in Positions, t \in Positions :
          Runs(inq, s, t) /\ (InData => AtGd(s)) /\ (tx = "start" /\ synced => s.n = -1)
    BY <1>0 DEF StreamInv
  <2>4. PICK u \in Positions : Runs(inq', s, u)
    BY <1>0, <2>1, <2>3, RunPrefix DEF Queues
  <2>5. (InData' <=> InData) /\ (AtGd(s)' <=> AtGd(s))
    BY <2>2 DEF InData, AtGd
  <2>6. inq \in Seq(Items) /\ Len(inq') = i /\ \A k \in 1..i : inq'[k] = inq[k] /\ k \in 1..Len(inq)
    BY <1>0, <2>1 DEF Queues
  <2>7. RestInv'
    BY <1>0, <2>5, <2>6 DEF RestInv
  <2> QED
    BY <2>2, <2>3, <2>4, <2>5, <2>7 DEF StreamInv
<1>9. CASE Procedure \/ Connect \/ CloseCamera \/ Call \/ NextTransaction \/ CallReturn
  <2>1. tx' \in {"none", "sendreq"}
    BY <1>9, ProcedureTx
  <2>2. ~InData'
    BY <2>1 DEF InData
  <2>3. Leads(inq', link' = "up") /\ RestFirst(inq')
    <3>1. CASE Connect
      <4>1. inq' = <<>>
        BY <3>1 DEF Connect
      <4> QED
        BY <1>1, <1>2, <4>1 DEF Leads, RestFirst
    <3>2. CASE InitAck /\ inq' = <<Item("rest", 0)>>
      <4>1. Reads(idle, Item("rest", 0), idle)
        BY DEF Reads, Item
      <4>2. Runs(inq', idle, idle)
        BY <1>1, <3>2, <4>1, RunOne
      <4>3. RestFirst(inq')
        BY <3>2 DEF RestFirst
      <4> QED
        BY <1>1, <4>2, <4>3 DEF Leads
    <3>3. CASE CloseSockets
      <4>1. link' = "none" /\ \E i \in 0..Len(inq) : inq' = SubSeq(inq, 1, i)
        BY <3>3 DEF CloseSockets
      <4> QED
        BY <4>1, StreamParts DEF Leads
    <3>4. CASE ~Connect /\ ~CloseSockets /\ ~(InitAck /\ inq' = <<Item("rest", 0)>>)
      <4>1. inq' = inq /\ link' = link
        BY <1>9, <3>4 DEF Procedure, InitAck, InitEvent, SessionOpened, Opened, OpenFailed, CloseCamera, Call, NextTransaction,
           CallReturn, wire
      <4> QED
        BY <4>1, StreamParts
    <3> QED
      BY <3>1, <3>2, <3>3, <3>4
  <2> QED
    BY <2>1, <2>2, <2>3, StreamOutside
<1> QED
  BY <1>3, <1>4, <1>5, <1>6, <1>7, <1>8, <1>9 DEF Next, IpStep, Transaction

-----------------------------------------------------------------------------
\* The locals of a transaction.

\* How a transaction goes on and ends: only a response makes it end well.
LEMMA TransactionEnds ==
    ASSUME IInv, Transaction
    PROVE  /\ tx' # "sendreq" /\ (tx = "sendreq" => SendReq) /\ (SendReq => tx = "sendreq")
           /\ ~SendReq => synced' = synced /\ (own' => own)
           /\ tx' = "none" => rc' # "none"
           /\ rc' \in {"OK", "code"} /\ tx' = "none" => GetResp /\ Head(inq).type = "RESP"
           /\ rc' = "data_expected" /\ tx' = "none" => GetStart /\ (synced => Head(inq).type = "RESP")
<1>1. CASE SendReq     BY <1>1, SendEffect
<1>2. CASE SendData
  BY <1>2 DEF SendData, Return, SendReq
<1>3. CASE ReadFail
  BY <1>3 DEF ReadFail, Reading, Return, SendReq
<1>4. CASE ReadGarbage
  BY <1>4 DEF ReadGarbage, Reading, Return, SendReq
<1>5. CASE GetStart
  <2>1. tx = "start" /\ ~SendReq
    BY <1>5 DEF GetStart, SendReq
  <2> QED
    BY <1>5, <2>1, StartEffect
<1>6. CASE GetPacket
  <2>1. tx = "packet" /\ ~SendReq
    BY <1>6 DEF GetPacket, SendReq
  <2> QED
    BY <1>6, <2>1, PacketEffect
<1>7. CASE GetUnit
  <2>1. tx = "payload" /\ ~SendReq
    BY <1>7 DEF GetUnit, SendReq
  <2>2. tx' \in {"none", "payload", "packet", "flush", "resp", "end"} /\ (tx' = "none" => rc' = "handler")
    <3>1. (tx' = "none" /\ rc' = "handler") \/ LoopEnd(gd')
      BY <1>7, UnitEffect
    <3> QED
      BY <3>1 DEF LoopEnd
  <2> QED
    BY <1>7, <2>1, <2>2, UnitEffect
<1>8. CASE FinalFlush
  <2>1. tx = "flush" /\ ~SendReq
    BY <1>8 DEF FinalFlush, SendReq
  <2>2. synced' = synced /\ own' = own /\ tx' \in {"none", "resp", "end"} /\ (tx' = "none" => rc' = "handler")
    BY <1>8, FlushEffect
  <2>3. own' => own
    BY <2>2, Zenon
  <2> QED
    BY <2>1, <2>2, <2>3
<1>9. CASE GetEnd
  <2>1. tx = "end" /\ ~SendReq
    BY <1>9 DEF GetEnd, SendReq
  <2> QED
    BY <1>9, <2>1, EndEffect
<1>10. CASE GetResp
  <2>1. tx = "resp" /\ ~SendReq
    BY <1>10 DEF GetResp, SendReq
  <2> QED
    BY <1>10, <2>1, RespEffect
<1> QED
  BY <1>1, <1>2, <1>3, <1>4, <1>5, <1>6, <1>7, <1>8, <1>9, <1>10 DEF Transaction

\* The steps that leave the locals of the transaction alone, or clear them.
LEMMA GdSteps ==
    ASSUME IInv, Next
    PROVE  \/ GetStart \/ GetPacket \/ GetUnit \/ FinalFlush
           \/ gd' = NoData
           \/ gd' = gd /\ op' = op /\ (tx' = "none" \/ tx # "none")
<1>1. CASE Transaction
  <2>1. tx # "none" /\ op' = op
    BY <1>1, TransactionKeeps
  <2>2. SendReq \/ SendData \/ ReadFail \/ ReadGarbage \/ GetEnd \/ GetResp => gd' = gd
    BY DEF SendReq, SendData, ReadFail, ReadGarbage, GetEnd, GetResp
  <2> QED
    BY <1>1, <2>1, <2>2 DEF Transaction
<1>2. CASE CamAnswer \/ CamGone
  BY <1>2, CameraKeeps
<1>3. CASE Procedure \/ Connect \/ CloseCamera \/ Call \/ NextTransaction \/ CallReturn
  BY <1>3, ProcedureTx
<1> QED
  BY <1>1, <1>2, <1>3 DEF Next, IpStep

\* The sizes and the data fetched are of their types.
LEMMA LocalsStep ==
    ASSUME IInv, Next PROVE Locals'
<1>1. Locals
  BY Parts
<1>2. NoData \in [total : 0..MaxUnits, read : 0..MaxUnits, pkt : 0..MaxUnits, end : BOOLEAN,
                  block : Seq(1..MaxUnits), out : Seq(1..MaxUnits)]
  <2>1. 0 \in 0..MaxUnits /\ FALSE \in BOOLEAN /\ <<>> \in Seq(1..MaxUnits)
    BY Constants
  <2> QED
    BY <2>1, Zenon DEF NoData
<1>3. CASE GetStart
  BY <1>1, <1>2, <1>3, StartEffect DEF Locals
<1>4. CASE GetPacket
  <2>1. gd' = [gd EXCEPT !.pkt = Head(inq).v, !.end = (Head(inq).type = "END_DATA")] /\ Head(inq).v \in 0..MaxUnits
    BY <1>4, PacketEffect
  <2>2. (Head(inq).type = "END_DATA") \in BOOLEAN
    OBVIOUS
  <2> QED
    BY <1>1, <2>1, <2>2 DEF Locals
<1>5. CASE GetUnit \/ FinalFlush
  BY <1>5, UnitEffect, FlushEffect
<1>6. CASE gd' = NoData \/ gd' = gd
  BY <1>1, <1>2, <1>6 DEF Locals
<1> QED
  BY <1>3, <1>4, <1>5, <1>6, GdSteps

\* What the handler or the memory got goes on in the order of the data.
LEMMA GdStep ==
    ASSUME IInv, Next PROVE GdInv'
<1>1. Locals /\ GdInv /\ TxInv
  BY Parts
<1>2. Counted(<<>>, 0) /\ Len(<<>>) = 0 /\ BlockUnits >= 1 /\ 0 <= 0
  BY Constants DEF Counted
<1>3. CASE gd' = NoData
  BY <1>2, <1>3, Constants DEF NoData, GdInv
<1>4. CASE gd' = gd /\ op' = op /\ (tx' = "none" \/ tx # "none")
  BY <1>1, <1>4 DEF GdInv, Counted
<1>5. CASE GetStart
  <2>1. tx # "none" /\ op' = op
    BY <1>5, TransactionKeeps DEF Transaction
  <2>2. CASE gd' = gd
    BY <1>1, <2>1, <2>2 DEF GdInv, Counted
  <2>3. CASE gd' = [NoData EXCEPT !.total = Head(inq).v] /\ Head(inq).v \in 0..MaxUnits
    <3>1. gd'.read = 0 /\ gd'.total \in 0..MaxUnits /\ gd'.block = <<>> /\ gd'.out = <<>>
      BY <2>3 DEF NoData
    <3> QED
      BY <1>2, <3>1, Constants DEF GdInv
  <2> QED
    BY <1>5, <2>2, <2>3, StartEffect
<1>6. CASE GetPacket
  <2>1. tx # "none" /\ op' = op
    BY <1>6, TransactionKeeps DEF Transaction
  <2>2. gd' = [gd EXCEPT !.pkt = Head(inq).v, !.end = (Head(inq).type = "END_DATA")]
    BY <1>6, PacketEffect
  <2>3. gd'.read = gd.read /\ gd'.total = gd.total /\ gd'.block = gd.block /\ gd'.out = gd.out
    BY <1>1, <2>2 DEF Locals
  <2> QED
    BY <1>1, <2>1, <2>3 DEF GdInv, Counted
<1>7. CASE GetUnit
  <2>1. op' = op
    BY <1>7, TransactionKeeps DEF Transaction
  <2>2. gd.read + 1 <= gd.total
    <3>1. gd.pkt - 1 \in 0..MaxUnits /\ gd.read + 1 + (gd.pkt - 1) <= gd.total /\ gd.read + 1 \in 1..MaxUnits /\ gd.total \in 0..MaxUnits
      BY <1>1, <1>7, UnitRead DEF Locals
    <3> QED
      BY <3>1, Constants
  <2>3. /\ gd'.total = gd.total /\ gd'.read = gd.read + 1
        /\ Len(gd'.block) < BlockUnits /\ Counted(gd'.out, 0) /\ (Shape[op] # "file" => gd'.block = <<>>)
        /\ tx' # "none" => Counted(gd'.block, Len(gd'.out)) /\ Len(gd'.out) + Len(gd'.block) = gd.read + 1
    BY <1>7, UnitEffect
  <2> QED
    BY <2>1, <2>2, <2>3 DEF GdInv
<1>8. CASE FinalFlush
  <2>1. op' = op
    BY <1>8, TransactionKeeps DEF Transaction
  <2>2. /\ gd'.total = gd.total /\ gd'.read = gd.read
        /\ Len(gd'.block) < BlockUnits /\ Counted(gd'.out, 0) /\ (Shape[op] # "file" => gd'.block = <<>>)
        /\ tx' # "none" => Counted(gd'.block, Len(gd'.out)) /\ Len(gd'.out) + Len(gd'.block) = gd.read
    BY <1>8, FlushEffect
  <2> QED
    BY <1>1, <2>1, <2>2 DEF GdInv
<1> QED
  BY <1>3, <1>4, <1>5, <1>6, <1>7, <1>8, GdSteps

\* Where LoopEnd leads to, the sizes fit.
LEMMA TxLoopEnd ==
    ASSUME IInv, GetUnit, LoopEnd(gd'), rc' = rc PROVE TxInv'
<1>1. Locals /\ TxInv /\ GdInv /\ Numbers
  BY Parts
<1>2. op' = op
  BY TransactionKeeps DEF Transaction
<1>3. /\ Locals' /\ gd'.total = gd.total /\ gd'.read = gd.read + 1 /\ gd'.pkt = gd.pkt - 1 /\ gd'.end = gd.end
      /\ tx = "payload" /\ param' = param /\ (Shape[op] # "file" => gd'.block = <<>>)
  BY UnitEffect
<1>4. /\ gd.read + 1 \in 1..MaxUnits /\ gd.pkt - 1 \in 0..MaxUnits /\ gd.read + 1 + (gd.pkt - 1) <= gd.total
      /\ (gd.end => gd.read + 1 + (gd.pkt - 1) = gd.total)
  BY UnitRead
<1>5. PICK total \in Nat, read \in Nat, pkt \in Nat :
          /\ total = gd'.total /\ read = gd'.read /\ pkt = gd'.pkt
          /\ read + pkt <= total /\ (gd'.end => read + pkt = total)
  <2>1. gd'.total \in Nat /\ gd'.read \in Nat /\ gd'.pkt \in Nat
    BY <1>3, Constants DEF Locals
  <2> QED
    BY <1>3, <1>4, <2>1
<1>6. /\ tx' = "payload" <=> pkt > 0
      /\ tx' = "packet" <=> pkt = 0 /\ read < total
      /\ tx' = "flush" <=> pkt = 0 /\ ~(read < total) /\ Shape[op] = "file" /\ gd'.block # <<>>
      /\ tx' = "resp" <=> pkt = 0 /\ ~(read < total) /\ ~(Shape[op] = "file" /\ gd'.block # <<>>) /\ gd'.end
      /\ tx' = "end" <=> pkt = 0 /\ ~(read < total) /\ ~(Shape[op] = "file" /\ gd'.block # <<>>) /\ ~gd'.end
      /\ tx' \in {"payload", "packet", "flush", "resp", "end"}
  BY <1>5, LoopEndPlaces
<1>7. Shape[op] \in Data /\ rc = "none" /\ param = 0
  BY <1>1, <1>3 DEF TxInv
<1>8. CASE tx' = "payload"
  BY <1>2, <1>3, <1>5, <1>6, <1>7, <1>8 DEF TxInv
<1>9. CASE tx' = "packet"
  <2>1. pkt = 0 /\ read < total /\ ~gd'.end
    BY <1>5, <1>6, <1>9
  <2> QED
    BY <1>2, <1>3, <1>5, <1>7, <1>9, <2>1 DEF TxInv
<1>10. CASE tx' \in {"flush", "end", "resp"}
  <2>1. pkt = 0 /\ read = total
    BY <1>5, <1>6, <1>10
  <2>2. tx' \in {"end", "resp"} => gd'.block = <<>>
    BY <1>3, <1>6
  <2>3. (tx' = "end" => ~gd'.end) /\ (tx' = "flush" => Shape[op] = "file")
    BY <1>6
  <2> QED
    BY <1>2, <1>3, <1>5, <1>7, <1>10, <2>1, <2>2, <2>3 DEF TxInv, Data
<1> QED
  BY <1>6, <1>8, <1>9, <1>10

\* Each phase knows what it knew, and what the step to it showed.
LEMMA TxStep ==
    ASSUME IInv, Next PROVE TxInv'
<1>1. Locals /\ TxInv /\ GdInv /\ Places
  BY Parts
<1>2. CASE tx' = "none"
  BY <1>2 DEF TxInv
<1>3. CASE Transaction /\ tx' # "none"
  <2>0. op' = op
    BY <1>3, TransactionKeeps
  <2>1. CASE SendReq
    <3>1. /\ gd' = NoData /\ rc' = "none" /\ param' = 0
          /\ \/ tx' = "senddata" /\ Shape[op] = "send"
             \/ tx' = "start" /\ Shape[op] \in Data
             \/ tx' = "resp" /\ Shape[op] = "nodata"
      BY <1>1, <1>3, <2>1, SendEffect DEF TxInv
    <3>2. CASE tx' = "senddata" /\ Shape[op] = "send"
      BY <2>0, <3>1, <3>2 DEF TxInv
    <3>3. CASE tx' = "start" /\ Shape[op] \in Data
      BY <2>0, <3>1, <3>3 DEF TxInv
    <3>4. CASE tx' = "resp" /\ Shape[op] = "nodata"
      BY <2>0, <3>1, <3>4 DEF TxInv, Data, NoData
    <3> QED
      BY <3>1, <3>2, <3>3, <3>4
  <2>2. CASE SendData
    <3>1. tx = "senddata" /\ tx' = "resp" /\ UNCHANGED <<gd, rc, param>>
      BY <1>3, <2>2 DEF SendData, Return
    <3>2. Shape[op] = "send" /\ gd = NoData /\ rc = "none" /\ param = 0
      BY <1>1, <3>1 DEF TxInv
    <3> QED
      BY <2>0, <3>1, <3>2 DEF TxInv, Data, NoData
  <2>3. CASE GetStart
    <3>1. tx = "start" /\ tx' = "packet" /\ rc' = rc /\ param' = param /\ Head(inq).v \in 0..MaxUnits
          /\ gd' = [NoData EXCEPT !.total = Head(inq).v]
      BY <1>3, <2>3, StartEffect
    <3>2. gd'.total \in 0..MaxUnits /\ gd'.read = 0 /\ gd'.pkt = 0 /\ ~gd'.end
      BY <3>1 DEF NoData
    <3>3. gd'.read < gd'.total \/ gd'.total = 0
      BY <3>2, Constants
    <3>4. Shape[op] \in Data /\ rc = "none" /\ param = 0
      BY <1>1, <3>1 DEF TxInv
    <3> QED
      BY <2>0, <3>1, <3>2, <3>3, <3>4 DEF TxInv
  <2>4. CASE GetPacket
    <3>1. /\ tx = "packet" /\ param' = param /\ rc' = rc
          /\ gd' = [gd EXCEPT !.pkt = Head(inq).v, !.end = (Head(inq).type = "END_DATA")]
          /\ \/ tx' = "payload" /\ Head(inq).v > 0
             \/ /\ Head(inq).v = 0 /\ gd.read = gd.total /\ gd.block = <<>>
                /\ tx' = (IF Head(inq).type = "END_DATA" THEN "resp" ELSE "end")
      BY <2>4, PacketEffect
    <3>2. /\ gd'.pkt = Head(inq).v /\ (gd'.end <=> Head(inq).type = "END_DATA")
          /\ gd'.read = gd.read /\ gd'.total = gd.total /\ gd'.block = gd.block
      BY <1>1, <3>1 DEF Locals
    <3>3. Shape[op] \in Data /\ rc = "none" /\ param = 0
      BY <1>1, <3>1 DEF TxInv
    <3>4. CASE tx' = "payload" /\ Head(inq).v > 0
      BY <2>0, <3>1, <3>2, <3>3, <3>4 DEF TxInv
    <3>5. CASE Head(inq).v = 0 /\ gd.read = gd.total /\ gd.block = <<>> /\ tx' \in {"resp", "end"}
               /\ (tx' = "end" => Head(inq).type # "END_DATA")
      BY <2>0, <3>1, <3>2, <3>3, <3>5 DEF TxInv, Data
    <3> QED
      BY <3>1, <3>4, <3>5
  <2>5. CASE GetUnit
    BY <1>3, <2>5, UnitEffect, TxLoopEnd
  <2>6. CASE FinalFlush
    <3>1. /\ tx = "flush" /\ param' = param /\ rc' = rc /\ gd'.block = <<>>
          /\ gd'.read = gd'.total /\ gd'.pkt = 0 /\ tx' = (IF gd.end THEN "resp" ELSE "end") /\ gd'.end = gd.end
      BY <1>3, <2>6, FlushEffect
    <3>2. Shape[op] \in Data /\ rc = "none" /\ param = 0
      BY <1>1, <3>1 DEF TxInv
    <3> QED
      BY <2>0, <3>1, <3>2 DEF TxInv, Data
  <2>7. CASE GetEnd
    <3>1. tx = "end" /\ UNCHANGED <<gd, param, rc>> /\ tx' = "resp"
      BY <2>7, EndEffect
    <3> QED
      BY <1>1, <2>0, <3>1 DEF TxInv, Data
  <2>8. CASE ReadFail \/ ReadGarbage \/ GetResp
    BY <1>3, <2>8 DEF ReadFail, ReadGarbage, GetResp, Return
  <2> QED
    BY <1>3, <2>1, <2>2, <2>3, <2>4, <2>5, <2>6, <2>7, <2>8 DEF Transaction
<1>4. CASE CamAnswer \/ CamGone
  <2>1. UNCHANGED <<tx, op, gd, rc, param>>
    BY <1>4, CameraKeeps
  <2> QED
    BY <1>1, <2>1 DEF TxInv
<1>5. CASE tx' = "sendreq" /\ (Procedure \/ Connect \/ CloseCamera \/ Call \/ NextTransaction \/ CallReturn)
  <2>1. gd' = NoData /\ rc' = "none" /\ param' = 0
    BY <1>5, ProcedureTx
  <2> QED
    BY <1>5, <2>1 DEF TxInv
<1> QED
  BY <1>2, <1>3, <1>4, <1>5, ProcedureTx DEF Next, IpStep

\* A transaction that went well has all its data, of the length asked for.
LEMMA DoneStep ==
    ASSUME IInv, Next PROVE DoneInv'
<1>1. Locals /\ TxInv /\ GdInv /\ DoneInv /\ MineInv /\ Places /\ Queues
  BY Parts
<1>2. CASE Transaction
  <2>1. op' = op /\ want' = want /\ tx # "none"
    BY <1>2, TransactionKeeps
  <2>2. ASSUME tx' = "none", rc' = "OK", Shape[op] \in Data
        PROVE  Len(gd'.out) = gd'.total /\ param' = gd'.total /\ (own' /\ want > 0 => gd'.total = want)
    <3>1. GetResp
      BY <1>2, <2>2, TransactionEnds
    <3>2. tx = "resp" /\ gd' = gd /\ own' = (own /\ Head(inq).mine) /\ param' = gd.total /\ gd.read = gd.total /\ gd.block = <<>>
      BY <2>2, <3>1, RespEffect
    <3>3. Len(gd.out) + Len(gd.block) = gd.read
      BY <1>1, <2>1 DEF GdInv
    <3>4. Len(gd.out) = gd.total
      <4>1. PICK out \in Seq(1..MaxUnits) : out = gd.out
        BY <1>1 DEF Locals
      <4>2. Len(gd.block) = 0 /\ Len(out) \in Nat
        BY <3>2
      <4> QED
        BY <3>2, <3>3, <4>1, <4>2
    <3>5. own /\ want > 0 => gd.total = want
      BY <1>1, <2>2, <3>2 DEF DoneInv, InData
    <3> QED
      BY <3>2, <3>4, <3>5
  <2>3. ASSUME InData', own', want > 0 PROVE gd'.total = want
    <3>1. CASE SendReq \/ SendData \/ ReadFail \/ ReadGarbage \/ GetResp
      <4>1. ~InData'
        <5>1. SendReq => tx' \in {"none", "senddata", "start", "resp"} /\ (tx' = "resp" => Shape[op] = "nodata")
          BY SendEffect
        <5>2. SendData => tx' \in {"none", "resp"} /\ Shape[op] = "send"
          BY <1>1 DEF SendData, Return, TxInv
        <5>3. ReadFail \/ ReadGarbage \/ GetResp => tx' = "none"
          BY DEF ReadFail, ReadGarbage, GetResp, Return
        <5> QED
          BY <2>1, <3>1, <5>1, <5>2, <5>3 DEF InData, Data
      <4> QED
        BY <2>3, <4>1
    <3>2. CASE GetStart
      <4>1. /\ tx = "start" /\ inq # <<>> /\ own' = (own /\ Head(inq).mine)
            /\ Head(inq).type = "START_DATA" /\ Head(inq).v \in 0..MaxUnits /\ gd' = [NoData EXCEPT !.total = Head(inq).v]
        BY <2>3, <3>2, StartEffect DEF InData
      <4>2. Head(inq) = inq[1] /\ 1 \in 1..Len(inq)
        BY <1>1, <4>1, Heads
      <4>3. Head(inq).v = want
        BY <1>1, <2>3, <4>1, <4>2 DEF MineInv
      <4> QED
        BY <4>1, <4>3 DEF NoData
    <3>3. CASE GetPacket \/ GetUnit \/ FinalFlush \/ GetEnd
      <4>1. gd'.total = gd.total
        <5>1. GetPacket => gd' = [gd EXCEPT !.pkt = Head(inq).v, !.end = (Head(inq).type = "END_DATA")]
          BY PacketEffect
        <5>2. GetPacket => gd'.total = gd.total
          BY <1>1, <5>1 DEF Locals
        <5> QED
          BY <3>3, <5>2, UnitEffect, FlushEffect, EndEffect
      <4>2. tx \in {"packet", "payload", "flush", "end"} /\ ~SendReq
        BY <3>3 DEF GetPacket, GetUnit, FinalFlush, GetEnd, SendReq
      <4>3. own
        BY <1>2, <2>3, <4>2, TransactionEnds
      <4> QED
        BY <1>1, <2>3, <4>1, <4>2, <4>3 DEF DoneInv, InData
    <3> QED
      BY <1>2, <3>1, <3>2, <3>3 DEF Transaction
  <2> QED
    BY <2>1, <2>2, <2>3 DEF DoneInv
<1>3. CASE CamAnswer \/ CamGone
  <2>1. UNCHANGED <<tx, op, gd, rc, param, want, own>>
    BY <1>3, CameraKeeps
  <2>2. InData' <=> InData
    BY <2>1 DEF InData
  <2> QED
    BY <1>1, <2>1, <2>2 DEF DoneInv
<1>4. CASE Procedure \/ Connect \/ CloseCamera \/ Call \/ NextTransaction \/ CallReturn
  <2>1. tx = "none" /\ tx' \in {"none", "sendreq"}
    BY <1>4, ProcedureTx
  <2>2. ~InData'
    BY <2>1 DEF InData
  <2>3. CASE tx' = "sendreq"
    BY <2>2, <2>3 DEF DoneInv
  <2>4. CASE op' = op /\ gd' = gd /\ rc' = rc /\ param' = param /\ want' = want /\ own' = own
    BY <1>1, <2>1, <2>2, <2>4 DEF DoneInv
  <2>5. CASE op' = "Close"
    BY <2>2, <2>5, Constants DEF DoneInv, Data
  <2> QED
    BY <1>4, <2>1, <2>3, <2>4, <2>5, ProcedureTx
<1> QED
  BY <1>2, <1>3, <1>4 DEF Next, IpStep

\* A mark stays with what it was given for.
LEMMA MineStep ==
    ASSUME IInv, Next PROVE MineInv'
<1>1. Queues /\ MineInv /\ Numbers
  BY Parts
<1>2. inq \in Seq(Items) /\ outq \in Seq(Requests) /\ Len(inq) \in Nat /\ Len(outq) \in Nat
  BY <1>1 DEF Queues
<1>3. CASE tx' \in {"none", "sendreq"}
  BY <1>3 DEF MineInv
<1>4. CASE SendReq
  <2>1. op' = op /\ want' = want
    BY <1>4, TransactionKeeps DEF Transaction
  <2>2. \A k \in 1..Len(inq') : ~inq'[k].mine
    BY <1>2, <1>4, SendEffect, ForeignItems
  <2>3. Foreign(outq) \in Seq(Requests) /\ Len(Foreign(outq)) = Len(outq) /\ \A k \in 1..Len(outq) : ~Foreign(outq)[k].mine
    BY <1>2, ForeignRequests
  <2>4. CASE tx' = "none"
    BY <1>3, <2>4
  <2>5. CASE tx' # "none" /\ link # "up"
    <3>1. outq = <<>>
      BY <2>5, Parts DEF SyncInv
    <3>2. outq' = <<>>
      BY <1>4, <2>5, <3>1, SendEffect
    <3> QED
      BY <2>2, <3>2 DEF MineInv
  <2>6. CASE tx' # "none" /\ link = "up"
    <3> DEFINE r == [op |-> op, want |-> want, data |-> FALSE, mine |-> TRUE]
    <3>1. outq' = Append(Foreign(outq), r)
      BY <1>4, <2>6, SendEffect
    <3>2. r \in Requests /\ r.op = op /\ r.want = want
      BY <1>1 DEF Numbers, Requests
    <3> HIDE DEF r
    <3>3. ASSUME NEW k \in 1..Len(outq'), outq'[k].mine PROVE outq'[k].op = op /\ outq'[k].want = want
      <4>1. Len(outq') = Len(outq) + 1
        BY <1>2, <2>3, <3>1, <3>2
      <4>2. CASE k = Len(outq) + 1
        <5>1. outq'[k] = r
          BY <1>2, <2>3, <3>1, <3>2, <4>2
        <5> QED
          BY <3>2, <5>1
      <4>3. CASE k # Len(outq) + 1
        <5>1. k \in 1..Len(outq)
          BY <1>2, <4>1, <4>3
        <5>2. outq'[k] = Foreign(outq)[k]
          BY <1>2, <2>3, <3>1, <3>2, <5>1
        <5> QED
          BY <2>3, <3>3, <5>1, <5>2
      <4> QED
        BY <4>2, <4>3
    <3> QED
      BY <2>1, <2>2, <3>3 DEF MineInv
  <2> QED
    BY <2>4, <2>5, <2>6
<1>5. CASE Transaction /\ ~SendReq /\ tx' # "none"
  <2>1. op' = op /\ want' = want /\ tx \notin {"none", "sendreq"}
    BY <1>5, TransactionKeeps, TransactionEnds
  <2>2. \A k \in 1..Len(inq) : inq[k].mine /\ inq[k].type = "START_DATA" /\ want > 0 => inq[k].v = want
    BY <1>1, <2>1 DEF MineInv
  <2>3. \A k \in 1..Len(outq) : outq[k].mine => outq[k].op = op /\ outq[k].want = want
    BY <1>1, <2>1 DEF MineInv
  <2>4. inq' = inq \/ (inq # <<>> /\ inq' = Tail(inq))
    BY <1>5 DEF Transaction, SendData, ReadFail, ReadGarbage, GetStart, GetPacket, GetUnit, FinalFlush, GetEnd, GetResp, Read, Return
  <2>5. \A k \in 1..Len(inq') : inq'[k].mine /\ inq'[k].type = "START_DATA" /\ want > 0 => inq'[k].v = want
    BY <1>1, <2>2, <2>4, Heads
  <2>6. outq' = outq \/ (outq # <<>> /\ outq' = [outq EXCEPT ![Len(outq)].data = TRUE])
    BY <1>5 DEF Transaction, SendData, ReadFail, ReadGarbage, GetStart, GetPacket, GetUnit, FinalFlush, GetEnd, GetResp, Accept
  <2>7. ASSUME outq # <<>>, outq' = [outq EXCEPT ![Len(outq)].data = TRUE]
        PROVE  \A k \in 1..Len(outq') : outq'[k].mine => outq'[k].op = op /\ outq'[k].want = want
    <3>1. Len(outq') = Len(outq) /\ outq[Len(outq)] \in Requests
      BY <1>2, <2>7
    <3>2. \A k \in 1..Len(outq) : outq'[k].mine = outq[k].mine /\ outq'[k].op = outq[k].op /\ outq'[k].want = outq[k].want
      BY <1>2, <2>7, <3>1 DEF Requests
    <3> QED
      BY <2>3, <3>1, <3>2
  <2>8. \A k \in 1..Len(outq') : outq'[k].mine => outq'[k].op = op /\ outq'[k].want = want
    BY <2>3, <2>6, <2>7
  <2> QED
    BY <2>1, <2>5, <2>8 DEF MineInv
<1>6. CASE CamAnswer /\ tx' \notin {"none", "sendreq"}
  <2>1. UNCHANGED <<tx, op, want>>
    BY <1>6, CameraKeeps
  <2>2. \A k \in 1..Len(inq) : inq[k].mine /\ inq[k].type = "START_DATA" /\ want > 0 => inq[k].v = want
    BY <1>1, <1>6, <2>1 DEF MineInv
  <2>3. \A k \in 1..Len(outq) : outq[k].mine => outq[k].op = op /\ outq[k].want = want
    BY <1>1, <1>6, <2>1 DEF MineInv
  <2>4. PICK q \in Seq(Items) :
              /\ inq' = inq \o q /\ outq' = Tail(outq) /\ outq # <<>>
              /\ \A k \in 1..Len(q) : /\ q[k].mine => Head(outq).mine
                                      /\ q[k].type = "START_DATA" /\ Head(outq).want > 0 => q[k].v = Head(outq).want
    BY <1>6, Parts, Answer
  <2>5. Head(outq) = outq[1] /\ 1 \in 1..Len(outq) /\ Len(Tail(outq)) = Len(outq) - 1
        /\ \A k \in 1..Len(Tail(outq)) : Tail(outq)[k] = outq[k + 1] /\ k + 1 \in 1..Len(outq)
    BY <1>2, <2>4
  <2>6. \A k \in 1..Len(outq') : outq'[k].mine => outq'[k].op = op /\ outq'[k].want = want
    BY <2>3, <2>4, <2>5
  <2>7. \A k \in 1..Len(q) : q[k].mine /\ q[k].type = "START_DATA" /\ want > 0 => q[k].v = want
    BY <2>3, <2>4, <2>5
  <2>8. ASSUME NEW k \in 1..Len(inq') PROVE inq'[k].mine /\ inq'[k].type = "START_DATA" /\ want > 0 => inq'[k].v = want
    <3>1. Len(inq') = Len(inq) + Len(q) /\ Len(q) \in Nat
      BY <1>2, <2>4
    <3>2. CASE k <= Len(inq)
      <4>1. k \in 1..Len(inq) /\ inq'[k] = inq[k]
        BY <1>2, <2>4, <3>1, <3>2
      <4> QED
        BY <2>2, <4>1
    <3>3. CASE k > Len(inq)
      <4>1. k - Len(inq) \in 1..Len(q) /\ inq'[k] = q[k - Len(inq)]
        BY <1>2, <2>4, <3>1, <3>3
      <4> QED
        BY <2>7, <4>1
    <3> QED
      BY <1>2, <3>1, <3>2, <3>3
  <2> QED
    BY <2>1, <2>6, <2>8 DEF MineInv
<1>7. CASE CamGone /\ tx' \notin {"none", "sendreq"}
  <2>1. UNCHANGED <<tx, op, want>> /\ outq' = <<>>
    BY <1>7, CameraKeeps DEF CamGone
  <2>2. \A k \in 1..Len(inq) : inq[k].mine /\ inq[k].type = "START_DATA" /\ want > 0 => inq[k].v = want
    BY <1>1, <1>7, <2>1 DEF MineInv
  <2>3. PICK i \in 0..Len(inq) : inq' = SubSeq(inq, 1, i)
    BY <1>7 DEF CamGone
  <2>4. Len(inq') = i /\ \A k \in 1..i : inq'[k] = inq[k] /\ k \in 1..Len(inq)
    BY <1>2, <2>3
  <2>5. \A k \in 1..Len(inq') : inq'[k].mine /\ inq'[k].type = "START_DATA" /\ want > 0 => inq'[k].v = want
    BY <2>2, <2>4
  <2> QED
    BY <2>1, <2>5 DEF MineInv
<1>8. CASE Procedure \/ Connect \/ CloseCamera \/ Call \/ NextTransaction \/ CallReturn
  BY <1>3, <1>8, ProcedureTx
<1> QED
  BY <1>3, <1>4, <1>5, <1>6, <1>7, <1>8 DEF Next, IpStep

-----------------------------------------------------------------------------
\* The calls and the connection.

\* A call goes on with its own transactions, and only data has a length asked for.
LEMMA CallStep ==
    ASSUME IInv, Next PROVE CallInv'
<1>1. CallInv /\ Calls /\ Numbers /\ Places
  BY Parts
<1>2. CASE (Transaction \/ CamAnswer \/ CamGone) /\ UNCHANGED <<call, step>>
  <2>1. UNCHANGED <<proc, op, want, call, step>>
    BY <1>2, TransactionKeeps, CameraKeeps
  <2> QED
    BY <1>1, <2>1 DEF CallInv
<1>3. CASE (Procedure \/ Connect \/ CloseCamera) /\ UNCHANGED <<call, step>>
  <2>1. proc' # "call"
    BY <1>3 DEF Procedure, InitAck, InitEvent, SessionOpened, Opened, OpenFailed, CloseSockets, Connect, CloseCamera
  <2>2. want' = 0 \/ (want' = want /\ op' = op)
    BY <1>3 DEF Procedure, InitAck, InitEvent, SessionOpened, Opened, OpenFailed, CloseSockets, Connect, CloseCamera,
       Begin, Forget, trans
  <2> QED
    BY <1>1, <2>1, <2>2 DEF CallInv
<1>4. CASE Call
  <2>1. PICK m \in Methods, n \in 1..MaxUnits :
            call' = m /\ step' = 1 /\ op' = m.ops[1] /\ want' = (IF m.len = "arg" THEN n ELSE 0)
    BY <1>4 DEF Call, Begin
  <2>2. Len(m.ops) \in 1..2 /\ (m.len = "arg" => m.ops[1] = "get")
    BY MethodsKnown
  <2>3. 1 \in 1..Len(m.ops)
    BY <2>2
  <2>4. want' > 0 => Shape[op'] \in Data
    BY <2>1, <2>2, Constants DEF Data
  <2>5. m.len = "arg" => want' > 0
    BY <2>1, Constants
  <2> QED
    BY <2>1, <2>3, <2>4, <2>5 DEF CallInv
<1>5. CASE NextTransaction
  <2>1. call' = call
    BY <1>5 DEF NextTransaction
  <2>2. step' = 2 /\ Len(call.ops) = 2 /\ call \in Methods /\ call.len = "data" /\ op' = call.ops[step'] /\ want' = 0
    BY <1>1, <1>5, NextOne
  <2>3. 2 \in 1..2
    OBVIOUS
  <2> QED
    BY <2>1, <2>2, <2>3 DEF CallInv
<1>6. CASE CallReturn
  BY <1>6 DEF CallReturn, Forget, CallInv
<1> QED
  BY <1>2, <1>3, <1>4, <1>5, <1>6 DEF Next, IpStep

\* The sockets and flags of each step of a procedure, and what is left after it.
LEMMA ConnStep ==
    ASSUME IInv, Next PROVE ConnInv'
<1>1. ConnInv /\ HandInv /\ Places /\ Flags /\ NotHeld
  BY Parts DEF ConnInv
<1>2. CASE Transaction
  <2>1. UNCHANGED <<connected, cmd_sock, event_sock, ai, id, proc, op>> /\ tx # "none"
    BY <1>2, TransactionKeeps
  <2>2. proc = "open" => tx' \in {"sendreq", "resp", "none"}
    <3>1. ASSUME proc = "open" PROVE op = "Open" /\ tx \in {"sendreq", "resp"}
      BY <1>1, <2>1, <3>1 DEF ConnInv
    <3>2. SendReq /\ op = "Open" => tx' \in {"resp", "none"}
      BY SendEffect, Constants DEF Data
    <3>3. tx = "resp" => tx' = "none"
      BY <1>2 DEF Transaction, SendReq, SendData, ReadFail, ReadGarbage, GetStart, GetPacket, GetUnit, FinalFlush, GetEnd, GetResp,
         Return
    <3> QED
      BY <1>2, <3>1, <3>2, <3>3, TransactionEnds
  <2> QED
    BY <1>1, <2>1, <2>2 DEF ConnInv, NotHeld
<1>3. CASE CamAnswer \/ CamGone
  <2>1. UNCHANGED <<connected, cmd_sock, event_sock, ai, id, proc, op, tx>>
    BY <1>3, CameraKeeps
  <2> QED
    BY <1>1, <2>1 DEF ConnInv, NotHeld
<1>4. CASE InitAck
  <2>1. proc = "initack" /\ proc' \in {"event", "failed"} /\ tx' = tx /\ UNCHANGED <<connected, cmd_sock, event_sock, ai>>
    BY <1>4 DEF InitAck, trans
  <2> QED
    BY <1>1, <2>1 DEF ConnInv, NotHeld
<1>5. CASE InitEvent
  <2>1. /\ proc = "event" /\ UNCHANGED <<connected, cmd_sock, ai, id>>
        /\ \/ event_sock' = TRUE /\ proc' = "open" /\ tx' = "sendreq" /\ op' = "Open"
           \/ proc' = "failed" /\ tx' = tx
    BY <1>5 DEF InitEvent, EventSocket, Begin, trans
  <2> QED
    BY <1>1, <2>1 DEF ConnInv, NotHeld
<1>6. CASE SessionOpened
  <2>1. /\ proc = "open" /\ connected' = TRUE /\ proc' = "devinfo" /\ UNCHANGED <<cmd_sock, event_sock, ai, id>>
        /\ tx = "none" /\ rc = "OK"
    BY <1>6 DEF SessionOpened, sockets
  <2>2. cmd_sock /\ event_sock /\ id
    BY <1>1, <2>1 DEF ConnInv, HandInv
  <2> QED
    BY <2>1, <2>2 DEF ConnInv, NotHeld
<1>7. CASE Opened \/ OpenFailed
  <2>1. /\ UNCHANGED <<connected, cmd_sock, event_sock, ai, id>> /\ tx = "none" /\ tx' = tx
        /\ (proc = "devinfo" /\ proc' = "none") \/ proc' = "failed"
    BY <1>7 DEF Opened, OpenFailed, Forget, sockets
  <2> QED
    BY <1>1, <2>1 DEF ConnInv, NotHeld
<1>8. CASE CloseSockets
  BY <1>8 DEF CloseSockets, Forget, ConnInv, NotHeld
<1>9. CASE Connect
  <2>1. /\ ~connected /\ connected' = connected /\ tx' = tx /\ proc = "none"
        /\ (proc' = "initack" /\ cmd_sock' = TRUE) \/ proc' = "failed"
    BY <1>9 DEF Connect, trans
  <2> QED
    BY <1>1, <2>1 DEF ConnInv, NotHeld
<1>10. CASE CloseCamera
  BY <1>10 DEF CloseCamera, ConnInv, NotHeld
<1>11. CASE Call \/ NextTransaction
  <2>1. UNCHANGED <<connected, cmd_sock, event_sock, ai, id>> /\ proc' = "call" /\ (connected \/ proc = "call")
    BY <1>11 DEF Call, NextTransaction, sockets
  <2> QED
    BY <1>1, <2>1 DEF ConnInv, NotHeld
<1>12. CASE CallReturn
  <2>1. UNCHANGED <<connected, cmd_sock, event_sock, ai, id>> /\ proc' = "none" /\ proc = "call" /\ tx' = tx /\ tx = "none"
    BY <1>12 DEF CallReturn, Forget, sockets
  <2> QED
    BY <1>1, <2>1 DEF ConnInv, NotHeld
<1> QED
  BY <1>2, <1>3, <1>4, <1>5, <1>6, <1>7, <1>8, <1>9, <1>10, <1>11, <1>12 DEF Next, IpStep, Procedure

-----------------------------------------------------------------------------
\* In step with the camera.

\* While a transaction goes on, it reads an item or none, and asks for nothing more.
LEMMA TransactionReads ==
    ASSUME IInv, Transaction, ~SendReq
    PROVE  /\ tx' # "none" => inq' = inq \/ (inq # <<>> /\ inq' = Tail(inq))
           /\ inq = <<>> => inq' = <<>>
           /\ outq = <<>> => outq' = <<>>
           /\ Len(outq') = Len(outq)
<1>1. tx' # "none" => inq' = inq \/ (inq # <<>> /\ inq' = Tail(inq))
  BY DEF Transaction, SendData, ReadFail, ReadGarbage, GetStart, GetPacket, GetUnit, FinalFlush, GetEnd, GetResp, Read, Return
<1>2. inq = <<>> => inq' = inq
  BY DEF Transaction, SendData, ReadFail, ReadGarbage, GetStart, GetPacket, GetUnit, FinalFlush, GetEnd, GetResp, Read
<1>3. outq' = outq \/ (outq # <<>> /\ outq' = [outq EXCEPT ![Len(outq)].data = TRUE])
  BY DEF Transaction, SendData, ReadFail, ReadGarbage, GetStart, GetPacket, GetUnit, FinalFlush, GetEnd, GetResp, Accept
<1>4. Len(outq') = Len(outq)
  <2>1. outq \in Seq(Requests)
    BY Parts DEF Queues
  <2> QED
    BY <1>3, <2>1
<1> QED
  BY <1>1, <1>2, <1>3, <1>4

\* A prefix of the stream.
LEMMA GonePrefix ==
    ASSUME IInv, \E i \in 0..Len(inq) : inq' = SubSeq(inq, 1, i)
    PROVE  /\ inq = <<>> => inq' = <<>>
           /\ \A k \in 1..Len(inq') : inq'[k] = inq[k] /\ k \in 1..Len(inq) /\ (k < Len(inq') => k < Len(inq))
           /\ inq' = <<>> \/ inq'[1] = inq[1]
<1>1. inq \in Seq(Items) /\ Len(inq) \in Nat
  BY Parts DEF Queues
<1>2. PICK i \in 0..Len(inq) : inq' = SubSeq(inq, 1, i)
  OBVIOUS
<1>3. inq' \in Seq(Items) /\ Len(inq') = i /\ \A k \in 1..i : inq'[k] = inq[k] /\ k \in 1..Len(inq) /\ (k < i => k < Len(inq))
  BY <1>1, <1>2
<1>4. Len(inq) = 0 => Len(inq') = 0
  BY <1>1, <1>3
<1>5. inq = <<>> => inq' = <<>>
  BY <1>1, <1>3, <1>4, EmptySeq
<1>6. inq' = <<>> \/ 1 \in 1..i
  BY <1>3, EmptySeq
<1> QED
  BY <1>3, <1>5, <1>6

\* The answer to a request made in step is all that comes.
LEMMA SyncOwn ==
    ASSUME IInv, Next, tx' \notin {"none", "sendreq"}, synced'
    PROVE  /\ inq' = <<>> \/ outq' = <<>>
           /\ Len(outq') <= 1
           /\ \A k \in 1..Len(inq') : k < Len(inq') => inq'[k].type # "RESP"
<1>1. SyncInv /\ Queues
  BY Parts
<1>2. inq \in Seq(Items) /\ outq \in Seq(Requests) /\ Len(inq) \in Nat /\ Len(outq) \in Nat
  BY <1>1 DEF Queues
<1>3. ASSUME tx \notin {"none", "sendreq"}, synced
      PROVE  /\ inq = <<>> \/ outq = <<>>
             /\ Len(outq) <= 1
             /\ \A k \in 1..Len(inq) : k < Len(inq) => inq[k].type # "RESP"
  BY <1>1, <1>3 DEF SyncInv
<1>4. CASE SendReq
  <2>1. inq = <<>> /\ outq = <<>> /\ link = "up" /\ inq' = Foreign(inq)
        /\ outq' = Append(Foreign(outq), [op |-> op, want |-> want, data |-> FALSE, mine |-> TRUE])
    BY <1>4, SendEffect DEF InSync
  <2>2. Foreign(<<>>) = <<>>
    BY DEF Foreign
  <2> QED
    BY <2>1, <2>2
<1>5. CASE Transaction /\ ~SendReq
  <2>1. tx \notin {"none", "sendreq"} /\ synced
    BY <1>5, TransactionKeeps, TransactionEnds
  <2>2. inq' = inq \/ (inq # <<>> /\ inq' = Tail(inq))
    BY <1>5, TransactionReads
  <2>3. \A k \in 1..Len(inq') : k < Len(inq') => inq'[k].type # "RESP"
    <3>1. CASE inq # <<>> /\ inq' = Tail(inq)
      <4>1. \A k \in 1..Len(inq') : inq'[k] = inq[k + 1] /\ k + 1 \in 1..Len(inq) /\ (k < Len(inq') => k + 1 < Len(inq))
        BY <1>2, <3>1
      <4> QED
        BY <1>3, <2>1, <4>1
    <3> QED
      BY <1>3, <2>1, <2>2, <3>1
  <2> QED
    BY <1>2, <1>3, <1>5, <2>1, <2>3, TransactionReads
<1>6. CASE CamAnswer
  <2>1. UNCHANGED <<tx, synced>>
    BY <1>6, CameraKeeps
  <2>2. PICK q \in Seq(Items) :
          /\ inq' = inq \o q /\ outq' = Tail(outq) /\ outq # <<>>
          /\ \A k \in 1..Len(q) : k < Len(q) => q[k].type # "RESP"
    BY <1>6, Parts, Answer
  <2>3. inq = <<>> /\ Len(outq) <= 1
    BY <1>3, <2>1, <2>2
  <2>4. inq' = q
    BY <2>2, <2>3
  <2>5. Len(outq') = Len(outq) - 1 /\ Len(outq) >= 1 /\ outq' \in Seq(Requests)
    BY <1>2, <2>2
  <2>6. Len(outq') = 0
    BY <1>2, <2>3, <2>5
  <2>7. outq' = <<>>
    BY <2>5, <2>6, EmptySeq
  <2>8. Len(outq') <= 1
    BY <2>6
  <2>9. \A k \in 1..Len(inq') : k < Len(inq') => inq'[k].type # "RESP"
    BY <2>2, <2>4, Zenon
  <2> QED
    BY <2>7, <2>8, <2>9
<1>7. CASE CamGone
  <2>1. UNCHANGED <<tx, synced>> /\ outq' = <<>>
    BY <1>7, CameraKeeps DEF CamGone
  <2>2. \A k \in 1..Len(inq') : inq'[k] = inq[k] /\ k \in 1..Len(inq) /\ (k < Len(inq') => k < Len(inq))
    BY <1>7, GonePrefix DEF CamGone
  <2> QED
    BY <1>3, <2>1, <2>2
<1>8. ~(Procedure \/ Connect \/ CloseCamera \/ Call \/ NextTransaction \/ CallReturn)
  BY ProcedureTx
<1> QED
  BY <1>4, <1>5, <1>6, <1>7, <1>8 DEF Next, IpStep

\* A transaction made in step that ended with an answer has read all of it.
LEMMA SyncDone ==
    ASSUME IInv, Next, tx' = "none", synced', rc' \in {"OK", "code", "data_expected"},
           connected' \/ proc' = "open", proc' \notin {"initack", "event", "failed"}
    PROVE  InSync'
<1>1. SyncInv /\ Queues /\ ConnInv
  BY Parts
<1>2. inq \in Seq(Items) /\ Len(inq) \in Nat
  BY <1>1 DEF Queues
<1>3. ASSUME tx = "none", synced, rc \in {"OK", "code", "data_expected"},
             connected \/ proc = "open", proc \notin {"initack", "event", "failed"}
      PROVE  inq = <<>> /\ outq = <<>>
  BY <1>1, <1>3 DEF SyncInv, InSync
<1>4. CASE Transaction
  <2>1. (GetResp \/ GetStart) /\ ~SendReq
    BY <1>4, SendEffect, TransactionEnds DEF SendReq, GetResp, GetStart
  <2>2. synced
    BY <1>4, <2>1, TransactionEnds
  <2>3. tx \in {"resp", "start"} /\ inq # <<>> /\ inq' = Tail(inq) /\ outq' = outq
    BY <2>1, RespEffect, StartEffect
  <2>4. Head(inq).type = "RESP"
    BY <1>4, <2>2, TransactionEnds
  <2>5. (inq = <<>> \/ outq = <<>>) /\ \A k \in 1..Len(inq) : k < Len(inq) => inq[k].type # "RESP"
    BY <1>1, <2>2, <2>3 DEF SyncInv
  <2>6. Len(inq) = 1
    <3>1. Head(inq) = inq[1] /\ 1 \in 1..Len(inq)
      BY <1>1, <2>3, Heads
    <3>2. ~(1 < Len(inq))
      BY <2>4, <2>5, <3>1
    <3>3. \A n \in Nat : 1 \in 1..n /\ ~(1 < n) => n = 1
      OBVIOUS
    <3> QED
      BY <1>2, <3>1, <3>2, <3>3, Zenon
  <2>7. inq' = <<>>
    <3>1. Tail(inq) \in Seq(Items) /\ Len(Tail(inq)) = Len(inq) - 1
      BY <1>1, <2>3, Heads
    <3>2. Len(Tail(inq)) = 0
      BY <2>6, <3>1
    <3> QED
      BY <2>3, <3>1, <3>2, EmptySeq
  <2> QED
    BY <2>3, <2>5, <2>7 DEF InSync
<1>5. CASE CamAnswer
  <2>1. UNCHANGED <<tx, synced, rc, connected, proc>> /\ outq # <<>>
    BY <1>5, CameraKeeps DEF CamAnswer
  <2> QED
    BY <1>3, <2>1
<1>6. CASE CamGone
  <2>1. UNCHANGED <<tx, synced, rc, connected, proc>> /\ outq' = <<>>
    BY <1>6, CameraKeeps DEF CamGone
  <2>2. inq = <<>> => inq' = <<>>
    BY <1>6, GonePrefix DEF CamGone
  <2> QED
    BY <1>3, <2>1, <2>2 DEF InSync
<1>7. CASE InitAck \/ InitEvent \/ Connect \/ OpenFailed \/ SessionOpened \/ Call \/ NextTransaction
  BY <1>7 DEF InitAck, InitEvent, Connect, OpenFailed, SessionOpened, Call, NextTransaction, Begin
<1>8. CASE Opened \/ CallReturn
  <2>1. /\ proc \in {"devinfo", "call"} /\ UNCHANGED <<tx, synced, rc, connected, inq, outq>>
    BY <1>8 DEF Opened, CallReturn, Forget, wire
  <2>2. connected
    BY <1>1, <2>1 DEF ConnInv
  <2> QED
    BY <1>3, <2>1, <2>2 DEF InSync
<1>9. CASE CloseSockets
  BY <1>9 DEF CloseSockets
<1>10. CASE CloseCamera
  BY <1>10 DEF CloseCamera, Begin
<1> QED
  BY <1>4, <1>5, <1>6, <1>7, <1>8, <1>9, <1>10 DEF Next, IpStep, Procedure

\* Nothing is sent on a connection that is not up.
LEMMA SyncStep ==
    ASSUME IInv, Next PROVE SyncInv'
<1>1. SyncInv
  BY Parts
<1>2. link' # "up" => outq' = <<>>
  <2>0. Foreign(<<>>) = <<>>
    BY DEF Foreign
  <2>1. CASE SendReq
    <3>1. link' = link
      BY <2>1, TransactionKeeps DEF Transaction
    <3>2. link # "up" => outq' = outq \/ outq' = Foreign(outq)
      BY <2>1, SendEffect
    <3> QED
      BY <1>1, <2>0, <3>1, <3>2 DEF SyncInv
  <2>2. CASE Transaction /\ ~SendReq
    BY <1>1, <2>2, TransactionKeeps, TransactionReads DEF SyncInv
  <2>3. CASE CamAnswer \/ CamGone
    BY <1>1, <2>3 DEF CamAnswer, CamGone, SyncInv
  <2>4. CASE Procedure \/ Connect \/ CloseCamera \/ Call \/ NextTransaction \/ CallReturn
    <3>1. outq' = <<>> \/ UNCHANGED <<outq, link>>
      BY <2>4 DEF Procedure, InitAck, InitEvent, SessionOpened, Opened, OpenFailed, CloseSockets, Connect, CloseCamera, Call,
         NextTransaction, CallReturn, wire
    <3> QED
      BY <1>1, <3>1 DEF SyncInv
  <2> QED
    BY <2>1, <2>2, <2>3, <2>4 DEF Next, IpStep
<1> QED
  BY <1>2, SyncOwn, SyncDone DEF SyncInv

\* A damaged item stays at the head of the stream until it is read.
LEMMA RestStays ==
    ASSUME IInv, inq # <<>>, inq[1].type = "rest"
    PROVE  /\ CamAnswer => inq' # <<>> /\ inq'[1].type = "rest"
           /\ CamGone => (inq' # <<>> /\ inq'[1].type = "rest") \/ (inq' = <<>> /\ link' # "up")
           /\ SendReq => inq' # <<>> /\ inq'[1].type = "rest"
           /\ ~GetResp
<1>1. inq \in Seq(Items) /\ Len(inq) \in Nat /\ Head(inq) = inq[1] /\ 1 \in 1..Len(inq)
  BY Parts, Heads DEF Queues
<1>2. ASSUME CamAnswer PROVE inq' # <<>> /\ inq'[1].type = "rest"
  <2>1. PICK q \in Seq(Items) : inq' = inq \o q
    BY <1>2, Parts, Answer
  <2>2. inq'[1] = inq[1] /\ Len(inq') = Len(inq) + Len(q) /\ Len(q) \in Nat
    BY <1>1, <2>1
  <2>3. Len(inq') # 0
    BY <1>1, <2>2
  <2> QED
    BY <2>2, <2>3
<1>3. ASSUME CamGone PROVE (inq' # <<>> /\ inq'[1].type = "rest") \/ (inq' = <<>> /\ link' # "up")
  <2>1. inq' = <<>> \/ inq'[1] = inq[1]
    BY <1>3, GonePrefix DEF CamGone
  <2>2. link' # "up"
    BY <1>3 DEF CamGone
  <2> QED
    BY <2>1, <2>2
<1>4. ASSUME SendReq PROVE inq' # <<>> /\ inq'[1].type = "rest"
  <2>1. inq' = Foreign(inq)
    BY <1>4, SendEffect
  <2>2. Len(Foreign(inq)) = Len(inq) /\ Foreign(inq)[1].type = inq[1].type
    BY <1>1, ForeignItems
  <2>3. Len(inq') # 0
    BY <1>1, <2>1, <2>2
  <2> QED
    BY <2>1, <2>2, <2>3
<1>5. ASSUME GetResp PROVE FALSE
  BY <1>1, <1>5 DEF GetResp, Read, Headers
<1> QED
  BY <1>2, <1>3, <1>4, <1>5

\* Until OpenSession ends nothing but the rest of an acknowledgement is unread,
\* and OpenSession cannot read it as its response.
LEMMA HandAck ==
    ASSUME IInv, Next
    PROVE  /\ proc' = "initack" => InSync' /\ ~id'
           /\ proc' = "event" /\ id' => InSync'
           /\ proc' \in {"event", "open"} /\ ~id' =>
                  \/ inq' # <<>> /\ inq'[1].type = "rest"
                  \/ inq' = <<>> /\ link' # "up"
                  \/ proc' = "open" /\ tx' = "none" /\ rc' # "OK"
<1>1. HandInv /\ ConnInv /\ SyncInv /\ Queues
  BY Parts
<1>2. ASSUME proc \in {"event", "open"}, ~id
      PROVE  \/ inq # <<>> /\ inq[1].type = "rest"
             \/ inq = <<>> /\ link # "up"
             \/ proc = "open" /\ tx = "none" /\ rc # "OK"
  BY <1>1, <1>2 DEF HandInv
<1>3. CASE Transaction
  <2>1. UNCHANGED <<proc, id, op, link>> /\ tx # "none"
    BY <1>3, TransactionKeeps
  <2>2. proc \notin {"initack", "event"} /\ (proc = "open" => tx \in {"sendreq", "resp"})
    BY <1>1, <2>1 DEF ConnInv
  <2>3. ASSUME proc = "open", ~id
        PROVE  \/ inq' # <<>> /\ inq'[1].type = "rest"
               \/ inq' = <<>> /\ link' # "up"
               \/ proc' = "open" /\ tx' = "none" /\ rc' # "OK"
    <3>1. (inq # <<>> /\ inq[1].type = "rest") \/ (inq = <<>> /\ link # "up")
      BY <1>2, <2>1, <2>3
    <3>2. CASE SendReq
      <4>1. Foreign(<<>>) = <<>>
        BY DEF Foreign
      <4> QED
        BY <2>1, <3>1, <3>2, <4>1, SendEffect, RestStays
    <3>3. CASE ~SendReq
      <4>1. tx = "resp"
        BY <1>3, <2>2, <2>3, <3>3, TransactionEnds
      <4>2. ~GetResp
        <5>1. GetResp => inq # <<>>
          BY RespEffect
        <5> QED
          BY <3>1, <5>1, RestStays
      <4>3. tx' = "none"
        BY <1>3, <4>1 DEF Transaction, SendReq, SendData, ReadFail, ReadGarbage, GetStart, GetPacket, GetUnit, FinalFlush, GetEnd,
           GetResp, Return
      <4>4. rc' # "OK"
        BY <1>3, <4>2, <4>3, TransactionEnds
      <4> QED
        BY <2>1, <2>3, <4>3, <4>4
    <3> QED
      BY <3>2, <3>3
  <2> QED
    BY <2>1, <2>2, <2>3
<1>4. CASE CamAnswer
  <2>1. UNCHANGED <<proc, id, tx, rc, link>> /\ outq # <<>> /\ link = "up"
    BY <1>4, CameraKeeps DEF CamAnswer
  <2>2. proc # "initack" /\ ~(proc = "event" /\ id)
    BY <1>1, <2>1 DEF HandInv, InSync
  <2> QED
    BY <1>2, <1>4, <2>1, <2>2, RestStays
<1>5. CASE CamGone
  <2>1. UNCHANGED <<proc, id, tx, rc>> /\ outq' = <<>> /\ link' # "up"
    BY <1>5, CameraKeeps DEF CamGone
  <2>2. inq = <<>> => inq' = <<>>
    BY <1>5, GonePrefix DEF CamGone
  <2>3. proc = "initack" => InSync /\ ~id
    BY <1>1 DEF HandInv
  <2>4. proc = "event" /\ id => InSync
    BY <1>1 DEF HandInv
  <2> QED
    BY <1>2, <1>5, <2>1, <2>2, <2>3, <2>4, RestStays DEF InSync
<1>6. CASE InitAck
  <2>1. proc = "initack" /\ outq' = outq /\ UNCHANGED tx
    BY <1>6 DEF InitAck, trans
  <2>2. InSync
    BY <1>1, <2>1 DEF HandInv
  <2>3. CASE proc' = "event" /\ id' = TRUE /\ inq' = inq
    BY <2>1, <2>2, <2>3 DEF InSync
  <2>4. CASE proc' = "event" /\ id' = FALSE /\ inq' = <<Item("rest", 0)>>
    <3>1. inq' # <<>> /\ inq'[1].type = "rest"
      BY <2>4 DEF Item
    <3> QED
      BY <2>4, <3>1
  <2>5. CASE proc' = "failed"
    BY <2>5
  <2> QED
    BY <1>6, <2>3, <2>4, <2>5 DEF InitAck
<1>7. CASE InitEvent
  <2>1. /\ proc = "event" /\ UNCHANGED <<id, inq, outq, link>>
        /\ (proc' = "open" /\ link = "up") \/ proc' = "failed"
    BY <1>7 DEF InitEvent, wire
  <2> QED
    BY <1>2, <2>1
<1>8. CASE Connect
  <2>1. inq' = <<>> /\ outq' = <<>> /\ id' = FALSE /\ proc' \in {"initack", "failed"}
    BY <1>8 DEF Connect
  <2> QED
    BY <2>1 DEF InSync
<1>9. CASE SessionOpened \/ Opened \/ OpenFailed \/ CloseSockets \/ CloseCamera \/ Call \/ NextTransaction \/ CallReturn
  <2>1. proc' \notin {"initack", "event", "open"}
    BY <1>9 DEF SessionOpened, Opened, OpenFailed, CloseSockets, CloseCamera, Call, NextTransaction, CallReturn
  <2> QED
    BY <2>1
<1> QED
  BY <1>3, <1>4, <1>5, <1>6, <1>7, <1>8, <1>9 DEF Next, IpStep, Procedure

\* With the whole acknowledgement read, the transactions of con:connect begin in
\* step, or the connection is lost and they get nothing.
LEMMA HandSync ==
    ASSUME IInv, Next, proc' \in {"open", "devinfo"}, id'
    PROVE  /\ tx' = "sendreq" => InSync'
           /\ tx' \notin {"none", "sendreq"} /\ ~synced' => link' # "up" /\ InSync'
           /\ tx' = "none" /\ rc' = "OK" => synced'
<1>1. HandInv /\ ConnInv /\ SyncInv /\ Queues
  BY Parts
<1>2. ASSUME proc \in {"open", "devinfo"}, id
      PROVE  /\ tx = "sendreq" => InSync
             /\ tx \notin {"none", "sendreq"} /\ ~synced => link # "up" /\ InSync
             /\ tx = "none" /\ rc = "OK" => synced
  BY <1>1, <1>2 DEF HandInv
<1>3. CASE Transaction
  <2>1. UNCHANGED <<proc, id, link>> /\ tx # "none" /\ proc \in {"open", "devinfo"} /\ id
    BY <1>3, TransactionKeeps
  <2>2. CASE SendReq
    <3>1. InSync /\ inq' = Foreign(inq) /\ synced' = (InSync /\ link = "up") /\ Foreign(<<>>) = <<>>
      BY <1>2, <2>1, <2>2, SendEffect DEF Foreign
    <3>2. inq = <<>> /\ outq = <<>> /\ inq' = <<>>
      BY <3>1 DEF InSync
    <3>3. tx' # "none" /\ link # "up" => outq' = <<>>
      BY <2>2, <3>2, SendEffect
    <3>4. ~synced' => link # "up"
      BY <3>1, Zenon
    <3>5. tx' # "sendreq" /\ ~(tx' = "none" /\ rc' = "OK")
      BY <2>2, SendEffect
    <3> QED
      BY <2>1, <3>2, <3>3, <3>4, <3>5 DEF InSync
  <2>3. CASE ~SendReq
    <3>1. tx \notin {"none", "sendreq"} /\ synced' = synced /\ tx' # "sendreq"
      BY <1>3, <2>1, <2>3, TransactionEnds
    <3>2. ~synced => link # "up" /\ inq = <<>> /\ outq = <<>>
      BY <1>2, <2>1, <3>1 DEF InSync
    <3>3. ~synced => link' # "up" /\ InSync'
      BY <1>3, <2>1, <2>3, <3>2, TransactionReads DEF InSync
    <3>4. tx' = "none" /\ rc' = "OK" => inq # <<>>
      BY <1>3, TransactionEnds, RespEffect
    <3>5. tx' = "none" /\ rc' = "OK" => synced
      BY <3>2, <3>4
    <3>6. (synced' <=> synced)
      BY <3>1
    <3> QED
      BY <3>1, <3>3, <3>5, <3>6
  <2> QED
    BY <2>2, <2>3
<1>4. CASE CamAnswer
  <2>1. UNCHANGED <<proc, id, tx, rc, link, synced>> /\ outq # <<>> /\ link = "up" /\ proc \in {"open", "devinfo"} /\ id
    BY <1>4, CameraKeeps DEF CamAnswer
  <2>2. ~InSync
    BY <2>1 DEF InSync
  <2> QED
    BY <1>2, <2>1, <2>2
<1>5. CASE CamGone
  <2>1. UNCHANGED <<proc, id, tx, rc, synced>> /\ outq' = <<>> /\ link' # "up" /\ proc \in {"open", "devinfo"} /\ id
    BY <1>5, CameraKeeps DEF CamGone
  <2>2. InSync => InSync'
    BY <1>5, <2>1, GonePrefix DEF CamGone, InSync
  <2> QED
    BY <1>2, <2>1, <2>2
<1>6. CASE InitEvent
  <2>1. proc = "event" /\ tx' = "sendreq" /\ UNCHANGED <<id, inq, outq>>
    BY <1>6 DEF InitEvent, Begin, wire
  <2> QED
    BY <1>1, <2>1 DEF HandInv, InSync
<1>7. CASE SessionOpened
  <2>1. proc = "open" /\ tx = "none" /\ rc = "OK" /\ tx' = "sendreq" /\ UNCHANGED <<id, inq, outq>>
    BY <1>7 DEF SessionOpened, Begin, wire, sockets
  <2>2. synced
    BY <1>2, <2>1
  <2>3. InSync
    BY <1>1, <2>1, <2>2 DEF SyncInv
  <2> QED
    BY <2>1, <2>3 DEF InSync
<1>8. CASE InitAck \/ Connect \/ Opened \/ OpenFailed \/ CloseSockets \/ CloseCamera \/ Call \/ NextTransaction \/ CallReturn
  <2>1. proc' \notin {"open", "devinfo"}
    BY <1>8 DEF InitAck, Connect, Opened, OpenFailed, CloseSockets, CloseCamera, Call, NextTransaction, CallReturn
  <2> QED
    BY <2>1
<1> QED
  BY <1>3, <1>4, <1>5, <1>6, <1>7, <1>8 DEF Next, IpStep, Procedure

\* An OpenSession that succeeds follows a whole acknowledgement.
LEMMA HandStep ==
    ASSUME IInv, Next PROVE HandInv'
<1>1. HandInv /\ ConnInv
  BY Parts
<1>2. ASSUME proc' = "open", tx' = "none", rc' = "OK" PROVE id'
  <2>1. CASE Transaction
    <3>1. GetResp /\ proc = "open" /\ id' = id /\ tx # "none"
      BY <1>2, <2>1, TransactionEnds, TransactionKeeps
    <3>2. inq # <<>> /\ ~(inq[1].type = "rest")
      BY <3>1, RespEffect, RestStays
    <3>3. id
      BY <1>1, <3>1, <3>2 DEF HandInv
    <3> QED
      BY <3>1, <3>3
  <2>2. CASE CamAnswer \/ CamGone
    <3>1. UNCHANGED <<proc, id, tx, rc>>
      BY <2>2, CameraKeeps
    <3> QED
      BY <1>1, <1>2, <3>1 DEF HandInv
  <2>3. CASE Procedure \/ Connect \/ CloseCamera \/ Call \/ NextTransaction \/ CallReturn
    BY <1>2, <2>3 DEF Procedure, InitAck, InitEvent, SessionOpened, Opened, OpenFailed, CloseSockets, Connect, CloseCamera, Call,
       NextTransaction, CallReturn, Begin
  <2> QED
    BY <2>1, <2>2, <2>3 DEF Next, IpStep
<1> QED
  BY <1>2, HandAck, HandSync DEF HandInv

-----------------------------------------------------------------------------
\* The invariant holds, and what follows from it.

\* Nothing is connected at first.
LEMMA Start == Init => IInv
<1> SUFFICES ASSUME Init PROVE IInv
  OBVIOUS
<1>1. /\ connected = FALSE /\ cmd_sock = FALSE /\ event_sock = FALSE /\ ai = FALSE
      /\ id = FALSE /\ proc = "none" /\ tx = "none" /\ op = "Close" /\ gd = NoData
      /\ rc = "none" /\ want = 0 /\ param = 0 /\ own = TRUE /\ synced = TRUE
      /\ outq = <<>> /\ inq = <<>> /\ link = "none" /\ session = FALSE /\ faults = 0
      /\ call = Idle /\ step = 1
  BY DEF Init, IpInit
<1>2. Flags /\ Places /\ Numbers /\ Queues /\ Calls
  <2>1. Flags
    BY <1>1 DEF Flags
  <2>2. Places /\ Numbers
    BY <1>1, Constants DEF Places, Numbers
  <2>3. Queues /\ Calls
    BY <1>1 DEF Queues, Calls
  <2> QED
    BY <2>1, <2>2, <2>3
<1>3. Locals
  <2>1. 0 \in 0..MaxUnits /\ FALSE \in BOOLEAN /\ <<>> \in Seq(1..MaxUnits)
    BY Constants
  <2> QED
    BY <1>1, <2>1, Zenon DEF Locals, NoData
<1>4. StreamInv /\ RestInv
  <2>1. PICK s \in Positions : s.n = -1
    <3>1. [n |-> -1, at |-> 0, left |-> 0, end |-> FALSE, fresh |-> FALSE] \in Positions
      BY Constants DEF Positions
    <3> QED
      BY <3>1
  <2>2. Runs(inq, s, s) /\ s.n = -1 /\ ~InData
    BY <1>1, <2>1, RunNone DEF InData
  <2> QED
    BY <1>1, <2>2 DEF StreamInv, RestInv
<1>5. TxInv /\ DoneInv /\ MineInv
  BY <1>1 DEF TxInv, DoneInv, MineInv, InData
<1>6. GdInv
  <2>1. gd.read = 0 /\ gd.total = 0 /\ gd.block = <<>> /\ gd.out = <<>> /\ Len(<<>>) = 0
    BY <1>1 DEF NoData
  <2> QED
    BY <1>1, <2>1, Constants DEF GdInv, Counted
<1>7. CallInv /\ ConnInv /\ SyncInv /\ HandInv
  BY <1>1 DEF CallInv, ConnInv, NotHeld, SyncInv, HandInv
<1> QED
  BY <1>2, <1>3, <1>4, <1>5, <1>6, <1>7 DEF IInv, TypeInv

\* A step keeps it, and so does one that changes nothing.
LEMMA Step == IInv /\ [Next]_callvars => IInv'
<1>1. ASSUME IInv, Next PROVE IInv'
  <2>1. Flags' /\ Places' /\ Numbers' /\ Calls' /\ Locals' /\ Queues'
    BY <1>1, Parts, FlagsStep, PlacesStep, NumbersStep, LocalsStep, QueuesStep
  <2>2. StreamInv' /\ RestInv' /\ TxInv' /\ GdInv' /\ DoneInv' /\ MineInv' /\ CallInv' /\ ConnInv' /\ SyncInv' /\ HandInv'
    BY <1>1, StreamStep, TxStep, GdStep, DoneStep, MineStep, CallStep, ConnStep, SyncStep, HandStep
  <2> QED
    BY <2>1, <2>2 DEF IInv, TypeInv
<1>2. ASSUME IInv, UNCHANGED callvars PROVE IInv'
  <2>1. UNCHANGED <<connected, cmd_sock, event_sock, ai, id, proc, tx, op, gd, rc, want, param, own, synced,
                    outq, inq, link, session, faults, call, step>>
    BY <1>2 DEF callvars, ipvars, sockets, trans, wire
  <2>2. Flags' /\ Places' /\ Numbers' /\ Calls' /\ Locals' /\ Queues'
    BY <1>2, <2>1, Parts DEF Flags, Places, Numbers, Calls, Locals, Queues
  <2>3. (InData' <=> InData) /\ (\A s : AtGd(s)' <=> AtGd(s)) /\ (InSync' <=> InSync)
    BY <2>1 DEF InData, AtGd, InSync
  <2>4. StreamInv' /\ RestInv'
    BY <1>2, <2>1, <2>3, Parts DEF StreamInv, RestInv
  <2>5. TxInv' /\ DoneInv' /\ MineInv'
    BY <1>2, <2>1, <2>3, Parts DEF TxInv, DoneInv, MineInv
  <2>6. GdInv'
    BY <1>2, <2>1, Parts DEF GdInv, Counted
  <2>7. CallInv' /\ ConnInv'
    BY <1>2, <2>1, Parts DEF CallInv, ConnInv, NotHeld
  <2>8. SyncInv' /\ HandInv'
    BY <1>2, <2>1, <2>3, Parts DEF SyncInv, HandInv
  <2> QED
    BY <2>2, <2>4, <2>5, <2>6, <2>7, <2>8 DEF IInv, TypeInv
<1> QED
  BY <1>1, <1>2

\* The strengthened invariant holds in every state.
LEMMA Always == Spec => []IInv
  BY Start, Step, PTL DEF Spec

\* A socket that is open is held by one of the two variables, or has leaked.
SocketsCounted ==
    /\ opened \in Nat /\ leaked \in Nat
    /\ opened = leaked + (IF cmd_sock THEN 1 ELSE 0) + (IF event_sock THEN 1 ELSE 0)

\* The handshake has no event socket yet; every step keeps the count.
EventLast == proc \in {"initack", "event"} => ~event_sock

\* Every step keeps count of the sockets.
LEMMA SocketsStep ==
    ASSUME IInv, SocketsCounted, EventLast, [Next]_callvars
    PROVE  SocketsCounted' /\ EventLast'
<1>1. NotHeld /\ Flags
  BY Parts DEF ConnInv
<1>2. CASE UNCHANGED <<cmd_sock, event_sock, opened, leaked, proc>>
  BY <1>2 DEF SocketsCounted, EventLast
<1>3. CASE Connect
  <2>1. ~cmd_sock /\ ~event_sock /\ event_sock' = event_sock /\ leaked' = 0
        /\ \/ cmd_sock' = TRUE /\ opened' = 1
           \/ cmd_sock' = cmd_sock /\ opened' = 0
    BY <1>1, <1>3 DEF Connect, NotHeld
  <2> QED
    BY <2>1 DEF SocketsCounted, EventLast
<1>4. CASE InitAck
  BY <1>4 DEF InitAck, SocketsCounted, EventLast
<1>5. CASE InitEvent
  <2>1. ~event_sock /\ cmd_sock' = cmd_sock /\ proc' \notin {"initack", "event"}
        /\ (EventSocket(TRUE, FALSE) \/ EventSocket(FALSE, TRUE) \/ EventSocket(FALSE, FALSE))
    BY <1>5 DEF InitEvent, EventLast
  <2>2. CASE EventSocket(TRUE, FALSE)
    BY <2>1, <2>2 DEF EventSocket, SocketsCounted, EventLast
  <2>3. CASE EventSocket(FALSE, TRUE)
    BY <2>1, <2>3 DEF EventSocket, SocketsCounted, EventLast
  <2>4. CASE EventSocket(FALSE, FALSE)
    BY <2>1, <2>4 DEF EventSocket, SocketsCounted, EventLast
  <2> QED
    BY <2>1, <2>2, <2>3, <2>4
<1>6. CASE CloseSockets
  <2>1. /\ cmd_sock' = FALSE /\ event_sock' = FALSE /\ leaked' = leaked /\ proc' = "none"
        /\ opened' = opened - (IF cmd_sock THEN 1 ELSE 0) - (IF event_sock THEN 1 ELSE 0)
    BY <1>6 DEF CloseSockets
  <2> QED
    BY <2>1 DEF SocketsCounted, EventLast
<1>7. CASE Transaction
  BY <1>7, TransactionKeeps DEF SocketsCounted, EventLast, Transaction, SendReq, SendData, ReadFail, ReadGarbage,
     GetStart, GetPacket, GetUnit, FinalFlush, GetEnd, GetResp, Stay, sockets
<1>8. CASE CamAnswer \/ CamGone
  BY <1>8 DEF SocketsCounted, EventLast, CamAnswer, CamGone, sockets
<1>9. CASE SessionOpened \/ Opened \/ OpenFailed \/ CloseCamera \/ Call \/ NextTransaction \/ CallReturn
  <2>1. UNCHANGED <<cmd_sock, event_sock, opened, leaked>> /\ proc' \notin {"initack", "event"}
    BY <1>9 DEF SessionOpened, Opened, OpenFailed, CloseCamera, Call, NextTransaction, CallReturn, sockets
  <2> QED
    BY <2>1 DEF SocketsCounted, EventLast
<1>10. CASE UNCHANGED callvars
  BY <1>2, <1>10 DEF callvars, ipvars, sockets
<1> QED
  BY <1>3, <1>4, <1>5, <1>6, <1>7, <1>8, <1>9, <1>10 DEF Next, IpStep, Procedure

\* The sockets are counted in every state.
LEMMA SocketsAlways == Spec => []SocketsCounted
<1>1. Init => SocketsCounted /\ EventLast
  BY DEF Init, IpInit, SocketsCounted, EventLast
<1> QED
  BY <1>1, SocketsStep, Always, PTL DEF Spec

\* The variables of the connection, the transaction and the call keep their types.
THEOREM PtpTyped == Spec => []TypeOK
<1>1. IInv /\ SocketsCounted => TypeOK
  <2> SUFFICES ASSUME IInv, SocketsCounted PROVE TypeOK
    OBVIOUS
  <2>1. Flags /\ Places /\ Numbers /\ Locals /\ Queues /\ Calls
    BY Parts
  <2>2. \A i \in DOMAIN inq : inq[i] \in [type : Headers \cup {"unit", "rest"}, v : -1..MaxUnits, mine : BOOLEAN]
    <3>1. inq \in Seq(Items)
      BY <2>1 DEF Queues
    <3>2. \A i \in DOMAIN inq : inq[i] \in Items
      BY <3>1
    <3> QED
      BY <3>2 DEF Items
  <2>3. \A i \in DOMAIN outq : outq[i] \in [op : DOMAIN Shape, want : 0..MaxUnits, data : BOOLEAN, mine : BOOLEAN]
    <3>1. outq \in Seq(Requests)
      BY <2>1 DEF Queues
    <3>2. \A i \in DOMAIN outq : outq[i] \in Requests
      BY <3>1
    <3> QED
      BY <3>2 DEF Requests
  <2>4. {connected, cmd_sock, event_sock, ai, id, own, synced, session} \subseteq BOOLEAN
    BY <2>1 DEF Flags
  <2>5. {opened, leaked} \subseteq Nat
    BY DEF SocketsCounted
  <2> QED
    BY <2>1, <2>2, <2>3, <2>4, <2>5 DEF TypeOK, IpTypeOK, Places, Numbers, Locals, Calls
<1> QED
  BY <1>1, Always, SocketsAlways, PTL

\* No step of a connect that fails, or of a disconnect, leaves a socket or the
\* address list behind (close_camera_tcp), but for the event socket that could
\* not be connected.
THEOREM ReleasedAlways == Spec => []Released
<1>1. IInv /\ SocketsCounted => Released
  BY Parts DEF ConnInv, NotHeld, SocketsCounted, Released
<1> QED
  BY <1>1, Always, SocketsAlways, PTL

\* A transaction that began on an idle connection and got an answer has read all
\* of it, however the camera cuts its data into packets (got_end in
\* ptp_tcp_getdata).
THEOREM IpSyncAlways == Spec => []IpSyncKept
<1>1. IInv => IpSyncKept
  BY Parts DEF SyncInv, IpSyncKept
<1> QED
  BY <1>1, Always, PTL

\* con:connect that succeeds has both sockets and has read all that the camera
\* sent, also when the acknowledgement came in pieces (chdkptp.c:312).
THEOREM ConnectSyncs == Spec => IpConnectSyncs
<1>1. ASSUME IInv, Next, proc = "devinfo", proc' = "none"
      PROVE  InSync' /\ id' /\ cmd_sock' /\ event_sock' /\ connected'
  <2>1. Opened
    <3>1. ~(Transaction \/ CamAnswer \/ CamGone)
      BY <1>1, TransactionKeeps, CameraKeeps
    <3> QED
      BY <1>1, <3>1 DEF Next, IpStep, Procedure, InitAck, InitEvent, SessionOpened, OpenFailed, CloseSockets, Connect, CloseCamera,
         Call, NextTransaction, CallReturn
  <2>2. tx = "none" /\ rc = "OK" /\ UNCHANGED <<connected, cmd_sock, event_sock, ai, id, inq, outq>>
    BY <2>1 DEF Opened, sockets, wire
  <2>3. id /\ cmd_sock /\ event_sock /\ connected
    BY <1>1, Parts DEF ConnInv
  <2>4. synced
    BY <1>1, <2>2, <2>3, Parts DEF HandInv
  <2>5. InSync
    BY <1>1, <2>2, <2>3, <2>4, Parts DEF SyncInv
  <2> QED
    BY <2>2, <2>3, <2>5 DEF InSync
<1>2. IInv /\ [Next]_callvars =>
          [(proc = "devinfo" /\ proc' = "none") => InSync' /\ id' /\ cmd_sock' /\ event_sock' /\ connected']_ipvars
  BY <1>1 DEF callvars
<1> QED
  BY <1>2, Always, PTL DEF Spec, IpConnectSyncs

\* A download writes what the camera sent once and in order, nothing is written
\* past a buffer, and what a call returns lies within the data that arrived, but
\* for GetObject, whose length the camera is not told.
THEOREM DataSoundAlways == Spec => []DataSound
<1>1. IInv => DataSound
  <2> SUFFICES ASSUME IInv PROVE DataSound
    OBVIOUS
  <2>1. Locals /\ GdInv /\ DoneInv /\ CallInv /\ Numbers
    BY Parts
  <2>2. PICK out \in Seq(1..MaxUnits) : out = gd.out
    BY <2>1 DEF Locals
  <2>3. FileSound
    <3>1. \A i \in DOMAIN gd.out : gd.out[i] = i
      BY <2>1, <2>2 DEF GdInv, Counted
    <3>2. op = "file" /\ tx = "none" /\ rc = "OK" => Len(gd.out) = param
      BY <2>1, Constants DEF DoneInv, Data
    <3> QED
      BY <3>1, <3>2 DEF FileSound
  <2>4. gd.read <= gd.total /\ Len(gd.block) <= BlockUnits
    <3>1. PICK block \in Seq(1..MaxUnits) : block = gd.block
      BY <2>1 DEF Locals
    <3>2. Len(block) < BlockUnits /\ Len(block) \in Nat
      BY <2>1, <3>1 DEF GdInv
    <3> QED
      BY <2>1, <3>1, <3>2, Constants DEF GdInv
  <2>5. ASSUME proc = "call", tx = "none", rc = "OK", own, call.len # "caller"
        PROVE  Taken <= Len(gd.out)
    <3>1. call \in Methods /\ step \in 1..Len(call.ops) /\ op = call.ops[step] /\ (call.len = "arg" => want > 0)
      BY <2>1, <2>5 DEF CallInv
    <3>2. Shape[op] \in Data => Len(gd.out) = gd.total /\ param = gd.total /\ (want > 0 => gd.total = want)
      BY <2>1, <2>5 DEF DoneInv
    <3>3. Len(out) \in Nat
      OBVIOUS
    <3>4. call.len = "arg" => Taken = Len(gd.out)
      BY <2>1, <3>1, <3>2 DEF Taken, CallInv
    <3>5. call.len = "resp" => Taken = Len(gd.out)
      <4>1. call.len = "resp" => Len(call.ops) = 1 /\ call.ops[1] = "get"
        BY <3>1, MethodsKnown
      <4>2. call.len = "resp" => op = "get"
        BY <3>1, <4>1
      <4> QED
        BY <3>2, <4>2, Constants DEF Taken, Data
    <3>6. call.len \notin {"arg", "resp"} => Taken = Len(gd.out)
      BY DEF Taken
    <3> QED
      BY <2>2, <3>3, <3>4, <3>5, <3>6
  <2> QED
    BY <2>3, <2>4, <2>5 DEF DataSound, BuffersKept
<1> QED
  BY <1>1, Always, PTL
=============================================================================

----------------------------- MODULE ByteStream -----------------------------
(***************************************************************************)
(* What a caller of the transport reads in ptp.c is promised: the camera's *)
(* bytes are handed out in stream order, each at most once.  A byte is     *)
(* named by its index in the stream.  A read that succeeds delivers the    *)
(* next bytes, without a gap; a read that fails drops some number of them, *)
(* and no later read sees those again.                                     *)
(***************************************************************************)
EXTENDS Integers

VARIABLES
    next,     \* index of the first byte neither delivered nor dropped
    block     \* the bytes of the last read, a function from 0; empty if none

vars == <<next, block>>

Init == next = 0 /\ block = [i \in 0..(-1) |-> 0]

\* A successful read: bytes next, next + 1, ... up to the new next.
Deliver ==
    /\ next' >= next
    /\ block' = [i \in 0..(next' - next - 1) |-> next + i]

\* A read that begins or fails: nothing is delivered, bytes may be lost.
Drop ==
    /\ next' >= next
    /\ block' = [i \in 0..(-1) |-> 0]

Next == Deliver \/ Drop

Spec == Init /\ [][Next]_vars
=============================================================================

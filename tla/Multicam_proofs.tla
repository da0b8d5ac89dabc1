--------------------------- MODULE Multicam_proofs ---------------------------
(***************************************************************************)
(* Proofs about Multicam for any list of cameras and any bounds.           *)
(***************************************************************************)
EXTENDS Multicam, FiniteSetTheorems, SequenceTheorems, WellFoundedInduction, TLAPS

\* What the type invariant says, with the types of the functions: a command
\* that is queued or carried out is a record, and so is an answer.
CmdRec == {m \in [name : Commands, arg : Args, call : 0..Budget, left : -1..ListLen] :
              m.name = "setid" => m.arg \in Ids}
ResultType == [failed : BOOLEAN, done : BOOLEAN, from : Seq(Cams), call : 0..Budget]
AnswerType == [msg : MsgType, want : 0..Ticks]
JobType == [cam : Cams, id : Ids]
OpType == {o \in [name : Commands \cup {"none"}, arg : Ids \cup {0}, wait : BOOLEAN] :
              o.name = "setid" => o.arg \in Ids}
Places == {"idle", "flush", "send", "wait", "ask", "answer", "setid", "start", "stop", "exec"}

ScriptsTyped ==
    /\ running \in [Cams -> BOOLEAN] /\ known \in [Cams -> BOOLEAN]
    /\ cid \in [Cams -> Ids \cup {0}]

QueuesTyped ==
    /\ inq \in [Cams -> Seq(CmdRec)] /\ outq \in [Cams -> Seq(MsgType)]
    /\ cur \in [Cams -> CmdRec \cup {NoCmd}]
    /\ \A c \in Cams : Len(inq[c]) <= QueueMax /\ Len(outq[c]) <= QueueMax

HostTyped ==
    /\ mc_id \in [Cams -> Ids] /\ op \in OpType
    /\ selected \in Seq(Cams) /\ todo \in Seq(Cams) /\ saved \in Seq(Cams)
    /\ pc \in Places /\ ret \in {"none", "all", "timeout", "over"}

AnswersTyped ==
    /\ results \in [Ids -> ResultType] /\ complete \in Nat
    /\ answers \in [Cams -> Seq(AnswerType)]

CountsTyped ==
    /\ jobs \in Seq(JobType) /\ calls \in Nat /\ faults \in Nat /\ Left >= 0
    /\ quiet \subseteq Cams /\ silent \subseteq Cams /\ refused \subseteq Cams

Distinct(s) == \A i, j \in 1..Len(s) : s[i] = s[j] => i = j
In(c, s)    == \E k \in 1..Len(s) : s[k] = c
Later(c)    == \E k \in 2..Len(todo) : todo[k] = c

\* What the place in a call says of its command, of its cameras and of the
\* ids that are left to give.
Commanding ==
    /\ pc = "flush" => op.name \in {"shoot", "exit", "tick", "setid"}
    /\ pc \in {"send", "wait"} => op.name \in {"shoot", "exit", "setid"}
    /\ pc \in {"ask", "answer"} => op.name \in {"tick", "list"}
    /\ ret = "none" <=> pc # "idle"

Counting ==
    /\ pc \in {"flush", "send"} => complete = 0
    /\ pc \in {"ask", "answer"} => complete <= Ticks /\ (op.name = "list" => complete = 0)

Looping ==
    /\ Distinct(selected) /\ Distinct(todo) /\ Distinct(saved)
    /\ Cams # {} => selected # <<>>
    /\ pc \in {"start", "stop", "exec"} => todo # <<>>
    /\ pc \in {"send", "wait"} => \A c \in Cams : In(c, todo) => In(c, selected)

GivingIds ==
    /\ jobs # <<>> => pc = "setid" \/ (op.name = "setid" /\ pc \in {"flush", "send", "wait"})
    /\ op.name = "setid" /\ pc \in {"flush", "send", "wait"} => saved # <<>>
    /\ op.name = "setid" /\ pc \in {"flush", "send"} => Len(todo) = 1 /\ selected = todo

Control == Commanding /\ Counting /\ Looping /\ GivingIds

TypeInv == ScriptsTyped /\ QueuesTyped /\ HostTyped /\ AnswersTyped /\ CountsTyped /\ Control

-----------------------------------------------------------------------------
\* The first of a sequence and the others.
LEMMA Popped ==
    ASSUME NEW S, NEW q \in Seq(S), q # <<>>
    PROVE  /\ Len(q) \in Nat \ {0} /\ Head(q) = q[1] /\ q[1] \in S
           /\ Tail(q) \in Seq(S) /\ Len(Tail(q)) = Len(q) - 1 /\ Len(Tail(q)) \in Nat
           /\ \A i \in 1..Len(Tail(q)) : Tail(q)[i] = q[i + 1]
  <1>1. Len(q) \in Nat \ {0}
    BY EmptySeq
  <1>2. Head(q) = q[1] /\ q[1] \in S
    BY <1>1, ElementOfSeq DEF Head
  <1>3. Tail(q) \in Seq(S) /\ Len(Tail(q)) = Len(q) - 1 /\ \A i \in 1..Len(Tail(q)) : Tail(q)[i] = q[i + 1]
    BY HeadTailProperties
  <1>4. Len(q) - 1 \in Nat
    BY <1>1
  <1> QED
    BY <1>1, <1>2, <1>3, <1>4

\* The constants are numbers, and there are finitely many cameras.
LEMMA Constants ==
    /\ Budget \in Nat /\ QueueMax \in Nat /\ QueueMax > 0 /\ ListLen \in Nat /\ Ticks \in Nat
    /\ Ids \subseteq Nat \ {0} /\ IsFiniteSet(Cams)
    /\ CamList \in Seq(Cams) /\ \A i, j \in 1..Len(CamList) : CamList[i] = CamList[j] => i = j
  <1>1. CamList \in Seq(Cams) /\ DOMAIN CamList = 1..Len(CamList) /\ Len(CamList) \in Nat
    BY CamsAssumption, LenProperties
  <1>2. CamList \in Surjection(1..Len(CamList), Cams)
    BY <1>1, LenProperties DEF Surjection, Cams
  <1>3. IsFiniteSet(1..Len(CamList))
    BY <1>1, FS_Interval
  <1>4. IsFiniteSet(Cams)
    BY <1>2, <1>3, FS_Surjection
  <1>5. \A i, j \in 1..Len(CamList) : CamList[i] = CamList[j] => i = j
    BY <1>1, CamsAssumption DEF IsInjective
  <1> QED
    BY <1>1, <1>4, <1>5, IdsAssumption, BoundsAssumption

\* A selection in the order of the ids has each camera once.
LEMMA SortedFacts ==
    ASSUME NEW S \in SUBSET Cams, NEW id, NEW s \in Sorted(S, id)
    PROVE  s \in Seq(Cams) /\ Distinct(s) /\ (S # {} => s # <<>>)
  <1>1. IsFiniteSet(S) /\ Cardinality(S) \in Nat /\ (Cardinality(S) = 0 <=> S = {})
    BY Constants, FS_Subset, FS_CardinalityType, FS_EmptySet
  <1>2. s \in [1..Cardinality(S) -> S] /\ \A i, j \in 1..Cardinality(S) : i # j => s[i] # s[j]
    BY DEF Sorted, SetToSeqs
  <1>3. s \in Seq(S) /\ Len(s) = Cardinality(S)
    BY <1>1, <1>2, SeqDef, LenProperties
  <1>4. s \in Seq(Cams)
    BY <1>3, SeqMonotonic
  <1>5. Distinct(s)
    BY <1>2, <1>3 DEF Distinct
  <1>6. S # {} => s # <<>>
    BY <1>1, <1>3, EmptySeq
  <1> QED
    BY <1>4, <1>5, <1>6

\* The camera that find_id finds has that id, and it finds one if there is one.
LEMMA FindFacts ==
    ASSUME NEW i
    PROVE  /\ \A c \in Find(i) : c \in Cams /\ mc_id[c] = i
           /\ Find(i) = {} => WithId(i) = {}
  <1>1. \A c \in Find(i) : c \in Cams /\ mc_id[c] = i
    BY DEF Find, WithId
  <1>2. ASSUME NEW c \in Cams, mc_id[c] = i
        PROVE  Find(i) # {}
    <2> DEFINE At == {n \in DOMAIN CamList : CamList[n] \in WithId(i)}
    <2>1. At \subseteq Nat /\ DOMAIN CamList = 1..Len(CamList) /\ Len(CamList) \in Nat
      BY Constants, LenProperties
    <2>2. At # {}
      BY <1>2 DEF Cams, WithId
    <2>3. PICK n \in At : \A m \in At : ~(<<m, n>> \in OpToRel(<, Nat))
      BY <2>1, <2>2, WFMin, NatLessThanWellFounded
    <2>4. \A m \in At : ~(m < n)
      BY <2>1, <2>3 DEF OpToRel
    <2>5. \A j \in 1..(n - 1) : CamList[j] \notin WithId(i)
      BY <2>1, <2>4
    <2> QED
      BY <2>5 DEF Find
  <1> QED
    BY <1>1, <1>2 DEF WithId

\* A function that is changed at one place.
LEMMA Updated ==
    ASSUME NEW D, NEW R, NEW f \in [D -> R], NEW c \in D, NEW v \in R
    PROVE  /\ [f EXCEPT ![c] = v] \in [D -> R] /\ [f EXCEPT ![c] = v][c] = v
           /\ \A d \in D : d # c => [f EXCEPT ![c] = v][d] = f[d]
  OBVIOUS

\* The camera's queues and what it carries out, and the messages it makes.
LEMMA QueueFacts ==
    ASSUME TypeInv, NEW c \in Cams
    PROVE  /\ inq[c] \in Seq(CmdRec) /\ outq[c] \in Seq(MsgType)
           /\ cur[c] \in CmdRec \cup {NoCmd}
           /\ Len(inq[c]) \in Nat /\ Len(outq[c]) \in Nat
           /\ Len(inq[c]) <= QueueMax /\ Len(outq[c]) <= QueueMax
           /\ inq[c] # <<>> => Len(inq[c]) > 0
           /\ outq[c] # <<>> => Len(outq[c]) > 0
           /\ NoCmd \notin CmdRec
           /\ cur[c] # NoCmd => /\ cur[c] \in CmdRec /\ cur[c].left \in Int
                                /\ \A t \in {"status", "fail", "item", "error"} : Msg(t, cur[c]) \in MsgType
           /\ cur[c].left > 0 => cur[c] # NoCmd
  <1>1. inq[c] \in Seq(CmdRec) /\ outq[c] \in Seq(MsgType) /\ cur[c] \in CmdRec \cup {NoCmd}
    BY DEF TypeInv, QueuesTyped
  <1>2. /\ Len(inq[c]) \in Nat /\ Len(outq[c]) \in Nat
        /\ inq[c] # <<>> => Len(inq[c]) > 0
        /\ outq[c] # <<>> => Len(outq[c]) > 0
    BY <1>1, LenProperties, EmptySeq
  <1>3. NoCmd \notin CmdRec
    BY DEF NoCmd, CmdRec, Commands
  <1>4. cur[c] # NoCmd => /\ cur[c] \in CmdRec /\ cur[c].left \in Int
                          /\ \A t \in {"status", "fail", "item", "error"} : Msg(t, cur[c]) \in MsgType
    BY <1>1, Constants DEF CmdRec, Msg, MsgType
  <1>5. cur[c].left > 0 => cur[c] # NoCmd
    BY DEF NoCmd
  <1>6. Len(inq[c]) <= QueueMax /\ Len(outq[c]) <= QueueMax
    BY DEF TypeInv, QueuesTyped
  <1> QED
    BY <1>1, <1>2, <1>3, <1>4, <1>5, <1>6

\* The queues stay typed when those of one camera change.
LEMMA QueuesStay ==
    ASSUME TypeInv, NEW c \in Cams,
           NEW q \in Seq(CmdRec), NEW o \in Seq(MsgType), NEW m \in CmdRec \cup {NoCmd},
           Len(q) <= QueueMax, Len(o) <= QueueMax,
           inq' = [inq EXCEPT ![c] = q], outq' = [outq EXCEPT ![c] = o], cur' = [cur EXCEPT ![c] = m]
    PROVE  QueuesTyped'
  BY DEF TypeInv, QueuesTyped

\* An unchanged function is changed nowhere.
LEMMA Unchanged ==
    ASSUME NEW D, NEW R, NEW f \in [D -> R], NEW c \in D PROVE f = [f EXCEPT ![c] = f[c]]
  OBVIOUS

\* What a step of the script on c changes: c's queues, and whether it runs.
Others(c) ==
    \A d \in Cams : d # c => /\ inq'[d] = inq[d] /\ outq'[d] = outq[d] /\ cur'[d] = cur[d]
                             /\ running'[d] = running[d] /\ cid'[d] = cid[d]
ReadAt(c) ==
    /\ running[c] /\ cur[c] = NoCmd /\ inq[c] # <<>>
    /\ cur'[c] = inq[c][1] /\ inq'[c] = Tail(inq[c]) /\ outq'[c] = outq[c]
    /\ running'[c] = running[c] /\ cid'[c] = cid[c]
ItemAt(c) ==
    /\ cur[c] # NoCmd /\ cur[c].left > 0 /\ Len(outq[c]) < QueueMax
    /\ cur'[c] = [cur[c] EXCEPT !.left = cur[c].left - 1]
    /\ outq'[c] = Append(outq[c], Msg("item", cur[c])) /\ inq'[c] = inq[c]
    /\ running'[c] = running[c] /\ cid'[c] = cid[c]
GiveUpAt(c) ==
    /\ cur[c] # NoCmd /\ cur[c].left > 0 /\ Len(outq[c]) = QueueMax
    /\ cur'[c] = [cur[c] EXCEPT !.left = -1] /\ outq'[c] = outq[c] /\ inq'[c] = inq[c]
    /\ running'[c] = running[c] /\ cid'[c] = cid[c]
EndAt(c, t) ==
    /\ cur[c] # NoCmd /\ cur'[c] = NoCmd /\ inq'[c] = inq[c]
    /\ \/ Len(outq[c]) < QueueMax /\ outq'[c] = Append(outq[c], Msg(t, cur[c]))
       \/ Len(outq[c]) = QueueMax /\ outq'[c] = outq[c]
AnswerAt(c) ==
    /\ cur[c].left <= 0
    /\ EndAt(c, IF cur[c].left < 0 THEN "fail" ELSE "status")
    /\ cid'[c] = (IF cur[c].name = "setid" THEN cur[c].arg ELSE cid[c])
    /\ running'[c] = (cur[c].name # "exit")
DieAt(c) == EndAt(c, "error") /\ running'[c] = FALSE /\ cid'[c] = cid[c]

\* One step of the script on c, and that what it leaves is typed.
LEMMA CameraEffect ==
    ASSUME TypeInv, NEW c \in Cams, CamRead(c) \/ CamItem(c) \/ CamGiveUp(c) \/ CamAnswer(c) \/ CamDies(c)
    PROVE  /\ UNCHANGED <<known, host, calls, quiet, silent, refused>>
           /\ Others(c) /\ QueuesTyped' /\ ScriptsTyped'
           /\ \/ (ReadAt(c) \/ ItemAt(c) \/ GiveUpAt(c) \/ AnswerAt(c)) /\ faults' = faults
              \/ DieAt(c) /\ Left > 0 /\ faults' = faults + 1
  <1> DEFINE m == cur[c]
  <1>1. /\ inq \in [Cams -> Seq(CmdRec)] /\ outq \in [Cams -> Seq(MsgType)]
        /\ cur \in [Cams -> CmdRec \cup {NoCmd}]
        /\ running \in [Cams -> BOOLEAN] /\ cid \in [Cams -> Ids \cup {0}]
    BY DEF TypeInv, QueuesTyped, ScriptsTyped
  <1>2. /\ inq[c] \in Seq(CmdRec) /\ outq[c] \in Seq(MsgType) /\ m \in CmdRec \cup {NoCmd}
        /\ Len(inq[c]) \in Nat /\ Len(outq[c]) \in Nat /\ Len(inq[c]) <= QueueMax /\ Len(outq[c]) <= QueueMax
        /\ QueueMax \in Nat
    BY QueueFacts, Constants
  <1>3. m # NoCmd => /\ m \in CmdRec /\ m.left \in Int
                     /\ \A t \in {"status", "fail", "item", "error"} : Msg(t, m) \in MsgType
    BY QueueFacts
  <1>4. /\ inq = [inq EXCEPT ![c] = inq[c]] /\ outq = [outq EXCEPT ![c] = outq[c]]
        /\ cur = [cur EXCEPT ![c] = m]
    BY <1>1, Unchanged
  <1>5. CASE CamRead(c)
    <2>1. /\ Head(inq[c]) = inq[c][1] /\ inq[c][1] \in CmdRec /\ Tail(inq[c]) \in Seq(CmdRec)
          /\ Len(Tail(inq[c])) <= QueueMax
      BY <1>2, <1>5, Popped DEF CamRead
    <2>2. /\ inq' = [inq EXCEPT ![c] = Tail(inq[c])] /\ outq' = outq
          /\ cur' = [cur EXCEPT ![c] = inq[c][1]] /\ running' = running /\ cid' = cid
      BY <1>5, <2>1 DEF CamRead
    <2>3. QueuesTyped'
      BY <1>2, <1>4, <2>1, <2>2, QueuesStay
    <2>4. Others(c) /\ ReadAt(c) /\ ScriptsTyped'
      BY <1>1, <1>5, <2>2 DEF CamRead, Others, ReadAt, ScriptsTyped, TypeInv
    <2> QED
      BY <1>5, <2>3, <2>4 DEF CamRead, host, history
  <1>6. CASE CamItem(c) \/ CamGiveUp(c)
    <2>1. m # NoCmd /\ m.left > 0
      BY <1>6, QueueFacts DEF CamItem, CamGiveUp
    <2>2. [m EXCEPT !.left = m.left - 1] \in CmdRec /\ [m EXCEPT !.left = -1] \in CmdRec
      BY <1>3, <2>1, Constants DEF CmdRec
    <2>3. Append(outq[c], Msg("item", m)) \in Seq(MsgType) /\ Len(Append(outq[c], Msg("item", m))) = Len(outq[c]) + 1
      BY <1>2, <1>3, <2>1, AppendProperties
    <2>4. CASE CamItem(c)
      <3>1. /\ inq' = inq /\ outq' = [outq EXCEPT ![c] = Append(outq[c], Msg("item", m))]
            /\ cur' = [cur EXCEPT ![c] = [m EXCEPT !.left = m.left - 1]] /\ running' = running /\ cid' = cid
            /\ Len(outq[c]) < QueueMax
        BY <1>1, <2>4 DEF CamItem
      <3>2. QueuesTyped'
        <4> DEFINE o == Append(outq[c], Msg("item", m))
                   n == [m EXCEPT !.left = m.left - 1]
        <4>1. o \in Seq(MsgType) /\ Len(o) <= QueueMax /\ n \in CmdRec \cup {NoCmd}
          BY <1>2, <2>2, <2>3, <3>1
        <4>2. inq' = [inq EXCEPT ![c] = inq[c]] /\ outq' = [outq EXCEPT ![c] = o] /\ cur' = [cur EXCEPT ![c] = n]
          BY <1>4, <3>1
        <4> HIDE DEF o, n
        <4> QED
          BY <1>2, <4>1, <4>2, QueuesStay
      <3>3. ScriptsTyped'
        BY <2>4, <3>1 DEF ScriptsTyped, TypeInv, CamItem
      <3>4. Others(c)
        BY <1>1, <3>1 DEF Others
      <3>5. ItemAt(c)
        BY <1>1, <2>1, <3>1 DEF ItemAt
      <3> QED
        BY <2>4, <3>2, <3>3, <3>4, <3>5 DEF CamItem, host, history
    <2>5. CASE CamGiveUp(c)
      <3>1. /\ inq' = inq /\ outq' = outq
            /\ cur' = [cur EXCEPT ![c] = [m EXCEPT !.left = -1]] /\ running' = running /\ cid' = cid
            /\ Len(outq[c]) = QueueMax
        BY <1>1, <2>5 DEF CamGiveUp
      <3>2. QueuesTyped'
        BY <1>2, <1>4, <2>2, <3>1, QueuesStay
      <3>3. ScriptsTyped'
        BY <2>5, <3>1 DEF ScriptsTyped, TypeInv, CamGiveUp
      <3>4. Others(c)
        BY <1>1, <3>1 DEF Others
      <3>5. GiveUpAt(c)
        BY <1>1, <2>1, <3>1 DEF GiveUpAt
      <3> QED
        BY <2>5, <3>2, <3>3, <3>4, <3>5 DEF CamGiveUp, host, history
    <2> QED
      BY <1>6, <2>4, <2>5
  <1>7. ASSUME NEW t \in {"status", "fail", "error"}, m # NoCmd, inq' = inq, cur' = [cur EXCEPT ![c] = NoCmd],
               outq' = [outq EXCEPT ![c] = IF Len(outq[c]) < QueueMax
                                           THEN Append(outq[c], Msg(t, m)) ELSE outq[c]]
        PROVE  QueuesTyped' /\ EndAt(c, t)
    <2>1. Append(outq[c], Msg(t, m)) \in Seq(MsgType) /\ Len(Append(outq[c], Msg(t, m))) = Len(outq[c]) + 1
      BY <1>2, <1>3, <1>7, AppendProperties
    <2>2. QueuesTyped'
      <3> DEFINE o == IF Len(outq[c]) < QueueMax THEN Append(outq[c], Msg(t, m)) ELSE outq[c]
      <3>1. o \in Seq(MsgType) /\ Len(o) <= QueueMax
        BY <1>2, <2>1
      <3>2. inq' = [inq EXCEPT ![c] = inq[c]] /\ outq' = [outq EXCEPT ![c] = o]
        BY <1>4, <1>7
      <3> HIDE DEF o
      <3> QED
        BY <1>2, <1>7, <3>1, <3>2, QueuesStay
    <2>3. Len(outq[c]) < QueueMax \/ Len(outq[c]) = QueueMax
      BY <1>2
    <2>4. EndAt(c, t)
      BY <1>1, <1>7, <2>3 DEF EndAt
    <2> QED
      BY <2>2, <2>4
  <1>8. CASE CamAnswer(c)
    <2> DEFINE t == IF m.left < 0 THEN "fail" ELSE "status"
    <2>1. /\ inq' = inq /\ cur' = [cur EXCEPT ![c] = NoCmd] /\ m # NoCmd /\ m.left <= 0
          /\ outq' = [outq EXCEPT ![c] = IF Len(outq[c]) < QueueMax
                                         THEN Append(outq[c], Msg(t, m)) ELSE outq[c]]
          /\ cid' = [cid EXCEPT ![c] = IF m.name = "setid" THEN m.arg ELSE cid[c]]
          /\ running' = [running EXCEPT ![c] = m.name # "exit"]
      BY <1>8 DEF CamAnswer
    <2>2. t \in {"status", "fail", "error"}
      OBVIOUS
    <2> HIDE DEF t
    <2>3. QueuesTyped' /\ EndAt(c, t)
      BY <2>1, <2>2, <1>7
    <2>4. m.name = "setid" => m.arg \in Ids \cup {0}
      BY <1>3, <2>1 DEF CmdRec
    <2>5. ScriptsTyped'
      BY <1>8, <2>1, <2>4 DEF ScriptsTyped, TypeInv, CamAnswer
    <2>6. Others(c)
      BY <1>1, <2>1 DEF Others
    <2>7. AnswerAt(c)
      BY <1>1, <2>1, <2>3 DEF AnswerAt, t
    <2> QED
      BY <1>8, <2>3, <2>5, <2>6, <2>7 DEF CamAnswer, host, history
  <1>9. CASE CamDies(c)
    <2>1. /\ inq' = inq /\ cur' = [cur EXCEPT ![c] = NoCmd] /\ m # NoCmd
          /\ outq' = [outq EXCEPT ![c] = IF Len(outq[c]) < QueueMax
                                         THEN Append(outq[c], Msg("error", m)) ELSE outq[c]]
          /\ cid' = cid /\ running' = [running EXCEPT ![c] = FALSE]
          /\ faults' = faults + 1 /\ Left > 0
      BY <1>9 DEF CamDies, Fault
    <2>2. QueuesTyped' /\ EndAt(c, "error")
      BY <2>1, <1>7
    <2>3. ScriptsTyped'
      BY <1>9, <2>1 DEF ScriptsTyped, TypeInv, CamDies
    <2>4. Others(c)
      BY <1>1, <2>1 DEF Others
    <2>5. DieAt(c)
      BY <1>1, <2>1, <2>2 DEF DieAt
    <2> QED
      BY <1>9, <2>1, <2>2, <2>3, <2>4, <2>5 DEF CamDies, host
  <1> QED
    BY <1>5, <1>6, <1>8, <1>9

-----------------------------------------------------------------------------
\* The parts of the type invariant as they stand.
LEMMA Parts ==
    ASSUME TypeInv
    PROVE  /\ ScriptsTyped /\ QueuesTyped /\ HostTyped /\ AnswersTyped /\ CountsTyped
           /\ Commanding /\ Counting /\ Looping /\ GivingIds
  BY DEF TypeInv, Control

\* A step that leaves the cameras alone.
LEMMA CamerasStay ==
    ASSUME TypeInv, UNCHANGED cameras PROVE ScriptsTyped' /\ QueuesTyped'
  BY DEF TypeInv, ScriptsTyped, QueuesTyped, cameras

\* The command that a call sends is typed.
LEMMA CmdTyped ==
    ASSUME TypeInv, pc \in {"send", "ask"}
    PROVE  /\ Cmd(op.name, Arg, calls) \in CmdRec /\ Arg \in Args /\ calls \in 0..Budget
           /\ op.name \in Commands
           /\ Cmd(op.name, Arg, calls).name = op.name /\ Cmd(op.name, Arg, calls).arg = Arg
           /\ Cmd(op.name, Arg, calls).call = calls
  <1>1. Commanding /\ Counting /\ HostTyped /\ CountsTyped /\ AnswersTyped
    BY Parts
  <1>2. op.name \in Commands /\ op.name # "none" /\ op.arg \in Ids \cup {0}
    BY <1>1 DEF Commanding, Commands, HostTyped, OpType
  <1>3. op.name = "setid" => op.arg \in Ids
    BY <1>1 DEF HostTyped, OpType
  <1>4. calls \in 0..Budget
    <2>1. /\ calls \in Nat /\ faults \in Nat /\ Budget \in Nat /\ Len(jobs) \in Nat
          /\ Budget - calls - faults - Len(jobs) >= 0
      BY <1>1, Constants, LenProperties DEF CountsTyped, Left
    <2> QED
      BY <2>1
  <1>5. op.name = "tick" => complete \in 0..Ticks
    BY <1>1, <1>2, Constants DEF Commanding, Counting, AnswersTyped
  <1>6. Arg \in Args /\ (op.name = "setid" => Arg \in Ids)
    BY <1>2, <1>3, <1>5, Constants DEF Arg, Args
  <1>7. (IF op.name = "list" THEN ListLen ELSE 0) \in -1..ListLen
    BY Constants
  <1> QED
    BY <1>2, <1>4, <1>6, <1>7 DEF Cmd, CmdRec

\* write_msg of a command to c: the message is queued behind the others, or
\* the queues are as they were.
Wrote(c) == Accepts(c) /\ inq'[c] = Append(inq[c], Cmd(op.name, Arg, calls))

\* What writing a command to c leaves.
LEMMA WriteEffect ==
    ASSUME TypeInv, NEW c \in Cams, pc \in {"send", "ask"}, UNCHANGED <<running, cid, cur, outq, known>>,
           WriteOk(c) \/ WriteRefused(c) \/ WriteFails(c)
    PROVE  /\ QueuesTyped' /\ ScriptsTyped' /\ \A d \in Cams : d # c => inq'[d] = inq[d]
           /\ \/ WriteOk(c) /\ Wrote(c) /\ UNCHANGED <<refused, quiet, faults>>
              \/ /\ WriteRefused(c) /\ ~Accepts(c) /\ UNCHANGED <<inq, quiet, faults>>
                 /\ refused' = (IF op.name = "setid" THEN refused \cup {c} ELSE refused)
              \/ /\ WriteFails(c) /\ Left > 0 /\ faults' = faults + 1 /\ quiet' = quiet \ {c}
                 /\ refused' = refused /\ (Wrote(c) \/ inq' = inq)
  <1> DEFINE m == Cmd(op.name, Arg, calls)
  <1>1. m \in CmdRec
    BY CmdTyped
  <1>2. /\ inq \in [Cams -> Seq(CmdRec)] /\ outq \in [Cams -> Seq(MsgType)]
        /\ cur \in [Cams -> CmdRec \cup {NoCmd}]
    BY Parts DEF QueuesTyped
  <1>3. /\ inq[c] \in Seq(CmdRec) /\ outq[c] \in Seq(MsgType) /\ cur[c] \in CmdRec \cup {NoCmd}
        /\ Len(inq[c]) \in Nat /\ Len(outq[c]) <= QueueMax /\ QueueMax \in Nat
    BY QueueFacts, Constants
  <1>4. ScriptsTyped'
    BY Parts DEF ScriptsTyped
  <1>5. ASSUME Accepts(c), Queued(c)
        PROVE  QueuesTyped' /\ Wrote(c) /\ \A d \in Cams : d # c => inq'[d] = inq[d]
    <2>1. Append(inq[c], m) \in Seq(CmdRec) /\ Len(Append(inq[c], m)) = Len(inq[c]) + 1
      BY <1>1, <1>3, AppendProperties
    <2>2. inq' = [inq EXCEPT ![c] = Append(inq[c], m)]
      BY <1>5 DEF Queued
    <2>3. Len(Append(inq[c], m)) <= QueueMax
      BY <1>3, <1>5, <2>1 DEF Accepts
    <2>4. outq' = [outq EXCEPT ![c] = outq[c]] /\ cur' = [cur EXCEPT ![c] = cur[c]]
      BY <1>2, Unchanged
    <2>5. QueuesTyped'
      BY <1>3, <2>1, <2>2, <2>3, <2>4, QueuesStay
    <2>6. Wrote(c) /\ \A d \in Cams : d # c => inq'[d] = inq[d]
      BY <1>2, <1>5, <2>2 DEF Wrote
    <2> QED
      BY <2>5, <2>6
  <1>6. inq' = inq => QueuesTyped' /\ \A d \in Cams : d # c => inq'[d] = inq[d]
    BY Parts DEF QueuesTyped
  <1> HIDE DEF m
  <1>7. CASE WriteOk(c)
    BY <1>4, <1>5, <1>7 DEF WriteOk
  <1>8. CASE WriteRefused(c)
    BY <1>4, <1>6, <1>8 DEF WriteRefused
  <1>9. CASE WriteFails(c)
    BY <1>4, <1>5, <1>6, <1>9 DEF WriteFails, Fault
  <1> QED
    BY <1>7, <1>8, <1>9

\* A read from c, or a flush of c, changes nothing but c's messages.
LEMMA OutStay ==
    ASSUME TypeInv, NEW c \in Cams, NEW o \in Seq(MsgType), Len(o) <= QueueMax,
           outq' = [outq EXCEPT ![c] = o], UNCHANGED <<running, cid, inq, cur, known>>
    PROVE  /\ QueuesTyped' /\ ScriptsTyped' /\ outq'[c] = o
           /\ \A d \in Cams : d # c => outq'[d] = outq[d]
  <1>1. /\ inq \in [Cams -> Seq(CmdRec)] /\ outq \in [Cams -> Seq(MsgType)]
        /\ cur \in [Cams -> CmdRec \cup {NoCmd}]
    BY Parts DEF QueuesTyped
  <1>2. inq' = [inq EXCEPT ![c] = inq[c]] /\ cur' = [cur EXCEPT ![c] = cur[c]]
    BY <1>1, Unchanged
  <1>3. inq[c] \in Seq(CmdRec) /\ cur[c] \in CmdRec \cup {NoCmd} /\ Len(inq[c]) <= QueueMax
    BY QueueFacts
  <1>4. QueuesTyped'
    BY <1>2, <1>3, QueuesStay
  <1>5. ScriptsTyped'
    BY Parts DEF ScriptsTyped
  <1> QED
    BY <1>1, <1>4, <1>5

\* A message of c is read: the others stay in their order.
LEMMA ReadOne ==
    ASSUME TypeInv, NEW c \in Cams, outq[c] # <<>>
    PROVE  /\ Tail(outq[c]) \in Seq(MsgType) /\ Len(Tail(outq[c])) <= QueueMax
           /\ Head(outq[c]) = outq[c][1] /\ Head(outq[c]) \in MsgType
           /\ Len(outq[c]) \in Nat \ {0} /\ Len(Tail(outq[c])) = Len(outq[c]) - 1
           /\ \A k \in 1..Len(Tail(outq[c])) : Tail(outq[c])[k] = outq[c][k + 1] /\ k + 1 \in 1..Len(outq[c])
  <1>1. outq[c] \in Seq(MsgType) /\ Len(outq[c]) <= QueueMax /\ QueueMax \in Nat
    BY QueueFacts, Constants
  <1>2. /\ Tail(outq[c]) \in Seq(MsgType) /\ Head(outq[c]) = outq[c][1] /\ outq[c][1] \in MsgType
        /\ Len(outq[c]) \in Nat \ {0} /\ Len(Tail(outq[c])) = Len(outq[c]) - 1
        /\ \A k \in 1..Len(Tail(outq[c])) : Tail(outq[c])[k] = outq[c][k + 1]
    BY <1>1, Popped
  <1> QED
    BY <1>1, <1>2

\* A read that fails, or that has a message or none.
LEMMA ReadEffect ==
    ASSUME TypeInv, NEW c \in Cams, UNCHANGED <<running, cid, inq, cur, known>>,
           \/ outq' \in {outq, [outq EXCEPT ![c] = IF @ = <<>> THEN @ ELSE Tail(@)]}
           \/ outq[c] # <<>> /\ outq' = [outq EXCEPT ![c] = Tail(@)]
    PROVE  /\ QueuesTyped' /\ ScriptsTyped'
           /\ outq' = outq \/ (outq[c] # <<>> /\ outq'[c] = Tail(outq[c]))
           /\ \A d \in Cams : d # c => outq'[d] = outq[d]
  <1>1. outq \in [Cams -> Seq(MsgType)] /\ outq = [outq EXCEPT ![c] = outq[c]]
    BY Parts, Unchanged DEF QueuesTyped
  <1>2. outq[c] \in Seq(MsgType) /\ Len(outq[c]) <= QueueMax
    BY QueueFacts
  <1>3. CASE outq' = outq
    BY <1>1, <1>2, <1>3, OutStay
  <1>4. CASE outq[c] # <<>> /\ outq' = [outq EXCEPT ![c] = Tail(outq[c])]
    BY <1>4, ReadOne, OutStay
  <1> QED
    BY <1>1, <1>3, <1>4

\* The end of a call, or its return to set_id.
LEMMA ReturnEffect ==
    ASSUME TypeInv, NEW how \in {"all", "timeout", "over"}, Return(how), pc # "idle"
    PROVE  /\ selected' \in Seq(Cams) /\ saved' \in Seq(Cams) /\ Distinct(selected') /\ Distinct(saved')
           /\ pc' \in {"idle", "setid"} /\ ret' \in {"none", "all", "timeout", "over"}
           /\ Cams # {} => selected' # <<>>
           /\ \/ saved = <<>> /\ pc' = "idle" /\ ret' = how /\ selected' = selected /\ saved' = saved
              \/ saved # <<>> /\ pc' = "setid" /\ ret' = "none" /\ ret = "none" /\ selected' = saved /\ saved' = <<>>
  <1>1. HostTyped /\ Commanding /\ Looping
    BY Parts
  <1>2. <<>> \in Seq(Cams) /\ Len(<<>>) = 0
    BY EmptySeq
  <1>3. Distinct(<<>>)
    BY <1>2 DEF Distinct
  <1>4. CASE saved = <<>>
    BY <1>1, <1>4 DEF Return, HostTyped, Looping
  <1>5. CASE saved # <<>>
    BY <1>1, <1>2, <1>3, <1>5 DEF Return, HostTyped, Looping, Commanding
  <1> QED
    BY <1>4, <1>5

\* A new call has no answers yet.
LEMMA NoAnswersEffect ==
    ASSUME NoAnswers
    PROVE  /\ AnswersTyped' /\ complete' = 0
           /\ \A c \in Cams : answers'[c] = <<>>
           /\ \A i \in Ids : results'[i].from = <<>> /\ ~results'[i].done
  <1>1. NoResult \in ResultType
    BY Constants, EmptySeq DEF NoResult, ResultType
  <1>2. <<>> \in Seq(AnswerType)
    BY EmptySeq
  <1> QED
    BY <1>1, <1>2 DEF NoAnswers, AnswersTyped, NoResult

\* The beginning of a call that sends commands.
LEMMA BeginEffect ==
    ASSUME TypeInv, NEW name \in Commands, NEW arg \in Ids \cup {0}, NEW wait \in BOOLEAN, NEW sel, NEW first,
           Begin(name, arg, wait, sel, first), name = "setid" => arg \in Ids,
           (jobs' = jobs /\ jobs = <<>>) \/ (jobs # <<>> /\ jobs' = Tail(jobs))
    PROVE  /\ ScriptsTyped' /\ QueuesTyped' /\ AnswersTyped' /\ CountsTyped' /\ op' \in OpType
           /\ UNCHANGED <<running, cid, inq, cur, outq, known, refused, faults>>
           /\ op'.name = name /\ op'.arg = arg /\ op'.wait = wait /\ todo' = sel /\ pc' = first /\ ret' = "none"
           /\ calls' = calls + 1 /\ complete' = 0
           /\ \A c \in Cams : answers'[c] = <<>>
           /\ \A i \in Ids : results'[i].from = <<>> /\ ~results'[i].done
           /\ \A c \in quiet' : c \in Cams /\ inq[c] = <<>> /\ cur[c] = NoCmd
           /\ \A c \in silent' : c \in Cams /\ outq[c] = <<>>
  <1>1. CountsTyped
    BY Parts
  <1>2. ScriptsTyped' /\ QueuesTyped' /\ UNCHANGED <<running, cid, inq, cur, outq, known, refused, faults>>
    BY CamerasStay DEF Begin, cameras
  <1>3. AnswersTyped' /\ complete' = 0 /\ (\A c \in Cams : answers'[c] = <<>>)
        /\ \A i \in Ids : results'[i].from = <<>> /\ ~results'[i].done
    BY NoAnswersEffect DEF Begin
  <1>4. op' \in OpType /\ op'.name = name /\ op'.arg = arg /\ op'.wait = wait
    BY DEF Begin, OpType
  <1>5. jobs' \in Seq(JobType) /\ Left' >= 0
    <2>1. /\ calls \in Nat /\ faults \in Nat /\ Len(jobs) \in Nat /\ Budget \in Nat
          /\ Budget - calls - faults - Len(jobs) >= 0 /\ jobs \in Seq(JobType)
      BY <1>1, Constants, LenProperties DEF CountsTyped, Left
    <2>2. CASE jobs' = jobs /\ jobs = <<>>
      <3>1. Left > 0 /\ Len(jobs) = 0
        BY <2>2, EmptySeq DEF Begin
      <3>2. Budget - calls - faults > 0
        BY <2>1, <3>1 DEF Left
      <3>3. calls' = calls + 1 /\ faults' = faults
        BY DEF Begin
      <3> QED
        BY <2>1, <2>2, <3>1, <3>2, <3>3 DEF Left
    <2>3. CASE jobs # <<>> /\ jobs' = Tail(jobs)
      <3>1. Tail(jobs) \in Seq(JobType) /\ Len(Tail(jobs)) = Len(jobs) - 1
        BY <2>1, <2>3, Popped
      <3>2. calls' = calls + 1 /\ faults' = faults
        BY DEF Begin
      <3>3. PICK m \in Nat : m = Len(jobs) /\ Budget - calls - faults - m >= 0
        BY <2>1
      <3>4. Len(jobs') = m - 1
        BY <2>3, <3>1, <3>3
      <3>5. Budget - (calls + 1) - faults - (m - 1) >= 0
        BY <2>1, <3>3
      <3> QED
        BY <2>3, <3>1, <3>2, <3>4, <3>5 DEF Left
    <2> QED
      BY <2>2, <2>3
  <1>6. CountsTyped'
    BY <1>1, <1>2, <1>5 DEF CountsTyped, Begin
  <1>7. /\ todo' = sel /\ pc' = first /\ ret' = "none" /\ calls' = calls + 1
        /\ \A c \in quiet' : c \in Cams /\ inq[c] = <<>> /\ cur[c] = NoCmd
        /\ \A c \in silent' : c \in Cams /\ outq[c] = <<>>
    BY DEF Begin
  <1> QED
    BY <1>2, <1>3, <1>4, <1>6, <1>7

\* The beginning of a call that sends none itself.
LEMMA NoCommandEffect ==
    ASSUME NoCommand
    PROVE  /\ AnswersTyped' /\ complete' = 0 /\ op' \in OpType /\ op'.name = "none" /\ quiet' = {} /\ silent' = {}
           /\ \A c \in Cams : answers'[c] = <<>>
           /\ \A i \in Ids : results'[i].from = <<>> /\ ~results'[i].done
  <1>1. NoOp \in OpType /\ NoOp.name = "none"
    BY DEF NoOp, OpType
  <1> QED
    BY <1>1, NoAnswersEffect DEF NoCommand

\* The loop over the selected cameras goes on with the others.
LEMMA TodoFacts ==
    ASSUME TypeInv, todo # <<>>
    PROVE  /\ Len(todo) \in Nat \ {0} /\ Head(todo) = todo[1] /\ todo[1] \in Cams
           /\ Tail(todo) \in Seq(Cams) /\ Distinct(Tail(todo)) /\ Len(Tail(todo)) = Len(todo) - 1
           /\ Len(todo) > 1 => Tail(todo) # <<>> /\ Len(Tail(todo)) > 0
           /\ ~(Len(todo) > 1) => Len(todo) = 1
           /\ \A k \in 1..Len(Tail(todo)) : Tail(todo)[k] = todo[k + 1] /\ k + 1 \in 2..Len(todo)
           /\ \A c \in Cams : /\ In(c, Tail(todo)) <=> Later(c)
                              /\ In(c, todo) <=> c = todo[1] \/ Later(c)
           /\ ~Later(todo[1])
  <1>1. todo \in Seq(Cams) /\ Distinct(todo)
    BY Parts DEF HostTyped, Looping
  <1>2. /\ Len(todo) \in Nat \ {0} /\ Head(todo) = todo[1] /\ todo[1] \in Cams
        /\ Tail(todo) \in Seq(Cams) /\ Len(Tail(todo)) = Len(todo) - 1
        /\ \A k \in 1..Len(Tail(todo)) : Tail(todo)[k] = todo[k + 1]
    BY <1>1, Popped
  <1>3. PICK n \in Nat \ {0} : n = Len(todo)
    BY <1>2
  <1>4. Len(Tail(todo)) = n - 1 /\ \A k \in 1..(n - 1) : Tail(todo)[k] = todo[k + 1] /\ k + 1 \in 2..n
    BY <1>2, <1>3
  <1>5. Distinct(Tail(todo))
    BY <1>1, <1>3, <1>4 DEF Distinct
  <1>6. ~Later(todo[1])
    BY <1>1, <1>3 DEF Distinct, Later
  <1>7. ASSUME NEW c \in Cams PROVE In(c, Tail(todo)) <=> Later(c)
    <2>1. ASSUME Later(c) PROVE In(c, Tail(todo))
      <3>1. PICK k \in 2..n : todo[k] = c
        BY <1>3, <2>1 DEF Later
      <3>2. k - 1 \in 1..(n - 1) /\ (k - 1) + 1 = k
        BY <3>1
      <3>3. Tail(todo)[k - 1] = todo[(k - 1) + 1]
        BY <1>4, <3>2
      <3> QED
        BY <1>4, <3>1, <3>2, <3>3 DEF In
    <2>2. In(c, Tail(todo)) => Later(c)
      BY <1>3, <1>4 DEF In, Later
    <2> QED
      BY <2>1, <2>2
  <1>8. ASSUME NEW c \in Cams PROVE In(c, todo) <=> c = todo[1] \/ Later(c)
    <2>1. \A k \in 1..n : k = 1 \/ k \in 2..n
      OBVIOUS
    <2>2. \A k \in 2..n : k \in 1..n
      OBVIOUS
    <2>3. 1 \in 1..n
      OBVIOUS
    <2> QED
      BY <1>3, <2>1, <2>2, <2>3 DEF In, Later
  <1>9. Len(todo) > 1 => Tail(todo) # <<>> /\ Len(Tail(todo)) > 0
    <2>1. n > 1 => n - 1 > 0
      BY <1>3
    <2>2. Len(todo) > 1 => Len(Tail(todo)) > 0
      BY <1>3, <1>4, <2>1
    <2>3. Len(Tail(todo)) > 0 => Tail(todo) # <<>>
      <3>1. Len(<<>>) = 0 /\ ~(0 > 0)
        OBVIOUS
      <3> QED
        BY <3>1
    <2> QED
      BY <2>2, <2>3
  <1>10. ~(Len(todo) > 1) => Len(todo) = 1
    BY <1>3
  <1> QED
    BY <1>2, <1>3, <1>4, <1>5, <1>6, <1>7, <1>8, <1>9, <1>10

\* The ways a loop of cmd_msgbatch_cam and of init_sync_cam goes on: with the
\* same camera, with the next, or not.
Again  == /\ op.name = "tick" /\ complete < Ticks /\ complete' = complete + 1
          /\ pc' = "ask" /\ UNCHANGED <<todo, ret, selected, saved>>
Onward == /\ complete' = 0 /\ Len(todo) > 1 /\ todo' = Tail(todo)
          /\ pc' = "ask" /\ UNCHANGED <<ret, selected, saved>>
Ended  == complete' = 0 /\ Len(todo) = 1 /\ todo' = <<>> /\ Return("over")
Stays  == pc' \in {"ask", "answer"} /\ UNCHANGED <<todo, complete, ret, selected, saved>>

\* There are no other ways.
LEMMA LoopWays ==
    ASSUME TypeInv, todo # <<>>, NextCam \/ NextAsk \/ Caught
    PROVE  Again \/ Onward \/ Ended
  BY TodoFacts DEF NextCam, NextAsk, Caught, Again, Onward, Ended

\* Each of them leaves the host's state typed.
LEMMA LoopTyped ==
    ASSUME TypeInv, todo # <<>>, pc \in {"ask", "answer"}, Again \/ Onward \/ Ended \/ Stays,
           UNCHANGED <<op, mc_id, jobs>>
    PROVE  HostTyped' /\ Control' /\ complete' \in Nat
  <1>1. HostTyped /\ Commanding /\ Counting /\ Looping /\ GivingIds /\ complete \in Nat
    BY Parts DEF AnswersTyped
  <1>2. op.name \in {"tick", "list"} /\ jobs = <<>> /\ Ticks \in Nat /\ ret = "none"
    BY <1>1, Constants DEF Commanding, GivingIds
  <1>3. CASE Again \/ Stays
    <2>1. UNCHANGED <<todo, selected, saved, ret, op, mc_id, jobs>> /\ pc' \in {"ask", "answer"}
      BY <1>3 DEF Again, Stays
    <2>2. complete' \in Nat /\ complete' <= Ticks /\ (op.name = "list" => complete' = 0)
      <3>1. CASE Again
        BY <1>1, <1>2, <3>1 DEF Again
      <3>2. CASE Stays
        BY <1>1, <3>2 DEF Stays, Counting
      <3> QED
        BY <1>3, <3>1, <3>2
    <2>3. HostTyped'
      BY <1>1, <2>1 DEF HostTyped, Places
    <2>4. Commanding' /\ Counting'
      BY <1>2, <2>1, <2>2 DEF Commanding, Counting
    <2>5. Looping' /\ GivingIds'
      BY <1>1, <1>2, <2>1 DEF Looping, GivingIds
    <2> QED
      BY <2>2, <2>3, <2>4, <2>5 DEF Control
  <1>4. CASE Onward
    <2>1. /\ UNCHANGED <<selected, saved, ret, op, mc_id, jobs>> /\ pc' = "ask" /\ complete' = 0
          /\ todo' \in Seq(Cams) /\ Distinct(todo')
      BY <1>4, TodoFacts DEF Onward
    <2>2. HostTyped'
      BY <1>1, <2>1 DEF HostTyped, Places
    <2>3. Commanding' /\ Counting'
      BY <1>2, <2>1 DEF Commanding, Counting
    <2>4. Looping' /\ GivingIds'
      BY <1>1, <1>2, <2>1 DEF Looping, GivingIds
    <2> QED
      BY <2>1, <2>2, <2>3, <2>4 DEF Control
  <1>5. CASE Ended
    <2>1. /\ selected' \in Seq(Cams) /\ saved' \in Seq(Cams) /\ Distinct(selected') /\ Distinct(saved')
          /\ pc' \in {"idle", "setid"} /\ ret' \in {"none", "all", "timeout", "over"}
          /\ Cams # {} => selected' # <<>>
          /\ ret' = "none" <=> pc' # "idle"
      BY <1>2, <1>5, ReturnEffect DEF Ended
    <2>2. todo' \in Seq(Cams) /\ Distinct(todo') /\ complete' = 0
      BY <1>5, EmptySeq DEF Ended, Distinct
    <2>3. HostTyped'
      BY <1>1, <2>1, <2>2 DEF HostTyped, Places
    <2>4. Commanding' /\ Counting'
      BY <1>2, <2>1 DEF Commanding, Counting
    <2>5. Looping' /\ GivingIds'
      BY <1>1, <1>2, <2>1, <2>2 DEF Looping, GivingIds
    <2> QED
      BY <2>2, <2>3, <2>4, <2>5 DEF Control
  <1> QED
    BY <1>3, <1>4, <1>5

\* A throw that nobody catches.
LEMMA ThrowTyped ==
    ASSUME TypeInv, Throw, op' = op, mc_id' \in [Cams -> Ids]
    PROVE  HostTyped' /\ Control'
  <1>1. HostTyped /\ Looping
    BY Parts
  <1>2. <<>> \in Seq(Cams) /\ Distinct(<<>>)
    BY EmptySeq DEF Distinct
  <1>3. /\ pc' = "idle" /\ ret' = "over" /\ jobs' = <<>> /\ saved' = <<>> /\ todo' = <<>>
        /\ selected' = selected
    BY DEF Throw
  <1>4. HostTyped'
    BY <1>1, <1>2, <1>3 DEF HostTyped, Places
  <1>5. Commanding' /\ Counting' /\ GivingIds'
    BY <1>3 DEF Commanding, Counting, GivingIds
  <1>6. Looping'
    BY <1>1, <1>2, <1>3 DEF Looping
  <1> QED
    BY <1>4, <1>5, <1>6 DEF Control

\* A failure is counted, and may end set_id.
LEMMA CountsStay ==
    ASSUME TypeInv, calls' = calls, jobs' = jobs \/ jobs' = <<>>,
           faults' = faults \/ (Left > 0 /\ faults' = faults + 1),
           quiet' \subseteq Cams, silent' \subseteq Cams, refused' \subseteq Cams
    PROVE  CountsTyped'
  <1>1. /\ jobs \in Seq(JobType) /\ calls \in Nat /\ faults \in Nat /\ Budget \in Nat
        /\ Budget - calls - faults - Len(jobs) >= 0
    BY Parts, Constants DEF CountsTyped, Left
  <1>2. <<>> \in Seq(JobType) /\ Len(<<>>) = 0 /\ Len(jobs) \in Nat
    BY <1>1, EmptySeq, LenProperties
  <1>3. jobs' \in Seq(JobType) /\ Len(jobs') \in Nat /\ Len(jobs') <= Len(jobs)
    <2>1. CASE jobs' = jobs
      BY <1>1, <1>2, <2>1
    <2>2. CASE jobs' = <<>>
      BY <1>2, <2>2
    <2> QED
      BY <2>1, <2>2
  <1>4. Left > 0 => Budget - calls - faults - Len(jobs) > 0
    BY DEF Left
  <1>5. faults' \in Nat /\ Budget - calls - faults' - Len(jobs') >= 0
    <2>1. PICK m \in Nat, n \in Nat : m = Len(jobs) /\ n = Len(jobs')
      BY <1>2, <1>3
    <2> QED
      BY <1>1, <1>3, <1>4, <2>1
  <1> QED
    BY <1>1, <1>3, <1>5 DEF CountsTyped, Left

-----------------------------------------------------------------------------
\* What each action leaves is typed.  A step of a script:
LEMMA CameraTyped == TypeInv /\ Camera => TypeInv'
<1> SUFFICES ASSUME TypeInv, Camera PROVE TypeInv'
  OBVIOUS
<1>1. PICK c \in Cams : CamRead(c) \/ CamItem(c) \/ CamGiveUp(c) \/ CamAnswer(c) \/ CamDies(c)
  BY DEF Camera
<1>2. /\ UNCHANGED <<known, host, calls, quiet, silent, refused>> /\ QueuesTyped' /\ ScriptsTyped'
      /\ faults' = faults \/ (Left > 0 /\ faults' = faults + 1)
  BY <1>1, CameraEffect
<1>3. HostTyped' /\ AnswersTyped' /\ Control'
  BY <1>2, Parts DEF HostTyped, AnswersTyped, Control, Commanding, Counting, Looping, GivingIds, host, Places
<1>4. CountsTyped'
  BY <1>2, CountsStay, Parts DEF CountsTyped, host
<1> QED
  BY <1>2, <1>3, <1>4 DEF TypeInv

\* A call that sends commands begins.
Sending(name, first) ==
    /\ pc = "idle" /\ selected # <<>>
    /\ \E wait \in BOOLEAN : Begin(name, 0, wait, selected, first)
    /\ UNCHANGED <<mc_id, selected, jobs, saved>>

\* The calls of the user that send commands begin so.
LEMMA CallKinds ==
    ASSUME Command \/ ImgList \/ InitSync
    PROVE  \E name \in {"shoot", "exit", "tick", "list"} :
              Sending(name, IF name = "list" THEN "ask" ELSE "flush")
<1>1. CASE Command
  <2>1. PICK name \in {"shoot", "exit"} : \E wait \in BOOLEAN : Begin(name, 0, wait, selected, "flush")
    BY <1>1 DEF Command
  <2>2. Sending(name, "flush") /\ name # "list"
    BY <1>1, <2>1 DEF Command, Sending
  <2> QED
    BY <2>1, <2>2
<1>2. CASE ImgList
  <2>1. Sending("list", "ask")
    BY <1>2 DEF ImgList, Sending
  <2> QED
    BY <2>1
<1>3. CASE InitSync
  <2>1. Sending("tick", "flush") /\ "tick" # "list"
    BY <1>3 DEF InitSync, Sending
  <2> QED
    BY <2>1
<1> QED
  BY <1>1, <1>2, <1>3

\* Their beginning leaves the state typed.
LEMMA SendingTyped ==
    ASSUME TypeInv, NEW name \in {"shoot", "exit", "tick", "list"},
           Sending(name, IF name = "list" THEN "ask" ELSE "flush")
    PROVE  TypeInv'
<1>1. /\ pc = "idle" /\ selected # <<>> /\ UNCHANGED <<mc_id, selected, jobs, saved>>
      /\ HostTyped /\ Looping /\ GivingIds /\ jobs = <<>>
  BY Parts DEF Sending, GivingIds
<1>2. PICK wait \in BOOLEAN : Begin(name, 0, wait, selected, IF name = "list" THEN "ask" ELSE "flush")
  BY DEF Sending
<1>3. name \in Commands /\ name # "setid"
  BY DEF Commands
<1>4. /\ ScriptsTyped' /\ QueuesTyped' /\ AnswersTyped' /\ CountsTyped' /\ op' \in OpType
      /\ op'.name = name /\ todo' = selected /\ pc' = (IF name = "list" THEN "ask" ELSE "flush")
      /\ ret' = "none" /\ complete' = 0
  <2> DEFINE first == IF name = "list" THEN "ask" ELSE "flush"
  <2>1. Begin(name, 0, wait, selected, first)
    BY <1>2
  <2>2. 0 \in Ids \cup {0} /\ (name = "setid" => 0 \in Ids) /\ jobs' = jobs
    BY <1>1, <1>3
  <2> HIDE DEF first
  <2>3. /\ ScriptsTyped' /\ QueuesTyped' /\ AnswersTyped' /\ CountsTyped' /\ op' \in OpType
        /\ op'.name = name /\ todo' = selected /\ pc' = first /\ ret' = "none" /\ complete' = 0
    BY <1>1, <1>3, <2>1, <2>2, BeginEffect
  <2> QED
    BY <2>3 DEF first
<1>5. HostTyped'
  BY <1>1, <1>4 DEF HostTyped, Places
<1>6. Commanding' /\ Counting'
  BY <1>4, Constants DEF Commanding, Counting
<1>7. Looping' /\ GivingIds'
  BY <1>1, <1>3, <1>4 DEF Looping, GivingIds
<1> QED
  BY <1>4, <1>5, <1>6, <1>7 DEF TypeInv, Control

\* A call that sends none itself begins: the cameras of set_id are known ones.
LEMMA QuietCallTyped == TypeInv /\ (SetId \/ Select \/ Start) => TypeInv'
<1> SUFFICES ASSUME TypeInv, SetId \/ Select \/ Start PROVE TypeInv'
  OBVIOUS
<1>1. /\ pc = "idle" /\ NoCommand /\ UNCHANGED <<cameras, mc_id, saved, calls, refused, faults>>
      /\ HostTyped /\ Looping /\ GivingIds /\ CountsTyped /\ Commanding
  BY Parts DEF SetId, Select, Start
<1>2. /\ AnswersTyped' /\ complete' = 0 /\ op' \in OpType /\ op'.name = "none" /\ quiet' = {} /\ silent' = {}
  BY <1>1, NoCommandEffect
<1>3. ScriptsTyped' /\ QueuesTyped' /\ jobs = <<>>
  BY <1>1, CamerasStay DEF GivingIds
<1>4. CASE SetId
  <2> DEFINE Orders(old, new, c) ==
           \/ jobs' = <<[cam |-> c, id |-> new]>>
           \/ \E d \in Find(new) : jobs' = <<[cam |-> d, id |-> old], [cam |-> c, id |-> new]>>
  <2>0. PICK old \in Ids, new \in Ids : \E c \in Find(old) : Orders(old, new, c)
    BY <1>4 DEF SetId
  <2>1. PICK c \in Find(old) : Orders(old, new, c)
    BY <2>0
  <2>2. c \in Cams /\ \A d \in Find(new) : d \in Cams
    BY FindFacts
  <2>3. jobs' \in Seq(JobType)
    <3>1. CASE jobs' = <<[cam |-> c, id |-> new]>>
      <4>1. [cam |-> c, id |-> new] \in JobType
        BY <2>2 DEF JobType
      <4> QED
        BY <3>1, <4>1
    <3>2. ASSUME NEW d \in Find(new), jobs' = <<[cam |-> d, id |-> old], [cam |-> c, id |-> new]>>
          PROVE  jobs' \in Seq(JobType)
      <4>1. [cam |-> d, id |-> old] \in JobType /\ [cam |-> c, id |-> new] \in JobType
        BY <2>2 DEF JobType
      <4> QED
        BY <3>2, <4>1
    <3> QED
      BY <2>1, <3>1, <3>2
  <2>4. Len(jobs') <= Left /\ pc' = "setid" /\ ret' = "none" /\ UNCHANGED <<selected, todo>>
    BY <1>4 DEF SetId
  <2>5. CountsTyped'
    <3>1. Left' >= 0
      <4>1. /\ calls \in Nat /\ faults \in Nat /\ Budget \in Nat /\ Len(jobs) = 0 /\ Len(jobs') \in Nat
        BY <1>1, <1>3, <2>3, Constants, EmptySeq, LenProperties DEF CountsTyped
      <4>2. PICK n \in Nat : n = Len(jobs')
        BY <4>1
      <4>3. n <= Budget - calls - faults
        BY <2>4, <4>1, <4>2 DEF Left
      <4>4. Budget - calls - faults - n >= 0
        BY <4>1, <4>3
      <4> QED
        BY <1>1, <4>2, <4>4 DEF Left
    <3> QED
      BY <1>1, <1>2, <2>3, <3>1 DEF CountsTyped
  <2>6. HostTyped'
    BY <1>1, <1>2, <2>4 DEF HostTyped, Places
  <2>7. Commanding' /\ Counting' /\ Looping' /\ GivingIds'
    BY <1>1, <1>2, <2>4 DEF Commanding, Counting, Looping, GivingIds
  <2> QED
    BY <1>2, <1>3, <2>5, <2>6, <2>7 DEF TypeInv, Control
<1>5. CASE Select
  <2>1. PICK S \in {UNION {Find(i) : i \in I} : I \in (SUBSET {mc_id[c] : c \in Cams}) \ {{}}} \cup {Cams} :
           selected' \in Sorted(S, mc_id)
    BY <1>5 DEF Select
  <2>2. S \subseteq Cams /\ (Cams # {} => S # {})
    <3>1. CASE S = Cams
      BY <3>1
    <3>2. ASSUME NEW I \in (SUBSET {mc_id[c] : c \in Cams}) \ {{}}, S = UNION {Find(i) : i \in I}
          PROVE  S \subseteq Cams /\ (Cams # {} => S # {})
      <4>1. S \subseteq Cams
        BY <3>2, FindFacts
      <4>2. PICK c \in Cams : mc_id[c] \in I
        <5>1. I # {} /\ I \subseteq {mc_id[d] : d \in Cams}
          BY <3>2
        <5>2. PICK i : i \in I
          BY <5>1
        <5> QED
          BY <5>1, <5>2
      <4>3. Find(mc_id[c]) # {}
        BY <4>2, FindFacts DEF WithId
      <4> QED
        BY <3>2, <4>1, <4>2, <4>3
    <3> QED
      BY <2>1, <3>1, <3>2
  <2>3. selected' \in Seq(Cams) /\ Distinct(selected') /\ (Cams # {} => selected' # <<>>)
    BY <2>1, <2>2, SortedFacts
  <2>4. pc' = pc /\ ret' = "over" /\ UNCHANGED <<jobs, todo>>
    BY <1>5 DEF Select
  <2>5. CountsTyped'
    BY <1>1, <1>2, <2>4, CountsStay DEF CountsTyped
  <2>6. HostTyped'
    BY <1>1, <1>2, <2>3, <2>4 DEF HostTyped, Places
  <2>7. Commanding' /\ Counting' /\ Looping' /\ GivingIds'
    BY <1>1, <1>2, <2>3, <2>4 DEF Commanding, Counting, Looping, GivingIds
  <2> QED
    BY <1>2, <1>3, <2>5, <2>6, <2>7 DEF TypeInv, Control
<1>6. CASE Start
  <2>1. pc' = "start" /\ todo' = selected /\ selected # <<>> /\ ret' = "none" /\ UNCHANGED <<jobs, selected>>
    BY <1>6 DEF Start
  <2>2. CountsTyped'
    BY <1>1, <1>2, <2>1, CountsStay DEF CountsTyped
  <2>3. HostTyped'
    BY <1>1, <1>2, <2>1 DEF HostTyped, Places
  <2>4. Commanding' /\ Counting' /\ Looping' /\ GivingIds'
    BY <1>1, <1>2, <1>3, <2>1 DEF Commanding, Counting, Looping, GivingIds
  <2> QED
    BY <1>2, <1>3, <2>2, <2>3, <2>4 DEF TypeInv, Control
<1> QED
  BY <1>4, <1>5, <1>6

\* The flush of one camera leaves the state typed.
LEMMA FlushTyped == TypeInv /\ Flush => TypeInv'
<1> SUFFICES ASSUME TypeInv, Flush PROVE TypeInv'
  OBVIOUS
<1>1. /\ pc = "flush" /\ todo # <<>> /\ HostTyped /\ Commanding /\ Looping /\ GivingIds /\ AnswersTyped /\ Counting
      /\ UNCHANGED <<running, cid, inq, cur, known, mc_id, selected, op, results, complete,
                     jobs, saved, answers, ret, history>>
      /\ outq' = [outq EXCEPT ![Head(todo)] = <<>>]
  BY Parts DEF Flush
<1>2. todo[1] \in Cams /\ Head(todo) = todo[1]
  BY <1>1, TodoFacts
<1>3. <<>> \in Seq(MsgType) /\ Len(<<>>) <= QueueMax
  BY Constants, EmptySeq
<1>4. QueuesTyped' /\ ScriptsTyped'
  BY <1>1, <1>2, <1>3, OutStay
<1>5. CountsTyped'
  BY <1>1, CountsStay, Parts DEF CountsTyped, history
<1>6. complete' = 0 /\ op.name \in {"shoot", "exit", "tick", "setid"} /\ ret = "none"
  BY <1>1 DEF Counting, Commanding
<1>7. CASE Len(todo) > 1
  <2>1. todo' = Tail(todo) /\ pc' = pc /\ todo' \in Seq(Cams) /\ Distinct(todo')
    BY <1>1, <1>7, TodoFacts DEF Flush
  <2>2. HostTyped'
    BY <1>1, <2>1 DEF HostTyped
  <2>3. AnswersTyped' /\ Commanding' /\ Counting' /\ Looping'
    BY <1>1, <1>6, <2>1 DEF AnswersTyped, Commanding, Counting, Looping
  <2>4. GivingIds'
    <3>1. op.name # "setid"
      <4>1. Len(todo) # 1
        <5>1. \A n : n > 1 => n # 1
          OBVIOUS
        <5> QED
          BY <1>7, <5>1, Zenon
      <4> QED
        BY <1>1, <4>1 DEF GivingIds
    <3> QED
      BY <1>1, <2>1, <3>1 DEF GivingIds
  <2> QED
    BY <1>4, <1>5, <2>2, <2>3, <2>4 DEF TypeInv, Control
<1>8. CASE ~(Len(todo) > 1)
  <2>1. todo' = selected /\ pc' = (IF op.name = "tick" THEN "ask" ELSE "send")
    BY <1>1, <1>8 DEF Flush, AfterFlush
  <2>2. HostTyped'
    BY <1>1, <2>1 DEF HostTyped, Places
  <2>3. AnswersTyped' /\ Commanding' /\ Counting'
    BY <1>1, <1>6, <2>1, Constants DEF AnswersTyped, Commanding, Counting
  <2>4. Looping'
    BY <1>1, <2>1 DEF Looping
  <2>5. GivingIds'
    BY <1>1, <2>1 DEF GivingIds
  <2> QED
    BY <1>4, <1>5, <2>2, <2>3, <2>4, <2>5 DEF TypeInv, Control
<1> QED
  BY <1>7, <1>8

\* A flush that fails leaves it typed too.
LEMMA FlushFailsTyped == TypeInv /\ FlushFails => TypeInv'
<1> SUFFICES ASSUME TypeInv, FlushFails PROVE TypeInv'
  OBVIOUS
<1>1. /\ pc = "flush" /\ todo # <<>> /\ HostTyped /\ AnswersTyped /\ CountsTyped
      /\ Left > 0 /\ faults' = faults + 1 /\ Throw
      /\ UNCHANGED <<running, cid, inq, cur, known, mc_id, op, results, complete, answers,
                     calls, quiet, silent, refused>>
  BY Parts DEF FlushFails, Fault
<1>2. todo[1] \in Cams /\ Head(todo) = todo[1]
  BY <1>1, TodoFacts
<1>3. PICK k \in 0..Len(outq[todo[1]]) :
         outq' = [outq EXCEPT ![todo[1]] = SubSeq(outq[todo[1]], k + 1, Len(outq[todo[1]]))]
  BY <1>2 DEF FlushFails
<1>4. /\ SubSeq(outq[todo[1]], k + 1, Len(outq[todo[1]])) \in Seq(MsgType)
      /\ Len(SubSeq(outq[todo[1]], k + 1, Len(outq[todo[1]]))) <= QueueMax
  <2> DEFINE q == outq[todo[1]]
  <2>1. q \in Seq(MsgType) /\ Len(q) \in Nat /\ Len(q) <= QueueMax /\ QueueMax \in Nat
    BY <1>2, QueueFacts, Constants
  <2> HIDE DEF q
  <2>2. PICK n \in Nat : n = Len(q)
    BY <2>1
  <2>3. k \in 0..n
    BY <1>3, <2>2 DEF q
  <2>4. k + 1 \in Int /\ \A i \in (k + 1)..n : i \in 1..n
    BY <2>3
  <2>5. \A i \in (k + 1)..n : q[i] \in MsgType
    BY <2>1, <2>2, <2>4, ElementOfSeq
  <2>6. SubSeq(q, k + 1, n) \in Seq(MsgType) /\ Len(SubSeq(q, k + 1, n)) = (IF k + 1 <= n THEN n - (k + 1) + 1 ELSE 0)
    BY <2>2, <2>4, <2>5, SubSeqProperties
  <2>7. (IF k + 1 <= n THEN n - (k + 1) + 1 ELSE 0) <= n
    BY <2>3
  <2>8. SubSeq(q, k + 1, n) \in Seq(MsgType) /\ Len(SubSeq(q, k + 1, n)) <= QueueMax
    BY <2>1, <2>2, <2>3, <2>6, <2>7
  <2> QED
    BY <2>2, <2>8 DEF q
<1>5. QueuesTyped' /\ ScriptsTyped'
  BY <1>1, <1>2, <1>3, <1>4, OutStay
<1>6. CountsTyped'
  BY <1>1, CountsStay DEF CountsTyped, Throw
<1>7. HostTyped' /\ Control'
  BY <1>1, ThrowTyped DEF HostTyped
<1>8. AnswersTyped'
  BY <1>1 DEF AnswersTyped
<1> QED
  BY <1>5, <1>6, <1>7, <1>8 DEF TypeInv

\* How Send goes on once its command is written.
SendWays ==
    \/ Len(todo) > 1 /\ todo' = Tail(todo) /\ UNCHANGED <<pc, ret, selected, saved>>
    \/ Len(todo) = 1 /\ op.wait /\ todo' = selected /\ pc' = "wait" /\ UNCHANGED <<ret, selected, saved>>
    \/ Len(todo) = 1 /\ ~op.wait /\ todo' = <<>> /\ Return("over")

\* A step of Send writes the command to one camera and goes on so.
LEMMA SendEffect ==
    ASSUME TypeInv, Send
    PROVE  /\ pc = "send" /\ todo # <<>> /\ todo[1] \in Cams /\ SendWays
           /\ UNCHANGED <<running, cid, cur, outq, known, mc_id, op, results, complete, jobs,
                          answers, calls, silent>>
           /\ WriteOk(todo[1]) \/ WriteRefused(todo[1]) \/ WriteFails(todo[1])
<1>1. /\ pc = "send" /\ todo # <<>>
      /\ UNCHANGED <<running, cid, cur, outq, known, mc_id, op, results, complete, jobs,
                     answers, calls, silent>>
  BY DEF Send
<1>2. todo[1] \in Cams /\ Head(todo) = todo[1] /\ (~(Len(todo) > 1) => Len(todo) = 1)
  BY <1>1, TodoFacts
<1>3. WriteOk(todo[1]) \/ WriteRefused(todo[1]) \/ WriteFails(todo[1])
  BY <1>2 DEF Send
<1>4. SendWays
  BY <1>2 DEF Send, SendWays
<1> QED
  BY <1>1, <1>2, <1>3, <1>4

\* mc:cmd leaves the state typed after each camera.
LEMMA SendTyped == TypeInv /\ Send => TypeInv'
<1> SUFFICES ASSUME TypeInv, Send PROVE TypeInv'
  OBVIOUS
<1>1. /\ pc = "send" /\ todo # <<>> /\ todo[1] \in Cams /\ SendWays
      /\ UNCHANGED <<running, cid, cur, outq, known, mc_id, op, results, complete, jobs,
                     answers, calls, silent>>
      /\ WriteOk(todo[1]) \/ WriteRefused(todo[1]) \/ WriteFails(todo[1])
  BY SendEffect
<1>2. HostTyped /\ Commanding /\ Looping /\ GivingIds /\ AnswersTyped /\ Counting /\ CountsTyped
  BY Parts
<1>3. /\ QueuesTyped' /\ ScriptsTyped'
      /\ faults' = faults \/ (Left > 0 /\ faults' = faults + 1)
      /\ quiet' \in {quiet, quiet \ {todo[1]}} /\ refused' \in {refused, refused \cup {todo[1]}}
  BY <1>1, WriteEffect
<1>4. CountsTyped'
  BY <1>1, <1>2, <1>3, CountsStay DEF CountsTyped
<1>5. AnswersTyped'
  BY <1>1, <1>2 DEF AnswersTyped
<1>6. op.name \in {"shoot", "exit", "setid"} /\ ret = "none" /\ complete = 0
  BY <1>1, <1>2 DEF Commanding, Counting
<1>7. CASE Len(todo) > 1 /\ todo' = Tail(todo) /\ UNCHANGED <<pc, ret, selected, saved>>
  <2>1. todo' \in Seq(Cams) /\ Distinct(todo') /\ \A c \in Cams : In(c, todo') => In(c, todo)
    BY <1>1, <1>7, TodoFacts
  <2>2. HostTyped'
    BY <1>1, <1>2, <1>7, <2>1 DEF HostTyped
  <2>3. Commanding' /\ Counting'
    BY <1>1, <1>6, <1>7 DEF Commanding, Counting
  <2>4. Looping'
    <3>1. \A c \in Cams : In(c, todo)' => In(c, selected)'
      BY <1>1, <1>2, <1>7, <2>1 DEF Looping, In
    <3> QED
      BY <1>1, <1>2, <1>7, <2>1, <3>1 DEF Looping
  <2>5. op.name # "setid"
    <3>1. Len(todo) # 1
      BY <1>1, <1>7, TodoFacts
    <3> QED
      BY <1>1, <1>2, <3>1 DEF GivingIds
  <2>6. GivingIds'
    BY <1>1, <1>2, <1>7, <2>5 DEF GivingIds
  <2> QED
    BY <1>3, <1>4, <1>5, <2>2, <2>3, <2>4, <2>6 DEF TypeInv, Control
<1>8. CASE todo' = selected /\ pc' = "wait" /\ UNCHANGED <<ret, selected, saved>>
  <2>1. HostTyped'
    BY <1>1, <1>2, <1>8 DEF HostTyped, Places
  <2>2. Commanding' /\ Counting'
    BY <1>1, <1>6, <1>8 DEF Commanding, Counting
  <2>3. Looping'
    BY <1>2, <1>8 DEF Looping, In
  <2>4. GivingIds'
    BY <1>1, <1>2, <1>8 DEF GivingIds
  <2> QED
    BY <1>3, <1>4, <1>5, <2>1, <2>2, <2>3, <2>4 DEF TypeInv, Control
<1>9. CASE todo' = <<>> /\ Return("over")
  <2>1. /\ selected' \in Seq(Cams) /\ saved' \in Seq(Cams) /\ Distinct(selected') /\ Distinct(saved')
        /\ ret' \in {"none", "all", "timeout", "over"} /\ (Cams # {} => selected' # <<>>)
        /\ \/ saved = <<>> /\ pc' = "idle" /\ ret' = "over"
           \/ saved # <<>> /\ pc' = "setid" /\ ret' = "none"
    BY <1>1, <1>9, ReturnEffect
  <2>2. todo' \in Seq(Cams) /\ Distinct(todo')
    BY <1>9, EmptySeq DEF Distinct
  <2>3. HostTyped'
    BY <1>1, <1>2, <2>1, <2>2 DEF HostTyped, Places
  <2>4. Commanding' /\ Counting' /\ Looping'
    BY <2>1, <2>2 DEF Commanding, Counting, Looping
  <2>5. GivingIds'
    BY <1>1, <1>2, <2>1 DEF GivingIds
  <2> QED
    BY <1>3, <1>4, <1>5, <2>3, <2>4, <2>5 DEF TypeInv, Control
<1> QED
  BY <1>1, <1>7, <1>8, <1>9 DEF SendWays

\* A camera with this id has answered or failed.
Counted(i) == results[i].failed \/ results[i].done

\* The result that a message m from c makes.
ResultOf(c, m, r) ==
    \/ r.failed /\ ~r.done
    \/ r.done /\ r.from = <<c>> /\ r.call = m.call

\* wait_status_msg counts a camera, or polls it: its result fails, or is made
\* of the first message that was waiting.
PollAt(c, i) ==
    /\ UNCHANGED <<running, cid, inq, cur, known, mc_id, selected, pc, op, jobs, saved,
                   answers, ret, calls, silent, refused>>
    /\ todo' = Tail(todo)
    /\ \A j \in Ids : j # i => results'[j] = results[j]
    /\ \/ /\ Counted(i) /\ complete' = complete + 1
          /\ UNCHANGED <<results, outq, quiet, faults>>
       \/ /\ ~Counted(i) /\ complete' = complete
          /\ \/ /\ results'[i].failed
                /\ \/ Left > 0 /\ faults' = faults + 1 /\ quiet' = quiet \ {c}
                   \/ outq' = outq /\ UNCHANGED <<quiet, faults>>
             \/ /\ outq[c] # <<>> /\ ResultOf(c, outq[c][1], results'[i]) /\ UNCHANGED <<quiet, faults>>
             \/ results' = results /\ outq' = outq /\ UNCHANGED <<quiet, faults>>
          /\ outq' = outq \/ (outq[c] # <<>> /\ outq'[c] = Tail(outq[c]))
    /\ \A d \in Cams : d # c => outq'[d] = outq[d]

\* A step of Poll does that with the first camera of the loop.
LEMMA PollEffect ==
    ASSUME TypeInv, Poll
    PROVE  /\ pc = "wait" /\ todo # <<>> /\ todo[1] \in Cams /\ mc_id[todo[1]] \in Ids
           /\ PollAt(todo[1], mc_id[todo[1]]) /\ QueuesTyped' /\ ScriptsTyped' /\ AnswersTyped'
<1> DEFINE c == todo[1]
           i == mc_id[c]
<1>1. pc = "wait" /\ todo # <<>> /\ todo' = Tail(todo)
      /\ UNCHANGED <<running, cid, inq, cur, known, mc_id, selected, pc, op, jobs, saved,
                     answers, ret, calls, silent, refused>>
  BY DEF Poll
<1>2. c \in Cams /\ Head(todo) = c
  BY <1>1, TodoFacts
<1>3. i \in Ids /\ results \in [Ids -> ResultType] /\ complete \in Nat /\ answers' \in [Cams -> Seq(AnswerType)]
  BY <1>1, <1>2, Parts DEF HostTyped, AnswersTyped
<1>4. results[i] \in ResultType
  BY <1>3
<1>5. \/ Counted(i) /\ complete' = complete + 1 /\ UNCHANGED <<results, outq, quiet, faults>>
      \/ /\ ~Counted(i) /\ complete' = complete
         /\ \/ /\ Fault /\ results' = [results EXCEPT ![i].failed = TRUE] /\ quiet' = quiet \ {c}
               /\ outq' \in {outq, [outq EXCEPT ![c] = IF @ = <<>> THEN @ ELSE Tail(@)]}
            \/ /\ UNCHANGED <<quiet, faults>> /\ outq[c] # <<>>
               /\ results' = [results EXCEPT ![i] = FromMsg(c, Head(outq[c]))]
               /\ outq' = [outq EXCEPT ![c] = Tail(@)]
            \/ /\ UNCHANGED <<quiet, faults, outq>> /\ outq[c] = <<>>
               /\ results' = results \/ results' = [results EXCEPT ![i].failed = TRUE]
  BY <1>2 DEF Poll, Counted
<1> HIDE DEF c, i
<1>6. [results[i] EXCEPT !.failed = TRUE] \in ResultType /\ [results[i] EXCEPT !.failed = TRUE].failed
  BY <1>4 DEF ResultType
<1>7. /\ [results EXCEPT ![i].failed = TRUE] \in [Ids -> ResultType]
      /\ [results EXCEPT ![i].failed = TRUE][i].failed
      /\ \A j \in Ids : j # i => [results EXCEPT ![i].failed = TRUE][j] = results[j]
  BY <1>3, <1>6
<1>8. ASSUME outq[c] # <<>>
      PROVE  FromMsg(c, Head(outq[c])) \in ResultType /\ ResultOf(c, outq[c][1], FromMsg(c, Head(outq[c])))
  <2>1. Head(outq[c]) = outq[c][1] /\ outq[c][1] \in MsgType
    BY <1>2, <1>8, ReadOne
  <2>2. outq[c][1].call \in 0..Budget
    BY <2>1 DEF MsgType
  <2>3. <<c>> \in Seq(Cams) /\ <<>> \in Seq(Cams) /\ 0 \in 0..Budget
    BY <1>2, Constants
  <2> QED
    BY <2>1, <2>2, <2>3 DEF FromMsg, ResultOf, ResultType, NoResult
<1>9. ASSUME Counted(i), complete' = complete + 1, UNCHANGED <<results, outq, quiet, faults>>
      PROVE  PollAt(c, i) /\ QueuesTyped' /\ ScriptsTyped' /\ AnswersTyped'
  <2>1. QueuesTyped' /\ ScriptsTyped' /\ AnswersTyped'
    BY <1>1, <1>3, <1>9, CamerasStay DEF cameras, AnswersTyped
  <2>2. PollAt(c, i)
    BY <1>1, <1>9 DEF PollAt
  <2> QED
    BY <2>1, <2>2
<1>10. ASSUME ~Counted(i), complete' = complete
       PROVE  PollAt(c, i) /\ QueuesTyped' /\ ScriptsTyped' /\ AnswersTyped'
  <2>1. CASE /\ Fault /\ results' = [results EXCEPT ![i].failed = TRUE] /\ quiet' = quiet \ {c}
             /\ outq' \in {outq, [outq EXCEPT ![c] = IF @ = <<>> THEN @ ELSE Tail(@)]}
    <3>1. /\ QueuesTyped' /\ ScriptsTyped' /\ (outq' = outq \/ (outq[c] # <<>> /\ outq'[c] = Tail(outq[c])))
          /\ \A d \in Cams : d # c => outq'[d] = outq[d]
      BY <1>1, <1>2, <2>1, ReadEffect
    <3>2. AnswersTyped'
      BY <1>3, <1>7, <1>10, <2>1 DEF AnswersTyped
    <3>3. PollAt(c, i)
      BY <1>1, <1>7, <1>10, <2>1, <3>1 DEF PollAt, Fault
    <3> QED
      BY <3>1, <3>2, <3>3
  <2>2. CASE /\ UNCHANGED <<quiet, faults>> /\ outq[c] # <<>>
             /\ results' = [results EXCEPT ![i] = FromMsg(c, Head(outq[c]))]
             /\ outq' = [outq EXCEPT ![c] = Tail(@)]
    <3>1. /\ QueuesTyped' /\ ScriptsTyped' /\ (outq' = outq \/ (outq[c] # <<>> /\ outq'[c] = Tail(outq[c])))
          /\ \A d \in Cams : d # c => outq'[d] = outq[d]
      BY <1>1, <1>2, <2>2, ReadEffect
    <3>2. /\ results' \in [Ids -> ResultType] /\ ResultOf(c, outq[c][1], results'[i])
          /\ \A j \in Ids : j # i => results'[j] = results[j]
      BY <1>3, <1>8, <2>2
    <3>3. AnswersTyped'
      BY <1>3, <1>10, <3>2 DEF AnswersTyped
    <3>4. PollAt(c, i)
      BY <1>1, <1>10, <2>2, <3>1, <3>2 DEF PollAt
    <3> QED
      BY <3>1, <3>3, <3>4
  <2>3. CASE /\ UNCHANGED <<quiet, faults, outq>> /\ outq[c] = <<>>
             /\ results' = results \/ results' = [results EXCEPT ![i].failed = TRUE]
    <3>1. QueuesTyped' /\ ScriptsTyped'
      BY <1>1, <2>3, CamerasStay DEF cameras
    <3>2. AnswersTyped'
      BY <1>3, <1>7, <1>10, <2>3 DEF AnswersTyped
    <3>3. PollAt(c, i)
      BY <1>1, <1>7, <1>10, <2>3 DEF PollAt
    <3> QED
      BY <3>1, <3>2, <3>3
  <2> QED
    BY <1>5, <1>10, <2>1, <2>2, <2>3
<1>11. PollAt(c, i) /\ QueuesTyped' /\ ScriptsTyped' /\ AnswersTyped'
  BY <1>5, <1>9, <1>10
<1> QED
  BY <1>1, <1>2, <1>3, <1>11 DEF c, i

\* wait_status_msg leaves the state typed after each camera.
LEMMA PollTyped == TypeInv /\ Poll => TypeInv'
<1> SUFFICES ASSUME TypeInv, Poll PROVE TypeInv'
  OBVIOUS
<1>1. /\ pc = "wait" /\ todo # <<>> /\ QueuesTyped' /\ ScriptsTyped' /\ AnswersTyped'
      /\ UNCHANGED <<mc_id, selected, pc, op, jobs, saved, ret, calls, silent, refused>>
      /\ todo' = Tail(todo) /\ (faults' = faults \/ (Left > 0 /\ faults' = faults + 1))
      /\ quiet' \subseteq quiet
  BY PollEffect DEF PollAt
<1>2. HostTyped /\ Commanding /\ Looping /\ GivingIds /\ CountsTyped
  BY Parts
<1>3. todo' \in Seq(Cams) /\ Distinct(todo') /\ \A c \in Cams : In(c, todo') => In(c, todo)
  <2>1. Tail(todo) \in Seq(Cams) /\ Distinct(Tail(todo)) /\ \A c \in Cams : In(c, Tail(todo)) => In(c, todo)
    BY <1>1, TodoFacts
  <2> QED
    BY <1>1, <2>1, Zenon
<1>4. CountsTyped'
  BY <1>1, <1>2, CountsStay DEF CountsTyped
<1>5. HostTyped'
  BY <1>1, <1>2, <1>3 DEF HostTyped
<1>6. Commanding' /\ Counting' /\ GivingIds'
  BY <1>1, <1>2 DEF Commanding, Counting, GivingIds
<1>7. Looping'
  <2>1. \A c \in Cams : In(c, todo)' => In(c, selected)'
    BY <1>1, <1>2, <1>3 DEF Looping, In
  <2> QED
    BY <1>1, <1>2, <1>3, <2>1 DEF Looping
<1> QED
  BY <1>1, <1>4, <1>5, <1>6, <1>7 DEF TypeInv, Control

\* The end of a round, which counts all cameras, is the last, or is not.
RoundWays ==
    \/ /\ complete = Len(selected) /\ todo' = todo /\ results' = results /\ Return("all")
    \/ todo' = selected /\ results' = results /\ UNCHANGED <<pc, ret, selected, saved>>
    \/ /\ todo' = todo /\ Return("timeout")
       /\ \A i \in Ids : results'[i].from = results[i].from /\ results'[i].call = results[i].call /\ results'[i].done = results[i].done
       /\ \A i \in Ids : results[i].failed => results'[i].failed

\* The end of a round does that and nothing else.
LEMMA RoundEffect ==
    ASSUME TypeInv, RoundEnd \/ WaitTimeout
    PROVE  /\ pc = "wait" /\ todo = <<>> /\ complete' = 0 /\ RoundWays /\ AnswersTyped'
           /\ UNCHANGED <<cameras, mc_id, op, jobs, answers, history>>
<1>1. /\ pc = "wait" /\ todo = <<>> /\ complete' = 0
      /\ UNCHANGED <<cameras, mc_id, op, jobs, answers, history>>
  BY DEF RoundEnd, WaitTimeout
<1>2. results \in [Ids -> ResultType] /\ answers \in [Cams -> Seq(AnswerType)]
  BY Parts DEF AnswersTyped
<1>3. CASE RoundEnd
  <2>1. RoundWays /\ results' = results
    BY <1>3 DEF RoundEnd, RoundWays
  <2>2. AnswersTyped'
    BY <1>1, <1>2, <2>1 DEF AnswersTyped
  <2> QED
    BY <1>1, <2>1, <2>2
<1>4. CASE WaitTimeout
  <2> DEFINE Late(i) == results[i].done \/ \A c \in ToSet(selected) : mc_id[c] # i
  <2>1. /\ results' = [i \in Ids |-> IF Late(i) THEN results[i] ELSE [results[i] EXCEPT !.failed = TRUE]]
        /\ Return("timeout") /\ todo' = todo
    BY <1>4 DEF WaitTimeout
  <2> HIDE DEF Late
  <2>2. \A i \in Ids : results[i] \in ResultType
    BY <1>2
  <2>3. \A r \in ResultType : /\ [r EXCEPT !.failed = TRUE] \in ResultType
                              /\ [r EXCEPT !.failed = TRUE].failed
                              /\ [r EXCEPT !.failed = TRUE].from = r.from
                              /\ [r EXCEPT !.failed = TRUE].call = r.call
                              /\ [r EXCEPT !.failed = TRUE].done = r.done
    BY DEF ResultType
  <2>4. results' \in [Ids -> ResultType]
    BY <2>1, <2>2, <2>3
  <2>5. \A i \in Ids : results'[i] = results[i] \/ results'[i] = [results[i] EXCEPT !.failed = TRUE]
    BY <2>1
  <2>6. \A i \in Ids : results'[i].from = results[i].from /\ results'[i].call = results[i].call /\ results'[i].done = results[i].done
    BY <2>2, <2>3, <2>5
  <2>7. \A i \in Ids : results[i].failed => results'[i].failed
    BY <2>2, <2>3, <2>5
  <2>8. RoundWays
    BY <2>1, <2>6, <2>7 DEF RoundWays
  <2>9. AnswersTyped'
    BY <1>1, <1>2, <2>4 DEF AnswersTyped
  <2> QED
    BY <1>1, <2>8, <2>9
<1> QED
  BY <1>3, <1>4

\* The end of a round leaves the state typed.
LEMMA RoundTyped == TypeInv /\ (RoundEnd \/ WaitTimeout) => TypeInv'
<1> SUFFICES ASSUME TypeInv, RoundEnd \/ WaitTimeout PROVE TypeInv'
  OBVIOUS
<1>1. /\ pc = "wait" /\ todo = <<>> /\ complete' = 0 /\ RoundWays /\ AnswersTyped'
      /\ UNCHANGED <<cameras, mc_id, op, jobs, answers, history>>
  BY RoundEffect
<1>2. HostTyped /\ Commanding /\ Looping /\ GivingIds /\ CountsTyped
  BY Parts
<1>3. ScriptsTyped' /\ QueuesTyped'
  BY <1>1, CamerasStay
<1>4. CountsTyped'
  BY <1>1, <1>2, CountsStay DEF CountsTyped, history
<1>5. CASE todo' = selected /\ UNCHANGED <<pc, ret, selected, saved>>
  <2>1. HostTyped'
    BY <1>1, <1>2, <1>5 DEF HostTyped
  <2>2. Commanding' /\ Counting' /\ GivingIds'
    BY <1>1, <1>2, <1>5 DEF Commanding, Counting, GivingIds
  <2>3. Looping'
    BY <1>1, <1>2, <1>5 DEF Looping, In
  <2> QED
    BY <1>1, <1>3, <1>4, <2>1, <2>2, <2>3 DEF TypeInv, Control
<1>6. ASSUME NEW how \in {"all", "timeout"}, todo' = todo, Return(how) PROVE TypeInv'
  <2>1. /\ selected' \in Seq(Cams) /\ saved' \in Seq(Cams) /\ Distinct(selected') /\ Distinct(saved')
        /\ ret' \in {"none", "all", "timeout", "over"} /\ (Cams # {} => selected' # <<>>)
        /\ \/ saved = <<>> /\ pc' = "idle" /\ ret' = how
           \/ saved # <<>> /\ pc' = "setid" /\ ret' = "none"
    BY <1>1, <1>6, ReturnEffect
  <2>2. HostTyped'
    BY <1>1, <1>2, <1>6, <2>1 DEF HostTyped, Places
  <2>3. Commanding' /\ Counting' /\ Looping'
    BY <1>2, <1>6, <2>1 DEF Commanding, Counting, Looping
  <2>4. GivingIds'
    BY <1>1, <1>2, <2>1 DEF GivingIds
  <2> QED
    BY <1>1, <1>3, <1>4, <2>2, <2>3, <2>4 DEF TypeInv, Control
<1> QED
  BY <1>1, <1>5, <1>6 DEF RoundWays

\* init_sync and imglist ask the camera: what is written, and what follows.
LEMMA AskEffect ==
    ASSUME TypeInv, Ask
    PROVE  /\ pc = "ask" /\ todo # <<>> /\ todo[1] \in Cams
           /\ UNCHANGED <<running, cid, cur, outq, known, mc_id, op, results, jobs, answers,
                          calls, silent>>
           /\ \/ WriteOk(todo[1]) /\ ~NoBase(todo[1])
                 /\ pc' = "answer" /\ UNCHANGED <<todo, complete, ret, selected, saved>>
              \/ WriteOk(todo[1]) /\ NoBase(todo[1]) /\ NextAsk
              \/ (WriteRefused(todo[1]) \/ WriteFails(todo[1])) /\ Caught
<1>1. pc = "ask" /\ todo # <<>>
      /\ UNCHANGED <<running, cid, cur, outq, known, mc_id, op, results, jobs, answers,
                     calls, silent>>
  BY DEF Ask
<1>2. todo[1] \in Cams /\ Head(todo) = todo[1]
  BY <1>1, TodoFacts
<1> QED
  BY <1>1, <1>2 DEF Ask

\* Asking leaves the state typed.
LEMMA AskTyped == TypeInv /\ Ask => TypeInv'
<1> SUFFICES ASSUME TypeInv, Ask PROVE TypeInv'
  OBVIOUS
<1>1. /\ pc = "ask" /\ todo # <<>> /\ todo[1] \in Cams
      /\ UNCHANGED <<running, cid, cur, outq, known, mc_id, op, results, jobs, answers,
                     calls, silent>>
      /\ WriteOk(todo[1]) \/ WriteRefused(todo[1]) \/ WriteFails(todo[1])
  BY AskEffect
<1>2. Again \/ Onward \/ Ended \/ Stays
  BY AskEffect, LoopWays DEF Stays
<1>3. HostTyped' /\ Control' /\ complete' \in Nat
  BY <1>1, <1>2, LoopTyped
<1>4. /\ QueuesTyped' /\ ScriptsTyped'
      /\ faults' = faults \/ (Left > 0 /\ faults' = faults + 1)
      /\ quiet' \in {quiet, quiet \ {todo[1]}} /\ refused' \in {refused, refused \cup {todo[1]}}
  BY <1>1, WriteEffect
<1>5. CountsTyped'
  BY <1>1, <1>4, CountsStay, Parts DEF CountsTyped
<1>6. AnswersTyped'
  BY <1>1, <1>3, Parts DEF AnswersTyped
<1> QED
  BY <1>3, <1>4, <1>5, <1>6 DEF TypeInv

\* wait_msg throws: it ends imglist, and init_sync catches it.
LEMMA ThrownEffect ==
    ASSUME TypeInv, todo # <<>>, Thrown, op.name \in {"tick", "list"}
    PROVE  \/ /\ op.name = "list" /\ Throw /\ answers' = [c \in Cams |-> <<>>] /\ complete' = complete
           \/ /\ op.name = "tick" /\ Caught /\ UNCHANGED <<jobs, answers>>
  BY DEF Thrown

\* Either way the host's state stays typed.
LEMMA ThrownTyped ==
    ASSUME TypeInv, todo # <<>>, pc = "answer", Thrown, UNCHANGED <<op, mc_id, results>>
    PROVE  HostTyped' /\ Control' /\ AnswersTyped' /\ jobs' \in {jobs, <<>>}
<1>1. op.name \in {"tick", "list"} /\ mc_id \in [Cams -> Ids] /\ AnswersTyped
  BY Parts DEF Commanding, HostTyped
<1>2. CASE op.name = "list" /\ Throw /\ answers' = [c \in Cams |-> <<>>] /\ complete' = complete
  <2>1. HostTyped' /\ Control' /\ jobs' = <<>>
    BY <1>1, <1>2, ThrowTyped DEF Throw
  <2>2. <<>> \in Seq(AnswerType)
    BY EmptySeq
  <2>3. AnswersTyped'
    BY <1>1, <1>2, <2>2 DEF AnswersTyped
  <2> QED
    BY <2>1, <2>3
<1>3. CASE op.name = "tick" /\ Caught /\ UNCHANGED <<jobs, answers>>
  <2>1. HostTyped' /\ Control' /\ complete' \in Nat
    BY <1>3, LoopWays, LoopTyped
  <2> QED
    BY <1>1, <1>3, <2>1 DEF AnswersTyped
<1> QED
  BY <1>1, <1>2, <1>3, ThrownEffect

\* What a message that is read does to the answers and to the loop.
TakenWays(c, m) ==
    \/ op.name = "list" /\ m.type = "item" /\ Keep(c, m) /\ Stays /\ pc' = pc
    \/ op.name = "list" /\ m.type = "fail" /\ answers' = [answers EXCEPT ![c] = <<>>] /\ (Onward \/ Ended)
    \/ op.name = "list" /\ m.type \notin {"item", "fail"} /\ Keep(c, m) /\ (Onward \/ Ended)
    \/ op.name = "tick" /\ IsTick(m) /\ Keep(c, m) /\ (Again \/ Onward \/ Ended)
    \/ op.name = "tick" /\ ~IsTick(m) /\ answers' = answers /\ (Again \/ Onward \/ Ended)

\* A message that is no error is taken in one of these ways.
LEMMA TakenEffect ==
    ASSUME TypeInv, todo # <<>>, pc = "answer", NEW c \in Cams, NEW m \in MsgType, Taken(c, m)
    PROVE  jobs' = jobs /\ TakenWays(c, m)
<1>1. op.name \in {"tick", "list"}
  BY Parts DEF Commanding
<1>2. NextCam => Onward \/ Ended
  BY TodoFacts DEF NextCam, Onward, Ended
<1>3. NextAsk => Again \/ Onward \/ Ended
  BY LoopWays
<1> QED
  BY <1>1, <1>2, <1>3 DEF Taken, TakenWays, Stays

\* A message that is kept is behind the others of its camera.
LEMMA KeepEffect ==
    ASSUME TypeInv, pc = "answer", NEW c \in Cams, NEW m \in MsgType, Keep(c, m)
    PROVE  /\ answers' \in [Cams -> Seq(AnswerType)]
           /\ answers'[c] = Append(answers[c], [msg |-> m, want |-> complete])
           /\ \A d \in Cams : d # c => answers'[d] = answers[d]
           /\ Len(answers'[c]) = Len(answers[c]) + 1 /\ Len(answers[c]) \in Nat
           /\ \A k \in 1..Len(answers[c]) : answers'[c][k] = answers[c][k]
           /\ answers'[c][Len(answers[c]) + 1] = [msg |-> m, want |-> complete]
<1> DEFINE e == [msg |-> m, want |-> complete]
<1>1. answers \in [Cams -> Seq(AnswerType)] /\ answers[c] \in Seq(AnswerType) /\ Len(answers[c]) \in Nat
  BY Parts, LenProperties DEF AnswersTyped
<1>2. complete \in 0..Ticks
  BY Parts, Constants DEF AnswersTyped, Counting
<1>3. e \in AnswerType
  BY <1>2 DEF AnswerType
<1>4. answers' = [answers EXCEPT ![c] = Append(answers[c], e)]
  BY DEF Keep
<1> HIDE DEF e
<1>5. /\ Append(answers[c], e) \in Seq(AnswerType) /\ Len(Append(answers[c], e)) = Len(answers[c]) + 1
      /\ \A k \in 1..Len(answers[c]) : Append(answers[c], e)[k] = answers[c][k]
      /\ Append(answers[c], e)[Len(answers[c]) + 1] = e
  BY <1>1, <1>3, AppendProperties
<1>6. /\ answers' \in [Cams -> Seq(AnswerType)] /\ answers'[c] = Append(answers[c], e)
      /\ \A d \in Cams : d # c => answers'[d] = answers[d]
  BY <1>1, <1>4, <1>5
<1> QED
  BY <1>1, <1>5, <1>6 DEF e

\* wait_msg has a message, or fails with its transaction.
AnswerWays(c) ==
    \/ /\ outq[c] # <<>> /\ outq'[c] = Tail(outq[c]) /\ UNCHANGED <<quiet, faults>>
       /\ \/ (~known[c] \/ outq[c][1].type = "error") /\ Thrown
          \/ outq[c][1].type # "error" /\ jobs' = jobs /\ TakenWays(c, outq[c][1])
    \/ /\ Left > 0 /\ faults' = faults + 1 /\ quiet' = quiet \ {c} /\ Thrown
       /\ outq' = outq \/ (outq[c] # <<>> /\ outq'[c] = Tail(outq[c]))

\* A step of Answer does that with the first camera of the loop.
LEMMA AnswerEffect ==
    ASSUME TypeInv, Answer
    PROVE  /\ pc = "answer" /\ todo # <<>> /\ todo[1] \in Cams /\ AnswerWays(todo[1])
           /\ UNCHANGED <<running, cid, inq, cur, known, mc_id, op, results, calls, silent, refused>>
           /\ QueuesTyped' /\ ScriptsTyped' /\ \A d \in Cams : d # todo[1] => outq'[d] = outq[d]
<1> DEFINE c == todo[1]
<1>1. /\ pc = "answer" /\ todo # <<>>
      /\ UNCHANGED <<running, cid, inq, cur, known, mc_id, op, results, calls, silent, refused>>
  BY DEF Answer
<1>2. c \in Cams /\ Head(todo) = c
  BY <1>1, TodoFacts
<1>3. \/ /\ outq[c] # <<>> /\ outq' = [outq EXCEPT ![c] = Tail(@)] /\ UNCHANGED <<quiet, faults>>
         /\ IF ~known[c] \/ Head(outq[c]).type = "error" THEN Thrown ELSE Taken(c, Head(outq[c]))
      \/ /\ Fault /\ quiet' = quiet \ {c} /\ Thrown
         /\ outq' \in {outq, [outq EXCEPT ![c] = IF @ = <<>> THEN @ ELSE Tail(@)]}
  BY <1>2 DEF Answer
<1> HIDE DEF c
<1>4. /\ QueuesTyped' /\ ScriptsTyped' /\ (outq' = outq \/ (outq[c] # <<>> /\ outq'[c] = Tail(outq[c])))
      /\ \A d \in Cams : d # c => outq'[d] = outq[d]
  BY <1>1, <1>2, <1>3, ReadEffect
<1>5. AnswerWays(c)
  <2>1. CASE /\ outq[c] # <<>> /\ outq' = [outq EXCEPT ![c] = Tail(@)] /\ UNCHANGED <<quiet, faults>>
             /\ IF ~known[c] \/ Head(outq[c]).type = "error" THEN Thrown ELSE Taken(c, Head(outq[c]))
    <3>1. Head(outq[c]) = outq[c][1] /\ outq[c][1] \in MsgType
      BY <1>2, <2>1, ReadOne
    <3>2. outq'[c] = Tail(outq[c])
      <4>1. outq \in [Cams -> Seq(MsgType)]
        BY Parts DEF QueuesTyped
      <4> QED
        BY <1>2, <2>1, <4>1
    <3>3. Taken(c, outq[c][1]) => jobs' = jobs /\ TakenWays(c, outq[c][1])
      BY <1>1, <1>2, <3>1, TakenEffect
    <3> QED
      BY <2>1, <3>1, <3>2, <3>3 DEF AnswerWays
  <2>2. CASE /\ Fault /\ quiet' = quiet \ {c} /\ Thrown
             /\ outq' \in {outq, [outq EXCEPT ![c] = IF @ = <<>> THEN @ ELSE Tail(@)]}
    BY <1>4, <2>2 DEF AnswerWays, Fault
  <2> QED
    BY <1>3, <2>1, <2>2
<1> QED
  BY <1>1, <1>2, <1>4, <1>5 DEF c

\* Reading an answer leaves the state typed.
LEMMA AnswerTyped == TypeInv /\ Answer => TypeInv'
<1> SUFFICES ASSUME TypeInv, Answer PROVE TypeInv'
  OBVIOUS
<1> DEFINE c == todo[1]
<1>1. /\ pc = "answer" /\ todo # <<>> /\ c \in Cams /\ AnswerWays(c)
      /\ UNCHANGED <<running, cid, inq, cur, known, mc_id, op, results, calls, silent, refused>>
      /\ QueuesTyped' /\ ScriptsTyped'
  BY AnswerEffect
<1>2. /\ faults' = faults \/ (Left > 0 /\ faults' = faults + 1)
      /\ quiet' \in {quiet, quiet \ {c}}
  BY <1>1 DEF AnswerWays
<1> HIDE DEF c
<1>3. Thrown => HostTyped' /\ Control' /\ AnswersTyped' /\ jobs' \in {jobs, <<>>}
  BY <1>1, ThrownTyped
<1>4. ASSUME outq[c] # <<>>, jobs' = jobs, TakenWays(c, outq[c][1])
      PROVE  HostTyped' /\ Control' /\ AnswersTyped'
  <2>1. outq[c][1] \in MsgType
    BY <1>1, <1>4, ReadOne
  <2>2. Again \/ Onward \/ Ended \/ Stays
    BY <1>4 DEF TakenWays
  <2>3. HostTyped' /\ Control' /\ complete' \in Nat
    BY <1>1, <1>4, <2>2, LoopTyped
  <2>4. AnswersTyped /\ answers \in [Cams -> Seq(AnswerType)] /\ <<>> \in Seq(AnswerType)
    BY Parts, EmptySeq DEF AnswersTyped
  <2>5. answers' \in [Cams -> Seq(AnswerType)]
    BY <1>1, <1>4, <2>1, <2>4, KeepEffect DEF TakenWays
  <2>6. AnswersTyped'
    BY <1>1, <2>3, <2>4, <2>5 DEF AnswersTyped
  <2> QED
    BY <2>3, <2>6
<1>5. HostTyped' /\ Control' /\ AnswersTyped' /\ jobs' \in {jobs, <<>>}
  BY <1>1, <1>3, <1>4 DEF AnswerWays
<1>6. CountsTyped'
  BY <1>1, <1>2, <1>5, CountsStay, Parts DEF CountsTyped
<1> QED
  BY <1>1, <1>5, <1>6 DEF TypeInv

\* So does giving up.
LEMMA AnswerTimeoutTyped == TypeInv /\ AnswerTimeout => TypeInv'
<1> SUFFICES ASSUME TypeInv, AnswerTimeout PROVE TypeInv'
  OBVIOUS
<1>1. /\ pc = "answer" /\ todo # <<>> /\ Thrown /\ UNCHANGED <<cameras, mc_id, op, results, history>>
  BY DEF AnswerTimeout
<1>2. HostTyped' /\ Control' /\ AnswersTyped' /\ jobs' \in {jobs, <<>>}
  BY <1>1, ThrownTyped
<1>3. ScriptsTyped' /\ QueuesTyped'
  BY <1>1, CamerasStay
<1>4. CountsTyped'
  BY <1>1, <1>2, CountsStay, Parts DEF CountsTyped, history
<1> QED
  BY <1>2, <1>3, <1>4 DEF TypeInv

\* set_id_cam: the next id to give.
LEMMA JobFacts ==
    ASSUME TypeInv, jobs # <<>>
    PROVE  /\ Head(jobs) = jobs[1] /\ jobs[1].cam \in Cams /\ jobs[1].id \in Ids
           /\ Tail(jobs) \in Seq(JobType) /\ Len(jobs) \in Nat \ {0} /\ Len(Tail(jobs)) = Len(jobs) - 1
           /\ \A k \in 1..Len(Tail(jobs)) : Tail(jobs)[k] = jobs[k + 1]
<1>1. jobs \in Seq(JobType)
  BY Parts DEF CountsTyped
<1>2. /\ Len(jobs) \in Nat \ {0} /\ Head(jobs) = jobs[1] /\ jobs[1] \in JobType
      /\ Tail(jobs) \in Seq(JobType) /\ Len(Tail(jobs)) = Len(jobs) - 1
      /\ \A k \in 1..Len(Tail(jobs)) : Tail(jobs)[k] = jobs[k + 1]
  BY <1>1, Popped
<1> QED
  BY <1>2 DEF JobType

\* Giving an id leaves the state typed, and so does failing to.
LEMMA SetIdCamTyped == TypeInv /\ (SetIdCam \/ SetIdFails) => TypeInv'
<1> SUFFICES ASSUME TypeInv, SetIdCam \/ SetIdFails PROVE TypeInv'
  OBVIOUS
<1> DEFINE c == jobs[1].cam
           i == jobs[1].id
<1>1. /\ pc = "setid" /\ jobs # <<>> /\ HostTyped /\ Looping /\ GivingIds /\ CountsTyped /\ Commanding
      /\ AnswersTyped /\ Counting
  BY Parts DEF SetIdCam, SetIdFails
<1>2. Head(jobs) = jobs[1] /\ c \in Cams /\ i \in Ids
  BY <1>1, JobFacts
<1> HIDE DEF c, i
<1>3. mc_id' = [mc_id EXCEPT ![c] = i] /\ mc_id' \in [Cams -> Ids]
  BY <1>1, <1>2 DEF SetIdCam, SetIdFails, HostTyped, c, i
<1>4. CASE SetIdFails
  <2>1. /\ Left > 0 /\ faults' = faults + 1 /\ Throw
        /\ UNCHANGED <<cameras, op, results, complete, answers, calls, quiet, silent, refused>>
    BY <1>4 DEF SetIdFails, Fault
  <2>2. HostTyped' /\ Control'
    BY <1>3, <2>1, ThrowTyped
  <2>3. CountsTyped'
    BY <1>1, <2>1, CountsStay DEF CountsTyped, Throw
  <2>4. ScriptsTyped' /\ QueuesTyped' /\ AnswersTyped'
    BY <1>1, <2>1, CamerasStay DEF AnswersTyped
  <2> QED
    BY <2>2, <2>3, <2>4 DEF TypeInv
<1>5. CASE SetIdCam /\ ~running[c]
  <2>1. /\ jobs' = Tail(jobs)
        /\ UNCHANGED <<cameras, selected, pc, op, todo, results, complete, saved,
                       answers, ret, history>>
    BY <1>2, <1>5 DEF SetIdCam, c
  <2>2. CountsTyped'
    <3>1. /\ Tail(jobs) \in Seq(JobType) /\ Len(Tail(jobs)) = Len(jobs) - 1 /\ Len(jobs) \in Nat
          /\ calls \in Nat /\ faults \in Nat /\ Budget \in Nat /\ Budget - calls - faults - Len(jobs) >= 0
      BY <1>1, JobFacts, Constants DEF CountsTyped, Left
    <3>2. PICK n \in Nat : n = Len(jobs) /\ Budget - calls - faults - n >= 0
      BY <3>1
    <3>3. Budget - calls - faults - (n - 1) >= 0
      BY <3>1, <3>2
    <3>4. Len(jobs') = n - 1
      BY <2>1, <3>1, <3>2
    <3> QED
      BY <1>1, <2>1, <3>1, <3>3, <3>4 DEF CountsTyped, Left, history
  <2>3. HostTyped' /\ ScriptsTyped' /\ QueuesTyped' /\ AnswersTyped'
    BY <1>1, <1>3, <2>1, CamerasStay DEF HostTyped, AnswersTyped
  <2>4. Commanding' /\ Counting' /\ Looping' /\ GivingIds'
    BY <1>1, <2>1 DEF Commanding, Counting, Looping, GivingIds
  <2> QED
    BY <2>2, <2>3, <2>4 DEF TypeInv, Control
<1>6. CASE SetIdCam /\ running[c]
  <2>1. /\ jobs' = Tail(jobs) /\ saved' = selected /\ selected' = <<c>>
        /\ Begin("setid", i, TRUE, <<c>>, "flush")
    BY <1>2, <1>6 DEF SetIdCam, c, i
  <2>2. "setid" \in Commands /\ i \in Ids \cup {0}
    BY <1>2 DEF Commands
  <2>3. /\ ScriptsTyped' /\ QueuesTyped' /\ AnswersTyped' /\ CountsTyped' /\ op' \in OpType
        /\ op'.name = "setid" /\ todo' = <<c>> /\ pc' = "flush" /\ ret' = "none" /\ complete' = 0
    BY <1>1, <1>2, <2>1, <2>2, BeginEffect
  <2>4. <<c>> \in Seq(Cams) /\ Distinct(<<c>>) /\ Len(<<c>>) = 1 /\ <<c>> # <<>>
    BY <1>2 DEF Distinct
  <2>5. HostTyped'
    BY <1>1, <1>3, <2>1, <2>3, <2>4 DEF HostTyped, Places
  <2>6. Commanding' /\ Counting'
    BY <2>3 DEF Commanding, Counting
  <2>7. Looping' /\ GivingIds'
    <3>1. selected # <<>>
      BY <1>1, <1>2 DEF Looping
    <3> QED
      BY <1>1, <2>1, <2>3, <2>4, <3>1 DEF Looping, GivingIds
  <2> QED
    BY <2>3, <2>5, <2>6, <2>7 DEF TypeInv, Control
<1> QED
  BY <1>4, <1>5, <1>6

\* The end of set_id leaves the state typed.
LEMMA SetIdDoneTyped == TypeInv /\ SetIdDone => TypeInv'
<1> SUFFICES ASSUME TypeInv, SetIdDone PROVE TypeInv'
  OBVIOUS
<1>1. /\ pc = "setid" /\ jobs = <<>> /\ selected' \in Sorted(Cams, mc_id) /\ pc' = "idle" /\ ret' = "over"
      /\ UNCHANGED <<cameras, mc_id, op, todo, results, complete, jobs, saved, answers, history>>
      /\ HostTyped /\ Looping /\ CountsTyped /\ AnswersTyped
  BY Parts DEF SetIdDone
<1>2. selected' \in Seq(Cams) /\ Distinct(selected') /\ (Cams # {} => selected' # <<>>)
  BY <1>1, SortedFacts
<1>3. ScriptsTyped' /\ QueuesTyped' /\ AnswersTyped'
  BY <1>1, CamerasStay DEF AnswersTyped
<1>4. CountsTyped'
  BY <1>1, CountsStay DEF CountsTyped, history
<1>5. HostTyped'
  BY <1>1, <1>2 DEF HostTyped, Places
<1>6. Commanding' /\ Counting' /\ Looping' /\ GivingIds'
  BY <1>1, <1>2 DEF Commanding, Counting, Looping, GivingIds
<1> QED
  BY <1>3, <1>4, <1>5, <1>6 DEF TypeInv, Control

\* start_single of the next camera, or the end of mc:start.
StartWays ==
    /\ todo' \in Seq(Cams) /\ Distinct(todo')
    /\ \/ pc' = "start" /\ todo' # <<>> /\ ret' = "none"
       \/ pc' \in {"exec", "stop"} /\ todo' = todo /\ todo # <<>> /\ ret' = "none"
       \/ pc' = "idle" /\ ret' = "over"

\* mc:start leaves the host's state typed on its way.
LEMMA StartTyped ==
    ASSUME TypeInv, pc \in {"start", "stop", "exec"}, StartWays, UNCHANGED <<op, mc_id, selected, saved, jobs, complete>>
    PROVE  HostTyped' /\ Control'
<1>1. HostTyped /\ Commanding /\ Looping /\ GivingIds /\ jobs = <<>>
  BY Parts DEF GivingIds
<1>2. HostTyped'
  BY <1>1 DEF HostTyped, Places, StartWays
<1>3. Commanding' /\ Counting' /\ GivingIds'
  BY <1>1 DEF Commanding, Counting, GivingIds, StartWays
<1>4. Looping'
  BY <1>1 DEF Looping, StartWays
<1> QED
  BY <1>2, <1>3, <1>4 DEF Control

\* It has a camera to start, and goes on so.
LEMMA NextStartWays ==
    ASSUME TypeInv, pc \in {"start", "stop", "exec"}
    PROVE  /\ todo # <<>> /\ todo[1] \in Cams /\ Head(todo) = todo[1]
           /\ NextStart => StartWays
           /\ pc' \in {"exec", "stop"} /\ UNCHANGED <<todo, ret>> => StartWays
<1>1. todo # <<>> /\ ret = "none" /\ todo \in Seq(Cams) /\ Distinct(todo)
  BY Parts DEF Looping, Commanding, HostTyped
<1>2. <<>> \in Seq(Cams) /\ Distinct(<<>>)
  BY EmptySeq DEF Distinct
<1>3. /\ todo[1] \in Cams /\ Head(todo) = todo[1] /\ Tail(todo) \in Seq(Cams) /\ Distinct(Tail(todo))
      /\ Len(todo) > 1 => Tail(todo) # <<>>
  BY <1>1, TodoFacts
<1>4. NextStart => StartWays
  BY <1>1, <1>2, <1>3 DEF NextStart, StartWays
<1> QED
  BY <1>1, <1>3, <1>4 DEF StartWays

\* The script is told to exit, or it is not.
StopAt(c) ==
    \/ inq' = inq
    \/ Accepts(c) /\ inq'[c] = Append(inq[c], Cmd("exit", 0, 0))

\* The step that looks whether the script of a camera runs.
LEMMA StartOneEffect ==
    ASSUME TypeInv, StartOne
    PROVE  /\ pc = "start" /\ todo[1] \in Cams /\ StopAt(todo[1]) /\ StartWays /\ QueuesTyped' /\ ScriptsTyped'
           /\ faults' = faults \/ (Left > 0 /\ faults' = faults + 1)
           /\ \A d \in Cams : d # todo[1] => inq'[d] = inq[d]
           /\ UNCHANGED <<running, cid, cur, outq, known, mc_id, selected, op, results, complete,
                          jobs, saved, answers, calls, quiet, silent, refused>>
<1> DEFINE c == todo[1]
           m == Cmd("exit", 0, 0)
<1>1. /\ pc = "start"
      /\ UNCHANGED <<running, cid, cur, outq, known, mc_id, selected, op, results, complete,
                     jobs, saved, answers, calls, quiet, silent, refused>>
  BY DEF StartOne
<1>2. /\ todo # <<>> /\ c \in Cams /\ Head(todo) = c /\ (NextStart => StartWays)
      /\ pc' \in {"exec", "stop"} /\ UNCHANGED <<todo, ret>> => StartWays
  BY <1>1, NextStartWays
<1>3. /\ inq' = inq \/ (Accepts(c) /\ inq' = [inq EXCEPT ![c] = Append(inq[c], m)])
      /\ faults' = faults \/ (Left > 0 /\ faults' = faults + 1)
      /\ NextStart \/ (pc' \in {"exec", "stop"} /\ UNCHANGED <<todo, ret>>)
  BY <1>2 DEF StartOne, Fault
<1>4. m \in CmdRec
  BY Constants DEF Cmd, CmdRec, Commands, Args
<1> HIDE DEF c, m
<1>5. QueuesTyped' /\ StopAt(c) /\ \A d \in Cams : d # c => inq'[d] = inq[d]
  <2>1. CASE inq' = inq
    <3>1. QueuesTyped'
      BY <1>1, <2>1, Parts DEF QueuesTyped
    <3> QED
      BY <2>1, <3>1 DEF StopAt
  <2>2. CASE Accepts(c) /\ inq' = [inq EXCEPT ![c] = Append(inq[c], m)]
    <3>1. /\ inq[c] \in Seq(CmdRec) /\ outq[c] \in Seq(MsgType) /\ cur[c] \in CmdRec \cup {NoCmd}
          /\ Len(inq[c]) \in Nat /\ Len(outq[c]) <= QueueMax /\ QueueMax \in Nat
      BY <1>2, QueueFacts, Constants
    <3>2. Append(inq[c], m) \in Seq(CmdRec) /\ Len(Append(inq[c], m)) = Len(inq[c]) + 1
      BY <1>4, <3>1, AppendProperties
    <3>3. Len(Append(inq[c], m)) <= QueueMax
      BY <2>2, <3>1, <3>2 DEF Accepts
    <3>4. /\ inq \in [Cams -> Seq(CmdRec)] /\ outq \in [Cams -> Seq(MsgType)]
          /\ cur \in [Cams -> CmdRec \cup {NoCmd}]
      BY Parts DEF QueuesTyped
    <3>5. outq' = [outq EXCEPT ![c] = outq[c]] /\ cur' = [cur EXCEPT ![c] = cur[c]]
      BY <1>1, <1>2, <3>4, Unchanged
    <3>6. QueuesTyped'
      BY <1>2, <2>2, <3>1, <3>2, <3>3, <3>5, QueuesStay
    <3>7. inq'[c] = Append(inq[c], m) /\ \A d \in Cams : d # c => inq'[d] = inq[d]
      BY <1>2, <2>2, <3>4
    <3> QED
      BY <2>2, <3>6, <3>7 DEF StopAt, m
  <2> QED
    BY <1>3, <2>1, <2>2
<1>6. ScriptsTyped'
  BY <1>1, Parts DEF ScriptsTyped
<1> QED
  BY <1>1, <1>2, <1>3, <1>5, <1>6 DEF c

\* con:exec on c: its script starts, or nothing has changed.
StartedAt(c) ==
    /\ running'[c] = TRUE /\ cid'[c] = mc_id[c] /\ inq'[c] = <<>> /\ outq'[c] = <<>> /\ cur'[c] = NoCmd
    /\ refused' = refused \ {c}

\* The step that starts the script of a camera.
LEMMA StartExecEffect ==
    ASSUME TypeInv, StartExec
    PROVE  /\ pc = "exec" /\ todo[1] \in Cams /\ StartWays /\ QueuesTyped' /\ ScriptsTyped'
           /\ StartedAt(todo[1]) \/ UNCHANGED <<running, cid, inq, cur, outq, refused>>
           /\ faults' = faults \/ (Left > 0 /\ faults' = faults + 1)
           /\ Others(todo[1]) /\ refused' \subseteq refused
           /\ UNCHANGED <<mc_id, selected, op, results, complete, jobs, saved, answers,
                          calls, quiet, silent>>
<1> DEFINE c == todo[1]
<1>1. /\ pc = "exec" /\ NextStart
      /\ UNCHANGED <<mc_id, selected, op, results, complete, jobs, saved, answers,
                     calls, quiet, silent>>
  BY DEF StartExec
<1>2. /\ todo # <<>> /\ c \in Cams /\ Head(todo) = c /\ StartWays
  BY <1>1, NextStartWays
<1>3. /\ known' = [known EXCEPT ![c] = TRUE] \/ known' = [known EXCEPT ![c] = FALSE]
      /\ faults' = faults \/ (Left > 0 /\ faults' = faults + 1)
      /\ Started(c) \/ UNCHANGED <<running, cid, inq, cur, outq, refused>>
  BY <1>2 DEF StartExec, Fault
<1> HIDE DEF c
<1>4. /\ inq \in [Cams -> Seq(CmdRec)] /\ outq \in [Cams -> Seq(MsgType)]
      /\ cur \in [Cams -> CmdRec \cup {NoCmd}] /\ known \in [Cams -> BOOLEAN]
      /\ running \in [Cams -> BOOLEAN] /\ cid \in [Cams -> Ids \cup {0}] /\ mc_id \in [Cams -> Ids]
  BY Parts DEF QueuesTyped, ScriptsTyped, HostTyped
<1>5. CASE UNCHANGED <<running, cid, inq, cur, outq, refused>>
  <2>1. QueuesTyped'
    BY <1>5, Parts DEF QueuesTyped
  <2>2. ScriptsTyped'
    BY <1>3, <1>4, <1>5 DEF ScriptsTyped
  <2>3. Others(c)
    BY <1>5 DEF Others
  <2> QED
    BY <1>1, <1>2, <1>3, <1>5, <2>1, <2>2, <2>3 DEF c
<1>6. CASE Started(c)
  <2>1. /\ running' = [running EXCEPT ![c] = TRUE] /\ cid' = [cid EXCEPT ![c] = mc_id[c]]
        /\ inq' = [inq EXCEPT ![c] = <<>>] /\ outq' = [outq EXCEPT ![c] = <<>>]
        /\ cur' = [cur EXCEPT ![c] = NoCmd] /\ refused' = refused \ {c}
    BY <1>6 DEF Started
  <2>2. <<>> \in Seq(CmdRec) /\ <<>> \in Seq(MsgType) /\ Len(<<>>) <= QueueMax
    BY Constants, EmptySeq
  <2>3. QueuesTyped'
    BY <1>2, <2>1, <2>2, QueuesStay
  <2>4. ScriptsTyped'
    BY <1>2, <1>3, <1>4, <2>1 DEF ScriptsTyped
  <2>5. Others(c)
    BY <1>4, <2>1 DEF Others
  <2>6. StartedAt(c)
    BY <1>2, <1>4, <2>1 DEF StartedAt
  <2> QED
    BY <1>1, <1>2, <1>3, <2>1, <2>3, <2>4, <2>5, <2>6 DEF c
<1> QED
  BY <1>3, <1>5, <1>6

\* The steps of mc:start leave the state typed.
LEMMA StartingTyped == TypeInv /\ (StartOne \/ StartStop \/ StartExec) => TypeInv'
<1> SUFFICES ASSUME TypeInv, StartOne \/ StartStop \/ StartExec PROVE TypeInv'
  OBVIOUS
<1>1. CASE StartOne
  <2>1. HostTyped' /\ Control'
    BY <1>1, StartOneEffect, StartTyped
  <2>2. CountsTyped'
    BY <1>1, StartOneEffect, CountsStay, Parts DEF CountsTyped
  <2>3. AnswersTyped'
    BY <1>1, StartOneEffect, Parts DEF AnswersTyped
  <2> QED
    BY <1>1, <2>1, <2>2, <2>3, StartOneEffect DEF TypeInv
<1>2. CASE StartStop
  <2>1. /\ pc = "stop"
        /\ UNCHANGED <<cameras, mc_id, selected, op, results, complete, jobs, saved, answers, history>>
        /\ NextStart \/ (pc' = "exec" /\ UNCHANGED <<todo, ret>>)
    BY <1>2 DEF StartStop
  <2>2. HostTyped' /\ Control'
    BY <2>1, NextStartWays, StartTyped
  <2>3. CountsTyped'
    BY <2>1, CountsStay, Parts DEF CountsTyped, history
  <2>4. AnswersTyped' /\ QueuesTyped' /\ ScriptsTyped'
    BY <2>1, Parts, CamerasStay DEF AnswersTyped
  <2> QED
    BY <2>2, <2>3, <2>4 DEF TypeInv
<1>3. CASE StartExec
  <2>1. HostTyped' /\ Control'
    BY <1>3, StartExecEffect, StartTyped
  <2>2. CountsTyped'
    BY <1>3, StartExecEffect, CountsStay, Parts DEF CountsTyped
  <2>3. AnswersTyped'
    BY <1>3, StartExecEffect, Parts DEF AnswersTyped
  <2> QED
    BY <1>3, <2>1, <2>2, <2>3, StartExecEffect DEF TypeInv
<1> QED
  BY <1>1, <1>2, <1>3

-----------------------------------------------------------------------------
\* No script runs and no call has been made when the cameras have been found.
LEMMA InitTyped == Init => TypeInv
<1> SUFFICES ASSUME Init PROVE TypeInv
  OBVIOUS
<1>1. <<>> \in Seq(CmdRec) /\ <<>> \in Seq(MsgType) /\ <<>> \in Seq(AnswerType) /\ <<>> \in Seq(Cams)
      /\ <<>> \in Seq(JobType) /\ Len(<<>>) = 0 /\ NoResult \in ResultType /\ NoOp \in OpType
  BY EmptySeq, Constants DEF NoResult, ResultType, NoOp, OpType
<1>2. ASSUME NEW c \in Cams
      PROVE  (CHOOSE i \in DOMAIN CamList : CamList[i] = c) \in Ids
  <2>1. DOMAIN CamList \subseteq Ids
    BY Constants, LenProperties, IdsAssumption
  <2> QED
    BY <2>1 DEF Cams
<1>3. ScriptsTyped /\ QueuesTyped
  BY <1>1, Constants DEF Init, ScriptsTyped, QueuesTyped
<1>4. HostTyped
  BY <1>1, <1>2, Constants DEF Init, HostTyped, Places
<1>5. AnswersTyped
  BY <1>1 DEF Init, AnswersTyped
<1>6. CountsTyped
  BY <1>1, Constants DEF Init, CountsTyped, Left
<1>7. Commanding /\ Counting /\ GivingIds
  BY DEF Init, Commanding, Counting, GivingIds, NoOp
<1>8. Looping
  <2>1. Distinct(CamList) /\ Distinct(<<>>)
    BY Constants DEF Distinct
  <2>2. Cams # {} => CamList # <<>>
    BY Constants, LenProperties DEF Cams
  <2> QED
    BY <2>1, <2>2 DEF Init, Looping
<1> QED
  BY <1>3, <1>4, <1>5, <1>6, <1>7, <1>8 DEF TypeInv, Control

\* Every step keeps the types.
LEMMA NextTyped == TypeInv /\ [Next]_vars => TypeInv'
<1> SUFFICES ASSUME TypeInv, [Next]_vars PROVE TypeInv'
  OBVIOUS
<1>1. CASE UNCHANGED vars
  BY <1>1, Parts DEF vars, cameras, host, history, TypeInv, ScriptsTyped, QueuesTyped, HostTyped, AnswersTyped,
     CountsTyped, Left, Control, Commanding, Counting, Looping, GivingIds
<1>2. CASE Camera
  BY <1>2, CameraTyped
<1>3. CASE Call
  <2>1. CASE Command \/ ImgList \/ InitSync
    BY <2>1, CallKinds, SendingTyped
  <2> QED
    BY <1>3, <2>1, QuietCallTyped DEF Call
<1>4. CASE HostStep
  BY <1>4, FlushTyped, SendTyped, PollTyped, RoundTyped, AskTyped, AnswerTyped, AnswerTimeoutTyped,
     SetIdCamTyped, SetIdDoneTyped, StartingTyped DEF HostStep
<1>5. CASE WaitTimeout \/ FlushFails \/ SetIdFails
  BY <1>5, RoundTyped, FlushFailsTyped, SetIdCamTyped
<1> QED
  BY <1>1, <1>2, <1>3, <1>4, <1>5 DEF Next

\* The type invariant holds in every state of every behaviour.
LEMMA TypedAlways == Spec => []TypeInv
  BY InitTyped, NextTyped, PTL DEF Spec

\* Commands, messages, selections and results are what the code takes them
\* for, and the queues stay in their bounds.
THEOREM MulticamTyped == Spec => []TypeOK
<1>1. TypeInv => TypeOK
  <2> SUFFICES ASSUME TypeInv PROVE TypeOK
    OBVIOUS
  <2>1. ScriptsTyped /\ QueuesTyped /\ HostTyped /\ AnswersTyped /\ CountsTyped
    BY Parts
  <2>2. ASSUME NEW c \in Cams
        PROVE  /\ cur[c] \in CmdType
               /\ inq[c] \in Seq(CmdType) /\ Len(inq[c]) <= QueueMax
               /\ outq[c] \in Seq(MsgType) /\ Len(outq[c]) <= QueueMax
               /\ answers[c] \in Seq([msg : MsgType, want : 0..Ticks])
    <3>1. CmdRec \cup {NoCmd} \subseteq CmdType
      BY DEF CmdRec, CmdType
    <3>2. inq[c] \in Seq(CmdType)
      BY <3>1, QueueFacts, SeqMonotonic
    <3> QED
      BY <2>1, <3>1, <3>2, QueueFacts DEF AnswersTyped, AnswerType
  <2>3. \A j \in DOMAIN jobs : jobs[j].cam \in Cams /\ jobs[j].id \in Ids
    <3>1. \A j \in DOMAIN jobs : jobs[j] \in JobType
      BY <2>1, LenProperties, ElementOfSeq DEF CountsTyped
    <3> QED
      BY <3>1 DEF JobType
  <2>4. \A i \in Ids : results[i].failed \in BOOLEAN /\ results[i].done \in BOOLEAN
    BY <2>1 DEF AnswersTyped, ResultType
  <2> QED
    BY <2>1, <2>2, <2>3, <2>4 DEF TypeOK, ScriptsTyped, HostTyped, AnswersTyped, CountsTyped, Places
<1> QED
  BY <1>1, TypedAlways, PTL

-----------------------------------------------------------------------------
\* Answers to this command only.  What a camera that had nothing to do when
\* the call began is told and carries out is of this call; so is what is read
\* from it once it has been flushed, and so are the results made of that.
Fresh(c) ==
    /\ \A k \in 1..Len(inq[c]) : inq[c][k].call = calls
    /\ cur[c] = NoCmd \/ cur[c].call = calls
FreshOut(c) == \A k \in 1..Len(outq[c]) : outq[c][k].call = calls

Own == \A c \in quiet : Fresh(c)

Flushed ==
    pc \in {"flush", "send", "wait"} =>
        \A c \in quiet : In(c, selected) => (pc = "flush" /\ In(c, todo)) \/ FreshOut(c)

ResultsOwn ==
    \A i \in Ids : \A c \in quiet :
        (results[i].from = <<c>> /\ ~results[i].failed) => results[i].call = calls

NoneQuiet == pc \in {"start", "stop", "exec"} => quiet = {}

StatusInv == Own /\ Flushed /\ ResultsOwn /\ NoneQuiet

\* A message behind others, and the rest when the first is taken.
LEMMA AppendCalls ==
    ASSUME NEW S, NEW q \in Seq(S), NEW m \in S, NEW n, m.call = n,
           \A k \in 1..Len(q) : q[k].call = n
    PROVE  \A k \in 1..Len(Append(q, m)) : Append(q, m)[k].call = n
<1>1. /\ Len(q) \in Nat /\ Len(Append(q, m)) = Len(q) + 1
      /\ \A k \in 1..Len(q) : Append(q, m)[k] = q[k]
      /\ Append(q, m)[Len(q) + 1] = m
  BY LenProperties, AppendProperties
<1>2. \A k \in 1..Len(Append(q, m)) : k \in 1..Len(q) \/ k = Len(q) + 1
  BY <1>1
<1> QED
  BY <1>1, <1>2

\* A message that is taken away leaves those of the others.
LEMMA TailCalls ==
    ASSUME NEW S, NEW q \in Seq(S), NEW n, q # <<>>, \A k \in 1..Len(q) : q[k].call = n
    PROVE  (\A k \in 1..Len(Tail(q)) : Tail(q)[k].call = n) /\ q[1].call = n
<1>1. /\ Len(q) \in Nat \ {0} /\ Len(Tail(q)) = Len(q) - 1
      /\ \A k \in 1..Len(Tail(q)) : Tail(q)[k] = q[k + 1]
  BY Popped
<1>2. 1 \in 1..Len(q) /\ \A k \in 1..Len(Tail(q)) : k + 1 \in 1..Len(q)
  BY <1>1
<1> QED
  BY <1>1, <1>2

\* An empty queue has no messages of other calls.
LEMMA NoCalls == \A n : \A k \in 1..Len(<<>>) : <<>>[k].call = n
  OBVIOUS

\* A step of a script keeps its messages to the call.
LEMMA CameraFresh ==
    ASSUME TypeInv, NEW c \in Cams, CamRead(c) \/ CamItem(c) \/ CamGiveUp(c) \/ CamAnswer(c) \/ CamDies(c),
           Fresh(c)
    PROVE  Fresh(c)' /\ (FreshOut(c) => FreshOut(c)')
<1>1. /\ calls' = calls /\ (ReadAt(c) \/ ItemAt(c) \/ GiveUpAt(c) \/ AnswerAt(c) \/ DieAt(c))
  BY CameraEffect
<1>2. inq[c] \in Seq(CmdRec) /\ outq[c] \in Seq(MsgType) /\ cur[c] \in CmdRec \cup {NoCmd}
  BY QueueFacts
<1>3. \A k \in 1..Len(inq[c]) : inq[c][k].call = calls
  BY DEF Fresh
<1>4. ASSUME NEW t \in {"status", "fail", "item", "error"}, cur[c] # NoCmd
      PROVE  Msg(t, cur[c]) \in MsgType /\ Msg(t, cur[c]).call = calls
  BY <1>4, QueueFacts DEF Fresh, Msg
<1>5. ASSUME NEW t \in {"status", "fail", "item", "error"}, cur[c] # NoCmd, outq'[c] = Append(outq[c], Msg(t, cur[c])),
             FreshOut(c)
      PROVE  FreshOut(c)'
  <2>1. \A k \in 1..Len(Append(outq[c], Msg(t, cur[c]))) : Append(outq[c], Msg(t, cur[c]))[k].call = calls
    BY <1>2, <1>4, <1>5, AppendCalls DEF FreshOut
  <2> QED
    BY <1>1, <1>5, <2>1 DEF FreshOut
<1>6. outq'[c] = outq[c] /\ FreshOut(c) => FreshOut(c)'
  BY <1>1 DEF FreshOut
<1>7. CASE ReadAt(c)
  <2>1. (\A k \in 1..Len(Tail(inq[c])) : Tail(inq[c])[k].call = calls) /\ inq[c][1].call = calls
    BY <1>2, <1>3, <1>7, TailCalls DEF ReadAt
  <2>2. Fresh(c)'
    BY <1>1, <1>7, <2>1 DEF ReadAt, Fresh
  <2> QED
    BY <1>6, <1>7, <2>2 DEF ReadAt
<1>8. CASE ItemAt(c) \/ GiveUpAt(c)
  <2>1. cur[c] \in CmdRec /\ cur[c].call = calls
    BY <1>2, <1>8 DEF ItemAt, GiveUpAt, Fresh
  <2>2. cur'[c].call = calls
    BY <1>8, <2>1 DEF ItemAt, GiveUpAt, CmdRec
  <2>3. Fresh(c)'
    BY <1>1, <1>3, <1>8, <2>2 DEF ItemAt, GiveUpAt, Fresh
  <2>4. FreshOut(c) => FreshOut(c)'
    BY <1>5, <1>6, <1>8 DEF ItemAt, GiveUpAt
  <2> QED
    BY <2>3, <2>4
<1>9. ASSUME NEW t \in {"status", "fail", "error"}, EndAt(c, t)
      PROVE  Fresh(c)' /\ (FreshOut(c) => FreshOut(c)')
  <2>1. Fresh(c)'
    BY <1>1, <1>3, <1>9 DEF EndAt, Fresh
  <2>2. FreshOut(c) => FreshOut(c)'
    BY <1>5, <1>6, <1>9 DEF EndAt
  <2> QED
    BY <2>1, <2>2
<1>10. CASE AnswerAt(c)
  BY <1>9, <1>10 DEF AnswerAt
<1>11. CASE DieAt(c)
  BY <1>9, <1>11 DEF DieAt
<1> QED
  BY <1>1, <1>7, <1>8, <1>10, <1>11

\* What a command of this call does to the messages to its camera.
LEMMA WroteFresh ==
    ASSUME TypeInv, pc \in {"send", "ask"}, NEW c \in Cams, Fresh(c), Wrote(c) \/ inq'[c] = inq[c],
           calls' = calls, cur' = cur
    PROVE  Fresh(c)'
<1>1. CASE Wrote(c)
  <2>1. inq[c] \in Seq(CmdRec) /\ Cmd(op.name, Arg, calls) \in CmdRec /\ Cmd(op.name, Arg, calls).call = calls
    BY QueueFacts, CmdTyped
  <2>2. \A k \in 1..Len(Append(inq[c], Cmd(op.name, Arg, calls))) :
           Append(inq[c], Cmd(op.name, Arg, calls))[k].call = calls
    BY <2>1, AppendCalls DEF Fresh
  <2> QED
    BY <1>1, <2>2 DEF Wrote, Fresh
<1>2. CASE inq'[c] = inq[c]
  BY <1>2 DEF Fresh
<1> QED
  BY <1>1, <1>2

\* Steps that leave the commands alone, and count no further camera.
LEMMA OwnStays ==
    ASSUME Own, UNCHANGED <<inq, cur, calls>>, quiet' \subseteq quiet
    PROVE  Own'
  BY DEF Own, Fresh

\* Steps that leave the results alone, and count no further camera.
LEMMA ResultsStay ==
    ASSUME ResultsOwn, UNCHANGED <<results, calls>>, quiet' \subseteq quiet
    PROVE  ResultsOwn'
  BY DEF ResultsOwn

\* A call that sends commands has begun: nothing is read yet, and the cameras
\* that count for it have nothing to do, or no message waiting.
Begun ==
    /\ UNCHANGED <<running, cid, inq, cur, outq, known, refused, faults>>
    /\ todo' = selected' /\ pc' = (IF op'.name = "list" THEN "ask" ELSE "flush")
    /\ ret' = "none" /\ calls' = calls + 1 /\ complete' = 0
    /\ \A c \in Cams : answers'[c] = <<>>
    /\ \A i \in Ids : results'[i].from = <<>> /\ ~results'[i].done
    /\ \A c \in quiet' : c \in Cams /\ inq[c] = <<>> /\ cur[c] = NoCmd
    /\ \A c \in silent' : c \in Cams /\ outq[c] = <<>>

\* Begin does that.
LEMMA BeginBegun ==
    ASSUME TypeInv, NEW name \in Commands, NEW arg \in Ids \cup {0}, NEW wait \in BOOLEAN, NEW sel, NEW first,
           Begin(name, arg, wait, sel, first), name = "setid" => arg \in Ids, selected' = sel,
           (jobs' = jobs /\ jobs = <<>>) \/ (jobs # <<>> /\ jobs' = Tail(jobs)),
           first = (IF name = "list" THEN "ask" ELSE "flush")
    PROVE  Begun /\ op'.name = name /\ op'.arg = arg
<1>1. /\ UNCHANGED <<running, cid, inq, cur, outq, known, refused, faults>>
      /\ op'.name = name /\ op'.arg = arg /\ todo' = sel /\ pc' = first /\ ret' = "none"
      /\ calls' = calls + 1 /\ complete' = 0
  BY BeginEffect
<1>2. /\ \A c \in Cams : answers'[c] = <<>>
      /\ \A i \in Ids : results'[i].from = <<>> /\ ~results'[i].done
      /\ \A c \in quiet' : c \in Cams /\ inq[c] = <<>> /\ cur[c] = NoCmd
      /\ \A c \in silent' : c \in Cams /\ outq[c] = <<>>
  BY BeginEffect
<1> QED
  BY <1>1, <1>2 DEF Begun

\* So do the calls of the user begin.
LEMMA SendingBegun ==
    ASSUME TypeInv, Command \/ ImgList \/ InitSync
    PROVE  /\ Begun /\ op'.name \in {"shoot", "exit", "tick", "list"} /\ pc = "idle"
           /\ UNCHANGED <<mc_id, selected, jobs, saved>>
<1>1. PICK name \in {"shoot", "exit", "tick", "list"} : Sending(name, IF name = "list" THEN "ask" ELSE "flush")
  BY CallKinds
<1> DEFINE first == IF name = "list" THEN "ask" ELSE "flush"
<1>2. /\ pc = "idle" /\ UNCHANGED <<mc_id, selected, jobs, saved>> /\ jobs = <<>>
  BY <1>1, Parts DEF Sending, GivingIds
<1>3. PICK wait \in BOOLEAN : Begin(name, 0, wait, selected, first)
  BY <1>1 DEF Sending
<1>4. name \in Commands /\ 0 \in Ids \cup {0} /\ (name = "setid" => 0 \in Ids)
  BY DEF Commands
<1>5. first = (IF name = "list" THEN "ask" ELSE "flush")
  OBVIOUS
<1> HIDE DEF first
<1>6. Begun /\ op'.name = name
  BY <1>2, <1>3, <1>4, <1>5, BeginBegun
<1> QED
  BY <1>2, <1>6

\* The calls that set_id_cam makes begin so too.
LEMMA SetIdBegun ==
    ASSUME TypeInv, SetIdCam, running[jobs[1].cam]
    PROVE  /\ Begun /\ op'.name = "setid" /\ op'.arg = jobs[1].id /\ pc = "setid" /\ jobs # <<>>
           /\ jobs[1].cam \in Cams /\ jobs[1].id \in Ids /\ jobs' = Tail(jobs)
           /\ mc_id' = [mc_id EXCEPT ![jobs[1].cam] = jobs[1].id]
           /\ selected' = <<jobs[1].cam>> /\ saved' = selected
<1> DEFINE c == jobs[1].cam
           i == jobs[1].id
<1>1. pc = "setid" /\ jobs # <<>>
  BY DEF SetIdCam
<1>2. Head(jobs) = jobs[1] /\ c \in Cams /\ i \in Ids
  BY <1>1, JobFacts
<1>3. /\ jobs' = Tail(jobs) /\ saved' = selected /\ selected' = <<c>> /\ mc_id' = [mc_id EXCEPT ![c] = i]
      /\ Begin("setid", i, TRUE, <<c>>, "flush")
  BY <1>2 DEF SetIdCam
<1> HIDE DEF c, i
<1>4. "setid" \in Commands /\ i \in Ids \cup {0}
  BY <1>2 DEF Commands
<1>5. Begun /\ op'.name = "setid" /\ op'.arg = i
  BY <1>1, <1>2, <1>3, <1>4, BeginBegun
<1> QED
  BY <1>1, <1>2, <1>3, <1>5 DEF c, i

\* A loop over the cameras goes on, or its call is over.
LEMMA LoopPlace ==
    ASSUME TypeInv, pc # "idle", Again \/ Onward \/ Ended \/ Stays \/ Throw
    PROVE  pc' \in {"ask", "answer", "idle", "setid"}
  BY ReturnEffect DEF Again, Onward, Ended, Stays, Throw

-----------------------------------------------------------------------------
\* The steps that leave the messages to the cameras and the results alone, in a
\* call that is past sending or is over, keep StatusInv.
LEMMA ElsewhereOwn ==
    ASSUME StatusInv, UNCHANGED <<inq, cur, calls, results>>, quiet' \subseteq quiet,
           pc' \in {"ask", "answer", "idle", "setid"}
    PROVE  StatusInv'
<1>1. Own' /\ ResultsOwn'
  BY OwnStays, ResultsStay DEF StatusInv
<1> QED
  BY <1>1 DEF StatusInv, Flushed, NoneQuiet

\* So do the calls of which no camera's answer counts.
LEMMA NobodyOwn == quiet' = {} => StatusInv'
  BY DEF StatusInv, Own, Flushed, ResultsOwn, NoneQuiet

\* A call that begins has no messages yet to the cameras that count.
LEMMA BegunOwn ==
    ASSUME TypeInv, Begun PROVE StatusInv'
<1>1. Own'
  <2>1. \A c \in quiet' : inq'[c] = <<>> /\ cur'[c] = NoCmd
    BY DEF Begun
  <2> QED
    BY <2>1 DEF Own, Fresh
<1>2. Flushed'
  BY DEF Begun, Flushed, In
<1>3. ResultsOwn'
  <2>1. \A c : <<c>> # <<>>
    OBVIOUS
  <2> QED
    BY <2>1 DEF Begun, ResultsOwn
<1>4. NoneQuiet'
  BY DEF Begun, NoneQuiet
<1> QED
  BY <1>1, <1>2, <1>3, <1>4 DEF StatusInv

\* A script's step is of the call if what it has been told is.
LEMMA CameraOwn ==
    ASSUME TypeInv, StatusInv, Camera PROVE StatusInv'
<1>1. PICK c \in Cams : CamRead(c) \/ CamItem(c) \/ CamGiveUp(c) \/ CamAnswer(c) \/ CamDies(c)
  BY DEF Camera
<1>2. UNCHANGED <<host, calls, quiet>> /\ Others(c)
  BY <1>1, CameraEffect
<1>3. \A d \in quiet : d \in Cams
  BY Parts DEF CountsTyped
<1>4. ASSUME NEW d \in Cams, Fresh(d) PROVE Fresh(d)' /\ (FreshOut(d) => FreshOut(d)')
  <2>1. CASE d = c
    BY <1>1, <1>4, <2>1, CameraFresh
  <2>2. CASE d # c
    BY <1>2, <1>4, <2>2 DEF Others, Fresh, FreshOut
  <2> QED
    BY <2>1, <2>2
<1>5. Own'
  <2>1. \A d \in quiet : Fresh(d)'
    BY <1>3, <1>4 DEF StatusInv, Own
  <2> QED
    BY <1>2, <2>1 DEF Own
<1>6. Flushed'
  <2>1. \A d \in quiet : FreshOut(d) => FreshOut(d)'
    BY <1>3, <1>4 DEF StatusInv, Own
  <2>2. UNCHANGED <<pc, selected, todo, quiet>>
    BY <1>2 DEF host
  <2> QED
    BY <2>1, <2>2 DEF StatusInv, Flushed, In
<1>7. ResultsOwn'
  BY <1>2, ResultsStay DEF StatusInv, host
<1>8. NoneQuiet'
  BY <1>2 DEF StatusInv, NoneQuiet, host
<1> QED
  BY <1>5, <1>6, <1>7, <1>8 DEF StatusInv

\* The flush of a camera leaves no message of it, and the last one none of any.
LEMMA FlushOwn ==
    ASSUME TypeInv, StatusInv, Flush PROVE StatusInv'
<1>1. /\ pc = "flush" /\ todo # <<>>
      /\ UNCHANGED <<inq, cur, selected, results, calls, quiet>>
      /\ outq' = [outq EXCEPT ![Head(todo)] = <<>>]
  BY DEF Flush, history
<1>2. PICK c \in Cams : Head(todo) = c /\ \A d \in Cams : In(d, todo) <=> d = c \/ Later(d)
  BY <1>1, TodoFacts
<1>3. outq \in [Cams -> Seq(MsgType)] /\ \A d \in quiet : d \in Cams
  BY Parts DEF QueuesTyped, CountsTyped
<1>4. outq'[c] = <<>> /\ \A d \in Cams : d # c => outq'[d] = outq[d]
  BY <1>1, <1>2, <1>3
<1>5. Own' /\ ResultsOwn'
  BY <1>1, OwnStays, ResultsStay DEF StatusInv
<1>6. FreshOut(c)'
  BY <1>4 DEF FreshOut
<1>7. \A d \in quiet : d # c /\ FreshOut(d) => FreshOut(d)'
  BY <1>1, <1>3, <1>4 DEF FreshOut
<1>8. \A d \in quiet : In(d, selected) => In(d, todo) \/ FreshOut(d)
  BY <1>1 DEF StatusInv, Flushed
<1>9. CASE Len(todo) > 1
  <2>1. todo' = Tail(todo) /\ pc' = "flush" /\ \A d \in Cams : In(d, Tail(todo)) <=> Later(d)
    BY <1>1, <1>9, TodoFacts DEF Flush
  <2>2. \A d \in quiet : In(d, selected) => In(d, Tail(todo)) \/ FreshOut(d)'
    BY <1>2, <1>3, <1>6, <1>7, <1>8, <2>1
  <2>3. Flushed'
    BY <1>1, <2>1, <2>2 DEF Flushed, In
  <2> QED
    BY <1>5, <2>1, <2>3 DEF StatusInv, NoneQuiet
<1>10. CASE ~(Len(todo) > 1)
  <2>1. pc' \in {"ask", "send"} /\ Len(todo) = 1
    BY <1>1, <1>10, TodoFacts DEF Flush, AfterFlush
  <2>2. \A d : ~Later(d)
    BY <2>1 DEF Later
  <2>3. \A d \in quiet : In(d, selected) => FreshOut(d)'
    BY <1>2, <1>3, <1>6, <1>7, <1>8, <2>2
  <2>4. Flushed'
    BY <1>1, <2>1, <2>3 DEF Flushed, In
  <2> QED
    BY <1>5, <2>1, <2>4 DEF StatusInv, NoneQuiet
<1> QED
  BY <1>9, <1>10

\* What is sent is of the call.
LEMMA SendOwn ==
    ASSUME TypeInv, StatusInv, Send PROVE StatusInv'
<1> DEFINE c == todo[1]
<1>1. /\ pc = "send" /\ c \in Cams /\ SendWays
      /\ UNCHANGED <<cur, outq, results, calls>>
      /\ UNCHANGED <<running, cid, cur, outq, known>>
      /\ WriteOk(c) \/ WriteRefused(c) \/ WriteFails(c)
  BY SendEffect
<1> HIDE DEF c
<1>2. /\ \A d \in Cams : d # c => inq'[d] = inq[d]
      /\ Wrote(c) \/ inq' = inq
      /\ quiet' \subseteq quiet
  BY <1>1, WriteEffect
<1>3. \A d \in quiet : d \in Cams
  BY Parts DEF CountsTyped
<1>4. Own'
  <2>1. ASSUME NEW d \in quiet PROVE Fresh(d)'
    <3>1. Fresh(d) /\ d \in Cams
      BY <1>3 DEF StatusInv, Own
    <3>2. CASE d = c
      BY <1>1, <1>2, <3>1, <3>2, WroteFresh
    <3>3. CASE d # c
      BY <1>1, <1>2, <3>1, <3>3 DEF Fresh
    <3> QED
      BY <3>2, <3>3
  <2> QED
    BY <1>2, <2>1 DEF Own
<1>5. ResultsOwn'
  BY <1>1, <1>2, ResultsStay DEF StatusInv
<1>6. \A d \in quiet : In(d, selected) => FreshOut(d)
  BY <1>1 DEF StatusInv, Flushed
<1>7. pc' \in {"idle", "setid"} \/ (pc' \in {"send", "wait"} /\ selected' = selected)
  BY <1>1, ReturnEffect DEF SendWays
<1>8. Flushed'
  BY <1>1, <1>2, <1>6, <1>7 DEF Flushed, FreshOut, In
<1> QED
  BY <1>4, <1>5, <1>7, <1>8 DEF StatusInv, NoneQuiet

\* What is polled has come after the flush.
LEMMA PollOwn ==
    ASSUME TypeInv, StatusInv, Poll PROVE StatusInv'
<1> DEFINE c == todo[1]
           i == mc_id[c]
<1>1. pc = "wait" /\ todo # <<>> /\ c \in Cams /\ i \in Ids /\ PollAt(c, i)
  BY PollEffect
<1>2. In(c, selected)
  <2>1. In(c, todo)
    BY <1>1, TodoFacts
  <2> QED
    BY <1>1, <2>1, Parts DEF Looping
<1> HIDE DEF c, i
<1>3. /\ UNCHANGED <<inq, cur, calls, pc, selected>> /\ quiet' \subseteq quiet
      /\ \A d \in Cams : d # c => outq'[d] = outq[d]
      /\ outq' = outq \/ (outq[c] # <<>> /\ outq'[c] = Tail(outq[c]))
      /\ \A j \in Ids : j # i => results'[j] = results[j]
  BY <1>1 DEF PollAt
<1>4. /\ \A d \in quiet : d \in Cams
      /\ outq[c] \in Seq(MsgType)
      /\ \A d \in quiet : In(d, selected) => FreshOut(d)
  BY <1>1, Parts, QueueFacts DEF CountsTyped, StatusInv, Flushed
<1>5. Own'
  BY <1>3, OwnStays DEF StatusInv
<1>6. \A d \in quiet : In(d, selected) => FreshOut(d)'
  <2>1. c \in quiet /\ outq[c] # <<>> => \A k \in 1..Len(Tail(outq[c])) : Tail(outq[c])[k].call = calls
    BY <1>2, <1>4, TailCalls DEF FreshOut
  <2>2. ASSUME NEW d \in quiet, In(d, selected) PROVE FreshOut(d)'
    <3>1. FreshOut(d) /\ d \in Cams
      BY <1>4, <2>2
    <3>2. CASE outq'[d] = outq[d]
      BY <1>3, <3>1, <3>2 DEF FreshOut
    <3>3. CASE d = c /\ outq[c] # <<>> /\ outq'[c] = Tail(outq[c])
      BY <1>3, <2>1, <3>3 DEF FreshOut
    <3> QED
      BY <1>3, <3>1, <3>2, <3>3
  <2> QED
    BY <2>2
<1>7. Flushed'
  BY <1>1, <1>3, <1>6 DEF Flushed, In
<1>8. ResultsOwn'
  <2>1. ASSUME NEW d \in quiet, results'[i].from = <<d>>, ~results'[i].failed
        PROVE  results'[i].call = calls
    <3>1. CASE results' = results
      BY <1>1, <2>1, <3>1 DEF StatusInv, ResultsOwn
    <3>2. CASE outq[c] # <<>> /\ ResultOf(c, outq[c][1], results'[i])
      <4>1. d = c /\ results'[i].call = outq[c][1].call
        BY <2>1, <3>2 DEF ResultOf
      <4>2. FreshOut(c)
        BY <1>2, <1>4, <4>1
      <4>3. outq[c][1].call = calls
        BY <1>4, <3>2, <4>2, TailCalls DEF FreshOut
      <4> QED
        BY <4>1, <4>3
    <3> QED
      BY <1>1, <2>1, <3>1, <3>2 DEF PollAt
  <2> QED
    BY <1>3, <2>1 DEF StatusInv, ResultsOwn
<1>9. NoneQuiet'
  BY <1>1, <1>3 DEF NoneQuiet
<1> QED
  BY <1>5, <1>7, <1>8, <1>9 DEF StatusInv

\* The end of a round makes no answers.
LEMMA RoundOwn ==
    ASSUME TypeInv, StatusInv, RoundEnd \/ WaitTimeout PROVE StatusInv'
<1>1. /\ pc = "wait" /\ RoundWays
      /\ UNCHANGED <<inq, cur, outq, calls, quiet>>
  BY RoundEffect DEF cameras, history
<1>2. Own'
  BY <1>1, OwnStays DEF StatusInv
<1>3. ResultsOwn'
  BY <1>1 DEF StatusInv, ResultsOwn, RoundWays
<1>4. pc' \in {"idle", "setid"} \/ (pc' = "wait" /\ selected' = selected)
  BY <1>1, ReturnEffect DEF RoundWays
<1>5. \A d \in quiet : In(d, selected) => FreshOut(d)
  BY <1>1 DEF StatusInv, Flushed
<1>6. Flushed'
  BY <1>1, <1>4, <1>5 DEF Flushed, FreshOut, In
<1> QED
  BY <1>2, <1>3, <1>4, <1>6 DEF StatusInv, NoneQuiet

\* Nor does what is asked and read otherwise.
LEMMA AskOwn ==
    ASSUME TypeInv, StatusInv, Ask PROVE StatusInv'
<1> DEFINE c == todo[1]
<1>1. /\ pc = "ask" /\ todo # <<>> /\ c \in Cams /\ UNCHANGED <<running, cid, cur, outq, known, results, calls>>
      /\ WriteOk(c) \/ WriteRefused(c) \/ WriteFails(c)
      /\ Again \/ Onward \/ Ended \/ Stays
  <2>1. NextCam \/ NextAsk \/ Caught => Again \/ Onward \/ Ended
    BY AskEffect, LoopWays
  <2> QED
    BY <2>1, AskEffect DEF Stays
<1> HIDE DEF c
<1>2. /\ \A d \in Cams : d # c => inq'[d] = inq[d]
      /\ Wrote(c) \/ inq' = inq
      /\ quiet' \subseteq quiet
  BY <1>1, WriteEffect
<1>3. \A d \in quiet : Fresh(d) /\ d \in Cams
  BY Parts DEF CountsTyped, StatusInv, Own
<1>4. ASSUME NEW d \in quiet PROVE Fresh(d)'
  <2>1. CASE d = c
    BY <1>1, <1>2, <1>3, <2>1, WroteFresh
  <2>2. CASE d # c
    BY <1>1, <1>2, <1>3, <2>2 DEF Fresh
  <2> QED
    BY <2>1, <2>2
<1>5. pc' \in {"ask", "answer", "idle", "setid"}
  BY <1>1, LoopPlace
<1>6. ResultsOwn'
  BY <1>1, <1>2, ResultsStay DEF StatusInv
<1>7. Own'
  BY <1>2, <1>4 DEF Own
<1> QED
  BY <1>5, <1>6, <1>7 DEF StatusInv, Flushed, NoneQuiet

\* Nor does the reading of answers, or giving up.
LEMMA AnswerOwn ==
    ASSUME TypeInv, StatusInv, Answer \/ AnswerTimeout PROVE StatusInv'
<1>1. Thrown /\ todo # <<>> /\ pc = "answer" => pc' \in {"ask", "answer", "idle", "setid"}
  BY ThrownEffect, LoopWays, LoopPlace, Parts DEF Commanding
<1>2. CASE Answer
  <2>1. /\ pc = "answer" /\ todo # <<>> /\ todo[1] \in Cams /\ AnswerWays(todo[1])
        /\ UNCHANGED <<inq, cur, results, calls>>
    BY <1>2, AnswerEffect
  <2>2. quiet' \subseteq quiet /\ pc' \in {"ask", "answer", "idle", "setid"}
    BY <1>1, <2>1, LoopPlace DEF AnswerWays, TakenWays
  <2> QED
    BY <2>1, <2>2, ElsewhereOwn
<1>3. CASE AnswerTimeout
  BY <1>1, <1>3, ElsewhereOwn DEF AnswerTimeout, cameras, history
<1> QED
  BY <1>2, <1>3

\* Nothing is sent when a call or set_id ends.
LEMMA EndingOwn ==
    ASSUME TypeInv, StatusInv, FlushFails \/ SetIdFails \/ SetIdDone \/ (SetIdCam /\ ~running[jobs[1].cam])
    PROVE  StatusInv'
<1>1. UNCHANGED <<inq, cur, calls, results, quiet>> /\ pc' \in {"idle", "setid"}
  <2>1. CASE FlushFails
    BY <2>1 DEF FlushFails, Throw
  <2>2. CASE SetIdFails
    BY <2>2 DEF SetIdFails, Throw, cameras
  <2>3. CASE SetIdDone
    BY <2>3 DEF SetIdDone, cameras, history
  <2>4. CASE SetIdCam /\ ~running[jobs[1].cam]
    <3>1. Head(jobs) = jobs[1]
      BY <2>4, JobFacts DEF SetIdCam
    <3> QED
      BY <2>4, <3>1 DEF SetIdCam, cameras, history
  <2> QED
    BY <2>1, <2>2, <2>3, <2>4
<1> QED
  BY <1>1, ElsewhereOwn

\* Every step keeps StatusInv.
LEMMA StatusNext == TypeInv /\ StatusInv /\ [Next]_vars => StatusInv'
<1> SUFFICES ASSUME TypeInv, StatusInv, [Next]_vars PROVE StatusInv'
  OBVIOUS
<1>1. CASE UNCHANGED vars
  BY <1>1 DEF vars, cameras, host, history, StatusInv, Own, Flushed, ResultsOwn, NoneQuiet, Fresh, FreshOut, In
<1>2. CASE Command \/ ImgList \/ InitSync
  BY <1>2, SendingBegun, BegunOwn
<1>3. CASE SetId \/ Select \/ Start
  BY <1>3, NobodyOwn DEF SetId, Select, Start, NoCommand
<1>4. CASE SetIdCam /\ running[jobs[1].cam]
  BY <1>4, SetIdBegun, BegunOwn
<1>5. CASE StartOne \/ StartStop \/ StartExec
  <2>1. quiet = {} /\ quiet' = quiet
    BY <1>5 DEF StartOne, StartStop, StartExec, StatusInv, NoneQuiet, history
  <2> QED
    BY <2>1, NobodyOwn
<1> QED
  BY <1>1, <1>2, <1>3, <1>4, <1>5, CameraOwn, FlushOwn, SendOwn, PollOwn, RoundOwn, AskOwn, AnswerOwn,
     EndingOwn DEF Next, Call, HostStep

\* No call has been made initially.
LEMMA StatusInit == Init => StatusInv
  BY DEF Init, StatusInv, Own, Flushed, ResultsOwn, NoneQuiet

\* StatusInv holds in every state of every behaviour.
LEMMA StatusAlways == Spec => []StatusInv
<1>1. TypeInv /\ StatusInv /\ [Next]_vars => StatusInv'
  BY StatusNext
<1> QED
  BY <1>1, StatusInit, TypedAlways, PTL DEF Spec

-----------------------------------------------------------------------------
\* The answers to ticks.  A camera that counts has nothing to do and no message
\* when its turn comes, and then one tick is under way: in its queue, carried
\* out, or answered.  Once it has missed the first it is sent the others, and
\* its messages are not read.
Idle(c)  == inq[c] = <<>> /\ cur[c] = NoCmd
Empty(c) == Idle(c) /\ outq[c] = <<>>
Turn(c)  == todo # <<>> /\ c = todo[1]

OneTick(c) ==
    \/ /\ Len(inq[c]) = 1 /\ inq[c][1] = Cmd("tick", complete, calls)
       /\ cur[c] = NoCmd /\ outq[c] = <<>> /\ running[c]
    \/ inq[c] = <<>> /\ cur[c] = Cmd("tick", complete, calls) /\ outq[c] = <<>> /\ running[c]
    \/ Idle(c) /\ Len(outq[c]) = 1 /\ outq[c][1].call = calls /\ outq[c][1].arg = complete

TickAt(c) ==
    /\ pc = "flush" => /\ Idle(c) /\ answers[c] = <<>>
                       /\ In(c, todo) \/ ~In(c, selected) \/ outq[c] = <<>>
    /\ pc \in {"ask", "answer"} /\ Later(c) => Empty(c) /\ answers[c] = <<>>
    /\ pc = "ask" /\ Turn(c) => Empty(c) \/ NoBase(c)
    /\ pc = "answer" /\ Turn(c) => OneTick(c)
    /\ pc \in {"ask", "answer"} /\ Turn(c) /\ complete = 0 => answers[c] = <<>>

Ticked(c) == \A k \in 1..Len(answers[c]) : /\ answers[c][k].msg.call = calls
                                           /\ answers[c][k].msg.arg = answers[c][k].want

TicksInv == op.name = "tick" => \A c \in quiet : TickAt(c) /\ Ticked(c)

\* The next camera of a loop was later in it, and so were those after it.
LEMMA OnwardFacts ==
    ASSUME TypeInv, todo # <<>>, pc \in {"ask", "answer"}, Onward \/ Ended, NEW d \in Cams
    PROVE  /\ (Later(d)' => Later(d)) /\ (Turn(d)' => Later(d)) /\ (In(d, todo)' <=> Later(d))
           /\ complete' = 0 /\ pc' \in {"ask", "idle", "setid"}
<1>1. complete' = 0 /\ pc' \in {"ask", "idle", "setid"}
  BY ReturnEffect DEF Onward, Ended
<1>2. CASE Onward
  <2>1. /\ todo' = Tail(todo) /\ Len(Tail(todo)) \in Nat
        /\ \A k \in 1..Len(Tail(todo)) : Tail(todo)[k] = todo[k + 1] /\ k + 1 \in 2..Len(todo)
        /\ In(d, Tail(todo)) <=> Later(d)
    BY <1>2, TodoFacts DEF Onward
  <2>2. In(d, todo)' <=> Later(d)
    BY <2>1 DEF In
  <2>3. Later(d)' => Later(d)
    <3>1. Later(d)' => In(d, todo)'
      BY <2>1 DEF Later, In
    <3> QED
      BY <2>2, <3>1
  <2>4. Turn(d)' => Later(d)
    <3>1. Len(Tail(todo)) > 0
      BY <1>2, TodoFacts DEF Onward
    <3>2. Turn(d)' => In(d, todo)'
      BY <2>1, <3>1 DEF Turn, In
    <3> QED
      BY <2>2, <3>2
  <2> QED
    BY <1>1, <2>2, <2>3, <2>4
<1>3. CASE Ended
  <2>1. todo' = <<>> /\ Len(todo) = 1 /\ Len(<<>>) = 0
    BY <1>3 DEF Ended
  <2> QED
    BY <1>1, <2>1 DEF Later, Turn, In
<1> QED
  BY <1>2, <1>3

\* A script that has nothing to do takes no step.
LEMMA IdleStays ==
    ASSUME TypeInv, NEW c \in Cams, CamRead(c) \/ CamItem(c) \/ CamGiveUp(c) \/ CamAnswer(c) \/ CamDies(c)
    PROVE  ~Idle(c)
  BY CameraEffect DEF ReadAt, ItemAt, GiveUpAt, AnswerAt, DieAt, EndAt, Idle

\* A script's step leaves a tick under way.
LEMMA CameraTick ==
    ASSUME TypeInv, NEW c \in Cams, CamRead(c) \/ CamItem(c) \/ CamGiveUp(c) \/ CamAnswer(c) \/ CamDies(c),
           OneTick(c)
    PROVE  OneTick(c)'
<1>1. /\ UNCHANGED <<calls, complete>>
      /\ ReadAt(c) \/ ItemAt(c) \/ GiveUpAt(c) \/ AnswerAt(c) \/ DieAt(c)
  BY CameraEffect DEF host
<1>2. ~Idle(c)
  BY IdleStays
<1>3. CASE /\ Len(inq[c]) = 1 /\ inq[c][1] = Cmd("tick", complete, calls)
           /\ cur[c] = NoCmd /\ outq[c] = <<>> /\ running[c]
  <2>1. ReadAt(c)
    BY <1>1, <1>3 DEF ItemAt, GiveUpAt, AnswerAt, DieAt, EndAt
  <2>2. Tail(inq[c]) = <<>>
    <3>1. inq[c] \in Seq(CmdRec) /\ inq[c] # <<>>
      BY <2>1, QueueFacts DEF ReadAt
    <3>2. Tail(inq[c]) \in Seq(CmdRec) /\ Len(Tail(inq[c])) = 0
      BY <1>3, <3>1, Popped
    <3> QED
      BY <3>2, EmptySeq
  <2> QED
    BY <1>1, <1>3, <2>1, <2>2 DEF ReadAt, OneTick
<1>4. CASE inq[c] = <<>> /\ cur[c] = Cmd("tick", complete, calls) /\ outq[c] = <<>> /\ running[c]
  <2>1. /\ cur[c].left = 0 /\ cur[c].call = calls /\ cur[c].arg = complete
    BY <1>4 DEF Cmd
  <2>2. AnswerAt(c) \/ DieAt(c)
    <3>1. ~ReadAt(c)
      BY <1>4 DEF ReadAt
    <3>2. ~(0 > 0)
      OBVIOUS
    <3>3. ~(cur[c].left > 0)
      BY <2>1, <3>2, Zenon
    <3> QED
      BY <1>1, <3>1, <3>3, Zenon DEF ItemAt, GiveUpAt
  <2>3. PICK t \in {"status", "fail", "error"} : EndAt(c, t)
    BY <2>2 DEF AnswerAt, DieAt
  <2>4. Len(outq[c]) = 0 /\ QueueMax > 0 /\ Msg(t, cur[c]).call = calls /\ Msg(t, cur[c]).arg = complete
    BY <1>4, <2>1, Constants DEF Msg
  <2>5. outq'[c] = Append(outq[c], Msg(t, cur[c])) /\ inq'[c] = inq[c] /\ cur'[c] = NoCmd
    BY <2>3, <2>4 DEF EndAt
  <2>6. ASSUME NEW m PROVE Len(Append(<<>>, m)) = 1 /\ Append(<<>>, m)[1] = m
    OBVIOUS
  <2>7. Len(outq'[c]) = 1 /\ outq'[c][1] = Msg(t, cur[c])
    BY <1>4, <2>5, <2>6
  <2> QED
    BY <1>1, <1>4, <2>4, <2>5, <2>7 DEF OneTick, Idle
<1> QED
  BY <1>2, <1>3, <1>4 DEF OneTick

\* The script's steps keep the ticks in turn.
LEMMA CameraTicks ==
    ASSUME TypeInv, TicksInv, Camera PROVE TicksInv'
<1>1. PICK c \in Cams : CamRead(c) \/ CamItem(c) \/ CamGiveUp(c) \/ CamAnswer(c) \/ CamDies(c)
  BY DEF Camera
<1>2. UNCHANGED <<host, calls, quiet>> /\ Others(c)
  BY <1>1, CameraEffect
<1>3. SUFFICES ASSUME op.name = "tick", NEW d \in quiet PROVE TickAt(d)' /\ Ticked(d)'
  BY <1>2 DEF TicksInv, host
<1>4. d \in Cams /\ TickAt(d) /\ Ticked(d)
  BY <1>3, Parts DEF TicksInv, CountsTyped
<1>5. UNCHANGED <<pc, op, todo, selected, answers, complete, calls>>
  BY <1>2 DEF host
<1>6. Ticked(d)'
  BY <1>4, <1>5 DEF Ticked
<1>7. CASE d # c
  <2>1. inq'[d] = inq[d] /\ cur'[d] = cur[d] /\ outq'[d] = outq[d] /\ running'[d] = running[d]
    BY <1>2, <1>4, <1>7 DEF Others
  <2>2. /\ Idle(d)' <=> Idle(d)
        /\ OneTick(d)' <=> OneTick(d)
        /\ Empty(d)' <=> Empty(d)
    BY <1>5, <2>1 DEF Idle, OneTick, Empty
  <2> QED
    BY <1>4, <1>5, <1>6, <2>1, <2>2 DEF TickAt, Turn, In, Later, NoBase
<1>8. CASE d = c
  <2>1. ~Idle(d) /\ ~Empty(d) /\ (OneTick(d) => OneTick(d)')
    BY <1>1, <1>8, IdleStays, CameraTick DEF Empty
  <2> QED
    BY <1>4, <1>5, <1>6, <2>1 DEF TickAt, Turn, In, Later, NoBase
<1> QED
  BY <1>7, <1>8

\* The steps of other commands, and those that leave answers and loop.
LEMMA ElsewhereTicks ==
    ASSUME TicksInv, UNCHANGED <<op, calls, answers>>, quiet' \subseteq quiet,
           op.name = "tick" => pc' \notin {"flush", "ask", "answer"}
    PROVE  TicksInv'
  BY DEF TicksInv, TickAt, Ticked

\* A call that begins has asked for no tick.
LEMMA BegunTicks ==
    ASSUME TypeInv, Begun PROVE TicksInv'
<1> SUFFICES ASSUME op'.name = "tick", NEW d \in quiet' PROVE TickAt(d)' /\ Ticked(d)'
  BY DEF TicksInv
<1>1. /\ d \in Cams /\ inq'[d] = <<>> /\ cur'[d] = NoCmd /\ answers'[d] = <<>>
      /\ pc' = "flush" /\ todo' = selected'
  BY DEF Begun
<1> QED
  BY <1>1 DEF TickAt, Ticked, Idle, In

\* The flush leaves the cameras that count without a message, so that the
\* first ask finds them empty.
LEMMA FlushTicks ==
    ASSUME TypeInv, TicksInv, Flush PROVE TicksInv'
<1>1. /\ pc = "flush" /\ todo # <<>>
      /\ UNCHANGED <<inq, cur, selected, op, complete, answers, calls, quiet>>
      /\ outq' = [outq EXCEPT ![Head(todo)] = <<>>]
  BY DEF Flush, history
<1>2. PICK c \in Cams : /\ Head(todo) = c /\ c = todo[1] /\ ~Later(c)
                        /\ \A d \in Cams : In(d, todo) <=> d = c \/ Later(d)
  BY <1>1, TodoFacts
<1>3. outq'[c] = <<>> /\ \A d \in Cams : d # c => outq'[d] = outq[d]
  BY <1>1, <1>2, Parts DEF QueuesTyped
<1> SUFFICES ASSUME op.name = "tick", NEW d \in quiet PROVE TickAt(d)' /\ Ticked(d)'
  BY <1>1 DEF TicksInv
<1>4. /\ d \in Cams /\ Ticked(d) /\ Idle(d) /\ answers[d] = <<>>
      /\ In(d, todo) \/ ~In(d, selected) \/ outq[d] = <<>>
  BY <1>1, Parts DEF TicksInv, TickAt, CountsTyped
<1>5. Ticked(d)' /\ Idle(d)' /\ answers'[d] = <<>>
  BY <1>1, <1>4 DEF Ticked, Idle
<1>6. Later(d) \/ ~In(d, selected) \/ outq'[d] = <<>>
  BY <1>2, <1>3, <1>4
<1>7. CASE Len(todo) > 1
  <2>1. todo' = Tail(todo) /\ pc' = "flush" /\ (In(d, Tail(todo)) <=> Later(d))
    BY <1>1, <1>4, <1>7, TodoFacts DEF Flush
  <2>2. In(d, todo)' \/ ~In(d, selected)' \/ outq'[d] = <<>>
    BY <1>1, <1>6, <2>1 DEF In
  <2> QED
    BY <1>5, <2>1, <2>2 DEF TickAt
<1>8. CASE ~(Len(todo) > 1)
  <2>1. pc' = "ask" /\ todo' = selected /\ Len(todo) = 1
    BY <1>1, <1>8, TodoFacts DEF Flush, AfterFlush
  <2>2. ~Later(d)
    BY <2>1 DEF Later
  <2>3. In(d, selected) => Empty(d)'
    BY <1>5, <1>6, <2>2 DEF Empty
  <2>4. Later(d)' \/ Turn(d)' => In(d, selected)
    <3>1. selected \in Seq(Cams)
      BY Parts DEF HostTyped
    <3>2. Len(selected) \in Nat /\ (selected # <<>> => Len(selected) > 0)
      BY <3>1, LenProperties, EmptySeq
    <3> QED
      BY <2>1, <3>2 DEF Later, Turn, In
  <2> QED
    BY <1>5, <2>1, <2>3, <2>4 DEF TickAt
<1> QED
  BY <1>7, <1>8

\* A loop over the cameras that goes on.  Next the cameras after the first:
LEMMA LaterTicks ==
    ASSUME TypeInv, NEW d \in Cams, op.name = "tick", pc \in {"ask", "answer"}, todo # <<>>, d # todo[1],
           TickAt(d), Ticked(d), UNCHANGED <<op, calls>>,
           inq'[d] = inq[d], cur'[d] = cur[d], outq'[d] = outq[d], answers'[d] = answers[d],
           Again \/ Onward \/ Ended \/ Stays
    PROVE  TickAt(d)' /\ Ticked(d)'
<1>1. Ticked(d)'
  BY DEF Ticked
<1>2. Later(d) => Empty(d)' /\ answers'[d] = <<>>
  BY DEF TickAt, Empty, Idle
<1>3. CASE Again \/ Stays
  <2>1. todo' = todo /\ pc' \in {"ask", "answer"}
    BY <1>3 DEF Again, Stays
  <2>2. ~Turn(d)' /\ (Later(d)' => Later(d))
    BY <2>1 DEF Turn, Later
  <2> QED
    BY <1>1, <1>2, <2>1, <2>2 DEF TickAt
<1>4. CASE Onward \/ Ended
  <2>1. (Later(d)' => Later(d)) /\ (Turn(d)' => Later(d)) /\ pc' \in {"ask", "idle", "setid"}
    BY <1>4, OnwardFacts
  <2> QED
    BY <1>1, <1>2, <2>1 DEF TickAt
<1> QED
  BY <1>3, <1>4

\* The first camera is asked again with nothing under way, or it is done.
LEMMA TurnTicks ==
    ASSUME TypeInv, NEW d \in Cams, op.name = "tick", pc \in {"ask", "answer"}, todo # <<>>, d = todo[1],
           UNCHANGED <<op, calls>>, Again => Empty(d)' \/ answers'[d] = <<>>, Again \/ Onward \/ Ended
    PROVE  TickAt(d)'
<1>1. ~Later(d)
  BY TodoFacts
<1>2. CASE Again
  <2>1. todo' = todo /\ pc' = "ask" /\ complete' # 0 /\ complete' > 0
    <3>1. complete \in Nat /\ complete' = complete + 1
      BY <1>2, Parts DEF Again, AnswersTyped
    <3>2. complete' # 0 /\ complete' > 0
      BY <3>1
    <3> QED
      BY <1>2, <3>2 DEF Again
  <2>2. ~Later(d)'
    BY <1>1, <2>1 DEF Later
  <2>3. Empty(d)' \/ NoBase(d)'
    BY <1>2, <2>1 DEF NoBase
  <2> QED
    BY <2>1, <2>2, <2>3 DEF TickAt
<1>3. CASE Onward \/ Ended
  <2>1. ~Later(d)' /\ ~Turn(d)' /\ pc' \in {"ask", "idle", "setid"}
    BY <1>1, <1>3, OnwardFacts
  <2> QED
    BY <2>1 DEF TickAt
<1> QED
  BY <1>2, <1>3

\* A tick is asked for only after the answer to the one before.
LEMMA AskTicks ==
    ASSUME TypeInv, TicksInv, Ask PROVE TicksInv'
<1>1. PICK c \in Cams :
         /\ c = todo[1] /\ pc = "ask" /\ todo # <<>>
         /\ UNCHANGED <<running, cid, cur, outq, known, op, answers, calls>>
         /\ \/ WriteOk(c) /\ ~NoBase(c) /\ pc' = "answer" /\ UNCHANGED <<todo, complete, ret, selected, saved>>
            \/ WriteOk(c) /\ NoBase(c) /\ NextAsk
            \/ (WriteRefused(c) \/ WriteFails(c)) /\ Caught
  BY AskEffect
<1>2. WriteOk(c) \/ WriteRefused(c) \/ WriteFails(c)
  BY <1>1
<1>3. /\ \A d \in Cams : d # c => inq'[d] = inq[d]
      /\ \/ WriteOk(c) /\ Wrote(c) /\ quiet' = quiet
         \/ WriteRefused(c) /\ inq' = inq /\ quiet' = quiet
         \/ WriteFails(c) /\ quiet' = quiet \ {c}
      /\ quiet' \subseteq quiet
  BY <1>1, <1>2, WriteEffect
<1> SUFFICES ASSUME op.name = "tick", NEW d \in quiet, d \in quiet' PROVE TickAt(d)' /\ Ticked(d)'
  BY <1>1, <1>3 DEF TicksInv
<1>4. d \in Cams /\ TickAt(d) /\ Ticked(d)
  BY Parts DEF TicksInv, CountsTyped
<1>5. Again \/ Onward \/ Ended \/ Stays
  BY <1>1, LoopWays DEF Stays
<1>6. CASE d # c
  <2>1. UNCHANGED <<cur, outq, answers, op, calls>> /\ inq'[d] = inq[d]
    BY <1>1, <1>3, <1>4, <1>6
  <2> QED
    BY <1>1, <1>4, <1>5, <1>6, <2>1, LaterTicks
<1>7. CASE d = c
  <2>1. Ticked(d)'
    BY <1>1, <1>4 DEF Ticked
  <2>2. Empty(d) \/ NoBase(d)
    BY <1>1, <1>4, <1>7 DEF TickAt, Turn
  <2>3. ~Later(d)
    BY <1>1, <1>7, TodoFacts
  <2>4. CASE WriteOk(c) /\ ~NoBase(c) /\ pc' = "answer" /\ UNCHANGED <<todo, complete, ret, selected, saved>>
    <3>1. Empty(d) /\ ~Later(d)' /\ Accepts(c)
      BY <1>7, <2>2, <2>3, <2>4 DEF Later, WriteOk
    <3>2. inq' = [inq EXCEPT ![c] = Append(inq[c], Cmd("tick", complete, calls))]
      BY <2>4 DEF WriteOk, Queued, Arg
    <3>3. inq'[c] = Append(<<>>, Cmd("tick", complete, calls))
      BY <1>7, <3>1, <3>2, Parts DEF QueuesTyped, Empty, Idle
    <3>4. ASSUME NEW m PROVE Len(Append(<<>>, m)) = 1 /\ Append(<<>>, m)[1] = m
      OBVIOUS
    <3>5. Len(inq'[d]) = 1 /\ inq'[d][1] = Cmd("tick", complete, calls)
      BY <1>7, <3>3, <3>4
    <3>6. OneTick(d)'
      BY <1>1, <1>7, <2>4, <3>1, <3>5 DEF OneTick, Empty, Idle, Accepts
    <3>7. complete = 0 => answers[d] = <<>>
      BY <1>1, <1>4, <1>7 DEF TickAt, Turn
    <3> QED
      BY <1>1, <2>1, <2>4, <3>1, <3>6, <3>7 DEF TickAt
  <2>5. CASE WriteOk(c) /\ NoBase(c) /\ NextAsk
    <3>1. answers'[d] = <<>> /\ (Again \/ Onward \/ Ended)
      BY <1>1, <1>7, <2>5, LoopWays DEF NoBase
    <3> QED
      BY <1>1, <1>4, <1>7, <2>1, <3>1, TurnTicks
  <2>6. CASE (WriteRefused(c) \/ WriteFails(c)) /\ Caught
    <3>1. inq' = inq
      BY <1>3, <1>7, <2>6 DEF WriteRefused, WriteFails
    <3>2. Empty(d)' \/ answers'[d] = <<>>
      BY <1>1, <2>2, <3>1 DEF Empty, Idle, NoBase
    <3>3. Again \/ Onward \/ Ended
      BY <1>1, <2>6, LoopWays
    <3> QED
      BY <1>1, <1>4, <1>7, <2>1, <3>2, <3>3, TurnTicks
  <2> QED
    BY <1>1, <2>4, <2>5, <2>6
<1> QED
  BY <1>6, <1>7

\* The answer that is read is the one to the tick asked for last.
LEMMA AnswerTicks ==
    ASSUME TypeInv, TicksInv, Answer PROVE TicksInv'
<1>1. PICK c \in Cams :
         /\ c = todo[1] /\ pc = "answer" /\ todo # <<>> /\ AnswerWays(c)
         /\ UNCHANGED <<running, cid, inq, cur, known, op, calls>>
         /\ \A d \in Cams : d # c => outq'[d] = outq[d]
  BY AnswerEffect
<1>2. /\ \/ outq[c] # <<>> /\ outq'[c] = Tail(outq[c]) /\ quiet' = quiet
         \/ quiet' = quiet \ {c}
      /\ quiet' \subseteq quiet
  BY <1>1 DEF AnswerWays
<1> SUFFICES ASSUME op.name = "tick", NEW d \in quiet, d \in quiet' PROVE TickAt(d)' /\ Ticked(d)'
  BY <1>1, <1>2 DEF TicksInv
<1>3. d \in Cams /\ TickAt(d) /\ Ticked(d)
  BY Parts DEF TicksInv, CountsTyped
<1>4. Thrown => (Again \/ Onward \/ Ended) /\ answers' = answers
  BY <1>1, ThrownEffect, LoopWays
<1>5. \/ (Again \/ Onward \/ Ended) /\ answers' = answers
      \/ (Again \/ Onward \/ Ended) /\ outq[c] # <<>> /\ IsTick(outq[c][1]) /\ Keep(c, outq[c][1])
  BY <1>1, <1>4 DEF AnswerWays, TakenWays
<1>6. outq[c] # <<>> => outq[c][1] \in MsgType
  BY <1>1, ReadOne
<1>7. CASE d # c
  <2>1. answers'[d] = answers[d]
    BY <1>1, <1>3, <1>5, <1>6, <1>7, KeepEffect
  <2>2. inq'[d] = inq[d] /\ cur'[d] = cur[d] /\ outq'[d] = outq[d]
    BY <1>1, <1>3, <1>7
  <2> QED
    BY <1>1, <1>3, <1>5, <1>7, <2>1, <2>2, LaterTicks
<1>8. CASE d = c
  <2>1. /\ outq[d] # <<>> /\ outq'[d] = Tail(outq[d]) /\ Idle(d) /\ Len(outq[d]) = 1
        /\ outq[d][1].call = calls /\ outq[d][1].arg = complete
    <3>1. OneTick(d) /\ outq[d] # <<>> /\ outq'[d] = Tail(outq[d])
      BY <1>1, <1>2, <1>3, <1>8 DEF TickAt, Turn
    <3> QED
      BY <3>1 DEF OneTick
  <2>2. outq'[d] = <<>>
    <3>1. outq[d] \in Seq(MsgType)
      BY <1>3, QueueFacts
    <3>2. Tail(outq[d]) \in Seq(MsgType) /\ Len(Tail(outq[d])) = 0
      BY <2>1, <3>1, Popped
    <3> QED
      BY <2>1, <3>2, EmptySeq
  <2>3. Empty(d)'
    BY <1>1, <2>1, <2>2 DEF Empty, Idle
  <2>4. TickAt(d)'
    BY <1>1, <1>3, <1>5, <1>8, <2>3, TurnTicks
  <2>5. Ticked(d)'
    <3>1. CASE answers' = answers
      BY <1>1, <1>3, <3>1 DEF Ticked
    <3>2. CASE Keep(c, outq[c][1])
      <4>1. /\ Len(answers'[d]) = Len(answers[d]) + 1 /\ Len(answers[d]) \in Nat
            /\ \A k \in 1..Len(answers[d]) : answers'[d][k] = answers[d][k]
            /\ answers'[d][Len(answers[d]) + 1] = [msg |-> outq[d][1], want |-> complete]
        BY <1>1, <1>3, <1>6, <1>8, <2>1, <3>2, KeepEffect
      <4>2. \A k \in 1..Len(answers'[d]) : k \in 1..Len(answers[d]) \/ k = Len(answers[d]) + 1
        BY <4>1
      <4>3. ASSUME NEW k \in 1..Len(answers'[d])
            PROVE  answers'[d][k].msg.call = calls /\ answers'[d][k].msg.arg = answers'[d][k].want
        BY <1>3, <2>1, <4>1, <4>2 DEF Ticked
      <4> QED
        BY <1>1, <4>3 DEF Ticked
    <3> QED
      BY <1>5, <3>1, <3>2
  <2> QED
    BY <2>4, <2>5
<1> QED
  BY <1>7, <1>8

\* wait_msg does not give up a tick that is under way.
LEMMA AnswerTimeoutTicks ==
    ASSUME TypeInv, TicksInv, AnswerTimeout PROVE TicksInv'
<1>1. PICK c \in Cams :
         /\ c = todo[1] /\ pc = "answer" /\ todo # <<>> /\ Thrown
         /\ UNCHANGED <<inq, cur, outq, op, calls, quiet>>
         /\ outq[c] = <<>> /\ (~running[c] \/ (inq[c] = <<>> /\ cur[c] = NoCmd))
  BY TodoFacts DEF AnswerTimeout, cameras, history
<1> SUFFICES ASSUME op.name = "tick", NEW d \in quiet PROVE TickAt(d)' /\ Ticked(d)'
  BY <1>1 DEF TicksInv
<1>2. d \in Cams /\ TickAt(d) /\ Ticked(d)
  BY Parts DEF TicksInv, CountsTyped
<1>3. (Again \/ Onward \/ Ended) /\ answers' = answers
  BY <1>1, ThrownEffect, LoopWays
<1>4. d # c
  <2> SUFFICES ASSUME d = c PROVE FALSE
    OBVIOUS
  <2>1. OneTick(d)
    BY <1>1, <1>2 DEF TickAt, Turn
  <2>2. Cmd("tick", complete, calls) # NoCmd
    BY DEF Cmd, NoCmd
  <2>3. Len(<<>>) # 1
    OBVIOUS
  <2> QED
    BY <1>1, <2>1, <2>2, <2>3 DEF OneTick
<1> QED
  BY <1>1, <1>2, <1>3, <1>4, LaterTicks

\* Every step keeps TicksInv.
LEMMA TicksNext == TypeInv /\ StatusInv /\ TicksInv /\ [Next]_vars => TicksInv'
<1> SUFFICES ASSUME TypeInv, StatusInv, TicksInv, [Next]_vars PROVE TicksInv'
  OBVIOUS
<1>1. CASE UNCHANGED vars
  BY <1>1 DEF vars, cameras, host, history, TicksInv, TickAt, Ticked, OneTick, Empty, Idle, Turn, In, Later, NoBase
<1>2. CASE Command \/ ImgList \/ InitSync
  BY <1>2, SendingBegun, BegunTicks
<1>3. CASE SetId \/ Select \/ Start
  <2>1. quiet' = {}
    BY <1>3 DEF SetId, Select, Start, NoCommand
  <2> QED
    BY <2>1 DEF TicksInv
<1>4. CASE SetIdCam /\ running[jobs[1].cam]
  BY <1>4, SetIdBegun, BegunTicks
<1>5. CASE StartOne \/ StartStop \/ StartExec
  <2>1. quiet' = {}
    BY <1>5 DEF StartOne, StartStop, StartExec, StatusInv, NoneQuiet, history
  <2> QED
    BY <2>1 DEF TicksInv
<1>6. CASE Send
  BY <1>6, SendEffect, WriteEffect, ElsewhereTicks, Parts DEF Commanding
<1>7. CASE Poll
  BY <1>7, PollEffect, ElsewhereTicks, Parts DEF Commanding, PollAt
<1>8. CASE RoundEnd \/ WaitTimeout
  BY <1>8, RoundEffect, ElsewhereTicks, Parts DEF Commanding, history
<1>9. CASE FlushFails \/ SetIdFails \/ SetIdDone \/ (SetIdCam /\ ~running[jobs[1].cam])
  <2>1. UNCHANGED <<op, calls, answers, quiet>> /\ pc' \in {"idle", "setid"}
    BY <1>9, JobFacts DEF FlushFails, SetIdFails, SetIdDone, SetIdCam, Throw, history
  <2> QED
    BY <2>1, ElsewhereTicks
<1> QED
  BY <1>1, <1>2, <1>3, <1>4, <1>5, <1>6, <1>7, <1>8, <1>9, CameraTicks, FlushTicks, AskTicks, AnswerTicks,
     AnswerTimeoutTicks DEF Next, Call, HostStep

\* TicksInv holds in every state of every behaviour.
LEMMA TicksAlways == Spec => []TicksInv
<1>1. Init => TicksInv
  BY DEF Init, TicksInv, NoOp
<1>2. TypeInv /\ StatusInv /\ TicksInv /\ [Next]_vars => TicksInv'
  BY TicksNext
<1> QED
  BY <1>1, <1>2, TypedAlways, StatusAlways, PTL DEF Spec

\* A status counts as a camera's answer to this command only if it is, and the
\* answers init_sync computes a clock with are those to its own ticks, of every
\* camera that was done with earlier commands when the call began.
THEOREM MulticamOwnAnswers == Spec => []OwnAnswers
<1>1. TypeInv /\ StatusInv /\ TicksInv => OwnAnswers
  <2> SUFFICES ASSUME TypeInv, StatusInv, TicksInv PROVE OwnAnswers
    OBVIOUS
  <2>1. StatusOwn
    BY DEF StatusInv, ResultsOwn, StatusOwn
  <2>2. TicksOwn
    <3>1. \A c \in quiet : answers[c] \in Seq(AnswerType)
      BY Parts DEF AnswersTyped, CountsTyped
    <3>2. \A c \in quiet : DOMAIN answers[c] = 1..Len(answers[c])
      BY <3>1, LenProperties
    <3> QED
      BY <3>2 DEF TicksInv, Ticked, TicksOwn
  <2> QED
    BY <2>1, <2>2 DEF OwnAnswers
<1> QED
  BY <1>1, TypedAlways, StatusAlways, TicksAlways, PTL

-----------------------------------------------------------------------------
\* The lists.  A camera whose turn it is not yet has nothing to do and no
\* message; then its list is under way: asked for, being sent, or sent.
Batches(c) ==
    /\ \A k \in 1..Len(answers[c]) : answers[c][k].msg.call = calls
    /\ FreshOut(c)
    /\ \/ /\ Len(inq[c]) = 1 /\ inq[c][1].name = "list" /\ inq[c][1].left = ListLen
          /\ cur[c] = NoCmd /\ outq[c] = <<>> /\ answers[c] = <<>>
       \/ /\ inq[c] = <<>> /\ cur[c] # NoCmd
          /\ \A k \in 1..Len(outq[c]) : outq[c][k].type = "item"
          /\ cur[c].left >= 0 => Len(answers[c]) + Len(outq[c]) + cur[c].left = ListLen
       \/ /\ Idle(c)
          /\ \A k \in 1..Len(outq[c]) :
                /\ outq[c][k].type # "item" => k = Len(outq[c])
                /\ outq[c][k].type = "status" => Len(answers[c]) + Len(outq[c]) = ListLen + 1

Whole(c) ==
    answers[c] # <<>> => /\ Len(answers[c]) = ListLen + 1
                         /\ \A k \in 1..Len(answers[c]) : answers[c][k].msg.call = calls

ListAt(c) ==
    /\ pc \in {"ask", "answer"} /\ Later(c) => Empty(c) /\ answers[c] = <<>>
    /\ pc = "ask" /\ Turn(c) => Empty(c) /\ answers[c] = <<>>
    /\ pc = "answer" /\ Turn(c) => Batches(c)
    /\ (pc \in {"ask", "answer"} /\ In(c, todo)) \/ Whole(c)

ListsInv == op.name = "list" => \A c \in quiet \cap silent : ListAt(c)

\* Other commands have no list.
LEMMA ElsewhereLists ==
    ASSUME ListsInv, UNCHANGED <<op, calls, answers, silent>>, quiet' \subseteq quiet,
           op.name = "list" => pc \notin {"ask", "answer"} /\ pc' \notin {"ask", "answer"}
    PROVE  ListsInv'
  BY DEF ListsInv, ListAt, Whole

\* A list that begins has read nothing.
LEMMA BegunLists ==
    ASSUME TypeInv, Begun PROVE ListsInv'
<1> SUFFICES ASSUME op'.name = "list", NEW d \in quiet' \cap silent' PROVE ListAt(d)'
  BY DEF ListsInv
<1>1. /\ d \in Cams /\ inq'[d] = <<>> /\ cur'[d] = NoCmd /\ outq'[d] = <<>> /\ answers'[d] = <<>>
      /\ pc' = "ask"
  BY DEF Begun
<1> QED
  BY <1>1 DEF ListAt, Empty, Idle, Whole

\* A script's step leaves a list under way: a batch is one less to send, and
\* the status is the last message.
LEMMA CameraList ==
    ASSUME TypeInv, NEW c \in Cams, CamRead(c) \/ CamItem(c) \/ CamGiveUp(c) \/ CamAnswer(c) \/ CamDies(c),
           Batches(c), Fresh(c)
    PROVE  Batches(c)'
<1>1. /\ UNCHANGED <<calls, answers>>
      /\ ReadAt(c) \/ ItemAt(c) \/ GiveUpAt(c) \/ AnswerAt(c) \/ DieAt(c)
  BY CameraEffect DEF host
<1>2. ~Idle(c)
  BY IdleStays
<1>3. FreshOut(c)' /\ \A k \in 1..Len(answers'[c]) : answers'[c][k].msg.call = calls'
  BY <1>1, CameraFresh DEF Batches
<1>4. /\ inq[c] \in Seq(CmdRec) /\ outq[c] \in Seq(MsgType) /\ Len(outq[c]) \in Nat
      /\ answers[c] \in Seq(AnswerType) /\ Len(answers[c]) \in Nat /\ ListLen \in Nat
  <2>1. answers[c] \in Seq(AnswerType)
    BY Parts DEF AnswersTyped
  <2> QED
    BY <2>1, QueueFacts, Constants, LenProperties
<1>5. ASSUME NEW t \in {"status", "fail", "item", "error"}, cur[c] # NoCmd
      PROVE  LET o == Append(outq[c], Msg(t, cur[c]))
             IN  /\ Len(o) = Len(outq[c]) + 1 /\ o[Len(outq[c]) + 1].type = t
                 /\ \A k \in 1..Len(outq[c]) : o[k] = outq[c][k]
                 /\ \A k \in 1..Len(o) : k \in 1..Len(outq[c]) \/ k = Len(outq[c]) + 1
  <2>1. Msg(t, cur[c]) \in MsgType /\ Msg(t, cur[c]).type = t
    BY <1>5, QueueFacts DEF Msg
  <2> DEFINE m == Msg(t, cur[c])
  <2> HIDE DEF m
  <2>2. /\ Len(Append(outq[c], m)) = Len(outq[c]) + 1 /\ Append(outq[c], m)[Len(outq[c]) + 1] = m
        /\ \A k \in 1..Len(outq[c]) : Append(outq[c], m)[k] = outq[c][k]
    BY <1>4, <2>1, AppendProperties DEF m
  <2>3. \A k \in 1..Len(Append(outq[c], m)) : k \in 1..Len(outq[c]) \/ k = Len(outq[c]) + 1
    BY <1>4, <2>2
  <2> QED
    BY <2>1, <2>2, <2>3 DEF m
<1>6. CASE /\ Len(inq[c]) = 1 /\ inq[c][1].name = "list" /\ inq[c][1].left = ListLen
           /\ cur[c] = NoCmd /\ outq[c] = <<>> /\ answers[c] = <<>>
  <2>1. ReadAt(c)
    BY <1>1, <1>6 DEF ItemAt, GiveUpAt, AnswerAt, DieAt, EndAt
  <2>2. Tail(inq[c]) = <<>> /\ inq[c][1] \in CmdRec
    <3>1. inq[c] # <<>>
      BY <2>1 DEF ReadAt
    <3>2. Tail(inq[c]) \in Seq(CmdRec) /\ Len(Tail(inq[c])) = 0 /\ inq[c][1] \in CmdRec
      BY <1>4, <1>6, <3>1, Popped
    <3> QED
      BY <3>2, EmptySeq
  <2>3. /\ inq'[c] = <<>> /\ cur'[c] # NoCmd /\ cur'[c].left = ListLen /\ outq'[c] = <<>> /\ answers'[c] = <<>>
    BY <1>1, <1>6, <2>1, <2>2, QueueFacts DEF ReadAt
  <2>4. Len(<<>>) = 0 /\ 0 + 0 + ListLen = ListLen
    BY <1>4
  <2> QED
    BY <1>3, <2>3, <2>4 DEF Batches
<1>7. CASE /\ inq[c] = <<>> /\ cur[c] # NoCmd
           /\ \A k \in 1..Len(outq[c]) : outq[c][k].type = "item"
           /\ cur[c].left >= 0 => Len(answers[c]) + Len(outq[c]) + cur[c].left = ListLen
  <2>1. cur[c] \in CmdRec /\ cur[c].left \in Int
    BY <1>7, QueueFacts
  <2>2. ASSUME ItemAt(c) PROVE Batches(c)'
    <3>1. /\ inq'[c] = <<>> /\ cur'[c] = [cur[c] EXCEPT !.left = cur[c].left - 1] /\ cur[c].left > 0
          /\ outq'[c] = Append(outq[c], Msg("item", cur[c]))
      BY <1>7, <2>2 DEF ItemAt
    <3>2. /\ cur'[c].left = cur[c].left - 1 /\ cur'[c] \in CmdRec
      <4>1. ASSUME NEW r \in CmdRec, r.left > 0
            PROVE  [r EXCEPT !.left = r.left - 1] \in CmdRec /\ [r EXCEPT !.left = r.left - 1].left = r.left - 1
        BY <4>1, Constants DEF CmdRec
      <4> QED
        BY <2>1, <3>1, <4>1
    <3>3. cur'[c] # NoCmd
      BY <1>4, <3>2, QueueFacts
    <3>4. \A k \in 1..Len(outq'[c]) : outq'[c][k].type = "item"
      BY <1>5, <1>7, <3>1
    <3>5. Len(answers'[c]) + Len(outq'[c]) + cur'[c].left = ListLen
      <4>1. Len(outq'[c]) = Len(outq[c]) + 1 /\ answers'[c] = answers[c]
        BY <1>1, <1>5, <1>7, <3>1
      <4>2. \A a, o \in Nat, l \in Int : l > 0 /\ (l >= 0 => a + o + l = ListLen) => a + (o + 1) + (l - 1) = ListLen
        OBVIOUS
      <4>3. Len(answers[c]) + (Len(outq[c]) + 1) + (cur[c].left - 1) = ListLen
        BY <1>4, <1>7, <2>1, <3>1, <4>2, Zenon
      <4>4. cur'[c].left = cur[c].left - 1
        BY <3>2
      <4> QED
        BY <4>1, <4>3, <4>4, Zenon
    <3> QED
      BY <1>3, <3>1, <3>3, <3>4, <3>5 DEF Batches
  <2>3. ASSUME GiveUpAt(c) PROVE Batches(c)'
    <3>1. inq'[c] = <<>> /\ cur'[c] = [cur[c] EXCEPT !.left = -1] /\ outq'[c] = outq[c]
      BY <1>7, <2>3 DEF GiveUpAt
    <3>2. cur'[c].left = -1 /\ cur'[c] \in CmdRec
      BY <2>1, <3>1, Constants DEF CmdRec
    <3>3. cur'[c] # NoCmd /\ ~(cur'[c].left >= 0)
      BY <3>2, QueueFacts
    <3> QED
      BY <1>3, <1>7, <3>1, <3>3 DEF Batches
  <2>4. ASSUME NEW t \in {"status", "fail", "error"}, EndAt(c, t),
               t = "status" => Len(answers[c]) + Len(outq[c]) = ListLen
        PROVE  Batches(c)'
    <3>1. Idle(c)'
      BY <1>7, <2>4 DEF EndAt, Idle
    <3>2. CASE outq'[c] = outq[c]
      BY <1>3, <1>7, <3>1, <3>2 DEF Batches
    <3>3. CASE outq'[c] = Append(outq[c], Msg(t, cur[c]))
      <4>1. /\ Len(outq'[c]) = Len(outq[c]) + 1 /\ outq'[c][Len(outq[c]) + 1].type = t
            /\ \A k \in 1..Len(outq'[c]) : k # Len(outq'[c]) => outq'[c][k].type = "item"
        BY <1>5, <1>7, <3>3
      <4>2. t = "status" => Len(answers'[c]) + Len(outq'[c]) = ListLen + 1
        <5>1. \A a, o \in Nat : a + o = ListLen => a + (o + 1) = ListLen + 1
          BY <1>4
        <5> QED
          BY <1>1, <1>4, <2>4, <4>1, <5>1, Zenon
      <4>3. ASSUME NEW k \in 1..Len(outq'[c])
            PROVE  /\ outq'[c][k].type # "item" => k = Len(outq'[c])
                   /\ outq'[c][k].type = "status" => Len(answers'[c]) + Len(outq'[c]) = ListLen + 1
        BY <4>1, <4>2
      <4> QED
        BY <1>3, <3>1, <4>3 DEF Batches
    <3> QED
      BY <2>4, <3>2, <3>3 DEF EndAt
  <2>5. CASE AnswerAt(c)
    <3> DEFINE t == IF cur[c].left < 0 THEN "fail" ELSE "status"
    <3>1. t \in {"status", "fail", "error"} /\ EndAt(c, t) /\ cur[c].left <= 0
      BY <2>5 DEF AnswerAt
    <3>2. t = "status" => Len(answers[c]) + Len(outq[c]) = ListLen
      <4>1. \A a, o \in Nat, l \in Int : l <= 0 /\ ~(l < 0) /\ (l >= 0 => a + o + l = ListLen) => a + o = ListLen
        OBVIOUS
      <4>2. t = "status" => ~(cur[c].left < 0)
        OBVIOUS
      <4> QED
        BY <1>4, <1>7, <2>1, <3>1, <4>1, <4>2, Zenon
    <3> HIDE DEF t
    <3> QED
      BY <2>4, <3>1, <3>2
  <2>6. CASE DieAt(c)
    <3>1. EndAt(c, "error")
      BY <2>6 DEF DieAt
    <3> QED
      BY <2>4, <3>1
  <2>7. ~ReadAt(c)
    BY <1>7 DEF ReadAt
  <2> QED
    BY <1>1, <2>2, <2>3, <2>5, <2>6, <2>7
<1> QED
  BY <1>2, <1>6, <1>7 DEF Batches

\* The script's steps keep the list of every camera that counts.
LEMMA CameraLists ==
    ASSUME TypeInv, StatusInv, ListsInv, Camera PROVE ListsInv'
<1>1. PICK c \in Cams : CamRead(c) \/ CamItem(c) \/ CamGiveUp(c) \/ CamAnswer(c) \/ CamDies(c)
  BY DEF Camera
<1>2. UNCHANGED <<host, calls, quiet, silent>> /\ Others(c)
  BY <1>1, CameraEffect
<1>3. SUFFICES ASSUME op.name = "list", NEW d \in quiet \cap silent PROVE ListAt(d)'
  BY <1>2 DEF ListsInv, host
<1>4. d \in Cams /\ ListAt(d) /\ Fresh(d)
  BY <1>3, Parts DEF ListsInv, CountsTyped, StatusInv, Own
<1>5. UNCHANGED <<pc, op, todo, selected, answers, complete, calls>>
  BY <1>2 DEF host
<1>6. Whole(d)' <=> Whole(d)
  BY <1>5 DEF Whole
<1>7. CASE d # c
  <2>1. inq'[d] = inq[d] /\ cur'[d] = cur[d] /\ outq'[d] = outq[d] /\ running'[d] = running[d]
    BY <1>2, <1>4, <1>7 DEF Others
  <2>2. (Batches(d)' <=> Batches(d)) /\ (Empty(d)' <=> Empty(d))
    BY <1>5, <2>1 DEF Idle, Batches, Empty, FreshOut
  <2> QED
    BY <1>4, <1>5, <1>6, <2>1, <2>2 DEF ListAt, Turn, In, Later
<1>8. CASE d = c
  <2>1. ~Idle(d) /\ ~Empty(d) /\ (Batches(d) => Batches(d)')
    BY <1>1, <1>4, <1>8, IdleStays, CameraList DEF Empty
  <2> QED
    BY <1>4, <1>5, <1>6, <2>1 DEF ListAt, Turn, In, Later
<1> QED
  BY <1>7, <1>8

\* The loop goes on to the next camera: the first is done, and has a whole list
\* or none, and the others are as they were.
LEMMA FirstList ==
    ASSUME TypeInv, NEW d \in Cams, pc \in {"ask", "answer"}, todo # <<>>, d = todo[1],
           Onward \/ Ended, Whole(d)'
    PROVE  ListAt(d)'
<1>1. ~Later(d)
  BY TodoFacts
<1>2. ~Later(d)' /\ ~Turn(d)'
  BY <1>1, OnwardFacts
<1> QED
  BY <1>2 DEF ListAt

\* What the loop does with its first camera leaves the lists of the others.
LEMMA LaterList ==
    ASSUME TypeInv, NEW d \in Cams, op.name = "list", pc \in {"ask", "answer"}, todo # <<>>, d # todo[1],
           ListAt(d), UNCHANGED calls,
           inq'[d] = inq[d], cur'[d] = cur[d], outq'[d] = outq[d], answers'[d] = answers[d],
           Onward \/ Ended \/ Stays
    PROVE  ListAt(d)'
<1>1. (Later(d) => Empty(d)' /\ answers'[d] = <<>>) /\ (Whole(d)' <=> Whole(d))
  BY DEF ListAt, Empty, Idle, Whole
<1>2. (In(d, todo) <=> Later(d)) /\ (Later(d) \/ Whole(d))
  <2>1. In(d, todo) <=> Later(d)
    BY TodoFacts
  <2> QED
    BY <2>1 DEF ListAt
<1>3. Later(d) => Whole(d)'
  BY <1>1 DEF Whole
<1>4. CASE Stays
  <2>1. todo' = todo /\ pc' \in {"ask", "answer"}
    BY <1>4 DEF Stays
  <2>2. ~Turn(d)' /\ (Later(d)' => Later(d))
    BY <2>1 DEF Turn, Later
  <2> QED
    BY <1>1, <1>2, <1>3, <2>1, <2>2 DEF ListAt
<1>5. CASE Onward \/ Ended
  <2>1. (Later(d)' => Later(d)) /\ (Turn(d)' => Later(d)) /\ pc' \in {"ask", "idle", "setid"}
    BY <1>5, OnwardFacts
  <2> QED
    BY <1>1, <1>2, <1>3, <2>1 DEF ListAt
<1> QED
  BY <1>4, <1>5

\* The list is asked for, and nothing is waiting before it.
LEMMA AskLists ==
    ASSUME TypeInv, ListsInv, Ask PROVE ListsInv'
<1>1. PICK c \in Cams :
         /\ c = todo[1] /\ pc = "ask" /\ todo # <<>>
         /\ UNCHANGED <<running, cid, cur, outq, known, op, answers, calls, silent>>
         /\ \/ WriteOk(c) /\ ~NoBase(c) /\ pc' = "answer" /\ UNCHANGED <<todo, complete, ret, selected, saved>>
            \/ WriteOk(c) /\ NoBase(c) /\ NextAsk
            \/ (WriteRefused(c) \/ WriteFails(c)) /\ Caught
  BY AskEffect
<1>2. WriteOk(c) \/ WriteRefused(c) \/ WriteFails(c)
  BY <1>1
<1>3. /\ \A d \in Cams : d # c => inq'[d] = inq[d]
      /\ quiet' \subseteq quiet
  BY <1>1, <1>2, WriteEffect
<1> SUFFICES ASSUME op.name = "list", NEW d \in quiet \cap silent PROVE ListAt(d)'
  BY <1>1, <1>3 DEF ListsInv
<1>4. d \in Cams /\ ListAt(d)
  BY Parts DEF ListsInv, CountsTyped
<1>5. /\ (WriteRefused(c) \/ WriteFails(c)) /\ Caught => Onward \/ Ended
      /\ ~NoBase(c)
  <2>1. Again \/ Onward \/ Ended => Onward \/ Ended
    BY DEF Again
  <2> QED
    BY <1>1, <2>1, LoopWays DEF NoBase
<1>6. CASE d # c
  <2>1. UNCHANGED <<cur, outq, answers, op, calls>> /\ inq'[d] = inq[d] /\ (Onward \/ Ended \/ Stays)
    BY <1>1, <1>3, <1>4, <1>5, <1>6 DEF Stays
  <2> QED
    BY <1>1, <1>4, <1>6, <2>1, LaterList
<1>7. CASE d = c
  <2>1. Empty(d) /\ answers[d] = <<>> /\ ~Later(d)
    BY <1>1, <1>4, <1>7, TodoFacts DEF ListAt, Turn
  <2>2. CASE WriteOk(c) /\ pc' = "answer" /\ UNCHANGED <<todo, complete, ret, selected, saved>>
    <3> DEFINE m == Cmd(op.name, Arg, calls)
    <3>1. m.name = "list" /\ m.left = ListLen
      BY DEF Cmd
    <3>2. inq' = [inq EXCEPT ![c] = Append(inq[c], m)]
      BY <2>2 DEF WriteOk, Queued
    <3> HIDE DEF m
    <3>3. inq'[d] = Append(<<>>, m)
      BY <1>7, <2>1, <3>2, Parts DEF QueuesTyped, Empty, Idle
    <3>4. Len(Append(<<>>, m)) = 1 /\ Append(<<>>, m)[1] = m /\ Len(<<>>) = 0
      OBVIOUS
    <3>5. Batches(d)'
      BY <1>1, <2>1, <3>1, <3>3, <3>4 DEF Batches, Empty, Idle, FreshOut
    <3>6. ~Later(d)' /\ In(d, todo)'
      <4>1. In(d, todo)
        BY <1>1, <1>7, TodoFacts
      <4> QED
        BY <2>1, <2>2, <4>1 DEF Later, In
    <3> QED
      BY <2>2, <3>5, <3>6 DEF ListAt
  <2>3. CASE Onward \/ Ended
    <3>1. Whole(d)'
      BY <1>1, <2>1 DEF Whole
    <3> QED
      BY <1>1, <1>4, <1>7, <2>3, <3>1, FirstList
  <2> QED
    BY <1>1, <1>5, <2>2, <2>3
<1> QED
  BY <1>6, <1>7

\* What a throw leaves of the lists.
LEMMA ThrownLists ==
    ASSUME op.name = "list", Thrown, quiet' \subseteq Cams PROVE ListsInv'
<1>1. (\A c \in Cams : answers'[c] = <<>>) /\ pc' = "idle" /\ answers' = [c \in Cams |-> <<>>]
  BY DEF Thrown, Throw
<1> SUFFICES ASSUME NEW d \in quiet' \cap silent' PROVE ListAt(d)'
  BY DEF ListsInv
<1> QED
  BY <1>1 DEF ListAt, Whole

\* A batch that is read leaves the others, and the status ends the list.
LEMMA ReadBatch ==
    ASSUME TypeInv, NEW d \in Cams, pc = "answer", Batches(d), outq[d] # <<>>, outq'[d] = Tail(outq[d]),
           UNCHANGED <<calls, inq, cur>>, Keep(d, outq[d][1])
    PROVE  /\ outq[d][1].type = "item" => Batches(d)'
           /\ outq[d][1].type = "status" => Whole(d)'
<1> DEFINE m == outq[d][1]
           a == Len(answers[d])
           o == Len(outq[d])
<1>1. outq[d] \in Seq(MsgType)
  BY QueueFacts
<1>2. /\ o \in Nat \ {0} /\ Len(Tail(outq[d])) = o - 1 /\ m \in MsgType
      /\ \A k \in 1..Len(Tail(outq[d])) : Tail(outq[d])[k] = outq[d][k + 1]
  BY <1>1, Popped
<1>3. /\ Len(answers'[d]) = a + 1 /\ a \in Nat
      /\ \A k \in 1..a : answers'[d][k] = answers[d][k]
      /\ answers'[d][a + 1] = [msg |-> m, want |-> complete]
  BY <1>2, KeepEffect
<1>4. m.call = calls
  BY <1>1, TailCalls DEF Batches, FreshOut
<1>5. FreshOut(d)'
  BY <1>1, TailCalls DEF Batches, FreshOut
<1>6. \A k \in 1..Len(answers'[d]) : answers'[d][k].msg.call = calls'
  <2>1. \A k \in 1..Len(answers'[d]) : k \in 1..a \/ k = a + 1
    BY <1>3
  <2>2. \A k \in 1..a : answers[d][k].msg.call = calls
    BY DEF Batches
  <2> QED
    BY <1>3, <1>4, <2>1, <2>2
<1>7. 1 \in 1..o /\ \A k \in 1..Len(Tail(outq[d])) : k + 1 \in 1..o
  BY <1>2
<1>8. ListLen \in Nat
  BY Constants
<1>9. CASE /\ inq[d] = <<>> /\ cur[d] # NoCmd
           /\ \A k \in 1..Len(outq[d]) : outq[d][k].type = "item"
           /\ cur[d].left >= 0 => Len(answers[d]) + Len(outq[d]) + cur[d].left = ListLen
  <2>1. m.type = "item" /\ \A k \in 1..Len(outq'[d]) : outq'[d][k].type = "item"
    BY <1>2, <1>7, <1>9
  <2>2. cur[d].left >= 0 => Len(answers'[d]) + Len(outq'[d]) + cur[d].left = ListLen
    <3>1. cur[d].left \in Int
      BY <1>9, QueueFacts
    <3>2. \A x, y \in Nat, l \in Int : x + y + l = ListLen => (x + 1) + (y - 1) + l = ListLen
      BY <1>8
    <3>3. Len(outq'[d]) = o - 1
      BY <1>2
    <3>4. cur[d].left >= 0 => (a + 1) + (o - 1) + cur[d].left = ListLen
      BY <1>2, <1>3, <1>9, <3>1, <3>2
    <3> QED
      BY <1>3, <3>3, <3>4, Zenon
  <2>3. Batches(d)'
    BY <1>5, <1>6, <1>9, <2>1, <2>2 DEF Batches
  <2> QED
    BY <2>1, <2>3
<1>10. CASE /\ Idle(d)
            /\ \A k \in 1..Len(outq[d]) :
                  /\ outq[d][k].type # "item" => k = Len(outq[d])
                  /\ outq[d][k].type = "status" => Len(answers[d]) + Len(outq[d]) = ListLen + 1
  <2>1. ASSUME NEW k \in 1..Len(outq'[d])
        PROVE  /\ outq'[d][k].type # "item" => k = Len(outq'[d])
               /\ outq'[d][k].type = "status" => Len(answers'[d]) + Len(outq'[d]) = ListLen + 1
    <3>1. /\ Len(outq'[d]) = o - 1 /\ k \in 1..Len(Tail(outq[d])) /\ k + 1 \in 1..o
          /\ outq'[d][k] = outq[d][k + 1]
      BY <1>2, <1>7
    <3>2. /\ outq[d][k + 1].type # "item" => k + 1 = o
          /\ outq[d][k + 1].type = "status" => a + o = ListLen + 1
      BY <1>10, <3>1
    <3>3. k + 1 = o => k = o - 1
      BY <1>2, <3>1
    <3>4. a + o = ListLen + 1 => (a + 1) + (o - 1) = ListLen + 1
      <4>1. \A x, y \in Nat : x + y = ListLen + 1 => (x + 1) + (y - 1) = ListLen + 1
        BY <1>8
      <4>2. a \in Nat /\ o \in Nat
        BY <1>2, <1>3
      <4> HIDE DEF a, o
      <4> QED
        BY <4>1, <4>2, Zenon
    <3> QED
      BY <1>3, <3>1, <3>2, <3>3, <3>4, Zenon
  <2>2. Idle(d)'
    BY <1>10 DEF Idle
  <2>3. Batches(d)'
    BY <1>5, <1>6, <2>1, <2>2 DEF Batches
  <2>4. m.type = "status" => Whole(d)'
    <3>1. m.type = "status" => 1 = o /\ a + o = ListLen + 1
      BY <1>7, <1>10
    <3>2. 1 = o /\ a + o = ListLen + 1 => a + 1 = ListLen + 1
      BY <1>3
    <3>3. m.type = "status" => Len(answers'[d]) = ListLen + 1
      BY <1>3, <3>1, <3>2, Zenon
    <3> QED
      BY <1>6, <3>3 DEF Whole
  <2> QED
    BY <2>3, <2>4
<1>11. ~(/\ Len(inq[d]) = 1 /\ inq[d][1].name = "list" /\ inq[d][1].left = ListLen
         /\ cur[d] = NoCmd /\ outq[d] = <<>> /\ answers[d] = <<>>)
  OBVIOUS
<1> QED
  BY <1>9, <1>10, <1>11 DEF Batches

\* Reading keeps the list of every camera that counts.
LEMMA AnswerLists ==
    ASSUME TypeInv, ListsInv, Answer PROVE ListsInv'
<1>1. PICK c \in Cams :
         /\ c = todo[1] /\ pc = "answer" /\ todo # <<>> /\ AnswerWays(c)
         /\ UNCHANGED <<running, cid, inq, cur, known, op, calls, silent>>
         /\ \A d \in Cams : d # c => outq'[d] = outq[d]
  BY AnswerEffect
<1>2. quiet' \subseteq quiet /\ quiet' \subseteq Cams
  BY <1>1, Parts DEF AnswerWays, CountsTyped
<1> SUFFICES ASSUME op.name = "list" PROVE ListsInv'
  BY <1>1 DEF ListsInv
<1>3. CASE Thrown
  BY <1>2, <1>3, ThrownLists
<1>4. CASE outq[c] # <<>> /\ outq'[c] = Tail(outq[c]) /\ outq[c][1].type # "error" /\ TakenWays(c, outq[c][1])
  <2> SUFFICES ASSUME NEW d \in quiet \cap silent PROVE ListAt(d)'
    BY <1>1, <1>2 DEF ListsInv
  <2>1. d \in Cams /\ ListAt(d)
    BY Parts DEF ListsInv, CountsTyped
  <2>2. outq[c][1] \in MsgType /\ answers \in [Cams -> Seq(AnswerType)]
    BY <1>1, <1>4, ReadOne, Parts DEF AnswersTyped
  <2>3. CASE d # c
    <3>1. /\ answers'[d] = answers[d] /\ inq'[d] = inq[d] /\ cur'[d] = cur[d] /\ outq'[d] = outq[d]
          /\ Onward \/ Ended \/ Stays
      BY <1>1, <1>4, <2>1, <2>2, <2>3, KeepEffect DEF TakenWays
    <3> QED
      BY <1>1, <2>1, <2>3, <3>1, LaterList
  <2>4. CASE d = c
    <3>1. Batches(d) /\ ~Later(d) /\ In(d, todo)
      BY <1>1, <2>1, <2>4, TodoFacts DEF ListAt, Turn
    <3>2. CASE outq[c][1].type = "item" /\ Keep(c, outq[c][1]) /\ Stays /\ pc' = pc
      <4>1. Batches(d)'
        BY <1>1, <1>4, <2>1, <2>4, <3>1, <3>2, ReadBatch
      <4>2. ~Later(d)' /\ In(d, todo)'
        BY <3>1, <3>2 DEF Stays, Later, In
      <4> QED
        BY <1>1, <3>2, <4>1, <4>2 DEF ListAt
    <3>3. CASE outq[c][1].type = "fail" /\ answers' = [answers EXCEPT ![c] = <<>>] /\ (Onward \/ Ended)
      <4>1. Whole(d)'
        BY <2>1, <2>2, <2>4, <3>3 DEF Whole
      <4> QED
        BY <1>1, <2>1, <2>4, <3>3, <4>1, FirstList
    <3>4. CASE outq[c][1].type \notin {"item", "fail"} /\ Keep(c, outq[c][1]) /\ (Onward \/ Ended)
      <4>1. outq[c][1].type = "status"
        BY <1>4, <2>2, <3>4 DEF MsgType
      <4>2. Whole(d)'
        BY <1>1, <1>4, <2>1, <2>4, <3>1, <3>4, <4>1, ReadBatch
      <4> QED
        BY <1>1, <2>1, <2>4, <3>4, <4>2, FirstList
    <3> QED
      BY <1>4, <3>2, <3>3, <3>4 DEF TakenWays
  <2> QED
    BY <2>3, <2>4
<1> QED
  BY <1>1, <1>3, <1>4 DEF AnswerWays

\* Every step keeps ListsInv.
LEMMA ListsNext == TypeInv /\ StatusInv /\ ListsInv /\ [Next]_vars => ListsInv'
<1> SUFFICES ASSUME TypeInv, StatusInv, ListsInv, [Next]_vars PROVE ListsInv'
  OBVIOUS
<1>1. CASE UNCHANGED vars
  <2>1. UNCHANGED <<inq, outq, cur, op, pc, todo, answers, calls, quiet, silent>>
    BY <1>1 DEF vars, cameras, host, history
  <2>2. ASSUME NEW c, ListAt(c) PROVE ListAt(c)'
    <3>1. (Empty(c) => Empty(c)') /\ (Turn(c)' => Turn(c)) /\ (Later(c)' => Later(c)) /\ (In(c, todo) => In(c, todo'))
      BY <2>1 DEF Empty, Idle, Turn, Later, In
    <3>2. Whole(c) => Whole(c)'
      BY <2>1 DEF Whole
    <3>3. Batches(c) => Batches(c)'
      BY <2>1 DEF Batches, FreshOut, Idle
    <3> QED
      BY <2>1, <2>2, <3>1, <3>2, <3>3 DEF ListAt
  <2> QED
    BY <2>1, <2>2 DEF ListsInv
<1>2. CASE Command \/ ImgList \/ InitSync
  BY <1>2, SendingBegun, BegunLists
<1>3. CASE SetId \/ Select \/ Start
  <2>1. quiet' = {}
    BY <1>3 DEF SetId, Select, Start, NoCommand
  <2> QED
    BY <2>1 DEF ListsInv
<1>4. CASE SetIdCam /\ running[jobs[1].cam]
  BY <1>4, SetIdBegun, BegunLists
<1>5. CASE StartOne \/ StartStop \/ StartExec
  <2>1. quiet' = {}
    BY <1>5 DEF StartOne, StartStop, StartExec, StatusInv, NoneQuiet, history
  <2> QED
    BY <2>1 DEF ListsInv
<1>6. CASE Send
  BY <1>6, SendEffect, WriteEffect, ElsewhereLists, Parts DEF Commanding
<1>7. CASE Poll
  BY <1>7, PollEffect, ElsewhereLists, Parts DEF Commanding, PollAt
<1>8. CASE RoundEnd \/ WaitTimeout
  BY <1>8, RoundEffect, ElsewhereLists, Parts DEF Commanding, history
<1>9. CASE FlushFails \/ SetIdFails \/ SetIdDone \/ (SetIdCam /\ ~running[jobs[1].cam])
  <2>1. UNCHANGED <<op, calls, answers, quiet, silent>> /\ pc \in {"flush", "setid"} /\ pc' \in {"idle", "setid"}
    BY <1>9, JobFacts DEF FlushFails, SetIdFails, SetIdDone, SetIdCam, Throw, history
  <2> QED
    BY <2>1, ElsewhereLists
<1>10. CASE Flush
  <2>1. UNCHANGED <<op, calls, answers, quiet, silent>> /\ op.name # "list"
    BY <1>10, Parts DEF Flush, history, Commanding
  <2> QED
    BY <2>1, ElsewhereLists
<1>11. CASE AnswerTimeout
  <2>1. UNCHANGED <<op, quiet>> /\ Thrown /\ quiet \subseteq Cams
    BY <1>11, Parts DEF AnswerTimeout, history, CountsTyped
  <2> QED
    BY <2>1, ThrownLists DEF ListsInv
<1> QED
  BY <1>1, <1>2, <1>3, <1>4, <1>5, <1>6, <1>7, <1>8, <1>9, <1>10, <1>11, CameraLists, AskLists, AnswerLists
     DEF Next, Call, HostStep

\* ListsInv holds in every state of every behaviour.
LEMMA ListsAlways == Spec => []ListsInv
<1>1. Init => ListsInv
  BY DEF Init, ListsInv, NoOp
<1>2. TypeInv /\ StatusInv /\ ListsInv /\ [Next]_vars => ListsInv'
  BY ListsNext
<1> QED
  BY <1>1, <1>2, TypedAlways, StatusAlways, PTL DEF Spec

-----------------------------------------------------------------------------
\* The answers that are counted.  A result that is there is of the camera that
\* has its id; and a round that has counted all cameras so far has found all of
\* them to have answered or failed.
Made ==
    pc \in {"flush", "send", "wait"} \/ ret = "all" =>
        \A i \in Ids : results[i].done /\ ~results[i].failed =>
            \E c \in Cams : mc_id[c] = i /\ results[i].from = <<c>>

Round ==
    pc = "wait" =>
        /\ Len(todo) <= Len(selected) /\ complete <= Len(selected) - Len(todo)
        /\ \A k \in 1..Len(todo) : todo[k] = selected[Len(selected) - Len(todo) + k]
        /\ complete = Len(selected) - Len(todo) => \A k \in 1..complete : Counted(mc_id[selected[k]])

AllCounted == ret = "all" => \A k \in 1..Len(selected) : Counted(mc_id[selected[k]])

CountInv == Made /\ Round /\ AllCounted

\* The steps that neither wait nor end a wait.
LEMMA ElsewhereCount == pc' \notin {"flush", "send", "wait"} /\ ret' # "all" => CountInv'
  BY DEF CountInv, Made, Round, AllCounted

\* The first of the loop is the selected camera after those of this round.
LEMMA SendCount ==
    ASSUME TypeInv, CountInv, Send PROVE CountInv'
<1>1. /\ pc = "send" /\ todo # <<>> /\ SendWays
      /\ UNCHANGED <<mc_id, results, complete>>
  BY SendEffect
<1>2. ret = "none" /\ complete = 0 /\ selected \in Seq(Cams)
  BY <1>1, Parts DEF Commanding, Counting, HostTyped
<1>3. pc' = "wait" \/ pc' = "send" => Made'
  BY <1>1 DEF CountInv, Made
<1>4. CASE pc' = "send" /\ ret' = "none"
  BY <1>3, <1>4 DEF CountInv, Round, AllCounted
<1>5. CASE todo' = selected /\ pc' = "wait" /\ UNCHANGED <<ret, selected, saved>>
  <2>1. /\ Len(todo') <= Len(selected') /\ complete' <= Len(selected') - Len(todo') /\ complete' = 0
        /\ \A k \in 1..Len(todo') : todo'[k] = selected'[Len(selected') - Len(todo') + k]
    <3>1. Len(selected) \in Nat
      BY <1>2, LenProperties
    <3>2. \A n \in Nat : n <= n /\ 0 <= n - n /\ \A k \in 1..n : n - n + k = k
      OBVIOUS
    <3> QED
      BY <1>1, <1>2, <1>5, <3>1, <3>2
  <2>2. Round'
    <3>1. \A k \in 1..complete' : FALSE
      BY <2>1
    <3> QED
      BY <2>1, <3>1 DEF Round
  <2> QED
    BY <1>2, <1>3, <1>5, <2>2 DEF CountInv, AllCounted
<1>6. CASE Return("over")
  BY <1>1, <1>6, ReturnEffect, ElsewhereCount
<1> QED
  BY <1>1, <1>2, <1>4, <1>5, <1>6 DEF SendWays

\* A camera is counted when its result is there.
LEMMA PollCount ==
    ASSUME TypeInv, CountInv, Poll PROVE CountInv'
<1> DEFINE c == todo[1]
           i == mc_id[c]
<1>1. pc = "wait" /\ todo # <<>> /\ c \in Cams /\ i \in Ids /\ PollAt(c, i)
  BY PollEffect
<1>2. /\ UNCHANGED <<mc_id, selected, pc, ret>> /\ todo' = Tail(todo)
      /\ \A j \in Ids : j # i => results'[j] = results[j]
  BY <1>1 DEF PollAt
<1>3. ret = "none" /\ selected \in Seq(Cams) /\ complete \in Nat /\ Len(selected) \in Nat
  BY <1>1, Parts, LenProperties DEF Commanding, HostTyped, AnswersTyped
<1>4. Made'
  <2>1. ASSUME results'[i].done, ~results'[i].failed
        PROVE  \E d \in Cams : mc_id[d] = i /\ results'[i].from = <<d>>
    <3>1. CASE results' = results
      BY <1>1, <2>1, <3>1 DEF CountInv, Made
    <3>2. CASE ResultOf(c, outq[c][1], results'[i])
      BY <1>1, <2>1, <3>2 DEF ResultOf
    <3> QED
      BY <1>1, <2>1, <3>1, <3>2 DEF PollAt
  <2>2. ASSUME NEW j \in Ids, results'[j].done, ~results'[j].failed
        PROVE  \E d \in Cams : mc_id[d] = j /\ results'[j].from = <<d>>
    <3>1. CASE j = i
      BY <2>1, <2>2, <3>1
    <3>2. CASE j # i
      BY <1>1, <1>2, <2>2, <3>2 DEF CountInv, Made
    <3> QED
      BY <3>1, <3>2
  <2> QED
    BY <1>2, <2>2 DEF Made
<1>5. Round'
  <2>1. PICK n \in Nat, l \in Nat : n = Len(selected) /\ l = Len(Tail(todo)) /\ Len(todo) = l + 1
    <3>1. Len(todo) \in Nat \ {0} /\ Len(Tail(todo)) = Len(todo) - 1
      BY <1>1, TodoFacts
    <3>2. PICK m \in Nat \ {0} : m = Len(todo)
      BY <3>1
    <3>3. m - 1 \in Nat /\ m = (m - 1) + 1
      OBVIOUS
    <3> QED
      BY <1>3, <3>1, <3>2, <3>3
  <2>2. /\ l + 1 <= n /\ complete <= n - (l + 1)
        /\ \A k \in 1..(l + 1) : todo[k] = selected[n - (l + 1) + k]
        /\ complete = n - (l + 1) => \A k \in 1..complete : Counted(mc_id[selected[k]])
    BY <1>1, <2>1 DEF CountInv, Round
  <2>3. complete' = complete \/ (complete' = complete + 1 /\ Counted(i) /\ results' = results)
    BY <1>1 DEF PollAt
  <2>4. l <= n /\ complete' <= n - l
    BY <1>3, <2>2, <2>3
  <2>5. \A k \in 1..l : Tail(todo)[k] = selected[n - l + k]
    <3>1. \A k \in 1..l : Tail(todo)[k] = todo[k + 1]
      BY <1>1, <2>1, TodoFacts
    <3>2. \A k \in 1..l : k + 1 \in 1..(l + 1) /\ n - (l + 1) + (k + 1) = n - l + k
      OBVIOUS
    <3> QED
      BY <2>2, <3>1, <3>2
  <2>6. ASSUME complete' = n - l, NEW k \in 1..complete'
        PROVE  Counted(mc_id[selected[k]])'
    <3>1. complete = n - (l + 1) /\ complete' = complete + 1 /\ Counted(i) /\ results' = results
      BY <1>3, <2>2, <2>3, <2>6
    <3>2. selected[complete + 1] = c
      <4>1. 1 \in 1..(l + 1) /\ n - (l + 1) + 1 = complete + 1
        BY <3>1
      <4> QED
        BY <2>2, <4>1
    <3>3. k \in 1..complete \/ k = complete + 1
      BY <1>3, <3>1
    <3>4. Counted(mc_id[selected[k]])
      BY <2>2, <3>1, <3>2, <3>3
    <3> QED
      BY <1>2, <3>1, <3>4 DEF Counted
  <2> QED
    BY <1>2, <2>1, <2>4, <2>5, <2>6 DEF Round
<1>6. AllCounted'
  BY <1>2, <1>3 DEF AllCounted
<1> QED
  BY <1>4, <1>5, <1>6 DEF CountInv

\* The wait that is over has counted all of them.
LEMMA RoundCount ==
    ASSUME TypeInv, CountInv, RoundEnd \/ WaitTimeout PROVE CountInv'
<1>1. /\ pc = "wait" /\ todo = <<>> /\ complete' = 0 /\ RoundWays /\ mc_id' = mc_id
  BY RoundEffect
<1>2. ret = "none" /\ selected \in Seq(Cams) /\ Len(selected) \in Nat /\ Len(<<>>) = 0
  BY <1>1, Parts, LenProperties DEF Commanding, HostTyped
<1>3. CASE complete = Len(selected) /\ todo' = todo /\ results' = results /\ Return("all")
  <2>1. \A k \in 1..Len(selected) : Counted(mc_id[selected[k]])
    BY <1>1, <1>2, <1>3 DEF CountInv, Round
  <2>2. (pc' = "idle" /\ selected' = selected) \/ (pc' = "setid" /\ ret' = "none")
    BY <1>1, <1>3, ReturnEffect
  <2>3. CASE pc' = "idle" /\ selected' = selected
    <3>1. AllCounted'
      BY <1>1, <1>3, <2>1, <2>3 DEF AllCounted, Counted
    <3>2. Made'
      BY <1>1, <1>3 DEF CountInv, Made
    <3> QED
      BY <2>3, <3>1, <3>2 DEF CountInv, Round
  <2>4. CASE pc' = "setid" /\ ret' = "none"
    BY <2>4, ElsewhereCount
  <2> QED
    BY <2>2, <2>3, <2>4
<1>4. CASE todo' = selected /\ results' = results /\ UNCHANGED <<pc, ret, selected, saved>>
  <2>1. Made' /\ AllCounted'
    BY <1>1, <1>2, <1>4 DEF CountInv, Made, AllCounted
  <2>2. /\ Len(selected) <= Len(selected) /\ 0 <= Len(selected) - Len(selected)
        /\ \A k \in 1..Len(selected) : selected[k] = selected[Len(selected) - Len(selected) + k]
        /\ \A k \in 1..0 : FALSE
    <3>1. \A n \in Nat : n <= n /\ 0 <= n - n /\ \A k \in 1..n : n - n + k = k
      OBVIOUS
    <3> QED
      BY <1>2, <3>1
  <2>3. Round'
    BY <1>1, <1>4, <2>2 DEF Round
  <2> QED
    BY <2>1, <2>3 DEF CountInv
<1>5. CASE Return("timeout")
  BY <1>1, <1>5, ReturnEffect, ElsewhereCount
<1> QED
  BY <1>1, <1>3, <1>4, <1>5 DEF RoundWays

\* The loops of imglist and init_sync have no round, and return no true.
LEMMA LoopCount ==
    ASSUME TypeInv, pc \in {"ask", "answer"}, Again \/ Onward \/ Ended \/ Stays \/ Throw PROVE CountInv'
<1>1. ret = "none"
  BY Parts DEF Commanding
<1>2. pc' \in {"ask", "answer", "idle", "setid"}
  BY LoopPlace
<1>3. ret' # "all"
  BY <1>1, ReturnEffect DEF Again, Onward, Ended, Stays, Throw
<1> QED
  BY <1>2, <1>3, ElsewhereCount

\* Every step keeps CountInv.
LEMMA CountNext == TypeInv /\ CountInv /\ [Next]_vars => CountInv'
<1> SUFFICES ASSUME TypeInv, CountInv, [Next]_vars PROVE CountInv'
  OBVIOUS
<1>1. CASE UNCHANGED <<host>>
  BY <1>1 DEF host, CountInv, Made, Round, AllCounted, Counted
<1>2. UNCHANGED vars \/ Camera => UNCHANGED host
  BY CameraEffect DEF vars, Camera
<1>3. CASE Begun
  <2>1. Made' /\ Round' /\ AllCounted'
    BY <1>3 DEF Begun, Made, Round, AllCounted
  <2> QED
    BY <2>1 DEF CountInv
<1>4. Command \/ ImgList \/ InitSync => Begun
  BY SendingBegun
<1>5. CASE SetId \/ Select \/ Start
  BY <1>5, ElsewhereCount DEF SetId, Select, Start
<1>6. CASE Flush
  <2>1. pc = "flush" /\ UNCHANGED <<mc_id, results, ret>> /\ pc' # "wait" /\ ret = "none"
    BY <1>6, Parts DEF Flush, AfterFlush, Commanding
  <2> QED
    BY <2>1 DEF CountInv, Made, Round, AllCounted
<1>7. CASE Ask
  <2>1. pc = "ask" /\ (Again \/ Onward \/ Ended \/ Stays)
    BY <1>7, AskEffect, LoopWays DEF Stays
  <2> QED
    BY <2>1, LoopCount
<1>8. CASE Answer \/ AnswerTimeout
  <2>1. pc = "answer" /\ (Again \/ Onward \/ Ended \/ Stays \/ Throw)
    <3>1. pc = "answer" /\ todo # <<>> /\ Thrown => Throw \/ Again \/ Onward \/ Ended
      BY ThrownEffect, LoopWays, Parts DEF Commanding
    <3>2. CASE Answer
      BY <3>1, <3>2, AnswerEffect DEF AnswerWays, TakenWays
    <3>3. CASE AnswerTimeout
      BY <3>1, <3>3 DEF AnswerTimeout
    <3> QED
      BY <1>8, <3>2, <3>3
  <2> QED
    BY <2>1, LoopCount
<1>9. CASE FlushFails \/ SetIdFails \/ SetIdDone \/ (SetIdCam /\ ~running[jobs[1].cam])
  <2>1. pc' \in {"idle", "setid"} /\ ret' # "all"
    <3>1. CASE FlushFails \/ SetIdFails \/ SetIdDone
      BY <3>1 DEF FlushFails, SetIdFails, SetIdDone, Throw
    <3>2. CASE SetIdCam /\ ~running[jobs[1].cam]
      <4>1. pc = "setid" /\ UNCHANGED <<pc, ret>>
        BY <3>2, JobFacts DEF SetIdCam
      <4> QED
        BY <4>1, Parts DEF Commanding
    <3> QED
      BY <1>9, <3>1, <3>2
  <2> QED
    BY <2>1, ElsewhereCount
<1>10. SetIdCam /\ running[jobs[1].cam] => Begun
  BY SetIdBegun
<1>11. CASE StartOne \/ StartStop \/ StartExec
  <2>1. pc \in {"start", "stop", "exec"} /\ (NextStart \/ (pc' \in {"exec", "stop"} /\ UNCHANGED <<todo, ret>>))
    BY <1>11 DEF StartOne, StartStop, StartExec
  <2>2. ret = "none"
    BY <2>1, Parts DEF Commanding
  <2> QED
    BY <2>1, <2>2, ElsewhereCount DEF NextStart
<1> QED
  BY <1>1, <1>2, <1>3, <1>4, <1>5, <1>6, <1>7, <1>8, <1>9, <1>10, <1>11, SendCount, PollCount, RoundCount
     DEF Next, Call, HostStep

\* CountInv holds in every state of every behaviour.
LEMMA CountAlways == Spec => []CountInv
<1>1. Init => CountInv
  BY DEF Init, CountInv, Made, Round, AllCounted
<1>2. TypeInv /\ CountInv /\ [Next]_vars => CountInv'
  BY CountNext
<1> QED
  BY <1>1, <1>2, TypedAlways, PTL DEF Spec

\* A wait returns true only when each selected camera has answered or failed,
\* and imglist returns the whole list of a camera that had nothing to do and
\* no message waiting when it was called.
THEOREM MulticamAnswersComplete == Spec => []AnswersComplete
<1>1. TypeInv /\ CountInv /\ ListsInv => AnswersComplete
  <2> SUFFICES ASSUME TypeInv, CountInv, ListsInv PROVE AnswersComplete
    OBVIOUS
  <2>1. /\ selected \in Seq(Cams) /\ todo \in Seq(Cams) /\ mc_id \in [Cams -> Ids]
        /\ results \in [Ids -> ResultType] /\ answers \in [Cams -> Seq(AnswerType)] /\ quiet \subseteq Cams
    BY Parts DEF HostTyped, AnswersTyped, CountsTyped
  <2>2. AllAnswered
    <3> SUFFICES ASSUME ret = "all", IsInjective(mc_id), NEW c \in ToSet(selected)
                 PROVE  results[mc_id[c]].failed \/ results[mc_id[c]].from = <<c>>
      BY DEF AllAnswered
    <3>1. PICK k \in 1..Len(selected) : c = selected[k]
      BY <2>1, LenProperties DEF ToSet
    <3>2. c \in Cams /\ mc_id[c] \in Ids
      BY <2>1, <3>1, ElementOfSeq
    <3>3. results[mc_id[c]].failed \/ results[mc_id[c]].done
      BY <3>1 DEF CountInv, AllCounted, Counted
    <3>4. results[mc_id[c]].done /\ ~results[mc_id[c]].failed =>
              \E d \in Cams : mc_id[d] = mc_id[c] /\ results[mc_id[c]].from = <<d>>
      BY <3>2 DEF CountInv, Made
    <3>5. \A d \in Cams : mc_id[d] = mc_id[c] => d = c
      BY <2>1, <3>2 DEF IsInjective
    <3> QED
      BY <3>3, <3>4, <3>5
  <2>3. ListComplete
    <3> SUFFICES ASSUME NEW c \in quiet \cap silent, op.name = "list", answers[c] # <<>>, c \notin ToSet(todo)
                 PROVE  Len(answers[c]) = ListLen + 1 /\ \A k \in DOMAIN answers[c] : answers[c][k].msg.call = calls
      BY DEF ListComplete, Complete
    <3>1. ~In(c, todo)
      BY <2>1, LenProperties DEF In, ToSet
    <3>2. Whole(c)
      BY <3>1 DEF ListsInv, ListAt
    <3>3. DOMAIN answers[c] = 1..Len(answers[c])
      BY <2>1, LenProperties
    <3> QED
      BY <3>2, <3>3 DEF Whole
  <2> QED
    BY <2>2, <2>3 DEF AnswersComplete
<1> QED
  BY <1>1, TypedAlways, CountAlways, ListsAlways, PTL

-----------------------------------------------------------------------------
\* The ids.  As long as nothing fails, the connections have different ids when
\* those that set_id has left to give are given.
Given(f, j) == [f EXCEPT ![j.cam] = j.id]
OneToOne(f) == \A c, d \in Cams : f[c] = f[d] => c = d

IdInv ==
    faults = 0 =>
        /\ Len(jobs) <= 2
        /\ Len(jobs) = 0 => OneToOne(mc_id)
        /\ Len(jobs) = 1 => OneToOne(Given(mc_id, jobs[1]))
        /\ Len(jobs) = 2 => OneToOne(Given(Given(mc_id, jobs[1]), jobs[2]))

\* Two cameras exchange their ids, or one gets an id that none has.
LEMMA GivenFacts ==
    ASSUME NEW f \in [Cams -> Ids], OneToOne(f), NEW c \in Cams, NEW d \in Cams, NEW i \in Ids
    PROVE  /\ (\A e \in Cams : f[e] # i) => OneToOne(Given(f, [cam |-> c, id |-> i]))
           /\ f[d] = i => OneToOne(Given(Given(f, [cam |-> d, id |-> f[c]]), [cam |-> c, id |-> i]))
<1>1. Given(f, [cam |-> c, id |-> i]) = [f EXCEPT ![c] = i]
  BY DEF Given
<1>2. ASSUME \A e \in Cams : f[e] # i PROVE OneToOne(Given(f, [cam |-> c, id |-> i]))
  <2> DEFINE g == [f EXCEPT ![c] = i]
  <2>1. g[c] = i /\ \A e \in Cams : e # c => g[e] = f[e]
    OBVIOUS
  <2> HIDE DEF g
  <2>2. OneToOne(g)
    BY <1>2, <2>1 DEF OneToOne
  <2> QED
    BY <1>1, <2>2 DEF g
<1>3. ASSUME f[d] = i PROVE OneToOne(Given(Given(f, [cam |-> d, id |-> f[c]]), [cam |-> c, id |-> i]))
  <2>1. Given(Given(f, [cam |-> d, id |-> f[c]]), [cam |-> c, id |-> i]) = [[f EXCEPT ![d] = f[c]] EXCEPT ![c] = i]
    BY DEF Given
  <2> DEFINE g == [[f EXCEPT ![d] = f[c]] EXCEPT ![c] = i]
  <2>2. g[c] = f[d] /\ (d # c => g[d] = f[c]) /\ \A e \in Cams : e # c /\ e # d => g[e] = f[e]
    BY <1>3
  <2> HIDE DEF g
  <2>3. OneToOne(g)
    BY <2>2 DEF OneToOne
  <2> QED
    BY <2>1, <2>3 DEF g
<1> QED
  BY <1>2, <1>3

\* A step that leaves the ids alone.
LEMMA IdsStay ==
    ASSUME TypeInv, IdInv, UNCHANGED <<mc_id, jobs>>, faults' = faults \/ faults' = faults + 1
    PROVE  IdInv'
<1>1. faults \in Nat
  BY Parts DEF CountsTyped
<1>2. faults' = 0 => faults = 0
  BY <1>1
<1> QED
  BY <1>2 DEF IdInv

\* set_id plans ids that leave no two alike.
LEMMA SetIdIds ==
    ASSUME TypeInv, IdInv, SetId PROVE IdInv'
<1>1. /\ pc = "idle" /\ UNCHANGED <<mc_id, faults>> /\ mc_id \in [Cams -> Ids] /\ jobs = <<>>
  BY Parts DEF SetId, HostTyped, GivingIds
<1> SUFFICES ASSUME faults = 0
             PROVE  /\ Len(jobs') <= 2
                    /\ Len(jobs') = 0 => OneToOne(mc_id)
                    /\ Len(jobs') = 1 => OneToOne(Given(mc_id, jobs'[1]))
                    /\ Len(jobs') = 2 => OneToOne(Given(Given(mc_id, jobs'[1]), jobs'[2]))
  BY <1>1 DEF IdInv
<1>2. OneToOne(mc_id)
  BY <1>1 DEF IdInv
<1> DEFINE Orders(old, new, c) ==
             \/ WithId(new) = {} /\ jobs' = <<[cam |-> c, id |-> new]>>
             \/ \E d \in Find(new) : jobs' = <<[cam |-> d, id |-> old], [cam |-> c, id |-> new]>>
<1>3. PICK old \in Ids, new \in Ids : \E c \in Find(old) : Orders(old, new, c)
  BY DEF SetId
<1>4. PICK c \in Find(old) : Orders(old, new, c)
  BY <1>3
<1>5. c \in Cams /\ mc_id[c] = old /\ \A d \in Find(new) : d \in Cams /\ mc_id[d] = new
  BY FindFacts
<1>6. ASSUME WithId(new) = {}, jobs' = <<[cam |-> c, id |-> new]>>
      PROVE  Len(jobs') = 1 /\ OneToOne(Given(mc_id, jobs'[1]))
  <2>1. OneToOne(Given(mc_id, [cam |-> c, id |-> new]))
    BY <1>1, <1>2, <1>5, <1>6, GivenFacts DEF WithId
  <2>2. Len(jobs') = 1 /\ jobs'[1] = [cam |-> c, id |-> new]
    BY <1>6
  <2> QED
    BY <2>1, <2>2
<1>7. ASSUME NEW d \in Find(new), jobs' = <<[cam |-> d, id |-> old], [cam |-> c, id |-> new]>>
      PROVE  Len(jobs') = 2 /\ OneToOne(Given(Given(mc_id, jobs'[1]), jobs'[2]))
  <2>1. OneToOne(Given(Given(mc_id, [cam |-> d, id |-> mc_id[c]]), [cam |-> c, id |-> new]))
    BY <1>1, <1>2, <1>5, GivenFacts
  <2>2. Len(jobs') = 2 /\ jobs'[1] = [cam |-> d, id |-> old] /\ jobs'[2] = [cam |-> c, id |-> new]
    BY <1>7
  <2> QED
    BY <1>5, <2>1, <2>2
<1>8. \/ Len(jobs') = 1 /\ OneToOne(Given(mc_id, jobs'[1]))
      \/ Len(jobs') = 2 /\ OneToOne(Given(Given(mc_id, jobs'[1]), jobs'[2]))
  BY <1>4, <1>6, <1>7
<1>9. \A n \in {1, 2} : n <= 2 /\ n # 0 /\ (n = 1 => n # 2) /\ (n = 2 => n # 1)
  OBVIOUS
<1>10. Len(jobs') \in {1, 2}
  BY <1>8
<1> QED
  BY <1>8, <1>9, <1>10, Zenon

\* set_id_cam gives the next.
LEMMA SetIdCamIds ==
    ASSUME TypeInv, IdInv, SetIdCam PROVE IdInv'
<1>1. /\ jobs # <<>> /\ jobs' = Tail(jobs) /\ mc_id' = [mc_id EXCEPT ![Head(jobs).cam] = Head(jobs).id]
      /\ faults' = faults
  BY DEF SetIdCam, Begin, history
<1>2. /\ Head(jobs) = jobs[1] /\ Len(jobs) \in Nat \ {0} /\ Len(Tail(jobs)) = Len(jobs) - 1
      /\ \A k \in 1..Len(Tail(jobs)) : Tail(jobs)[k] = jobs[k + 1]
  BY <1>1, JobFacts
<1>3. mc_id' = Given(mc_id, jobs[1])
  BY <1>1, <1>2 DEF Given
<1> SUFFICES ASSUME faults = 0 PROVE IdInv'
  BY <1>1 DEF IdInv
<1>4. Len(jobs) = 1 \/ Len(jobs) = 2
  BY <1>2 DEF IdInv
<1>5. CASE Len(jobs) = 1
  <2>1. Len(jobs') = 0 /\ OneToOne(mc_id')
    <3>1. Len(jobs') = 0
      BY <1>1, <1>2, <1>5
    <3>2. OneToOne(Given(mc_id, jobs[1]))
      BY <1>5 DEF IdInv
    <3> QED
      BY <1>3, <3>1, <3>2
  <2> QED
    BY <2>1 DEF IdInv
<1>6. CASE Len(jobs) = 2
  <2>1. Len(jobs') = 1 /\ jobs'[1] = jobs[2]
    BY <1>1, <1>2, <1>6
  <2>2. OneToOne(Given(mc_id', jobs'[1]))
    BY <1>3, <1>6, <2>1 DEF IdInv
  <2> QED
    BY <2>1, <2>2 DEF IdInv
<1> QED
  BY <1>4, <1>5, <1>6

\* Every step keeps IdInv.
LEMMA IdNext == TypeInv /\ IdInv /\ [Next]_vars => IdInv'
<1> SUFFICES ASSUME TypeInv, IdInv, [Next]_vars PROVE IdInv'
  OBVIOUS
<1>1. ASSUME faults' = faults + 1 PROVE IdInv'
  <2>1. faults \in Nat
    BY Parts DEF CountsTyped
  <2>2. faults' # 0
    BY <1>1, <2>1
  <2> QED
    BY <2>2 DEF IdInv
<1>2. CASE UNCHANGED vars
  BY <1>2, IdsStay DEF vars, host, history
<1>3. CASE Camera
  BY <1>3, CameraEffect, IdsStay DEF Camera, host
<1>4. CASE Command \/ ImgList \/ InitSync
  BY <1>4, SendingBegun, IdsStay DEF Begun
<1>5. CASE Select \/ Start
  BY <1>5, IdsStay DEF Select, Start
<1>6. CASE Flush \/ RoundEnd \/ WaitTimeout \/ SetIdDone \/ StartStop
  BY <1>6, IdsStay DEF Flush, RoundEnd, WaitTimeout, SetIdDone, StartStop, history
<1>7. CASE Send
  BY <1>7, SendEffect, WriteEffect, IdsStay
<1>8. CASE Poll
  BY <1>8, PollEffect, IdsStay DEF PollAt
<1>9. CASE Ask
  <2>1. /\ UNCHANGED <<running, cid, cur, outq, known, mc_id, jobs>> /\ pc = "ask" /\ todo[1] \in Cams
        /\ WriteOk(todo[1]) \/ WriteRefused(todo[1]) \/ WriteFails(todo[1])
    BY <1>9, AskEffect
  <2>2. faults' = faults \/ faults' = faults + 1
    BY <2>1, WriteEffect
  <2> QED
    BY <2>1, <2>2, IdsStay
<1>10. CASE Answer \/ AnswerTimeout
  <2>1. pc = "answer" /\ todo # <<>> /\ Thrown => jobs' = jobs
    <3>1. pc = "answer" => jobs = <<>> /\ op.name \in {"tick", "list"}
      BY Parts DEF GivingIds, Commanding
    <3> QED
      BY <3>1, ThrownEffect DEF Throw
  <2>2. CASE Answer
    BY <2>1, <2>2, AnswerEffect, IdsStay DEF AnswerWays
  <2>3. CASE AnswerTimeout
    BY <2>1, <2>3, IdsStay DEF AnswerTimeout, history
  <2> QED
    BY <1>10, <2>2, <2>3
<1>11. CASE StartOne \/ StartExec
  BY <1>11, StartOneEffect, StartExecEffect, IdsStay
<1>12. CASE FlushFails \/ SetIdFails
  BY <1>1, <1>12 DEF FlushFails, SetIdFails, Fault
<1> QED
  BY <1>2, <1>3, <1>4, <1>5, <1>6, <1>7, <1>8, <1>9, <1>10, <1>11, <1>12, SetIdIds, SetIdCamIds
     DEF Next, Call, HostStep

\* The ids are the places in the list of cameras at first.
LEMMA IdInit == Init => IdInv
<1> SUFFICES ASSUME Init PROVE IdInv
  OBVIOUS
<1>1. ASSUME NEW c \in Cams PROVE CamList[mc_id[c]] = c
  <2>1. \E i \in DOMAIN CamList : CamList[i] = c
    BY DEF Cams
  <2> QED
    BY <2>1 DEF Init
<1>2. OneToOne(mc_id)
  BY <1>1 DEF OneToOne
<1>3. jobs = <<>> /\ Len(<<>>) = 0
  BY DEF Init
<1> QED
  BY <1>2, <1>3 DEF IdInv

\* IdInv holds in every state of every behaviour.
LEMMA IdAlways == Spec => []IdInv
<1>1. TypeInv /\ IdInv /\ [Next]_vars => IdInv'
  BY IdNext
<1> QED
  BY <1>1, IdInit, TypedAlways, PTL DEF Spec

\* The id a script will have: that of the last setid in its queue, or, if
\* there is none, that of the setid it carries out, or the one it has.
Setid(m) == m.name = "setid"
LastSet(q, i) ==
    \E k \in 1..Len(q) : Setid(q[k]) /\ q[k].arg = i /\ \A j \in 1..Len(q) : Setid(q[j]) => j <= k
Never(q) == \A k \in 1..Len(q) : ~Setid(q[k])
Bound(c, i) ==
    LastSet(inq[c], i) \/ (Never(inq[c]) /\ IF Setid(cur[c]) THEN cur[c].arg = i ELSE cid[c] = i)

\* It is the id that the property speaks of.
LEMMA BoundIs ==
    ASSUME TypeInv, NEW c \in Cams, NEW i, Bound(c, i)
    PROVE  IdOnItsWay(c, i)
<1> DEFINE q == inq[c]
           line == <<cur[c]>> \o q
           setid == {k \in DOMAIN line : line[k].name = "setid"}
<1>1. q \in Seq(CmdRec \cup {NoCmd}) /\ <<cur[c]>> \in Seq(CmdRec \cup {NoCmd})
  <2>1. q \in Seq(CmdRec) /\ cur[c] \in CmdRec \cup {NoCmd}
    BY QueueFacts
  <2>2. CmdRec \subseteq CmdRec \cup {NoCmd}
    OBVIOUS
  <2>3. q \in Seq(CmdRec \cup {NoCmd})
    BY <2>1, <2>2, SeqMonotonic
  <2> HIDE DEF q
  <2> QED
    BY <2>1, <2>3
<1>2. PICK n \in Nat : n = Len(q)
  BY <1>1, LenProperties
<1>3. /\ DOMAIN line = 1..(n + 1) /\ line[1] = cur[c]
      /\ \A k \in 1..n : line[k + 1] = q[k]
  <2>1. Len(<<cur[c]>>) = 1 /\ <<cur[c]>>[1] = cur[c]
    OBVIOUS
  <2>2. /\ line \in Seq(CmdRec \cup {NoCmd}) /\ Len(line) = 1 + n
        /\ \A k \in 1..(1 + n) : line[k] = (IF k <= 1 THEN <<cur[c]>>[k] ELSE q[k - 1])
    BY <1>1, <1>2, <2>1, ConcatProperties
  <2>3. DOMAIN line = 1..(1 + n)
    BY <2>2, LenProperties
  <2>4. 1 \in 1..(1 + n) /\ 1 <= 1 /\ 1 + n = n + 1
        /\ \A k \in 1..n : k + 1 \in 1..(1 + n) /\ ~(k + 1 <= 1) /\ (k + 1) - 1 = k
    BY <1>2
  <2> HIDE DEF line, q
  <2> QED
    BY <2>1, <2>2, <2>3, <2>4
<1> HIDE DEF line, q
<1>4. \A k \in 1..(n + 1) : k = 1 \/ (k - 1 \in 1..n /\ line[k] = q[k - 1])
  <2>1. \A k \in 1..(n + 1) : k = 1 \/ (k - 1 \in 1..n /\ (k - 1) + 1 = k)
    BY <1>2
  <2> QED
    BY <1>3, <2>1
<1>5. CASE LastSet(q, i)
  <2>1. PICK k \in 1..n : q[k].name = "setid" /\ q[k].arg = i /\ \A j \in 1..n : q[j].name = "setid" => j <= k
    BY <1>2, <1>5 DEF LastSet, Setid
  <2>2. k + 1 \in setid /\ line[k + 1].arg = i
    BY <1>2, <1>3, <2>1
  <2>3. ASSUME NEW j \in setid PROVE j <= k + 1
    <3>1. j \in 1..(n + 1) /\ line[j].name = "setid"
      BY <1>3, <2>3
    <3>2. CASE j = 1
      BY <1>2, <2>1, <3>2
    <3>3. CASE j - 1 \in 1..n /\ line[j] = q[j - 1]
      <4>1. j - 1 <= k
        BY <2>1, <3>1, <3>3
      <4> QED
        BY <1>2, <2>1, <3>1, <4>1
    <3> QED
      BY <1>4, <3>1, <3>2, <3>3
  <2> QED
    BY <2>2, <2>3 DEF IdOnItsWay, line, q
<1>6. CASE Never(q) /\ (IF Setid(cur[c]) THEN cur[c].arg = i ELSE cid[c] = i)
  <2>1. \A j \in setid : j = 1 /\ Setid(cur[c])
    <3> SUFFICES ASSUME NEW j \in setid PROVE j = 1 /\ Setid(cur[c])
      OBVIOUS
    <3>1. j \in 1..(n + 1) /\ line[j].name = "setid"
      BY <1>3
    <3>2. ~(j - 1 \in 1..n /\ line[j] = q[j - 1])
      BY <1>2, <1>6, <3>1 DEF Never, Setid
    <3> QED
      BY <1>3, <1>4, <3>1, <3>2 DEF Setid
  <2>2. CASE Setid(cur[c])
    <3>1. 1 \in setid /\ line[1].arg = i
      BY <1>2, <1>3, <1>6, <2>2 DEF Setid
    <3>2. \A j \in setid : j <= 1
      BY <2>1
    <3> QED
      BY <3>1, <3>2 DEF IdOnItsWay, line, q
  <2>3. CASE ~Setid(cur[c])
    <3>1. setid = {} /\ cid[c] = i
      BY <1>6, <2>1, <2>3
    <3> QED
      BY <3>1 DEF IdOnItsWay, line, q
  <2> QED
    BY <2>2, <2>3
<1> QED
  BY <1>5, <1>6 DEF Bound, q

\* A command that is queued decides if it is a setid, and leaves it else.
LEMMA AppendBound ==
    ASSUME NEW S, NEW q \in Seq(S), NEW m \in S
    PROVE  /\ Setid(m) => LastSet(Append(q, m), m.arg)
           /\ ~Setid(m) => \A i : (LastSet(q, i) => LastSet(Append(q, m), i)) /\ (Never(q) => Never(Append(q, m)))
<1>1. PICK n \in Nat : n = Len(q)
  BY LenProperties
<1>2. /\ Len(Append(q, m)) = n + 1 /\ Append(q, m)[n + 1] = m
      /\ \A k \in 1..n : Append(q, m)[k] = q[k]
  BY <1>1, AppendProperties
<1> DEFINE a == Append(q, m)
<1> HIDE DEF a
<1>3. \A k \in 1..(n + 1) : (k \in 1..n \/ k = n + 1) /\ k <= n + 1
  BY <1>1
<1>4. n + 1 \in 1..(n + 1) /\ \A k \in 1..n : k \in 1..(n + 1)
  BY <1>1
<1>5. Setid(m) => LastSet(a, m.arg)
  BY <1>2, <1>3, <1>4 DEF LastSet, a
<1>6. ASSUME ~Setid(m), NEW i, LastSet(q, i) PROVE LastSet(a, i)
  <2>1. PICK k \in 1..n : Setid(q[k]) /\ q[k].arg = i /\ \A j \in 1..n : Setid(q[j]) => j <= k
    BY <1>1, <1>6 DEF LastSet
  <2>2. Setid(a[k]) /\ a[k].arg = i
    BY <1>2, <2>1 DEF a
  <2>3. \A j \in 1..(n + 1) : Setid(a[j]) => j <= k
    BY <1>2, <1>3, <1>6, <2>1 DEF a
  <2>4. Len(a) = n + 1
    BY <1>2 DEF a
  <2> QED
    BY <1>4, <2>2, <2>3, <2>4 DEF LastSet
<1>7. ~Setid(m) /\ Never(q) => Never(a)
  BY <1>1, <1>2, <1>3 DEF Never, a
<1> QED
  BY <1>5, <1>6, <1>7 DEF a

\* So the script's steps leave the id that it will have.
LEMMA CameraBound ==
    ASSUME TypeInv, NEW c \in Cams, NEW i, CamRead(c) \/ CamItem(c) \/ CamGiveUp(c) \/ CamAnswer(c),
           Bound(c, i)
    PROVE  Bound(c, i)' \/ ~running'[c]
<1>1. ReadAt(c) \/ ItemAt(c) \/ GiveUpAt(c) \/ AnswerAt(c)
  <2>1. CamRead(c) \/ CamItem(c) \/ CamGiveUp(c) \/ CamAnswer(c) => ~(Left > 0 /\ faults' = faults + 1)
    <3>1. faults \in Nat
      BY Parts DEF CountsTyped
    <3>2. faults # faults + 1
      BY <3>1
    <3> QED
      BY <3>2 DEF CamRead, CamItem, CamGiveUp, CamAnswer, history
  <2> QED
    BY <2>1, CameraEffect
<1>2. inq[c] \in Seq(CmdRec) /\ ~Setid(NoCmd)
  BY QueueFacts DEF Setid, NoCmd
<1>3. CASE ReadAt(c)
  <2>1. /\ inq[c] # <<>> /\ cur[c] = NoCmd /\ cur'[c] = inq[c][1] /\ inq'[c] = Tail(inq[c]) /\ cid'[c] = cid[c]
    BY <1>3 DEF ReadAt
  <2>2. PICK n \in Nat : /\ Len(inq[c]) = n + 1 /\ Len(Tail(inq[c])) = n
                         /\ \A k \in 1..n : Tail(inq[c])[k] = inq[c][k + 1]
    <3>1. /\ Len(inq[c]) \in Nat \ {0} /\ Len(Tail(inq[c])) = Len(inq[c]) - 1 /\ Len(Tail(inq[c])) \in Nat
          /\ \A k \in 1..Len(Tail(inq[c])) : Tail(inq[c])[k] = inq[c][k + 1]
      BY <1>2, <2>1, Popped
    <3>2. PICK l \in Nat \ {0} : l = Len(inq[c])
      BY <3>1
    <3>3. l = (l - 1) + 1
      OBVIOUS
    <3> QED
      BY <3>1, <3>2, <3>3
  <2>3. CASE LastSet(inq[c], i)
    <3>1. PICK k \in 1..(n + 1) : /\ Setid(inq[c][k]) /\ inq[c][k].arg = i
                                  /\ \A j \in 1..(n + 1) : Setid(inq[c][j]) => j <= k
      BY <2>2, <2>3 DEF LastSet
    <3>2. CASE k = 1
      <4>1. \A j \in 1..n : j + 1 \in 1..(n + 1) /\ ~(j + 1 <= 1)
        BY <2>2
      <4>2. Never(Tail(inq[c]))
        BY <2>2, <3>1, <3>2, <4>1 DEF Never
      <4> QED
        BY <2>1, <3>1, <3>2, <4>2 DEF Bound
    <3>3. CASE k # 1
      <4>1. /\ k - 1 \in 1..n /\ (k - 1) + 1 = k
            /\ \A j \in 1..n : j + 1 \in 1..(n + 1) /\ (j + 1 <= k => j <= k - 1)
        BY <2>2, <3>1, <3>3
      <4>2. Setid(Tail(inq[c])[k - 1]) /\ Tail(inq[c])[k - 1].arg = i
        BY <2>2, <3>1, <4>1
      <4>3. \A j \in 1..n : Setid(Tail(inq[c])[j]) => j <= k - 1
        BY <2>2, <3>1, <4>1
      <4>4. LastSet(Tail(inq[c]), i)
        BY <2>2, <4>1, <4>2, <4>3 DEF LastSet
      <4> QED
        BY <2>1, <4>4 DEF Bound
    <3> QED
      BY <3>2, <3>3
  <2>4. CASE Never(inq[c]) /\ cid[c] = i
    <3>1. 1 \in 1..(n + 1) /\ \A j \in 1..n : j + 1 \in 1..(n + 1)
      BY <2>2
    <3>2. Never(Tail(inq[c])) /\ ~Setid(inq[c][1])
      BY <2>2, <2>4, <3>1 DEF Never
    <3> QED
      BY <2>1, <2>4, <3>2 DEF Bound
  <2> QED
    BY <1>2, <2>1, <2>3, <2>4 DEF Bound
<1>4. CASE ItemAt(c) \/ GiveUpAt(c)
  <2>1. cur[c] \in CmdRec
    BY <1>4, QueueFacts DEF ItemAt, GiveUpAt
  <2>2. cur'[c].name = cur[c].name /\ cur'[c].arg = cur[c].arg
    BY <1>4, <2>1 DEF ItemAt, GiveUpAt, CmdRec
  <2>3. inq'[c] = inq[c] /\ cid'[c] = cid[c]
    BY <1>4 DEF ItemAt, GiveUpAt
  <2> QED
    BY <2>2, <2>3 DEF Bound, Setid
<1>5. CASE AnswerAt(c)
  <2>1. /\ inq'[c] = inq[c] /\ cur'[c] = NoCmd
        /\ cid'[c] = (IF Setid(cur[c]) THEN cur[c].arg ELSE cid[c])
    BY <1>5 DEF AnswerAt, EndAt, Setid
  <2> QED
    BY <1>2, <2>1 DEF Bound
<1> QED
  BY <1>1, <1>3, <1>4, <1>5

\* What a camera does, it runs.  A setid on its way goes to the camera that has
\* its id.  And as long as nothing fails, a script that has refused no setid
\* will have the id of its connection, or the setid with that id is about to
\* be written.
Executing == \A c \in Cams : cur[c] # NoCmd => running[c]
Writing == op.name = "setid" /\ pc \in {"flush", "send"}
Aimed == Writing => op.arg = mc_id[todo[1]]
Agreed(c) == running[c] => Bound(c, mc_id[c]) \/ (Writing /\ c = todo[1])

ScriptInv == Executing /\ Aimed /\ (faults = 0 => \A c \in Cams \ refused : Agreed(c))

\* A step that fails has only to be typed.
LEMMA FaultScripts ==
    ASSUME TypeInv, faults' = faults + 1, Executing', Aimed' PROVE ScriptInv'
<1>1. faults \in Nat
  BY Parts DEF CountsTyped
<1>2. faults' # 0
  BY <1>1
<1> QED
  BY <1>2 DEF ScriptInv

\* Steps that leave the scripts and the ids alone, and write nothing but
\* commands of other kinds.
LEMMA ScriptsStay ==
    ASSUME TypeInv, ScriptInv, faults' = faults \/ faults' = faults + 1, refused \subseteq refused',
           UNCHANGED <<running, cid, cur, mc_id>>, ~Writing, ~Writing',
           \A c \in Cams : inq'[c] = inq[c] \/ \E m \in CmdRec : ~Setid(m) /\ inq'[c] = Append(inq[c], m)
    PROVE  ScriptInv'
<1>1. Executing' /\ Aimed'
  BY DEF ScriptInv, Executing, Aimed
<1>2. CASE faults' = faults
  <2>1. ASSUME NEW c \in Cams \ refused, Agreed(c) PROVE Agreed(c)'
    <3>1. ASSUME NEW i, Bound(c, i) PROVE Bound(c, i)'
      <4>1. CASE inq'[c] = inq[c]
        BY <3>1, <4>1 DEF Bound
      <4>2. ASSUME NEW m \in CmdRec, ~Setid(m), inq'[c] = Append(inq[c], m) PROVE Bound(c, i)'
        <5>1. inq[c] \in Seq(CmdRec)
          BY QueueFacts
        <5>2. /\ LastSet(inq[c], i) => LastSet(inq'[c], i)
              /\ Never(inq[c]) => Never(inq'[c])
          BY <4>2, <5>1, AppendBound
        <5> QED
          BY <3>1, <5>2 DEF Bound
      <4> QED
        BY <4>1, <4>2
    <3> QED
      BY <2>1, <3>1 DEF Agreed
  <2>2. faults = 0 => \A c \in Cams \ refused' : Agreed(c)'
    BY <2>1 DEF ScriptInv
  <2> QED
    BY <1>1, <1>2, <2>2 DEF ScriptInv
<1> QED
  BY <1>1, <1>2, FaultScripts

\* The scripts answer what they are told, in its order.
LEMMA CameraScripts ==
    ASSUME TypeInv, ScriptInv, Camera PROVE ScriptInv'
<1>1. PICK c \in Cams : CamRead(c) \/ CamItem(c) \/ CamGiveUp(c) \/ CamAnswer(c) \/ CamDies(c)
  BY DEF Camera
<1>2. /\ UNCHANGED <<mc_id, pc, op, todo, refused>> /\ Others(c)
      /\ \/ (ReadAt(c) \/ ItemAt(c) \/ GiveUpAt(c) \/ AnswerAt(c)) /\ faults' = faults
         \/ DieAt(c) /\ faults' = faults + 1
  BY <1>1, CameraEffect DEF host
<1>3. running[c]
  BY <1>2 DEF ScriptInv, Executing, ReadAt, ItemAt, GiveUpAt, AnswerAt, DieAt, EndAt
<1>4. Executing'
  <2>1. cur'[c] # NoCmd => running'[c]
    BY <1>2, <1>3 DEF ReadAt, ItemAt, GiveUpAt, AnswerAt, DieAt, EndAt
  <2>2. \A d \in Cams : d # c /\ cur'[d] # NoCmd => running'[d]
    BY <1>2 DEF ScriptInv, Executing, Others
  <2> QED
    BY <2>1, <2>2 DEF Executing
<1>5. Aimed' /\ (Writing' <=> Writing)
  BY <1>2 DEF ScriptInv, Aimed, Writing
<1>6. CASE faults' = faults /\ ~CamDies(c)
  <2>1. CamRead(c) \/ CamItem(c) \/ CamGiveUp(c) \/ CamAnswer(c)
    BY <1>1, <1>6
  <2>2. ASSUME NEW d \in Cams \ refused, Agreed(d) PROVE Agreed(d)'
    <3>1. CASE d = c
      BY <1>2, <1>3, <1>5, <2>1, <2>2, <3>1, CameraBound DEF Agreed
    <3>2. CASE d # c
      <4>1. Bound(d, mc_id[d]) => Bound(d, mc_id[d])'
        BY <1>2, <3>2 DEF Others, Bound
      <4>2. running'[d] = running[d]
        BY <1>2, <3>2 DEF Others
      <4> QED
        BY <1>2, <1>5, <2>2, <4>1, <4>2 DEF Agreed
    <3> QED
      BY <3>1, <3>2
  <2>3. faults = 0 => \A d \in Cams \ refused' : Agreed(d)'
    BY <1>2, <2>2 DEF ScriptInv
  <2> QED
    BY <1>4, <1>5, <1>6, <2>3 DEF ScriptInv
<1>7. CASE faults' = faults + 1
  BY <1>4, <1>5, <1>7, FaultScripts
<1>8. CamDies(c) => faults' = faults + 1
  BY DEF CamDies, Fault
<1> QED
  BY <1>2, <1>6, <1>7, <1>8

\* set_id_cam gives a connection its id: if a script runs there, a setid with
\* the same id follows.
LEMMA SetIdCamScripts ==
    ASSUME TypeInv, ScriptInv, SetIdCam PROVE ScriptInv'
<1>1. /\ pc = "setid" /\ jobs # <<>> /\ mc_id \in [Cams -> Ids] /\ ~Writing
  BY Parts DEF SetIdCam, HostTyped, Writing
<1>2. PICK c \in Cams : c = jobs[1].cam
  BY <1>1, JobFacts
<1>3. PICK i \in Ids : i = jobs[1].id
  BY <1>1, JobFacts
<1>4. Head(jobs) = jobs[1]
  BY <1>1, JobFacts
<1>5. /\ mc_id' = [mc_id EXCEPT ![c] = i] /\ mc_id'[c] = i /\ \A d \in Cams : d # c => mc_id'[d] = mc_id[d]
  BY <1>1, <1>2, <1>3, <1>4 DEF SetIdCam
<1>6. UNCHANGED <<running, cid, inq, cur, refused, faults>>
  BY DEF SetIdCam, Begin, cameras, history
<1>7. Executing'
  BY <1>6 DEF ScriptInv, Executing
<1>8. ASSUME NEW d \in Cams \ refused, d # c, Agreed(d) PROVE Agreed(d)'
  <2>1. mc_id'[d] = mc_id[d]
    BY <1>5, <1>8
  <2>2. Bound(d, mc_id[d]) => Bound(d, mc_id[d])'
    BY <1>6, <2>1 DEF Bound
  <2> QED
    BY <1>1, <1>6, <1>8, <2>2 DEF Agreed
<1>9. Aimed' /\ (running[c] => Writing' /\ c = todo'[1])
  <2>1. CASE running[c]
    <3>1. op'.name = "setid" /\ op'.arg = i /\ todo' = selected' /\ selected' = <<c>> /\ pc' = "flush"
      BY <1>2, <1>3, <2>1, SetIdBegun DEF Begun
    <3>2. todo'[1] = c
      BY <3>1
    <3> QED
      BY <1>5, <3>1, <3>2 DEF Aimed, Writing
  <2>2. CASE ~running[c]
    <3>1. pc' = pc
      BY <1>2, <1>4, <2>2 DEF SetIdCam
    <3> QED
      BY <1>1, <2>2, <3>1 DEF Aimed, Writing
  <2> QED
    BY <2>1, <2>2
<1>10. faults = 0 => \A d \in Cams \ refused' : Agreed(d)'
  <2> SUFFICES ASSUME faults = 0, NEW d \in Cams \ refused PROVE Agreed(d)'
    BY <1>6
  <2>1. CASE d = c
    BY <1>6, <1>9, <2>1 DEF Agreed
  <2>2. CASE d # c
    BY <1>8, <2>2 DEF ScriptInv
  <2> QED
    BY <2>1, <2>2
<1> QED
  BY <1>6, <1>7, <1>9, <1>10 DEF ScriptInv

\* The flush before it leaves the setid to its camera.
LEMMA FlushScripts ==
    ASSUME TypeInv, ScriptInv, Flush PROVE ScriptInv'
<1>1. pc = "flush" /\ todo # <<>> /\ UNCHANGED <<running, cid, inq, cur, mc_id, op, selected, refused, faults>>
  BY DEF Flush, history
<1>2. CASE ~Writing
  <2>1. ~Writing'
    BY <1>1, <1>2 DEF Writing
  <2> QED
    BY <1>1, <1>2, <2>1, ScriptsStay
<1>3. CASE Writing
  <2>1. Len(todo) = 1 /\ selected = todo
    BY <1>1, <1>3, Parts DEF GivingIds, Writing
  <2>2. ~(Len(todo) > 1)
    BY <2>1
  <2>3. todo' = todo /\ Writing'
    BY <1>1, <1>3, <2>1, <2>2 DEF Flush, AfterFlush, Writing
  <2>4. Executing' /\ Aimed'
    BY <1>1, <1>3, <2>3 DEF ScriptInv, Executing, Aimed
  <2>5. ASSUME NEW c \in Cams \ refused, Agreed(c) PROVE Agreed(c)'
    <3>1. Bound(c, mc_id[c]) => Bound(c, mc_id[c])'
      BY <1>1 DEF Bound
    <3> QED
      BY <1>1, <2>3, <2>5, <3>1 DEF Agreed
  <2>6. faults = 0 => \A c \in Cams \ refused' : Agreed(c)'
    BY <1>1, <2>5 DEF ScriptInv
  <2> QED
    BY <1>1, <2>4, <2>6 DEF ScriptInv
<1> QED
  BY <1>2, <1>3

\* The setid is queued behind the commands before it, or the camera refuses it.
LEMMA SendScripts ==
    ASSUME TypeInv, ScriptInv, Send PROVE ScriptInv'
<1>1. /\ pc = "send" /\ todo # <<>> /\ todo[1] \in Cams /\ SendWays
      /\ UNCHANGED <<running, cid, cur, outq, known, mc_id, op>>
      /\ WriteOk(todo[1]) \/ WriteRefused(todo[1]) \/ WriteFails(todo[1])
  BY SendEffect
<1>2. PICK c \in Cams : c = todo[1]
  BY <1>1
<1>3. /\ \A d \in Cams : d # c => inq'[d] = inq[d]
      /\ \/ Wrote(c) /\ UNCHANGED <<refused, faults>>
         \/ /\ ~Accepts(c) /\ UNCHANGED <<inq, faults>>
            /\ refused' = (IF op.name = "setid" THEN refused \cup {c} ELSE refused)
         \/ faults' = faults + 1 /\ refused' = refused /\ (Wrote(c) \/ inq' = inq)
  BY <1>1, <1>2, WriteEffect
<1>4. /\ Cmd(op.name, Arg, calls) \in CmdRec /\ Cmd(op.name, Arg, calls).name = op.name
      /\ Cmd(op.name, Arg, calls).arg = Arg
  BY <1>1, CmdTyped
<1> DEFINE m == Cmd(op.name, Arg, calls)
<1> HIDE DEF m
<1>5. m \in CmdRec /\ m.name = op.name /\ m.arg = Arg /\ inq[c] \in Seq(CmdRec)
      /\ (Wrote(c) => inq'[c] = Append(inq[c], m))
  BY <1>4, QueueFacts DEF m, Wrote
<1>6. CASE op.name # "setid"
  <2>1. ~Writing /\ ~Writing'
    BY <1>1, <1>6 DEF Writing
  <2>2. \A d \in Cams : inq'[d] = inq[d] \/ (~Setid(m) /\ inq'[d] = Append(inq[d], m))
    BY <1>3, <1>5, <1>6 DEF Setid
  <2>3. refused \subseteq refused' /\ (faults' = faults \/ faults' = faults + 1)
    BY <1>3
  <2> QED
    BY <1>1, <1>5, <2>1, <2>2, <2>3, ScriptsStay
<1>7. CASE op.name = "setid"
  <2>1. Writing /\ Len(todo) = 1
    BY <1>1, <1>7, Parts DEF Writing, GivingIds
  <2>2. pc' # "send" /\ pc' # "flush"
    <3>1. ~(1 > 1)
      OBVIOUS
    <3>2. ~(Len(todo) > 1)
      BY <2>1, <3>1, Zenon
    <3> QED
      BY <1>1, <3>2, ReturnEffect DEF SendWays
  <2>3. Executing' /\ Aimed' /\ ~Writing'
    BY <1>1, <2>2 DEF ScriptInv, Executing, Aimed, Writing
  <2>4. CASE Wrote(c) /\ UNCHANGED <<refused, faults>>
    <3>1. Arg = mc_id[c]
      BY <1>2, <1>7, <2>1 DEF ScriptInv, Aimed, Arg
    <3>2. LastSet(inq'[c], mc_id[c])
      BY <1>5, <1>7, <2>4, <3>1, AppendBound DEF Setid
    <3>3. Bound(c, mc_id[c])'
      BY <1>1, <3>2 DEF Bound
    <3>4. ASSUME NEW d \in Cams \ refused, d # c, Agreed(d) PROVE Agreed(d)'
      <4>1. Bound(d, mc_id[d]) => Bound(d, mc_id[d])'
        BY <1>1, <1>3, <3>4 DEF Bound
      <4> QED
        BY <1>1, <1>2, <3>4, <4>1 DEF Agreed
    <3>5. faults = 0 => \A d \in Cams \ refused' : Agreed(d)'
      BY <2>4, <3>3, <3>4 DEF ScriptInv, Agreed
    <3> QED
      BY <2>3, <2>4, <3>5 DEF ScriptInv
  <2>5. CASE UNCHANGED <<inq, faults>> /\ refused' = refused \cup {c}
    <3>1. ASSUME NEW d \in Cams \ refused, d # c, Agreed(d) PROVE Agreed(d)'
      <4>1. Bound(d, mc_id[d]) => Bound(d, mc_id[d])'
        BY <1>1, <2>5 DEF Bound
      <4> QED
        BY <1>1, <1>2, <3>1, <4>1 DEF Agreed
    <3>2. faults = 0 => \A d \in Cams \ refused' : Agreed(d)'
      BY <2>5, <3>1 DEF ScriptInv
    <3> QED
      BY <2>3, <2>5, <3>2 DEF ScriptInv
  <2>6. CASE faults' = faults + 1
    BY <2>3, <2>6, FaultScripts
  <2> QED
    BY <1>3, <1>7, <2>4, <2>5, <2>6
<1> QED
  BY <1>6, <1>7

\* A script that starts has the id of its connection.
LEMMA StartExecScripts ==
    ASSUME TypeInv, ScriptInv, StartExec PROVE ScriptInv'
<1>1. /\ pc = "exec" /\ todo[1] \in Cams /\ StartWays /\ Others(todo[1]) /\ UNCHANGED <<mc_id, op>>
      /\ StartedAt(todo[1]) \/ UNCHANGED <<running, cid, inq, cur, outq, refused>>
      /\ faults' = faults \/ faults' = faults + 1
  BY StartExecEffect
<1>2. ~Writing /\ ~Writing'
  BY <1>1 DEF Writing, StartWays
<1>3. CASE UNCHANGED <<running, cid, inq, cur, outq, refused>>
  BY <1>1, <1>2, <1>3, ScriptsStay
<1>4. CASE StartedAt(todo[1])
  <2>1. PICK c \in Cams : c = todo[1]
    BY <1>1
  <2>2. /\ running'[c] = TRUE /\ cid'[c] = mc_id[c] /\ inq'[c] = <<>> /\ cur'[c] = NoCmd
        /\ refused' = refused \ {c}
    BY <1>4, <2>1 DEF StartedAt
  <2>3. Executing' /\ Aimed'
    <3>1. \A d \in Cams : d # c => (cur'[d] # NoCmd => running'[d])
      BY <1>1, <2>1 DEF ScriptInv, Executing, Others
    <3> QED
      BY <1>2, <2>2, <3>1 DEF Executing, Aimed
  <2>4. CASE faults' = faults
    <3>1. Bound(c, mc_id[c])'
      <4>1. Never(<<>>) /\ ~Setid(NoCmd)
        BY DEF Never, Setid, NoCmd
      <4> QED
        BY <1>1, <2>2, <4>1 DEF Bound
    <3>2. ASSUME NEW d \in Cams \ refused, d # c, Agreed(d) PROVE Agreed(d)'
      <4>1. Bound(d, mc_id[d]) => Bound(d, mc_id[d])'
        BY <1>1, <2>1, <3>2 DEF Bound, Others
      <4>2. running'[d] = running[d]
        BY <1>1, <2>1, <3>2 DEF Others
      <4> QED
        BY <1>2, <3>2, <4>1, <4>2 DEF Agreed
    <3>3. faults = 0 => \A d \in Cams \ refused' : Agreed(d)'
      <4>1. \A d \in Cams \ refused' : d = c \/ (d # c /\ d \in Cams \ refused)
        BY <2>2
      <4> QED
        BY <3>1, <3>2, <4>1 DEF ScriptInv, Agreed
    <3> QED
      BY <2>3, <2>4, <3>3 DEF ScriptInv
  <2>5. CASE faults' = faults + 1
    BY <2>3, <2>5, FaultScripts
  <2> QED
    BY <1>1, <2>4, <2>5
<1> QED
  BY <1>1, <1>3, <1>4

\* Asking and telling a script to exit queue commands of other kinds.
LEMMA AskScripts ==
    ASSUME TypeInv, ScriptInv, Ask PROVE ScriptInv'
<1>1. /\ pc = "ask" /\ todo # <<>> /\ todo[1] \in Cams /\ UNCHANGED <<running, cid, cur, outq, known, mc_id, op>>
      /\ WriteOk(todo[1]) \/ WriteRefused(todo[1]) \/ WriteFails(todo[1])
      /\ Again \/ Onward \/ Ended \/ Stays
  <2>1. NextCam \/ NextAsk \/ Caught => Again \/ Onward \/ Ended
    BY AskEffect, LoopWays
  <2> QED
    BY <2>1, AskEffect DEF Stays
<1>2. PICK c \in Cams : c = todo[1]
  BY <1>1
<1>3. op.name # "setid" /\ refused \subseteq refused'
      /\ (faults' = faults \/ faults' = faults + 1)
      /\ (\A d \in Cams : d # c => inq'[d] = inq[d]) /\ (Wrote(c) \/ inq' = inq)
  BY <1>1, <1>2, WriteEffect, Parts DEF Commanding
<1>4. Cmd(op.name, Arg, calls) \in CmdRec /\ ~Setid(Cmd(op.name, Arg, calls))
  BY <1>1, <1>3, CmdTyped DEF Setid
<1>5. \A d \in Cams : inq'[d] = inq[d] \/ \E m \in CmdRec : ~Setid(m) /\ inq'[d] = Append(inq[d], m)
  <2>1. Wrote(c) => inq'[c] = Append(inq[c], Cmd(op.name, Arg, calls))
    BY DEF Wrote
  <2> QED
    BY <1>3, <1>4, <2>1
<1>6. ~Writing /\ ~Writing'
  BY <1>1, <1>3 DEF Writing
<1> QED
  BY <1>1, <1>3, <1>5, <1>6, ScriptsStay

\* A script that runs is told to exit before it is started again.
LEMMA StartOneScripts ==
    ASSUME TypeInv, ScriptInv, StartOne PROVE ScriptInv'
<1>1. /\ pc = "start" /\ todo[1] \in Cams /\ StopAt(todo[1]) /\ StartWays
      /\ faults' = faults \/ faults' = faults + 1
      /\ \A d \in Cams : d # todo[1] => inq'[d] = inq[d]
      /\ UNCHANGED <<running, cid, cur, mc_id, op, refused>>
  BY StartOneEffect
<1>2. ~Writing /\ ~Writing'
  BY <1>1 DEF Writing, StartWays
<1>3. Cmd("exit", 0, 0) \in CmdRec /\ ~Setid(Cmd("exit", 0, 0))
  BY Constants DEF Cmd, CmdRec, Commands, Args, Setid
<1>4. \A d \in Cams : inq'[d] = inq[d] \/ \E m \in CmdRec : ~Setid(m) /\ inq'[d] = Append(inq[d], m)
  BY <1>1, <1>3 DEF StopAt
<1> QED
  BY <1>1, <1>2, <1>4, ScriptsStay

\* What is read, and where a call goes on, leaves the ids alone.
LEMMA ReadingScripts ==
    ASSUME TypeInv, ScriptInv, Poll \/ RoundEnd \/ WaitTimeout \/ Answer \/ AnswerTimeout \/ StartStop
    PROVE  ScriptInv'
<1>1. CASE Poll
  <2>1. pc = "wait" /\ UNCHANGED <<running, cid, inq, cur, mc_id, pc, op, refused>>
        /\ (faults' = faults \/ faults' = faults + 1)
    BY <1>1, PollEffect DEF PollAt
  <2>2. ~Writing /\ ~Writing'
    BY <2>1 DEF Writing
  <2> QED
    BY <2>1, <2>2, ScriptsStay
<1>2. CASE RoundEnd \/ WaitTimeout
  <2>1. pc = "wait" /\ RoundWays /\ UNCHANGED <<cameras, mc_id, op, history>>
    BY <1>2, RoundEffect
  <2>2. pc' \in {"idle", "setid", "wait"}
    BY <2>1, ReturnEffect DEF RoundWays
  <2>3. ~Writing /\ ~Writing'
    BY <2>1, <2>2 DEF Writing
  <2> QED
    BY <2>1, <2>3, ScriptsStay DEF cameras, history
<1>3. CASE Answer \/ AnswerTimeout
  <2>1. Thrown /\ todo # <<>> /\ pc = "answer" => pc' \in {"ask", "answer", "idle", "setid"}
    BY ThrownEffect, LoopWays, LoopPlace, Parts DEF Commanding
  <2>2. pc = "answer" /\ pc' \in {"ask", "answer", "idle", "setid"}
        /\ UNCHANGED <<running, cid, inq, cur, mc_id, op, refused>> /\ (faults' = faults \/ faults' = faults + 1)
    <3>1. CASE Answer
      <4>1. /\ pc = "answer" /\ todo # <<>> /\ AnswerWays(todo[1])
            /\ UNCHANGED <<running, cid, inq, cur, mc_id, op, refused>>
        BY <3>1, AnswerEffect
      <4> QED
        BY <2>1, <4>1, LoopPlace DEF AnswerWays, TakenWays
    <3>2. CASE AnswerTimeout
      BY <2>1, <3>2 DEF AnswerTimeout, cameras, history
    <3> QED
      BY <1>3, <3>1, <3>2
  <2>3. ~Writing /\ ~Writing'
    BY <2>2 DEF Writing
  <2> QED
    BY <2>2, <2>3, ScriptsStay
<1>4. CASE StartStop
  <2>1. pc = "stop" /\ UNCHANGED <<running, cid, inq, cur, mc_id, op, refused, faults>>
        /\ (NextStart \/ pc' = "exec")
    BY <1>4 DEF StartStop, cameras, history
  <2>2. ~Writing /\ ~Writing'
    BY <2>1 DEF Writing, NextStart
  <2> QED
    BY <2>1, <2>2, ScriptsStay
<1> QED
  BY <1>1, <1>2, <1>3, <1>4

\* Nor do the calls that begin, and the ends of set_id.
LEMMA CallScripts ==
    ASSUME TypeInv, ScriptInv,
           Command \/ ImgList \/ InitSync \/ SetId \/ Select \/ Start \/ SetIdDone \/ FlushFails \/ SetIdFails
    PROVE  ScriptInv'
<1>1. CASE Command \/ ImgList \/ InitSync
  <2>1. /\ pc = "idle" /\ op'.name \in {"shoot", "exit", "tick", "list"}
        /\ UNCHANGED <<running, cid, inq, cur, mc_id, refused, faults>>
    BY <1>1, SendingBegun DEF Begun
  <2>2. ~Writing /\ ~Writing'
    BY <2>1 DEF Writing
  <2> QED
    BY <2>1, <2>2, ScriptsStay
<1>2. CASE SetId \/ Select \/ Start \/ SetIdDone
  <2>1. /\ pc \in {"idle", "setid"} /\ pc' \in {"idle", "setid", "start"}
        /\ UNCHANGED <<running, cid, inq, cur, mc_id, refused, faults>>
    BY <1>2 DEF SetId, Select, Start, SetIdDone, cameras, history
  <2>2. ~Writing /\ ~Writing'
    BY <2>1 DEF Writing
  <2> QED
    BY <2>1, <2>2, ScriptsStay
<1>3. CASE FlushFails \/ SetIdFails
  <2>1. faults' = faults + 1 /\ pc' = "idle" /\ UNCHANGED <<running, cur>>
    BY <1>3 DEF FlushFails, SetIdFails, Fault, Throw, cameras
  <2>2. Executing' /\ Aimed'
    BY <2>1 DEF ScriptInv, Executing, Aimed, Writing
  <2> QED
    BY <2>1, <2>2, FaultScripts
<1> QED
  BY <1>1, <1>2, <1>3

\* ScriptInv holds in every state of every behaviour: at first no script runs.
LEMMA ScriptAlways == Spec => []ScriptInv
<1>1. Init => ScriptInv
  BY DEF Init, ScriptInv, Executing, Aimed, Writing, Agreed
<1>2. TypeInv /\ ScriptInv /\ [Next]_vars => ScriptInv'
  <2> SUFFICES ASSUME TypeInv, ScriptInv, [Next]_vars PROVE ScriptInv'
    OBVIOUS
  <2>1. CASE UNCHANGED vars
    BY <2>1 DEF vars, cameras, host, history, ScriptInv, Executing, Aimed, Writing, Agreed, Bound
  <2> QED
    BY <2>1, CameraScripts, SetIdCamScripts, FlushScripts, SendScripts, StartExecScripts, AskScripts,
       StartOneScripts, ReadingScripts, CallScripts DEF Next, Call, HostStep
<1> QED
  BY <1>1, <1>2, TypedAlways, PTL DEF Spec

\* As long as nothing fails, no two connections have the same id between calls,
\* and a script that runs and has refused no setid has the id of its
\* connection, or will have it when it has done what it was told.
THEOREM MulticamIdsAgree == Spec => []IdsAgree
<1>1. TypeInv /\ IdInv /\ ScriptInv => IdsAgree
  <2> SUFFICES ASSUME TypeInv, IdInv, ScriptInv, pc = "idle", faults = 0
               PROVE  /\ IsInjective(mc_id)
                      /\ \A c \in Cams \ refused : running[c] => IdOnItsWay(c, mc_id[c])
    BY DEF IdsAgree, IdsUnique, ScriptIds
  <2>1. mc_id \in [Cams -> Ids] /\ jobs = <<>> /\ Len(<<>>) = 0
    BY Parts DEF HostTyped, GivingIds
  <2>2. OneToOne(mc_id)
    BY <2>1 DEF IdInv
  <2>3. IsInjective(mc_id)
    BY <2>1, <2>2 DEF IsInjective, OneToOne
  <2>4. ASSUME NEW c \in Cams \ refused, running[c] PROVE IdOnItsWay(c, mc_id[c])
    BY <2>4, BoundIs DEF ScriptInv, Agreed, Writing
  <2> QED
    BY <2>3, <2>4
<1> QED
  BY <1>1, TypedAlways, IdAlways, ScriptAlways, PTL
=============================================================================

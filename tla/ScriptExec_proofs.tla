-------------------------- MODULE ScriptExec_proofs --------------------------
(***************************************************************************)
(* Proofs about ScriptExec, for any number of scripts, messages and        *)
(* faults, and queues of any room.                                         *)
(***************************************************************************)
EXTENDS ScriptExec, TLAPS

Options == [clobber : BOOLEAN, flush : BOOLEAN, wait : BOOLEAN]
Deliveries == Seq(Ids \X (1..(MaxMsgs + 1)))
Frames  == [pc : {"poll", "waitmsg"}, opts : Options, got : Deliveries, mine : Ids]

\* con:exec is on its way to ExecuteScript.
Starting == pc \in {"check", "exec"} \/ (pc = "flush" /\ after = "exec")

\* A coroutine sleeps in one of the loops of wait_status; an id is kept back
\* for the exec under way; a script that goes on may still queue its last message.
Bounded ==
    /\ suspended \in Seq(Frames)
    /\ Starting => lastid < MaxScripts
    /\ running = 0 => count = 0
    /\ running # 0 /\ ~finishing => count <= MaxMsgs

\* No id is known that the camera has not given out.
Known ==
    /\ running <= lastid /\ mine <= lastid /\ checked <= lastid
    /\ \A i \in 1..Len(camq) : camq[i].id <= lastid
    /\ \A i \in 1..Len(suspended) : suspended[i].mine <= lastid

TypeInv == TypeOK /\ Bounded /\ Known

\* Before protocol 2.6, what runs when exec is about to start a script was
\* started after exec had looked.
Looked ==
    (Starting /\ pc # "check" /\ ~proto26 /\ ~opts.clobber)
        => (running = 0 \/ running > checked)

\* Whose script_id and hostq are.  A callback that starts a script leaves
\* nothing running for which the coroutine's script could be taken.
Owners ==
    /\ pc = "errmsg" => script_id = mine
    /\ MessagesOwn
    /\ \A i \in 1..Len(suspended) :
          \/ mine = suspended[i].mine
          \/ ~fresh
          \/ running = 0 \/ running # suspended[i].mine

\* The messages of a script in a queue are l neighbours after the first f,
\* numbered from k + 1 on.
Block(q, id, f, l, k) ==
    /\ f + l <= Len(q)
    /\ \A i \in 1..Len(q) :
          /\ q[i].id = id <=> (f < i /\ i <= f + l)
          /\ q[i].id = id => q[i].n = k + (i - f)

\* The messages the script has queued and the host has not read are neighbours,
\* numbered from the next on; they are the last ones while it runs.
Neighbours(f) ==
    LET left == made[mine] - Len(got)
    IN  /\ left >= 0 /\ Block(camq, mine, f, left, Len(got))
        /\ running = mine => f + left = Len(camq)

\* In the loop of exec, outside the GUI.
Waiting ==
    /\ script_id = mine /\ mine # 0
    /\ \A i \in 1..Len(got) : got[i] = <<mine, i>>
    /\ running = mine => count = made[mine]
    /\ \E f \in 0..Len(camq) : Neighbours(f)
    /\ mine \in failed => \E i \in 1..Len(camq) : camq[i].id = mine /\ camq[i].type = "error"

Delivered ==
    /\ suspended = <<>>
    /\ Starting => got = <<>>
    /\ pc # "idle" => result = "none"
    /\ pc \in {"poll", "read"} => Waiting
    /\ result = "done" => mine # 0 /\ running # mine
    /\ CompleteOnReturn

IInv == TypeInv /\ SeenMsgIsThere /\ Looked /\ Owners
GInv == ~Gui => Delivered

-----------------------------------------------------------------------------
\* Reading takes the first message of a queue, the others keep their order.
LEMMA TailElements ==
    ASSUME NEW S, NEW q \in Seq(S), q # <<>>
    PROVE  /\ Len(q) \in Nat \ {0} /\ 1 \in 1..Len(q) /\ q[1] \in S /\ Head(q) = q[1]
           /\ Tail(q) \in Seq(S) /\ Len(Tail(q)) = Len(q) - 1
           /\ \A i \in 1..Len(Tail(q)) : i + 1 \in 1..Len(q) /\ Tail(q)[i] = q[i + 1]
  OBVIOUS

\* Queueing adds a last message, or none if the queue is full.
LEMMA QueueElements ==
    ASSUME NEW S, NEW q \in Seq(S), Len(q) <= QueueMax, NEW m \in S
    PROVE  /\ Queue(q, m) \in Seq(S) /\ Len(Queue(q, m)) <= QueueMax
           /\ Len(q) \in Nat /\ Len(Queue(q, m)) \in Nat
           /\ \A i \in 1..Len(q) : Queue(q, m)[i] = q[i]
           /\ \/ Queue(q, m) = q
              \/ /\ Queue(q, m) # q /\ Len(Queue(q, m)) = Len(q) + 1
                 /\ Queue(q, m)[Len(q) + 1] = m
<1>1. QueueMax \in Nat /\ Len(q) \in Nat
  BY BoundsAssumption
<1>2. /\ Append(q, m) \in Seq(S) /\ Len(Append(q, m)) = Len(q) + 1 /\ Append(q, m)[Len(q) + 1] = m
      /\ \A i \in 1..Len(q) : Append(q, m)[i] = q[i]
  OBVIOUS
<1>3. CASE Len(q) < QueueMax
  <2>1. Queue(q, m) = Append(q, m)
    BY <1>3 DEF Queue
  <2>2. Append(q, m) # q
    BY <1>1, <1>2
  <2>3. Len(q) + 1 <= QueueMax /\ Len(q) + 1 \in Nat
    BY <1>1, <1>3
  <2> QED
    BY <1>1, <1>2, <2>1, <2>2, <2>3
<1>4. CASE ~(Len(q) < QueueMax)
  <2>1. Queue(q, m) = q
    BY <1>4 DEF Queue
  <2> QED
    BY <1>1, <2>1
<1> QED
  BY <1>3, <1>4

\* The constants and ids are numbers.
LEMMA Numbers ==
    /\ MaxScripts \in Nat /\ MaxMsgs \in Nat /\ QueueMax \in Nat \ {0} /\ MaxFaults \in Nat
    /\ Ids = 0..MaxScripts /\ \A i \in Ids : i \in Nat /\ i <= MaxScripts
  BY BoundsAssumption DEF Ids

\* The fields of a message, and what is a message.
LEMMA MessageFields ==
    /\ \A m \in Messages : /\ m.id \in Ids /\ m.type \in {"user", "return", "error"}
                           /\ m.n \in 1..(MaxMsgs + 1) /\ m.type \notin {"none", "lost"}
    /\ \A id \in Ids, type \in {"user", "return", "error"}, n \in 1..(MaxMsgs + 1) :
          /\ Message(id, type, n) \in Messages /\ Message(id, type, n).id = id
          /\ Message(id, type, n).type = type /\ Message(id, type, n).n = n
    /\ None.type = "none" /\ Message(0, "lost", 0).type = "lost"
    /\ None.id = 0 /\ Message(0, "lost", 0).id = 0
  BY DEF Messages, Message, None

\* What read_msg does and can tell: the first message, nothing, or the answer is lost.
LEMMA ReadMsgEffect ==
    ASSUME TypeOK, NEW m \in Answers, ReadMsg(m)
    PROVE  /\ \/ m \in Messages /\ camq # <<>> /\ m = camq[1]
              \/ m.type = "none" /\ camq = <<>>
              \/ m.type = "lost"
           /\ camq' \in Seq(Messages) /\ Len(camq') <= QueueMax
           /\ \/ camq # <<>> /\ camq' = Tail(camq)
              \/ camq = <<>> /\ camq' = camq
           /\ UNCHANGED <<proto26, running, finishing, count, lastid, hostq, script_id, opts, after,
                          suspended, history>>
           /\ faults' \in 0..MaxFaults
<1>1. camq \in Seq(Messages) /\ Len(camq) <= QueueMax /\ faults \in 0..MaxFaults
  BY DEF TypeOK
<1>2. camq # <<>> => /\ Head(camq) = camq[1] /\ camq[1] \in Messages /\ Tail(camq) \in Seq(Messages)
                     /\ Len(Tail(camq)) <= QueueMax
  BY <1>1, TailElements, Numbers
<1>3. \/ m = (IF camq = <<>> THEN None ELSE Head(camq))
      \/ m = Message(0, "lost", 0)
  BY DEF ReadMsg
<1>4. faults' \in 0..MaxFaults
  BY <1>1, Numbers DEF ReadMsg, Fault
<1>5. /\ camq' = IF camq = <<>> THEN <<>> ELSE Tail(camq)
      /\ UNCHANGED <<proto26, running, finishing, count, lastid, hostq, script_id, opts, after,
                     suspended, history>>
  BY DEF ReadMsg
<1> QED
  BY <1>1, <1>2, <1>3, <1>4, <1>5, MessageFields

\* The camera queues the next message of the running script, or finds the queue full.
LEMMA CamQueueEffect ==
    ASSUME TypeInv, NEW type \in {"user", "return", "error"}, CamQueue(type)
    PROVE  /\ running \in 1..MaxScripts /\ ~finishing /\ count \in 0..MaxMsgs
           /\ type = "user" => count < MaxMsgs
           /\ camq' \in Seq(Messages) /\ Len(camq') <= QueueMax
           /\ \A i \in 1..Len(camq) : camq'[i] = camq[i]
           /\ \/ camq' = camq /\ count' = count
              \/ /\ Len(camq') = Len(camq) + 1 /\ count' = count + 1
                 /\ camq'[Len(camq) + 1].id = running /\ camq'[Len(camq) + 1].n = count + 1
                 /\ camq'[Len(camq) + 1].type = type
           /\ camq # <<>> => camq' # <<>>
<1>1. /\ camq \in Seq(Messages) /\ Len(camq) <= QueueMax /\ Len(camq) \in Nat /\ running \in Ids
      /\ count \in 0..(MaxMsgs + 1)
  BY DEF TypeInv, TypeOK
<1>2. running # 0 /\ ~finishing /\ (type = "user" => count < MaxMsgs)
  BY DEF CamQueue
<1>3. running \in 1..MaxScripts /\ count \in 0..MaxMsgs
  BY <1>1, <1>2, Numbers DEF TypeInv, Bounded
<1> DEFINE m == Message(running, type, count + 1)
<1>4. count \in Nat /\ count + 1 \in 1..(MaxMsgs + 1)
  BY <1>3, Numbers
<1>5. m \in Messages /\ m.id = running /\ m.n = count + 1 /\ m.type = type
  BY <1>1, <1>4, MessageFields
<1>6. camq' = Queue(camq, m) /\ count' = count + Len(camq') - Len(camq)
  BY DEF CamQueue
<1> HIDE DEF m
<1>7. /\ camq' \in Seq(Messages) /\ Len(camq') <= QueueMax /\ Len(camq') \in Nat
      /\ \A i \in 1..Len(camq) : camq'[i] = camq[i]
      /\ \/ camq' = camq
         \/ Len(camq') = Len(camq) + 1 /\ camq'[Len(camq) + 1] = m
  <2>1. m \in Messages
    BY <1>5
  <2> DEFINE q == Queue(camq, m)
  <2>2. /\ q \in Seq(Messages) /\ Len(q) <= QueueMax /\ Len(q) \in Nat
        /\ \A i \in 1..Len(camq) : q[i] = camq[i]
        /\ q = camq \/ (Len(q) = Len(camq) + 1 /\ q[Len(camq) + 1] = m)
    BY <1>1, <2>1, QueueElements
  <2> HIDE DEF q
  <2>3. camq' = q
    BY <1>6 DEF q
  <2> QED
    BY <2>2, <2>3
<1>8. camq' = camq => count' = count
  BY <1>1, <1>4, <1>6
<1>9. Len(camq') = Len(camq) + 1 => count' = count + 1 /\ camq' # <<>>
  BY <1>1, <1>4, <1>6
<1> QED
  BY <1>2, <1>3, <1>5, <1>7, <1>8, <1>9

\* ExecuteScript in the camera: nothing changes, or a new script is known,
\* which runs unless it did not compile; its messages start from nothing.
LEMMA CamExecEffect ==
    ASSUME TypeInv, lastid < MaxScripts, NEW flags, NEW status \in {"none", "compile", "scriptrun"},
           CamExec(flags, status)
    PROVE  /\ status = "scriptrun" <=> "nokill" \in flags /\ running # 0
           /\ status = "scriptrun" => UNCHANGED <<camera, history>>
           /\ status # "scriptrun" =>
                 /\ lastid' = lastid + 1 /\ lastid' \in 1..MaxScripts /\ mine' = lastid'
                 /\ finishing' = FALSE /\ count' = 0 /\ checked' = 0 /\ proto26' = proto26
                 /\ fresh' = (proto26 /\ opts.flush)
                 /\ hostq' = IF "flush_host" \in flags THEN <<>> ELSE hostq
                 /\ running' = IF status = "compile" THEN 0 ELSE lastid'
                 /\ camq' \in Seq(Messages) /\ Len(camq') <= QueueMax
                 /\ \A i \in 1..Len(camq') : camq'[i].id <= lastid'
                 /\ status = "none" => \A i \in 1..Len(camq') : camq'[i].id <= lastid
                 /\ made' \in [1..MaxScripts -> 0..(MaxMsgs + 1)]
                 /\ failed' \subseteq 1..MaxScripts
                 /\ status = "none" => made'[lastid'] = 0 /\ lastid' \notin failed'
<1>1. /\ status = "scriptrun" <=> "nokill" \in flags /\ running # 0
      /\ status = "scriptrun" => UNCHANGED <<camera, history>>
  BY DEF CamExec
<1>2. SUFFICES ASSUME status # "scriptrun"
               PROVE  /\ lastid' = lastid + 1 /\ lastid' \in 1..MaxScripts /\ mine' = lastid'
                      /\ finishing' = FALSE /\ count' = 0 /\ checked' = 0 /\ proto26' = proto26
                      /\ fresh' = (proto26 /\ opts.flush)
                      /\ hostq' = IF "flush_host" \in flags THEN <<>> ELSE hostq
                      /\ running' = IF status = "compile" THEN 0 ELSE lastid'
                      /\ camq' \in Seq(Messages) /\ Len(camq') <= QueueMax
                      /\ \A i \in 1..Len(camq') : camq'[i].id <= lastid'
                      /\ status = "none" => \A i \in 1..Len(camq') : camq'[i].id <= lastid
                      /\ made' \in [1..MaxScripts -> 0..(MaxMsgs + 1)]
                      /\ failed' \subseteq 1..MaxScripts
                      /\ status = "none" => made'[lastid'] = 0 /\ lastid' \notin failed'
  BY <1>1
<1> DEFINE kept == IF "flush_cam" \in flags THEN <<>> ELSE camq
           id   == lastid + 1
           q    == Queue(kept, Message(id, "error", 1))
           tell == Len(q) - Len(kept)
           old  == {suspended[i].mine : i \in DOMAIN suspended}
<1>3. /\ lastid' = id /\ mine' = id /\ finishing' = FALSE /\ count' = 0 /\ checked' = 0
      /\ hostq' = (IF "flush_host" \in flags THEN <<>> ELSE hostq)
      /\ fresh' = (proto26 /\ opts.flush) /\ proto26' = proto26
      /\ running' = (IF status = "compile" THEN 0 ELSE id)
      /\ camq' = (IF status = "compile" THEN q ELSE kept)
      /\ made' = [i \in 1..MaxScripts |->
                     IF i \in old THEN made[i] ELSE IF i = id /\ status = "compile" THEN tell ELSE 0]
      /\ failed' = (failed \cap old) \cup (IF status = "compile" /\ tell = 1 THEN {id} ELSE {})
  BY <1>2 DEF CamExec
<1>4. /\ camq \in Seq(Messages) /\ Len(camq) <= QueueMax /\ lastid \in Nat
      /\ made \in [1..MaxScripts -> 0..(MaxMsgs + 1)] /\ failed \subseteq 1..MaxScripts
      /\ \A i \in 1..Len(camq) : camq[i].id <= lastid
      /\ suspended \in Seq(Frames) /\ \A i \in 1..Len(suspended) : suspended[i].mine <= lastid
  BY Numbers DEF TypeInv, TypeOK, Known, Bounded
<1>5. id \in 1..MaxScripts /\ id \in Ids /\ id = lastid + 1 /\ id \notin old
  BY <1>4, Numbers
<1>6. kept \in Seq(Messages) /\ Len(kept) <= QueueMax /\ Len(kept) \in Nat
      /\ \A i \in 1..Len(kept) : kept[i].id <= lastid /\ kept[i] \in Messages
  BY <1>4, Numbers
<1> DEFINE m == Message(id, "error", 1)
<1>7. m \in Messages /\ m.id = id
  <2>1. 1 \in 1..(MaxMsgs + 1)
    BY Numbers
  <2> QED
    BY <1>5, <2>1, MessageFields
<1> HIDE DEF m, kept, id
<1>8. /\ q \in Seq(Messages) /\ Len(q) <= QueueMax /\ Len(q) \in Nat
      /\ \A i \in 1..Len(kept) : q[i] = kept[i]
      /\ q = kept \/ (Len(q) = Len(kept) + 1 /\ q[Len(kept) + 1] = m)
  BY <1>6, <1>7, QueueElements DEF m
<1> HIDE DEF q
<1>9. tell \in {0, 1}
  BY <1>6, <1>8
<1>10. \A i \in 1..Len(q) : q[i].id <= id
  <2> SUFFICES ASSUME NEW i \in 1..Len(q) PROVE q[i].id <= id
    OBVIOUS
  <2>1. i \in 1..Len(kept) \/ (i = Len(kept) + 1 /\ q[i] = m)
    BY <1>6, <1>8
  <2>2. CASE i \in 1..Len(kept)
    <3>1. q[i] = kept[i] /\ kept[i].id \in Nat /\ kept[i].id <= lastid
      BY <1>6, <1>8, <2>2, MessageFields, Numbers
    <3> QED
      BY <1>4, <1>5, <3>1
  <2>3. CASE i = Len(kept) + 1 /\ q[i] = m
    BY <1>5, <1>7, <2>3, Numbers
  <2> QED
    BY <2>1, <2>2, <2>3
<1>11. \A i \in 1..Len(kept) : kept[i].id <= id
  <2> SUFFICES ASSUME NEW i \in 1..Len(kept) PROVE kept[i].id <= id
    OBVIOUS
  <2>1. kept[i].id \in Nat /\ kept[i].id <= lastid
    BY <1>6, MessageFields, Numbers
  <2> QED
    BY <1>4, <1>5, <2>1
<1>12. /\ camq' \in Seq(Messages) /\ Len(camq') <= QueueMax
       /\ \A i \in 1..Len(camq') : camq'[i].id <= id
       /\ status = "none" => \A i \in 1..Len(camq') : camq'[i].id <= lastid
  <2>1. CASE status = "compile"
    BY <1>3, <1>8, <1>10, <2>1
  <2>2. CASE status # "compile"
    BY <1>3, <1>6, <1>11, <2>2
  <2> QED
    BY <2>1, <2>2
<1> HIDE DEF old, tell
<1>13. made' \in [1..MaxScripts -> 0..(MaxMsgs + 1)]
  <2>1. {0, 1} \subseteq 0..(MaxMsgs + 1)
    BY Numbers
  <2> QED
    BY <1>3, <1>4, <1>9, <2>1
<1>14. failed' \subseteq 1..MaxScripts
  BY <1>3, <1>4, <1>5
<1>15. status = "none" => made'[id] = 0 /\ id \notin failed'
  BY <1>3, <1>5
<1>16. id \in 1..MaxScripts /\ id = lastid + 1 /\ lastid' = id
  BY <1>3, <1>5
<1> QED
  BY <1>3, <1>12, <1>13, <1>14, <1>15, <1>16

-----------------------------------------------------------------------------
\* The type invariant in parts: what the camera and the histories hold, what
\* the host holds, the flags, and what bounds them.
Words ==
    /\ running \in Ids /\ lastid \in Ids /\ script_id \in Ids /\ mine \in Ids /\ checked \in Ids
    /\ camq \in Seq(Messages) /\ Len(camq) <= QueueMax
    /\ hostq \in Seq(Ids) /\ Len(hostq) <= QueueMax
    /\ made \in [1..MaxScripts -> 0..(MaxMsgs + 1)] /\ failed \subseteq 1..MaxScripts
    /\ count \in 0..(MaxMsgs + 1)

Flags == finishing \in BOOLEAN /\ fresh \in BOOLEAN /\ proto26 \in BOOLEAN

HostTyped ==
    /\ pc \in {"idle", "check", "flush", "exec", "errmsg", "poll", "read", "waitmsg", "strict"}
    /\ opts \in Options /\ after \in {"idle", "exec"} /\ result \in Results
    /\ got \in Deliveries /\ Len(suspended) <= 1 /\ suspended \in Seq(Frames)
    /\ faults \in 0..MaxFaults

\* The bounds but for the type of the coroutine.
Bounds ==
    /\ Starting => lastid < MaxScripts
    /\ running = 0 => count = 0
    /\ running # 0 /\ ~finishing => count <= MaxMsgs

\* The type invariant is these parts, before and after a step.
LEMMA TypeParts ==
    /\ TypeInv <=> Words /\ Flags /\ HostTyped /\ Bounds /\ Known
    /\ TypeInv' <=> Words' /\ Flags' /\ HostTyped' /\ Bounds' /\ Known'
  BY DEF TypeInv, TypeOK, Bounded, Words, Flags, HostTyped, Bounds, Options, Deliveries

\* The fields of a sleeping call.
LEMMA FrameFields ==
    \A f \in Frames : /\ f.pc \in {"poll", "waitmsg"} /\ f.opts \in Options
                      /\ f.got \in Deliveries /\ f.mine \in Ids
  BY DEF Frames

\* A step that leaves the camera and the ids alone keeps the camera's part.
LEMMA CameraUntouched ==
    ASSUME TypeInv, UNCHANGED <<camera, history>>, script_id' \in Ids,
           suspended' = suspended \/ suspended' = <<>>
              \/ (Len(suspended') = 1 /\ suspended'[1].mine = mine)
    PROVE  Words' /\ Flags' /\ Known'
<1>1. Words /\ Flags /\ Known
  BY TypeParts
<1>2. UNCHANGED <<proto26, running, finishing, count, lastid, camq, hostq, mine, made, failed, fresh,
                  checked>>
  BY DEF camera, history
<1>3. Words' /\ Flags'
  BY <1>1, <1>2 DEF Words, Flags
<1>4. \A i \in 1..Len(suspended') : suspended'[i].mine <= lastid
  BY <1>1 DEF Known
<1> QED
  BY <1>1, <1>2, <1>3, <1>4 DEF Known

\* A script's step: what it queues is typed, and has its id.
LEMMA CameraTypeStep ==
    ASSUME TypeInv, Camera PROVE TypeInv'
<1>1. Words /\ Flags /\ HostTyped /\ Bounds /\ Known
  BY TypeParts
<1>2. lastid \in Nat /\ running \in Nat /\ mine \in Nat /\ checked \in Nat /\ count \in Nat
      /\ script_id \in Nat
  BY <1>1, Numbers DEF Words
<1>3. ASSUME NEW type \in {"user", "return", "error"}, CamQueue(type)
      PROVE  Words' /\ HostTyped' /\ Known' /\ fresh' \in BOOLEAN /\ proto26' \in BOOLEAN
             /\ (running' = 0 => count' = 0) /\ (type = "user" => count' <= MaxMsgs)
             /\ (Starting => lastid < MaxScripts)'
    <2>1. /\ running \in 1..MaxScripts /\ ~finishing /\ count \in 0..MaxMsgs
          /\ type = "user" => count < MaxMsgs
          /\ camq' \in Seq(Messages) /\ Len(camq') <= QueueMax
          /\ \A i \in 1..Len(camq) : camq'[i] = camq[i]
          /\ \/ camq' = camq /\ count' = count
             \/ /\ Len(camq') = Len(camq) + 1 /\ count' = count + 1
                /\ camq'[Len(camq) + 1].id = running
      BY <1>3, CamQueueEffect
    <2>2. /\ UNCHANGED <<proto26, running, lastid, hostq, script_id, pc, caller, mine, fresh, checked, faults>>
          /\ made' = IF running \in Mine THEN [made EXCEPT ![running] = count'] ELSE made
          /\ failed' = IF type = "error" /\ camq' # camq /\ running \in Mine
                       THEN failed \cup {running} ELSE failed
      BY <1>3 DEF CamQueue
    <2>3. count' \in 0..(MaxMsgs + 1) /\ (type = "user" => count' <= MaxMsgs)
      BY <2>1, Numbers
    <2>4. made' \in [1..MaxScripts -> 0..(MaxMsgs + 1)] /\ failed' \subseteq 1..MaxScripts
      BY <1>1, <2>1, <2>2, <2>3 DEF Words
    <2>5. Words'
      BY <1>1, <2>1, <2>2, <2>3, <2>4 DEF Words
    <2>6. HostTyped'
      BY <1>1, <2>2 DEF HostTyped, caller
    <2>7. \A i \in 1..Len(camq') : camq'[i].id <= lastid
      <3>1. Len(camq) \in Nat
        BY <1>1 DEF Words
      <3>2. \A i \in 1..Len(camq') : i \in 1..Len(camq) \/ camq'[i].id = running
        BY <2>1, <3>1
      <3> QED
        BY <1>1, <2>1, <3>2 DEF Known
    <2>8. Known'
      BY <1>1, <2>2, <2>7 DEF Known, caller
    <2>9. (Starting => lastid < MaxScripts)'
      BY <1>1, <2>2 DEF Bounds, Starting, caller
    <2>10. fresh' \in BOOLEAN /\ proto26' \in BOOLEAN
      BY <1>1, <2>2 DEF Flags
    <2>11. running' # 0
      BY <2>1, <2>2
    <2> QED
      BY <2>3, <2>5, <2>6, <2>8, <2>9, <2>10, <2>11
<1>4. CASE CamMsg
  <2>1. CamQueue("user") /\ finishing' = finishing
    BY <1>4 DEF CamMsg
  <2>2. Words' /\ HostTyped' /\ Known' /\ Flags'
    BY <1>1, <1>3, <2>1 DEF Flags
  <2>3. Bounds'
    BY <1>3, <2>1 DEF Bounds
  <2> QED
    BY <2>2, <2>3, TypeParts
<1>5. CASE CamFinish
  <2>1. PICK type \in {"return", "error"} : CamQueue(type) /\ finishing' = TRUE
    BY <1>5 DEF CamFinish
  <2>2. Words' /\ HostTyped' /\ Known' /\ Flags'
    BY <1>3, <2>1 DEF Flags
  <2>3. Bounds'
    BY <1>3, <2>1 DEF Bounds
  <2> QED
    BY <2>2, <2>3, TypeParts
<1>6. CASE CamEnd
  <2>1. /\ running' = 0 /\ finishing' = FALSE /\ count' = 0
        /\ UNCHANGED <<proto26, lastid, camq, hostq, script_id, pc, caller, history, faults>>
    BY <1>6 DEF CamEnd
  <2>2. Words'
    BY <1>1, <2>1, Numbers DEF Words, history
  <2>3. Flags'
    BY <1>1, <2>1 DEF Flags, history
  <2>4. HostTyped' /\ Bounds'
    BY <1>1, <2>1 DEF HostTyped, Bounds, Starting, caller
  <2>5. Known'
    BY <1>1, <1>2, <2>1 DEF Known, history, caller
  <2> QED
    BY <2>2, <2>3, <2>4, <2>5, TypeParts
<1>7. CASE CamTake
  <2>1. /\ hostq # <<>> /\ hostq' = Tail(hostq)
        /\ UNCHANGED <<proto26, running, finishing, count, lastid, camq, script_id, pc, caller, history, faults>>
    BY <1>7 DEF CamTake
  <2>2. hostq' \in Seq(Ids) /\ Len(hostq') <= QueueMax
    BY <1>1, <2>1, TailElements, Numbers DEF Words
  <2>3. Words'
    BY <1>1, <2>1, <2>2 DEF Words, history
  <2>4. Flags'
    BY <1>1, <2>1 DEF Flags, history
  <2>5. HostTyped' /\ Bounds'
    BY <1>1, <2>1 DEF HostTyped, Bounds, Starting, caller
  <2>6. Known'
    BY <1>1, <2>1 DEF Known, history, caller
  <2> QED
    BY <2>3, <2>4, <2>5, <2>6, TypeParts
<1>8. CASE CamUser
  <2>1. /\ running = 0 /\ IdsLeft > 0 /\ lastid' = lastid + 1 /\ running' = lastid + 1 /\ finishing' = FALSE
        /\ UNCHANGED <<proto26, count, camq, hostq, script_id, pc, caller, history, faults>>
    BY <1>8 DEF CamUser
  <2>2. lastid < MaxScripts /\ (pc \in {"check", "flush", "exec"} => lastid + 1 < MaxScripts)
    BY <1>2, <2>1, Numbers DEF IdsLeft
  <2>3. lastid + 1 \in Ids
    BY <1>2, <2>2, Numbers
  <2>4. Words'
    BY <1>1, <2>1, <2>3 DEF Words, history
  <2>5. Flags'
    BY <1>1, <2>1 DEF Flags, history
  <2>6. HostTyped'
    BY <1>1, <2>1 DEF HostTyped, caller
  <2>7. Bounds'
    BY <1>1, <1>2, <2>1, <2>2, Numbers DEF Bounds, Starting, caller
  <2>8. \A i \in 1..Len(camq) : camq[i].id \in Nat
    BY <1>1, MessageFields, Numbers DEF Words
  <2>9. \A i \in 1..Len(suspended) : suspended[i].mine \in Nat
    BY <1>1, FrameFields, Numbers DEF HostTyped
  <2>10. Known'
    BY <1>1, <1>2, <2>1, <2>8, <2>9 DEF Known, history, caller
  <2> QED
    BY <2>4, <2>5, <2>6, <2>7, <2>10, TypeParts
<1> QED
  BY <1>4, <1>5, <1>6, <1>7, <1>8 DEF Camera

\* Taking the first message keeps the types and the ids known.
LEMMA OneMessageLess ==
    ASSUME TypeInv, camq' \in Seq(Messages), Len(camq') <= QueueMax,
           (camq # <<>> /\ camq' = Tail(camq)) \/ (camq = <<>> /\ camq' = camq),
           UNCHANGED <<proto26, running, finishing, count, lastid, hostq, script_id, suspended, history>>
    PROVE  Words' /\ Flags' /\ Known'
<1>1. Words /\ Flags /\ Known
  BY TypeParts
<1>2. Words'
  BY <1>1 DEF Words, history
<1>3. Flags'
  BY <1>1 DEF Flags, history
<1>4. \A i \in 1..Len(camq') : camq'[i].id <= lastid
  <2>1. camq # <<>> => \A i \in 1..Len(Tail(camq)) : i + 1 \in 1..Len(camq) /\ Tail(camq)[i] = camq[i + 1]
    BY <1>1, TailElements DEF Words
  <2> QED
    BY <1>1, <2>1 DEF Known
<1>5. Known'
  BY <1>1, <1>4 DEF Known, history
<1> QED
  BY <1>2, <1>3, <1>5

\* The steps of con:exec and the message calls but for the start of a script.
LEMMA HostTypeStep ==
    ASSUME TypeInv, (HostStep /\ ~ExecLua) \/ Call \/ Lost \/ ReadThrows
    PROVE  TypeInv'
<1>1. Words /\ Flags /\ HostTyped /\ Bounds /\ Known
  BY TypeParts
<1>2. lastid \in Nat /\ running \in Nat /\ mine \in Nat /\ count \in Nat /\ script_id \in Nat
  BY <1>1, Numbers DEF Words
<1>3. CASE Lost
  <2>1. /\ pc' = "idle" /\ result' = "io" /\ faults' = faults + 1 /\ faults < MaxFaults
        /\ script_id' \in {0, script_id}
        /\ UNCHANGED <<camera, opts, after, got, suspended, history>>
    BY <1>3 DEF Lost, Fault, Done
  <2>2. Words' /\ Flags' /\ Known'
    <3>1. script_id' \in Ids
      BY <1>1, <2>1, Numbers DEF Words
    <3> QED
      BY <2>1, <3>1, CameraUntouched
  <2>3. HostTyped'
    BY <1>1, <2>1, Numbers DEF HostTyped, Results
  <2>4. Bounds'
    BY <1>1, <2>1 DEF Bounds, Starting, camera
  <2> QED
    BY <2>2, <2>3, <2>4, TypeParts
<1>4. CASE Exec \/ Callback
  <2>1. /\ IdsLeft > 0 /\ pc \in {"idle", "poll", "waitmsg"}
        /\ pc' \in {"check", "exec"} /\ after' = "exec" /\ got' = <<>> /\ result' = "none"
        /\ UNCHANGED <<camera, script_id, mine, made, failed, fresh, faults>> /\ checked' = 0
        /\ opts' \in Options
    BY <1>4 DEF Exec, Callback, BeginExec, Options
  <2>2. \/ suspended' = suspended
        \/ suspended' = <<[pc |-> pc, opts |-> opts, got |-> got, mine |-> mine]>>
           /\ pc \in {"poll", "waitmsg"}
    BY <1>4 DEF Exec, Callback
  <2>3. suspended' \in Seq(Frames) /\ Len(suspended') <= 1
        /\ \A i \in 1..Len(suspended') : suspended'[i].mine <= lastid
    <3>1. CASE suspended' = suspended
      BY <1>1, <3>1 DEF HostTyped, Known
    <3>2. CASE suspended' # suspended
      <4> DEFINE f == [pc |-> pc, opts |-> opts, got |-> got, mine |-> mine]
      <4>1. f \in Frames /\ f.mine = mine
        BY <1>1, <2>2, <3>2 DEF Frames, HostTyped, Words
      <4> HIDE DEF f
      <4>2. suspended' = <<f>>
        BY <2>2, <3>2 DEF f
      <4> QED
        BY <1>1, <4>1, <4>2 DEF Known
    <3> QED
      BY <3>1, <3>2
  <2>4. lastid < MaxScripts
    BY <1>2, <2>1, Numbers DEF IdsLeft
  <2>5. Words'
    BY <1>1, <2>1, Numbers DEF Words, camera
  <2>6. Flags'
    BY <1>1, <2>1 DEF Flags, camera
  <2>7. HostTyped'
    BY <1>1, <2>1, <2>3 DEF HostTyped, Results, Deliveries
  <2>8. Bounds'
    BY <1>1, <2>1, <2>4 DEF Bounds, camera
  <2>9. Known'
    BY <1>1, <1>2, <2>1, <2>3 DEF Known, camera
  <2> QED
    BY <2>5, <2>6, <2>7, <2>8, <2>9, TypeParts
<1>5. CASE Resume
  <2>1. /\ suspended # <<>> /\ suspended' = <<>>
        /\ pc' = suspended[1].pc /\ opts' = suspended[1].opts /\ got' = suspended[1].got
        /\ mine' = suspended[1].mine /\ result' = "none"
        /\ UNCHANGED <<camera, script_id, after, made, failed, fresh, checked, faults>>
    BY <1>5 DEF Resume
  <2>2. 1 \in 1..Len(suspended) /\ suspended[1] \in Frames
    BY <1>1, <2>1, TailElements DEF HostTyped
  <2>3. /\ pc' \in {"poll", "waitmsg"} /\ opts' \in Options /\ got' \in Deliveries /\ mine' \in Ids
        /\ mine' <= lastid
    BY <1>1, <2>1, <2>2, FrameFields DEF Known
  <2>4. Words'
    BY <1>1, <2>1, <2>3 DEF Words, camera
  <2>5. Flags'
    BY <1>1, <2>1 DEF Flags, camera
  <2>6. HostTyped'
    BY <1>1, <2>1, <2>3 DEF HostTyped, Results
  <2>7. Bounds'
    BY <1>1, <2>1, <2>3 DEF Bounds, Starting, camera
  <2>8. Known'
    BY <1>1, <2>1, <2>3 DEF Known, camera
  <2> QED
    BY <2>4, <2>5, <2>6, <2>7, <2>8, TypeParts
<1>6. CASE Check
  <2>1. /\ pc = "check" /\ pc' \in {"idle", "flush", "exec"} /\ result' \in {result, "scriptrun"}
        /\ checked' \in {checked, lastid}
        /\ UNCHANGED <<camera, script_id, opts, after, got, suspended, mine, made, failed, fresh, faults>>
    BY <1>6 DEF Check, Done
  <2>2. Words'
    BY <1>1, <2>1 DEF Words, camera
  <2>3. Flags'
    BY <1>1, <2>1 DEF Flags, camera
  <2>4. HostTyped'
    BY <1>1, <2>1 DEF HostTyped, Results
  <2>5. Bounds'
    BY <1>1, <2>1 DEF Bounds, Starting, camera
  <2>6. Known'
    BY <1>1, <1>2, <2>1 DEF Known, camera
  <2> QED
    BY <2>2, <2>3, <2>4, <2>5, <2>6, TypeParts
<1>7. CASE FlushMsgs \/ Poll \/ WaitMsg \/ WaitMsgPoll
  <2>1. /\ pc' \in {"flush", "read", "idle", "waitmsg", "strict"} /\ after' \in {"idle", after}
        /\ pc' = "flush" => after' = "idle"
        /\ result' \in {result, "none", "done", "timeout"}
        /\ UNCHANGED <<camera, script_id, opts, got, suspended, history, faults>>
    BY <1>7 DEF FlushMsgs, Poll, WaitMsg, WaitMsgPoll, Done
  <2>2. Words' /\ Flags' /\ Known'
    BY <1>1, <2>1, CameraUntouched DEF Words
  <2>3. HostTyped'
    BY <1>1, <2>1 DEF HostTyped, Results
  <2>4. Bounds'
    BY <1>1, <2>1 DEF Bounds, Starting, camera
  <2> QED
    BY <2>2, <2>3, <2>4, TypeParts
<1>8. ASSUME NEW m \in Answers, ReadMsg(m),
             pc' \in {"idle", "flush", "errmsg", "poll", after}, pc \in {"flush", "errmsg", "read", "strict"},
             pc' \in {"flush", after} => pc = "flush" \/ pc' = "idle", result' \in Results,
             got' \in Deliveries
      PROVE  TypeInv'
  <2>1. /\ camq' \in Seq(Messages) /\ Len(camq') <= QueueMax /\ faults' \in 0..MaxFaults
        /\ (camq # <<>> /\ camq' = Tail(camq)) \/ (camq = <<>> /\ camq' = camq)
        /\ UNCHANGED <<proto26, running, finishing, count, lastid, hostq, script_id, opts, after,
                       suspended, history>>
    BY <1>8, ReadMsgEffect DEF TypeInv
  <2>2. Words' /\ Flags' /\ Known'
    BY <2>1, OneMessageLess
  <2>3. HostTyped'
    BY <1>1, <1>8, <2>1 DEF HostTyped
  <2>4. Bounds'
    BY <1>1, <1>8, <2>1 DEF Bounds, Starting, HostTyped
  <2> QED
    BY <2>2, <2>3, <2>4, TypeParts
<1>9. CASE Flush
  <2>1. PICK m \in Answers :
           /\ ReadMsg(m)
           /\ \/ Done("io") \/ Done("ok")
              \/ after # "idle" /\ pc' = after /\ UNCHANGED result
              \/ UNCHANGED <<pc, result>>
    BY <1>9 DEF Flush
  <2>2. pc = "flush" /\ got' = got
    BY <1>9 DEF Flush
  <2> QED
    BY <1>1, <1>8, <2>1, <2>2 DEF Done, HostTyped, Results
<1>10. CASE GetErrorMsg
  <2>1. PICK m \in Answers :
           /\ ReadMsg(m)
           /\ \/ \E how \in {"io", "compile", "compile_msg", "other_msg"} : Done(how)
              \/ UNCHANGED <<pc, result>>
    BY <1>10 DEF GetErrorMsg
  <2>2. pc = "errmsg" /\ got' = got
    BY <1>10 DEF GetErrorMsg
  <2>3. result' \in Results /\ pc' \in {"idle", "errmsg"}
    BY <1>1, <2>1, <2>2 DEF Done, HostTyped, Results
  <2> QED
    BY <1>1, <1>8, <2>1, <2>2, <2>3 DEF HostTyped
<1>11. ASSUME NEW m \in Answers, ReadMsg(m), m.type \notin {"none", "lost"}
       PROVE  Append(got, <<m.id, m.n>>) \in Deliveries
  <2>1. m \in Messages
    BY <1>11, ReadMsgEffect DEF TypeInv
  <2>2. <<m.id, m.n>> \in Ids \X (1..(MaxMsgs + 1))
    BY <2>1, MessageFields
  <2> QED
    BY <1>1, <2>2 DEF HostTyped, Deliveries
<1>12. CASE Read
  <2>1. PICK m \in Answers :
           /\ ReadMsg(m)
           /\ \/ UNCHANGED got /\ \E how \in {"io", "exec_runtime", "wrongmsg"} : Done(how)
              \/ pc' = "poll" /\ UNCHANGED <<got, result>>
              \/ /\ m.type \notin {"none", "lost"} /\ pc' = "poll"
                 /\ got' = Append(got, <<m.id, m.n>>) /\ UNCHANGED result
    BY <1>12 DEF Read
  <2>2. pc = "read" /\ got' \in Deliveries
    BY <1>1, <1>11, <1>12, <2>1 DEF Read, HostTyped
  <2>3. result' \in Results /\ pc' \in {"idle", "poll"}
    BY <1>1, <2>1 DEF Done, HostTyped, Results
  <2>4. pc' \in {"flush", after} => pc = "flush" \/ pc' = "idle"
    BY <1>1, <2>3 DEF HostTyped
  <2> QED
    BY <1>8, <2>1, <2>2, <2>3, <2>4
<1>13. CASE ReadMsgStrict
  <2>1. PICK m \in Answers :
           /\ ReadMsg(m)
           /\ \E how \in {"io", "nomsg", "bad_script_id", "wrongmsg_error", "wrongmsg", "msg"} : Done(how)
           /\ got' = IF Own(m) /\ m.type = "user" THEN Append(got, <<m.id, m.n>>) ELSE got
    BY <1>13 DEF ReadMsgStrict
  <2>2. pc = "strict" /\ got' \in Deliveries
    BY <1>1, <1>11, <1>13, <2>1 DEF ReadMsgStrict, HostTyped
  <2>3. result' \in Results /\ pc' = "idle"
    BY <1>1, <2>1 DEF Done, HostTyped, Results
  <2> QED
    BY <1>8, <2>1, <2>2, <2>3
<1>14. CASE ReadThrows
  <2>1. /\ pc' = "idle" /\ result' = "callback" /\ faults' = faults + 1 /\ faults < MaxFaults
        /\ camq # <<>> /\ camq' = Tail(camq)
        /\ UNCHANGED <<proto26, running, finishing, count, lastid, hostq, script_id, opts, after, got,
                       suspended, history>>
    BY <1>14 DEF ReadThrows, Fault, Done
  <2>2. camq' \in Seq(Messages) /\ Len(camq') <= QueueMax
    BY <1>1, <2>1, TailElements, Numbers DEF Words
  <2>3. Words' /\ Flags' /\ Known'
    BY <2>1, <2>2, OneMessageLess
  <2>4. HostTyped'
    BY <1>1, <2>1, Numbers DEF HostTyped, Results
  <2>5. Bounds'
    BY <1>1, <2>1 DEF Bounds, Starting
  <2> QED
    BY <2>3, <2>4, <2>5, TypeParts
<1>15. CASE WriteMsg
  <2>1. /\ hostq' = hostq \/ (Len(hostq) # QueueMax /\ hostq' = Append(hostq, mine))
        /\ result' \in {"msg_notrun", "msg_badid", "msg_full", "ok"}
        /\ UNCHANGED <<proto26, running, finishing, count, lastid, camq, script_id, pc, opts, after,
                       got, suspended, history, faults>>
    BY <1>15 DEF WriteMsg
  <2>2. hostq' \in Seq(Ids) /\ Len(hostq') <= QueueMax
    <3>1. /\ hostq \in Seq(Ids) /\ Len(hostq) <= QueueMax /\ Len(hostq) \in Nat /\ QueueMax \in Nat
          /\ Append(hostq, mine) \in Seq(Ids) /\ Len(Append(hostq, mine)) = Len(hostq) + 1
      BY <1>1, Numbers DEF Words
    <3> QED
      BY <2>1, <3>1
  <2>3. Words'
    BY <1>1, <2>1, <2>2 DEF Words, history
  <2>4. Flags'
    BY <1>1, <2>1 DEF Flags, history
  <2>5. HostTyped'
    BY <1>1, <2>1 DEF HostTyped, Results
  <2>6. Bounds' /\ Known'
    BY <1>1, <2>1 DEF Bounds, Starting, Known, history
  <2> QED
    BY <2>3, <2>4, <2>5, <2>6, TypeParts
<1> QED
  BY <1>3, <1>4, <1>5, <1>6, <1>7, <1>9, <1>10, <1>12, <1>13, <1>14, <1>15 DEF HostStep, Call

\* What execlua makes of the camera's answer.
LEMMA ExecLuaEffect ==
    ASSUME TypeInv, ExecLua
    PROVE  \E status \in {"none", "compile", "scriptrun"} :
           /\ pc = "exec" /\ lastid < MaxScripts /\ CamExec(ExecFlags, status)
           /\ UNCHANGED <<opts, after, got, suspended>> /\ faults' \in 0..MaxFaults
           /\ \/ pc' = "idle" /\ result' = "io" /\ script_id' = 0
              \/ status = "scriptrun" /\ pc' = "idle" /\ result' = "scriptrun" /\ script_id' \in {0, running}
              \/ status = "compile" /\ pc' = "errmsg" /\ result' = result /\ script_id' = lastid'
              \/ status = "none" /\ pc' = "poll" /\ result' = result /\ script_id' = lastid'
              \/ status = "none" /\ pc' = "idle" /\ result' = "started" /\ script_id' = lastid'
<1>1. lastid < MaxScripts /\ pc = "exec" /\ faults \in 0..MaxFaults
  BY TypeParts DEF ExecLua, Bounds, Starting, HostTyped
<1>2. PICK status \in {"none", "compile", "scriptrun"} :
         /\ CamExec(ExecFlags, status)
         /\ \/ /\ Fault /\ script_id' = 0 /\ Done("io")
            \/ /\ UNCHANGED faults
               /\ script_id' \in IF status = "scriptrun" THEN {0, running} ELSE {lastid'}
               /\ CASE status = "scriptrun" -> Done("scriptrun")
                    [] status = "compile"   -> pc' = "errmsg" /\ UNCHANGED result
                    [] status = "none" /\ opts.wait  -> pc' = "poll" /\ UNCHANGED result
                    [] status = "none" /\ ~opts.wait -> Done("started")
  BY DEF ExecLua
<1>3. faults' \in 0..MaxFaults
  <2>1. Fault \/ UNCHANGED faults
    BY <1>2
  <2> QED
    BY <1>1, <2>1, Numbers DEF Fault
<1>4. UNCHANGED <<opts, after, got, suspended>>
  BY DEF ExecLua
<1>5. \/ pc' = "idle" /\ result' = "io" /\ script_id' = 0
      \/ status = "scriptrun" /\ pc' = "idle" /\ result' = "scriptrun" /\ script_id' \in {0, running}
      \/ status = "compile" /\ pc' = "errmsg" /\ result' = result /\ script_id' = lastid'
      \/ status = "none" /\ pc' = "poll" /\ result' = result /\ script_id' = lastid'
      \/ status = "none" /\ pc' = "idle" /\ result' = "started" /\ script_id' = lastid'
  <2>1. CASE Fault /\ script_id' = 0 /\ Done("io")
    BY <2>1 DEF Done
  <2>2. ASSUME script_id' \in IF status = "scriptrun" THEN {0, running} ELSE {lastid'},
               CASE status = "scriptrun" -> Done("scriptrun")
                 [] status = "compile"   -> pc' = "errmsg" /\ UNCHANGED result
                 [] status = "none" /\ opts.wait  -> pc' = "poll" /\ UNCHANGED result
                 [] status = "none" /\ ~opts.wait -> Done("started")
        PROVE  \/ status = "scriptrun" /\ pc' = "idle" /\ result' = "scriptrun" /\ script_id' \in {0, running}
               \/ status = "compile" /\ pc' = "errmsg" /\ result' = result /\ script_id' = lastid'
               \/ status = "none" /\ pc' = "poll" /\ result' = result /\ script_id' = lastid'
               \/ status = "none" /\ pc' = "idle" /\ result' = "started" /\ script_id' = lastid'
    <3>1. CASE status = "scriptrun"
      BY <2>2, <3>1 DEF Done
    <3>2. CASE status = "compile"
      BY <2>2, <3>2
    <3>3. CASE status = "none" /\ opts.wait
      BY <2>2, <3>3
    <3>4. CASE status = "none" /\ ~opts.wait
      BY <2>2, <3>4 DEF Done
    <3> QED
      BY <3>1, <3>2, <3>3, <3>4
  <2> QED
    BY <1>2, <2>1, <2>2
<1> QED
  BY <1>1, <1>2, <1>3, <1>4, <1>5

\* The start of a script keeps the types and bounds.
LEMMA ExecLuaTypeStep ==
    ASSUME TypeInv, ExecLua PROVE TypeInv'
<1>1. Words /\ Flags /\ HostTyped /\ Bounds /\ Known
  BY TypeParts
<1>2. PICK status \in {"none", "compile", "scriptrun"} :
         /\ lastid < MaxScripts /\ CamExec(ExecFlags, status)
         /\ UNCHANGED <<opts, after, got, suspended>> /\ faults' \in 0..MaxFaults
         /\ pc' \in {"idle", "errmsg", "poll"} /\ result' \in {result, "io", "scriptrun", "started"}
         /\ script_id' \in {0, running, lastid'} /\ (status = "scriptrun" => script_id' \in {0, running})
  BY ExecLuaEffect
<1>3. HostTyped'
  BY <1>1, <1>2 DEF HostTyped, Results
<1>4. ~Starting'
  BY <1>2 DEF Starting
<1>5. CASE status = "scriptrun"
  <2>1. UNCHANGED <<camera, history>> /\ script_id' \in {0, running}
    BY <1>2, <1>5, CamExecEffect
  <2>2. Words' /\ Flags' /\ Known'
    <3>1. script_id' \in Ids /\ suspended' = suspended
      BY <1>1, <1>2, <2>1, Numbers DEF Words
    <3> QED
      BY <2>1, <3>1, CameraUntouched
  <2>3. Bounds'
    BY <1>1, <1>4, <2>1 DEF Bounds, camera
  <2> QED
    BY <1>3, <2>2, <2>3, TypeParts
<1>6. CASE status # "scriptrun"
  <2>1. /\ lastid' = lastid + 1 /\ lastid' \in 1..MaxScripts /\ mine' = lastid'
        /\ finishing' = FALSE /\ count' = 0 /\ checked' = 0 /\ proto26' = proto26
        /\ fresh' = (proto26 /\ opts.flush)
        /\ hostq' = IF "flush_host" \in ExecFlags THEN <<>> ELSE hostq
        /\ running' = IF status = "compile" THEN 0 ELSE lastid'
        /\ camq' \in Seq(Messages) /\ Len(camq') <= QueueMax
        /\ \A i \in 1..Len(camq') : camq'[i].id <= lastid'
        /\ made' \in [1..MaxScripts -> 0..(MaxMsgs + 1)]
        /\ failed' \subseteq 1..MaxScripts
    BY <1>2, <1>6, CamExecEffect
  <2>2. lastid \in Nat /\ lastid' \in Ids /\ 0 \in Ids /\ running \in Ids /\ running' \in Ids
    BY <1>1, <2>1, Numbers DEF Words
  <2>3. hostq' \in Seq(Ids) /\ Len(hostq') <= QueueMax
    <3>1. <<>> \in Seq(Ids) /\ Len(<<>>) <= QueueMax
      BY Numbers
    <3> QED
      BY <1>1, <2>1, <3>1 DEF Words
  <2>4. script_id' \in Ids
    BY <1>2, <2>2
  <2>5. Words'
    BY <2>1, <2>2, <2>3, <2>4, Numbers DEF Words
  <2>6. Flags'
    BY <1>1, <2>1 DEF Flags
  <2>7. Bounds'
    BY <1>4, <2>1, Numbers DEF Bounds
  <2>8. \A i \in 1..Len(suspended') : suspended'[i].mine <= lastid'
    <3>1. \A i \in 1..Len(suspended) : suspended[i].mine \in Nat
      BY <1>1, FrameFields, Numbers DEF HostTyped
    <3> QED
      BY <1>1, <1>2, <2>1, <2>2, <3>1 DEF Known
  <2>9. Known'
    BY <2>1, <2>2, <2>8, Numbers DEF Known
  <2> QED
    BY <1>3, <2>5, <2>6, <2>7, <2>9, TypeParts
<1> QED
  BY <1>5, <1>6

\* Every step keeps the types and bounds.
LEMMA TypeStep == TypeInv /\ [Next]_vars => TypeInv'
<1> SUFFICES ASSUME TypeInv, [Next]_vars PROVE TypeInv'
  OBVIOUS
<1>1. CASE Next
  BY <1>1, CameraTypeStep, HostTypeStep, ExecLuaTypeStep DEF Next
<1>2. CASE UNCHANGED vars
  <2>1. Words /\ Flags /\ HostTyped /\ Bounds /\ Known
    BY TypeParts
  <2>2. UNCHANGED <<camera, history, script_id, suspended>>
    BY <1>2 DEF vars, caller
  <2>3. Words' /\ Flags' /\ Known'
    BY <2>1, <2>2, CameraUntouched DEF Words
  <2>4. HostTyped'
    BY <1>2, <2>1 DEF vars, caller, HostTyped
  <2>5. Bounds'
    BY <1>2, <2>1 DEF vars, caller, camera, Bounds, Starting
  <2> QED
    BY <2>3, <2>4, <2>5, TypeParts
<1> QED
  BY <1>1, <1>2

\* The types and bounds hold when the program starts.
LEMMA TypeInit == Init => TypeInv
<1> SUFFICES ASSUME Init PROVE TypeInv
  OBVIOUS
<1> USE Numbers DEF Init
<1>1. Words
  <2>1. 0 \in 0..(MaxMsgs + 1)
    OBVIOUS
  <2>2. made \in [1..MaxScripts -> 0..(MaxMsgs + 1)]
    BY <2>1
  <2> QED
    BY <2>1, <2>2 DEF Words
<1>2. Flags
  BY DEF Flags
<1>3. HostTyped
  BY DEF HostTyped, Results, Options, Deliveries
<1>4. Bounds /\ Known
  BY DEF Bounds, Known, Starting
<1> QED
  BY <1>1, <1>2, <1>3, <1>4, TypeParts

\* Each variable keeps its type, for any number of scripts, messages and
\* faults and queues of any room.
THEOREM ScriptTyped == Spec => []TypeOK
<1>1. TypeInv => TypeOK
  BY DEF TypeInv
<1> QED
  BY <1>1, TypeInit, TypeStep, PTL DEF Spec

-----------------------------------------------------------------------------
\* The steps of the host that start no script and change no frame.
Quiet ==
    \/ Check \/ Flush \/ GetErrorMsg \/ Poll \/ Read \/ WaitMsgPoll \/ ReadMsgStrict
    \/ FlushMsgs \/ WaitMsg \/ WriteMsg \/ Lost \/ ReadThrows

\* What such a step leaves alone, and where the calls can get to with it.
LEMMA QuietEffect ==
    ASSUME TypeInv, SeenMsgIsThere, pc = "errmsg" => script_id = mine, Quiet
    PROVE  /\ UNCHANGED <<proto26, running, finishing, count, lastid, opts, suspended, mine, made,
                          failed, fresh>>
           /\ hostq' = hostq \/ hostq' = Append(hostq, mine)
           /\ pc' \in {"read", "strict"} => camq' # <<>>
           /\ pc' = "errmsg" => pc = "errmsg" /\ script_id' = script_id
           /\ pc' = "exec" \/ (pc' = "flush" /\ after' = "exec") =>
                 \/ running = 0
                 \/ pc = "flush" /\ after = "exec" /\ checked' = checked
           /\ result' = result \/ result' \notin {"nomsg", "other_msg"}
<1>1. /\ pc \in {"idle", "check", "flush", "exec", "errmsg", "poll", "read", "waitmsg", "strict"}
      /\ after \in {"idle", "exec"}
  BY TypeParts DEF HostTyped
<1>2. CASE Lost
  BY <1>2 DEF Lost, Done, camera, history
<1>3. CASE ReadThrows
  BY <1>3 DEF ReadThrows, Done, history
<1>4. CASE Check
  BY <1>4 DEF Check, Done, camera
<1>5. CASE FlushMsgs \/ Poll \/ WaitMsg \/ WaitMsgPoll
  BY <1>5 DEF FlushMsgs, Poll, WaitMsg, WaitMsgPoll, Done, camera, history
<1>6. CASE WriteMsg
  BY <1>6 DEF WriteMsg, history
<1>7. CASE Flush
  <2>1. PICK m \in Answers :
           /\ ReadMsg(m)
           /\ \/ Done("io") \/ Done("ok")
              \/ after # "idle" /\ pc' = after /\ UNCHANGED result
              \/ UNCHANGED <<pc, result>>
    BY <1>7 DEF Flush
  <2> QED
    BY <1>1, <1>7, <2>1, ReadMsgEffect DEF TypeInv, Flush, Done, history
<1>8. CASE GetErrorMsg
  <2>1. PICK m \in Answers :
           /\ ReadMsg(m)
           /\ \/ Done("io") \/ Done("compile")
              \/ OwnError(m) /\ Done(IF m.id = mine THEN "compile_msg" ELSE "other_msg")
              \/ UNCHANGED <<pc, result>>
    BY <1>8 DEF GetErrorMsg
  <2>2. pc = "errmsg" /\ script_id = mine
    BY <1>8 DEF GetErrorMsg
  <2>3. pc' \in {"idle", "errmsg"} /\ (result' = result \/ result' \notin {"nomsg", "other_msg"})
    BY <2>1, <2>2 DEF Done, OwnError
  <2> QED
    BY <2>1, <2>2, <2>3, ReadMsgEffect DEF TypeInv, history
<1>9. CASE Read
  <2>1. PICK m \in Answers :
           /\ ReadMsg(m)
           /\ \/ \E how \in {"io", "exec_runtime", "wrongmsg"} : Done(how)
              \/ pc' = "poll" /\ UNCHANGED result
    BY <1>9 DEF Read
  <2> QED
    BY <2>1, ReadMsgEffect DEF TypeInv, Done, history
<1>10. CASE ReadMsgStrict
  <2>1. PICK m \in Answers :
           /\ ReadMsg(m)
           /\ \/ \E how \in {"io", "bad_script_id", "wrongmsg_error", "wrongmsg", "msg"} : Done(how)
              \/ m.type = "none"
    BY <1>10 DEF ReadMsgStrict
  <2>2. pc' = "idle"
    BY <1>10 DEF ReadMsgStrict, Done
  <2>3. camq # <<>>
    BY <1>10 DEF ReadMsgStrict, SeenMsgIsThere
  <2>4. m.type # "none"
    BY <2>1, <2>3, ReadMsgEffect, MessageFields DEF TypeInv
  <2> QED
    BY <2>1, <2>2, <2>4, ReadMsgEffect DEF TypeInv, Done, history
<1> QED
  BY <1>2, <1>3, <1>4, <1>5, <1>6, <1>7, <1>8, <1>9, <1>10 DEF Quiet

\* A step of the camera, for the host: a script goes on, ends, takes a message,
\* or one is started by the camera's user with an id nobody knows.
LEMMA CameraEffect ==
    ASSUME TypeInv, Camera
    PROVE  /\ UNCHANGED <<proto26, script_id, pc, opts, after, got, result, suspended, mine, fresh,
                          checked, faults>>
           /\ camq # <<>> => camq' # <<>>
           /\ hostq' = hostq \/ (hostq # <<>> /\ hostq' = Tail(hostq))
           /\ running' = running \/ running' = 0 \/ (running' = lastid + 1 /\ lastid' = lastid + 1)
<1>1. CASE CamMsg \/ CamFinish
  <2>1. PICK type \in {"user", "return", "error"} : CamQueue(type)
    BY <1>1 DEF CamMsg, CamFinish
  <2>2. camq # <<>> => camq' # <<>>
    BY <2>1, CamQueueEffect
  <2> QED
    BY <2>1, <2>2 DEF CamQueue, caller
<1>2. CASE CamEnd \/ CamTake \/ CamUser
  BY <1>2 DEF CamEnd, CamTake, CamUser, caller, history
<1> QED
  BY <1>1, <1>2 DEF Camera

\* The calls that begin or go on with an exec touch neither queue nor script.
LEMMA FrameEffect ==
    ASSUME TypeInv, Exec \/ Callback \/ Resume
    PROVE  /\ UNCHANGED <<camera, script_id, made, failed, fresh, faults>>
           /\ result' = "none"
           /\ \/ /\ pc' = (IF ~proto26 /\ ~opts'.clobber THEN "check" ELSE "exec") /\ after' = "exec"
                 /\ got' = <<>> /\ checked' = 0 /\ mine' = mine
                 /\ suspended' = suspended \/ (Len(suspended') = 1 /\ suspended'[1].mine = mine)
              \/ /\ pc' \in {"poll", "waitmsg"} /\ suspended' = <<>> /\ checked' = checked
                 /\ 1 \in 1..Len(suspended) /\ mine' = suspended[1].mine
<1>1. suspended \in Seq(Frames)
  BY TypeParts DEF HostTyped
<1>2. CASE Exec
  BY <1>2 DEF Exec, BeginExec
<1>3. CASE Callback
  <2>1. suspended' = <<[pc |-> pc, opts |-> opts, got |-> got, mine |-> mine]>>
    BY <1>3 DEF Callback
  <2> QED
    BY <1>3, <2>1 DEF Callback, BeginExec
<1>4. CASE Resume
  <2>1. 1 \in 1..Len(suspended) /\ suspended[1] \in Frames
    BY <1>1, <1>4, TailElements DEF Resume
  <2>2. suspended[1].pc \in {"poll", "waitmsg"}
    BY <2>1, FrameFields
  <2> QED
    BY <1>4, <2>1, <2>2 DEF Resume
<1> QED
  BY <1>2, <1>3, <1>4

\* Every step is one of these.
LEMMA NextKinds ==
    [Next]_vars => Camera \/ Quiet \/ ExecLua \/ Exec \/ Callback \/ Resume \/ UNCHANGED vars
  BY DEF Next, HostStep, Call, Quiet

\* A message the host has seen stays there until it is read.
LEMMA SeenStep == TypeInv /\ SeenMsgIsThere /\ Owners /\ [Next]_vars => SeenMsgIsThere'
<1> SUFFICES ASSUME TypeInv, SeenMsgIsThere, Owners, [Next]_vars PROVE SeenMsgIsThere'
  OBVIOUS
<1> USE DEF SeenMsgIsThere
<1>1. CASE Camera
  BY <1>1, CameraEffect
<1>2. CASE Quiet
  BY <1>2, QuietEffect DEF Owners
<1>3. CASE ExecLua
  BY <1>3, ExecLuaEffect
<1>4. CASE Exec \/ Callback \/ Resume
  BY <1>4, FrameEffect
<1>5. CASE UNCHANGED vars
  BY <1>5 DEF vars, camera, caller
<1> QED
  BY <1>1, <1>2, <1>3, <1>4, <1>5, NextKinds

\* Nothing that was running when exec looked runs when it starts its script.
LEMMA LookedStep == TypeInv /\ SeenMsgIsThere /\ Owners /\ Looked /\ [Next]_vars => Looked'
<1> SUFFICES ASSUME TypeInv, SeenMsgIsThere, Owners, Looked, [Next]_vars PROVE Looked'
  OBVIOUS
<1>1. running \in Nat /\ lastid \in Nat /\ checked \in Nat /\ checked <= lastid
      /\ pc \in {"idle", "check", "flush", "exec", "errmsg", "poll", "read", "waitmsg", "strict"}
  BY TypeParts, Numbers DEF Words, Known, HostTyped
<1>2. CASE Camera
  <2>1. running' = running \/ running' = 0 \/ running' > checked
    BY <1>1, <1>2, CameraEffect
  <2>2. UNCHANGED <<proto26, pc, opts, after, checked>>
    BY <1>2, CameraEffect
  <2> QED
    BY <2>1, <2>2 DEF Looked, Starting
<1>3. CASE Quiet
  <2>1. UNCHANGED <<proto26, running, opts>>
    BY <1>3, QuietEffect DEF Owners
  <2>2. pc' = "exec" \/ (pc' = "flush" /\ after' = "exec") =>
           running = 0 \/ (pc = "flush" /\ after = "exec" /\ checked' = checked)
    BY <1>3, QuietEffect DEF Owners
  <2> QED
    BY <2>1, <2>2 DEF Looked, Starting
<1>4. CASE ExecLua
  BY <1>4, ExecLuaEffect DEF Looked, Starting
<1>5. CASE Exec \/ Callback \/ Resume
  <2>1. UNCHANGED camera
    BY <1>5, FrameEffect
  <2>2. \/ pc' = IF ~proto26 /\ ~opts'.clobber THEN "check" ELSE "exec"
        \/ pc' \in {"poll", "waitmsg"}
    BY <1>5, FrameEffect
  <2> QED
    BY <2>1, <2>2 DEF Looked, Starting, camera
<1>6. CASE UNCHANGED vars
  BY <1>6 DEF vars, camera, caller, history, Looked, Starting
<1> QED
  BY <1>2, <1>3, <1>4, <1>5, <1>6, NextKinds

\* What the coroutine's script could be taken for.
Apart ==
    \A i \in 1..Len(suspended) :
        \/ mine = suspended[i].mine
        \/ ~fresh
        \/ running = 0 \/ running # suspended[i].mine

\* Each queue, and script_id, is its owner's in every step.
LEMMA OwnersStep == TypeInv /\ SeenMsgIsThere /\ Owners /\ [Next]_vars => Owners'
<1> SUFFICES ASSUME TypeInv, SeenMsgIsThere, Owners, [Next]_vars PROVE Owners'
  OBVIOUS
<1>1. /\ pc = "errmsg" => script_id = mine
      /\ result # "other_msg" /\ HostMsgsOwn /\ Apart
  BY DEF Owners, MessagesOwn, CompileErrorIsOwn, Apart
<1>2. /\ lastid \in Nat /\ mine \in Nat /\ mine <= lastid /\ hostq \in Seq(Ids) /\ mine \in Ids
      /\ DOMAIN hostq = 1..Len(hostq) /\ proto26 \in BOOLEAN /\ fresh \in BOOLEAN
      /\ opts \in Options
  BY TypeParts, Numbers DEF Words, Known, Flags, HostTyped
<1>3. \A i \in 1..Len(suspended) : suspended[i].mine <= lastid /\ suspended[i].mine \in Nat
  BY TypeParts, FrameFields, Numbers DEF Known, HostTyped
<1>4. SUFFICES /\ pc' = "errmsg" => script_id' = mine'
               /\ result' # "other_msg" /\ HostMsgsOwn' /\ Apart'
  BY DEF Owners, MessagesOwn, CompileErrorIsOwn, Apart
<1>5. CASE Camera
  <2>1. /\ UNCHANGED <<script_id, pc, result, suspended, mine, fresh>>
        /\ hostq' = hostq \/ (hostq # <<>> /\ hostq' = Tail(hostq))
        /\ running' = running \/ running' = 0 \/ running' = lastid + 1
    BY <1>5, CameraEffect
  <2>2. hostq' \in Seq(Ids) /\ \A i \in DOMAIN hostq' : \E j \in DOMAIN hostq : hostq'[i] = hostq[j]
    <3>1. CASE hostq' = hostq
      BY <1>2, <3>1
    <3>2. CASE hostq # <<>> /\ hostq' = Tail(hostq)
      <4>1. /\ Tail(hostq) \in Seq(Ids)
            /\ \A i \in 1..Len(Tail(hostq)) : i + 1 \in 1..Len(hostq) /\ Tail(hostq)[i] = hostq[i + 1]
        BY <1>2, <3>2, TailElements
      <4>2. DOMAIN Tail(hostq) = 1..Len(Tail(hostq))
        BY <4>1
      <4> QED
        BY <1>2, <3>2, <4>1, <4>2
    <3> QED
      BY <2>1, <3>1, <3>2
  <2>3. HostMsgsOwn'
    <3>1. SUFFICES ASSUME running' # 0, running' = mine, fresh PROVE \A i \in DOMAIN hostq' : hostq'[i] = mine
      BY <2>1 DEF HostMsgsOwn
    <3>2. running' = running
      BY <1>2, <2>1, <3>1
    <3>3. \A j \in DOMAIN hostq : hostq[j] = mine
      BY <1>1, <3>1, <3>2 DEF HostMsgsOwn
    <3> QED
      BY <2>2, <3>3
  <2>4. Apart'
    <3> SUFFICES ASSUME NEW i \in 1..Len(suspended)
                 PROVE  \/ mine = suspended[i].mine \/ ~fresh \/ running' = 0
                        \/ running' # suspended[i].mine
      BY <2>1 DEF Apart
    <3>1. lastid + 1 # suspended[i].mine
      BY <1>2, <1>3
    <3> QED
      BY <1>1, <2>1, <3>1 DEF Apart
  <2> QED
    BY <1>1, <2>1, <2>3, <2>4
<1>6. CASE Quiet
  <2>1. /\ UNCHANGED <<running, suspended, mine, fresh>>
        /\ hostq' = hostq \/ hostq' = Append(hostq, mine)
        /\ pc' = "errmsg" => pc = "errmsg" /\ script_id' = script_id
        /\ result' = result \/ result' # "other_msg"
    BY <1>1, <1>6, QuietEffect
  <2>2. HostMsgsOwn'
    <3>1. /\ DOMAIN Append(hostq, mine) = 1..(Len(hostq) + 1) /\ Append(hostq, mine)[Len(hostq) + 1] = mine
          /\ Len(hostq) \in Nat /\ \A i \in 1..Len(hostq) : Append(hostq, mine)[i] = hostq[i]
      BY <1>2
    <3>2. SUFFICES ASSUME running # 0, running = mine, fresh, NEW i \in DOMAIN hostq' PROVE hostq'[i] = mine
      BY <2>1 DEF HostMsgsOwn
    <3>3. \A j \in DOMAIN hostq : hostq[j] = mine
      BY <1>1, <3>2 DEF HostMsgsOwn
    <3>4. CASE hostq' = hostq
      BY <3>2, <3>3, <3>4
    <3>5. CASE hostq' = Append(hostq, mine)
      <4>1. i \in 1..Len(hostq) \/ i = Len(hostq) + 1
        BY <3>1, <3>2, <3>5
      <4> QED
        BY <1>2, <3>1, <3>3, <3>5, <4>1
    <3> QED
      BY <2>1, <3>4, <3>5
  <2>3. Apart'
    BY <1>1, <2>1 DEF Apart
  <2> QED
    BY <1>1, <2>1, <2>2, <2>3
<1>7. CASE ExecLua
  <2>1. PICK status \in {"none", "compile", "scriptrun"} :
           /\ lastid < MaxScripts /\ CamExec(ExecFlags, status) /\ UNCHANGED <<opts, suspended>>
           /\ pc' \in {"idle", "poll"} \/ (status = "compile" /\ script_id' = lastid')
           /\ result' = result \/ result' # "other_msg"
    BY <1>7, ExecLuaEffect
  <2>2. status = "scriptrun" => UNCHANGED <<camera, history>>
    BY <2>1, CamExecEffect
  <2>3. status # "scriptrun" =>
           /\ lastid' = lastid + 1 /\ mine' = lastid' /\ fresh' = (proto26 /\ opts.flush)
           /\ hostq' = IF "flush_host" \in ExecFlags THEN <<>> ELSE hostq
           /\ running' = IF status = "compile" THEN 0 ELSE lastid'
    BY <2>1, CamExecEffect
  <2>4. CASE status = "scriptrun"
    BY <1>1, <2>1, <2>2, <2>4 DEF HostMsgsOwn, Apart, camera, history
  <2>5. CASE status # "scriptrun"
    <3>1. fresh' => hostq' = <<>>
      BY <2>3, <2>5 DEF ExecFlags, Flags26
    <3>2. HostMsgsOwn'
      BY <3>1 DEF HostMsgsOwn
    <3>3. Apart'
      <4> SUFFICES ASSUME NEW i \in 1..Len(suspended) PROVE running' = 0 \/ running' # suspended[i].mine
        BY <2>1 DEF Apart
      <4>1. lastid + 1 # suspended[i].mine
        BY <1>2, <1>3
      <4> QED
        BY <2>3, <2>5, <4>1
    <3> QED
      BY <1>1, <2>1, <2>3, <2>5, <3>2, <3>3
  <2> QED
    BY <2>4, <2>5
<1>8. CASE Exec \/ Callback \/ Resume
  <2>1. /\ UNCHANGED <<running, hostq, script_id, fresh>> /\ result' = "none"
        /\ pc' # "errmsg"
        /\ \/ /\ mine' = mine
              /\ suspended' = suspended \/ (Len(suspended') = 1 /\ suspended'[1].mine = mine)
           \/ /\ suspended' = <<>> /\ 1 \in 1..Len(suspended) /\ mine' = suspended[1].mine
    BY <1>8, FrameEffect DEF camera
  <2>2. HostMsgsOwn'
    BY <1>1, <2>1 DEF HostMsgsOwn, Apart
  <2>3. Apart'
    <3>1. Len(<<>>) = 0
      OBVIOUS
    <3> QED
      BY <1>1, <2>1, <3>1 DEF Apart
  <2> QED
    BY <2>1, <2>2, <2>3
<1>9. CASE UNCHANGED vars
  BY <1>1, <1>9 DEF vars, camera, caller, history, HostMsgsOwn, Apart
<1> QED
  BY <1>5, <1>6, <1>7, <1>8, <1>9, NextKinds

\* The invariant holds when the program starts.
LEMMA InvInit == Init => IInv
<1> SUFFICES ASSUME Init PROVE IInv
  OBVIOUS
<1>1. SeenMsgIsThere /\ Looked
  BY DEF Init, SeenMsgIsThere, Looked, Starting
<1>2. Owners
  <2>1. Len(<<>>) = 0
    OBVIOUS
  <2> QED
    BY <2>1 DEF Init, Owners, MessagesOwn, CompileErrorIsOwn, HostMsgsOwn
<1> QED
  BY <1>1, <1>2, TypeInit DEF IInv

\* Every step keeps the invariant.
LEMMA InvStep == IInv /\ [Next]_vars => IInv'
  BY TypeStep, SeenStep, LookedStep, OwnersStep DEF IInv

\* wait_status and the read after it are two transactions, and yet nobody takes
\* the message in between: the errors of read_msg_strict and exec for a missing
\* message are never raised, in the GUI neither.
THEOREM ScriptSeen == Spec => []SeenMsgIsThere
<1>1. IInv => SeenMsgIsThere
  BY DEF IInv
<1> QED
  BY <1>1, InvInit, InvStep, PTL DEF Spec

\* A compile error comes with its own script's message, and what is queued for
\* the running script was written after it had been started, if its exec flushed.
THEOREM ScriptMessagesOwn == Spec => []MessagesOwn
<1>1. IInv => MessagesOwn
  BY DEF IInv, Owners
<1> QED
  BY <1>1, InvInit, InvStep, PTL DEF Spec

\* The transaction that starts the script leaves a running script alone, or
\* one that exec has not seen.
LEMMA ClobberStep ==
    ASSUME IInv, [Next]_vars, pc = "exec", pc' # "exec", ~opts.clobber, running # 0
    PROVE  running' = running \/ (~proto26 /\ running > checked)
<1>1. TypeInv /\ SeenMsgIsThere /\ Owners /\ Looked
  BY DEF IInv
<1>2. Exec \/ Callback \/ Resume => pc # "exec"
  <2>1. Exec \/ Callback => pc # "exec"
    BY DEF Exec, Callback
  <2>2. Resume => pc # "exec"
    BY DEF Resume
  <2> QED
    BY <2>1, <2>2
<1>3. CASE Camera
  BY <1>1, <1>3, CameraEffect
<1>4. CASE Quiet
  BY <1>1, <1>4, QuietEffect DEF Owners
<1>5. CASE ExecLua
  <2>1. PICK status \in {"none", "compile", "scriptrun"} :
           lastid < MaxScripts /\ CamExec(ExecFlags, status)
    BY <1>1, <1>5, ExecLuaEffect
  <2>2. /\ status = "scriptrun" <=> "nokill" \in ExecFlags
        /\ status = "scriptrun" => running' = running
    BY <1>1, <2>1, CamExecEffect DEF camera
  <2>3. proto26 => "nokill" \in ExecFlags
    BY DEF ExecFlags, Flags26
  <2> QED
    BY <1>1, <2>2, <2>3 DEF Looked, Starting
<1>6. CASE UNCHANGED vars
  BY <1>6 DEF vars
<1> QED
  BY <1>2, <1>3, <1>4, <1>5, <1>6, NextKinds

\* exec without clobber kills no script, or, before protocol 2.6, where it can
\* only ask first, none that was there when it asked.
THEOREM ScriptNoClobber == Spec => NoClobber
<1>1. IInv /\ [Next]_vars =>
         [(pc = "exec" /\ pc' # "exec" /\ ~opts.clobber /\ running # 0)
             => \/ running' = running
                \/ ~proto26 /\ running > checked]_vars
  BY ClobberStep
<1> QED
  BY <1>1, InvInit, InvStep, PTL DEF Spec, NoClobber

-----------------------------------------------------------------------------
\* A queue without messages of a script has a block of none, at its end.
LEMMA BlockNone ==
    ASSUME NEW q \in Seq(Messages), NEW id \in Nat, NEW k \in Nat, \A i \in 1..Len(q) : q[i].id # id
    PROVE  Len(q) \in 0..Len(q) /\ Block(q, id, Len(q), 0, k)
  BY DEF Block

\* Reading a message of another script moves the block.
LEMMA BlockOther ==
    ASSUME NEW q \in Seq(Messages), q # <<>>, NEW id \in Nat, NEW f \in 0..Len(q), NEW l \in Nat, NEW k \in Nat,
           Block(q, id, f, l, k), q[1].id # id
    PROVE  \E g \in 0..Len(Tail(q)) :
              Block(Tail(q), id, g, l, k) /\ (f + l = Len(q) => g + l = Len(Tail(q)))
<1>1. /\ Len(q) \in Nat \ {0} /\ 1 \in 1..Len(q) /\ Len(Tail(q)) = Len(q) - 1
      /\ \A i \in 1..Len(Tail(q)) : i + 1 \in 1..Len(q) /\ Tail(q)[i] = q[i + 1]
  BY TailElements
<1>2. /\ f + l <= Len(q)
      /\ \A i \in 1..Len(q) : (q[i].id = id <=> (f < i /\ i <= f + l)) /\ (q[i].id = id => q[i].n = k + (i - f))
  BY DEF Block
<1>3. f = 0 => l = 0
  BY <1>1, <1>2
<1>4. CASE f = 0
  <2>1. Block(Tail(q), id, 0, l, k)
    BY <1>1, <1>2, <1>3, <1>4 DEF Block
  <2>2. 0 \in 0..Len(Tail(q))
    BY <1>1
  <2>3. f + l # Len(q)
    BY <1>1, <1>3, <1>4
  <2> QED
    BY <1>4, <2>1, <2>2, <2>3
<1>5. CASE f # 0
  <2>1. f - 1 \in 0..Len(Tail(q)) /\ (f - 1) + l <= Len(Tail(q))
    BY <1>1, <1>2, <1>5
  <2>2. ASSUME NEW i \in 1..Len(Tail(q))
        PROVE  /\ Tail(q)[i].id = id <=> (f - 1 < i /\ i <= (f - 1) + l)
               /\ Tail(q)[i].id = id => Tail(q)[i].n = k + (i - (f - 1))
    <3>1. i + 1 \in 1..Len(q) /\ Tail(q)[i] = q[i + 1] /\ i \in Nat
      BY <1>1
    <3>2. (q[i + 1].id = id <=> (f < i + 1 /\ i + 1 <= f + l)) /\ (q[i + 1].id = id => q[i + 1].n = k + ((i + 1) - f))
      BY <1>2, <3>1
    <3> QED
      BY <3>1, <3>2
  <2>3. Block(Tail(q), id, f - 1, l, k)
    BY <2>1, <2>2 DEF Block
  <2>4. f + l = Len(q) => (f - 1) + l = Len(Tail(q))
    <3>1. \A n, m \in Nat : m = n - 1 => (f + l = n => (f - 1) + l = m)
      OBVIOUS
    <3>2. Len(q) \in Nat /\ Len(Tail(q)) \in Nat
      BY <1>1
    <3> QED
      BY <1>1, <3>1, <3>2, Zenon
  <2> QED
    BY <2>1, <2>3, <2>4
<1> QED
  BY <1>4, <1>5

\* Reading the script's own message: it is the next, and the block begins after it.
LEMMA BlockOwn ==
    ASSUME NEW q \in Seq(Messages), q # <<>>, NEW id \in Nat, NEW f \in 0..Len(q), NEW l \in Nat, NEW k \in Nat,
           Block(q, id, f, l, k), q[1].id = id
    PROVE  f = 0 /\ l - 1 \in Nat /\ q[1].n = k + 1 /\ Block(Tail(q), id, 0, l - 1, k + 1)
<1>1. /\ Len(q) \in Nat \ {0} /\ 1 \in 1..Len(q) /\ Len(Tail(q)) = Len(q) - 1
      /\ \A i \in 1..Len(Tail(q)) : i + 1 \in 1..Len(q) /\ Tail(q)[i] = q[i + 1]
  BY TailElements
<1>2. /\ f + l <= Len(q)
      /\ \A i \in 1..Len(q) : (q[i].id = id <=> (f < i /\ i <= f + l)) /\ (q[i].id = id => q[i].n = k + (i - f))
  BY DEF Block
<1>3. f < 1 /\ 1 <= f + l /\ q[1].n = k + (1 - f)
  BY <1>1, <1>2
<1>4. f = 0 /\ l - 1 \in Nat /\ q[1].n = k + 1
  BY <1>3
<1>5. 0 + (l - 1) <= Len(Tail(q))
  BY <1>1, <1>2, <1>4
<1>6. ASSUME NEW i \in 1..Len(Tail(q))
      PROVE  /\ Tail(q)[i].id = id <=> (0 < i /\ i <= 0 + (l - 1))
             /\ Tail(q)[i].id = id => Tail(q)[i].n = (k + 1) + (i - 0)
  <2>1. i + 1 \in 1..Len(q) /\ Tail(q)[i] = q[i + 1] /\ i \in Nat /\ i > 0
    BY <1>1
  <2>2. (q[i + 1].id = id <=> (f < i + 1 /\ i + 1 <= f + l)) /\ (q[i + 1].id = id => q[i + 1].n = k + ((i + 1) - f))
    BY <1>2, <2>1
  <2> QED
    BY <1>4, <2>1, <2>2
<1> QED
  BY <1>4, <1>5, <1>6 DEF Block

\* A message queued at the end: another script's changes no block, the script's
\* own makes the block longer if it is the last.
LEMMA BlockQueued ==
    ASSUME NEW q \in Seq(Messages), NEW r \in Seq(Messages), Len(r) = Len(q) + 1,
           \A i \in 1..Len(q) : r[i] = q[i],
           NEW id \in Nat, NEW f \in 0..Len(q), NEW l \in Nat, NEW k \in Nat, Block(q, id, f, l, k)
    PROVE  /\ r[Len(q) + 1].id # id => Block(r, id, f, l, k)
           /\ r[Len(q) + 1].id = id /\ f + l = Len(q) /\ r[Len(q) + 1].n = k + (l + 1)
                 => Block(r, id, f, l + 1, k)
<1>1. /\ f + l <= Len(q) /\ Len(q) \in Nat
      /\ \A i \in 1..Len(q) : (q[i].id = id <=> (f < i /\ i <= f + l)) /\ (q[i].id = id => q[i].n = k + (i - f))
  BY DEF Block
<1>2. \A i \in 1..Len(r) : i \in Nat /\ (i \in 1..Len(q) \/ i = Len(q) + 1)
  BY <1>1
<1>3. ASSUME r[Len(q) + 1].id # id PROVE Block(r, id, f, l, k)
  <2>1. ASSUME NEW i \in 1..Len(r)
        PROVE  /\ r[i].id = id <=> (f < i /\ i <= f + l)
               /\ r[i].id = id => r[i].n = k + (i - f)
    <3>1. CASE i \in 1..Len(q)
      BY <1>1, <3>1
    <3>2. CASE i = Len(q) + 1
      BY <1>1, <1>3, <3>2
    <3> QED
      BY <1>2, <3>1, <3>2
  <2> QED
    BY <1>1, <2>1 DEF Block
<1>4. ASSUME r[Len(q) + 1].id = id, f + l = Len(q), r[Len(q) + 1].n = k + (l + 1)
      PROVE  Block(r, id, f, l + 1, k)
  <2>1. ASSUME NEW i \in 1..Len(r)
        PROVE  /\ r[i].id = id <=> (f < i /\ i <= f + (l + 1))
               /\ r[i].id = id => r[i].n = k + (i - f)
    <3>1. CASE i \in 1..Len(q)
      BY <1>1, <1>4, <3>1
    <3>2. CASE i = Len(q) + 1
      <4>1. f \in Nat /\ l \in Nat /\ i = (f + l) + 1
        BY <1>1, <1>4, <3>2
      <4>2. f < i /\ i <= f + (l + 1) /\ l + 1 = i - f
        BY <4>1
      <4>3. r[i].n = k + (i - f) /\ r[i].id = id
        BY <1>4, <3>2, <4>2
      <4> QED
        BY <4>2, <4>3
    <3> QED
      BY <1>2, <3>1, <3>2
  <2> QED
    BY <1>1, <1>4, <2>1 DEF Block
<1> QED
  BY <1>3, <1>4

\* What the loop of exec knows of its script, with a witness.
LEMMA WaitingParts ==
    ASSUME TypeInv, Waiting
    PROVE  /\ mine \in 1..MaxScripts /\ mine \in Nat /\ made[mine] \in Nat /\ Len(got) \in Nat
           /\ camq \in Seq(Messages) /\ Len(camq) \in Nat
           /\ \E f \in 0..Len(camq), l \in Nat :
                 /\ made[mine] = Len(got) + l /\ l = made[mine] - Len(got)
                 /\ Block(camq, mine, f, l, Len(got))
                 /\ running = mine => f + l = Len(camq)
<1>1. /\ mine \in Ids /\ mine # 0 /\ made \in [1..MaxScripts -> 0..(MaxMsgs + 1)] /\ got \in Deliveries
      /\ camq \in Seq(Messages)
  BY TypeParts DEF Words, HostTyped, Waiting
<1>2. /\ mine \in 1..MaxScripts /\ mine \in Nat /\ made[mine] \in Nat /\ Len(got) \in Nat
      /\ Len(camq) \in Nat
  BY <1>1, Numbers DEF Deliveries
<1>3. PICK f \in 0..Len(camq) : Neighbours(f)
  BY DEF Waiting
<1> DEFINE l == made[mine] - Len(got)
<1>4. l \in Nat /\ made[mine] = Len(got) + l
  BY <1>2, <1>3 DEF Neighbours
<1>5. Block(camq, mine, f, l, Len(got)) /\ (running = mine => f + l = Len(camq))
  BY <1>3 DEF Neighbours
<1> QED
  BY <1>1, <1>2, <1>4, <1>5

\* The other way round.
LEMMA WaitingFrom ==
    ASSUME TypeInv', mine' # 0, script_id' = mine',
           \A i \in 1..Len(got') : got'[i] = <<mine', i>>,
           running' = mine' => count' = made'[mine'],
           NEW f \in 0..Len(camq'), NEW l \in Nat, made'[mine'] = Len(got') + l,
           Block(camq', mine', f, l, Len(got')), running' = mine' => f + l = Len(camq'),
           mine' \in failed' => \E i \in 1..Len(camq') : camq'[i].id = mine' /\ camq'[i].type = "error"
    PROVE  Waiting'
<1>1. got' \in Deliveries
  BY TypeParts DEF HostTyped
<1>2. Len(got') \in Nat
  BY <1>1 DEF Deliveries
<1>3. made'[mine'] - Len(got') = l
  BY <1>2
<1>4. Neighbours(f)'
  BY <1>3 DEF Neighbours
<1> QED
  BY <1>4 DEF Waiting

\* While the host waits, the script queues: its messages stay neighbours.
LEMMA WaitingQueued ==
    ASSUME TypeInv, TypeInv', suspended = <<>>, Waiting, NEW type \in {"user", "return", "error"}, CamQueue(type)
    PROVE  Waiting'
<1>1. /\ mine \in 1..MaxScripts /\ mine \in Nat /\ made[mine] \in Nat /\ Len(got) \in Nat
      /\ camq \in Seq(Messages) /\ Len(camq) \in Nat
  BY WaitingParts
<1>2. PICK f \in 0..Len(camq), l \in Nat :
         /\ made[mine] = Len(got) + l /\ Block(camq, mine, f, l, Len(got))
         /\ running = mine => f + l = Len(camq)
  BY WaitingParts
<1>3. /\ script_id = mine /\ mine # 0 /\ \A i \in 1..Len(got) : got[i] = <<mine, i>>
      /\ running = mine => count = made[mine]
      /\ mine \in failed => \E i \in 1..Len(camq) : camq[i].id = mine /\ camq[i].type = "error"
  BY DEF Waiting
<1>4. /\ camq' \in Seq(Messages) /\ \A i \in 1..Len(camq) : camq'[i] = camq[i]
      /\ \/ camq' = camq /\ count' = count
         \/ /\ Len(camq') = Len(camq) + 1 /\ count' = count + 1
            /\ camq'[Len(camq) + 1].id = running /\ camq'[Len(camq) + 1].n = count + 1
            /\ camq'[Len(camq) + 1].type = type
      /\ running \in Nat /\ count \in Nat
  BY CamQueueEffect, Numbers
<1>5. Mine = {mine}
  BY DEF Mine
<1>6. /\ UNCHANGED <<running, script_id, mine, got>>
      /\ made' = IF running = mine THEN [made EXCEPT ![running] = count'] ELSE made
      /\ failed' = IF type = "error" /\ camq' # camq /\ running = mine THEN failed \cup {running} ELSE failed
  BY <1>5 DEF CamQueue, caller
<1>7. made \in [1..MaxScripts -> 0..(MaxMsgs + 1)]
  BY TypeParts DEF Words
<1>8. CASE camq' = camq
  <2>1. count' = count
    BY <1>1, <1>4, <1>8
  <2>2. made'[mine] = made[mine] /\ failed' = failed /\ (running = mine => count' = made'[mine])
    BY <1>1, <1>3, <1>6, <1>7, <1>8, <2>1
  <2> QED
    BY <1>1, <1>2, <1>3, <1>6, <1>8, <2>2, WaitingFrom
<1>9. CASE Len(camq') = Len(camq) + 1 /\ camq' # camq
  <2>1. /\ count' = count + 1 /\ camq'[Len(camq) + 1].id = running /\ camq'[Len(camq) + 1].n = count + 1
        /\ camq'[Len(camq) + 1].type = type
    BY <1>4, <1>9
  <2>2. Len(camq) + 1 \in 1..Len(camq') /\ f \in 0..Len(camq') /\ \A i \in 1..Len(camq) : i \in 1..Len(camq')
    BY <1>1, <1>9
  <2>3. mine \in failed' => \E i \in 1..Len(camq') : camq'[i].id = mine /\ camq'[i].type = "error"
    <3> SUFFICES ASSUME mine \in failed' PROVE \E i \in 1..Len(camq') : camq'[i].id = mine /\ camq'[i].type = "error"
      OBVIOUS
    <3>1. CASE mine \in failed
      BY <1>3, <1>4, <2>2, <3>1
    <3>2. CASE mine \notin failed
      BY <1>6, <2>1, <2>2, <3>2
    <3> QED
      BY <3>1, <3>2
  <2>4. CASE running = mine
    <3>1. count = made[mine] /\ f + l = Len(camq) /\ made'[mine] = count + 1
      BY <1>1, <1>2, <1>3, <1>6, <1>7, <2>1, <2>4
    <3>2. camq'[Len(camq) + 1].n = Len(got) + (l + 1) /\ l + 1 \in Nat /\ made'[mine] = Len(got) + (l + 1)
      BY <1>1, <1>2, <2>1, <3>1
    <3>3. Block(camq', mine, f, l + 1, Len(got))
      BY <1>1, <1>2, <1>4, <1>9, <2>1, <2>4, <3>1, <3>2, BlockQueued
    <3>4. f + (l + 1) = Len(camq')
      BY <1>1, <1>9, <3>1
    <3> QED
      BY <1>1, <1>3, <1>6, <2>1, <2>2, <2>3, <3>1, <3>2, <3>3, <3>4, WaitingFrom
  <2>5. CASE running # mine
    <3>1. Block(camq', mine, f, l, Len(got))
      BY <1>1, <1>2, <1>4, <1>9, <2>1, <2>5, BlockQueued
    <3> QED
      BY <1>1, <1>2, <1>3, <1>6, <2>2, <2>3, <2>5, <3>1, WaitingFrom
  <2> QED
    BY <2>4, <2>5
<1> QED
  BY <1>1, <1>4, <1>8, <1>9

\* exec reads a message and goes on waiting: its own script's is the next one.
LEMMA WaitingRead ==
    ASSUME TypeInv, TypeInv', Waiting, pc = "read", camq # <<>>, Read, pc' = "poll"
    PROVE  Waiting' /\ result' = result
<1>1. /\ mine \in 1..MaxScripts /\ mine \in Nat /\ made[mine] \in Nat /\ Len(got) \in Nat
      /\ camq \in Seq(Messages) /\ Len(camq) \in Nat
  BY WaitingParts
<1>2. PICK f \in 0..Len(camq), l \in Nat :
         /\ made[mine] = Len(got) + l /\ Block(camq, mine, f, l, Len(got))
         /\ running = mine => f + l = Len(camq)
  BY WaitingParts
<1>3. /\ script_id = mine /\ mine # 0 /\ \A i \in 1..Len(got) : got[i] = <<mine, i>>
      /\ running = mine => count = made[mine]
      /\ mine \in failed => \E i \in 1..Len(camq) : camq[i].id = mine /\ camq[i].type = "error"
  BY DEF Waiting
<1>4. PICK m \in Answers :
         /\ ReadMsg(m) /\ m.type # "lost" /\ result' = result
         /\ \/ ~Own(m) /\ got' = got
            \/ Own(m) /\ m.type # "error" /\ m.type # "none" /\ got' = Append(got, <<m.id, m.n>>)
  <2>1. PICK m \in Answers :
           /\ ReadMsg(m)
           /\ IF m.type = "lost" THEN Done("io") /\ UNCHANGED got
              ELSE IF ~Own(m) THEN pc' = "poll" /\ UNCHANGED <<got, result>>
              ELSE IF m.type = "error" THEN Done("exec_runtime") /\ UNCHANGED got
              ELSE IF m.type = "none" THEN Done("wrongmsg") /\ UNCHANGED got
              ELSE pc' = "poll" /\ got' = Append(got, <<m.id, m.n>>) /\ UNCHANGED result
    BY DEF Read
  <2> QED
    BY <2>1 DEF Done
<1>5. /\ m = camq[1] /\ camq' = Tail(camq)
      /\ UNCHANGED <<running, count, script_id, mine, made, failed>>
  BY <1>4, ReadMsgEffect, MessageFields DEF TypeInv, history
<1>6. /\ Len(camq') = Len(camq) - 1 /\ Len(camq') \in Nat
      /\ \A i \in 1..Len(camq') : i + 1 \in 1..Len(camq) /\ camq'[i] = camq[i + 1]
  BY <1>1, <1>5, TailElements
<1>7. ASSUME camq[1].id # mine \/ camq[1].type # "error", mine \in failed
      PROVE  \E i \in 1..Len(camq') : camq'[i].id = mine /\ camq'[i].type = "error"
  <2>1. PICK i \in 1..Len(camq) : camq[i].id = mine /\ camq[i].type = "error"
    BY <1>3, <1>7
  <2>2. i # 1
    BY <1>7, <2>1
  <2>3. i - 1 \in 1..Len(camq') /\ (i - 1) + 1 = i
    BY <1>1, <1>6, <2>2
  <2>4. camq'[i - 1] = camq[(i - 1) + 1]
    BY <1>6, <2>3
  <2> QED
    BY <2>1, <2>3, <2>4
<1>8. CASE ~Own(m)
  <2>1. camq[1].id # mine /\ got' = got
    BY <1>3, <1>4, <1>5, <1>8 DEF Own
  <2>2. PICK g \in 0..Len(camq') : Block(camq', mine, g, l, Len(got)) /\ (f + l = Len(camq) => g + l = Len(camq'))
    <3>1. /\ camq # <<>> /\ camq[1].id # mine /\ camq \in Seq(Messages) /\ mine \in Nat
          /\ Len(got) \in Nat /\ Block(camq, mine, f, l, Len(got))
      BY <1>1, <1>2, <2>1
    <3>2. \E g \in 0..Len(Tail(camq)) :
             Block(Tail(camq), mine, g, l, Len(got)) /\ (f + l = Len(camq) => g + l = Len(Tail(camq)))
      BY <3>1, BlockOther, Zenon
    <3> QED
      BY <1>5, <3>2
  <2> QED
    BY <1>1, <1>2, <1>3, <1>4, <1>5, <1>7, <2>1, <2>2, WaitingFrom
<1>9. CASE Own(m)
  <2>1. camq[1].id = mine /\ camq[1].type # "error" /\ got' = Append(got, <<mine, camq[1].n>>)
    BY <1>3, <1>4, <1>5, <1>9 DEF Own
  <2>2. f = 0 /\ l - 1 \in Nat /\ camq[1].n = Len(got) + 1 /\ Block(camq', mine, 0, l - 1, Len(got) + 1)
    BY <1>1, <1>2, <1>5, <2>1, BlockOwn
  <2>3. got \in Deliveries
    BY TypeParts DEF HostTyped
  <2>4. got' = Append(got, <<mine, Len(got) + 1>>)
    BY <2>1, <2>2
  <2>5. Len(got') = Len(got) + 1 /\ \A i \in 1..Len(got') : got'[i] = <<mine, i>>
    <3>1. /\ Len(got') = Len(got) + 1 /\ got'[Len(got) + 1] = <<mine, Len(got) + 1>>
          /\ \A i \in 1..Len(got) : got'[i] = got[i]
      BY <2>3, <2>4 DEF Deliveries
    <3>2. \A i \in 1..(Len(got) + 1) : i \in 1..Len(got) \/ i = Len(got) + 1
      BY <1>1
    <3> QED
      BY <1>3, <3>1, <3>2
  <2>6. made[mine] = Len(got') + (l - 1) /\ 0 \in 0..Len(camq')
    BY <1>1, <1>2, <1>6, <2>2, <2>5
  <2>7. running = mine => 0 + (l - 1) = Len(camq')
    <3>1. running = mine => l = Len(camq)
      BY <1>1, <1>2, <2>2
    <3> QED
      BY <1>1, <1>6, <3>1
  <2> QED
    BY <1>1, <1>3, <1>4, <1>5, <1>7, <2>1, <2>2, <2>5, <2>6, <2>7, WaitingFrom
<1> QED
  BY <1>8, <1>9

\* The camera has a new script of the host, which has queued nothing yet.
LEMMA WaitingStart ==
    ASSUME TypeInv, TypeInv', lastid < MaxScripts, CamExec(ExecFlags, "none"),
           script_id' = lastid', got' = <<>>
    PROVE  Waiting'
<1>1. /\ lastid' = lastid + 1 /\ lastid' \in 1..MaxScripts /\ mine' = lastid' /\ count' = 0
      /\ camq' \in Seq(Messages) /\ \A i \in 1..Len(camq') : camq'[i].id <= lastid
      /\ made'[lastid'] = 0 /\ lastid' \notin failed'
  BY CamExecEffect
<1>2. lastid \in Nat /\ mine' \in Nat /\ mine' # 0
  BY <1>1, TypeParts, Numbers DEF Words
<1>3. \A i \in 1..Len(camq') : camq'[i].id # mine'
  <2> SUFFICES ASSUME NEW i \in 1..Len(camq') PROVE camq'[i].id # mine'
    OBVIOUS
  <2>1. camq'[i].id \in Nat /\ camq'[i].id <= lastid
    BY <1>1, MessageFields, Numbers
  <2> QED
    BY <1>1, <1>2, <2>1
<1>4. Len(<<>>) = 0
  OBVIOUS
<1>5. made'[mine'] = Len(got') + 0 /\ Len(got') \in Nat
  BY <1>1, <1>4
<1>6. PICK f \in 0..Len(camq') : Block(camq', mine', f, 0, Len(got')) /\ f = Len(camq')
  BY <1>1, <1>2, <1>3, <1>5, BlockNone
<1>7. f + 0 = Len(camq')
  BY <1>1, <1>6
<1>8. script_id' = mine' /\ mine' \notin failed' /\ (running' = mine' => count' = made'[mine'])
  BY <1>1
<1>9. \A i \in 1..Len(got') : got'[i] = <<mine', i>>
  BY <1>4
<1> QED
  BY <1>2, <1>5, <1>6, <1>7, <1>8, <1>9, WaitingFrom

\* When wait_status sees that no script runs and no message is left, the host
\* has been given all the messages of its script.
LEMMA WaitingDone ==
    ASSUME TypeInv, Waiting, camq = <<>>, running = 0
    PROVE  /\ mine # 0 /\ running # mine /\ mine \notin failed
           /\ got = [i \in 1..made[mine] |-> <<mine, i>>]
<1>1. /\ mine \in Nat /\ made[mine] \in Nat /\ Len(got) \in Nat
  BY WaitingParts
<1>2. PICK f \in 0..Len(camq), l \in Nat : made[mine] = Len(got) + l /\ Block(camq, mine, f, l, Len(got))
  BY WaitingParts
<1>3. Len(camq) = 0
  OBVIOUS
<1>4. f + l <= 0
  BY <1>2, <1>3 DEF Block
<1>5. made[mine] = Len(got)
  BY <1>1, <1>2, <1>3, <1>4
<1>6. got \in Deliveries
  BY TypeParts DEF HostTyped
<1>7. got = [i \in 1..Len(got) |-> got[i]]
  BY <1>6 DEF Deliveries
<1>8. \A i \in 1..Len(got) : got[i] = <<mine, i>>
  BY DEF Waiting
<1>9. [i \in 1..Len(got) |-> got[i]] = [i \in 1..Len(got) |-> <<mine, i>>]
  BY <1>8
<1>10. mine # 0 /\ mine \notin failed
  BY <1>3 DEF Waiting
<1> QED
  BY <1>5, <1>7, <1>9, <1>10

\* While nothing is done with the camera or the script, nothing changes.
LEMMA WaitingSame ==
    ASSUME Waiting, UNCHANGED <<camq, running, count, script_id, mine, made, failed, got>>
    PROVE  Waiting'
  BY DEF Waiting, Neighbours

\* A call that comes to another end than "done" says nothing of the messages.
LEMMA DeliveredElse ==
    ASSUME suspended' = <<>>, pc' \notin {"poll", "read"}, result' # "done",
           pc' # "idle" => result' = "none",
           Starting' => got' = <<>>
    PROVE  Delivered'
  BY DEF Delivered, CompleteOnReturn

\* The camera's steps and the delivery.
LEMMA DeliveredCamera ==
    ASSUME TypeInv, TypeInv', Delivered, Camera PROVE Delivered'
<1>1. /\ UNCHANGED <<proto26, script_id, pc, opts, after, got, result, suspended, mine>>
      /\ running' = running \/ running' = 0 \/ running' = lastid + 1
  BY CameraEffect
<1>2. /\ suspended = <<>> /\ (Starting => got = <<>>) /\ (pc # "idle" => result = "none")
      /\ (pc \in {"poll", "read"} => Waiting)
      /\ (result = "done" => mine # 0 /\ running # mine) /\ CompleteOnReturn
  BY DEF Delivered
<1>3. lastid \in Nat /\ mine \in Nat /\ mine <= lastid
  BY TypeParts, Numbers DEF Words, Known
<1>4. Starting' => got' = <<>>
  BY <1>1, <1>2 DEF Starting
<1>5. CASE CamMsg \/ CamFinish
  <2>1. PICK type \in {"user", "return", "error"} : CamQueue(type)
    BY <1>5 DEF CamMsg, CamFinish
  <2>2. pc' \in {"poll", "read"} => Waiting'
    BY <1>1, <1>2, <2>1, WaitingQueued
  <2>3. running' = running /\ (running # mine => UNCHANGED <<made, failed>>)
    <3>1. Mine = {mine}
      BY <1>2 DEF Mine
    <3> QED
      BY <2>1, <3>1 DEF CamQueue
  <2>4. CompleteOnReturn'
    BY <1>1, <1>2, <2>3 DEF CompleteOnReturn
  <2> QED
    BY <1>1, <1>2, <1>4, <2>2, <2>3, <2>4 DEF Delivered
<1>6. CASE CamEnd \/ CamTake \/ CamUser
  <2>1. /\ UNCHANGED <<camq, made, failed>>
        /\ (running' = running /\ count' = count) \/ running' = 0 \/ running' = lastid + 1
    BY <1>6 DEF CamEnd, CamTake, CamUser, history
  <2>2. pc' \in {"poll", "read"} => Waiting'
    <3> SUFFICES ASSUME Waiting PROVE Waiting'
      BY <1>1, <1>2
    <3>1. CASE running' = running /\ count' = count
      BY <1>1, <2>1, <3>1, WaitingSame
    <3>2. CASE running' = 0 \/ running' = lastid + 1
      <4>1. mine # 0
        BY DEF Waiting
      <4>2. running' # mine
        BY <1>3, <3>2, <4>1
      <4> QED
        BY <1>1, <2>1, <4>2 DEF Waiting, Neighbours
    <3> QED
      BY <2>1, <3>1, <3>2
  <2>3. result' = "done" => mine' # 0 /\ running' # mine'
    BY <1>1, <1>2, <1>3, <2>1
  <2>4. CompleteOnReturn'
    BY <1>1, <1>2, <2>1 DEF CompleteOnReturn
  <2> QED
    BY <1>1, <1>2, <1>4, <2>2, <2>3, <2>4 DEF Delivered
<1> QED
  BY <1>5, <1>6 DEF Camera

\* The host's steps and the delivery.
LEMMA DeliveredQuiet ==
    ASSUME TypeInv, TypeInv', SeenMsgIsThere, Owners, Delivered, Quiet PROVE Delivered'
<1>1. /\ suspended = <<>> /\ (Starting => got = <<>>) /\ (pc # "idle" => result = "none")
      /\ (pc \in {"poll", "read"} => Waiting)
      /\ (result = "done" => mine # 0 /\ running # mine) /\ CompleteOnReturn
  BY DEF Delivered
<1>2. suspended' = <<>>
  BY <1>1, QuietEffect DEF Owners
<1>3. /\ pc \in {"idle", "check", "flush", "exec", "errmsg", "poll", "read", "waitmsg", "strict"}
      /\ after \in {"idle", "exec"}
  BY TypeParts DEF HostTyped
<1>4. CASE Lost \/ ReadThrows \/ FlushMsgs \/ WaitMsg \/ WaitMsgPoll \/ WriteMsg
  <2>1. /\ pc' \notin {"poll", "read"} /\ result' # "done" /\ ~Starting'
    BY <1>1, <1>4 DEF Lost, ReadThrows, FlushMsgs, WaitMsg, WaitMsgPoll, WriteMsg, Done, Starting
  <2>2. pc' # "idle" => result' = "none"
    BY <1>1, <1>4 DEF Lost, ReadThrows, FlushMsgs, WaitMsg, WaitMsgPoll, WriteMsg, Done
  <2> QED
    BY <1>2, <2>1, <2>2, DeliveredElse
<1>5. CASE Check
  <2>1. /\ pc = "check" /\ got' = got /\ after' = after
        /\ (pc' = "idle" /\ result' = "scriptrun") \/ (pc' \in {"flush", "exec"} /\ result' = result)
    BY <1>5 DEF Check, Done
  <2>2. Starting /\ got = <<>> /\ result = "none"
    BY <1>1, <2>1 DEF Starting
  <2> QED
    BY <1>2, <2>1, <2>2, DeliveredElse
<1>6. CASE Flush
  <2>1. PICK m \in Answers :
           /\ ReadMsg(m)
           /\ \/ Done("io") \/ Done("ok")
              \/ after # "idle" /\ pc' = after /\ UNCHANGED result
              \/ UNCHANGED <<pc, result>>
    BY <1>6 DEF Flush
  <2>2. pc = "flush" /\ got' = got /\ after' = after
    BY <1>6, <2>1, ReadMsgEffect DEF Flush, TypeInv
  <2>3. (pc' = "idle" /\ result' \in {"io", "ok"}) \/ (pc' = "exec" /\ after = "exec" /\ result' = "none")
        \/ (pc' = "flush" /\ result' = "none")
    BY <1>1, <1>3, <2>1, <2>2 DEF Done
  <2>4. Starting' => got' = <<>>
    BY <1>1, <2>2, <2>3 DEF Starting
  <2> QED
    BY <1>2, <2>3, <2>4, DeliveredElse
<1>7. CASE GetErrorMsg
  <2>1. PICK m \in Answers :
           /\ ReadMsg(m)
           /\ \/ \E how \in {"io", "compile", "compile_msg", "other_msg"} : Done(how)
              \/ UNCHANGED <<pc, result>>
    BY <1>7 DEF GetErrorMsg
  <2>2. pc = "errmsg" /\ result = "none"
    BY <1>1, <1>7 DEF GetErrorMsg
  <2>3. (pc' = "idle" /\ result' # "done") \/ (pc' = "errmsg" /\ result' = "none")
    BY <2>1, <2>2 DEF Done
  <2> QED
    BY <1>2, <2>3, DeliveredElse DEF Starting
<1>8. CASE ReadMsgStrict
  <2>1. PICK m \in Answers :
           \E how \in {"io", "nomsg", "bad_script_id", "wrongmsg_error", "wrongmsg", "msg"} : Done(how)
    BY <1>8 DEF ReadMsgStrict
  <2> QED
    BY <1>2, <2>1, DeliveredElse DEF Starting, Done
<1>9. CASE Poll
  <2>1. /\ pc = "poll" /\ result = "none" /\ Waiting
        /\ UNCHANGED <<camera, script_id, after, got, mine, made, failed>>
    BY <1>1, <1>9 DEF Poll, history
  <2>2. CASE camq # <<>>
    <3>1. pc' = "read" /\ result' = "none"
      BY <1>9, <2>1, <2>2 DEF Poll
    <3>2. Waiting'
      BY <2>1, WaitingSame DEF camera
    <3> QED
      BY <1>2, <3>1, <3>2 DEF Delivered, Starting, CompleteOnReturn
  <2>3. CASE camq = <<>>
    <3>1. running = 0 /\ pc' = "idle" /\ result' = "done"
      BY <1>9, <2>3 DEF Poll, Done
    <3>2. mine # 0 /\ running # mine /\ mine \notin failed /\ got = [i \in 1..made[mine] |-> <<mine, i>>]
      BY <2>1, <2>3, <3>1, WaitingDone
    <3> QED
      BY <1>2, <2>1, <3>1, <3>2 DEF Delivered, Starting, CompleteOnReturn, camera
  <2> QED
    BY <2>2, <2>3
<1>10. CASE Read
  <2>1. pc = "read" /\ result = "none" /\ Waiting /\ camq # <<>>
    BY <1>1, <1>10 DEF Read, SeenMsgIsThere
  <2>2. pc' = "poll" \/ (pc' = "idle" /\ result' # "done")
    BY <1>10 DEF Read, Done
  <2>3. CASE pc' = "poll"
    <3>1. Waiting' /\ result' = result
      BY <1>10, <2>1, <2>3, WaitingRead
    <3> QED
      BY <1>2, <2>1, <2>3, <3>1 DEF Delivered, Starting, CompleteOnReturn
  <2>4. CASE pc' = "idle" /\ result' # "done"
    BY <1>2, <2>4, DeliveredElse DEF Starting
  <2> QED
    BY <2>2, <2>3, <2>4
<1> QED
  BY <1>4, <1>5, <1>6, <1>7, <1>8, <1>9, <1>10 DEF Quiet

\* Outside the GUI every step keeps what is known of the delivery.
LEMMA DeliveredStep == IInv /\ IInv' /\ ~Gui /\ Delivered /\ [Next]_vars => Delivered'
<1> SUFFICES ASSUME IInv, IInv', ~Gui, Delivered, [Next]_vars PROVE Delivered'
  OBVIOUS
<1>1. TypeInv /\ TypeInv' /\ SeenMsgIsThere /\ Owners
  BY DEF IInv
<1>2. /\ suspended = <<>> /\ (Starting => got = <<>>) /\ (pc # "idle" => result = "none")
  BY DEF Delivered
<1>3. CASE Camera
  BY <1>1, <1>3, DeliveredCamera
<1>4. CASE Quiet
  BY <1>1, <1>4, DeliveredQuiet
<1>5. CASE ExecLua
  <2>1. PICK status \in {"none", "compile", "scriptrun"} :
           /\ pc = "exec" /\ lastid < MaxScripts /\ CamExec(ExecFlags, status)
           /\ UNCHANGED <<opts, after, got, suspended>>
           /\ \/ pc' = "idle" /\ result' \in {"io", "scriptrun", "started"}
              \/ pc' = "errmsg" /\ result' = result
              \/ status = "none" /\ pc' = "poll" /\ result' = result /\ script_id' = lastid'
    BY <1>1, <1>5, ExecLuaEffect
  <2>2. got' = <<>> /\ suspended' = <<>> /\ result = "none"
    BY <1>2, <2>1 DEF Starting
  <2>3. CASE pc' = "poll"
    <3>1. Waiting'
      BY <1>1, <2>1, <2>2, <2>3, WaitingStart
    <3> QED
      BY <2>1, <2>2, <2>3, <3>1 DEF Delivered, CompleteOnReturn
  <2>4. CASE pc' # "poll"
    BY <2>1, <2>2, <2>4, DeliveredElse DEF Starting
  <2> QED
    BY <2>3, <2>4
<1>6. CASE Exec
  <2>1. suspended' = <<>> /\ got' = <<>> /\ result' = "none" /\ pc' \in {"check", "exec"}
    BY <1>2, <1>6 DEF Exec, BeginExec
  <2> QED
    BY <2>1, DeliveredElse
<1>7. ~Callback /\ ~Resume
  BY <1>2 DEF Callback, Resume
<1>8. CASE UNCHANGED vars
  <2>1. UNCHANGED <<camq, running, count, script_id, pc, after, got, result, suspended, mine, made, failed>>
    BY <1>8 DEF vars, camera, caller, history
  <2>2. Waiting => Waiting'
    BY <2>1, WaitingSame
  <2> QED
    BY <2>1, <2>2 DEF Delivered, Starting, CompleteOnReturn
<1> QED
  BY <1>3, <1>4, <1>5, <1>6, <1>7, <1>8, NextKinds

\* Outside the GUI, exec that returns normally has given its caller every message
\* of the script, once and in order, and no other's; in the GUI a callback can get
\* in between, and it may not.
THEOREM ScriptComplete == Spec => [](~Gui => CompleteOnReturn)
<1>1. Init => GInv
  BY DEF Init, GInv, Delivered, Starting, CompleteOnReturn
<1>2. IInv /\ IInv' /\ GInv /\ [Next]_vars => GInv'
  BY DeliveredStep DEF GInv
<1>3. GInv => (~Gui => CompleteOnReturn)
  BY DEF GInv, Delivered
<1> QED
  BY <1>1, <1>2, <1>3, InvInit, InvStep, PTL DEF Spec

=============================================================================

----------------------------- MODULE ScriptExec -----------------------------
(***************************************************************************)
(* Running a Lua script on the camera: con:exec of chdku.lua, with and     *)
(* without waiting, the message calls that go with it (wait_msg,           *)
(* read_msg_strict, flushmsgs, get_error_msg, write_msg), and their PTP    *)
(* operations in chdkptp.c and ptp.c.                                      *)
(*                                                                         *)
(* One action is one PTP transaction with the Lua code that acts on its    *)
(* result; the camera moves between any two of them, so what script_status *)
(* said may be out of date by the next transaction.  A transaction can     *)
(* fail before or after the camera has acted on it (UsbSession shows how). *)
(*                                                                         *)
(* In the GUI (Gui) the command line runs in a coroutine, which gives way  *)
(* to the GUI's callbacks whenever wait_status sleeps; a callback may use  *)
(* the same connection and returns before the coroutine goes on.           *)
(*                                                                         *)
(* The camera (Cam...) is external, modelled from chdk_headers/core/ptp.h: *)
(* one script runs at a time, with a bounded queue of messages each way.   *)
(* A script may also be started on the camera, by its user.                *)
(***************************************************************************)
EXTENDS Integers, Sequences

CONSTANTS
    Gui,          \* whether the command line runs inside the GUI
    UserScripts,  \* whether somebody starts scripts on the camera itself
    MaxScripts,   \* bound on the scripts ever started
    MaxMsgs,      \* bound on the messages of a script, before its last
    QueueMax,     \* room in the camera's message queues
    MaxFaults     \* bound on failed transactions and throwing callbacks

ASSUME UserAssumption   == UserScripts \in BOOLEAN /\ Gui \in BOOLEAN
ASSUME BoundsAssumption == /\ MaxScripts \in Nat /\ MaxMsgs \in Nat
                           /\ QueueMax \in Nat \ {0} /\ MaxFaults \in Nat

VARIABLES
    proto26,     \* whether the camera has protocol 2.6 or later, in which
                 \* ExecuteScript takes flags
    running,     \* id of the script that runs on the camera, 0 if none
    finishing,   \* whether it has queued its return value or error
    count,       \* how many messages it has queued
    lastid,      \* last script id the camera has given out
    camq,        \* messages from scripts to the host
    hostq,       \* messages to scripts, each given as the value mine had when
                 \* it was written
    script_id,   \* ptp_cs->script_id, 0 if none
    pc,          \* the transaction the host does next, "idle" between calls
    opts,        \* options of the last exec
    after,       \* where flushmsgs returns to
    got,         \* the messages handed to the caller
    result,      \* how the last call ended, "none" while it goes on
    suspended,   \* a call of the coroutine that sleeps, <<>> if none does
    mine,        \* history: the script the current or last exec has started
    made,        \* history: how many messages a script has queued
    failed,      \* history: the scripts that have queued an error
    fresh,       \* history: whether mine was started with the flush flags
    checked,     \* history: the last script there was when exec found none
                 \* running, 0 when it has not looked
    faults       \* faults that have happened

camera  == <<proto26, running, finishing, count, lastid, camq, hostq>>
history == <<mine, made, failed, fresh, checked>>
caller  == <<opts, after, got, result, suspended>>
vars    == <<camera, script_id, pc, caller, history, faults>>

Message(id, type, n) == [id |-> id, type |-> type, n |-> n]

\* The camera queues a message; a full queue refuses it.
Queue(q, m) == IF Len(q) < QueueMax THEN Append(q, m) ELSE q

\* The scripts of the calls under way: what they queue is counted.
Mine == {mine} \cup {suspended[i].mine : i \in DOMAIN suspended}

Fault == faults < MaxFaults /\ faults' = faults + 1

-----------------------------------------------------------------------------
\* The camera.
\* The running script queues a message of a type.
CamQueue(type) ==
    /\ running # 0 /\ ~finishing
    /\ type = "user" => count < MaxMsgs
    /\ camq' = Queue(camq, Message(running, type, count + 1))
    /\ count' = count + Len(camq') - Len(camq)
    /\ made' = IF running \in Mine THEN [made EXCEPT ![running] = count'] ELSE made
    /\ failed' = IF type = "error" /\ camq' # camq /\ running \in Mine
                 THEN failed \cup {running} ELSE failed
    /\ UNCHANGED <<proto26, running, lastid, hostq, script_id, pc, caller, mine, fresh,
                   checked, faults>>

CamMsg == CamQueue("user") /\ UNCHANGED finishing

CamFinish == \E type \in {"return", "error"} : CamQueue(type) /\ finishing' = TRUE

CamEnd ==
    /\ running # 0 /\ finishing
    /\ running' = 0 /\ finishing' = FALSE /\ count' = 0
    /\ UNCHANGED <<proto26, lastid, camq, hostq, script_id, pc, caller, history, faults>>

\* The script takes a message from the host.
CamTake ==
    /\ running # 0 /\ ~finishing /\ hostq # <<>>
    /\ hostq' = Tail(hostq)
    /\ UNCHANGED <<proto26, running, finishing, count, lastid, camq, script_id, pc,
                   caller, history, faults>>

\* Ids left within the bound, one kept back for the exec under way.
IdsLeft == MaxScripts - lastid - (IF pc \in {"check", "flush", "exec"} THEN 1 ELSE 0)

\* The camera's user starts a script.
CamUser ==
    /\ UserScripts /\ running = 0 /\ IdsLeft > 0
    /\ lastid' = lastid + 1 /\ running' = lastid + 1 /\ finishing' = FALSE
    /\ UNCHANGED <<proto26, count, camq, hostq, script_id, pc, caller, history, faults>>

Camera == CamMsg \/ CamFinish \/ CamEnd \/ CamTake \/ CamUser

\* ExecuteScript in the camera.  A compile error takes an id and queues a
\* message, but nothing runs; a running script is killed unless flags forbid.
CamExec(flags, status) ==
    /\ status = "scriptrun" <=> "nokill" \in flags /\ running # 0
    /\ IF status = "scriptrun"
       THEN UNCHANGED <<camera, history>>
       ELSE LET kept == IF "flush_cam" \in flags THEN <<>> ELSE camq
                id   == lastid + 1
                q    == Queue(kept, Message(id, "error", 1))
                tell == Len(q) - Len(kept)
                old  == {suspended[i].mine : i \in DOMAIN suspended}
            IN  /\ lastid' = id /\ mine' = id /\ finishing' = FALSE /\ count' = 0
                /\ hostq' = IF "flush_host" \in flags THEN <<>> ELSE hostq
                /\ fresh' = (proto26 /\ opts.flush) /\ checked' = 0 /\ UNCHANGED proto26
                /\ running' = IF status = "compile" THEN 0 ELSE id
                /\ camq' = IF status = "compile" THEN q ELSE kept
                /\ made' = [i \in 1..MaxScripts |->
                               IF i \in old THEN made[i]
                               ELSE IF i = id /\ status = "compile" THEN tell ELSE 0]
                /\ failed' = (failed \cap old)
                               \cup (IF status = "compile" /\ tell = 1 THEN {id} ELSE {})

-----------------------------------------------------------------------------
\* The host.  Every call ends in a return to the caller, or in a throw.
Done(how) == pc' = "idle" /\ result' = how

\* Faulty variant: a failed execlua leaves an impossible id.
Lost_MinusOne ==
    /\ pc # "idle" /\ Fault
    /\ Done("io")
    /\ script_id' = IF pc = "exec" THEN -1 ELSE script_id
    /\ UNCHANGED <<camera, opts, after, got, suspended, history>>

\* A transaction fails before the camera has acted on it.
Lost ==
    /\ pc # "idle" /\ Fault
    /\ Done("io")
    /\ script_id' = IF pc = "exec" THEN 0 ELSE script_id
    /\ UNCHANGED <<camera, opts, after, got, suspended, history>>

Flags26 ==
    (IF opts.clobber THEN {} ELSE {"nokill"})
        \cup (IF opts.flush THEN {"flush_cam", "flush_host"} ELSE {})

\* Faulty variant: the host's messages are not flushed.
ExecFlags_KeepMsg == IF proto26 THEN Flags26 \ {"flush_host"} ELSE {}

\* execflags of exec; flush stands for flush_cam_msgs and flush_host_msgs.
ExecFlags == IF proto26 THEN Flags26 ELSE {}

\* con:exec up to its first transaction.
BeginExec ==
    /\ IdsLeft > 0
    /\ pc' = IF ~proto26 /\ ~opts'.clobber THEN "check" ELSE "exec"
    /\ after' = "exec" /\ got' = <<>> /\ result' = "none"
    /\ UNCHANGED <<camera, script_id, mine, made, failed, fresh, faults>>
    /\ checked' = 0

Exec ==
    /\ pc = "idle" /\ suspended = <<>>
    /\ opts' \in [clobber : BOOLEAN, flush : BOOLEAN, wait : BOOLEAN]
    /\ BeginExec
    /\ UNCHANGED suspended

\* Faulty variant: it also yields between a status and the read it leads to.
Callback_AtRead ==
    /\ Gui /\ suspended = <<>> /\ pc \in {"poll", "waitmsg", "read", "strict"}
    /\ suspended' = <<[pc |-> pc, opts |-> opts, got |-> got, mine |-> mine]>>
    /\ opts' \in [clobber : {FALSE}, flush : {TRUE}, wait : BOOLEAN]
    /\ BeginExec

\* gui.chdku_sleep: the coroutine yields while wait_status sleeps, and a
\* callback of the GUI calls con:exec with the default options.
Callback ==
    /\ Gui /\ suspended = <<>> /\ pc \in {"poll", "waitmsg"}
    /\ suspended' = <<[pc |-> pc, opts |-> opts, got |-> got, mine |-> mine]>>
    /\ opts' \in [clobber : {FALSE}, flush : {TRUE}, wait : BOOLEAN]
    /\ BeginExec

\* The callback has returned; the scheduler resumes the coroutine.
Resume ==
    /\ suspended # <<>> /\ pc = "idle"
    /\ suspended' = <<>>
    /\ pc' = suspended[1].pc /\ opts' = suspended[1].opts /\ got' = suspended[1].got
    /\ mine' = suspended[1].mine /\ result' = "none"
    /\ UNCHANGED <<camera, script_id, after, made, failed, fresh, checked, faults>>

\* Faulty variant: a running script is no reason to refuse.
Check_NoRefusal ==
    /\ pc = "check"
    /\ pc' = IF opts.flush /\ camq # <<>> THEN "flush" ELSE "exec"
    /\ checked' = lastid
    /\ UNCHANGED <<camera, script_id, caller, mine, made, failed, fresh, faults>>

\* Before protocol 2.6: refuse if a script runs, and flush, from the host.
Check ==
    /\ pc = "check"
    /\ IF running # 0 THEN Done("scriptrun") /\ UNCHANGED checked
       ELSE /\ pc' = IF opts.flush /\ camq # <<>> THEN "flush" ELSE "exec"
            /\ checked' = lastid /\ UNCHANGED result
    /\ UNCHANGED <<camera, script_id, opts, after, got, suspended, mine, made, failed, fresh,
                   faults>>

\* read_msg: the camera gives out its oldest message, if it has one; the
\* answer may get lost.  m is what the host is told, "lost" or the message.
None == Message(0, "none", 0)
ReadMsg(m) ==
    /\ camq' = IF camq = <<>> THEN <<>> ELSE Tail(camq)
    /\ \/ m = (IF camq = <<>> THEN None ELSE Head(camq)) /\ UNCHANGED faults
       \/ m = Message(0, "lost", 0) /\ Fault
    /\ UNCHANGED <<proto26, running, finishing, count, lastid, hostq, script_id, opts, after, suspended,
                   history>>

\* What read_msg can have told the host.
Answers == {None, Message(0, "lost", 0)} \cup {camq[i] : i \in DOMAIN camq}

\* One turn of the loop of flushmsgs.
Flush ==
    /\ pc = "flush"
    /\ \E m \in Answers :
        /\ ReadMsg(m)
        /\ CASE m.type = "lost" -> Done("io")
             [] m.type = "none" /\ after = "idle" -> Done("ok")
             [] m.type = "none" /\ after # "idle" -> pc' = after /\ UNCHANGED result
             [] OTHER -> UNCHANGED <<pc, result>>
    /\ UNCHANGED got

\* con:flushmsgs called directly.
FlushMsgs ==
    /\ pc = "idle" /\ suspended = <<>>
    /\ pc' = "flush" /\ after' = "idle" /\ result' = "none"
    /\ UNCHANGED <<camera, script_id, opts, got, suspended, history, faults>>

\* execlua: the script goes to the camera, which may refuse it.  When the
\* answer is lost the host has no id, although the script may run.  Which id
\* comes with a refusal is not specified.
ExecLua ==
    /\ pc = "exec"
    /\ \E status \in {"none", "compile", "scriptrun"} :
        /\ CamExec(ExecFlags, status)
        /\ \/ /\ Fault /\ script_id' = 0 /\ Done("io")
           \/ /\ UNCHANGED faults
              /\ script_id' \in IF status = "scriptrun" THEN {0, running} ELSE {lastid'}
              /\ CASE status = "scriptrun" -> Done("scriptrun")
                   [] status = "compile"   -> pc' = "errmsg" /\ UNCHANGED result
                   [] status = "none" /\ opts.wait  -> pc' = "poll" /\ UNCHANGED result
                   [] status = "none" /\ ~opts.wait -> Done("started")
    /\ UNCHANGED <<opts, after, got, suspended>>

\* Faulty variant: any error message will do.
OwnError_Any(m) == m.type = "error"

OwnError(m) == m.type = "error" /\ m.id = script_id

\* One turn of the loop of get_error_msg: the compile error with or without
\* the camera's message.
GetErrorMsg ==
    /\ pc = "errmsg"
    /\ \E m \in Answers :
        /\ ReadMsg(m)
        /\ CASE m.type = "lost" -> Done("io")
             [] m.type = "none" -> Done("compile")
             [] OwnError(m)     -> Done(IF m.id = mine THEN "compile_msg" ELSE "other_msg")
             [] OTHER           -> UNCHANGED <<pc, result>>
    /\ UNCHANGED got

\* Faulty variants: waits for messages only; looks at run before msg; reads
\* a message whatever the status said.
Poll_MsgOnly ==
    /\ pc = "poll" /\ pc' = IF camq # <<>> THEN "read" ELSE "poll"
    /\ UNCHANGED <<camera, script_id, caller, history, faults>>
Poll_RunFirst ==
    /\ pc = "poll"
    /\ \/ running = 0 /\ Done("done")
       \/ running # 0 /\ camq # <<>> /\ pc' = "read" /\ UNCHANGED result
    /\ UNCHANGED <<camera, script_id, opts, after, got, suspended, history, faults>>

Poll_Either ==
    /\ pc = "poll" /\ (camq # <<>> \/ running = 0) /\ pc' = "read"
    /\ UNCHANGED <<camera, script_id, caller, history, faults>>

\* The last poll of wait_status{msg=true,run=false} in exec; those before it
\* change nothing.  The script has ended only when no message is left.
Poll ==
    /\ pc = "poll"
    /\ \/ camq # <<>> /\ pc' = "read" /\ UNCHANGED result
       \/ camq = <<>> /\ running = 0 /\ Done("done")
    /\ UNCHANGED <<camera, script_id, opts, after, got, suspended, history, faults>>

Own(m) == m.id = script_id

\* exec reads the message wait_status has seen.  One of another script is
\* skipped with a warning; a caller's callback may throw.
Read ==
    /\ pc = "read"
    /\ \E m \in Answers :
        /\ ReadMsg(m)
        /\ IF m.type = "lost" THEN Done("io") /\ UNCHANGED got
           ELSE IF ~Own(m) THEN pc' = "poll" /\ UNCHANGED <<got, result>>
           ELSE IF m.type = "error" THEN Done("exec_runtime") /\ UNCHANGED got
           ELSE IF m.type = "none" THEN Done("wrongmsg") /\ UNCHANGED got
           ELSE pc' = "poll" /\ got' = Append(got, <<m.id, m.n>>) /\ UNCHANGED result

ReadThrows ==
    /\ pc = "read" /\ camq # <<>> /\ Own(Head(camq))
    /\ Fault /\ camq' = Tail(camq)
    /\ Done("callback")
    /\ UNCHANGED <<proto26, running, finishing, count, lastid, hostq, script_id, opts, after, got,
                   suspended, history>>

\* con:wait_msg{mtype='user'}: one message, or an error.
WaitMsg ==
    /\ pc = "idle" /\ suspended = <<>>
    /\ pc' = "waitmsg" /\ result' = "none"
    /\ UNCHANGED <<camera, script_id, opts, after, got, suspended, history, faults>>

WaitMsgPoll ==
    /\ pc = "waitmsg"
    /\ IF camq # <<>> THEN pc' = "strict" /\ UNCHANGED result ELSE Done("timeout")
    /\ UNCHANGED <<camera, script_id, opts, after, got, suspended, history, faults>>

\* read_msg_strict: whatever is not the message asked for is gone.
ReadMsgStrict ==
    /\ pc = "strict"
    /\ \E m \in Answers :
        /\ ReadMsg(m)
        /\ CASE m.type = "lost" -> Done("io")
             [] m.type = "none" -> Done("nomsg")
             [] OTHER -> Done(IF ~Own(m) THEN "bad_script_id"
                              ELSE CASE m.type = "error"  -> "wrongmsg_error"
                                     [] m.type = "return" -> "wrongmsg"
                                     [] OTHER             -> "msg")
        /\ got' = IF Own(m) /\ m.type = "user" THEN Append(got, <<m.id, m.n>>) ELSE got

\* con:write_msg to the script started last; id 0 is any script.
WriteMsg ==
    /\ pc = "idle" /\ suspended = <<>>
    /\ IF running = 0 THEN result' = "msg_notrun" /\ UNCHANGED hostq
       ELSE IF script_id \notin {0, running} THEN result' = "msg_badid" /\ UNCHANGED hostq
       ELSE IF Len(hostq) = QueueMax THEN result' = "msg_full" /\ UNCHANGED hostq
       ELSE hostq' = Append(hostq, mine) /\ result' = "ok"
    /\ UNCHANGED <<proto26, running, finishing, count, lastid, camq, script_id, pc, opts, after,
                   got, suspended, history, faults>>

HostStep ==
    \/ Resume \/ Check \/ Flush \/ ExecLua \/ GetErrorMsg
    \/ Poll \/ Read \/ WaitMsgPoll \/ ReadMsgStrict

Call == Callback \/ Exec \/ FlushMsgs \/ WaitMsg \/ WriteMsg

Init ==
    /\ running = 0 /\ finishing = FALSE /\ count = 0 /\ lastid = 0
    /\ camq = <<>> /\ hostq = <<>>
    /\ script_id = 0 /\ pc = "idle" /\ result = "none" /\ after = "idle" /\ got = <<>>
    /\ suspended = <<>>
    /\ opts = [clobber |-> FALSE, flush |-> TRUE, wait |-> FALSE]
    /\ proto26 \in BOOLEAN /\ checked = 0
    /\ mine = 0 /\ made = [i \in 1..MaxScripts |-> 0] /\ failed = {} /\ fresh = FALSE /\ faults = 0

Next == Camera \/ HostStep \/ Call \/ Lost \/ ReadThrows

Spec == Init /\ [][Next]_vars

\* The host program keeps going, and no script runs for ever.
FairSpec ==
    /\ Spec
    /\ WF_vars(HostStep) /\ WF_vars(CamFinish) /\ WF_vars(CamEnd)

-----------------------------------------------------------------------------
Ids      == 0..MaxScripts
Messages == [id : Ids, type : {"user", "return", "error"}, n : 1..(MaxMsgs + 1)]
Results  == {"none", "ok", "io", "started", "scriptrun", "compile", "compile_msg",
             "other_msg", "done", "exec_runtime", "wrongmsg", "callback", "timeout",
             "nomsg", "bad_script_id", "wrongmsg_error", "msg", "msg_notrun",
             "msg_badid", "msg_full"}

TypeOK ==
    /\ running \in Ids /\ lastid \in Ids /\ script_id \in Ids /\ mine \in Ids
    /\ camq \in Seq(Messages) /\ Len(camq) <= QueueMax
    /\ hostq \in Seq(Ids) /\ Len(hostq) <= QueueMax
    /\ pc \in {"idle", "check", "flush", "exec", "errmsg", "poll", "read", "waitmsg",
               "strict"}
    /\ opts \in [clobber : BOOLEAN, flush : BOOLEAN, wait : BOOLEAN]
    /\ after \in {"idle", "exec"} /\ result \in Results
    /\ got \in Seq(Ids \X (1..(MaxMsgs + 1)))
    /\ made \in [1..MaxScripts -> 0..(MaxMsgs + 1)] /\ failed \subseteq 1..MaxScripts
    /\ Len(suspended) <= 1
    /\ count \in 0..(MaxMsgs + 1)
    /\ finishing \in BOOLEAN /\ fresh \in BOOLEAN /\ proto26 \in BOOLEAN /\ checked \in Ids
    /\ faults \in 0..MaxFaults

\* When exec returns normally its caller has been given every message the
\* script has queued, once and in order, none of any other script, and no
\* error message was among them: "script is completed and all messages have
\* been processed", though status and messages are fetched one by one.
CompleteOnReturn ==
    result = "done" => /\ got = [i \in 1..made[mine] |-> <<mine, i>>]
                       /\ mine \notin failed

\* Nobody takes a message between the status that announced it and the read:
\* 'unexpected msg type: none' and 'no message' are dead code.
SeenMsgIsThere ==
    /\ pc \in {"read", "strict"} => camq # <<>>
    /\ result # "nomsg"

CompileErrorIsOwn == result # "other_msg"

HostMsgsOwn ==
    (running # 0 /\ running = mine /\ fresh) =>
        \A i \in DOMAIN hostq : hostq[i] = mine

\* What older scripts have left in the queues is taken for nobody else's: the
\* error message put into a compile error is that of the script that failed to
\* compile, and what is queued for the running script was written after it was
\* started, if it was started by the host with the default flush_host_msgs.
MessagesOwn == CompileErrorIsOwn /\ HostMsgsOwn

\* exec without clobber "will check script-status and refuse to execute if
\* script is already running": it kills no script, or, before protocol 2.6,
\* none that was there when it looked.
NoClobber ==
    [][(pc = "exec" /\ pc' # "exec" /\ ~opts.clobber /\ running # 0)
           => \/ running' = running
              \/ ~proto26 /\ running > checked]_vars

\* Every call comes back, if scripts end, however often callbacks of the GUI
\* get in between.
CallsReturn == (pc # "idle") ~> (pc = "idle" /\ suspended = <<>>)
=============================================================================

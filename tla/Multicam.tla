------------------------------ MODULE Multicam ------------------------------
(***************************************************************************)
(* Several cameras commanded at once: multicam.lua, the host's calls and   *)
(* the script mc.run that each camera executes.                            *)
(*                                                                         *)
(* A command is a text message to the script; the script answers with a    *)
(* status message that carries the command's name and nothing else, so a   *)
(* late answer to an earlier command can be taken for the answer to this   *)
(* one.  The history variables say which call an answer belongs to.        *)
(*                                                                         *)
(* One action is one PTP transaction with one camera, with the Lua code    *)
(* that follows it; a status and the message read because of it are one    *)
(* action, since nobody else reads messages.  Throws end the call.         *)
(***************************************************************************)
EXTENDS Integers, Sequences, SequencesExt

CONSTANTS
    CamList,    \* mc.cams in the order they were found, a sequence
    Ids,        \* the ids in use and one to change to
    Budget,     \* bound on the calls that send commands and on the failed
                \* transactions and script errors, together
    QueueMax,   \* room in a camera's message queues
    ListLen,    \* messages of an image list, before its status
    Ticks       \* the count of init_sync

Cams == {CamList[i] : i \in DOMAIN CamList}

ASSUME CamsAssumption   == CamList \in Seq(Cams) /\ IsInjective(CamList)
ASSUME IdsAssumption    == Ids \subseteq Nat \ {0} /\ 1..Len(CamList) \subseteq Ids
ASSUME BoundsAssumption == /\ Budget \in Nat
                           /\ QueueMax \in Nat \ {0} /\ ListLen \in Nat /\ Ticks \in Nat

VARIABLES
    \* each camera
    running,    \* whether its script is in mc.run
    cid,        \* the script's mc.id
    inq,        \* commands sent to it
    cur,        \* the command it carries out, or NoCmd, and what is left of it
    outq,       \* messages from it
    known,      \* whether the host has its script id
    \* the host
    mc_id,      \* the id of each connection
    selected,   \* mc.selected
    pc,         \* what the call under way does next, "idle" between calls
    op,         \* the command of the current or last call
    todo,       \* cameras left in the loop over the selected ones
    results,    \* the results of wait_status_msg, by id
    complete,   \* cameras counted in this round of polling, or ticks asked for
    jobs,       \* what set_id has left to do: <<camera, id>>
    saved,      \* set_id_cam's copy of the selection, <<>> if there is none
    answers,    \* messages the current or last init_sync or imglist has read
    ret,        \* how the last call ended: wait_status_msg with "all" counted or
                \* with "timeout", any other way "over"; "none" while it goes on
    \* history
    calls,      \* number of calls that have sent commands
    quiet,      \* cameras that had nothing to do when the call began, and with
                \* which no transaction of it has failed
    silent,     \* cameras of which no message was waiting then
    refused,    \* cameras that have refused a setid
    faults

cameras == <<running, cid, inq, cur, outq, known>>
host    == <<mc_id, selected, pc, op, todo, results, complete, jobs, saved, answers, ret>>
history == <<calls, quiet, silent, refused, faults>>
vars    == <<cameras, host, history>>

NoOp == [name |-> "none", arg |-> 0, wait |-> FALSE]
NoResult == [failed |-> FALSE, done |-> FALSE, from |-> <<>>, call |-> 0]

NoCmd == [name |-> "none", arg |-> 0, call |-> 0, left |-> 0]
Cmd(name, arg, call) ==
    [name |-> name, arg |-> arg, call |-> call, left |-> IF name = "list" THEN ListLen ELSE 0]
Msg(type, c) == [type |-> type, name |-> c.name, arg |-> c.arg, call |-> c.call]

Left  == Budget - calls - faults - Len(jobs)
Fault == Left > 0 /\ faults' = faults + 1

-----------------------------------------------------------------------------
\* The script on camera c.

\* mc.run takes a message and looks its command up.
CamRead(c) ==
    /\ running[c] /\ cur[c] = NoCmd /\ inq[c] # <<>>
    /\ cur' = [cur EXCEPT ![c] = Head(inq[c])]
    /\ inq' = [inq EXCEPT ![c] = Tail(inq[c])]
    /\ UNCHANGED <<running, cid, outq, known, host, history>>

\* cmds.imglist sends the next batch, waiting for room.
CamItem(c) ==
    /\ cur[c].left > 0 /\ Len(outq[c]) < QueueMax
    /\ cur' = [cur EXCEPT ![c].left = @ - 1]
    /\ outq' = [outq EXCEPT ![c] = Append(@, Msg("item", cur[c]))]
    /\ UNCHANGED <<running, cid, inq, known, host, history>>

\* It has waited too long for room: the list ends with status false.
CamGiveUp(c) ==
    /\ cur[c].left > 0 /\ Len(outq[c]) = QueueMax
    /\ cur' = [cur EXCEPT ![c].left = -1]
    /\ UNCHANGED <<running, cid, inq, outq, known, host, history>>

\* The command ends with write_status; a full queue refuses the message.
CamAnswer(c) ==
    /\ cur[c] # NoCmd /\ cur[c].left <= 0
    /\ LET m == Msg(IF cur[c].left < 0 THEN "fail" ELSE "status", cur[c])
       IN  outq' = [outq EXCEPT ![c] = IF Len(@) < QueueMax THEN Append(@, m) ELSE @]
    /\ cid' = [cid EXCEPT ![c] = IF cur[c].name = "setid" THEN cur[c].arg ELSE @]
    /\ running' = [running EXCEPT ![c] = cur[c].name # "exit"]
    /\ cur' = [cur EXCEPT ![c] = NoCmd]
    /\ UNCHANGED <<inq, known, host, history>>

\* A command raises a Lua error: the script ends with an error message.
CamDies(c) ==
    /\ cur[c] # NoCmd /\ Fault
    /\ outq' = [outq EXCEPT ![c] = IF Len(@) < QueueMax
                                   THEN Append(@, Msg("error", cur[c])) ELSE @]
    /\ running' = [running EXCEPT ![c] = FALSE]
    /\ cur' = [cur EXCEPT ![c] = NoCmd]
    /\ UNCHANGED <<cid, inq, known, host, calls, quiet, silent, refused>>

Camera == \E c \in Cams : CamRead(c) \/ CamItem(c) \/ CamGiveUp(c) \/ CamAnswer(c) \/ CamDies(c)

-----------------------------------------------------------------------------
\* The host.

\* find_id: the first camera with an id, if there is one.
WithId(i) == {c \in Cams : mc_id[c] = i}
Find(i)   == {CamList[k] : k \in {n \in DOMAIN CamList :
                 CamList[n] \in WithId(i) /\ \A j \in 1..(n - 1) : CamList[j] \notin WithId(i)}}

\* The orders that table.sort by id can leave a set of cameras in.
Sorted(S, id) ==
    {s \in SetToSeqs(S) : \A i, j \in DOMAIN s : i < j => id[s[i]] <= id[s[j]]}

\* A call is over: it returns to set_id_cam, which puts the selection back,
\* or to its caller.
Return(how) ==
    IF saved = <<>> THEN pc' = "idle" /\ ret' = how /\ UNCHANGED <<selected, saved>>
    ELSE pc' = "setid" /\ selected' = saved /\ saved' = <<>> /\ UNCHANGED ret

\* A throw nobody catches ends set_id with it, the selection as it is.
Throw ==
    /\ pc' = "idle" /\ ret' = "over" /\ jobs' = <<>> /\ saved' = <<>> /\ todo' = <<>>
    /\ UNCHANGED selected

\* The locals of an earlier call are gone.
NoAnswers ==
    /\ answers' = [c \in Cams |-> <<>>] /\ results' = [i \in Ids |-> NoResult]
    /\ complete' = 0

\* The beginning of a call that sends none itself.
NoCommand == op' = NoOp /\ NoAnswers /\ quiet' = {} /\ silent' = {}

\* The beginning of a call that sends commands to the cameras in sel.
Begin(name, arg, wait, sel, first) ==
    /\ jobs # <<>> \/ Left > 0
    /\ calls' = calls + 1
    /\ op' = [name |-> name, arg |-> arg, wait |-> wait]
    /\ todo' = sel /\ pc' = first /\ ret' = "none"
    /\ NoAnswers
    /\ quiet' = {c \in Cams : inq[c] = <<>> /\ cur[c] = NoCmd}
    /\ silent' = {c \in Cams : outq[c] = <<>>}
    /\ UNCHANGED <<cameras, refused, faults>>

\* Faulty variant: leaves old messages where they are.
Command_NoFlush ==
    /\ pc = "idle" /\ selected # <<>>
    /\ \E name \in {"shoot", "exit"}, wait \in BOOLEAN : Begin(name, 0, wait, selected, "send")
    /\ UNCHANGED <<mc_id, selected, jobs, saved>>

\* mc:cmd and mc:cmdwait: flush, send to all, and wait for all.
Command ==
    /\ pc = "idle" /\ selected # <<>>
    /\ \E name \in {"shoot", "exit"}, wait \in BOOLEAN : Begin(name, 0, wait, selected, "flush")
    /\ UNCHANGED <<mc_id, selected, jobs, saved>>

\* mc:imglist, by cmd_msgbatch: camera after camera, with no flush before.
ImgList ==
    /\ pc = "idle" /\ selected # <<>>
    /\ Begin("list", 0, TRUE, selected, "ask")
    /\ UNCHANGED <<mc_id, selected, jobs, saved>>

\* mc:init_sync.
InitSync ==
    /\ pc = "idle" /\ selected # <<>>
    /\ Begin("tick", 0, TRUE, selected, "flush")
    /\ UNCHANGED <<mc_id, selected, jobs, saved>>

\* What follows once the loop over the selected cameras has flushed them all.
AfterFlush == IF op.name = "tick" THEN "ask" ELSE "send"

\* mc:flushmsgs of one camera, up to the read that finds no message.
Flush ==
    /\ pc = "flush" /\ todo # <<>>
    /\ outq' = [outq EXCEPT ![Head(todo)] = <<>>]
    /\ IF Len(todo) > 1 THEN todo' = Tail(todo) /\ UNCHANGED pc
       ELSE todo' = selected /\ pc' = AfterFlush
    /\ UNCHANGED <<running, cid, inq, cur, known, mc_id, selected, op, results, complete,
                   jobs, saved, answers, ret, history>>

\* One of its reads fails: the throw ends mc:cmd before anything is sent.
FlushFails ==
    /\ pc = "flush" /\ todo # <<>> /\ Fault
    /\ \E k \in 0..Len(outq[Head(todo)]) :
           outq' = [outq EXCEPT ![Head(todo)] = SubSeq(@, k + 1, Len(@))]
    /\ Throw
    /\ UNCHANGED <<running, cid, inq, cur, known, mc_id, op, results, complete, answers,
                   calls, quiet, silent, refused>>

\* write_msg of the call's command to c: it arrives, or the camera refuses it
\* because no script runs or because its queue is full, or the transaction
\* fails before or after the camera has the message.
Accepts(c) == running[c] /\ Len(inq[c]) < QueueMax
Arg == IF op.name = "tick" THEN complete ELSE op.arg
Queued(c)  == inq' = [inq EXCEPT ![c] = Append(@, Cmd(op.name, Arg, calls))]
WriteOk(c)      == Accepts(c) /\ Queued(c) /\ UNCHANGED <<refused, quiet, faults>>
WriteRefused(c) ==
    /\ ~Accepts(c) /\ UNCHANGED <<inq, quiet, faults>>
    /\ refused' = IF op.name = "setid" THEN refused \cup {c} ELSE refused
WriteFails(c)   ==
    /\ Fault /\ quiet' = quiet \ {c} /\ UNCHANGED refused
    /\ (Accepts(c) /\ Queued(c)) \/ UNCHANGED inq

\* mc:cmd sends to one camera; a failure is a warning.  After the last it
\* waits if it is to, or returns.
Send ==
    /\ pc = "send" /\ todo # <<>>
    /\ LET c == Head(todo) IN WriteOk(c) \/ WriteRefused(c) \/ WriteFails(c)
    /\ IF Len(todo) > 1
       THEN todo' = Tail(todo) /\ UNCHANGED <<pc, ret, selected, saved>>
       ELSE IF op.wait
       THEN todo' = selected /\ pc' = "wait" /\ UNCHANGED <<ret, selected, saved>>
       ELSE todo' = <<>> /\ Return("over")
    /\ UNCHANGED <<running, cid, cur, outq, known, mc_id, op, results, complete, jobs,
                   answers, calls, silent>>

\* get_single_status with the message m read from c: "done" is set when the
\* command is another one as well.
FromMsg(c, m) ==
    IF ~known[c] \/ m.type = "error" THEN [NoResult EXCEPT !.failed = TRUE]
    ELSE [failed |-> m.type = "item" \/ m.name # op.name, done |-> TRUE,
          from |-> <<c>>, call |-> m.call]

\* wait_status_msg polls one camera, or counts it.  The transaction may fail,
\* a message being lost with its answer.
Poll ==
    /\ pc = "wait" /\ todo # <<>>
    /\ LET c == Head(todo)
           i == mc_id[c]
           failed == [results EXCEPT ![i].failed = TRUE]
       IN  IF results[i].failed \/ results[i].done
           THEN complete' = complete + 1 /\ UNCHANGED <<results, outq, quiet, faults>>
           ELSE /\ UNCHANGED complete
                /\ \/ /\ Fault /\ results' = failed /\ quiet' = quiet \ {c}
                      /\ outq' \in {outq, [outq EXCEPT ![c] = IF @ = <<>> THEN @ ELSE Tail(@)]}
                   \/ /\ UNCHANGED <<quiet, faults>>
                      /\ IF outq[c] # <<>>
                         THEN /\ results' = [results EXCEPT ![i] = FromMsg(c, Head(outq[c]))]
                              /\ outq' = [outq EXCEPT ![c] = Tail(@)]
                         ELSE /\ results' = IF running[c] THEN results ELSE failed
                              /\ UNCHANGED outq
    /\ todo' = Tail(todo)
    /\ UNCHANGED <<running, cid, inq, cur, known, mc_id, selected, pc, op, jobs, saved,
                   answers, ret, calls, silent, refused>>

\* Faulty variant: a camera that has failed ends the wait.
RoundEnd_AnyFailure ==
    /\ pc = "wait" /\ todo = <<>>
    /\ IF complete = Len(selected) \/ \E c \in Cams : results[mc_id[c]].failed
       THEN Return("all") /\ complete' = 0 /\ UNCHANGED todo
       ELSE /\ todo' = selected /\ complete' = 0
            /\ UNCHANGED <<pc, ret, selected, saved>>
    /\ UNCHANGED <<cameras, mc_id, op, results, jobs, answers, history>>

\* The end of a round: all cameras were counted, or there is another round.
RoundEnd ==
    /\ pc = "wait" /\ todo = <<>>
    /\ IF complete = Len(selected)
       THEN Return("all") /\ complete' = 0 /\ UNCHANGED todo
       ELSE /\ todo' = selected /\ complete' = 0
            /\ UNCHANGED <<pc, ret, selected, saved>>
    /\ UNCHANGED <<cameras, mc_id, op, results, jobs, answers, history>>

\* Faulty variant: no timeout as long as the scripts run.
WaitTimeout_Dead ==
    /\ pc = "wait" /\ todo = <<>> /\ complete # Len(selected)
    /\ \E c \in ToSet(selected) : ~running[c]
    /\ results' = [i \in Ids |-> [results[i] EXCEPT !.failed = TRUE]]
    /\ Return("timeout") /\ complete' = 0
    /\ UNCHANGED <<cameras, mc_id, op, todo, jobs, answers, history>>

\* The timeout has passed at the end of a round: what has not answered failed.
WaitTimeout ==
    /\ pc = "wait" /\ todo = <<>> /\ complete # Len(selected)
    /\ results' = [i \in Ids |->
                      IF results[i].done \/ \A c \in ToSet(selected) : mc_id[c] # i
                      THEN results[i] ELSE [results[i] EXCEPT !.failed = TRUE]]
    /\ Return("timeout") /\ complete' = 0
    /\ UNCHANGED <<cameras, mc_id, op, todo, jobs, answers, history>>

-----------------------------------------------------------------------------
\* cmd_msgbatch_cam and init_sync_cam: one camera after the other.

\* The loop goes on with the next camera, or returns after the last.
NextCam ==
    /\ complete' = 0
    /\ IF Len(todo) > 1
       THEN todo' = Tail(todo) /\ pc' = "ask" /\ UNCHANGED <<ret, selected, saved>>
       ELSE todo' = <<>> /\ Return("over")

\* Faulty variant: one tick too many.
NextAsk_OneMore ==
    IF op.name = "tick" /\ complete <= Ticks
    THEN complete' = complete + 1 /\ pc' = "ask" /\ UNCHANGED <<todo, ret, selected, saved>>
    ELSE NextCam

\* After ask number complete: init_sync asks Ticks times more.
NextAsk ==
    IF op.name = "tick" /\ complete < Ticks
    THEN complete' = complete + 1 /\ pc' = "ask" /\ UNCHANGED <<todo, ret, selected, saved>>
    ELSE NextCam

\* An error of asking or answering, which init_sync catches: without the first
\* tick there are no others.
Caught == IF complete = 0 THEN NextCam ELSE NextAsk

\* The first answer was no tick: init_sync sends, but fails before it reads.
NoBase(c) == op.name = "tick" /\ complete > 0 /\ answers[c] = <<>>

Ask ==
    /\ pc = "ask" /\ todo # <<>>
    /\ LET c == Head(todo)
       IN  \/ /\ WriteOk(c)
              /\ IF NoBase(c) THEN NextAsk
                 ELSE pc' = "answer" /\ UNCHANGED <<todo, complete, ret, selected, saved>>
           \/ WriteRefused(c) /\ Caught
           \/ WriteFails(c) /\ Caught
    /\ UNCHANGED <<running, cid, cur, outq, known, mc_id, op, results, jobs, answers,
                   calls, silent>>

\* wait_msg throws: cmd_msgbatch_cam does not catch it, and what the cameras
\* before have answered is lost; init_sync does.
Thrown ==
    IF op.name = "list" THEN Throw /\ answers' = [c \in Cams |-> <<>>] /\ UNCHANGED complete
    ELSE Caught /\ UNCHANGED <<jobs, answers>>

\* Message m from c is read.
Keep(c, m) == answers' = [answers EXCEPT ![c] = Append(@, [msg |-> m, want |-> complete])]
IsTick(m)  == m.type = "status" /\ m.name = "tick"

\* Faulty variant: one batch is taken for the whole list.
Taken_Once(c, m) ==
    /\ UNCHANGED jobs
    /\ IF op.name = "list" THEN Keep(c, m) /\ NextCam
       ELSE /\ IF IsTick(m) THEN Keep(c, m) ELSE UNCHANGED answers
            /\ NextAsk

\* What a message does: a list takes batches until there is a status, and
\* nothing if that is false; a tick has to be a number.
Taken(c, m) ==
    /\ UNCHANGED jobs
    /\ IF op.name = "list" /\ m.type = "item"
       THEN Keep(c, m) /\ UNCHANGED <<todo, pc, complete, ret, selected, saved>>
       ELSE IF op.name = "list"
       THEN /\ IF m.type = "fail" THEN answers' = [answers EXCEPT ![c] = <<>>] ELSE Keep(c, m)
            /\ NextCam
       ELSE /\ IF IsTick(m) THEN Keep(c, m) ELSE UNCHANGED answers
            /\ NextAsk

\* wait_msg gets one message, or loses it with a failed transaction.
Answer ==
    /\ pc = "answer" /\ todo # <<>>
    /\ LET c == Head(todo)
       IN  \/ /\ outq[c] # <<>>
              /\ outq' = [outq EXCEPT ![c] = Tail(@)]
              /\ IF ~known[c] \/ Head(outq[c]).type = "error"
                 THEN Thrown
                 ELSE Taken(c, Head(outq[c]))
              /\ UNCHANGED <<quiet, faults>>
           \/ /\ Fault /\ quiet' = quiet \ {c}
              /\ outq' \in {outq, [outq EXCEPT ![c] = IF @ = <<>> THEN @ ELSE Tail(@)]}
              /\ Thrown
    /\ UNCHANGED <<running, cid, inq, cur, known, mc_id, op, results, calls, silent, refused>>

\* Faulty variant: wait_msg waits for less than the command may take.
AnswerTimeout_Short ==
    /\ pc = "answer" /\ todo # <<>>
    /\ outq[Head(todo)] = <<>>
    /\ Thrown
    /\ UNCHANGED <<cameras, mc_id, op, results, history>>

\* No answer will come, the script having ended, or its status having met a
\* full queue: wait_msg waits a day, and throws.
AnswerTimeout ==
    /\ pc = "answer" /\ todo # <<>>
    /\ LET c == Head(todo)
       IN  outq[c] = <<>> /\ (~running[c] \/ (inq[c] = <<>> /\ cur[c] = NoCmd))
    /\ Thrown
    /\ UNCHANGED <<cameras, mc_id, op, results, history>>

-----------------------------------------------------------------------------
\* Ids.

\* mc:set_id: a camera that has the new id is given the old one first.
SetId ==
    /\ pc = "idle"
    /\ \E old, new \in Ids : \E c \in Find(old) :
        \/ WithId(new) = {} /\ jobs' = <<[cam |-> c, id |-> new]>>
        \/ \E d \in Find(new) : jobs' = <<[cam |-> d, id |-> old], [cam |-> c, id |-> new]>>
    /\ Len(jobs') <= Left
    /\ pc' = "setid" /\ ret' = "none" /\ NoCommand
    /\ UNCHANGED <<cameras, mc_id, selected, todo, saved, calls, refused, faults>>

\* Faulty variant: the id is not changed if no script runs.
SetIdCam_Running ==
    /\ pc = "setid" /\ jobs # <<>>
    /\ LET c == Head(jobs).cam
           i == Head(jobs).id
       IN  /\ jobs' = Tail(jobs)
           /\ mc_id' = IF running[c] THEN [mc_id EXCEPT ![c] = i] ELSE mc_id
           /\ IF running[c]
              THEN /\ saved' = selected /\ selected' = <<c>>
                   /\ Begin("setid", i, TRUE, <<c>>, "flush")
              ELSE UNCHANGED <<cameras, selected, pc, op, todo, results, complete, saved,
                               answers, ret, history>>

\* Faulty variant: the script is sent the id the connection had before.
SetIdCam_OldId ==
    /\ pc = "setid" /\ jobs # <<>>
    /\ LET c == Head(jobs).cam
       IN  /\ jobs' = Tail(jobs)
           /\ mc_id' = [mc_id EXCEPT ![c] = Head(jobs).id]
           /\ IF running[c]
              THEN /\ saved' = selected /\ selected' = <<c>>
                   /\ Begin("setid", mc_id[c], TRUE, <<c>>, "flush")
              ELSE UNCHANGED <<cameras, selected, pc, op, todo, results, complete, saved,
                               answers, ret, history>>

\* set_id_cam: the connection's id, and, if a script runs, the script's, by a
\* command to a selection of this camera alone.
SetIdCam ==
    /\ pc = "setid" /\ jobs # <<>>
    /\ LET c == Head(jobs).cam
           i == Head(jobs).id
       IN  /\ jobs' = Tail(jobs)
           /\ mc_id' = [mc_id EXCEPT ![c] = i]
           /\ IF running[c]
              THEN /\ saved' = selected /\ selected' = <<c>>
                   /\ Begin("setid", i, TRUE, <<c>>, "flush")
              ELSE UNCHANGED <<cameras, selected, pc, op, todo, results, complete, saved,
                               answers, ret, history>>

\* script_status throws in between: set_id ends with one id changed.
SetIdFails ==
    /\ pc = "setid" /\ jobs # <<>> /\ Fault
    /\ mc_id' = [mc_id EXCEPT ![Head(jobs).cam] = Head(jobs).id]
    /\ Throw
    /\ UNCHANGED <<cameras, op, results, complete, answers, calls, quiet, silent, refused>>

\* set_id ends: the selection is all cameras.
SetIdDone ==
    /\ pc = "setid" /\ jobs = <<>>
    /\ selected' \in Sorted(Cams, mc_id)
    /\ pc' = "idle" /\ ret' = "over"
    /\ UNCHANGED <<cameras, mc_id, op, todo, results, complete, jobs, saved, answers, history>>

\* mc:sel by ids, or of all.
Select ==
    /\ pc = "idle"
    /\ \E S \in {UNION {Find(i) : i \in I} : I \in (SUBSET {mc_id[c] : c \in Cams}) \ {{}}} \cup {Cams} :
           selected' \in Sorted(S, mc_id)
    /\ ret' = "over" /\ NoCommand
    /\ UNCHANGED <<cameras, mc_id, pc, todo, jobs, saved, calls, refused, faults>>

-----------------------------------------------------------------------------
\* mc:start: start_single for each selected camera, its errors being warnings.
Start ==
    /\ pc = "idle" /\ selected # <<>>
    /\ pc' = "start" /\ todo' = selected /\ ret' = "none" /\ NoCommand
    /\ UNCHANGED <<cameras, mc_id, selected, jobs, saved, calls, refused, faults>>

NextStart ==
    IF Len(todo) > 1 THEN todo' = Tail(todo) /\ pc' = "start" /\ UNCHANGED ret
    ELSE todo' = <<>> /\ pc' = "idle" /\ ret' = "over"

\* A running script is told to exit and given a quarter of a second.
StartOne ==
    /\ pc = "start"
    /\ LET c    == Head(todo)
           Exit == inq' = [inq EXCEPT ![c] = Append(@, Cmd("exit", 0, 0))]
       IN  \/ ~running[c] /\ pc' = "exec" /\ UNCHANGED <<inq, todo, ret, faults>>
           \/ Accepts(c) /\ Exit /\ pc' = "stop" /\ UNCHANGED <<todo, ret, faults>>
           \/ running[c] /\ ~Accepts(c) /\ NextStart /\ UNCHANGED <<inq, faults>>
           \/ Fault /\ NextStart /\ (UNCHANGED inq \/ (Accepts(c) /\ Exit))
    /\ UNCHANGED <<running, cid, cur, outq, known, mc_id, selected, op, results, complete,
                   jobs, saved, answers, calls, quiet, silent, refused>>

\* It has ended, or it has not in time.
StartStop ==
    /\ pc = "stop"
    /\ \/ ~running[Head(todo)] /\ pc' = "exec" /\ UNCHANGED <<todo, ret>>
       \/ running[Head(todo)] /\ NextStart
    /\ UNCHANGED <<cameras, mc_id, selected, op, results, complete, jobs, saved, answers,
                   history>>

\* con:exec of mc.run with the connection's id; ScriptExec has its details.
\* It flushes the messages of both sides.
Started(c) ==
    /\ running' = [running EXCEPT ![c] = TRUE] /\ cid' = [cid EXCEPT ![c] = mc_id[c]]
    /\ inq' = [inq EXCEPT ![c] = <<>>] /\ outq' = [outq EXCEPT ![c] = <<>>]
    /\ cur' = [cur EXCEPT ![c] = NoCmd]
    /\ refused' = refused \ {c}
StartExec ==
    /\ pc = "exec"
    /\ LET c == Head(todo)
       IN  \/ Started(c) /\ known' = [known EXCEPT ![c] = TRUE] /\ UNCHANGED faults
           \/ /\ Fault /\ known' = [known EXCEPT ![c] = FALSE]
              /\ Started(c) \/ UNCHANGED <<running, cid, inq, cur, outq, refused>>
    /\ NextStart
    /\ UNCHANGED <<mc_id, selected, op, results, complete, jobs, saved, answers,
                   calls, quiet, silent>>

-----------------------------------------------------------------------------
Init ==
    /\ running = [c \in Cams |-> FALSE] /\ cid = [c \in Cams |-> 0]
    /\ inq = [c \in Cams |-> <<>>] /\ outq = [c \in Cams |-> <<>>]
    /\ cur = [c \in Cams |-> NoCmd] /\ known = [c \in Cams |-> FALSE]
    /\ mc_id = [c \in Cams |-> CHOOSE i \in DOMAIN CamList : CamList[i] = c]
    /\ selected = CamList /\ saved = <<>> /\ jobs = <<>> /\ todo = <<>>
    /\ pc = "idle" /\ op = NoOp
    /\ results = [i \in Ids |-> NoResult] /\ complete = 0
    /\ answers = [c \in Cams |-> <<>>] /\ ret = "over"
    /\ calls = 0 /\ quiet = {} /\ silent = {} /\ refused = {} /\ faults = 0

Call == Command \/ ImgList \/ InitSync \/ SetId \/ Select \/ Start

HostStep ==
    \/ Flush \/ Send \/ Poll \/ RoundEnd \/ Ask \/ Answer \/ AnswerTimeout
    \/ SetIdCam \/ SetIdDone \/ StartOne \/ StartStop \/ StartExec

Next == Camera \/ Call \/ HostStep \/ WaitTimeout \/ FlushFails \/ SetIdFails

Spec == Init /\ [][Next]_vars

\* The host program keeps going, time passes, and scripts answer.
FairSpec == Spec /\ WF_vars(HostStep) /\ SF_vars(WaitTimeout) /\ WF_vars(Camera)

-----------------------------------------------------------------------------
Args     == Ids \cup 0..Ticks
Commands == {"shoot", "exit", "list", "tick", "setid"}
CmdType  == {NoCmd} \cup [name : Commands, arg : Args,
                          call : 0..Budget, left : -1..ListLen]
MsgType  == [type : {"status", "fail", "item", "error"}, name : Commands,
             arg : Args, call : 0..Budget]

TypeOK ==
    /\ running \in [Cams -> BOOLEAN] /\ known \in [Cams -> BOOLEAN]
    /\ cid \in [Cams -> Ids \cup {0}] /\ mc_id \in [Cams -> Ids]
    /\ \A c \in Cams : /\ cur[c] \in CmdType
                       /\ inq[c] \in Seq(CmdType) /\ Len(inq[c]) <= QueueMax
                       /\ outq[c] \in Seq(MsgType) /\ Len(outq[c]) <= QueueMax
                       /\ answers[c] \in Seq([msg : MsgType, want : 0..Ticks])
    /\ selected \in Seq(Cams) /\ todo \in Seq(Cams) /\ saved \in Seq(Cams)
    /\ pc \in {"idle", "flush", "send", "wait", "ask", "answer", "setid", "start", "stop",
               "exec"}
    /\ \A j \in DOMAIN jobs : jobs[j].cam \in Cams /\ jobs[j].id \in Ids
    /\ \A i \in Ids : results[i].failed \in BOOLEAN /\ results[i].done \in BOOLEAN
    /\ complete \in Nat /\ faults \in Nat /\ calls \in Nat /\ Left >= 0
    /\ quiet \subseteq Cams /\ silent \subseteq Cams /\ refused \subseteq Cams

StatusOwn ==
    (pc = "wait" \/ ret \in {"all", "timeout"}) =>
        \A i \in Ids : \A c \in quiet :
            (results[i].from = <<c>> /\ ~results[i].failed) => results[i].call = calls

TicksOwn ==
    op.name = "tick" =>
        \A c \in quiet : \A k \in DOMAIN answers[c] :
            /\ answers[c][k].msg.call = calls
            /\ answers[c][k].msg.arg = answers[c][k].want

\* A status counts as a camera's answer to this command only if it is: one
\* of an earlier command is not mistaken for it, though nothing but its name
\* is compared, if the camera was done with those when the call began.  And the
\* answers init_sync computes the clock of a camera with are those to its own
\* ticks, each to the one it is compared with, whatever was waiting.
OwnAnswers == StatusOwn /\ TicksOwn

\* The answers that make the image list of a camera are all of its batches
\* and the status after them.
Complete(c) ==
    LET a == answers[c]
    IN  (op.name = "list" /\ a # <<>> /\ c \notin ToSet(todo)) =>
            /\ Len(a) = ListLen + 1
            /\ \A k \in DOMAIN a : a[k].msg.call = calls

AllAnswered ==
    (ret = "all" /\ IsInjective(mc_id)) =>
        \A c \in ToSet(selected) :
            results[mc_id[c]].failed \/ results[mc_id[c]].from = <<c>>

ListComplete == \A c \in quiet \cap silent : Complete(c)

\* wait_status_msg returns true only when each selected camera has answered or
\* failed, as long as no two of them have the same id; and imglist returns the
\* whole list of a camera that had nothing to do and no message waiting when it
\* was called, the last batch and the status after it included.
AnswersComplete == AllAnswered /\ ListComplete

IdsUnique == (pc = "idle" /\ faults = 0) => IsInjective(mc_id)

\* The id c's script will have when it has done what it was told.
IdOnItsWay(c, i) ==
    LET line  == <<cur[c]>> \o inq[c]
        setid == {k \in DOMAIN line : line[k].name = "setid"}
    IN  \/ setid = {} /\ cid[c] = i
        \/ \E k \in setid : line[k].arg = i /\ \A j \in setid : j <= k
ScriptIds ==
    (pc = "idle" /\ faults = 0) =>
        \A c \in Cams \ refused : running[c] => IdOnItsWay(c, mc_id[c])

\* If no transaction fails, set_id never leaves two connections with one id,
\* and between calls a script that has refused no setid since it was started has
\* the id of its connection, or is about to get it, though an exchange of two
\* ids is two commands to two scripts.  The cameras in `refused' are exempt: one
\* whose message queue was full when setid was written keeps its old id while
\* the connection has the new one, until a later setid reaches it or its next
\* start: the code does not repair that, and no failed transaction is needed.
IdsAgree == IdsUnique /\ ScriptIds

\* Every call comes back, whatever the cameras do.
CallsReturn == (pc # "idle") ~> (pc = "idle")
=====

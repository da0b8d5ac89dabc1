----------------------------- MODULE RemoteShoot -----------------------------
(***************************************************************************)
(* Shooting with the images sent to the host: the commands remoteshoot     *)
(* (cli.lua) and rsint (rsint.lua), con:capture_get_data (chdku.lua) and   *)
(* the scripts they run on the camera, rs_shoot (rlibs.lua) and rsint_run. *)
(*                                                                         *)
(* Host, script and camera each have a loop of their own and a limit to    *)
(* the time they wait.  A host step is one PTP transaction; a script step  *)
(* is one turn of a loop.  A chunk is named by its shot and by how many    *)
(* chunks of the file were left.  The camera is external: it takes no shot *)
(* while data of the last one has to be fetched, and gives up capturing if *)
(* nobody fetches it.                                                      *)
(***************************************************************************)
EXTENDS Integers, Sequences

CONSTANTS
    Modes,      \* remoteshoot: "full", "quick", "cont", "hook"; rsint: "single", "intcont"
    Wants,      \* the sets of data types that may be asked for
    N,          \* opts.shots of remoteshoot
    MaxChunks,  \* remotecap_dtypes: the chunks a file may have
    MaxCmds,    \* bound on the commands given to rsint
    MaxShots,   \* bound on the shots of a camera whose shutter is held
    MaxFaults   \* bound on failed transactions, script errors and oversize files

Order == <<"jpg", "raw", "dng_hdr", "craw">>   \* remotecap_dtypes
Types == {Order[i] : i \in DOMAIN Order}
Rsint == {"single", "intcont"}

ASSUME ModesAssumption  == Modes \subseteq {"full", "quick", "cont", "hook"} \cup Rsint
ASSUME WantsAssumption  == Wants \subseteq (SUBSET Types) \ {{}}
ASSUME ChunksAssumption == /\ MaxChunks \in [Types -> Nat \ {0}]
                           /\ MaxChunks["raw"] = 1
ASSUME BoundsAssumption == /\ N \in Nat \ {0} /\ MaxCmds \in Nat
                           /\ MaxShots \in Nat /\ MaxFaults \in Nat

VARIABLES
    mode, want,  \* the command's options
    \* the camera
    target,     \* what init_usb_capture has asked for; {} when capture is off
    held,       \* the shutter button: "no", "once", or "cont" while it is held
    hook,       \* hook_shoot: "off", "on", "ready" when a shot waits in it, or
                \* "passed" when one has waited too long
    busy,       \* whether a shot is being taken
    made, exp,  \* shots taken, and the exposure counter
    coming,     \* types of the shot that are not available yet
    avail,      \* types that are
    left,       \* chunks left of those
    \* the script
    scr,        \* where it is, or "off"
    shots,      \* state.shots
    lastexp,    \* state.last_exp_count
    nextshot,   \* next_shot of rsint_run_cont
    hooks,      \* state.hook_shoot_count, or -1 in a build without hook_shoot
    inq,        \* messages from the host
    outmsg,     \* whether its return value or error waits for the host
    \* the host
    hpc,        \* what it does next
    calls,      \* calls of capture_get_data that returned
    toget, seen,  \* toget, and the types of the last poll that are not handled
    cur,        \* the type its handler is at
    pieces,     \* the chunks fetched in this call
    hdr,        \* the shot of dng_info.hdr
    cmd,        \* rsint's command
    failed,     \* whether an error was met
    ret,        \* how the command ended
    cmds, faults   \* history: what the bounds count

camera  == <<target, held, hook, busy, made, exp, coming, avail, left>>
script  == <<scr, shots, lastexp, nextshot, hooks, inq, outmsg>>
host    == <<hpc, calls, toget, seen, cur, pieces, hdr, cmd, failed, ret>>
history == <<cmds, faults>>
vars    == <<mode, want, camera, script, host, history>>

Fault == faults < MaxFaults /\ faults' = faults + 1

-----------------------------------------------------------------------------
\* The camera.

Expose   == busy' = TRUE /\ made' = made + 1 /\ coming' = target
NoExpose == UNCHANGED <<busy, made, coming>>

\* The shutter is pressed and no hook in the way.
Shutter ==
    /\ held # "no" /\ hook = "off" /\ ~busy /\ made < MaxShots
    /\ Expose /\ held' = IF held = "once" THEN "no" ELSE held
    /\ UNCHANGED <<mode, want, target, hook, exp, avail, left, script, host, history>>

\* With a hook the shot waits in it.
ReachHook ==
    /\ held = "cont" /\ hook \in {"on", "passed"} /\ ~busy
    /\ hook' = "ready"
    /\ UNCHANGED <<mode, want, target, held, busy, made, exp, coming, avail, left,
                   script, host, history>>

\* Nobody has continued it.  rs_shoot makes this timeout longer than all it
\* does between two shots; rsint depends on its user.
HookTimeout ==
    /\ mode = "intcont" /\ hook = "ready" /\ made < MaxShots
    /\ Expose /\ hook' = "passed"
    /\ UNCHANGED <<mode, want, target, held, exp, avail, left, script, host, history>>

\* Data is ready, the raw image after the DNG header was fetched.  A file has
\* too many chunks if the camera's hook is a bad one.
DataReady ==
    \E S \in (SUBSET coming) \ {{}} :
        /\ "raw" \in S => "dng_hdr" \notin coming \cup avail
        /\ coming' = coming \ S /\ avail' = avail \cup S
        /\ \E big \in SUBSET (S \cap {"jpg", "craw"}) :
            /\ IF big = {} THEN UNCHANGED faults ELSE Fault
            /\ left' = [t \in Types |-> IF t \notin S THEN left[t]
                                        ELSE MaxChunks[t] + IF t \in big THEN 1 ELSE 0]
        /\ UNCHANGED <<mode, want, target, held, hook, busy, made, exp, script, host,
                       cmds>>

\* Nobody has fetched it for too long: capture is off.
DataTimeout ==
    /\ avail # {}
    /\ target' = {} /\ coming' = {} /\ avail' = {}
    /\ UNCHANGED <<mode, want, held, hook, busy, made, exp, left, script, host, history>>

CountUp ==
    /\ exp < made /\ exp' = made
    /\ UNCHANGED <<mode, want, target, held, hook, busy, made, coming, avail, left,
                   script, host, history>>

EndShot ==
    /\ busy /\ coming = {} /\ avail = {}
    /\ busy' = FALSE /\ exp' = made
    /\ UNCHANGED <<mode, want, target, held, hook, made, coming, avail, left,
                   script, host, history>>

FinishShot == DataReady \/ DataTimeout \/ CountUp \/ EndShot
Camera     == Shutter \/ ReachHook \/ HookTimeout \/ FinishShot
-----------------------------------------------------------------------------
\* The script.  A step is one turn of one of its loops, and reads one message
\* from the host or none.

Message == IF inq = <<>> THEN "none" ELSE Head(inq)
Others  == IF inq = <<>> THEN <<>> ELSE Tail(inq)

\* The script ends, which releases the buttons; rsint's returns a value.
Over ==
    /\ scr' = "off" /\ held' = "no" /\ hook' = "off" /\ inq' = <<>> /\ nextshot' = FALSE
    /\ outmsg' = (mode \in Rsint)

\* hook_shoot.set(0) lets go a shot that waits in the hook.
OverHooked == Over /\ IF hook = "ready" THEN Expose ELSE NoExpose

\* It goes on at pc, having read a message or not.
Continue(pc, q) ==
    /\ scr' = pc /\ inq' = q
    /\ UNCHANGED <<hook, nextshot, outmsg, busy, made, coming>>

\* Faulty variant: it knows the message of the other loops.
ToldToStop_Quit == Message = "quit"

ToldToStop == Message = "stop"

\* rs_shoot_multi_init: half pressed, until the camera is ready to shoot, which
\* it may never be.
Half ==
    /\ scr = "half"
    /\ IF ToldToStop THEN OverHooked
       ELSE (Continue("half", Others) \/ Continue("press", Others)) /\ UNCHANGED held
    /\ UNCHANGED <<mode, want, target, exp, avail, left, shots, lastexp, hooks, host, history>>

\* In the drive modes of "quick" a press takes one shot, however long it is.
Press ==
    /\ scr = "press"
    /\ held' = (IF mode = "quick" THEN "once" ELSE "cont")
    /\ hooks' = (IF mode = "cont" /\ hooks # -1 THEN made ELSE hooks)
    /\ Continue(IF mode = "hook" THEN "hookwait" ELSE "count", inq)
    /\ UNCHANGED <<mode, want, target, exp, avail, left, shots, lastexp, host, history>>

\* rs_shoot_wait_hook: until the shot is in the hook, or for five seconds.
HookWait ==
    /\ scr = "hookwait"
    /\ \/ Message # "quit"
          /\ Continue(IF hook = "ready" THEN "go" ELSE "hookwait", Others) /\ UNCHANGED held
       \/ OverHooked
    /\ UNCHANGED <<mode, want, target, exp, avail, left, shots, lastexp, hooks, host, history>>

\* Faulty variant: one shot too late.
LastShot_Late == shots = N

LastShot == shots = N - 1

\* Before the last shot the shutter is released.  If it is too early for the
\* shot, rs_shoot_cont_hook sleeps, and may be told to quit.
Go ==
    /\ scr = "go"
    /\ \/ Message = "quit" /\ OverHooked
       \/ \E q \in {inq} \cup (IF Message = "quit" THEN {} ELSE {Others}) :
            /\ inq' = q /\ scr' = "count" /\ hook' = "on" /\ Expose
            /\ held' = (IF LastShot THEN "no" ELSE held)
            /\ UNCHANGED <<nextshot, outmsg>>
    /\ UNCHANGED <<mode, want, target, exp, avail, left, shots, lastexp, hooks, host, history>>

\* Faulty variant: it gives up only when capture is off.
GivesUp_WhenOff(counted) == ~counted /\ target = {}

\* While the counter stays, the script may find that five seconds are over.
GivesUp(counted) == ~counted

\* A turn of rs_shoot_multi_wait; "cont" first releases the shutter, in a build
\* that can tell when the last shot has begun.  When capture is off it gives up.
Count ==
    /\ scr = "count"
    /\ hooks' = (IF mode = "cont" /\ hooks # -1 THEN made ELSE hooks)
    /\ LET button  == IF mode = "cont" /\ hooks \notin {-1, made} /\ shots >= N - 1
                      THEN "no" ELSE held
           counted == exp # lastexp
       IN  /\ lastexp' = (IF Message = "quit" THEN lastexp ELSE exp)
           /\ shots' = (IF counted /\ Message # "quit" THEN shots + 1 ELSE shots)
           /\ \/ (Message = "quit" \/ GivesUp(counted) \/ (counted /\ shots + 1 >= N)) /\ OverHooked
              \/ /\ Message # "quit" /\ IF counted THEN shots + 1 < N ELSE target # {}
                 /\ held' = (IF counted /\ mode = "quick" THEN "no" ELSE button)
                 /\ Continue(IF ~counted \/ mode = "cont" THEN "count"
                             ELSE IF mode = "hook" THEN "hookwait" ELSE "pause", Others)
    /\ UNCHANGED <<mode, want, target, exp, avail, left, host, history>>

\* Between two shots rs_shoot_full reads a message, and rs_shoot_quick if there
\* is time.
Pause ==
    /\ scr = "pause"
    /\ \/ Message = "quit" /\ OverHooked
       \/ \E q \in (IF Message = "quit" THEN {} ELSE {Others}) \cup
                   (IF mode = "quick" THEN {inq} ELSE {}) :
            Continue(IF mode = "quick" THEN "press" ELSE "shoot", q) /\ UNCHANGED held
    /\ UNCHANGED <<mode, want, target, exp, avail, left, shots, lastexp, hooks, host, history>>

\* shoot() of rs_shoot_full presses, and returns at the end of the shot, or if
\* the camera takes none.
Shoot ==
    /\ scr = "shoot" /\ ~busy
    /\ held' = "once" /\ Continue("shooting", inq)
    /\ UNCHANGED <<mode, want, target, exp, avail, left, shots, lastexp, hooks, host, history>>
Shot ==
    /\ scr = "shooting" /\ ~busy
    /\ shots' = shots + 1
    /\ IF shots + 1 >= N THEN OverHooked ELSE Continue("pause", inq) /\ held' = "no"
    /\ UNCHANGED <<mode, want, target, exp, avail, left, lastexp, hooks, host, history>>

\* A turn of rsint_run_single.  A click while the camera is busy is lost.  That
\* no command came for too long only sets errmsg.
Single ==
    /\ scr = "loop" /\ mode = "single"
    /\ IF Message \in {"s", "l"} /\ target # {} /\ ~busy THEN Expose ELSE NoExpose
    /\ IF target = {} \/ Message \in {"l", "q"} THEN Over
       ELSE scr' = scr /\ inq' = Others /\ UNCHANGED <<held, hook, nextshot, outmsg>>
    /\ UNCHANGED <<mode, want, target, exp, avail, left, shots, lastexp, hooks, host, history>>

\* A turn of rsint_run_cont.
IntCont ==
    /\ scr = "loop" /\ mode = "intcont"
    /\ LET next == nextshot \/ Message \in {"s", "l"}
           go   == next /\ hook = "ready"
       IN  IF target = {} \/ (~next /\ hook = "passed") THEN OverHooked
           ELSE /\ IF go THEN Expose ELSE NoExpose
                /\ IF Message = "l" THEN Over
                   ELSE /\ scr' = scr /\ inq' = Others /\ nextshot' = (next /\ ~go)
                        /\ hook' = (IF go THEN "on" ELSE hook)
                        /\ UNCHANGED <<held, outmsg>>
    /\ UNCHANGED <<mode, want, target, exp, avail, left, shots, lastexp, hooks, host, history>>

\* An error in the script, or in making the dummy file.
ScriptDies ==
    /\ scr # "off" /\ Fault
    /\ scr' = "off" /\ held' = "no" /\ hook' = "off" /\ inq' = <<>> /\ nextshot' = FALSE
    /\ outmsg' = TRUE
    /\ UNCHANGED <<mode, want, target, busy, made, exp, coming, avail, left, shots, lastexp,
                   hooks, host, cmds>>

Script == Half \/ Press \/ HookWait \/ Go \/ Count \/ Pause \/ Shoot \/ Shot \/ Single \/ IntCont

-----------------------------------------------------------------------------
\* The host.  A step is one transaction, or one wait with all its polls.

\* The header a DNG file is made with comes from the handler of "dng_hdr".
Dng == {"raw", "dng_hdr"} \subseteq want

NextCall == IF mode \in Rsint THEN "cmd" ELSE "begin"

\* A command that ends with no script to wait for.
End(r) == hpc' = "end" /\ ret' = r

\* rs_init on the camera: capture is on, or refused, or nobody knows.
RsInit ==
    /\ hpc = "init"
    /\ \/ target' = want /\ hpc' = "start" /\ UNCHANGED <<ret, faults>>
       \/ End("failed") /\ UNCHANGED <<target, faults>>
       \/ End("failed") /\ target' \in {target, want} /\ Fault
    /\ UNCHANGED <<mode, want, held, hook, busy, made, exp, coming, avail, left, script,
                   calls, toget, seen, cur, pieces, hdr, cmd, failed, cmds>>

\* con:exec of rs_shoot or rsint_run.  An error is thrown out of the command,
\* the script started or not.
Started ==
    /\ scr' = (CASE mode = "full" -> "shoot" [] mode \in Rsint -> "loop" [] OTHER -> "half")
    /\ hook' = (IF mode \in {"hook", "intcont"} THEN "on" ELSE "off")
    /\ held' = (IF mode = "intcont" THEN "cont" ELSE "no")
    /\ lastexp' = exp
Start ==
    /\ hpc = "start"
    /\ \/ Started /\ hpc' = NextCall /\ UNCHANGED <<ret, faults>>
       \/ (Started \/ UNCHANGED <<scr, hook, held, lastexp>>) /\ End("failed") /\ Fault
    /\ UNCHANGED <<mode, want, target, busy, made, exp, coming, avail, left, shots, nextshot,
                   hooks, inq, outmsg, calls, toget, seen, cur, pieces, hdr, cmd, failed, cmds>>

\* con:capture_get_data up to its first poll.  Headers are kept between calls.
Begin ==
    /\ hpc = "begin"
    /\ hpc' = "poll" /\ toget' = want /\ seen' = {} /\ pieces' = [t \in Types |-> <<>>]
    /\ UNCHANGED <<mode, want, camera, script, calls, cur, hdr, cmd, failed, ret, history>>

\* An error thrown out of capture_get_data.
CallFails == hpc' = (IF mode \in Rsint THEN "wait" ELSE "stop") /\ failed' = TRUE

\* Faulty variant: without a timeout.
PollFails_OnlyOff == target = {}

\* There is no data: capture is off, or the wait's timeout has passed.
PollFails == avail = {}

\* con:wait_status for data.
Poll ==
    /\ hpc = "poll"
    /\ \/ PollFails /\ CallFails /\ UNCHANGED <<seen, faults>>
       \/ Fault /\ CallFails /\ UNCHANGED seen
       \/ avail # {} /\ seen' = avail /\ hpc' = "handle" /\ UNCHANGED <<failed, faults>>
    /\ UNCHANGED <<mode, want, camera, script, calls, toget, cur, pieces, hdr, cmd, ret, cmds>>

\* Faulty variant: done as soon as something was fetched.
NothingToGet_Any == toget # want

NothingToGet == toget = {}

\* The loop over the types the poll has seen, and over the polls.
Handle ==
    /\ hpc = "handle"
    /\ IF seen = {} THEN hpc' = (IF NothingToGet THEN "done" ELSE "poll") /\ UNCHANGED <<cur, failed>>
       ELSE /\ cur' = Order[CHOOSE i \in DOMAIN Order :
                               /\ Order[i] \in seen
                               /\ \A j \in 1..(i - 1) : Order[j] \notin seen]
            /\ IF cur' \notin toget \/ (Dng /\ cur' = "raw" /\ hdr = 0) THEN CallFails
               ELSE hpc' = "chunk" /\ UNCHANGED failed
    /\ UNCHANGED <<mode, want, camera, script, calls, toget, seen, pieces, hdr, cmd, ret, history>>

\* capture_get_chunk takes a chunk off the camera's list; the last one makes
\* the type's handler return.
TakeChunk ==
    /\ cur \in avail
    /\ left' = [left EXCEPT ![cur] = @ - 1]
    /\ avail' = (IF left[cur] = 1 THEN avail \ {cur} ELSE avail)
    /\ pieces' = [pieces EXCEPT ![cur] = Append(@, <<made, left[cur] - 1>>)]
HandlerReturns ==
    /\ hpc' = "handle" /\ toget' = toget \ {cur} /\ seen' = seen \ {cur}
    /\ hdr' = (IF Dng /\ cur = "dng_hdr" THEN made ELSE hdr)
ChunkFails ==
    /\ CallFails
    /\ UNCHANGED <<avail, left, toget, seen, pieces, hdr>>

\* Faulty variant: no limit.
TooMany_Never(chunks) == FALSE

TooMany(chunks) == Len(chunks) > MaxChunks[cur]

\* A turn of the loop of rc_handler_file or rc_handler_store; the handler of a
\* DNG's raw image has no loop, and takes one chunk.
Chunk ==
    /\ hpc = "chunk"
    /\ \/ cur \notin avail /\ ChunkFails /\ UNCHANGED faults
       \/ Fault /\ ChunkFails
       \/ /\ TakeChunk
          /\ IF TooMany(pieces'[cur]) THEN CallFails /\ UNCHANGED <<toget, seen, hdr>>
             ELSE IF left'[cur] = 0 \/ (Dng /\ cur = "raw")
             THEN HandlerReturns /\ UNCHANGED failed
             ELSE UNCHANGED <<hpc, failed, toget, seen, hdr>>
          /\ UNCHANGED faults
    /\ UNCHANGED <<mode, want, target, held, hook, busy, made, exp, coming, script, calls, cur,
                   cmd, ret, cmds>>

\* Faulty variant: one call more than shots.
ShotsDone_OneMore(shot) == shot > N + 1

\* shot, once it is counted, is past opts.shots.
ShotsDone(shot) == shot > N

CallDone ==
    /\ hpc = "done"
    /\ calls' = calls + 1
    /\ hpc' = (IF mode \in Rsint THEN (IF cmd = "l" THEN "wait" ELSE "cmd")
               ELSE IF ShotsDone(calls + 2) THEN "wait" ELSE "begin")
    /\ UNCHANGED <<mode, want, camera, script, toget, seen, cur, pieces, hdr, cmd, failed, ret,
                   history>>

\* con:write_msg, for a script that runs.
Write(m) == scr # "off" /\ inq' = Append(inq, m)

\* con:write_msg_pcall('stop')
SendStop ==
    /\ hpc = "stop" /\ hpc' = "wait"
    /\ \/ Write("stop") /\ UNCHANGED faults
       \/ scr = "off" /\ UNCHANGED <<inq, faults>>
       \/ Fault /\ UNCHANGED inq
    /\ UNCHANGED <<mode, want, camera, scr, shots, lastexp, nextshot, hooks, outmsg, calls, toget,
                   seen, cur, pieces, hdr, cmd, failed, ret, cmds>>

\* rsint: a command from the user, or one for the end of input; "x" stands for
\* the commands that take no picture.
Cmd ==
    /\ hpc = "cmd" /\ cmds' = cmds + 1 /\ hpc' = "status"
    /\ cmd' \in IF cmds < MaxCmds THEN {"s", "l", "q", "x"}
                ELSE IF mode = "intcont" THEN {"l"} ELSE {"q"}
    /\ UNCHANGED <<mode, want, camera, script, calls, toget, seen, cur, pieces, hdr, failed, ret,
                   faults>>

\* con:script_status: the script's messages are read; it has ended, it has
\* died, or it takes commands.
Status ==
    /\ hpc = "status"
    /\ \/ /\ outmsg' = FALSE
          /\ hpc' = (IF outmsg \/ scr = "off" THEN "wait" ELSE "tell")
          /\ failed' = (failed \/ (~outmsg /\ scr = "off"))
          /\ UNCHANGED faults
       \/ Fault /\ CallFails /\ UNCHANGED outmsg
    /\ UNCHANGED <<mode, want, camera, scr, shots, lastexp, nextshot, hooks, inq, calls, toget,
                   seen, cur, pieces, hdr, cmd, ret, cmds>>

\* con:write_msg of the command.  "q" ends single mode only.
Tell ==
    /\ hpc = "tell"
    /\ \/ /\ Write(cmd)
          /\ hpc' = (IF cmd \in {"s", "l"} THEN "begin"
                     ELSE IF cmd = "q" /\ mode = "single" THEN "wait" ELSE "cmd")
          /\ UNCHANGED <<failed, faults>>
       \/ scr = "off" /\ CallFails /\ UNCHANGED <<inq, faults>>
       \/ Fault /\ CallFails /\ UNCHANGED inq
    /\ UNCHANGED <<mode, want, camera, scr, shots, lastexp, nextshot, hooks, outmsg, calls, toget,
                   seen, cur, pieces, hdr, cmd, ret, cmds>>

\* con:wait_status_pcall{run=false}, for half a minute; what it finds is only
\* shown.
Wait ==
    /\ hpc = "wait" /\ hpc' = "cleanup"
    /\ UNCHANGED <<mode, want, camera, script, calls, toget, seen, cur, pieces, hdr, cmd, failed,
                   ret, history>>

CaptureOff == target' = {} /\ coming' = {} /\ avail' = {}
CaptureKept == UNCHANGED <<target, coming, avail>>

\* Faulty variant: after an error capture is left on.
Uninit_OnlyOnSuccess == IF failed THEN CaptureKept ELSE CaptureOff

\* init_usb_capture(0), also after an error.
Uninit == CaptureOff

\* con:execwait_pcall of rs_cleanup, refused while the script runs.
Cleanup ==
    /\ hpc = "cleanup"
    /\ \/ /\ scr = "off" /\ outmsg' = FALSE
          /\ Uninit
          /\ End(IF failed THEN "err" ELSE "ok") /\ UNCHANGED faults
       \/ scr # "off" /\ CaptureKept /\ End("uninit") /\ UNCHANGED <<outmsg, faults>>
       \/ Fault /\ (CaptureKept \/ (scr = "off" /\ Uninit)) /\ End("uninit") /\ UNCHANGED outmsg
    /\ UNCHANGED <<mode, want, held, hook, busy, made, exp, left, scr, shots, lastexp, nextshot,
                   hooks, inq, calls, toget, seen, cur, pieces, hdr, cmd, failed, cmds>>

Host ==
    \/ RsInit \/ Start \/ Begin \/ Poll \/ Handle \/ Chunk \/ CallDone \/ SendStop
    \/ Cmd \/ Status \/ Tell \/ Wait \/ Cleanup

Init ==
    /\ mode \in Modes /\ want \in Wants
    /\ target = {} /\ held = "no" /\ hook = "off" /\ busy = FALSE /\ made = 0 /\ exp = 0
    /\ coming = {} /\ avail = {} /\ left = [t \in Types |-> 0]
    /\ scr = "off" /\ shots = 0 /\ lastexp = 0 /\ nextshot = FALSE
    /\ hooks \in (IF mode = "cont" THEN {-1, 0} ELSE {0})
    /\ inq = <<>> /\ outmsg = FALSE
    /\ hpc = "init" /\ calls = 0 /\ toget = {} /\ seen = {} /\ cur = "jpg"
    /\ pieces = [t \in Types |-> <<>>] /\ hdr = 0 /\ cmd = "x" /\ failed = FALSE /\ ret = "none"
    /\ cmds = 0 /\ faults = 0

Next == Camera \/ Script \/ ScriptDies \/ Host

Spec == Init /\ [][Next]_vars

\* The camera is ready to shoot.
Focused == scr = "half" /\ scr' = "press"

\* The host goes on, since each transaction and each wait has a limit; so does
\* the script in each of its loops, and the camera ends what shots it takes.  It
\* need not take any, nor become ready for one: the loop of Half has no limit.
FairSpec ==
    /\ Spec /\ WF_vars(Host) /\ WF_vars(Script /\ ~Focused) /\ WF_vars(FinishShot)

-----------------------------------------------------------------------------
\* The types of the variables; remoteshoot makes at most one call per shot.
TypeOK ==
    /\ mode \in Modes /\ want \in Wants
    /\ target \in {{}, want} /\ held \in {"no", "once", "cont"}
    /\ hook \in {"off", "on", "ready", "passed"} /\ busy \in BOOLEAN
    /\ made \in Nat /\ exp \in 0..made
    /\ coming \subseteq want /\ avail \subseteq want /\ left \in [Types -> Nat]
    /\ scr \in {"off", "half", "press", "hookwait", "go", "count", "pause", "shoot", "shooting",
                "loop"}
    /\ shots \in 0..N /\ lastexp \in 0..made /\ nextshot \in BOOLEAN /\ hooks \in -1..made
    /\ inq \in Seq({"stop", "s", "l", "q", "x"}) /\ outmsg \in BOOLEAN
    /\ hpc \in {"init", "start", "begin", "poll", "handle", "chunk", "done", "stop", "cmd",
                "status", "tell", "wait", "cleanup", "end"}
    /\ calls \in Nat /\ (mode \notin Rsint => calls <= N)
    /\ toget \subseteq want /\ seen \subseteq want /\ cur \in Types
    /\ pieces \in [Types -> Seq(Nat \X Nat)] /\ hdr \in 0..made
    /\ cmd \in {"s", "l", "q", "x"} /\ failed \in BOOLEAN
    /\ ret \in {"none", "ok", "err", "failed", "uninit"}
    /\ cmds \in 0..(MaxCmds + 1) /\ faults \in 0..MaxFaults

InCall  == hpc \in {"poll", "handle", "chunk", "done"}
Got     == want \ toget
ShotOf(t) == pieces[t][1][1]

ChunksWhole ==
    InCall => \A t \in Got :
        pieces[t] = [i \in 1..MaxChunks[t] |-> <<ShotOf(t), MaxChunks[t] - i>>]

InStep ==
    InCall => \A t \in Got :
        ShotOf(t) = calls + 1 /\ (Dng /\ t = "raw" => hdr = calls + 1)

\* A type the call no longer wants has been fetched from the first chunk to
\* the last, all of one shot: capture_get_data never returns a file that is cut
\* off, whatever polls and handlers the chunks were spread over.  The k-th call
\* gets the k-th shot, in all its types, and a DNG file has the header of its own
\* raw image: shotseq, names and times belong to the shot.
FilesWhole == ChunksWhole /\ InStep

NoExtra == mode \in {"full", "quick", "hook"} => made <= N

\* A command that reports nothing about uninit leaves the camera as it was: no
\* script, no button pressed, capture off; remoteshoot reports success only after
\* all shots were fetched; and where the script releases the shutter itself, the
\* camera takes no more shots than asked for, whenever host or camera give up
\* (rlibs.lua 1653-1656).
Cleaned ==
    /\ NoExtra
    /\ ret \in {"ok", "err"} => scr = "off" /\ held = "no" /\ target = {} /\ avail = {}
    /\ ret = "ok" /\ mode \notin Rsint => calls = N

Returns == <>(hpc = "end")

Unready == scr = "half" /\ inq = <<>> /\ faults > 0

ScriptEnds == mode \notin Rsint => <>[](scr = "off") \/ <>[]Unready

\* The command comes to an end, whatever the camera and the script do, and so
\* does the script of remoteshoot, though the host may have given up, nobody
\* fetches the data, and the camera may not shoot.  One loop of that script waits
\* without a limit, for a camera that does not get ready (rlibs.lua 1590-1592):
\* the "stop" of the host that gave up is what ends it, and only a failed
\* transaction may leave it there for good, by losing the "stop" or by throwing
\* out of the command before it is sent.
BothEnd == Returns /\ ScriptEnds
=============================================================================

------------------------- MODULE RemoteShoot_proofs -------------------------
(***************************************************************************)
(* Proofs about RemoteShoot for any options, any number of shots, chunks,  *)
(* commands and faults.                                                    *)
(***************************************************************************)
EXTENDS RemoteShoot, SequenceTheorems, TLAPS

\* What the camera has ready is of the capture that is on, and of one shot; a
\* shot that waits in the hook is the only one.
CameraInv ==
    /\ coming \subseteq target /\ avail \subseteq target /\ coming \cap avail = {}
    /\ ~busy => coming = {} /\ avail = {}
    /\ hook = "ready" => ~busy /\ held = "cont"
    /\ "raw" \in avail => "dng_hdr" \notin coming \cup avail
    /\ \A t \in avail : /\ left[t] \in 1..(MaxChunks[t] + 1)
                        /\ t = "raw" => left[t] = 1

\* Where the script of a mode can be, and what its end leaves.
Places ==
    [m \in {"full", "quick", "cont", "hook"} \cup Rsint |->
        CASE m = "full"  -> {"off", "shoot", "shooting", "pause"}
          [] m = "quick" -> {"off", "half", "press", "count", "pause"}
          [] m = "cont"  -> {"off", "half", "press", "count"}
          [] m = "hook"  -> {"off", "half", "press", "hookwait", "go", "count"}
          [] OTHER       -> {"off", "loop"}]

ScriptInv ==
    /\ scr \in Places[mode]
    /\ scr = "off" => held = "no" /\ hook = "off"
    /\ scr # "off" /\ mode \notin Rsint => shots < N
    /\ scr = "go" => hook = "ready"
    /\ hook # "off" => mode \in {"hook", "intcont"}
    /\ mode = "single" => held = "no"
    /\ hpc \in {"init", "start"} => scr = "off" /\ shots = 0 /\ made = 0 /\ calls = 0 /\ ~busy

\* The shots that the script has pressed for, with the one it waits for, are
\* those it has counted.
Pressed == IF held = "once" THEN 1 ELSE 0
ShotsInv ==
    /\ mode \in {"full", "quick", "hook"} => made <= N
    /\ mode \in {"full", "quick"} =>
          /\ held # "cont"
          /\ scr \in {"shooting", "count"} => made + Pressed <= shots + 1
          /\ scr \in {"shoot", "pause", "half", "press"} => held = "no" /\ made <= shots
    /\ mode = "hook" =>
          /\ scr \in {"half", "press"} => held = "no" /\ hook = "on" /\ made <= shots
          /\ scr \in {"hookwait", "go"} => made <= shots
          /\ scr = "count" => made <= shots + 1 /\ (shots = N - 1 => held = "no" /\ hook = "on")
          /\ scr # "off" => hook # "off"

\* Where the host's command is, and how it ends.
Open == hpc \in {"init", "start", "begin", "poll", "handle", "chunk", "done", "cmd", "status", "tell"}
HostInv ==
    /\ mode \in Rsint => hpc # "stop"
    /\ mode \notin Rsint => /\ hpc \notin {"cmd", "status", "tell"} /\ calls <= N
                            /\ Open => calls < N
                            /\ hpc \in {"wait", "cleanup"} /\ ~failed => calls = N
    /\ hpc = "stop" => failed
    /\ mode \in Rsint => 
          /\ hpc \in {"init", "start", "cmd"} => cmds <= MaxCmds
          /\ hpc \in {"status", "tell", "begin", "poll", "handle", "chunk", "done"} =>
                cmds <= MaxCmds \/ cmd = (IF mode = "intcont" THEN "l" ELSE "q")
          /\ hpc \in {"begin", "poll", "handle", "chunk", "done"} => cmd \in {"s", "l"}
    /\ (hpc # "end" <=> ret = "none")
    /\ ret \in {"ok", "err"} => scr = "off" /\ target = {}
    /\ ret = "ok" /\ mode \notin Rsint => calls = N

\* Which shot the data is of: the one that the call under way fetches, or, once
\* it has got all of it, perhaps the next.
DataInv ==
    target = want /\ Open =>
        \/ made = calls /\ coming = {} /\ avail = {} /\ (InCall => toget = want)
        \/ made = calls + 1 /\ coming \cup avail = (IF InCall THEN toget ELSE want)
        \/ InCall /\ toget = {} /\ made = calls + 2 /\ coming \cup avail = want

\* What capture_get_data still wants, and what it has of each type.
WantInv ==
    /\ hpc = "poll" => toget # {}
    /\ hpc \in {"handle", "chunk"} => seen \subseteq toget
    /\ hpc = "chunk" => cur \in seen
    /\ hpc = "done" => toget = {}

\* The chunks that the call has of a file of m chunks, down to those that are
\* left; what is not wanted, or wanted by a call to come, nobody has touched.
HasFrom(p, shot, m, l) == Len(p) = m - l /\ \A i \in 1..(m - l) : p[i] = <<shot, m - i>>
Has(t, m, l) == HasFrom(pieces[t], calls + 1, m, l)
Partial(t) ==
    /\ t \in avail => \E m \in {MaxChunks[t], MaxChunks[t] + 1} :
                          left[t] <= m /\ Has(t, m, left[t]) /\ (t = "raw" => m = 1)
    /\ target = want /\ t \notin avail => pieces[t] = <<>>
PiecesInv == InCall => \A t \in want : IF t \in toget THEN Partial(t) ELSE Has(t, MaxChunks[t], 0)
FreshInv  == Open => \A t \in avail : (InCall => t \notin toget) => left[t] >= MaxChunks[t]

\* A DNG's header is fetched before its raw image, and kept for it.
HdrInv ==
    InCall /\ Dng => /\ "raw" \notin toget => "dng_hdr" \notin toget
                     /\ "dng_hdr" \notin toget => hdr = calls + 1

IInv == TypeOK /\ CameraInv /\ ScriptInv /\ ShotsInv /\ HostInv /\ DataInv /\ WantInv 
        /\ PiecesInv /\ FreshInv /\ HdrInv

-----------------------------------------------------------------------------
\* What the constants are.
LEMMA Constants ==
    /\ Types = {"jpg", "raw", "dng_hdr", "craw"}
    /\ DOMAIN Order = 1..4 /\ Order[1] = "jpg" /\ Order[2] = "raw" /\ Order[3] = "dng_hdr" /\ Order[4] = "craw"
    /\ \A S \in Wants : S \subseteq Types /\ S # {}
    /\ \A m \in Modes : m \in {"full", "quick", "cont", "hook", "single", "intcont"}
    /\ \A t \in Types : MaxChunks[t] \in Nat \ {0}
    /\ MaxChunks["raw"] = 1
    /\ N \in Nat \ {0} /\ MaxCmds \in Nat /\ MaxShots \in Nat /\ MaxFaults \in Nat
<1>1. DOMAIN Order = 1..4 /\ Order[1] = "jpg" /\ Order[2] = "raw" /\ Order[3] = "dng_hdr" /\ Order[4] = "craw"
  BY DEF Order
<1>2. Types = {"jpg", "raw", "dng_hdr", "craw"}
  <2>1. \A i \in 1..4 : i = 1 \/ i = 2 \/ i = 3 \/ i = 4
    OBVIOUS
  <2>2. 1 \in 1..4 /\ 2 \in 1..4 /\ 3 \in 1..4 /\ 4 \in 1..4
    OBVIOUS
  <2> QED
    BY <1>1, <2>1, <2>2 DEF Types
<1> QED
  BY <1>1, <1>2, ModesAssumption, WantsAssumption, ChunksAssumption, BoundsAssumption DEF Rsint

\* The type invariant by parts.
OptionsTyped == mode \in Modes /\ want \in Wants
CameraTyped ==
    /\ target \in {{}, want} /\ held \in {"no", "once", "cont"}
    /\ hook \in {"off", "on", "ready", "passed"} /\ busy \in BOOLEAN
    /\ made \in Nat /\ exp \in 0..made
    /\ coming \subseteq want /\ avail \subseteq want /\ left \in [Types -> Nat]
ScriptTyped ==
    /\ scr \in {"off", "half", "press", "hookwait", "go", "count", "pause", "shoot", "shooting", "loop"}
    /\ shots \in 0..N /\ lastexp \in 0..made /\ nextshot \in BOOLEAN /\ hooks \in -1..made
    /\ inq \in Seq({"stop", "s", "l", "q", "x"}) /\ outmsg \in BOOLEAN
HostTyped ==
    /\ hpc \in {"init", "start", "begin", "poll", "handle", "chunk", "done", "stop", "cmd",
                "status", "tell", "wait", "cleanup", "end"}
    /\ calls \in Nat /\ (mode \notin Rsint => calls <= N)
    /\ toget \subseteq want /\ seen \subseteq want /\ cur \in Types
    /\ pieces \in [Types -> Seq(Nat \X Nat)] /\ hdr \in 0..made
    /\ cmd \in {"s", "l", "q", "x"} /\ failed \in BOOLEAN
    /\ ret \in {"none", "ok", "err", "failed", "uninit"}
CountsTyped == cmds \in 0..(MaxCmds + 1) /\ faults \in 0..MaxFaults

\* The type invariant by parts: what was chosen, camera, script, host, counts.
LEMMA TypeParts ==
    TypeOK <=> OptionsTyped /\ CameraTyped /\ ScriptTyped /\ HostTyped /\ CountsTyped
  BY DEF TypeOK, OptionsTyped, CameraTyped, ScriptTyped, HostTyped, CountsTyped

\* What the invariant says.
LEMMA Parts ==
    ASSUME IInv
    PROVE  /\ OptionsTyped /\ CameraTyped /\ ScriptTyped /\ HostTyped /\ CountsTyped
           /\ CameraInv /\ ScriptInv /\ ShotsInv /\ HostInv /\ DataInv /\ WantInv /\ PiecesInv /\ FreshInv /\ HdrInv
           /\ want \subseteq Types /\ want # {}
           /\ mode \in {"full", "quick", "cont", "hook", "single", "intcont"}
           /\ mode \in Rsint <=> mode \in {"single", "intcont"}
           /\ shots \in Nat /\ lastexp \in Nat /\ exp \in Nat /\ made \in Nat /\ hooks \in Int /\ calls \in Nat
           /\ faults \in Nat /\ cmds \in Nat
<1>1. /\ TypeOK
      /\ CameraInv /\ ScriptInv /\ ShotsInv /\ HostInv /\ DataInv /\ WantInv /\ PiecesInv /\ FreshInv /\ HdrInv
  BY DEF IInv
<1>2. OptionsTyped /\ CameraTyped /\ ScriptTyped /\ HostTyped /\ CountsTyped
  BY <1>1, TypeParts
<1>3. /\ want \subseteq Types /\ want # {}
      /\ mode \in {"full", "quick", "cont", "hook", "single", "intcont"}
  BY <1>2, Constants DEF OptionsTyped
<1>4. mode \in Rsint <=> mode \in {"single", "intcont"}
  BY DEF Rsint
<1>5. \A m \in Nat : \A i \in 0..m : i \in Nat
  OBVIOUS
<1>6. \A m \in Nat : \A i \in (-1)..m : i \in Int
  OBVIOUS
<1>7. /\ exp \in Nat /\ made \in Nat /\ N \in Nat /\ MaxCmds \in Nat /\ MaxFaults \in Nat
  BY <1>2, <1>5, Constants DEF CameraTyped
<1>8. /\ shots \in Nat /\ lastexp \in Nat /\ hooks \in Int /\ calls \in Nat
  BY <1>2, <1>5, <1>6, <1>7 DEF ScriptTyped, HostTyped
<1>9. faults \in Nat /\ cmds \in Nat
  BY <1>2, <1>7 DEF CountsTyped
<1> QED
  BY <1>1, <1>2, <1>3, <1>4, <1>7, <1>8, <1>9

\* The options stay, and the bounds hold.
LEMMA OptionsNext ==
    ASSUME IInv, Next PROVE UNCHANGED <<mode, want>>
  BY DEF Next, Camera, FinishShot, Script, Host, Shutter, ReachHook, HookTimeout, DataReady, DataTimeout, CountUp,
         EndShot, Half, Press, HookWait, Go, Count, Pause, Shoot, Shot, Single, IntCont, ScriptDies,
         RsInit, Start, Begin, Poll, Handle, Chunk, CallDone, SendStop, Cmd, Status, Tell, Wait, Cleanup

-----------------------------------------------------------------------------
\* A shot begins, or the data stays as it is: a step of the camera or of the
\* script that touches neither the capture nor the host.
Begins == ~busy /\ Expose
Still  == UNCHANGED <<made, coming>> /\ (UNCHANGED busy \/ (coming = {} /\ avail = {} /\ busy' = FALSE))
Quiet  ==
    /\ UNCHANGED <<mode, want, target, avail, left, hpc, calls, toget, seen, cur, pieces, hdr, cmd, failed, ret>>
    /\ cmds' = cmds /\ exp' \in {exp, made}
    /\ Begins \/ Still

\* A step of the script leaves the host and the capture alone, and lets a shot
\* begin only while the camera takes none.
LEMMA ScriptQuiet ==
    ASSUME IInv, Script PROVE Quiet /\ UNCHANGED <<exp, faults>>
<1>1. hook = "ready" => ~busy
  BY Parts DEF CameraInv
<1>2. UNCHANGED <<mode, want, target, avail, left, hpc, calls, toget, seen, cur, pieces, hdr, cmd, failed, ret, cmds, exp, faults>>
  BY DEF Script, Half, Press, HookWait, Go, Count, Pause, Shoot, Shot, Single, IntCont, host, history
<1>3. OverHooked => Begins \/ Still
  BY <1>1 DEF OverHooked, NoExpose, Begins, Still
<1>4. \A pc, q : Continue(pc, q) => Still
  BY DEF Continue, Still
<1>5. scr = "go" => hook = "ready"
  BY Parts DEF ScriptInv
<1>6. Half \/ Press \/ HookWait \/ Pause \/ Shoot \/ Shot => Begins \/ Still
  BY <1>3, <1>4 DEF Half, Press, HookWait, Pause, Shoot, Shot
<1>7. Go => Begins \/ Still
  BY <1>1, <1>3, <1>5 DEF Go, Begins
<1>8. Count => Begins \/ Still
  BY <1>3, <1>4 DEF Count
<1>9. Single => Begins \/ Still
  BY DEF Single, NoExpose, Begins, Still
<1>10. IntCont => Begins \/ Still
  BY <1>1, <1>3 DEF IntCont, NoExpose, Begins, Still
<1> QED
  BY <1>2, <1>6, <1>7, <1>8, <1>9, <1>10 DEF Quiet, Script

\* The same holds of the camera's steps that make no data ready and of an error
\* in the script.
LEMMA CameraQuiet ==
    ASSUME IInv, Shutter \/ ReachHook \/ HookTimeout \/ CountUp \/ EndShot \/ ScriptDies PROVE Quiet
<1>1. hook = "ready" => ~busy
  BY Parts DEF CameraInv
<1>2. UNCHANGED <<mode, want, target, avail, left, hpc, calls, toget, seen, cur, pieces, hdr, cmd, failed, ret, cmds>>
  BY DEF Shutter, ReachHook, HookTimeout, CountUp, EndShot, ScriptDies, host, history
<1>3. exp' \in {exp, made}
  BY DEF Shutter, ReachHook, HookTimeout, CountUp, EndShot, ScriptDies
<1>4. Begins \/ Still
  BY <1>1 DEF Shutter, ReachHook, HookTimeout, CountUp, EndShot, ScriptDies, Begins, Still
<1> QED
  BY <1>2, <1>3, <1>4 DEF Quiet

\* Which steps there are.
LEMMA Steps ==
    ASSUME IInv, Next
    PROVE  Quiet \/ DataReady \/ DataTimeout \/ Host
  BY ScriptQuiet, CameraQuiet DEF Next, Camera, FinishShot

-----------------------------------------------------------------------------
\* Types.

\* Arithmetic of the counters.
LEMMA Ranges ==
    /\ \A a, b \in Nat : a \in 0..b <=> a <= b
    /\ \A a \in Int : \A b \in Nat : a \in -1..b <=> (-1 <= a /\ a <= b)
  OBVIOUS

\* What the camera shows is of its types in the shots of Quiet steps.
LEMMA QuietTyped ==
    ASSUME IInv, Quiet
    PROVE  /\ made' \in {made, made + 1} /\ made' \in Nat /\ exp' \in 0..made'
           /\ target' \in {{}, want'} /\ coming' \subseteq want' /\ avail' \subseteq want'
           /\ left' \in [Types -> Nat] /\ busy' \in BOOLEAN
<1>1. /\ target \in {{}, want} /\ coming \subseteq want /\ avail \subseteq want /\ left \in [Types -> Nat]
      /\ busy \in BOOLEAN /\ exp \in 0..made /\ made \in Nat
  BY Parts DEF CameraTyped
<1>2. made' \in {made, made + 1} /\ made' \in Nat /\ exp' \in 0..made'
  BY <1>1 DEF Quiet, Begins, Still, Expose
<1>3. UNCHANGED <<target, want, avail, left>>
  BY DEF Quiet
<1>4. coming' \subseteq want'
  BY <1>1, <1>3 DEF Quiet, Begins, Still, Expose
<1>5. busy' \in BOOLEAN
  BY <1>1 DEF Quiet, Begins, Still, Expose
<1> QED
  BY <1>1, <1>2, <1>3, <1>4, <1>5

\* Making data ready.
LEMMA ReadyTyped ==
    ASSUME IInv, DataReady
    PROVE  CameraTyped'
<1>0. /\ \A t \in Types : MaxChunks[t] \in Nat
  BY Constants
<1>1. CameraTyped /\ want \subseteq Types
  BY Parts
<1>2. PICK S \in (SUBSET coming) \ {{}} : \E big \in SUBSET (S \cap {"jpg", "craw"}) :
        /\ coming' = coming \ S /\ avail' = avail \cup S
        /\ left' = [t \in Types |-> IF t \notin S THEN left[t]
                                    ELSE MaxChunks[t] + IF t \in big THEN 1 ELSE 0]
  BY DEF DataReady
<1>3. left' \in [Types -> Nat]
  <2> PICK big \in SUBSET (S \cap {"jpg", "craw"}) :
        left' = [t \in Types |-> IF t \notin S THEN left[t]
                                  ELSE MaxChunks[t] + IF t \in big THEN 1 ELSE 0]
    BY <1>2
  <2>1. \A t \in Types : left[t] \in Nat
    BY <1>1 DEF CameraTyped
  <2>2. \A t \in Types : (IF t \notin S THEN left[t] ELSE MaxChunks[t] + IF t \in big THEN 1 ELSE 0) \in Nat
    BY <2>1, <1>0
  <2> QED
    BY <2>2
<1>4. UNCHANGED <<want, target, held, hook, busy, made, exp>>
  BY DEF DataReady
<1>5. coming' \subseteq want /\ avail' \subseteq want
  BY <1>1, <1>2 DEF CameraTyped
<1> QED
  BY <1>1, <1>3, <1>4, <1>5 DEF CameraTyped

\* held and hook are of their types after every step.
LEMMA ButtonsTyped ==
    ASSUME IInv, Next
    PROVE  held' \in {"no", "once", "cont"} /\ hook' \in {"off", "on", "ready", "passed"}
<1>1. held \in {"no", "once", "cont"} /\ hook \in {"off", "on", "ready", "passed"}
  BY Parts DEF CameraTyped
<1>2. Camera => held' \in {"no", "once", "cont"} /\ hook' \in {"off", "on", "ready", "passed"}
  BY <1>1 DEF Camera, FinishShot, Shutter, ReachHook, HookTimeout, DataReady, DataTimeout, CountUp, EndShot
<1>3. Over \/ OverHooked => held' = "no" /\ hook' = "off"
  BY DEF Over, OverHooked
<1>4. \A pc, q : Continue(pc, q) => hook' = hook
  BY DEF Continue
<1>5. Half \/ Press \/ HookWait \/ Pause \/ Shoot \/ Shot => held' \in {"no", "once", "cont"} /\ hook' \in {"off", "on", "ready", "passed"}
  BY <1>1, <1>3, <1>4 DEF Half, Press, HookWait, Pause, Shoot, Shot
<1>6. Go => held' \in {"no", "once", "cont"} /\ hook' \in {"off", "on", "ready", "passed"}
  BY <1>1, <1>3 DEF Go
<1>7. Count => held' \in {"no", "once", "cont"} /\ hook' \in {"off", "on", "ready", "passed"}
  BY <1>1, <1>3, <1>4 DEF Count
<1>8. Single => held' \in {"no", "once", "cont"} /\ hook' \in {"off", "on", "ready", "passed"}
  BY <1>1, <1>3 DEF Single
<1>9. IntCont => held' \in {"no", "once", "cont"} /\ hook' \in {"off", "on", "ready", "passed"}
  BY <1>1, <1>3 DEF IntCont
<1>10. ScriptDies => held' \in {"no", "once", "cont"} /\ hook' \in {"off", "on", "ready", "passed"}
  BY DEF ScriptDies
<1>11. Start => held' \in {"no", "once", "cont"} /\ hook' \in {"off", "on", "ready", "passed"}
  BY <1>1 DEF Start, Started
<1>12. Host => Start \/ UNCHANGED <<held, hook>>
  BY DEF Host, RsInit, Begin, Poll, Handle, Chunk, CallDone, SendStop, Cmd, Status, Tell, Wait, Cleanup, camera
<1> QED
  BY <1>1, <1>2, <1>5, <1>6, <1>7, <1>8, <1>9, <1>10, <1>11, <1>12 DEF Next, Script

\* A chunk is taken off the list.
LEMMA ChunkTyped ==
    ASSUME IInv, TakeChunk
    PROVE  /\ cur \in Types /\ cur \in avail /\ left[cur] \in Nat /\ left[cur] >= 1
           /\ left' \in [Types -> Nat] /\ left'[cur] = left[cur] - 1
           /\ \A t \in Types \ {cur} : left'[t] = left[t] /\ pieces'[t] = pieces[t]
           /\ pieces'[cur] = Append(pieces[cur], <<made, left[cur] - 1>>)
           /\ avail' \subseteq avail /\ avail' = (IF left[cur] = 1 THEN avail \ {cur} ELSE avail)
           /\ pieces' \in [Types -> Seq(Nat \X Nat)]
<1>1. /\ cur \in Types /\ cur \in avail /\ left \in [Types -> Nat] /\ pieces \in [Types -> Seq(Nat \X Nat)]
      /\ made \in Nat
  BY Parts DEF TakeChunk, CameraTyped, HostTyped
<1>2. \A t \in avail : left[t] \in 1..(MaxChunks[t] + 1)
  BY Parts DEF CameraInv
<1>3. left[cur] \in Nat /\ left[cur] >= 1
  <2>1. MaxChunks[cur] \in Nat
    BY <1>1, Constants
  <2> QED
    BY <1>1, <1>2, <2>1
<1>4. /\ left' = [left EXCEPT ![cur] = @ - 1]
      /\ pieces' = [pieces EXCEPT ![cur] = Append(@, <<made, left[cur] - 1>>)]
      /\ avail' = (IF left[cur] = 1 THEN avail \ {cur} ELSE avail)
  BY DEF TakeChunk
<1>5. left' \in [Types -> Nat] /\ left'[cur] = left[cur] - 1
  BY <1>1, <1>3, <1>4
<1>6. <<made, left[cur] - 1>> \in Nat \X Nat
  BY <1>1, <1>3
<1>7. Append(pieces[cur], <<made, left[cur] - 1>>) \in Seq(Nat \X Nat)
  BY <1>1, <1>6
<1>8. pieces' \in [Types -> Seq(Nat \X Nat)] /\ pieces'[cur] = Append(pieces[cur], <<made, left[cur] - 1>>)
  BY <1>1, <1>4, <1>7
<1>9. \A t \in Types \ {cur} : left'[t] = left[t] /\ pieces'[t] = pieces[t]
  BY <1>1, <1>4
<1> QED
  BY <1>1, <1>3, <1>4, <1>5, <1>8, <1>9

\* The camera's variables keep their types.
LEMMA CameraTypedNext ==
    ASSUME IInv, Next PROVE CameraTyped'
<1>1. CameraTyped
  BY Parts
<1>2. held' \in {"no", "once", "cont"} /\ hook' \in {"off", "on", "ready", "passed"}
  BY ButtonsTyped
<1>3. CASE Quiet
  BY <1>2, <1>3, QuietTyped DEF CameraTyped
<1>4. CASE DataReady
  BY <1>4, ReadyTyped
<1>5. CASE DataTimeout
  BY <1>1, <1>5 DEF DataTimeout, CameraTyped
<1>6. CASE Host
  <2>1. UNCHANGED <<busy, made, exp, want>>
    BY <1>6, OptionsNext DEF Host, RsInit, Start, Begin, Poll, Handle, Chunk, CallDone, SendStop, Cmd, Status, Tell, Wait,
         Cleanup, camera
  <2>2. target' \in {{}, target, want} /\ coming' \in {{}, coming}
    BY <1>6 DEF Host, RsInit, Start, Begin, Poll, Handle, Chunk, CallDone, SendStop, Cmd, Status, Tell, Wait,
         Cleanup, camera, Uninit, CaptureOff, CaptureKept
  <2>3. Chunk => avail' \subseteq avail /\ left' \in [Types -> Nat]
    BY <1>1, ChunkTyped DEF Chunk, ChunkFails, CameraTyped
  <2>4. Host /\ ~Chunk => avail' \subseteq avail /\ left' = left
    BY DEF Host, RsInit, Start, Begin, Poll, Handle, CallDone, SendStop, Cmd, Status, Tell, Wait,
         Cleanup, camera, Uninit, CaptureOff, CaptureKept
  <2> QED
    BY <1>1, <1>2, <1>6, <2>1, <2>2, <2>3, <2>4 DEF CameraTyped
<1> QED
  BY <1>3, <1>4, <1>5, <1>6, Steps

\* The messages to the script.
Messages == {"stop", "s", "l", "q", "x"}

\* What the host sends to the script is one of its messages.
LEMMA QueueTyped ==
    ASSUME IInv, Next PROVE inq' \in Seq(Messages)
<1>1. inq \in Seq(Messages) /\ cmd \in {"s", "l", "q", "x"}
  BY Parts DEF ScriptTyped, HostTyped, Messages
<1>2. Others \in Seq(Messages) /\ <<>> \in Seq(Messages)
  <2>1. CASE inq = <<>>
    BY <1>1, <2>1 DEF Others
  <2>2. CASE inq # <<>>
    BY <1>1, <2>2 DEF Others
  <2> QED
    BY <2>1, <2>2
<1>3. \A m \in Messages : Append(inq, m) \in Seq(Messages)
  BY <1>1
<1>4. cmd \in Messages /\ "stop" \in Messages
  BY <1>1 DEF Messages
<1>5. Camera \/ ScriptDies => inq' \in {inq, <<>>}
  BY DEF Camera, FinishShot, Shutter, ReachHook, HookTimeout, DataReady, DataTimeout, CountUp, EndShot, script, ScriptDies
<1>6. Over \/ OverHooked => inq' = <<>>
  BY DEF Over, OverHooked
<1>7. \A pc, q : Continue(pc, q) => inq' = q
  BY DEF Continue
<1>8. Half \/ Press \/ HookWait \/ Pause \/ Shoot \/ Shot => inq' \in {inq, <<>>, Others}
  BY <1>6, <1>7 DEF Half, Press, HookWait, Pause, Shoot, Shot
<1>9. Go => inq' \in {inq, <<>>, Others}
  BY <1>6 DEF Go
<1>10. Count => inq' \in {inq, <<>>, Others}
  BY <1>6, <1>7 DEF Count
<1>11. Single \/ IntCont => inq' \in {inq, <<>>, Others}
  BY <1>6 DEF Single, IntCont
<1>12. Host /\ ~(SendStop \/ Tell) => inq' = inq
  BY DEF Host, RsInit, Start, Begin, Poll, Handle, Chunk, CallDone, Cmd, Status, Wait, Cleanup, script
<1>13. SendStop \/ Tell => inq' \in {inq, Append(inq, "stop"), Append(inq, cmd)}
  BY DEF SendStop, Tell, Write
<1> QED
  BY <1>1, <1>2, <1>3, <1>4, <1>5, <1>8, <1>9, <1>10, <1>11, <1>12, <1>13 DEF Next, Script

\* The counters of the script.
LEMMA ShotCountTyped ==
    ASSUME IInv, Next PROVE shots' \in 0..N
<1>1. shots \in 0..N /\ N \in Nat /\ (scr # "off" /\ mode \notin Rsint => shots < N)
  BY Parts, Constants DEF ScriptTyped, ScriptInv
<1>2. Count \/ Shot => mode \notin Rsint
  BY Parts, Constants DEF Count, Shot, ScriptInv, Places, Rsint
<1>3. shots' = shots \/ ((Count \/ Shot) /\ shots' = shots + 1)
  <2>1. Camera \/ ScriptDies => shots' = shots
    BY DEF Camera, FinishShot, Shutter, ReachHook, HookTimeout, DataReady, DataTimeout, CountUp, EndShot, script, ScriptDies
  <2>2. Host => shots' = shots
    BY DEF Host, RsInit, Start, Begin, Poll, Handle, Chunk, CallDone, Cmd, Status, Wait, Cleanup, script, SendStop, Tell
  <2>3. Script => shots' = shots \/ ((Count \/ Shot) /\ shots' = shots + 1)
    BY DEF Script, Half, Press, HookWait, Go, Count, Pause, Shoot, Shot, Single, IntCont
  <2> QED
    BY <2>1, <2>2, <2>3 DEF Next
<1>4. Count \/ Shot => scr # "off"
  BY DEF Count, Shot
<1>5. \A m, n \in Nat : m \in 0..n /\ m < n => m + 1 \in 0..n
  OBVIOUS
<1> QED
  BY <1>1, <1>2, <1>3, <1>4, <1>5, Parts

\* What the script remembers of the camera's counters.
LEMMA CountersTyped ==
    ASSUME IInv, Next PROVE lastexp' \in 0..made' /\ hooks' \in -1..made'
<1>1. lastexp \in 0..made /\ hooks \in -1..made /\ exp \in 0..made /\ made \in Nat
  BY Parts DEF ScriptTyped, CameraTyped
<1>2. lastexp' \in {lastexp, exp} /\ hooks' \in {hooks, made}
  <2>1. Camera \/ ScriptDies => UNCHANGED <<lastexp, hooks>>
    BY DEF Camera, FinishShot, Shutter, ReachHook, HookTimeout, DataReady, DataTimeout, CountUp, EndShot, script, ScriptDies
  <2>2. Host => lastexp' \in {lastexp, exp} /\ hooks' = hooks
    BY DEF Host, RsInit, Start, Started, Begin, Poll, Handle, Chunk, CallDone, Cmd, Status, Wait, Cleanup, script, SendStop, Tell
  <2>3. Script => lastexp' \in {lastexp, exp} /\ hooks' \in {hooks, made}
    BY DEF Script, Half, Press, HookWait, Go, Count, Pause, Shoot, Shot, Single, IntCont
  <2> QED
    BY <2>1, <2>2, <2>3 DEF Next
<1>3. made' \in {made, made + 1}
  <2>1. Quiet => made' \in {made, made + 1}
    BY QuietTyped
  <2>2. DataReady \/ DataTimeout \/ Host => made' = made
    BY DEF DataReady, DataTimeout, Host, RsInit, Start, Begin, Poll, Handle, Chunk, CallDone, Cmd, Status, Wait, Cleanup, camera, SendStop, Tell
  <2> QED
    BY <2>1, <2>2, Steps
<1> QED
  BY <1>1, <1>2, <1>3

\* The script's flags.
LEMMA FlagsTyped ==
    ASSUME IInv, Next 
    PROVE  /\ nextshot' \in BOOLEAN /\ outmsg' \in BOOLEAN
           /\ scr' \in {"off", "half", "press", "hookwait", "go", "count", "pause", "shoot", "shooting", "loop"}
<1>1. /\ nextshot \in BOOLEAN /\ outmsg \in BOOLEAN
      /\ scr \in {"off", "half", "press", "hookwait", "go", "count", "pause", "shoot", "shooting", "loop"}
  BY Parts DEF ScriptTyped
<1>2. Camera => UNCHANGED <<nextshot, outmsg, scr>>
  BY DEF Camera, FinishShot, Shutter, ReachHook, HookTimeout, DataReady, DataTimeout, CountUp, EndShot, script
<1>3. ScriptDies \/ Over \/ OverHooked => nextshot' = FALSE /\ outmsg' \in BOOLEAN /\ scr' = "off"
  <2>1. (mode \in Rsint) \in BOOLEAN
    OBVIOUS
  <2>2. ScriptDies => nextshot' = FALSE /\ outmsg' = TRUE /\ scr' = "off"
    BY DEF ScriptDies
  <2>3. Over \/ OverHooked => nextshot' = FALSE /\ scr' = "off" /\ outmsg' = (mode \in Rsint)
    BY ZenonT(20) DEF Over, OverHooked
  <2> QED
    BY <2>1, <2>2, <2>3, ZenonT(20)
<1>4. \A pc, q : Continue(pc, q) => UNCHANGED <<nextshot, outmsg>> /\ scr' = pc
  BY DEF Continue
<1>5. Half \/ Press \/ HookWait \/ Pause \/ Shoot \/ Shot =>
        /\ nextshot' \in BOOLEAN /\ outmsg' \in BOOLEAN
        /\ scr' \in {"off", "half", "press", "hookwait", "go", "count", "pause", "shoot", "shooting", "loop"}
  BY <1>1, <1>3, <1>4 DEF Half, Press, HookWait, Pause, Shoot, Shot
<1>6. Go \/ Count =>
        /\ nextshot' \in BOOLEAN /\ outmsg' \in BOOLEAN
        /\ scr' \in {"off", "half", "press", "hookwait", "go", "count", "pause", "shoot", "shooting", "loop"}
  BY <1>1, <1>3, <1>4 DEF Go, Count
<1>7. Single \/ IntCont =>
        /\ nextshot' \in BOOLEAN /\ outmsg' \in BOOLEAN
        /\ scr' \in {"off", "half", "press", "hookwait", "go", "count", "pause", "shoot", "shooting", "loop"}
  BY <1>1, <1>3, <1>4 DEF Single, IntCont
<1>8. Host =>
        /\ nextshot' = nextshot /\ outmsg' \in {outmsg, FALSE}
        /\ scr' \in {scr, "shoot", "loop", "half"}
  BY DEF Host, RsInit, Start, Started, Begin, Poll, Handle, Chunk, CallDone, Cmd, Status, Wait, Cleanup, script, SendStop, Tell
<1> QED
  BY <1>1, <1>2, <1>3, <1>5, <1>6, <1>7, <1>8 DEF Next, Script

\* The script's variables keep their types.
LEMMA ScriptTypedNext ==
    ASSUME IInv, Next PROVE ScriptTyped'
  BY QueueTyped, ShotCountTyped, CountersTyped, FlagsTyped, Constants DEF ScriptTyped, Messages

-----------------------------------------------------------------------------
\* The steps of camera and script leave the host alone.
LEMMA HostStays ==
    ASSUME IInv, Quiet \/ DataReady \/ DataTimeout
    PROVE  UNCHANGED <<hpc, calls, toget, seen, cur, pieces, hdr, cmd, failed, ret, cmds>>
  BY DEF Quiet, DataReady, DataTimeout, host, history

\* The steps of the host take no shot and move the script only to start it.
LEMMA HostOnly ==
    ASSUME IInv, Host
    PROVE  /\ UNCHANGED <<busy, made, exp, shots, nextshot, hooks>>
           /\ Start \/ UNCHANGED <<scr, hook, held, lastexp>>
  BY DEF Host, RsInit, Start, Begin, Poll, Handle, Chunk, CallDone, SendStop, Cmd, Status, Tell, Wait, Cleanup, camera, script

\* The type that Handle takes is the first in the order of those it has seen.
LEMMA FirstSeen ==
    ASSUME IInv, Handle, seen # {}
    PROVE  /\ cur' \in seen
           /\ IF cur' \notin toget \/ (Dng /\ cur' = "raw" /\ hdr = 0) THEN CallFails
              ELSE hpc' = "chunk" /\ UNCHANGED failed
<1> DEFINE First(i) == Order[i] \in seen /\ \A j \in 1..(i - 1) : Order[j] \notin seen
<1>1. DOMAIN Order = 1..4 /\ Order[1] = "jpg" /\ Order[2] = "raw" /\ Order[3] = "dng_hdr" /\ Order[4] = "craw"
  BY Constants
<1>2. seen \subseteq {"jpg", "raw", "dng_hdr", "craw"}
  BY Parts, Constants DEF HostTyped
<1>3. \E i \in 1..4 : First(i)
  <2>1. 1..0 = {} /\ 1..1 = {1} /\ 1..2 = {1, 2} /\ 1..3 = {1, 2, 3} /\ 1 \in 1..4 /\ 2 \in 1..4 /\ 3 \in 1..4 /\ 4 \in 1..4
        /\ 1 - 1 = 0 /\ 2 - 1 = 1 /\ 3 - 1 = 2 /\ 4 - 1 = 3
    OBVIOUS
  <2>2. CASE "jpg" \in seen
    BY <1>1, <2>1, <2>2, First(1)
  <2>3. CASE "jpg" \notin seen /\ "raw" \in seen
    BY <1>1, <2>1, <2>3, First(2)
  <2>4. CASE "jpg" \notin seen /\ "raw" \notin seen /\ "dng_hdr" \in seen
    BY <1>1, <2>1, <2>4, First(3)
  <2>5. CASE "jpg" \notin seen /\ "raw" \notin seen /\ "dng_hdr" \notin seen
    <3>1. "craw" \in seen
      BY <1>2, <2>5
    <3> QED
      BY <1>1, <2>1, <2>5, <3>1, First(4)
  <2> QED
    BY <2>2, <2>3, <2>4, <2>5
<1>4. DEFINE i == CHOOSE i \in 1..4 : First(i)
<1>5. i \in 1..4 /\ First(i)
  BY <1>3
<1>6. cur' = Order[i]
  BY <1>1 DEF Handle
<1>7. cur' \in seen
  BY <1>5, <1>6
<1>9. IF cur' \notin toget \/ (Dng /\ cur' = "raw" /\ hdr = 0) THEN CallFails
      ELSE hpc' = "chunk" /\ UNCHANGED failed
  BY DEF Handle
<1> QED
  BY <1>7, <1>9

\* Where the host is.
LEMMA PlaceTyped ==
    ASSUME IInv, Next
    PROVE  /\ hpc' \in {"init", "start", "begin", "poll", "handle", "chunk", "done", "stop", "cmd",
                        "status", "tell", "wait", "cleanup", "end"}
           /\ failed' \in BOOLEAN /\ ret' \in {"none", "ok", "err", "failed", "uninit"}
           /\ cmd' \in {"s", "l", "q", "x"}
<1>1. /\ hpc \in {"init", "start", "begin", "poll", "handle", "chunk", "done", "stop", "cmd",
                  "status", "tell", "wait", "cleanup", "end"}
      /\ failed \in BOOLEAN /\ ret \in {"none", "ok", "err", "failed", "uninit"} /\ cmd \in {"s", "l", "q", "x"}
  BY Parts DEF HostTyped
<1>2. CASE Quiet \/ DataReady \/ DataTimeout
  BY <1>1, <1>2, HostStays
<1>3. CASE Host
  <2>1. hpc' \in {"init", "start", "begin", "poll", "handle", "chunk", "done", "stop", "cmd",
                  "status", "tell", "wait", "cleanup", "end"}
    <3>1. CallFails => hpc' \in {"wait", "stop"}
      BY DEF CallFails
    <3>2. NextCall \in {"cmd", "begin"}
      BY DEF NextCall
    <3>3. \A r : End(r) => hpc' = "end"
      BY DEF End
    <3>4. RsInit \/ Start \/ Begin => hpc' \in {"start", "end", "cmd", "begin", "poll"}
      BY <3>2, <3>3 DEF RsInit, Start, Begin
    <3>5. Poll \/ Handle => hpc' \in {"wait", "stop", "handle", "done", "poll", "chunk"}
      BY <3>1 DEF Poll, Handle
    <3>6. Chunk => hpc' \in {"wait", "stop", "handle", "chunk"}
      BY <3>1 DEF Chunk, ChunkFails, HandlerReturns
    <3>7. CallDone \/ SendStop \/ Cmd \/ Wait => hpc' \in {"wait", "cmd", "begin", "status", "cleanup"}
      BY DEF CallDone, SendStop, Cmd, Wait
    <3>8. Status \/ Tell => hpc' \in {"wait", "tell", "stop", "begin", "cmd"}
      BY <3>1 DEF Status, Tell
    <3>9. Cleanup => hpc' = "end"
      BY <3>3 DEF Cleanup
    <3> QED
      BY <1>3, <3>4, <3>5, <3>6, <3>7, <3>8, <3>9 DEF Host
  <2>2. ret' \in {ret, "ok", "err", "failed", "uninit"}
    BY <1>3 DEF Host, RsInit, Start, End, Begin, Poll, Handle, Chunk, CallDone, SendStop, Cmd, Status, Tell, Wait, Cleanup
  <2>3. cmd' \in {"s", "l", "q", "x"}
    BY <1>1, <1>3 DEF Host, RsInit, Start, Begin, Poll, Handle, Chunk, CallDone, SendStop, Cmd, Status, Tell, Wait, Cleanup
  <2>4. failed' \in BOOLEAN
    <3>1. Host /\ ~Status => failed' = failed \/ failed' = TRUE
      BY DEF Host, RsInit, Start, Begin, Poll, Handle, Chunk, CallDone, SendStop, Cmd, Tell, Wait, Cleanup, CallFails, ChunkFails
    <3>2. (failed \/ (~outmsg /\ scr = "off")) \in BOOLEAN
      OBVIOUS
    <3>3. Status => failed' = TRUE \/ failed' = (failed \/ (~outmsg /\ scr = "off"))
      BY ZenonT(20) DEF Status, CallFails
    <3> QED
      BY <1>1, <1>3, <3>1, <3>2, <3>3, ZenonT(20)
  <2> QED
    BY <1>1, <2>1, <2>2, <2>3, <2>4
<1> QED
  BY <1>2, <1>3, Steps

\* What the calls are at.
LEMMA CallTyped ==
    ASSUME IInv, Next
    PROVE  /\ calls' \in Nat /\ (mode' \notin Rsint => calls' <= N)
           /\ toget' \subseteq want' /\ seen' \subseteq want' /\ cur' \in Types /\ hdr' \in 0..made'
<1>1. /\ calls \in Nat /\ (mode \notin Rsint => calls <= N) /\ toget \subseteq want /\ seen \subseteq want /\ cur \in Types
      /\ hdr \in 0..made /\ made \in Nat /\ want \subseteq Types /\ avail \subseteq want /\ N \in Nat
  BY Parts, Constants DEF HostTyped, CameraTyped
<1>2. mode' = mode /\ want' = want
  BY OptionsNext
<1>3. CASE Quiet \/ DataReady \/ DataTimeout
  <2>1. UNCHANGED <<calls, toget, seen, cur, hdr>>
    BY <1>3, HostStays
  <2>2. made' \in {made, made + 1}
    BY <1>3, QuietTyped DEF DataReady, DataTimeout
  <2> QED
    BY <1>1, <1>2, <2>1, <2>2
<1>4. CASE Host
  <2>0. made' = made
    BY <1>4, HostOnly
  <2>1. calls' = calls \/ (calls' = calls + 1 /\ (mode \notin Rsint => calls < N))
    <3>1. hpc = "done" => Open
      BY DEF Open
    <3> QED
      BY <1>4, <3>1, Parts DEF Host, RsInit, Start, Begin, Poll, Handle, Chunk, CallDone, SendStop, Cmd, Status, Tell, Wait, Cleanup, HostInv
  <2>2. toget' \subseteq want
    BY <1>1, <1>4 DEF Host, RsInit, Start, Begin, Poll, Handle, Chunk, ChunkFails, HandlerReturns, CallDone, SendStop, Cmd, Status, Tell, Wait, Cleanup
  <2>3. seen' \subseteq want
    BY <1>1, <1>4 DEF Host, RsInit, Start, Begin, Poll, Handle, Chunk, ChunkFails, HandlerReturns, CallDone, SendStop, Cmd, Status, Tell, Wait, Cleanup
  <2>4. cur' \in Types
    <3>1. Handle => cur' \in Types
      BY <1>1, FirstSeen DEF Handle
    <3>2. Host /\ ~Handle => cur' = cur
      BY DEF Host, RsInit, Start, Begin, Poll, Chunk, CallDone, SendStop, Cmd, Status, Tell, Wait, Cleanup
    <3> QED
      BY <1>1, <1>4, <3>1, <3>2
  <2>5. hdr' \in {hdr, made}
    BY <1>4 DEF Host, RsInit, Start, Begin, Poll, Handle, Chunk, ChunkFails, HandlerReturns, CallDone, SendStop, Cmd, Status, Tell, Wait, Cleanup
  <2> QED
    BY <1>1, <1>2, <2>0, <2>1, <2>2, <2>3, <2>4, <2>5
<1> QED
  BY <1>3, <1>4, Steps

\* The host's variables keep their types.
LEMMA HostTypedNext ==
    ASSUME IInv, Next PROVE HostTyped'
<1>1. pieces' \in [Types -> Seq(Nat \X Nat)]
  <2>1. pieces \in [Types -> Seq(Nat \X Nat)] /\ [t \in Types |-> <<>>] \in [Types -> Seq(Nat \X Nat)]
    BY Parts DEF HostTyped
  <2>2. Quiet \/ DataReady \/ DataTimeout => pieces' = pieces
    BY HostStays
  <2>3. Chunk => pieces' \in [Types -> Seq(Nat \X Nat)]
    BY <2>1, ChunkTyped DEF Chunk, ChunkFails
  <2>4. Host /\ ~Chunk => pieces' \in {pieces, [t \in Types |-> <<>>]}
    BY DEF Host, RsInit, Start, Begin, Poll, Handle, CallDone, SendStop, Cmd, Status, Tell, Wait, Cleanup
  <2> QED
    BY <2>1, <2>2, <2>3, <2>4, Steps
<1> QED
  BY <1>1, PlaceTyped, CallTyped DEF HostTyped

\* The bounds hold.
LEMMA CountsTypedNext ==
    ASSUME IInv, Next PROVE CountsTyped'
<1>1. cmds \in 0..(MaxCmds + 1) /\ faults \in 0..MaxFaults /\ MaxCmds \in Nat /\ MaxFaults \in Nat
  BY Parts, Constants DEF CountsTyped
<1>2. faults' = faults \/ Fault
  <2>1. Camera \/ Script \/ ScriptDies => faults' = faults \/ Fault
    <3>1. Script => faults' = faults
      BY ScriptQuiet
    <3> QED
      BY <3>1 DEF Camera, FinishShot, Shutter, ReachHook, HookTimeout, DataReady, DataTimeout, CountUp, EndShot, ScriptDies, history
  <2>2. Host => faults' = faults \/ Fault
    BY DEF Host, RsInit, Start, Begin, Poll, Handle, Chunk, CallDone, SendStop, Cmd, Status, Tell, Wait, Cleanup, history
  <2> QED
    BY <2>1, <2>2 DEF Next
<1>3. faults' \in 0..MaxFaults
  BY <1>1, <1>2 DEF Fault
<1>4. cmds' = cmds \/ (cmds' = cmds + 1 /\ cmds <= MaxCmds)
  <2>1. Quiet \/ DataReady \/ DataTimeout => cmds' = cmds
    BY HostStays
  <2>2. Cmd => cmds' = cmds + 1 /\ cmds <= MaxCmds
    BY Parts DEF Cmd, HostInv
  <2>3. Host /\ ~Cmd => cmds' = cmds
    BY DEF Host, RsInit, Start, Begin, Poll, Handle, Chunk, CallDone, SendStop, Status, Tell, Wait, Cleanup, history
  <2> QED
    BY <2>1, <2>2, <2>3, Steps
<1> QED
  BY <1>1, <1>3, <1>4 DEF CountsTyped

-----------------------------------------------------------------------------
\* CameraInv, conjunct by conjunct.
CaptureInv == coming \subseteq target /\ avail \subseteq target /\ coming \cap avail = {}
IdleInv    == ~busy => coming = {} /\ avail = {}
HookInv    == hook = "ready" => ~busy /\ held = "cont"
HeaderInv  == "raw" \in avail => "dng_hdr" \notin coming \cup avail
LeftInv    == \A t \in avail : left[t] \in 1..(MaxChunks[t] + 1) /\ (t = "raw" => left[t] = 1)

\* The invariant of the camera is its parts.
LEMMA CameraParts ==
    CameraInv <=> CaptureInv /\ IdleInv /\ HookInv /\ HeaderInv /\ LeftInv
  BY DEF CameraInv, CaptureInv, IdleInv, HookInv, HeaderInv, LeftInv

\* A Quiet step keeps what is ready and what comes.
LEMMA CameraQuietStep ==
    ASSUME IInv, Quiet PROVE CaptureInv' /\ IdleInv' /\ HeaderInv' /\ LeftInv'
<1>1. CaptureInv /\ IdleInv /\ HeaderInv /\ LeftInv
  BY Parts, CameraParts
<1>2. UNCHANGED <<target, avail, left>>
  BY DEF Quiet
<1>3. CASE Begins
  <2>1. avail = {} /\ coming' = target /\ busy' = TRUE
    BY <1>1, <1>3 DEF Begins, Expose, IdleInv
  <2> QED
    BY <1>2, <2>1 DEF CaptureInv, IdleInv, HeaderInv, LeftInv
<1>4. CASE Still
  BY <1>1, <1>2, <1>4 DEF Still, CaptureInv, IdleInv, HeaderInv, LeftInv
<1> QED
  BY <1>3, <1>4 DEF Quiet

\* Data becomes ready.
LEMMA CameraReadyStep ==
    ASSUME IInv, DataReady PROVE CaptureInv' /\ IdleInv' /\ HeaderInv' /\ LeftInv'
<1>1. CaptureInv /\ IdleInv /\ HeaderInv /\ LeftInv
  BY Parts, CameraParts
<1>2. PICK S \in (SUBSET coming) \ {{}} :
        /\ "raw" \in S => "dng_hdr" \notin coming \cup avail
        /\ coming' = coming \ S /\ avail' = avail \cup S
        /\ \E big \in SUBSET (S \cap {"jpg", "craw"}) :
              left' = [t \in Types |-> IF t \notin S THEN left[t]
                                       ELSE MaxChunks[t] + IF t \in big THEN 1 ELSE 0]
  BY DEF DataReady
<1>3. UNCHANGED <<target, busy>>
  BY DEF DataReady
<1>4. CaptureInv' /\ IdleInv' /\ HeaderInv'
  BY <1>1, <1>2, <1>3 DEF CaptureInv, IdleInv, HeaderInv
<1>5. LeftInv'
  <2>1. avail' \subseteq Types
    BY Parts, CameraTypedNext, OptionsNext, <1>2 DEF CameraTyped
  <2>2. \A t \in Types : MaxChunks[t] \in Nat \ {0}
    BY Constants
  <2> PICK big \in SUBSET (S \cap {"jpg", "craw"}) :
        left' = [t \in Types |-> IF t \notin S THEN left[t]
                                 ELSE MaxChunks[t] + IF t \in big THEN 1 ELSE 0]
    BY <1>2
  <2> SUFFICES ASSUME NEW t \in avail'
               PROVE  left'[t] \in 1..(MaxChunks[t] + 1) /\ (t = "raw" => left'[t] = 1)
    BY DEF LeftInv
  <2>3. t \in Types /\ MaxChunks[t] \in Nat \ {0}
    BY <2>1, <2>2
  <2>4. CASE t \notin S
    BY <1>1, <1>2, <2>3, <2>4 DEF LeftInv
  <2>5. CASE t \in S
    <3>1. left'[t] = MaxChunks[t] + IF t \in big THEN 1 ELSE 0
      BY <2>3, <2>5
    <3>2. t = "raw" => t \notin big
      OBVIOUS
    <3> QED
      BY <2>3, <3>1, <3>2, Constants
  <2> QED
    BY <2>4, <2>5
<1> QED
  BY <1>4, <1>5

\* The host turns capture on and off, and takes chunks.
LEMMA CameraHostStep ==
    ASSUME IInv, Host PROVE CaptureInv' /\ IdleInv' /\ HeaderInv' /\ LeftInv'
<1>1. CaptureInv /\ IdleInv /\ HeaderInv /\ LeftInv /\ avail \subseteq want /\ want \subseteq Types
  BY Parts, CameraParts DEF CameraTyped
<1>2. busy' = busy
  BY HostOnly
<1>3. CASE RsInit
  <2>1. ~busy
    BY <1>3, Parts DEF RsInit, ScriptInv
  <2>2. UNCHANGED <<coming, avail, left>>
    BY <1>3 DEF RsInit
  <2> QED
    BY <1>1, <1>2, <2>1, <2>2 DEF CaptureInv, IdleInv, HeaderInv, LeftInv
<1>4. CASE Cleanup
  <2>1. CaptureOff \/ CaptureKept
    BY <1>4 DEF Cleanup, Uninit
  <2>2. left' = left
    BY <1>4 DEF Cleanup
  <2> QED
    BY <1>1, <1>2, <2>1, <2>2 DEF CaptureOff, CaptureKept, CaptureInv, IdleInv, HeaderInv, LeftInv
<1>5. CASE Chunk
  <2>1. UNCHANGED <<target, coming>>
    BY <1>5 DEF Chunk
  <2>2. CASE UNCHANGED <<avail, left>>
    BY <1>1, <1>2, <2>1, <2>2 DEF CaptureInv, IdleInv, HeaderInv, LeftInv
  <2>3. CASE TakeChunk
    <3>1. /\ avail' \subseteq avail /\ avail' = (IF left[cur] = 1 THEN avail \ {cur} ELSE avail)
          /\ left'[cur] = left[cur] - 1 /\ \A t \in Types \ {cur} : left'[t] = left[t]
          /\ cur \in avail /\ cur \in Types
      BY <2>3, ChunkTyped
    <3>2. CaptureInv' /\ IdleInv' /\ HeaderInv'
      BY <1>1, <1>2, <2>1, <3>1 DEF CaptureInv, IdleInv, HeaderInv
    <3>3. LeftInv'
      <4> SUFFICES ASSUME NEW t \in avail'
                   PROVE  left'[t] \in 1..(MaxChunks[t] + 1) /\ (t = "raw" => left'[t] = 1)
        BY DEF LeftInv
      <4>1. t \in avail /\ t \in Types /\ MaxChunks[t] \in Nat
        BY <1>1, <3>1, Constants
      <4>2. left[t] \in 1..(MaxChunks[t] + 1) /\ (t = "raw" => left[t] = 1)
        BY <1>1, <4>1 DEF LeftInv
      <4>3. CASE t # cur
        BY <3>1, <4>1, <4>2, <4>3
      <4>4. CASE t = cur
        <5>1. left[t] # 1
          BY <3>1, <4>4
        <5> QED
          BY <3>1, <4>1, <4>2, <4>4, <5>1
      <4> QED
        BY <4>3, <4>4
    <3> QED
      BY <3>2, <3>3
  <2> QED
    BY <1>5, <2>2, <2>3 DEF Chunk, ChunkFails
<1>6. CASE Host /\ ~RsInit /\ ~Cleanup /\ ~Chunk
  <2>1. UNCHANGED <<target, coming, avail, left>>
    BY <1>6 DEF Host, Start, Begin, Poll, Handle, CallDone, SendStop, Cmd, Status, Tell, Wait, camera
  <2> QED
    BY <1>1, <1>2, <2>1 DEF CaptureInv, IdleInv, HeaderInv, LeftInv
<1> QED
  BY <1>3, <1>4, <1>5, <1>6

\* A shot waits in the hook only while none is taken.
LEMMA HookStep ==
    ASSUME IInv, Next PROVE HookInv'
<1>1. HookInv /\ (hook # "off" => mode \in {"hook", "intcont"})
  BY Parts, CameraParts DEF ScriptInv
<1>2. Camera => HookInv'
  BY <1>1 DEF HookInv, Camera, FinishShot, Shutter, ReachHook, HookTimeout, DataReady, DataTimeout, CountUp, EndShot
<1>3. Over \/ OverHooked => HookInv'
  BY DEF HookInv, Over, OverHooked
<1>4. \A pc, q : Continue(pc, q) => UNCHANGED <<hook, busy>>
  BY DEF Continue
<1>5. \A pc, q : Continue(pc, q) /\ held' = held => HookInv'
  BY <1>1, <1>4 DEF HookInv
<1>6. Half \/ HookWait \/ Pause => HookInv'
  BY <1>3, <1>5 DEF Half, HookWait, Pause
<1>7. Press => HookInv'
  BY <1>1, <1>4 DEF Press, HookInv
<1>8. Shoot \/ Shot => HookInv'
  <2>1. Shoot \/ Shot => mode \notin {"hook", "intcont"}
    BY Parts DEF Shoot, Shot, ScriptInv, Places, Rsint
  <2> QED
    BY <1>1, <1>3, <1>4, <2>1 DEF Shoot, Shot, HookInv
<1>9. Go => HookInv'
  BY <1>3 DEF Go, HookInv
<1>10. Count => HookInv'
  <2>1. \A pc, q : Continue(pc, q) /\ mode \notin {"hook", "intcont"} => HookInv'
    BY <1>1, <1>4 DEF HookInv
  <2>2. Count => OverHooked \/ (\E pc, q : Continue(pc, q) /\ (mode \in {"hook", "intcont"} => held' = held))
    BY DEF Count
  <2> QED
    BY <1>3, <1>5, <2>1, <2>2
<1>11. Single => HookInv'
  BY <1>1, <1>3 DEF Single, HookInv, Expose, NoExpose
<1>12. IntCont => HookInv'
  BY <1>1, <1>3 DEF IntCont, HookInv, Expose, NoExpose
<1>13. ScriptDies => HookInv'
  BY DEF ScriptDies, HookInv
<1>14. Host => HookInv'
  BY <1>1, HostOnly DEF HookInv, Start, Started
<1> QED
  BY <1>2, <1>6, <1>7, <1>8, <1>9, <1>10, <1>11, <1>12, <1>13, <1>14 DEF Next, Script

\* Every step keeps the invariant of the camera.
LEMMA CameraNext ==
    ASSUME IInv, Next PROVE CameraInv'
<1>1. HookInv'
  BY HookStep
<1>2. DataTimeout => CaptureInv' /\ IdleInv' /\ HeaderInv' /\ LeftInv'
  BY DEF DataTimeout, CaptureInv, IdleInv, HeaderInv, LeftInv
<1>3. CaptureInv' /\ IdleInv' /\ HeaderInv' /\ LeftInv'
  BY <1>2, CameraQuietStep, CameraReadyStep, CameraHostStep, Steps
<1> QED
  BY <1>1, <1>3 DEF CameraInv, CaptureInv, IdleInv, HookInv, HeaderInv, LeftInv

-----------------------------------------------------------------------------
\* ScriptInv, conjunct by conjunct.

\* The places by mode.
LEMMA PlaceValues ==
    ASSUME IInv
    PROVE  /\ mode = "full"  => Places[mode] = {"off", "shoot", "shooting", "pause"}
           /\ mode = "quick" => Places[mode] = {"off", "half", "press", "count", "pause"}
           /\ mode = "cont"  => Places[mode] = {"off", "half", "press", "count"}
           /\ mode = "hook"  => Places[mode] = {"off", "half", "press", "hookwait", "go", "count"}
           /\ mode \in {"single", "intcont"} => Places[mode] = {"off", "loop"}
           /\ scr \in Places[mode]
  BY Parts DEF Places, Rsint, ScriptInv

\* How the place moves.
LEMMA PlaceNext ==
    ASSUME IInv, Next PROVE scr' \in Places[mode] /\ mode' = mode
<1>1. mode' = mode
  BY OptionsNext
<1>2. "off" \in Places[mode]
  BY PlaceValues, Parts
<1>3. Camera => scr' = scr
  BY DEF Camera, FinishShot, Shutter, ReachHook, HookTimeout, DataReady, DataTimeout, CountUp, EndShot, script
<1>4. Over \/ OverHooked \/ ScriptDies => scr' = "off"
  BY DEF Over, OverHooked, ScriptDies
<1>5. \A pc, q : Continue(pc, q) => scr' = pc
  BY DEF Continue
<1>6. Half => scr' \in Places[mode]
  BY <1>2, <1>4, <1>5, PlaceValues, Parts DEF Half
<1>7. Press => scr' \in Places[mode]
  BY <1>2, <1>4, <1>5, PlaceValues, Parts DEF Press
<1>8. HookWait => scr' \in Places[mode]
  BY <1>2, <1>4, <1>5, PlaceValues, Parts DEF HookWait
<1>9. Go => scr' \in Places[mode]
  BY <1>2, <1>4, PlaceValues, Parts DEF Go
<1>10. Count => scr' \in Places[mode]
  <2>1. Count => scr' = "off" \/ (scr' = (IF mode = "hook" THEN "hookwait" ELSE "pause") /\ mode # "cont") \/ scr' = "count"
    BY <1>4, <1>5 DEF Count
  <2>2. Count => scr = "count"
    BY DEF Count
  <2> QED
    BY <1>2, <2>1, <2>2, PlaceValues, Parts
<1>11. Pause => scr' \in Places[mode]
  BY <1>2, <1>4, <1>5, PlaceValues, Parts DEF Pause
<1>12. Shoot \/ Shot => scr' \in Places[mode]
  BY <1>2, <1>4, <1>5, PlaceValues, Parts DEF Shoot, Shot
<1>13. Single \/ IntCont => scr' \in Places[mode]
  BY <1>2, <1>4, PlaceValues, Parts DEF Single, IntCont
<1>14. Host => scr' \in Places[mode]
  <2>1. Started => scr' \in Places[mode]
    <3>1. mode = "full" /\ Started => scr' = "shoot"
      BY DEF Started, Rsint
    <3>2. mode \in Rsint /\ Started => scr' = "loop"
      BY DEF Started, Rsint
    <3>3. mode \in {"quick", "cont", "hook"} /\ Started => scr' = "half"
      BY DEF Started, Rsint
    <3> QED
      BY <3>1, <3>2, <3>3, PlaceValues, Parts
  <2>2. Host => scr' = scr \/ Started
    BY HostOnly DEF Start
  <2> QED
    BY <2>1, <2>2, PlaceValues
<1> QED
  BY <1>1, <1>2, <1>3, <1>4, <1>6, <1>7, <1>8, <1>9, <1>10, <1>11, <1>12, <1>13, <1>14, PlaceValues DEF Next, Script

\* What the script's end leaves, and when it may end.
EndInv  == scr = "off" => held = "no" /\ hook = "off"

\* However a script ends, it leaves the shutter released and the hook off.
LEMMA EndStep ==
    ASSUME IInv, Next PROVE EndInv'
<1>1. EndInv
  BY Parts DEF ScriptInv, EndInv
<1>2. Camera => EndInv'
  BY <1>1 DEF EndInv, Camera, FinishShot, Shutter, ReachHook, HookTimeout, DataReady, DataTimeout, CountUp, EndShot, script
<1>3. Over \/ OverHooked \/ ScriptDies => EndInv'
  BY DEF Over, OverHooked, ScriptDies, EndInv
<1>4. \A pc, q : Continue(pc, q) => scr' = pc
  BY DEF Continue
<1>5. Half \/ Press \/ HookWait \/ Pause \/ Shoot \/ Shot => EndInv'
  BY <1>3, <1>4 DEF Half, Press, HookWait, Pause, Shoot, Shot, EndInv
<1>6. Go \/ Count => EndInv'
  BY <1>3, <1>4 DEF Go, Count, EndInv
<1>7. Single \/ IntCont => EndInv'
  BY <1>3 DEF Single, IntCont, EndInv
<1>8. Host => EndInv'
  BY <1>1, HostOnly DEF Start, Started, EndInv
<1> QED
  BY <1>2, <1>3, <1>5, <1>6, <1>7, <1>8 DEF Next, Script

\* The script runs while shots are left.
RunInv == scr # "off" /\ mode \notin Rsint => shots < N

\* Every loop of rs_shoot ends with its last shot.
LEMMA RunStep ==
    ASSUME IInv, Next PROVE RunInv'
<1>1. RunInv /\ mode' = mode /\ shots \in Nat /\ N \in Nat
  BY Parts, OptionsNext, Constants DEF ScriptInv, RunInv
<1>2. Camera => UNCHANGED <<scr, shots>>
  BY DEF Camera, FinishShot, Shutter, ReachHook, HookTimeout, DataReady, DataTimeout, CountUp, EndShot, script
<1>3. Over \/ OverHooked \/ ScriptDies => scr' = "off"
  BY DEF Over, OverHooked, ScriptDies
<1>4. \A pc, q : Continue(pc, q) => scr' = pc
  BY DEF Continue
<1>5. Half \/ Press \/ HookWait \/ Pause \/ Shoot \/ Go \/ Single \/ IntCont => shots' = shots /\ scr # "off"
  BY DEF Half, Press, HookWait, Pause, Shoot, Go, Single, IntCont
<1>6. Shot => RunInv'
  BY <1>1, <1>3, <1>4, Parts DEF Shot, RunInv
<1>7. Count => RunInv'
  BY <1>1, <1>3, <1>4, Parts DEF Count, RunInv
<1>8. Host => RunInv'
  <2>1. Start => shots = 0 /\ N > 0
    BY Parts, Constants DEF Start, ScriptInv
  <2>2. Host => shots' = shots /\ (Start \/ scr' = scr)
    BY HostOnly
  <2> QED
    BY <1>1, <2>1, <2>2 DEF RunInv
<1> QED
  BY <1>1, <1>2, <1>3, <1>5, <1>6, <1>7, <1>8 DEF Next, Script, RunInv

\* The hook is used in its modes, and a script that goes on has seen a shot in it.
HookedInv ==
    /\ scr = "go" => hook = "ready"
    /\ hook # "off" => mode \in {"hook", "intcont"}
    /\ mode = "single" => held = "no"

\* Every step keeps the hook and the button as the script's place has them.
LEMMA HookedStep ==
    ASSUME IInv, Next PROVE HookedInv'
<1>1. HookedInv /\ mode' = mode
  BY Parts, OptionsNext DEF ScriptInv, HookedInv
<1>2. Camera => HookedInv'
  <2>1. scr = "go" => mode = "hook"
    BY PlaceValues, Parts
  <2> QED
    BY <1>1, <2>1 DEF HookedInv, Camera, FinishShot, Shutter, ReachHook, HookTimeout, DataReady, DataTimeout, CountUp, EndShot, script
<1>3. Over \/ OverHooked \/ ScriptDies => HookedInv'
  <2>1. Over \/ OverHooked \/ ScriptDies => scr' = "off" /\ hook' = "off" /\ held' = "no"
    BY DEF Over, OverHooked, ScriptDies
  <2> QED
    BY <1>1, <2>1 DEF HookedInv
<1>4. \A pc, q : Continue(pc, q) => scr' = pc /\ hook' = hook
  BY DEF Continue
<1>5. Half \/ HookWait \/ Pause => HookedInv'
  BY <1>1, <1>3, <1>4 DEF Half, HookWait, Pause, HookedInv
<1>6. Press \/ Shoot \/ Shot => HookedInv'
  <2>1. Press \/ Shoot \/ Shot => mode # "single"
    BY PlaceValues DEF Press, Shoot, Shot
  <2> QED
    BY <1>1, <1>3, <1>4, <2>1 DEF Press, Shoot, Shot, HookedInv
<1>7. Go => HookedInv'
  <2>1. Go => mode = "hook"
    BY PlaceValues, Parts DEF Go
  <2> QED
    BY <1>1, <1>3, <2>1 DEF Go, HookedInv
<1>8. Count => HookedInv'
  <2>1. Count => mode # "single"
    BY PlaceValues DEF Count
  <2>2. Count => OverHooked \/ (scr' # "go" /\ hook' = hook)
    BY <1>4 DEF Count
  <2> QED
    BY <1>1, <1>3, <2>1, <2>2 DEF HookedInv
<1>9. Single \/ IntCont => HookedInv'
  BY <1>1, <1>3 DEF Single, IntCont, HookedInv
<1>10. Host => HookedInv'
  <2>1. Started => HookedInv'
    <3>1. Started => /\ scr' # "go"
                     /\ hook' = (IF mode \in {"hook", "intcont"} THEN "on" ELSE "off")
                     /\ held' = (IF mode = "intcont" THEN "cont" ELSE "no")
      BY DEF Started
    <3> QED
      BY <1>1, <3>1 DEF HookedInv
  <2>2. Host => Started \/ UNCHANGED <<scr, hook, held>>
    BY HostOnly DEF Start
  <2> QED
    BY <1>1, <2>1, <2>2 DEF HookedInv
<1> QED
  BY <1>2, <1>3, <1>5, <1>6, <1>7, <1>8, <1>9, <1>10 DEF Next, Script

\* Before the script is started nothing has been shot.
NewInv == hpc \in {"init", "start"} => scr = "off" /\ shots = 0 /\ made = 0 /\ calls = 0 /\ ~busy

\* Nothing happens on the camera before the host has started.
LEMMA NewStep ==
    ASSUME IInv, Next PROVE NewInv'
<1>1. NewInv /\ (scr = "off" => held = "no" /\ hook = "off") /\ (~busy => coming = {} /\ avail = {})
  BY Parts DEF ScriptInv, CameraInv, NewInv
<1>2. SUFFICES ASSUME hpc' \in {"init", "start"}
               PROVE  scr' = "off" /\ shots' = 0 /\ made' = 0 /\ calls' = 0 /\ ~busy'
  BY DEF NewInv
<1>3. Host => RsInit
  BY <1>2 DEF Host, RsInit, Start, End, Begin, Poll, Handle, Chunk, ChunkFails, HandlerReturns, CallFails, NextCall,
     CallDone, SendStop, Cmd, Status, Tell, Wait, Cleanup
<1>4. RsInit => scr' = "off" /\ shots' = 0 /\ made' = 0 /\ calls' = 0 /\ ~busy'
  BY <1>1 DEF RsInit, NewInv, script
<1>5. Quiet \/ DataReady \/ DataTimeout => hpc' = hpc /\ calls' = calls
  BY HostStays
<1>6. Script \/ ScriptDies => scr # "off"
  BY DEF Script, Half, Press, HookWait, Go, Count, Pause, Shoot, Shot, Single, IntCont, ScriptDies
<1>7. Camera /\ scr = "off" /\ ~busy => UNCHANGED <<scr, shots, made, busy>>
  BY <1>1 DEF Camera, FinishShot, Shutter, ReachHook, HookTimeout, DataReady, DataTimeout, CountUp, EndShot, script
<1>8. Camera => hpc' = hpc /\ calls' = calls
  BY DEF Camera, FinishShot, Shutter, ReachHook, HookTimeout, DataReady, DataTimeout, CountUp, EndShot, host
<1>9. Script \/ ScriptDies => Quiet
  BY ScriptQuiet, CameraQuiet
<1> QED
  BY <1>1, <1>2, <1>3, <1>4, <1>5, <1>6, <1>7, <1>8, <1>9 DEF Next, NewInv

\* Every step keeps the invariant of the script.
LEMMA ScriptNext ==
    ASSUME IInv, Next PROVE ScriptInv'
<1>1. EndInv' /\ RunInv' /\ HookedInv' /\ NewInv' /\ scr' \in Places[mode'] /\ mode' = mode
  BY EndStep, RunStep, HookedStep, NewStep, PlaceNext
<1> QED
  BY <1>1 DEF ScriptInv, EndInv, RunInv, HookedInv, NewInv

-----------------------------------------------------------------------------
\* ShotsInv, conjunct by conjunct.
ShotsLimit == mode \in {"full", "quick", "hook"} => made <= N
PressInv ==
    mode \in {"full", "quick"} =>
        /\ held # "cont"
        /\ scr \in {"shooting", "count"} => made + Pressed <= shots + 1
        /\ scr \in {"shoot", "pause", "half", "press"} => held = "no" /\ made <= shots
HookPressInv ==
    mode = "hook" =>
        /\ scr \in {"half", "press"} => held = "no" /\ hook = "on" /\ made <= shots
        /\ scr \in {"hookwait", "go"} => made <= shots
        /\ scr = "count" => made <= shots + 1 /\ (shots = N - 1 => held = "no" /\ hook = "on")
        /\ scr # "off" => hook # "off"

\* The invariant of the counters is its parts.
LEMMA ShotsParts == ShotsInv <=> ShotsLimit /\ PressInv /\ HookPressInv
  BY DEF ShotsInv, ShotsLimit, PressInv, HookPressInv

\* A host step changes none of the counters, and Start begins with none.
LEMMA ShotsHostStep ==
    ASSUME IInv, Host PROVE ShotsInv'
<1>1. ShotsLimit /\ PressInv /\ HookPressInv /\ mode' = mode
  BY Parts, ShotsParts, OptionsNext DEF Next
<1>2. UNCHANGED <<made, shots>>
  BY HostOnly
<1>3. CASE UNCHANGED <<scr, hook, held>>
  BY <1>1, <1>2, <1>3 DEF ShotsInv, ShotsLimit, PressInv, HookPressInv, Pressed
<1>4. CASE Start /\ Started
  <2>1. made = 0 /\ shots = 0
    BY <1>4, Parts DEF Start, ScriptInv
  <2>2. /\ mode = "full" => scr' = "shoot"
        /\ mode = "quick" => scr' = "half"
        /\ mode = "hook" => scr' = "half" /\ hook' = "on"
        /\ mode # "intcont" => held' = "no"
    BY <1>4 DEF Started, Rsint
  <2> QED
    BY <1>1, <1>2, <2>1, <2>2, Constants DEF ShotsInv, ShotsLimit, Pressed
<1> QED
  BY <1>3, <1>4, HostOnly DEF Start

\* The camera takes a shot only when the script has pressed for it.
LEMMA ShotsCameraStep ==
    ASSUME IInv, Camera PROVE ShotsInv'
<1>1. ShotsLimit /\ PressInv /\ HookPressInv /\ mode' = mode
  BY Parts, ShotsParts, OptionsNext DEF Next
<1>2. /\ scr = "off" => held = "no"
      /\ scr # "off" /\ mode \notin Rsint => shots < N
      /\ made \in Nat /\ shots \in Nat /\ N \in Nat
  BY Parts, Constants DEF ScriptInv
<1>3. UNCHANGED <<scr, shots>>
  BY DEF Camera, FinishShot, Shutter, ReachHook, HookTimeout, DataReady, DataTimeout, CountUp, EndShot, script
<1>4. CASE Shutter
  <2>1. held # "no" /\ hook = "off" /\ made' = made + 1 /\ hook' = hook /\ held' = (IF held = "once" THEN "no" ELSE held)
    BY <1>4 DEF Shutter, Expose
  <2>2. mode \in {"full", "quick"} => held = "once" /\ scr \in {"shooting", "count"}
    BY <1>1, <1>2, <2>1, PlaceValues, Parts DEF PressInv, CameraTyped
  <2>3. mode # "hook"
    BY <1>1, <1>2, <2>1 DEF HookPressInv
  <2>4. mode \in {"full", "quick"} => made + 1 <= shots + 1 /\ shots < N
    BY <1>1, <1>2, <2>2, PlaceValues DEF PressInv, Pressed, Rsint
  <2>5. mode \in {"full", "quick"} => held' = "no" /\ made' <= shots + 1 /\ made' <= N
    BY <1>2, <2>1, <2>2, <2>4
  <2> QED
    BY <1>1, <1>2, <1>3, <2>1, <2>2, <2>3, <2>5 DEF ShotsInv, Pressed
<1>5. CASE ReachHook
  <2>1. held = "cont" /\ hook' = "ready" /\ UNCHANGED <<made, held>>
    BY <1>5 DEF ReachHook
  <2> QED
    BY <1>1, <1>3, <2>1 DEF ShotsInv, ShotsLimit, PressInv, HookPressInv, Pressed
<1>6. CASE HookTimeout
  <2>1. mode = "intcont"
    BY <1>6 DEF HookTimeout
  <2> QED
    BY <1>1, <2>1 DEF ShotsInv
<1>7. CASE FinishShot
  <2>1. UNCHANGED <<made, held, hook>>
    BY <1>7 DEF FinishShot, DataReady, DataTimeout, CountUp, EndShot
  <2> QED
    BY <1>1, <1>3, <2>1 DEF ShotsInv, ShotsLimit, PressInv, HookPressInv, Pressed
<1> QED
  BY <1>4, <1>5, <1>6, <1>7 DEF Camera

\* When the script ends a shot that waits in the hook is taken, one that was
\* pressed for.
LEMMA ShotsOverStep ==
    ASSUME IInv, Script, OverHooked PROVE ShotsInv'
<1>1. ShotsLimit /\ PressInv /\ HookPressInv /\ mode' = mode
  BY Parts, ShotsParts, OptionsNext DEF Next
<1>2. /\ scr # "off" /\ mode \notin Rsint => shots < N
      /\ hook # "off" => mode \in {"hook", "intcont"}
      /\ hook = "ready" => held = "cont"
      /\ made \in Nat /\ shots \in Nat /\ N \in Nat
  BY Parts, Constants DEF ScriptInv, CameraInv
<1>3. scr # "off"
  BY DEF Script, Half, Press, HookWait, Go, Count, Pause, Shoot, Shot, Single, IntCont
<1>4. scr' = "off" /\ held' = "no" /\ made' = (IF hook = "ready" THEN made + 1 ELSE made)
  BY DEF OverHooked, Over, Expose, NoExpose
<1>5. mode = "hook" /\ hook = "ready" => made + 1 <= N
  <2>1. SUFFICES ASSUME mode = "hook", hook = "ready" PROVE made + 1 <= N
    OBVIOUS
  <2>2. shots < N
    BY <1>2, <1>3, <2>1 DEF Rsint
  <2>3. scr \in {"hookwait", "go", "count"}
    BY <1>1, <1>2, <1>3, <2>1, PlaceValues DEF HookPressInv
  <2>4. CASE scr = "count"
    BY <1>1, <1>2, <2>1, <2>2, <2>4 DEF HookPressInv
  <2>5. CASE scr # "count"
    BY <1>1, <1>2, <2>1, <2>2, <2>3, <2>5 DEF HookPressInv
  <2> QED
    BY <2>4, <2>5
<1>6. ShotsLimit'
  BY <1>1, <1>2, <1>4, <1>5 DEF ShotsLimit
<1> QED
  BY <1>1, <1>4, <1>6 DEF ShotsInv, ShotsLimit

\* The script presses at most once for a shot, and counts each.
LEMMA ShotsScriptStep ==
    ASSUME IInv, Script \/ ScriptDies PROVE ShotsInv'
<1>1. ShotsLimit /\ PressInv /\ HookPressInv /\ mode' = mode
  BY Parts, ShotsParts, OptionsNext DEF Next
<1>2. /\ scr # "off" /\ mode \notin Rsint => shots < N
      /\ hook # "off" => mode \in {"hook", "intcont"}
      /\ made \in Nat /\ shots \in Nat /\ N \in Nat
  BY Parts, Constants DEF ScriptInv
<1>3. \A pc, q : Continue(pc, q) => scr' = pc /\ hook' = hook /\ made' = made
  BY DEF Continue
<1>4. CASE ScriptDies
  <2>1. scr' = "off" /\ held' = "no" /\ made' = made
    BY <1>4 DEF ScriptDies
  <2> QED
    BY <1>1, <2>1 DEF ShotsInv, ShotsLimit
<1>5. CASE Script /\ OverHooked
  BY <1>5, ShotsOverStep
<1>6. CASE mode \notin {"full", "quick", "hook"}
  BY <1>1, <1>6 DEF ShotsInv
<1>7. CASE ~OverHooked /\ mode \in {"full", "quick", "hook"} /\ Script
  <2>1. ~(Single \/ IntCont) /\ mode \notin Rsint
    BY <1>7 DEF Single, IntCont, Rsint
  <2>2. Half => ShotsInv'
    <3>1. Half => scr = "half" /\ scr' \in {"half", "press"} /\ UNCHANGED <<hook, made, shots, held>>
      BY <1>3, <1>7 DEF Half
    <3> QED
      BY <1>1, <3>1 DEF ShotsInv, ShotsLimit, PressInv, HookPressInv, Pressed
  <2>3. Press => ShotsInv'
    <3>1. Press => /\ scr = "press" /\ scr' = (IF mode = "hook" THEN "hookwait" ELSE "count")
                   /\ UNCHANGED <<hook, made, shots>> /\ held' = (IF mode = "quick" THEN "once" ELSE "cont")
      BY <1>3 DEF Press
    <3>2. Press => mode \in {"quick", "hook"}
      BY <1>7, PlaceValues DEF Press
    <3> QED
      BY <1>1, <1>2, <3>1, <3>2 DEF ShotsInv, ShotsLimit, PressInv, HookPressInv, Pressed
  <2>4. HookWait => ShotsInv'
    <3>1. HookWait => scr = "hookwait" /\ scr' \in {"hookwait", "go"} /\ UNCHANGED <<hook, made, shots, held>>
      BY <1>3, <1>7 DEF HookWait
    <3>2. HookWait => mode = "hook"
      BY <1>7, PlaceValues DEF HookWait
    <3> QED
      BY <1>1, <3>1, <3>2 DEF ShotsInv, ShotsLimit, PressInv, HookPressInv, Pressed
  <2>5. Go => ShotsInv'
    <3>1. Go => /\ scr = "go" /\ scr' = "count" /\ hook' = "on" /\ made' = made + 1 /\ shots' = shots
                /\ held' = (IF LastShot THEN "no" ELSE held)
      BY <1>7 DEF Go, Expose
    <3>2. Go => mode = "hook"
      BY <1>7, PlaceValues DEF Go
    <3>3. Go => made <= shots /\ shots < N
      BY <1>1, <1>2, <2>1, <3>1, <3>2 DEF HookPressInv
    <3> QED
      BY <1>1, <1>2, <3>1, <3>2, <3>3 DEF ShotsInv, LastShot
  <2>6. Count => ShotsInv'
    <3>1. Count => /\ scr = "count" /\ UNCHANGED <<hook, made>>
                   /\ \/ shots' = shots + 1 /\ scr' = (IF mode = "hook" THEN "hookwait" ELSE "pause")
                         /\ held' = (IF mode = "quick" THEN "no" ELSE held)
                      \/ shots' = shots /\ scr' = "count" /\ held' = held
      BY <1>3, <1>7 DEF Count
    <3>2. Count => mode \in {"quick", "hook"}
      BY <1>7, PlaceValues DEF Count
    <3> QED
      BY <1>1, <1>2, <3>1, <3>2 DEF ShotsInv, ShotsLimit, PressInv, HookPressInv, Pressed
  <2>7. Pause => ShotsInv'
    <3>1. Pause => scr = "pause" /\ scr' \in {"press", "shoot"} /\ UNCHANGED <<hook, made, shots, held>>
      BY <1>3, <1>7 DEF Pause
    <3>2. Pause => mode \in {"full", "quick"}
      BY <1>7, PlaceValues DEF Pause
    <3> QED
      BY <1>1, <3>1, <3>2 DEF ShotsInv, ShotsLimit, PressInv, HookPressInv, Pressed
  <2>8. Shoot => ShotsInv'
    <3>1. Shoot => scr = "shoot" /\ scr' = "shooting" /\ held' = "once" /\ UNCHANGED <<hook, made, shots>>
      BY <1>3 DEF Shoot
    <3>2. Shoot => mode = "full"
      BY <1>7, PlaceValues DEF Shoot
    <3> QED
      BY <1>1, <1>2, <3>1, <3>2 DEF ShotsInv, ShotsLimit, PressInv, HookPressInv, Pressed
  <2>9. Shot => ShotsInv'
    <3>1. Shot => scr = "shooting" /\ scr' = "pause" /\ held' = "no" /\ shots' = shots + 1 /\ UNCHANGED <<hook, made>>
      BY <1>3, <1>7 DEF Shot
    <3>2. Shot => mode = "full"
      BY <1>7, PlaceValues DEF Shot
    <3> QED
      BY <1>1, <1>2, <3>1, <3>2 DEF ShotsInv, ShotsLimit, PressInv, HookPressInv, Pressed
  <2> QED
    BY <1>7, <2>1, <2>2, <2>3, <2>4, <2>5, <2>6, <2>7, <2>8, <2>9 DEF Script
<1> QED
  BY <1>4, <1>5, <1>6, <1>7

\* Every step keeps the invariant of the counters.
LEMMA ShotsNext ==
    ASSUME IInv, Next PROVE ShotsInv'
  BY ShotsHostStep, ShotsCameraStep, ShotsScriptStep DEF Next

-----------------------------------------------------------------------------
\* HostInv, conjunct by conjunct.
CallsInv ==
    /\ hpc = "stop" => failed /\ mode \notin Rsint
    /\ mode \notin Rsint => /\ hpc \notin {"cmd", "status", "tell"} /\ calls <= N
                            /\ Open => calls < N
                            /\ hpc \in {"wait", "cleanup"} /\ ~failed => calls = N
CmdsInv ==
    mode \in Rsint =>
        /\ hpc \in {"init", "start", "cmd"} => cmds <= MaxCmds
        /\ hpc \in {"status", "tell", "begin", "poll", "handle", "chunk", "done"} =>
              cmds <= MaxCmds \/ cmd = (IF mode = "intcont" THEN "l" ELSE "q")
        /\ hpc \in {"begin", "poll", "handle", "chunk", "done"} => cmd \in {"s", "l"}
RetInv ==
    /\ (hpc # "end" <=> ret = "none")
    /\ ret \in {"ok", "err"} => scr = "off" /\ target = {}
    /\ ret = "ok" /\ mode \notin Rsint => calls = N

\* The invariant of the host is its parts.
LEMMA HostParts == HostInv <=> CallsInv /\ CmdsInv /\ RetInv
  BY DEF HostInv, CallsInv, CmdsInv, RetInv

\* Without a script to run, none is started again, and only the host turns
\* capture on.
LEMMA HostOffStep ==
    ASSUME IInv, Next, Quiet \/ DataReady \/ DataTimeout PROVE HostInv'
<1>1. CallsInv /\ CmdsInv /\ RetInv /\ UNCHANGED <<mode, want>>
  BY Parts, HostParts, OptionsNext
<1>2. UNCHANGED <<hpc, calls, cmd, failed, ret, cmds>>
  BY HostStays
<1>3. target' \in {target, {}}
  BY DEF Quiet, DataReady, DataTimeout
<1>4. CASE ret \in {"ok", "err"}
  <2>1. scr = "off"
    BY <1>1, <1>4 DEF RetInv
  <2>2. Camera => scr' = "off"
    BY <2>1 DEF Camera, FinishShot, Shutter, ReachHook, HookTimeout, DataReady, DataTimeout, CountUp, EndShot, script
  <2>3. ~(Script \/ ScriptDies)
    BY <2>1 DEF Script, Half, Press, HookWait, Go, Count, Pause, Shoot, Shot, Single, IntCont, ScriptDies
  <2>4. hpc = "end"
    BY <1>1, <1>4 DEF RetInv
  <2>5. ~Host
    BY <2>4 DEF Host, RsInit, Start, Begin, Poll, Handle, Chunk, CallDone, SendStop, Cmd, Status, Tell, Wait, Cleanup
  <2>6. scr' = "off"
    BY <2>2, <2>3, <2>5 DEF Next
  <2> QED
    BY <1>1, <1>2, <1>3, <2>6 DEF HostInv, CallsInv, CmdsInv, RetInv, Open
<1>5. CASE ret \notin {"ok", "err"}
  BY <1>1, <1>2, <1>5 DEF HostInv, CallsInv, CmdsInv, RetInv, Open
<1> QED
  BY <1>4, <1>5

\* The host makes a call for each shot, and stops after an error.
LEMMA CallsStep ==
    ASSUME IInv, Host PROVE CallsInv'
<1>1. CallsInv /\ UNCHANGED <<mode, want>> /\ calls \in Nat /\ N \in Nat /\ failed \in BOOLEAN
  BY Parts, HostParts, OptionsNext, Constants DEF Next, HostTyped
<1>2. (CallFails \/ hpc' = "end") /\ calls' = calls => CallsInv'
  BY <1>1 DEF CallsInv, CallFails, Open
<1>3. \A r : End(r) => hpc' = "end"
  BY DEF End
<1>4. CASE RsInit \/ Cleanup
  <2>1. calls' = calls
    BY <1>4 DEF RsInit, Cleanup
  <2>2. hpc' = "end" \/ (RsInit /\ hpc = "init" /\ hpc' = "start")
    BY <1>3, <1>4 DEF RsInit, Cleanup
  <2> QED
    BY <1>1, <1>2, <2>1, <2>2 DEF CallsInv, Open
<1>5. CASE Start
  <2>1. calls' = calls /\ hpc = "start" /\ hpc' \in {"end", NextCall}
    BY <1>3, <1>5 DEF Start
  <2> QED
    BY <1>1, <1>2, <2>1 DEF CallsInv, Open, NextCall
<1>6. CASE Begin \/ Handle \/ Poll \/ Chunk
  <2>1. calls' = calls /\ hpc \in {"begin", "handle", "poll", "chunk"}
    BY <1>6 DEF Begin, Handle, Poll, Chunk
  <2>2. CallFails \/ (hpc' \in {"poll", "handle", "done", "chunk"} /\ failed' = failed)
    BY <1>6 DEF Begin, Handle, Poll, Chunk, ChunkFails, HandlerReturns
  <2> QED
    BY <1>1, <1>2, <2>1, <2>2 DEF CallsInv, Open
<1>7. CASE CallDone
  <2>1. /\ hpc = "done" /\ calls' = calls + 1 /\ failed' = failed
        /\ hpc' = (IF mode \in Rsint THEN (IF cmd = "l" THEN "wait" ELSE "cmd")
                   ELSE IF calls + 2 > N THEN "wait" ELSE "begin")
    BY <1>7 DEF CallDone, ShotsDone
  <2>2. CASE mode \in Rsint
    BY <1>1, <2>1, <2>2 DEF CallsInv, Open
  <2>3. CASE mode \notin Rsint
    <3>1. calls < N
      BY <1>1, <2>1, <2>3 DEF CallsInv, Open
    <3>2. hpc' = "wait" => calls' = N
      BY <1>1, <2>1, <2>3, <3>1
    <3>3. hpc' # "wait" => hpc' = "begin" /\ calls' < N
      BY <1>1, <2>1, <2>3, <3>1
    <3> QED
      BY <1>1, <2>1, <2>3, <3>1, <3>2, <3>3 DEF CallsInv, Open
  <2> QED
    BY <2>2, <2>3
<1>8. CASE Cmd \/ Status \/ Tell
  <2>1. calls' = calls /\ hpc \in {"cmd", "status", "tell"}
    BY <1>8 DEF Cmd, Status, Tell
  <2>2. mode \in Rsint
    BY <1>1, <2>1 DEF CallsInv
  <2>3. CallFails \/ hpc' \in {"status", "wait", "tell", "begin", "cmd"}
    BY <1>8 DEF Cmd, Status, Tell
  <2> QED
    BY <1>1, <1>2, <2>1, <2>2, <2>3 DEF CallsInv
<1>9. CASE SendStop \/ Wait
  <2>1. calls' = calls /\ failed' = failed /\ ((hpc = "stop" /\ hpc' = "wait") \/ (hpc = "wait" /\ hpc' = "cleanup"))
    BY <1>9 DEF SendStop, Wait
  <2> QED
    BY <1>1, <2>1 DEF CallsInv, Open
<1> QED
  BY <1>4, <1>5, <1>6, <1>7, <1>8, <1>9 DEF Host

\* rsint ends with its last command.
LEMMA CmdsStep ==
    ASSUME IInv, Host PROVE CmdsInv'
<1>1. CmdsInv /\ mode' = mode /\ cmds \in Nat /\ MaxCmds \in Nat /\ cmd \in {"s", "l", "q", "x"}
  BY Parts, HostParts, OptionsNext, Constants DEF Next, HostTyped
<1>2. CASE mode \notin Rsint
  BY <1>1, <1>2 DEF CmdsInv
<1>3. CASE mode \in Rsint
  <2>0. mode \in {"single", "intcont"}
    BY <1>3 DEF Rsint
  <2>1. CallFails => hpc' = "wait"
    BY <1>3 DEF CallFails
  <2>2. hpc' \in {"wait", "end", "cleanup", "stop"} => CmdsInv'
    BY DEF CmdsInv
  <2>3. CASE RsInit \/ Start
    <3>1. UNCHANGED <<cmd, cmds>> /\ hpc \in {"init", "start"} /\ hpc' \in {"start", "cmd", "end"}
      BY <1>3, <2>3 DEF RsInit, Start, End, NextCall, history
    <3> QED
      BY <1>1, <3>1 DEF CmdsInv
  <2>4. CASE Begin \/ Poll \/ Handle \/ Chunk
    <3>1. UNCHANGED <<cmd, cmds>> /\ hpc \in {"begin", "poll", "handle", "chunk"}
      BY <2>4 DEF Begin, Poll, Handle, Chunk, history
    <3>2. hpc' \in {"wait", "poll", "handle", "chunk", "done"}
      BY <2>1, <2>4 DEF Begin, Poll, Handle, Chunk, ChunkFails, HandlerReturns
    <3> QED
      BY <1>1, <3>1, <3>2 DEF CmdsInv
  <2>5. CASE CallDone
    <3>1. UNCHANGED <<cmd, cmds>> /\ hpc = "done" /\ hpc' = (IF cmd = "l" THEN "wait" ELSE "cmd")
      BY <1>3, <2>5 DEF CallDone, history
    <3> QED
      BY <1>1, <1>3, <3>1 DEF CmdsInv
  <2>6. CASE Cmd
    <3>1. /\ hpc = "cmd" /\ hpc' = "status" /\ cmds' = cmds + 1
          /\ cmd' \in IF cmds < MaxCmds THEN {"s", "l", "q", "x"}
                      ELSE IF mode = "intcont" THEN {"l"} ELSE {"q"}
      BY <2>6 DEF Cmd
    <3> QED
      BY <1>1, <3>1 DEF CmdsInv
  <2>7. CASE Status
    <3>1. UNCHANGED <<cmd, cmds>> /\ hpc = "status" /\ hpc' \in {"wait", "tell"}
      BY <2>1, <2>7 DEF Status
    <3> QED
      BY <1>1, <3>1 DEF CmdsInv
  <2>8. CASE Tell
    <3>1. UNCHANGED <<cmd, cmds>> /\ hpc = "tell"
      BY <2>8 DEF Tell
    <3>2. \/ hpc' = "wait"
          \/ hpc' = (IF cmd \in {"s", "l"} THEN "begin"
                     ELSE IF cmd = "q" /\ mode = "single" THEN "wait" ELSE "cmd")
      BY <2>1, <2>8 DEF Tell
    <3> QED
      BY <1>1, <1>3, <2>0, <3>1, <3>2 DEF CmdsInv
  <2>9. CASE SendStop \/ Wait \/ Cleanup
    BY <2>2, <2>9 DEF SendStop, Wait, Cleanup, End
  <2> QED
    BY <2>3, <2>4, <2>5, <2>6, <2>7, <2>8, <2>9 DEF Host
<1> QED
  BY <1>2, <1>3

\* A command reports success or an error of its own only when all is off.
LEMMA RetStep ==
    ASSUME IInv, Host PROVE RetInv'
<1>1. RetInv /\ CallsInv /\ mode' = mode /\ failed \in BOOLEAN
  BY Parts, HostParts, OptionsNext DEF Next, HostTyped
<1>2. hpc # "end"
  BY DEF Host, RsInit, Start, Begin, Poll, Handle, Chunk, CallDone, SendStop, Cmd, Status, Tell, Wait, Cleanup
<1>3. ret = "none"
  BY <1>1, <1>2 DEF RetInv
<1>4. CASE RsInit \/ Start
  <2>1. (hpc' = "end" /\ ret' = "failed") \/ (hpc' # "end" /\ ret' = "none")
    BY <1>3, <1>4 DEF RsInit, Start, End, NextCall
  <2> QED
    BY <2>1 DEF RetInv
<1>5. CASE Cleanup
  <2>1. hpc = "cleanup" /\ scr' = scr /\ calls' = calls
    BY <1>5 DEF Cleanup
  <2>2. hpc' = "end" /\ (ret' = "uninit" \/ (scr = "off" /\ target' = {} /\ ret' = (IF failed THEN "err" ELSE "ok")))
    BY <1>5 DEF Cleanup, End, Uninit, CaptureOff
  <2> QED
    BY <1>1, <2>1, <2>2 DEF RetInv, CallsInv
<1>6. CASE Host /\ ~(RsInit \/ Start \/ Cleanup)
  <2>1. ret' = ret
    BY <1>6 DEF Host, Begin, Poll, Handle, Chunk, CallDone, SendStop, Cmd, Status, Tell, Wait
  <2>2. CallFails => hpc' # "end"
    BY DEF CallFails
  <2>3. hpc' # "end"
    BY <1>2, <1>6, <2>2 DEF Host, Begin, Poll, Handle, Chunk, ChunkFails, HandlerReturns, CallDone, SendStop, Cmd, Status, Tell, Wait
  <2> QED
    BY <1>3, <2>1, <2>3 DEF RetInv
<1> QED
  BY <1>4, <1>5, <1>6

\* Every step keeps the invariant of the host.
LEMMA HostNext ==
    ASSUME IInv, Next PROVE HostInv'
<1>1. CASE Host
  <2>1. CallsInv' /\ CmdsInv' /\ RetInv'
    BY <1>1, CallsStep, CmdsStep, RetStep
  <2> QED
    BY <2>1 DEF HostInv, CallsInv, CmdsInv, RetInv
<1>2. CASE Quiet \/ DataReady \/ DataTimeout
  BY <1>2, HostOffStep
<1> QED
  BY <1>1, <1>2, Steps

-----------------------------------------------------------------------------
\* The chunks of a file, from none to one more.
LEMMA HasNone ==
    ASSUME NEW m \in Nat, NEW shot PROVE HasFrom(<<>>, shot, m, m)
  BY DEF HasFrom

\* One more chunk of the same shot.
LEMMA HasMore ==
    ASSUME NEW p \in Seq(Nat \X Nat), NEW shot \in Nat, NEW m \in Nat, NEW l \in Nat, 1 <= l, l <= m,
           HasFrom(p, shot, m, l)
    PROVE  HasFrom(Append(p, <<shot, l - 1>>), shot, m, l - 1)
<1> DEFINE q == Append(p, <<shot, l - 1>>)
<1>1. Len(p) = m - l /\ \A i \in 1..(m - l) : p[i] = <<shot, m - i>>
  BY DEF HasFrom
<1>2. Len(q) = m - (l - 1) /\ q[Len(p) + 1] = <<shot, l - 1>> /\ \A i \in 1..Len(p) : q[i] = p[i]
  BY <1>1
<1>3. \A i \in 1..(m - (l - 1)) : i \in 1..(m - l) \/ i = Len(p) + 1
  BY <1>1
<1>4. m - (Len(p) + 1) = l - 1
  BY <1>1
<1> HIDE DEF q
<1>5. \A i \in 1..(m - (l - 1)) : q[i] = <<shot, m - i>>
  BY <1>1, <1>2, <1>3, <1>4
<1>6. HasFrom(q, shot, m, l - 1)
  BY <1>2, <1>5 DEF HasFrom
<1> QED
  BY <1>6 DEF q

\* What the call under way relies on when data is ready.
LEMMA DataReadyFor ==
    ASSUME IInv, InCall, avail # {}
    PROVE  /\ target = want
           /\ \/ made = calls + 1 /\ coming \cup avail = toget
              \/ toget = {} /\ made = calls + 2
<1>1. target \in {{}, want} /\ avail \subseteq target
  BY Parts DEF CameraTyped, CameraInv
<1>2. target = want
  BY <1>1
<1>3. Open
  BY DEF Open, InCall
<1> QED
  BY <1>2, <1>3, Parts DEF DataInv

-----------------------------------------------------------------------------
\* The data under the steps of camera and script.
DataInvs == DataInv /\ WantInv /\ PiecesInv /\ FreshInv /\ HdrInv

\* The data under steps that do not touch it.
LEMMA DataQuietStep ==
    ASSUME IInv, Next, Quiet PROVE DataInvs'
<1>1. DataInv /\ WantInv /\ PiecesInv /\ FreshInv /\ HdrInv /\ want # {} /\ made \in Nat /\ calls \in Nat
  BY Parts
<1>2. UNCHANGED <<mode, want, target, avail, left, hpc, calls, toget, seen, cur, pieces, hdr>>
  BY DEF Quiet
<1>3. (InCall' <=> InCall) /\ (Open' <=> Open) /\ (Dng' <=> Dng)
  BY <1>2 DEF InCall, Open, Dng
<1>4. DataInv'
  <2>1. CASE Begins
    <3>1. coming = {} /\ avail = {} /\ coming' = target /\ made' = made + 1
      BY <2>1, Parts DEF Begins, Expose, CameraInv
    <3> QED
      BY <1>1, <1>2, <1>3, <3>1 DEF DataInv
  <2>2. CASE Still
    BY <1>1, <1>2, <1>3, <2>2 DEF Still, DataInv
  <2> QED
    BY <2>1, <2>2 DEF Quiet
<1>5. WantInv'
  BY <1>1, <1>2 DEF WantInv
<1>6. PiecesInv'
  <2>1. \A t \in want : Partial(t) => Partial(t)'
    BY <1>2 DEF Partial, Has
  <2>2. \A t \in want : Has(t, MaxChunks[t], 0) => Has(t, MaxChunks[t], 0)'
    BY <1>2 DEF Has
  <2> QED
    BY <1>1, <1>2, <1>3, <2>1, <2>2 DEF PiecesInv
<1>7. FreshInv' /\ HdrInv'
  BY <1>1, <1>2, <1>3 DEF FreshInv, HdrInv
<1> QED
  BY <1>4, <1>5, <1>6, <1>7 DEF DataInvs

\* The data when the camera has a file ready.
LEMMA DataReadyStep ==
    ASSUME IInv, DataReady PROVE DataInvs'
<1>1. DataInv /\ WantInv /\ PiecesInv /\ FreshInv /\ HdrInv /\ want # {} /\ made \in Nat /\ calls \in Nat
      /\ want \subseteq Types /\ coming \subseteq want /\ coming \subseteq target /\ target \in {{}, want}
      /\ coming \cap avail = {} /\ avail \subseteq want
  BY Parts DEF CameraTyped, CameraInv
<1>2. UNCHANGED <<mode, want, target, made, hpc, calls, toget, seen, cur, pieces, hdr>>
  BY DEF DataReady, host
<1>3. (InCall' <=> InCall) /\ (Open' <=> Open) /\ (Dng' <=> Dng)
  BY <1>2 DEF InCall, Open, Dng
<1>4. PICK S \in (SUBSET coming) \ {{}} :
        /\ coming' = coming \ S /\ avail' = avail \cup S
        /\ \E big \in SUBSET (S \cap {"jpg", "craw"}) :
              left' = [t \in Types |-> IF t \notin S THEN left[t]
                                       ELSE MaxChunks[t] + IF t \in big THEN 1 ELSE 0]
  BY DEF DataReady
<1>5. target = want /\ coming' \cup avail' = coming \cup avail /\ coming # {}
  BY <1>1, <1>4
<1>6. DataInv' /\ WantInv' /\ HdrInv'
  BY <1>1, <1>2, <1>3, <1>5 DEF DataInv, WantInv, HdrInv
<1>7. /\ \A t \in S : left'[t] \in {MaxChunks[t], MaxChunks[t] + 1} /\ (t = "raw" => left'[t] = 1)
      /\ \A t \in want \ S : left'[t] = left[t]
      /\ \A t \in want : MaxChunks[t] \in Nat
  <2> PICK big \in SUBSET (S \cap {"jpg", "craw"}) :
        left' = [t \in Types |-> IF t \notin S THEN left[t]
                                 ELSE MaxChunks[t] + IF t \in big THEN 1 ELSE 0]
    BY <1>4
  <2>1. S \subseteq Types /\ \A t \in Types : MaxChunks[t] \in Nat
    BY <1>1, Constants
  <2>2. \A t \in S : left'[t] = MaxChunks[t] + IF t \in big THEN 1 ELSE 0
    BY <2>1
  <2>3. "raw" \notin big /\ MaxChunks["raw"] = 1
    BY Constants
  <2> QED
    BY <1>1, <2>1, <2>2, <2>3
<1>8. PiecesInv'
  <2> SUFFICES ASSUME InCall', NEW t \in want'
               PROVE  IF t \in toget' THEN Partial(t)' ELSE Has(t, MaxChunks[t], 0)'
    BY DEF PiecesInv
  <2>1. t \in want /\ (IF t \in toget THEN Partial(t) ELSE Has(t, MaxChunks[t], 0))
    BY <1>1, <1>2, <1>3 DEF PiecesInv
  <2>2. CASE t \notin toget
    BY <1>2, <2>1, <2>2 DEF Has
  <2>3. CASE t \in toget /\ t \notin S
    BY <1>2, <1>4, <1>7, <2>1, <2>3 DEF Has, Partial
  <2>4. CASE t \in toget /\ t \in S
    <3>1. pieces[t] = <<>>
      BY <1>1, <1>4, <1>5, <2>1, <2>4 DEF Partial
    <3>2. left'[t] \in Nat /\ left'[t] \in {MaxChunks[t], MaxChunks[t] + 1} /\ (t = "raw" => left'[t] = 1)
      BY <1>7, <2>1, <2>4
    <3>3. HasFrom(<<>>, calls + 1, left'[t], left'[t])
      BY <3>2, HasNone
    <3>4. \E m \in {MaxChunks[t], MaxChunks[t] + 1} :
              left'[t] <= m /\ HasFrom(pieces'[t], calls' + 1, m, left'[t]) /\ (t = "raw" => m = 1)
      BY <1>2, <3>1, <3>2, <3>3
    <3>5. t \in avail'
      BY <1>4, <2>4
    <3> QED
      BY <1>2, <2>4, <3>4, <3>5 DEF Partial, Has
  <2> QED
    BY <2>2, <2>3, <2>4
<1>9. FreshInv'
  <2> SUFFICES ASSUME Open', NEW t \in avail', InCall' => t \notin toget'
               PROVE  left'[t] >= MaxChunks[t]
    BY DEF FreshInv
  <2>1. CASE t \in S
    <3>1. t \in want
      BY <1>1, <2>1
    <3> QED
      BY <1>7, <2>1, <3>1
  <2>2. CASE t \notin S
    <3>1. t \in avail /\ t \in want
      BY <1>1, <1>4, <2>2
    <3> QED
      BY <1>1, <1>2, <1>3, <1>7, <2>2, <3>1 DEF FreshInv
  <2> QED
    BY <2>1, <2>2
<1> QED
  BY <1>6, <1>8, <1>9 DEF DataInvs

\* The data when the camera gives up the shot.
LEMMA DataTimeoutStep ==
    ASSUME IInv, DataTimeout PROVE DataInvs'
<1>1. WantInv /\ PiecesInv /\ HdrInv /\ want # {}
  BY Parts
<1>2. UNCHANGED <<mode, want, hpc, calls, toget, seen, cur, pieces, hdr>> /\ target' = {} /\ avail' = {}
  BY DEF DataTimeout, host
<1>3. (InCall' <=> InCall) /\ (Dng' <=> Dng)
  BY <1>2 DEF InCall, Dng
<1>4. DataInv' /\ WantInv' /\ FreshInv' /\ HdrInv'
  BY <1>1, <1>2, <1>3 DEF DataInv, WantInv, FreshInv, HdrInv
<1>5. \A t \in want : Partial(t)' /\ (Has(t, MaxChunks[t], 0) => Has(t, MaxChunks[t], 0)')
  BY <1>1, <1>2 DEF Partial, Has
<1>6. PiecesInv'
  BY <1>1, <1>2, <1>3, <1>5 DEF PiecesInv
<1> QED
  BY <1>4, <1>6 DEF DataInvs

-----------------------------------------------------------------------------
\* The data under the steps of the host.

\* Outside of a call nothing is said of what was fetched.
LEMMA DataClosed ==
    ASSUME ~Open' PROVE DataInvs'
  BY DEF DataInvs, DataInv, WantInv, PiecesInv, FreshInv, HdrInv, Open, InCall

\* An error ends the call.
LEMMA FailsClosed ==
    ASSUME CallFails PROVE ~Open'
  BY DEF CallFails, Open

\* The data under the host's steps outside a call of capture_get_data.
LEMMA DataOutsideStep ==
    ASSUME IInv, RsInit \/ Start \/ SendStop \/ Cmd \/ Status \/ Tell \/ Wait \/ Cleanup PROVE DataInvs'
<1>1. DataInv /\ FreshInv /\ want # {}
  BY Parts
<1>2. CASE ~Open'
  BY <1>2, DataClosed
<1>3. CASE RsInit /\ Open'
  <2>1. hpc' = "start" /\ hpc = "init"
    BY <1>3 DEF RsInit, End, Open
  <2>2. coming' = {} /\ avail' = {} /\ made' = 0 /\ calls' = 0
    BY <1>3, <2>1, Parts DEF RsInit, ScriptInv, CameraInv
  <2> QED
    BY <2>1, <2>2 DEF DataInvs, DataInv, WantInv, PiecesInv, FreshInv, HdrInv, Open, InCall
<1>4. CASE (Start \/ SendStop \/ Cmd \/ Status \/ Tell \/ Wait \/ Cleanup) /\ Open'
  <2>1. Start \/ Cmd \/ Status \/ Tell
    BY <1>4 DEF SendStop, Wait, Cleanup, End, Open
  <2>2. UNCHANGED <<mode, want, target, coming, avail, left, made, calls>>
    BY <2>1 DEF Start, Cmd, Status, Tell, camera
  <2>3. Open /\ ~InCall
    BY <2>1 DEF Start, Cmd, Status, Tell, Open, InCall
  <2>4. hpc' \in {"begin", "cmd", "status", "tell"}
    BY <1>4, <2>1, FailsClosed DEF Start, NextCall, End, Cmd, Status, Tell, Open
  <2>5. ~InCall'
    BY <2>4 DEF InCall
  <2>6. DataInv'
    BY <1>1, <1>4, <2>2, <2>3, <2>5 DEF DataInv
  <2>7. FreshInv'
    BY <1>1, <2>2, <2>3, <2>5 DEF FreshInv
  <2>8. WantInv' /\ PiecesInv' /\ HdrInv'
    BY <2>4, <2>5 DEF WantInv, PiecesInv, HdrInv
  <2> QED
    BY <2>6, <2>7, <2>8 DEF DataInvs
<1> QED
  BY <1>2, <1>3, <1>4

\* A call begins: it wants all types, and has none.
LEMMA DataBeginStep ==
    ASSUME IInv, Begin PROVE DataInvs'
<1>1. DataInv /\ FreshInv /\ want # {} /\ want \subseteq Types /\ avail \subseteq want /\ calls \in Nat
  BY Parts DEF CameraTyped
<1>2. /\ hpc = "begin" /\ hpc' = "poll" /\ toget' = want /\ pieces' = [t \in Types |-> <<>>]
      /\ UNCHANGED <<mode, want, target, coming, avail, left, made, calls>>
  BY DEF Begin, camera
<1>3. Open /\ ~InCall /\ Open' /\ InCall'
  BY <1>2 DEF Open, InCall
<1>4. DataInv'
  BY <1>1, <1>2, <1>3 DEF DataInv
<1>5. WantInv' /\ FreshInv' /\ HdrInv'
  BY <1>1, <1>2, <1>3 DEF WantInv, FreshInv, HdrInv, Dng
<1>6. PiecesInv'
  <2> SUFFICES ASSUME NEW t \in want PROVE Partial(t)'
    BY <1>2 DEF PiecesInv
  <2>1. pieces'[t] = <<>> /\ MaxChunks[t] \in Nat
    BY <1>1, <1>2, Constants
  <2>2. CASE t \in avail
    <3>1. left[t] \in 1..(MaxChunks[t] + 1) /\ (t = "raw" => left[t] = 1) /\ left[t] >= MaxChunks[t]
      BY <1>1, <1>3, <2>2, Parts DEF CameraInv, FreshInv
    <3>2. left[t] \in Nat /\ left[t] \in {MaxChunks[t], MaxChunks[t] + 1}
      BY <2>1, <3>1
    <3>3. HasFrom(pieces'[t], calls + 1, left[t], left[t])
      BY <2>1, <3>2, HasNone
    <3>4. \E m \in {MaxChunks[t], MaxChunks[t] + 1} :
              left'[t] <= m /\ HasFrom(pieces'[t], calls' + 1, m, left'[t]) /\ (t = "raw" => m = 1)
      BY <1>2, <3>1, <3>2, <3>3
    <3> QED
      BY <1>2, <2>2, <3>4 DEF Partial, Has
  <2>3. CASE t \notin avail
    BY <1>2, <2>1, <2>3 DEF Partial
  <2> QED
    BY <2>2, <2>3
<1> QED
  BY <1>4, <1>5, <1>6 DEF DataInvs

\* A poll and the loop over what it has seen.
LEMMA DataPollStep ==
    ASSUME IInv, Poll \/ Handle PROVE DataInvs'
<1>1. DataInv /\ WantInv /\ PiecesInv /\ FreshInv /\ HdrInv
  BY Parts
<1>2. CASE CallFails
  BY <1>2, DataClosed, FailsClosed
<1>3. CASE ~CallFails
  <2>1. UNCHANGED <<mode, want, target, coming, avail, left, made, calls, toget, pieces, hdr>>
    BY DEF Poll, Handle, camera
  <2>2. InCall /\ Open /\ InCall' /\ Open'
    BY <1>3 DEF Poll, Handle, InCall, Open
  <2>3. DataInv' /\ FreshInv' /\ HdrInv'
    BY <1>1, <2>1, <2>2 DEF DataInv, FreshInv, HdrInv, Dng
  <2>4. PiecesInv'
    <3>1. \A t \in want : (Partial(t) => Partial(t)') /\ (Has(t, MaxChunks[t], 0) => Has(t, MaxChunks[t], 0)')
      BY <2>1 DEF Partial, Has
    <3> QED
      BY <1>1, <2>1, <2>2, <3>1 DEF PiecesInv
  <2>5. WantInv'
    <3>1. CASE Poll
      <4>1. hpc = "poll" /\ hpc' = "handle" /\ avail # {} /\ seen' = avail
        BY <1>3, <3>1 DEF Poll
      <4>2. toget # {}
        BY <1>1, <4>1 DEF WantInv
      <4>3. avail \subseteq toget
        BY <2>2, <4>1, <4>2, DataReadyFor
      <4> QED
        BY <2>1, <4>1, <4>3 DEF WantInv
    <3>2. CASE Handle /\ seen = {}
      <4>1. hpc' = (IF toget = {} THEN "done" ELSE "poll")
        BY <3>2 DEF Handle, NothingToGet
      <4> QED
        BY <2>1, <4>1 DEF WantInv
    <3>3. CASE Handle /\ seen # {}
      <4>1. cur' \in seen /\ hpc' = "chunk"
        BY <1>3, <3>3, FirstSeen
      <4>2. hpc = "handle" /\ seen' = seen
        BY <3>3 DEF Handle
      <4> QED
        BY <1>1, <2>1, <4>1, <4>2 DEF WantInv
    <3> QED
      BY <3>1, <3>2, <3>3
  <2> QED
    BY <2>3, <2>4, <2>5 DEF DataInvs
<1> QED
  BY <1>2, <1>3

\* A call ends; the next one gets the next shot.
LEMMA DataCallDoneStep ==
    ASSUME IInv, CallDone PROVE DataInvs'
<1>1. DataInv /\ WantInv /\ FreshInv /\ want # {} /\ calls \in Nat /\ made \in Nat
  BY Parts
<1>2. CASE ~Open'
  BY <1>2, DataClosed
<1>3. CASE Open'
  <2>1. /\ hpc = "done" /\ hpc' \in {"cmd", "begin"} /\ calls' = calls + 1
        /\ UNCHANGED <<mode, want, target, coming, avail, left, made, toget>>
    BY <1>3 DEF CallDone, camera, Open
  <2>2. InCall /\ Open /\ ~InCall' /\ toget = {}
    BY <1>1, <2>1 DEF InCall, Open, WantInv
  <2>3. DataInv'
    BY <1>1, <2>1, <2>2 DEF DataInv
  <2>4. FreshInv'
    BY <1>1, <2>1, <2>2 DEF FreshInv
  <2>5. WantInv' /\ PiecesInv' /\ HdrInv'
    BY <2>1, <2>2 DEF WantInv, PiecesInv, HdrInv
  <2> QED
    BY <2>3, <2>4, <2>5 DEF DataInvs
<1> QED
  BY <1>2, <1>3

\* A chunk is fetched: the next of the file that the call has the first chunks of.
LEMMA DataChunkStep ==
    ASSUME IInv, Chunk PROVE DataInvs'
<1>1. DataInv /\ WantInv /\ PiecesInv /\ FreshInv /\ HdrInv /\ want \subseteq Types /\ calls \in Nat
      /\ avail \subseteq want /\ toget \subseteq want /\ coming \cap avail = {} /\ LeftInv /\ HeaderInv
  BY Parts, CameraParts DEF CameraTyped, HostTyped, CaptureInv
<1>2. CASE CallFails
  BY <1>2, DataClosed, FailsClosed
<1>3. CASE ~CallFails
  <2>1. /\ hpc = "chunk" /\ TakeChunk /\ ~TooMany(pieces'[cur])
        /\ UNCHANGED <<mode, want, target, coming, made, calls, cur>>
    BY <1>3 DEF Chunk, ChunkFails
  <2>2. \/ (left'[cur] = 0 \/ (Dng /\ cur = "raw")) /\ HandlerReturns
        \/ left'[cur] # 0 /\ UNCHANGED <<hpc, toget, seen, hdr>>
    BY <1>3 DEF Chunk, ChunkFails
  <2>3. /\ cur \in avail /\ cur \in Types /\ left[cur] \in Nat /\ left[cur] >= 1 /\ left'[cur] = left[cur] - 1
        /\ \A t \in Types \ {cur} : left'[t] = left[t] /\ pieces'[t] = pieces[t]
        /\ pieces'[cur] = Append(pieces[cur], <<made, left[cur] - 1>>)
        /\ avail' = (IF left[cur] = 1 THEN avail \ {cur} ELSE avail)
    BY <2>1, ChunkTyped
  <2>4. InCall /\ Open
    BY <2>1 DEF InCall, Open
  <2>5. cur \in toget /\ cur \in seen /\ seen \subseteq toget
    BY <1>1, <2>1 DEF WantInv
  <2>6. target = want /\ made = calls + 1 /\ coming \cup avail = toget
    BY <2>3, <2>4, <2>5, DataReadyFor
  <2>7. cur = "raw" => left[cur] = 1 /\ "dng_hdr" \notin toget
    BY <1>1, <2>3, <2>6 DEF LeftInv, HeaderInv
  <2>8. \/ left[cur] = 1 /\ left'[cur] = 0 /\ avail' = avail \ {cur} /\ HandlerReturns
        \/ left[cur] # 1 /\ left'[cur] # 0 /\ avail' = avail /\ UNCHANGED <<hpc, toget, seen, hdr>>
    BY <2>2, <2>3, <2>7
  <2>9. /\ hpc' \in {"handle", "chunk"} /\ InCall' /\ Open'
        /\ toget' = (IF left[cur] = 1 THEN toget \ {cur} ELSE toget)
        /\ seen' = (IF left[cur] = 1 THEN seen \ {cur} ELSE seen)
        /\ hpc' = "chunk" => left[cur] # 1
        /\ hdr' = (IF left[cur] = 1 /\ Dng /\ cur = "dng_hdr" THEN made ELSE hdr)
    BY <2>1, <2>8 DEF HandlerReturns, InCall, Open
  <2>10. DataInv'
    <3>1. coming' \cup avail' = toget'
      BY <1>1, <2>1, <2>3, <2>6, <2>9
    <3> QED
      BY <2>1, <2>6, <2>9, <3>1 DEF DataInv
  <2>11. WantInv'
    BY <2>1, <2>5, <2>9 DEF WantInv
  <2>12. FreshInv'
    <3> SUFFICES ASSUME NEW t \in avail', t \notin toget' PROVE left'[t] >= MaxChunks[t]
      BY <2>9 DEF FreshInv
    <3>1. t \in avail /\ t \in toget
      BY <2>3, <2>6
    <3>2. t = cur /\ left[cur] = 1
      BY <2>9, <3>1
    <3> QED
      BY <2>3, <3>2
  <2>13. HdrInv'
    <3>1. Dng' <=> Dng
      BY <2>1 DEF Dng
    <3>2. SUFFICES ASSUME Dng PROVE /\ "raw" \notin toget' => "dng_hdr" \notin toget'
                                    /\ "dng_hdr" \notin toget' => hdr' = calls' + 1
      BY <3>1 DEF HdrInv
    <3>3. /\ "raw" \notin toget => "dng_hdr" \notin toget
          /\ "dng_hdr" \notin toget => hdr = calls + 1
      BY <1>1, <2>4, <3>2 DEF HdrInv
    <3> QED
      BY <2>1, <2>5, <2>6, <2>7, <2>9, <3>2, <3>3
  <2>14. PiecesInv'
    <3> SUFFICES ASSUME NEW t \in want
                 PROVE  IF t \in toget' THEN Partial(t)' ELSE Has(t, MaxChunks[t], 0)'
      BY <2>1 DEF PiecesInv
    <3>1. t \in Types /\ MaxChunks[t] \in Nat /\ (IF t \in toget THEN Partial(t) ELSE Has(t, MaxChunks[t], 0))
      BY <1>1, <2>4, Constants DEF PiecesInv
    <3>2. CASE t # cur
      <4>1. /\ (t \in toget' <=> t \in toget)
            /\ (t \in avail' <=> t \in avail)
            /\ UNCHANGED <<target, want, calls>> /\ left'[t] = left[t] /\ pieces'[t] = pieces[t]
        BY <2>1, <2>3, <2>9, <3>1, <3>2
      <4> QED
        BY <3>1, <4>1 DEF Partial, Has
    <3>3. CASE t = cur
      <4>1. PICK m \in {MaxChunks[cur], MaxChunks[cur] + 1} :
                left[cur] <= m /\ Has(cur, m, left[cur]) /\ (cur = "raw" => m = 1)
        BY <2>3, <2>5, <3>1, <3>3 DEF Partial
      <4>2. m \in Nat /\ pieces[cur] \in Seq(Nat \X Nat) /\ calls + 1 \in Nat
        <5>1. pieces \in [Types -> Seq(Nat \X Nat)]
          BY Parts DEF HostTyped
        <5>2. pieces[cur] \in Seq(Nat \X Nat)
          BY <2>3, <5>1
        <5>3. m \in Nat /\ calls + 1 \in Nat
          BY <1>1, <3>1, <3>3, <4>1
        <5> QED
          BY <5>2, <5>3
      <4>3. HasFrom(pieces'[cur], calls + 1, m, left[cur] - 1)
        BY <2>3, <2>6, <4>1, <4>2, HasMore DEF Has
      <4>4. CASE left[cur] = 1
        <5>1. HasFrom(pieces'[cur], calls + 1, m, 0)
          BY <4>3, <4>4
        <5>2. Len(pieces'[cur]) = m
          BY <4>2, <5>1 DEF HasFrom
        <5>3. m <= MaxChunks[cur]
          BY <2>1, <3>1, <3>3, <4>2, <5>2 DEF TooMany
        <5>4. m = MaxChunks[cur]
          BY <3>1, <3>3, <4>1, <5>3
        <5>5. cur \notin toget'
          BY <2>9, <4>4
        <5> QED
          BY <2>1, <3>3, <5>1, <5>4, <5>5 DEF Has
      <4>5. CASE left[cur] # 1
        <5>1. cur \in avail' /\ cur \in toget'
          BY <2>3, <2>5, <2>9, <4>5
        <5>2. left'[cur] <= m /\ HasFrom(pieces'[cur], calls' + 1, m, left'[cur]) /\ (cur = "raw" => m = 1)
          BY <2>1, <2>3, <4>1, <4>2, <4>3
        <5> QED
          BY <3>3, <4>1, <5>1, <5>2 DEF Partial, Has
      <4> QED
        BY <4>4, <4>5
    <3> QED
      BY <3>2, <3>3
  <2> QED
    BY <2>10, <2>11, <2>12, <2>13, <2>14 DEF DataInvs
<1> QED
  BY <1>2, <1>3

\* Every step keeps what is known of the data.
LEMMA DataNext ==
    ASSUME IInv, Next PROVE DataInvs'
<1>1. Host => DataInvs'
  BY DataOutsideStep, DataBeginStep, DataPollStep, DataChunkStep, DataCallDoneStep DEF Host
<1> QED
  BY <1>1, Steps, DataQuietStep, DataReadyStep, DataTimeoutStep

-----------------------------------------------------------------------------
\* The initial states.
LEMMA InitInv == Init => IInv
<1> SUFFICES ASSUME Init PROVE IInv
  OBVIOUS
<1>0. /\ mode \in Modes /\ want \in Wants
      /\ target = {} /\ held = "no" /\ hook = "off" /\ busy = FALSE /\ made = 0 /\ exp = 0
      /\ coming = {} /\ avail = {} /\ left = [t \in Types |-> 0]
      /\ scr = "off" /\ shots = 0 /\ lastexp = 0 /\ nextshot = FALSE /\ hooks \in {-1, 0}
      /\ inq = <<>> /\ outmsg = FALSE /\ hpc = "init" /\ calls = 0 /\ toget = {} /\ seen = {} /\ cur = "jpg"
      /\ pieces = [t \in Types |-> <<>>] /\ hdr = 0 /\ cmd = "x" /\ failed = FALSE /\ ret = "none"
      /\ cmds = 0 /\ faults = 0
  BY DEF Init
<1>1. N \in Nat \ {0} /\ MaxCmds \in Nat /\ MaxFaults \in Nat /\ want # {} /\ want \subseteq Types
  BY <1>0, Constants
<1>2. TypeOK
  <2>1. "jpg" \in Types
    BY Constants
  <2>2. <<>> \in Seq({"stop", "s", "l", "q", "x"}) /\ <<>> \in Seq(Nat \X Nat)
    OBVIOUS
  <2>3. [t \in Types |-> <<>>] \in [Types -> Seq(Nat \X Nat)] /\ [t \in Types |-> 0] \in [Types -> Nat]
    BY <2>2
  <2>4. 0 \in 0..0 /\ 0 \in -1..0 /\ -1 \in -1..0 /\ 0 \in Nat /\ 0 \in 0..N /\ 0 \in 0..(MaxCmds + 1)
        /\ 0 \in 0..MaxFaults /\ 0 <= N
    BY <1>1
  <2>5. OptionsTyped
    BY <1>0 DEF OptionsTyped
  <2>6. CameraTyped
    BY <1>0, <2>3, <2>4 DEF CameraTyped
  <2>7. ScriptTyped
    BY <1>0, <2>2, <2>4 DEF ScriptTyped
  <2>8. HostTyped
    BY <1>0, <2>1, <2>3, <2>4 DEF HostTyped
  <2>9. CountsTyped
    BY <1>0, <2>4 DEF CountsTyped
  <2> QED
    BY <2>5, <2>6, <2>7, <2>8, <2>9, TypeParts
<1>3. CameraInv
  BY <1>0 DEF CameraInv
<1>4. ScriptInv
  <2>1. mode \in {"full", "quick", "cont", "hook", "single", "intcont"}
    BY <1>0, Constants
  <2>2. "off" \in Places[mode]
    BY <2>1 DEF Places, Rsint
  <2> QED
    BY <1>0, <2>2 DEF ScriptInv
<1>5. ShotsInv
  BY <1>0, <1>1 DEF ShotsInv
<1>6. HostInv
  BY <1>0, <1>1 DEF HostInv, Open
<1>7. DataInv /\ WantInv /\ PiecesInv /\ FreshInv /\ HdrInv
  BY <1>0, <1>1 DEF DataInv, WantInv, PiecesInv, FreshInv, HdrInv, InCall
<1> QED
  BY <1>2, <1>3, <1>4, <1>5, <1>6, <1>7 DEF IInv

\* Every step keeps the invariant.
LEMMA StepInv == IInv /\ [Next]_vars => IInv'
<1> SUFFICES ASSUME IInv, [Next]_vars PROVE IInv'
  OBVIOUS
<1>1. CASE Next
  <2>1. OptionsTyped'
    BY <1>1, OptionsNext, Parts DEF OptionsTyped
  <2>2. TypeOK'
    BY <1>1, <2>1, CameraTypedNext, ScriptTypedNext, HostTypedNext, CountsTypedNext
       DEF TypeOK, OptionsTyped, CameraTyped, ScriptTyped, HostTyped, CountsTyped
  <2>3. CameraInv' /\ ScriptInv' /\ ShotsInv' /\ HostInv'
    BY <1>1, CameraNext, ScriptNext, ShotsNext, HostNext
  <2>4. DataInv' /\ WantInv' /\ PiecesInv' /\ FreshInv' /\ HdrInv'
    BY <1>1, DataNext DEF DataInvs
  <2> QED
    BY <2>2, <2>3, <2>4 DEF IInv
<1>2. CASE UNCHANGED vars
  <2>1. UNCHANGED <<mode, want, target, held, hook, busy, made, exp, coming, avail, left, scr, shots, lastexp, nextshot,
                    hooks, inq, outmsg, hpc, calls, toget, seen, cur, pieces, hdr, cmd, failed, ret, cmds, faults>>
    BY <1>2 DEF vars, camera, script, host, history
  <2>2. TypeOK'
    BY <2>1 DEF IInv, TypeOK
  <2>3. CameraInv' /\ ScriptInv' /\ ShotsInv' /\ HostInv'
    BY <2>1 DEF IInv, CameraInv, ScriptInv, ShotsInv, Pressed, HostInv, Open
  <2>4. (InCall' <=> InCall) /\ (Open' <=> Open) /\ (Dng' <=> Dng)
    BY <2>1 DEF InCall, Open, Dng
  <2>5. DataInv' /\ WantInv' /\ FreshInv' /\ HdrInv'
    BY <2>1, <2>4 DEF IInv, DataInv, WantInv, FreshInv, HdrInv
  <2>6. \A t \in want : (Partial(t) => Partial(t)') /\ (Has(t, MaxChunks[t], 0) => Has(t, MaxChunks[t], 0)')
    BY <2>1 DEF Partial, Has
  <2>7. PiecesInv'
    BY <2>1, <2>4, <2>6 DEF IInv, PiecesInv
  <2> QED
    BY <2>2, <2>3, <2>5, <2>7 DEF IInv
<1> QED
  BY <1>1, <1>2

\* The invariant holds in every reachable state.
LEMMA Invariant == Spec => []IInv
  BY InitInv, StepInv, PTL DEF Spec

\* The variables keep their types, and remoteshoot makes at most one call of
\* capture_get_data per shot (cli.lua remoteshoot's loop over opts.shots).
THEOREM RemoteShootTyped == Spec => []TypeOK
<1>1. IInv => TypeOK
  BY DEF IInv
<1> QED
  BY <1>1, Invariant, PTL

\* What a call has got of a type is the whole file, each chunk once and in order.
LEMMA GotWhole ==
    ASSUME IInv, InCall, NEW t \in Got
    PROVE  /\ ShotOf(t) = calls + 1
           /\ pieces[t] = [i \in 1..MaxChunks[t] |-> <<ShotOf(t), MaxChunks[t] - i>>]
<1>1. t \in want /\ t \in Types /\ t \notin toget
  BY Parts DEF Got
<1>2. MaxChunks[t] \in Nat \ {0} /\ pieces[t] \in Seq(Nat \X Nat) /\ calls \in Nat
  BY <1>1, Parts, Constants DEF HostTyped
<1>3. Has(t, MaxChunks[t], 0)
  BY <1>1, Parts DEF PiecesInv
<1>4. Len(pieces[t]) = MaxChunks[t] /\ \A i \in 1..MaxChunks[t] : pieces[t][i] = <<calls + 1, MaxChunks[t] - i>>
  BY <1>2, <1>3 DEF Has, HasFrom
<1>5. ShotOf(t) = calls + 1
  <2>1. 1 \in 1..MaxChunks[t]
    BY <1>2
  <2>2. pieces[t][1] = <<calls + 1, MaxChunks[t] - 1>>
    BY <1>4, <2>1
  <2> QED
    BY <2>2 DEF ShotOf
<1>6. DOMAIN pieces[t] = 1..MaxChunks[t]
  BY <1>2, <1>4
<1>7. pieces[t] = [i \in DOMAIN pieces[t] |-> pieces[t][i]]
  BY <1>2
<1>8. pieces[t] = [i \in 1..MaxChunks[t] |-> <<calls + 1, MaxChunks[t] - i>>]
  BY <1>4, <1>6, <1>7
<1> QED
  BY <1>5, <1>8

\* capture_get_data never returns a file that is cut off or mixed of two shots,
\* the k-th call gets the k-th shot, and a DNG's raw image the header of its own
\* shot, for any chunks, polls, faults and timeouts (chdku.lua capture_get_data).
THEOREM RemoteShootFilesWhole == Spec => []FilesWhole
<1>1. IInv => FilesWhole
  <2> SUFFICES ASSUME IInv PROVE FilesWhole
    OBVIOUS
  <2>1. ChunksWhole
    BY GotWhole DEF ChunksWhole
  <2>2. InStep
    <3> SUFFICES ASSUME InCall, NEW t \in Got
                 PROVE  ShotOf(t) = calls + 1 /\ (Dng /\ t = "raw" => hdr = calls + 1)
      BY DEF InStep
    <3>1. ShotOf(t) = calls + 1
      BY GotWhole
    <3>2. Dng /\ t = "raw" => hdr = calls + 1
      BY Parts DEF HdrInv, Got
    <3> QED
      BY <3>1, <3>2
  <2> QED
    BY <2>1, <2>2 DEF FilesWhole
<1> QED
  BY <1>1, Invariant, PTL

\* A command that reports nothing about uninit leaves no script, no button and no
\* capture behind, remoteshoot reports success only after all shots, and the
\* camera takes no more shots than asked for (rlibs.lua rs_shoot, rs_cleanup).
THEOREM RemoteShootCleaned == Spec => []Cleaned
<1>1. IInv => Cleaned
  <2> SUFFICES ASSUME IInv PROVE Cleaned
    OBVIOUS
  <2>1. NoExtra
    BY Parts DEF NoExtra, ShotsInv
  <2>2. ret \in {"ok", "err"} => scr = "off" /\ held = "no" /\ target = {} /\ avail = {}
    BY Parts DEF HostInv, ScriptInv, CameraInv
  <2>3. ret = "ok" /\ mode \notin Rsint => calls = N
    BY Parts DEF HostInv
  <2> QED
    BY <2>1, <2>2, <2>3 DEF Cleaned
<1> QED
  BY <1>1, Invariant, PTL
=============================================================================

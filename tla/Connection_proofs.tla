-------------------------- MODULE Connection_proofs --------------------------
(***************************************************************************)
(* Proofs about Connection for any set of cameras and any bounds.          *)
(***************************************************************************)
EXTENDS Connection, TLAPS

\* The wrapper goes on describing the camera the caller connected to until a
\* reconnect comes to another one; a reconnect that succeeded is a connection.
Kept ==
    /\ ~retried => ptpdev = known
    /\ result = "reconnected" => connected

\* The inductive invariant.
IInv == ConnectedIsOpen /\ InfoIsCurrent /\ Kept

-----------------------------------------------------------------------------
\* Nothing is connected when chdk.connection has made the object.
LEMMA InitIInv == Init => IInv
  BY DEF Init, IInv, ConnectedIsOpen, InfoIsCurrent, Kept

\* What con:connect does to the object, whichever way it ends: a connection
\* it opens is to the camera that is there, and the wrapper describes it.
LEMMA ConnectAsFacts ==
    ASSUME ConnectedIsOpen, InfoIsCurrent, NEW r, ConnectAs(r)
    PROVE  /\ ConnectedIsOpen' /\ InfoIsCurrent'
           /\ r \in {"connected", "no_version"} => ptpdev' = cam
           /\ r \notin {"connected", "no_version"} => ptpdev' = ptpdev
  <1>1. CASE connected \/ cam = NoCam
    BY <1>1 DEF ConnectAs, ConnectedIsOpen, InfoIsCurrent, object
  <1>2. CASE ~connected /\ cam # NoCam
    <2>1. CASE r \in {"connected", "no_version"} /\ Open(TRUE) /\ UpdateInfo
      <3>1. handle' = [plug |-> plug, cam |-> cam] /\ connected' = TRUE
        BY <2>1 DEF Open
      <3>2. handle'.cam = cam /\ NoHandle.cam = NoCam
        BY <3>1 DEF NoHandle
      <3> QED
        BY <2>1, <3>1, <3>2, <1>2 DEF UpdateInfo, ConnectedIsOpen, InfoIsCurrent, NoHandle
    <2>2. CASE r = "connect_fail" /\ Open(FALSE) /\ UNCHANGED ptpdev
      BY <2>2 DEF Open, ConnectedIsOpen, InfoIsCurrent
    <2> QED BY <1>2, <2>1, <2>2 DEF ConnectAs
  <1> QED BY <1>1, <1>2

\* con:connect keeps the invariant.
LEMMA ConnectIInv == IInv /\ Connect => IInv'
  <1> SUFFICES ASSUME IInv, Connect PROVE IInv'
    OBVIOUS
  <1>1. PICK r \in Outcomes :
           /\ ConnectAs(r) /\ result' = r
           /\ IF r \in {"connected", "no_version"}
              THEN known' = cam /\ retried' = FALSE
              ELSE UNCHANGED <<known, retried>>
    BY DEF Connect
  <1>2. r # "reconnected"
    BY DEF Outcomes
  <1> QED
    BY <1>1, <1>2, ConnectAsFacts DEF IInv, Kept

\* The end of con:reconnect keeps the invariant: a camera that is not the one
\* the wrapper described is disconnected, and counted as a failed attempt.
LEMMA ReconnectDoneIInv == IInv /\ ReconnectDone => IInv'
  <1> SUFFICES ASSUME IInv, ReconnectDone PROVE IInv'
    OBVIOUS
  <1>1. PICK r \in Outcomes :
        IF r # "connected"
        THEN /\ ConnectAs(r) /\ result' = r
             /\ retried' = (retried \/ r = "no_version")
        ELSE /\ ~connected /\ cam # NoCam /\ UNCHANGED <<script_id, faults>>
             /\ leaked' = leaked \cup ({handle.plug} \ {0})
             /\ ptpdev' = cam
             /\ IF ptpdev = NoCam \/ SameDevice(ptpdev, cam)
                THEN /\ handle' = [plug |-> plug, cam |-> cam] /\ connected' = TRUE
                     /\ result' = (IF ptpdev = NoCam THEN "nil_info" ELSE "reconnected")
                     /\ UNCHANGED retried
                ELSE /\ handle' = NoHandle /\ connected' = FALSE
                     /\ result' = "different" /\ retried' = TRUE
    BY DEF ReconnectDone
  <1>2. known' = (IF ptpdev = NoCam THEN ptpdev' ELSE known)
    BY DEF ReconnectDone
  <1>3. CASE r # "connected"
    <2>1. ConnectedIsOpen' /\ InfoIsCurrent'
      BY <1>1, <1>3, ConnectAsFacts DEF IInv
    <2>2. r # "no_version" => ptpdev' = ptpdev
      BY <1>1, <1>3, ConnectAsFacts DEF IInv
    <2>3. result' # "reconnected"
      BY <1>1, <1>3 DEF Outcomes
    <2>4. ~retried' => ptpdev' = known'
      BY <1>1, <1>2, <1>3, <2>2 DEF IInv, Kept
    <2> QED BY <2>1, <2>3, <2>4 DEF IInv, Kept
  <1>4. CASE r = "connected" /\ (ptpdev = NoCam \/ SameDevice(ptpdev, cam))
    <2>1. /\ handle' = [plug |-> plug, cam |-> cam] /\ connected' = TRUE
          /\ ptpdev' = cam /\ cam # NoCam /\ retried' = retried
      BY <1>1, <1>4
    <2>2. handle'.cam = cam /\ NoHandle.cam = NoCam
      BY <2>1 DEF NoHandle
    <2>3. ~retried' => ptpdev' = known'
      BY <1>2, <1>4, <2>1 DEF IInv, Kept, SameDevice
    <2> QED
      BY <2>1, <2>2, <2>3 DEF IInv, Kept, ConnectedIsOpen, InfoIsCurrent, NoHandle
  <1>5. CASE r = "connected" /\ ~(ptpdev = NoCam \/ SameDevice(ptpdev, cam))
    <2>1. connected' = FALSE /\ result' = "different" /\ retried' = TRUE
      BY <1>1, <1>5
    <2> QED BY <2>1 DEF IInv, Kept, ConnectedIsOpen, InfoIsCurrent
  <1> QED BY <1>3, <1>4, <1>5

\* Every step of the bus, of the caller and of the program's end keeps it.
LEMMA NextIInv == IInv /\ [Next]_vars => IInv'
  <1> SUFFICES ASSUME IInv, [Next]_vars PROVE IInv'
    OBVIOUS
  <1> USE DEF IInv, ConnectedIsOpen, InfoIsCurrent, Kept
  <1>1. ASSUME NEW c \in Cameras, Attach(c) PROVE IInv'
    BY <1>1 DEF Attach, object
  <1>2. CASE Detach
    BY <1>2 DEF Detach, object
  <1>3. CASE Connect
    BY <1>3, ConnectIInv
  <1>4. CASE Disconnect
    BY <1>4 DEF Disconnect, CloseConnection
  <1>5. CASE IsConnected
    BY <1>5 DEF IsConnected, Ask
  <1>6. CASE Reconnect
    BY <1>6 DEF Reconnect, CloseConnection
  <1>7. CASE ReconnectDone
    BY <1>7, ReconnectDoneIInv
  <1>8. CASE Exec
    BY <1>8 DEF Exec
  <1>9. CASE Exit
    BY <1>9 DEF Exit
  <1>10. CASE UNCHANGED vars
    BY <1>10 DEF vars, object
  <1> QED
    BY <1>1, <1>2, <1>3, <1>4, <1>5, <1>6, <1>7, <1>8, <1>9, <1>10 DEF Next

\* A connection in use never works on a handle that is closed, and the device
\* info of its wrapper is that of the camera the handle was opened on, in
\* whatever order devices vanish and connecting fails.
THEOREM ConnectedSound == Spec => []InUseSound
  <1>1. IInv => InUseSound
    BY DEF IInv, InUseSound
  <1> QED BY <1>1, InitIInv, NextIInv, PTL DEF Spec

\* A strict con:reconnect that succeeds before any has come to another camera
\* is to the camera of the last con:connect.
THEOREM ReconnectSound == Spec => []ReconnectKeeps
  <1>1. IInv => ReconnectKeeps
    BY DEF IInv, Kept, InfoIsCurrent, ReconnectKeeps
  <1> QED BY <1>1, InitIInv, NextIInv, PTL DEF Spec

-----------------------------------------------------------------------------
\* Enumerations are counted: every handle, forgotten ones too, is of one there
\* has been.
Counted ==
    /\ cam # NoCam => plug # 0
    /\ handle.plug <= plug
    /\ \A p \in leaked : p <= plug

\* As long as no camera has failed, a handle on the camera that is there is
\* one the object knows to be open; and the end of the program closes it.
Closing ==
    /\ (faults = 0 /\ cam # NoCam) => /\ plug \notin leaked
                                      /\ handle.plug = plug => connected
    /\ exited => ~connected /\ ~reconnecting

CInv == ConnectedIsOpen /\ TypeOK /\ Counted /\ Closing

\* What a handle is.
LEMMA HandleFields ==
    /\ NoHandle \in Handles /\ NoHandle.plug = 0
    /\ \A h \in Handles : h.plug \in 0..MaxPlugs /\ (h.plug = 0 <=> h = NoHandle)
    /\ \A c \in Cameras, n \in 1..MaxPlugs :
          [plug |-> n, cam |-> c] \in Handles /\ [plug |-> n, cam |-> c].plug = n
<1>1. MaxPlugs \in Nat
  BY BoundsAssumption
<1>2. NoHandle.plug = 0 /\ NoHandle \in Handles
  BY DEF NoHandle, Handles
<1>3. \A h \in Handles : h.plug \in 0..MaxPlugs /\ (h.plug = 0 <=> h = NoHandle)
  <2> SUFFICES ASSUME NEW h \in Handles PROVE h.plug \in 0..MaxPlugs /\ (h.plug = 0 <=> h = NoHandle)
    OBVIOUS
  <2>1. CASE h = NoHandle
    BY <1>1, <1>2, <2>1
  <2>2. CASE h \in [plug : 1..MaxPlugs, cam : Cameras]
    <3>1. h.plug \in 1..MaxPlugs
      BY <2>2
    <3> QED
      BY <1>1, <1>2, <3>1
  <2> QED
    BY <2>1, <2>2 DEF Handles
<1> QED
  BY <1>2, <1>3 DEF Handles

\* The invariant as plain facts about numbers.
LEMMA ObjectFacts ==
    ASSUME CInv
    PROVE  /\ plug \in 0..MaxPlugs /\ plug \in Nat /\ faults \in 0..MaxFaults /\ faults \in Nat
           /\ MaxPlugs \in Nat /\ MaxScripts \in Nat /\ MaxFaults \in Nat
           /\ handle \in Handles /\ handle.plug \in 0..MaxPlugs /\ handle.plug \in Nat
           /\ leaked \subseteq 1..MaxPlugs /\ (cam # NoCam => cam \in Cameras /\ plug \in 1..MaxPlugs)
           /\ connected => handle.plug # 0
<1>1. /\ plug \in 0..MaxPlugs /\ faults \in 0..MaxFaults /\ handle \in Handles
      /\ leaked \subseteq 1..MaxPlugs /\ cam \in Cameras \cup {NoCam}
  BY DEF CInv, TypeOK
<1>2. MaxPlugs \in Nat /\ MaxScripts \in Nat /\ MaxFaults \in Nat
  BY BoundsAssumption
<1>3. handle.plug \in 0..MaxPlugs /\ (handle.plug = 0 <=> handle = NoHandle)
  BY <1>1, HandleFields
<1>4. (cam # NoCam => plug # 0) /\ (connected => handle # NoHandle)
  BY DEF CInv, Counted, ConnectedIsOpen
<1> QED
  BY <1>1, <1>2, <1>3, <1>4

\* A call that keeps handles and the devices on the bus, and clears the flag only if
\* the camera has failed or is gone, keeps what is known of them.
LEMMA OpenKept ==
    ASSUME CInv, UNCHANGED bus, NEW h \in Handles, handle' = h,
           NEW n \in SUBSET (1..MaxPlugs), leaked' = n,
           faults' \in 0..MaxFaults, faults' = 0 => faults = 0,
           h = handle \/ h = NoHandle \/ (cam # NoCam /\ h.plug = plug),
           n = leaked \/ (n = leaked \cup ({handle.plug} \ {0}) /\ ~connected),
           connected' \in BOOLEAN,
           faults' = 0 /\ cam # NoCam /\ h.plug = plug => connected',
           exited' => ~connected' /\ ~reconnecting'
    PROVE  Counted' /\ Closing'
<1>1. UNCHANGED <<cam, plug, started>>
  BY DEF bus
<1>2. h.plug <= plug /\ \A p \in n : p <= plug
  BY ObjectFacts, HandleFields DEF CInv, Counted
<1>3. Counted'
  BY <1>1, <1>2 DEF CInv, Counted
<1>4. faults' = 0 /\ cam # NoCam => plug \notin n
  BY DEF CInv, Closing
<1> QED
  BY <1>1, <1>3, <1>4 DEF Closing

\* con:connect, in every outcome, keeps the handles known.
LEMMA ConnectAsKept ==
    ASSUME CInv, NEW r \in Outcomes, ConnectAs(r), UNCHANGED bus
    PROVE  /\ handle' \in Handles /\ leaked' \in SUBSET (1..MaxPlugs) /\ connected' \in BOOLEAN
           /\ ptpdev' \in Cameras \cup {NoCam} /\ script_id' = script_id
           /\ faults' \in 0..MaxFaults /\ (faults' = 0 => faults = 0)
           /\ handle' = handle \/ handle' = NoHandle \/ (cam # NoCam /\ handle'.plug = plug)
           /\ leaked' = leaked \/ (leaked' = leaked \cup ({handle.plug} \ {0}) /\ ~connected)
           /\ faults' = 0 /\ cam # NoCam /\ handle'.plug = plug => connected'
<1>1. /\ connected \in BOOLEAN /\ ptpdev \in Cameras \cup {NoCam}
      /\ (faults = 0 /\ cam # NoCam) => (handle.plug = plug => connected)
  BY DEF CInv, TypeOK, Closing
<1>2. CASE connected \/ cam = NoCam
  BY <1>1, <1>2, ObjectFacts DEF ConnectAs, object
<1>3. CASE ~connected /\ cam # NoCam
  <2> DEFINE h == [plug |-> plug, cam |-> cam]
  <2>1. h \in Handles /\ h.plug = plug /\ h.cam = cam
    BY <1>3, ObjectFacts, HandleFields
  <2>2. leaked \cup ({handle.plug} \ {0}) \in SUBSET (1..MaxPlugs)
    BY ObjectFacts
  <2>3. CASE Open(TRUE) /\ UpdateInfo /\ (UNCHANGED faults \/ Fault)
    <3>1. /\ handle' = h /\ connected' = TRUE /\ leaked' = leaked \cup ({handle.plug} \ {0})
          /\ script_id' = script_id /\ ptpdev' = handle'.cam
      BY <2>3 DEF Open, UpdateInfo
    <3>2. faults' \in 0..MaxFaults /\ (faults' = 0 => faults = 0)
      BY <2>3, ObjectFacts DEF Fault
    <3>3. ptpdev' \in Cameras
      BY <1>3, <2>1, <3>1, ObjectFacts
    <3> HIDE DEF h
    <3> QED
      BY <1>3, <2>1, <2>2, <3>1, <3>2, <3>3
  <2>4. CASE Open(FALSE) /\ UNCHANGED ptpdev /\ Fault
    <3>1. /\ handle' \in {h, NoHandle} /\ connected' = FALSE /\ script_id' = script_id
          /\ leaked' = leaked \cup ({handle.plug} \ {0}) /\ ptpdev' = ptpdev
      BY <2>4 DEF Open
    <3>2. faults' \in 0..MaxFaults /\ faults' # 0
      BY <2>4, ObjectFacts DEF Fault
    <3> HIDE DEF h
    <3> QED
      BY <1>1, <1>3, <2>1, <2>2, <3>1, <3>2, HandleFields
  <2> QED
    BY <1>3, <2>3, <2>4 DEF ConnectAs
<1> QED
  BY <1>2, <1>3

\* Closing gives the handle up, or keeps it when its camera is gone.
LEMMA CloseKept ==
    ASSUME CInv, IF connected THEN CloseCamera ELSE UNCHANGED handle
    PROVE  /\ handle' \in Handles /\ (handle' = handle \/ handle' = NoHandle)
           /\ ~(faults = 0 /\ cam # NoCam /\ handle'.plug = plug)
<1>1. handle' = handle \/ handle' = NoHandle
  BY DEF CloseCamera
<1>2. ASSUME faults = 0, cam # NoCam PROVE handle'.plug # plug
  <2>1. CASE connected
    BY <1>2, <2>1, ObjectFacts, HandleFields DEF CloseCamera
  <2>2. CASE ~connected
    BY <1>2, <2>2 DEF CInv, Closing
  <2> QED
    BY <2>1, <2>2
<1> QED
  BY <1>1, <1>2, ObjectFacts, HandleFields

\* Every step keeps the handles known.
LEMMA CStep == CInv /\ IInv' /\ [Next]_vars => CInv'
<1> SUFFICES ASSUME CInv, IInv', [Next]_vars PROVE CInv'
  OBVIOUS
<1>1. /\ plug \in 0..MaxPlugs /\ plug \in Nat /\ faults \in 0..MaxFaults /\ faults \in Nat
      /\ MaxPlugs \in Nat /\ MaxScripts \in Nat /\ MaxFaults \in Nat
      /\ handle \in Handles /\ handle.plug \in 0..MaxPlugs /\ handle.plug \in Nat
      /\ leaked \subseteq 1..MaxPlugs /\ (cam # NoCam => cam \in Cameras /\ plug \in 1..MaxPlugs)
  BY ObjectFacts
<1>2. /\ cam \in Cameras \cup {NoCam} /\ started \in [Cameras -> 0..MaxScripts] /\ connected \in BOOLEAN
      /\ ptpdev \in Cameras \cup {NoCam} /\ script_id \in 0..MaxScripts /\ known \in Cameras \cup {NoCam}
      /\ reconnecting \in BOOLEAN /\ retried \in BOOLEAN /\ exited \in BOOLEAN
  BY DEF CInv, TypeOK
<1>3. /\ cam # NoCam => plug # 0
      /\ handle.plug <= plug /\ \A p \in leaked : p <= plug
      /\ (faults = 0 /\ cam # NoCam) => plug \notin leaked /\ (handle.plug = plug => connected)
      /\ exited => ~connected /\ ~reconnecting
  BY DEF CInv, Counted, Closing
<1>4. ConnectedIsOpen'
  BY DEF IInv
<1> USE DEF Ready
<1>5. ASSUME NEW c \in Cameras, Attach(c) PROVE CInv'
  <2>1. /\ cam = NoCam /\ plug < MaxPlugs /\ cam' = c /\ plug' = plug + 1
        /\ started' \in {started, [started EXCEPT ![c] = 0]}
        /\ UNCHANGED <<connected, handle, leaked, ptpdev, script_id, reconnecting, known, retried, exited, faults>>
    BY <1>5 DEF Attach, object
  <2>2. plug' \in 0..MaxPlugs /\ plug' # 0 /\ plug' \notin leaked /\ handle.plug # plug'
        /\ handle.plug <= plug' /\ \A p \in leaked : p <= plug'
    BY <1>1, <1>3, <2>1
  <2>3. 0 \in 0..MaxScripts
    BY <1>1
  <2>4. TypeOK'
    BY <1>1, <1>2, <2>1, <2>2, <2>3 DEF TypeOK
  <2>5. Counted' /\ Closing'
    BY <1>3, <2>1, <2>2 DEF Counted, Closing
  <2> QED
    BY <1>4, <2>4, <2>5 DEF CInv
<1>6. CASE Detach
  <2>1. /\ cam' = NoCam
        /\ UNCHANGED <<plug, started, connected, handle, leaked, ptpdev, script_id, reconnecting, known,
                       retried, exited, faults>>
    BY <1>6 DEF Detach, object
  <2> QED
    BY <1>1, <1>2, <1>3, <1>4, <2>1 DEF CInv, TypeOK, Counted, Closing
<1>7. CASE Connect
  <2>1. PICK r \in Outcomes : ConnectAs(r)
    BY <1>7 DEF Connect
  <2>2. /\ ~exited /\ ~reconnecting /\ UNCHANGED <<bus, reconnecting, exited>>
        /\ known' \in {known, cam} /\ retried' \in {retried, FALSE}
    BY <1>7 DEF Connect
  <2>3. /\ handle' \in Handles /\ leaked' \in SUBSET (1..MaxPlugs) /\ connected' \in BOOLEAN
        /\ ptpdev' \in Cameras \cup {NoCam} /\ script_id' = script_id
        /\ faults' \in 0..MaxFaults /\ (faults' = 0 => faults = 0)
        /\ handle' = handle \/ handle' = NoHandle \/ (cam # NoCam /\ handle'.plug = plug)
        /\ leaked' = leaked \/ (leaked' = leaked \cup ({handle.plug} \ {0}) /\ ~connected)
        /\ faults' = 0 /\ cam # NoCam /\ handle'.plug = plug => connected'
    BY <2>1, <2>2, ConnectAsKept
  <2>4. Counted' /\ Closing'
    BY <2>2, <2>3, OpenKept
  <2>5. TypeOK'
    BY <1>1, <1>2, <2>2, <2>3 DEF TypeOK, bus
  <2> QED
    BY <1>4, <2>4, <2>5 DEF CInv
<1>8. CASE Disconnect
  <2>1. /\ IF connected THEN CloseCamera ELSE UNCHANGED handle
        /\ ~exited /\ connected' = FALSE
        /\ UNCHANGED <<leaked, ptpdev, script_id, bus, reconnecting, known, retried, exited, faults>>
    BY <1>8 DEF Disconnect, CloseConnection
  <2>2. /\ handle' \in Handles /\ (handle' = handle \/ handle' = NoHandle)
        /\ ~(faults = 0 /\ cam # NoCam /\ handle'.plug = plug)
    BY <2>1, CloseKept
  <2>3. Counted' /\ Closing'
    BY <1>1, <2>1, <2>2, OpenKept
  <2>4. TypeOK'
    BY <1>1, <1>2, <2>1, <2>2 DEF TypeOK, bus
  <2> QED
    BY <1>4, <2>3, <2>4 DEF CInv
<1>9. ASSUME NEW ans \in BOOLEAN, Ask(ans)
      PROVE  /\ faults' \in 0..MaxFaults /\ (faults' = 0 => faults = 0)
             /\ ~ans /\ faults' = 0 => ~(cam # NoCam /\ handle.plug = plug)
  <2>1. CASE ans = (connected /\ Alive) /\ UNCHANGED faults
    <3>1. ~ans /\ faults = 0 /\ cam # NoCam => handle.plug # plug
      BY <1>1, <1>3, <2>1, HandleFields DEF Alive
    <3> QED
      BY <1>1, <2>1, <3>1
  <2>2. CASE Fault
    BY <1>1, <2>2 DEF Fault
  <2> QED
    BY <1>9, <2>1, <2>2 DEF Ask
<1>10. CASE IsConnected
  <2>1. PICK ans \in BOOLEAN : Ask(ans) /\ connected' = ans
    BY <1>10 DEF IsConnected
  <2>2. ~exited /\ UNCHANGED <<bus, handle, leaked, ptpdev, script_id, reconnecting, known, retried, exited>>
    BY <1>10 DEF IsConnected
  <2>3. faults' \in 0..MaxFaults /\ (faults' = 0 => faults = 0)
        /\ (faults' = 0 /\ cam # NoCam /\ handle.plug = plug => connected')
    BY <1>9, <2>1
  <2>4. Counted' /\ Closing'
    BY <1>1, <2>1, <2>2, <2>3, OpenKept
  <2>5. TypeOK'
    BY <1>1, <1>2, <2>1, <2>2, <2>3 DEF TypeOK, bus
  <2> QED
    BY <1>4, <2>4, <2>5 DEF CInv
<1>11. CASE Reconnect
  <2>1. PICK ans \in BOOLEAN :
           /\ Ask(ans)
           /\ IF ans THEN CloseConnection
              ELSE connected' = FALSE /\ UNCHANGED <<handle, leaked, ptpdev, script_id>>
    BY <1>11 DEF Reconnect
  <2>2. ~exited /\ reconnecting' = TRUE /\ UNCHANGED <<bus, known, retried, exited>>
    BY <1>11 DEF Reconnect
  <2>3. connected' = FALSE /\ UNCHANGED <<leaked, ptpdev, script_id>>
    BY <2>1 DEF CloseConnection
  <2>4. /\ handle' \in Handles /\ (handle' = handle \/ handle' = NoHandle)
        /\ faults' \in 0..MaxFaults /\ (faults' = 0 => faults = 0)
        /\ ~(faults' = 0 /\ cam # NoCam /\ handle'.plug = plug)
    <3>1. CASE ans
      BY <1>9, <2>1, <3>1, CloseKept DEF CloseConnection
    <3>2. CASE ~ans
      BY <1>1, <1>9, <2>1, <3>2
    <3> QED
      BY <3>1, <3>2
  <2>5. Counted' /\ Closing'
    BY <1>1, <2>2, <2>3, <2>4, OpenKept
  <2>6. TypeOK'
    BY <1>1, <1>2, <2>2, <2>3, <2>4 DEF TypeOK, bus
  <2> QED
    BY <1>4, <2>5, <2>6 DEF CInv
<1>12. CASE ReconnectDone
  <2>1. reconnecting /\ ~exited /\ reconnecting' = FALSE /\ UNCHANGED <<bus, exited>>
        /\ known' \in {ptpdev', known}
    BY <1>3, <1>12 DEF ReconnectDone
  <2>2. /\ handle' \in Handles /\ leaked' \in SUBSET (1..MaxPlugs) /\ connected' \in BOOLEAN
        /\ ptpdev' \in Cameras \cup {NoCam} /\ script_id' = script_id /\ retried' \in BOOLEAN
        /\ faults' \in 0..MaxFaults /\ (faults' = 0 => faults = 0)
        /\ handle' = handle \/ handle' = NoHandle \/ (cam # NoCam /\ handle'.plug = plug)
        /\ leaked' = leaked \/ (leaked' = leaked \cup ({handle.plug} \ {0}) /\ ~connected)
        /\ faults' = 0 /\ cam # NoCam /\ handle'.plug = plug => connected'
    <3>1. CASE \E r \in Outcomes : ConnectAs(r) /\ retried' = (retried \/ r = "no_version")
      BY <1>2, <2>1, <3>1, ConnectAsKept
    <3>2. CASE /\ ~connected /\ cam # NoCam /\ UNCHANGED <<script_id, faults>>
               /\ leaked' = leaked \cup ({handle.plug} \ {0}) /\ ptpdev' = cam
               /\ \/ handle' = [plug |-> plug, cam |-> cam] /\ connected' = TRUE /\ retried' = retried
                  \/ handle' = NoHandle /\ connected' = FALSE /\ retried' = TRUE
      <4>1. [plug |-> plug, cam |-> cam] \in Handles /\ [plug |-> plug, cam |-> cam].plug = plug
        BY <1>1, <3>2, HandleFields
      <4>2. NoHandle \in Handles /\ NoHandle.plug # plug
        BY <1>1, <3>2, HandleFields
      <4>3. /\ handle' \in Handles /\ (handle' = NoHandle \/ handle'.plug = plug)
            /\ connected' \in BOOLEAN /\ retried' \in BOOLEAN
            /\ handle'.plug = plug => connected'
        BY <1>2, <3>2, <4>1, <4>2
      <4>4. leaked' \in SUBSET (1..MaxPlugs)
        <5>1. leaked \cup ({handle.plug} \ {0}) \in SUBSET (1..MaxPlugs)
          BY ObjectFacts
        <5> QED
          BY <3>2, <5>1
      <4>5. ptpdev' \in Cameras \cup {NoCam} /\ script_id' = script_id /\ faults' = faults
        BY <1>1, <3>2
      <4> QED
        BY <1>1, <3>2, <4>3, <4>4, <4>5
    <3>3. PICK r \in Outcomes :
             IF r # "connected"
             THEN ConnectAs(r) /\ retried' = (retried \/ r = "no_version")
             ELSE /\ ~connected /\ cam # NoCam /\ UNCHANGED <<script_id, faults>>
                  /\ leaked' = leaked \cup ({handle.plug} \ {0}) /\ ptpdev' = cam
                  /\ \/ handle' = [plug |-> plug, cam |-> cam] /\ connected' = TRUE /\ retried' = retried
                     \/ handle' = NoHandle /\ connected' = FALSE /\ retried' = TRUE
      <4>1. PICK r \in Outcomes :
               IF r # "connected"
               THEN /\ ConnectAs(r) /\ result' = r
                    /\ retried' = (retried \/ r = "no_version")
               ELSE /\ ~connected /\ cam # NoCam /\ UNCHANGED <<script_id, faults>>
                    /\ leaked' = leaked \cup ({handle.plug} \ {0})
                    /\ ptpdev' = cam
                    /\ IF ptpdev = NoCam \/ SameDevice(ptpdev, cam)
                       THEN /\ handle' = [plug |-> plug, cam |-> cam] /\ connected' = TRUE
                            /\ result' = (IF ptpdev = NoCam THEN "nil_info" ELSE "reconnected")
                            /\ UNCHANGED retried
                       ELSE /\ handle' = NoHandle /\ connected' = FALSE
                            /\ result' = "different" /\ retried' = TRUE
        BY <1>12 DEF ReconnectDone
      <4> QED
        BY <4>1
    <3> QED
      BY <3>1, <3>2, <3>3
  <2>3. Counted' /\ Closing'
    BY <2>1, <2>2, OpenKept
  <2>4. TypeOK'
    BY <1>1, <1>2, <2>1, <2>2 DEF TypeOK, bus
  <2> QED
    BY <1>4, <2>3, <2>4 DEF CInv
<1>13. CASE Exec
  <2>1. /\ ~exited /\ ~reconnecting /\ connected
        /\ UNCHANGED <<cam, plug, connected, handle, leaked, ptpdev, reconnecting, known, retried, exited, faults>>
    BY <1>13 DEF Exec
  <2>2. started' \in [Cameras -> 0..MaxScripts] /\ script_id' \in 0..MaxScripts
    <3>1. CASE Alive
      <4>1. cam \in Cameras /\ started[cam] \in 0..MaxScripts
        BY <1>1, <1>2, <3>1 DEF Alive
      <4>2. /\ started[cam] < MaxScripts /\ started' = [started EXCEPT ![cam] = started[cam] + 1]
            /\ script_id' = started[cam] + 1
        BY <1>13, <3>1 DEF Exec
      <4>3. started[cam] + 1 \in 0..MaxScripts
        BY <1>1, <4>1, <4>2
      <4> QED
        BY <1>2, <4>2, <4>3
    <3>2. CASE ~Alive
      BY <1>1, <1>2, <1>13, <3>2 DEF Exec
    <3> QED
      BY <3>1, <3>2
  <2>3. TypeOK'
    BY <1>1, <1>2, <2>1, <2>2 DEF TypeOK
  <2> QED
    BY <1>3, <1>4, <2>1, <2>3 DEF CInv, Counted, Closing
<1>14. CASE Exit
  <2>1. /\ IF connected THEN CloseCamera ELSE UNCHANGED handle
        /\ ~reconnecting /\ connected' = FALSE /\ exited' = TRUE
        /\ UNCHANGED <<leaked, ptpdev, script_id, bus, reconnecting, known, retried, faults>>
    BY <1>14 DEF Exit
  <2>2. /\ handle' \in Handles /\ (handle' = handle \/ handle' = NoHandle)
        /\ ~(faults = 0 /\ cam # NoCam /\ handle'.plug = plug)
    BY <2>1, CloseKept
  <2>3. Counted' /\ Closing'
    BY <1>1, <2>1, <2>2, OpenKept
  <2>4. TypeOK'
    BY <1>1, <1>2, <2>1, <2>2 DEF TypeOK, bus
  <2> QED
    BY <1>4, <2>3, <2>4 DEF CInv
<1>15. CASE UNCHANGED vars
  <2>1. UNCHANGED <<cam, plug, started, connected, handle, leaked, ptpdev, script_id, reconnecting, known,
                    retried, exited, faults>>
    BY <1>15 DEF vars, bus, object
  <2> QED
    BY <1>1, <1>2, <1>3, <1>4, <2>1 DEF CInv, TypeOK, Counted, Closing
<1> QED
  BY <1>5, <1>6, <1>7, <1>8, <1>10, <1>11, <1>12, <1>13, <1>14, <1>15 DEF Next

\* No handle, no camera and no program's end yet.
LEMMA CInit == Init => CInv
<1> SUFFICES ASSUME Init PROVE CInv
  OBVIOUS
<1>1. MaxPlugs \in Nat /\ MaxScripts \in Nat /\ MaxFaults \in Nat
  BY BoundsAssumption
<1>2. 0 \in 0..MaxScripts /\ handle \in Handles /\ handle.plug = 0
  BY <1>1, HandleFields DEF Init
<1>3. started \in [Cameras -> 0..MaxScripts] /\ leaked \subseteq 1..MaxPlugs
  BY <1>1, <1>2 DEF Init
<1>4. TypeOK
  <2>1. plug \in 0..MaxPlugs /\ script_id \in 0..MaxScripts /\ faults \in 0..MaxFaults
    BY <1>1 DEF Init
  <2>2. /\ cam \in Cameras \cup {NoCam} /\ ptpdev \in Cameras \cup {NoCam} /\ known \in Cameras \cup {NoCam}
        /\ connected \in BOOLEAN /\ reconnecting \in BOOLEAN /\ retried \in BOOLEAN /\ exited \in BOOLEAN
    BY DEF Init
  <2> QED
    BY <1>2, <1>3, <2>1, <2>2 DEF TypeOK
<1>5. Counted /\ Closing /\ ConnectedIsOpen
  BY <1>2 DEF Init, Counted, Closing, ConnectedIsOpen
<1> QED
  BY <1>4, <1>5 DEF CInv

\* Each variable keeps its type, for any cameras and bounds.
THEOREM ConnectionTyped == Spec => []TypeOK
<1>1. CInv => TypeOK
  BY DEF CInv
<1> QED
  BY <1>1, CInit, CStep, InitIInv, NextIInv, PTL DEF Spec

\* The collector closes at the program's end what the program has left open on
\* a camera that is still there, unless the camera has failed, however often
\* connections were made, checked, lost and given up.
THEOREM ExitCloses == Spec => []ExitClosesAll
<1>1. CInv => ExitClosesAll
  BY DEF CInv, Counted, Closing, ExitClosesAll
<1> QED
  BY <1>1, CInit, CStep, InitIInv, NextIInv, PTL DEF Spec
=============================================================================

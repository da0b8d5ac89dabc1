----------------------------- MODULE Connection -----------------------------
(***************************************************************************)
(* One USB connection object: the userdata of chdkptp.c (its connected     *)
(* flag, its device handle, the last script id) with its wrapper in        *)
(* chdku.lua (what it knows of the camera), while cameras come and go on   *)
(* the bus and device number the object stands for.                        *)
(*                                                                         *)
(* An action is a call from Lua; the transactions in it are UsbSession's.  *)
(* A handle is named by the enumeration of the device it was opened on:    *)
(* when the device is gone, or another one has taken its place, the handle *)
(* still has to be closed, but nothing answers on it.                      *)
(***************************************************************************)
EXTENDS Integers

CONSTANTS
    Cameras,     \* cameras that may be plugged in; no two look the same
    NoCam,       \* no camera, and a wrapper without device info
    MaxPlugs,    \* bound on the enumerations
    MaxScripts,  \* bound on the scripts a camera starts
    MaxFaults    \* bound on failures of a camera that is there

ASSUME CamerasAssumption == NoCam \notin Cameras
ASSUME BoundsAssumption  == MaxPlugs \in Nat /\ MaxScripts \in Nat /\ MaxFaults \in Nat

VARIABLES
    cam,        \* the camera plugged in, or NoCam
    plug,       \* number of its enumeration, or of the last one
    started,    \* scripts each camera has started since it booted
    connected,  \* ptp_cs->connected
    handle,     \* ptp_cs->usb.handle if it is open, else NoHandle
    leaked,     \* enumerations with a handle that is open but forgotten
    ptpdev,     \* con.ptpdev and con.condev: the camera they describe
    script_id,  \* ptp_cs->script_id
    reconnecting, \* whether reconnect sleeps between disconnect and connect
    result,     \* result of the last call
    known,      \* history: the camera of the last con:connect, or the first
                \* that was ever connected
    retried,    \* history: whether a reconnect has since come to a camera and failed
    exited,     \* whether the program has ended
    faults

bus    == <<cam, plug, started>>
object == <<connected, handle, leaked, ptpdev, script_id>>
vars   == <<bus, object, reconnecting, result, known, retried, exited, faults>>

NoHandle == [plug |-> 0, cam |-> NoCam]

\* Whether something answers on the handle.
Alive == handle # NoHandle /\ cam # NoCam /\ handle.plug = plug

Fault == faults < MaxFaults /\ faults' = faults + 1

Ready == ~exited /\ ~reconnecting

-----------------------------------------------------------------------------
\* The bus.  A camera that comes back may have been switched off and on.
Attach(c) ==
    /\ cam = NoCam /\ plug < MaxPlugs
    /\ cam' = c /\ plug' = plug + 1
    /\ started' \in {started, [started EXCEPT ![c] = 0]}
    /\ UNCHANGED <<object, reconnecting, result, known, retried, exited, faults>>

Detach ==
    /\ cam # NoCam
    /\ cam' = NoCam
    /\ UNCHANGED <<plug, started, object, reconnecting, result, known, retried,
                   exited, faults>>

-----------------------------------------------------------------------------
\* close_camera_usb: without a device at this bus and number it gives up.
\* Closing does not depend on the session being closed.
CloseCamera == handle' = IF cam = NoCam THEN handle ELSE NoHandle

\* Faulty variant: the flag is not cleared.
CloseConnection_KeepFlag ==
    /\ IF connected THEN CloseCamera ELSE UNCHANGED handle
    /\ UNCHANGED <<connected, leaked, ptpdev, script_id>>

\* Faulty variant: the flag is cleared before it is looked at.
CloseConnection_FlagFirst ==
    connected' = FALSE /\ UNCHANGED <<handle, leaked, ptpdev, script_id>>

\* close_connection.
CloseConnection ==
    /\ IF connected THEN CloseCamera ELSE UNCHANGED handle
    /\ connected' = FALSE
    /\ UNCHANGED <<leaked, ptpdev, script_id>>

\* open_camera_dev_usb, on a device that is there: a handle that was never
\* closed is overwritten.  When OpenSession has failed twice the new one stays
\* open, when GetDeviceInfo fails it is closed.
Open(ok) ==
    /\ leaked' = leaked \cup ({handle.plug} \ {0})
    /\ connected' = ok
    /\ handle' \in IF ok THEN {[plug |-> plug, cam |-> cam]}
                         ELSE {[plug |-> plug, cam |-> cam], NoHandle}
    /\ UNCHANGED script_id

\* Faulty variant: keeps the device info it had.
UpdateInfo_Once == ptpdev' = IF ptpdev = NoCam THEN handle'.cam ELSE ptpdev

\* update_connection_info: the device info GetDeviceInfo has brought.
UpdateInfo == ptpdev' = handle'.cam

\* con:connect, low level and wrapper, with its result r.  When the camera's
\* version cannot be read it throws and leaves the connection open.
ConnectAs(r) ==
    CASE connected -> r = "connect_connected" /\ UNCHANGED <<object, faults>>
      [] ~connected /\ cam = NoCam -> r = "connect_no_dev" /\ UNCHANGED <<object, faults>>
      [] OTHER ->
            \/ r = "connected" /\ Open(TRUE) /\ UpdateInfo /\ UNCHANGED faults
            \/ r = "no_version" /\ Open(TRUE) /\ UpdateInfo /\ Fault
            \/ r = "connect_fail" /\ Open(FALSE) /\ UNCHANGED ptpdev /\ Fault

Outcomes == {"connected", "no_version", "connect_fail", "connect_connected", "connect_no_dev"}

Connect ==
    /\ Ready
    /\ \E r \in Outcomes :
        /\ ConnectAs(r)
        /\ result' = r
        /\ IF r \in {"connected", "no_version"}
           THEN known' = cam /\ retried' = FALSE
           ELSE UNCHANGED <<known, retried>>
    /\ UNCHANGED <<bus, reconnecting, exited>>

Disconnect ==
    /\ Ready
    /\ CloseConnection
    /\ result' = "disconnected"
    /\ UNCHANGED <<bus, reconnecting, known, retried, exited, faults>>

\* chdk_is_connected: asks the device, and clears the flag if it does not
\* answer OK.  The handle stays open.  ans is the answer.
Ask(ans) ==
    \/ ans = (connected /\ Alive) /\ UNCHANGED faults
    \/ ans = FALSE /\ connected /\ Alive /\ Fault

IsConnected ==
    /\ Ready
    /\ \E ans \in BOOLEAN : Ask(ans) /\ connected' = ans
    /\ result' = "checked"
    /\ UNCHANGED <<bus, handle, leaked, ptpdev, script_id, reconnecting, known, retried,
                   exited>>

\* con:reconnect up to its sleep: is_connected, then disconnect if it is.
Reconnect ==
    /\ Ready
    /\ \E ans \in BOOLEAN :
        /\ Ask(ans)
        /\ IF ans THEN CloseConnection
           ELSE connected' = FALSE /\ UNCHANGED <<handle, leaked, ptpdev, script_id>>
    /\ reconnecting' = TRUE /\ result' = "none"
    /\ UNCHANGED <<bus, known, retried, exited>>

\* Faulty variant: any device will do.
SameDevice_Any(old, new) == TRUE

\* Model, serial number and product id are compared.
SameDevice(old, new) == old = new

\* con:reconnect from the end of its sleep: connect, then compare with the
\* device info from before, and disconnect from another device.  A wrapper
\* that never had device info makes the comparison an error.
ReconnectDone ==
    /\ reconnecting /\ reconnecting' = FALSE
    /\ \E r \in Outcomes :
        IF r # "connected"
        THEN /\ ConnectAs(r) /\ result' = r
             /\ retried' = (retried \/ r = "no_version")
        ELSE /\ ~connected /\ cam # NoCam /\ UNCHANGED <<script_id, faults>>
             /\ leaked' = leaked \cup ({handle.plug} \ {0})
             /\ ptpdev' = cam
             /\ IF ptpdev = NoCam \/ SameDevice(ptpdev, cam)
                THEN /\ handle' = [plug |-> plug, cam |-> cam] /\ connected' = TRUE
                     /\ result' = (IF ptpdev = NoCam THEN "nil_info" ELSE "reconnected")
                     /\ UNCHANGED retried
                ELSE /\ handle' = NoHandle /\ connected' = FALSE
                     /\ result' = "different" /\ retried' = TRUE
    /\ known' = (IF ptpdev = NoCam THEN ptpdev' ELSE known)
    /\ UNCHANGED <<bus, exited>>

\* Faulty variant: the id is not taken from the camera's response.
Exec_Count ==
    /\ Ready /\ connected
    /\ IF Alive /\ started[cam] < MaxScripts
       THEN started' = [started EXCEPT ![cam] = @ + 1] /\ result' = "exec"
       ELSE UNCHANGED started /\ result' = "io"
    /\ script_id' = script_id + 1
    /\ UNCHANGED <<cam, plug, connected, handle, leaked, ptpdev, reconnecting, known,
                   retried, exited, faults>>

\* con:execlua: the camera gives the script's id, a failure resets it.
Exec ==
    /\ Ready /\ connected
    /\ IF Alive
       THEN /\ started[cam] < MaxScripts
            /\ started' = [started EXCEPT ![cam] = @ + 1]
            /\ script_id' = started[cam] + 1 /\ result' = "exec"
       ELSE script_id' = 0 /\ result' = "io" /\ UNCHANGED started
    /\ UNCHANGED <<cam, plug, connected, handle, leaked, ptpdev, reconnecting, known,
                   retried, exited, faults>>

\* The end of the program: lua_close collects the object and frees it.
Exit ==
    /\ Ready
    /\ IF connected THEN CloseCamera ELSE UNCHANGED handle
    /\ exited' = TRUE /\ connected' = FALSE /\ result' = "exited"
    /\ UNCHANGED <<bus, leaked, ptpdev, script_id, reconnecting, known, retried, faults>>

Init ==
    /\ cam = NoCam /\ plug = 0 /\ started = [c \in Cameras |-> 0]
    /\ connected = FALSE /\ handle = NoHandle /\ leaked = {}
    /\ ptpdev = NoCam /\ script_id = 0
    /\ reconnecting = FALSE /\ result = "none" /\ known = NoCam /\ retried = FALSE
    /\ exited = FALSE /\ faults = 0

Next ==
    \/ \E c \in Cameras : Attach(c)
    \/ Detach
    \/ Connect \/ Disconnect \/ IsConnected \/ Reconnect \/ ReconnectDone
    \/ Exec \/ Exit

Spec == Init /\ [][Next]_vars

-----------------------------------------------------------------------------
Handles == {NoHandle} \cup [plug : 1..MaxPlugs, cam : Cameras]

TypeOK ==
    /\ cam \in Cameras \cup {NoCam} /\ plug \in 0..MaxPlugs
    /\ started \in [Cameras -> 0..MaxScripts]
    /\ connected \in BOOLEAN /\ handle \in Handles /\ leaked \subseteq 1..MaxPlugs
    /\ ptpdev \in Cameras \cup {NoCam} /\ script_id \in 0..MaxScripts
    /\ known \in Cameras \cup {NoCam}
    /\ reconnecting \in BOOLEAN /\ retried \in BOOLEAN /\ exited \in BOOLEAN
    /\ faults \in 0..MaxFaults

ConnectedIsOpen == connected => handle # NoHandle

InfoIsCurrent == connected => ptpdev = handle.cam

\* A connection in use never works on a closed handle, and the device info of its
\* wrapper is that of the camera the handle was opened on, in whatever order
\* devices vanish, flags are cleared, handles are closed or given up and connects
\* fail half way.
InUseSound == ConnectedIsOpen /\ InfoIsCurrent

\* A reconnect that succeeds, and none has failed at a camera before, is to the camera of the last
\* con:connect, whatever was plugged in meanwhile.
ReconnectKeeps == (result = "reconnected" /\ ~retried) => handle.cam = known

\* "gc takes care of any open connections": once the program has ended,
\* nothing it opened on a camera that is still there is left open, if that
\* camera has never failed.
ExitClosesAll ==
    (exited /\ faults = 0 /\ cam # NoCam) => plug \notin leaked \cup {handle.plug}
=============================================================================

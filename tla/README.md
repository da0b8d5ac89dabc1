# A TLA+ verification of chdkptp

chdkptp is a PTP client for Canon cameras that run CHDK. A C core talks PTP over
libusb or TCP and is exposed to Lua; Lua code on top of it runs scripts on the
camera, moves files and images, drives several cameras at once, and offers a
command line and a GUI. This directory models the parts where order, failure and
concurrency matter, checks them with TLC, and proves the central facts with TLAPS.

## 1. Inventory

| part | source | state it keeps | operations | what is hard |
|---|---|---|---|---|
| Transport buffer | `ptp.c` 83-167, 463-520, `ptp.h` 787 | `pkt_buf` (data, pos, len) | buffered control reads, payload reads | any mix of reads, short reads and failures has to keep byte order |
| USB session | `ptp.c` 524-773, `chdkptp.c` 528-970 | session and transaction ids, endpoints, `connected` | transactions, open, close, reset | early returns leave containers in the pipe; recovery after a crash |
| PTP/IP session | `ptp.c` 170-460, `chdkptp.c` 297-523, 668-700 | two sockets, `connected`, connection id | init handshake, transactions, close | data packets of any length; failures half way; reads without a timeout |
| Methods that carry data | `ptp.c` 1082-2333, `chdkptp.c` 1300-1643, 2229 | none but the buffers of the call | upload, download, getmem, live data, capture chunks | who decides a length: the caller, the response or the data; whatever was received before an error |
| Connection object | `chdkptp.c` 826-1296, 1952, `chdku.lua` 1730-1792 | `connected`, handle, `script_id`, device info | connect, disconnect, is_connected, reconnect, gc | devices vanish and are replaced; three copies of "connected" |
| Script execution | `chdku.lua` 854-1207, 1656 | `script_id`, camera's queues | exec, wait, messages | every look at the camera is out of date when it is used |
| Remote capture | `chdku.lua` 1210-1640, `cli.lua` 2332-2640, `rlibs.lua` 1502-1796 | types still to get, files; the script's shot counter and buttons | remoteshoot, capture_get_data and handlers, rs_shoot | data of several types in any order, in chunks; host, script and camera each give up by a clock of their own |
| Interactive remote shoot | `rsint.lua` | host loop, script on the camera | commands, images | two loops that time out independently |
| Multicam | `multicam.lua` | ids, selection, sync times | commands to many cameras, status messages | late answers, failures of some cameras, exchanging ids |
| GUI, scheduler | `gui*.lua` | coroutine of the command line, pending jobs | callbacks, timers | callbacks between two steps of a command |
| Live view images | `liveimg.c` | images handed in again for the next frame | viewport, overlay, packing | three layouts of pixels, buffers with margins, five palettes, stale images, offsets from the camera |
| Buffers, raw images | `lbuf.c`, `rawimg.c` | bytes, and images bound to them | get, set, fill, convert, patch | pixels that span bytes, unsigned bounds, work in place |
| PTP data sets | `ptp-pack.c`, `chdkptp.c` 1813-2203 | none | unpacking, packing | offsets that depend on every string and array before them |
| Files, text | `dng.lua`, `varsubst.lua`, `fsutil.lua`, `properties.c` | none | formats and names | not modelled |

The parts meet in the connection object. Lua calls a C function; the C function
makes one PTP transaction; the transaction reads through the packet buffer. There
are no threads. Concurrency is between host and camera (and the camera's user),
between the bus and the program, and, in the GUI, between the coroutine of the
command line and the callbacks that run while it sleeps.

`PROJECT.json` has the list of components, with those that are not modelled and
why, and the list of hazards, each with the properties aimed at it.

## 2. Modules

| module | models | composed with |
|---|---|---|
| `ByteStream` | the promise of the transport: bytes in order, each at most once | abstract specification |
| `TransportBuffer` | the packet buffer and the reads through it | refines `ByteStream` |
| `TransportBuffer_proofs` | theorems | extends `TransportBuffer` |
| `UsbSession` | transactions, open and close against the responder in the camera | takes whole containers from a transport that `TransportBuffer` justifies |
| `UsbSession_proofs` | theorems | extends `UsbSession` |
| `Connection` | the connection object on a bus with cameras coming and going | its calls are the sequences of `UsbSession` |
| `Connection_proofs` | theorems | extends `Connection` |
| `ScriptExec` | con:exec, messages, the camera's script engine, GUI callbacks | one action per transaction; how those fail is in `UsbSession` |
| `ScriptExec_proofs` | theorems | extends `ScriptExec` |
| `Multicam` | host and cameras of `multicam.lua` | starting a script is one action here and many in `ScriptExec`; transactions are atomic or fail, as `UsbSession` has it |
| `Multicam_proofs` | theorems | extends `Multicam` |
| `RemoteShoot` | remoteshoot, rsint, capture_get_data, their scripts and the camera's capture | its exec and messages are `ScriptExec`'s, as one action each |
| `RemoteShoot_proofs` | theorems | extends `RemoteShoot` |
| `PtpIp` | the PTP/IP session: handshake, transactions, close | its reads return whole items of the stream because `TransportBuffer` with `transport = "tcp"` does |
| `PtpCalls` | the methods of a connection that carry data | extends `PtpIp` |
| `PtpCalls_proofs` | theorems | extends `PtpCalls` |
| `RawImg`, `LiveImg`, `Lbuf`, `PtpPack` | the C code that takes data apart, each with the script that calls it | |
| `DataFormats` | a script working on one of those | extends the four |
| `DataFormats_proofs` | theorems | extends `DataFormats` |
| `MC...` | the instances for TLC | |

Definitions called `X_Something`, under the comment "Faulty variant", are what the
code would be with a plausible mistake. They are in no specification: replacing `X`
by one shows that a property notices (PROJECT.json, "mutants").

### TransportBuffer

A byte is its index in the camera's stream. `data`, `pos` and `len` are the fields
of `PTPPacketBuffer`; `dst`, `size`, `rtotal`, `total` and `bulktotal` are the
arguments and locals of the read under way; `phase` is where it is. `ControlRead`
and `DataRead` are the entry into `ptp_control_read_buffered` and
`ptp_usb_read_data`/`ptp_tcp_read_data`, with the copy from the buffer. `DirectRead`
and `FillRead` are one `read_func` call each, into the caller's memory and into the
buffer, with the end of the read when it was the last. `ReadFail` is a `read_func`
error. `transport` tells USB (payload in whole packets, the rest through the buffer)
from TCP (directly to the end). `BufSize` stands for 512 and `Urb` for 2 MB: over USB a
read of more than an URB is several (`asked` and `fetched` are what they asked for and
what came), and each goes behind what was asked for before it. Behind an URB that came
short the next one leaves a hole, and `gap` remembers that it did (see Findings). The
length of a control read is the camera's (`ptp.c` 187, 510) and may exceed the buffer;
the caller's memory is taken to be as large as the request. Lengths of 2^31 and more,
which would be negative `int`s, are not modelled.

### UsbSession

Containers are records; a payload is a number of blocks. Every host step is one read
or write, so the camera moves between any two of them. A container is marked with
whether it belongs to the transaction under way instead of carrying an id nobody
compares. Twelve bytes of payload read as a header are taken to have no known type.
Failures: a write or a read that times out although the camera answers late, a
payload handler that fails, a reset request that fails. A bus reset (closing with
`usb_reset_on_close`) is assumed to succeed. The camera is external: a PTP responder
that takes one request after the other. `Init` lets another program have left a
session open.

### Connection

The bus has one place, and any camera may be plugged in there; each enumeration has a
number, and a handle is the enumeration it was opened on. Lua calls are atomic but
`con:reconnect`, which sleeps between disconnecting and connecting. `Cameras` have
distinct model, serial number and product id together, which is what the comparison
in `reconnect` relies on.

### ScriptExec

`pc` is the transaction the host makes next. `Poll` is the last of the polls of
`wait_status`, since the others change nothing. `ReadMsg` gives the answer the camera
has, or loses it after the camera has given up the message. The camera has one
running script, a queue each way, and refuses messages when the queue is full.
`mine`, `made`, `failed` and `fresh` are history: which script an exec has started,
what it has queued. In the GUI, `Callback` puts the sleeping call aside and makes a
call of its own; `Resume` goes on once it is done.

### Multicam

One action is one transaction with one camera and the Lua code up to the next. `pc` is
what the call under way does next, `todo` the rest of its loop over `mc.selected`.
`Flush`, `Send`, `Poll`, `RoundEnd` and `WaitTimeout` are `mc:cmd` with
`wait_status_msg`; `Ask` and `Answer` are shared by `cmd_msgbatch_cam` (image lists)
and `init_sync_cam`, both of which write to a camera and wait for its messages.
`SetId` computes the one or two cameras whose ids change (`jobs`), `SetIdCam` is
`set_id_cam` up to its `cmdwait`, and `Return` puts the selection back. On the camera,
`CamRead` is the loop of `mc.run`, and `CamItem`, `CamGiveUp` and `CamAnswer` are what
commands write; a status carries the command's name, and `call` is history. The
`selected` list is sorted by `table.sort`, which may leave cameras with equal ids in
either order. A message that finds the queue to the script full is refused; `refused` has
the cameras that refused a setid.

### RemoteShoot

One module for both commands, since they share capture, handlers and cleanup; `mode`
says which command and which way of shooting it is, `want` what data was asked for
(`{"raw", "dng_hdr"}` stands for `-dng`). Three loops run side by side. The host's
place is `hpc`: `Poll`, `Handle`, `Chunk` and `CallDone` are `capture_get_data` with its
handlers; `Cmd`, `Status` and `Tell` are `rsint_once`; `Wait` and `Cleanup` are common
to both. The script's place is `scr`, with one action for each loop in `rlibs.lua` and
`rsint.lua`; a step is a turn that reads one message. The camera is external: a shot
has all its data fetched, or loses it by timeout, before the next one begins; the raw
image comes after the DNG header was fetched, which is the order the handlers need.
`held` and `hook` are what the scripts do to the shutter. Every wait of the host and
every timeout of a script may end at any time, so nothing depends on how the limits
compare, with one exception: the shoot hook of `rs_shoot` does not time out, because
the script makes that limit longer than its interval (`rlibs.lua` 1757).

### PtpIp and PtpCalls

The stream from the camera is a sequence of items, headers and units of payload, and a
read returns the first of them. How TCP splits them does not matter: `TransportBuffer`
shows for `ptp_control_read_buffered` and `ptp_tcp_read_data` that a read returns the
next bytes whatever `recv` does, and `ptp_tcp_read_control` asks for the length and then
for the rest. The handshake calls `recv` directly, once, and there the split matters:
`InitAck` may leave a rest in the stream, behind the connection id or with the id unread.
`InitEvent` has each way the event socket can fail, the one included that leaves a socket
open that nobody holds: `opened` and `leaked` count the sockets. `tx` is the phase
of a transaction, `gd` the locals of `ptp_tcp_getdata` (bytes announced, read, and left
in the packet, the block that is being filled, what the handler got), with one action
for each read of its loop (`GetStart`, `GetPacket`, `GetUnit`, `FinalFlush`, `GetEnd`).
`ReadGarbage` is what `ptp_tcp_read_control` makes of payload read as a header, `ReadFail`
the end of the connection. `proc` is the procedure under way: the steps of
`init_ptp_tcp`, `close_camera_tcp`, or a call. The camera is external and answers in order.
It cuts its data into any packets, with or without data in END_DATA, and refuses a request
at any point. In `PtpCalls` a method is the list of its transactions and
where the length of what it returns comes from.

### RawImg, LiveImg, Lbuf, PtpPack and DataFormats

Each of these has a script that makes up to a bounded number of calls, one action per
function that Lua can call, on objects whose states are their bytes. `RawImg` has the
nine formats as a table of parts `<<byte, mask, shift>>` of each pixel of a block,
sequences of terms for the reads and sets of parts for the writes, since the code has two
functions for each; `rawPix`, the pixels a script has written, is what the bytes must
decode to. The reference, `Stored`, cuts a pixel from the number its bytes make. A row is
one block of every format, so the check for whole blocks in `rawimg.c` is always met, and
the run has two rows (the theorems any number); rows, first contents of the buffer (`RawFills`) and values
written (`RawValues`) are constants. `LiveImg`
follows the loops of `liveimg.c` over rows and groups of pixels, and `live` holds the
frame, one image, which is handed in for reuse to either of the two functions, and the
buffer it was packed into last, which may be handed in too. An image keeps what the code
does not set: its sides, when an overlay of as many pixels is put into it, and its alpha
plane, when a viewport is. An image of a viewport has no alpha plane; an overlay of that
area is then written through NULL, which ends the program (`Killed`). The reference
computes the colour of
a pixel from its coordinates, with the constants of ITU-R BT.601. `Lbuf` has a buffer of
any length up to a bound, read-only or not, and offsets from -1 to beyond its end; its
unsigned differences wrap as in the code (`NoRoom`, `Behind`). The reference is
Lua's string functions. `PtpPack` encodes data sets field by field as the standard has
them, and unpacks them at the offsets `ptp-pack.c` counts, which are cut to 16 bits at each
string and array (`uint16_t`; the properties speak of data sets of up to 65536 bytes).
`mktime` is the moment of a local time, with the `tm_isdst` that the date before left:
the capture date is read as standard time, the modification date as whatever there was at
the capture date (`PackSummer`), and that is what `DatesOf` says comes out. The two 64 bit
fields of a storage are 0 in the code and are not compared. `DataFormats` lets a behaviour
choose one of the four; they share nothing.

What is assumed of a live view frame: it is not shorter than its header, the products of
its sides do not overflow, and its visible widths are multiples of the groups of pixels. Its
starts are signed: a description that starts at or before 0 is none, pixels that start
before the frame pass the check and are read there. Inputs that the code is known not to
survive are left out elsewhere, and the places are listed under Findings: coordinates
outside a raw image, values too large for its depth, characters beyond ASCII and strings
of 255 or more.

## 3. Runs

| run | question | bounds | distinct states |
|---|---|---|---|
| `TransportBuffer` | order and accounting (`StreamKept`), only too long control reads refused, refinement | both transports, buffer of 2 bytes, URB of 4, control reads up to 3, data reads up to 9, 10 bytes of stream: a payload spans three URBs, each may be short, with every rest; control reads fit the buffer or do not; several reads of each kind follow each other | 322,863 |
| `TransportBuffer_urb` | finding | the same | |
| `UsbSession` | pipes in step after completed transactions and before payload; connecting only in sync; retrying connects in the end | `usb_reset_on_close` on and off, 2 blocks, 3 containers ahead, 3 faults: enough for a timeout, a late answer, and another failure during recovery | 100,175 |
| `UsbSession_stale` | finding | 1 fault | |
| `ScriptExec` | complete results, own messages, no clobber | both protocols, 3 scripts, 1 message before the last, queue of 2, 1 fault: the queue fills, and messages of two older scripts can be left | 6,183,464 |
| `ScriptExec_live` | no callback takes a message announced to the coroutine, and every call ends | the command line in a coroutine, scripts of the camera's user, 2 scripts, queue of 1: the queue is full after one message | 1,339,468 |
| `ScriptExec_gui` | finding | | |
| `Connection` | open handle, current device info, reconnect, handles closed at the end | 2 cameras, 3 enumerations, 2 scripts, 2 faults | 162,302 |
| `Multicam` | answers counted for their own call, complete lists and rounds, ids of hosts and scripts, every call ends | 2 cameras exchanging their ids, queue of 1, lists of 1 batch, 2 further ticks; 2 calls, or 1 and a fault, or 2 faults: a call meets the late answers of another one, an exchange of ids, a script that dies, a status that finds the queue full | 1,514,108 |
| `RemoteShoot` | whole files, call k gets shot k, no shot too many, what is left behind, every command and every script of remoteshoot ends | all six ways to shoot, 2 shots, 3 sets of data, files of up to 2 chunks (3 is too many), 2 commands and the end of input, 3 shots of a camera whose button is held, 1 fault: a second call meets what the first left, and a third shot is one too many | 740,931 |
| `DataFormats` | pixels, patches, images, buffers and data sets against their definitions | raw images of 8 by 2 pixels (a whole block of every format) in all formats but 14 bit big endian, 3 calls; frames with and without margins, of several sizes, two viewports and two overlays of equal area among them, descriptions and pixels that start in front of the frame, 5 calls (a frame, an image, another frame, the image again, packing); buffers of 0 to 4 bytes, shorter than a value and longer than one, 3 calls; strings and arrays that are empty or not, dates in summer and winter | 512,778 |
| `PtpCalls` | stream in step, connecting only in sync, sockets released, files and buffers, every call ends | payload of 3 units, blocks of 2: a data phase in up to 3 packets, with a full block and a rest; 1 fault, and calls while failed ones have left at most 2 items unread (`MaxBacklog`): a connection that is out of step is used again | 707,821 |

Several properties are conjunctions of named parts, such as `StreamKept`, which is
`Accounted`, `BufferInOrder` and `DeliveredInOrder`; `PROJECT.json` lists a mutant for
the parts that a different mistake breaks.

Deadlock is checked except in `Connection`, where the program ends and the bounds on
enumerations run out, in `RemoteShoot`, where the command ends, and in `DataFormats`,
where a script has made its calls.

The properties of `Multicam` speak of cameras that had nothing to do when the call
began and with which no transaction of it failed (`quiet`). Without that they are
false, since only the name of a command ties an answer to it. `ListComplete` needs
also that no message was waiting (`silent`), because `imglist` does not flush.
`IdsAgree` speaks of runs without
failed transactions: a failure between the two halves of an exchange leaves two cameras
with one id, after which `wait_status_msg` keeps one result for both. Of the ids of
scripts it also exempts a camera whose queue was full when its setid was written
(`refused`): no transaction failed, but the connection has the new id and the script keeps
the old one until a later setid reaches it or it starts again.

`DataSound` leaves out `ptp_get_object`: the request has no length, and the buffer has the
size the caller named whatever the camera sent. `Released` counts every open socket, and
says that once a connection is closed or has failed to come up none is open but those
that were lost when the connect of an event socket failed.

`StreamKept` and the refinement leave out the reads that went on behind a gap;
`TransportBuffer_urb` is about those. `LiveSound` and `LbufSound` likewise leave out overlays
with other sides than their frame (`HasSides`) and offsets behind a buffer shorter than
one value (`Reached`): those are findings below.

Before protocol 2.6 the check of `exec` and the start are two transactions: a script
started in between is killed. `NoClobber` says that no script is killed that was there
when exec looked.

`usb_reset_on_close` is chosen at the start and then kept. `ConnectSyncs` speaks of the
runs that have it on, the default everywhere but on Windows (`lua/main.lua` 263-265). Without the reset a disconnect that failed half way
can leave a sequence of containers that the next OpenSession and GetDeviceInfo take
for their own.

Fairness. `UsbSession` (`FairSpec`): the camera, the transaction under way and the
open and close sequences go on, because each is a loop of blocking calls with a
timeout, and somebody tries again to connect. Calls and con:disconnect are not fair,
and neither are faults, of which there are finitely many. `ScriptExec` (`FairSpec`):
the host goes on, and scripts end (`CamFinish`, `CamEnd`); without that exec rightly
waits for ever (its timeout of a day is not modelled). `Multicam` (`FairSpec`): the
host goes on, scripts go on, and time passes, so that a wait that keeps coming round to
its test of the clock finds it expired (`SF` of `WaitTimeout`); a day passes too
(`AnswerTimeout`). `RemoteShoot` (`FairSpec`): the host goes on, since its waits are
limited; the script takes its turns in each of its loops; the camera ends the shots it
takes (`FinishShot`) but need not take any, nor ever be ready for one: the loop after the
half-press (`rlibs.lua` 1590-1592) has no limit, and `Focused` is in no fairness. What ends it then
is the "stop" of the host that gave up. Only a failed transaction can lose that or come
before it, and `ScriptEnds` says that the script may wait for ever in this case alone (`Unready`).
`Returns`, the other half of `BothEnd`, needs the host's fairness only.
`PtpCalls` (`FairSpec`): the camera answers as long as the connection is up (a camera that
stays silent without closing it would make the program wait for ever, as no `recv` has a
timeout), and the steps of a transaction, a procedure and a call follow each other. Connects, calls and `con:disconnect` are not
fair; closing after a failed connect is, because `chdk_connect` does it itself.

### Findings

The violation runs show where the code does something else than its comments say:
a payload with a hole behind an URB that came short (`TransportBuffer_urb`),
a late response taken for the next one (`UsbSession_stale`), and callbacks of the GUI that make the command line's
exec return as if it had succeeded (`ScriptExec_gui`). `PROJECT.json` quotes the comments.

Five more have been found with TLC, on variations of the runs above.

* In the big endian 14 bit format `raw_set_pixel_14b` chooses the pixel of its block of four by
  x%8, with cases 0 to 3 only (`rawimg.c` 361-370), where the address and `get` go by x/4 and
  x%4: half of the pixels are never written. `DataFormats.cfg` with "f14b" in `RawFormats`
  violates `Decoded`.
* In a buffer shorter than one value `off > buf->len - size` (`lbuf.c` 310) wraps and every offset
  passes; behind the end `buf->len - off` (313) wraps too, the values go to memory outside of
  the buffer and are reported as set, where the comment says "if offset is larger than
  buffer size, nothing is changed" (295). `DataFormats.cfg` with the invariant `NothingBehind`
  shows it, with a byte set at offset 1 of an empty buffer for one.
* An overlay put into an image of as many pixels and other sides keeps those sides (`liveimg.c`
  788-796; `get_viewport_pimg` sets them, 672-674), where the comment says "replaced if size
  doesn't match" (733). `DataFormats.cfg` with the invariant `OverlaySides` shows it, with
  overlays of 4 by 2 and 8 by 1.
* After a strict reconnect was refused because the camera is a different one, a second one
  accepts it, as `reconnect` has overwritten `ptpdev` with the device info of that camera
  (`lua/chdku.lua` 1781; the comment at `lua/cli.lua` 1772 says it detects and fails);
  `ReconnectKeeps` stops at the first reconnect that came to another camera.
* `imglist` after a command that nobody waited for takes that command's status for the end
  of its list, which is then empty (`lua/multicam.lua` 1181, comment at 1220); `ListComplete`
  leaves it out.

`ExitClosesAll` speaks of a camera that never failed. After a connect whose second
OpenSession failed (`chdkptp.c` 957), or an `is_connected` that cleared the flag
(1287), `chdk_connection_gc` (1957) does not close the handle; it is left to the end of
the process.

Seen while modelling `RemoteShoot`, and part of the model: after an error remoteshoot
sends "stop" (`cli.lua` 2582-2583), which `rs_shoot` understands only until the first
press; its loops read "quit", which nothing sends. They end because capture is off or
the counter stands still. In single mode rsint's script never gives up waiting
(`rsint.lua` 483), so `ScriptEnds` is not claimed for rsint, and its uninit is then
refused. In continuous mode "l" may find no shot in the hook and end the script without
one (`rsint.lua` 421-435). An exec that throws leaves capture on, whatever the comment
at `rsint.lua` 243 says.

The script id of a connection is not reset when the camera reboots (`chdkptp.c` 1778).

Read in the code while translating it, without a run, and kept out of the inputs of the
models or irrelevant to their properties:

* `rawimg.c`: the bound of `set_pixel` is an or of two conditions (412-421), the thumbnail
  takes its blue column from bx+gx (502), `bind_lbuf` checks `active_left` against the
  width where its message speaks of the right (750). `convert` shifts the black
  level by a negative amount when it goes up in depth, and keeps the source image, not its
  buffer, from being collected (656).
* `lbuf.c`: the last index of `reverse_bytes` wraps on an empty buffer. `get` behind a
  buffer shorter than one value raises an error about the stack, or returns a negative
  count for values of one byte (in the model).
* `liveimg.c`: `lv_proto_compatible` (519) compares minor versions the wrong way round;
  an image of a viewport handed in for an overlay of its area is written through NULL, and
  one of an overlay keeps its transparency under a viewport (both in the model);
  widths that are no multiple of the group overflow the planes; a
  frame with palette data and type 0 calls a null function.
* PTP/IP: the event socket leaks when its connect fails (350-403; counted by `leaked`); `capture_get_chunk` and
  `ptp_get_object` leak what they received when the response is an error, and
  `ptp_get_object` trusts the caller for the length; errors of all but the last write of
  `ptp_tcp_senddata` are masked.
* `ptp-pack.c`: capture and modification dates are whatever was on the stack when the camera
  sends none, names of 255 characters and more lose their length byte ("XXX: check
  strlen!", 114), characters beyond ASCII are sent as negative numbers. The capacity and free
  space of a storage are always 0. A modification date is read with the `tm_isdst` of the
  capture date (396, 424), so it is an hour off when only one of the two is in summer.

## 4. Proofs

Every safety property of the runs of `TransportBuffer`, `UsbSession`, `ScriptExec`,
`Connection`, `Multicam`, `RemoteShoot` and `PtpCalls` is a theorem of its specification,
for every value of the constants that meets the named assumptions. Of `DataFormats` all are
but `DataSetsSound`, those of raw images (`Decoded`, `PatchSound`) under the
hypothesis that `RawFormats` lacks the 14 bit big endian format, whose writes lose pixels
(see Findings); the run makes the same choice. In each module the
inductive invariant comes first, then one lemma or step for each action, then the
theorems. TLC checked each invariant on the instance of the run before it was proved.

`TransportBuffer_proofs`. `IInv` adds to the invariants of the run `CallInv`, what holds
between two `read_func` calls (the caller's memory is right up to `rtotal`, the buffer
continues it, the sizes still to be read fit where they go), and `Rewound`, that an empty
buffer starts at 0. No part of `StreamKept` is inductive alone: they speak of a read that
is complete. `Invariance` gives `TypeCorrect`, `InOrder` and `PayloadNeverRefused`, for
buffers, URBs and lengths of control reads of any size (an URB is not shorter than a
buffer): what is in order are reads without a `gap`, and what is refused are control reads longer
than the buffer. `DirectWhole` is
the packet alignment of USB payload reads. `Refinement` shows that every step is
`Deliver`, `Drop` or a stutter of `ByteStream`; a read with a gap drops its bytes there.

`UsbSession_proofs`. `PipesInStep` speaks of the end of a transaction and its payload. What
is inductive is where the one answer to a transaction is that began on idle pipes
(`InStep`): in its request (`RequestOut`), in a camera that waits for data
(`DataAwaited`) or is about to send it (`DataDue`), or in the input pipe (`Answering`,
which counts the containers the host has still to read). It needs `Announced`, that a
data header is followed by the blocks it announces, also in what is left of transactions
that were given up. `UsbConnectSyncs` rests on `OnlyOpens`: after a reset the leftovers
of failed attempts to connect are responses to OpenSession, and GetDeviceInfo cannot take
a response for its data (`ResponseFirst`).

`ScriptExec_proofs`. `Owners` ties `script_id` and the host's queue to the script under way
and says what a callback of the GUI leaves to the coroutine it interrupts; `Looked` that a
script running unseen was started after exec looked. For `ScriptComplete`, which holds
outside the GUI only, `Neighbours` says that the messages queued and not read are
neighbours in the camera's queue, numbered from the next on, so that a reader gets them
in order and none is missing when the script is over.

`Connection_proofs`. `Kept`: until a reconnect has come to another camera, the wrapper
describes the camera of the last connect. `ExitCloses` needs two counts more:
handles are of enumerations there have been (`Counted`), and as long as no camera failed a
handle on the camera that is there is known to be open (`Closing`).

`Multicam_proofs`. The places of a call are typed first (`Commanding`, `Looping`, `GivingIds`:
cameras are selected once each, and which loops may be empty). Then there are five invariants, one
for each thing that is asked of the answers. `StatusInv`: what a quiet camera was told,
does and has answered is of this call, once it was flushed. `TicksInv` and `ListsInv`
follow one camera through its turn (not yet asked, asked, sending, done). `CountInv`: in a
round of `wait_status_msg` that has counted every camera so far, all of those have
answered or failed; the count reaches the number of cameras only in such a round. `IdInv`:
the map of ids is one to one when the one or two jobs left of an exchange have been
carried out, which is why it is one to one between calls. `ScriptInv`: the last setid on
its way to a script has the id of its connection.

`RemoteShoot_proofs`. `DataInv` says which shot the camera's data is of: the one the call
under way fetches or, when it has got all of it, perhaps the next. `PiecesInv` ties the
chunks a call has to those the camera has left, and `FreshInv` says that nobody has
touched what no call has asked for yet. `ShotsInv` counts presses against the script's
own counter through each loop of `rs_shoot`, and `HostInv` has the ways a command ends.

`PtpCalls_proofs`. What a camera puts on the stream was, at some time, a sequence of whole
answers, but the host reads from the middle of it, gives up, and begins again. So
`StreamInv` gives the stream a grammar: `Positions` are where a reader can be (outside of
a data phase, or in one of so many units with so many left in the packet), `Reads` is
what an item does to it, and some run of positions leads along the stream and, while the
connection is up, ends outside of a data phase. In a data phase the
run begins where `ptp_tcp_getdata` stands (`AtGd`). A camera that cuts its payload in any way
keeps this: `DataPhase` shows by induction over the packets that `DataPackets` is
a run, and `FlattenInduction` unfolds the `FlattenSeq` it is made with. The other
parts rest on it: `TxInv` (sizes in each phase of a transaction), `GdInv` (handler and block have
the first `read` units in order), `DoneInv` and `MineInv` (the length asked for is the
length that came), `RestInv` (a damaged item is the first, and not in a data phase),
`CallInv`, `ConnInv`, `SyncInv` (in a transaction that began in step nothing but its own
answer is coming, and only its last item is a response), `HandInv` (the rest of an
acknowledgement stays at the head of the stream until OpenSession fails on it). From them
follow `PtpTyped`, `ReleasedAlways`, `IpSyncAlways`, `ConnectSyncs` and `DataSoundAlways`.

`DataFormats_proofs`. `BuffersSound`: a slice, `set` and `fill` keep octets and the length of
the buffer (`LbInv`), whatever length that is, and what they return is what `LbufSound` compares with. For a
slice that is one case for each sign of the two indices, for `set` that the groups of a
value's bytes neither overlap nor leave a gap (`Groups`). For `ImagesAreFrames`: `Radix` says that row, group, pixel and octet
are found again in their offset, which gives each octet of a packed image its place
(`PlaceOf`) and each place its octet (`PackedPixel`). `ColourOf` bounds the
integer arithmetic of `yuv_to_r`, `yuv_to_g` and `yuv_to_b`, with their clipping, by one unit
around BT.601, for every y, u and v. `VpPacked`, `YuvOverlayPacked` and
`PaletteOverlayPacked` put these together for each layout. The invariant `LiveInv` says of
the image at hand that its planes hold what the loops emit for some frame that passed its checks
(`ImgInv`), and of the buffer packed last that it shows its frame if it has its sides.
Reuse keeps this whatever was handed in (`VpReuse`, `BmReuse`, `PaintedIs`), because
a reused image has as many pixels; it has the sides of its frame for certain only when
it is of a viewport. `PackSound` has packing, into a buffer with any contents.

Raw images (`PixelsDecoded`, `PatchesSound`) come in four layers. Octets: for each of the
nine formats, `get` of a block is the pixel cut from its word, and `set` of one pixel leaves
the octets in range, the other pixels as they were and the new value in its
place, which is arithmetic of octets split at bits. Images: the blocks of two pixels are
the same or have no byte in common (`BlocksApart`), so `GetIs` (`get` returns what
is `Stored`), `SetData` and `GetSet` (`set_pixel` changes the pixel and nothing else) hold
of whole images. Loops: `LoopRuns` and `LoopKeeps` say of any loop that its states exist and
what each turn keeps holds at the end; `ConvertedImage` and `PatchedImage` follow
`rawimg_convert` and `rawimg_patch_pixels` with them. The invariant of the patching loop,
`Patched`, compares the image under work with the one that was handed in: patching goes in
place, and may interpolate from pixels it has just made, but these are between good
pixels of the original (`SpannedBefore`). Scripts: `RawInv`, the image lies inside its
buffer and decodes to `rawPix`. `ObjectsTyped` needs no hypothesis on formats: the lost
pixels stay in range. Planar images have all their pixels by `EmittedImage`.

What the proofs asked of the models. Assumptions that the instances had all along
and that no module had stated, or not in a form to reason with: the methods of `PtpCalls` name operations of `Shape`
(`OpsAssumption`), `Cams` lists each camera once (`CamsAssumption`), the seeds of
frames are numbers (`LiveAssumption`), and a raw image comes in one
chunk (`ChunksAssumption`; `cli.lua` writes a DNG only from the whole of it, and the handler
asks for it by its size). Where two guards of a CASE could hold at once, TLC took the first
and a proof may not: they exclude each other now (`UsbSession.GetResp`,
`ScriptExec.ExecLua`, `PtpIp.LoopEnd` and others). `Lbuf` now cuts what `fill` and `fread`
store to an octet, as the code's `uint8_t` does, and `LiveImg` names its frames and the parts
of its property. `RawImg` has its loops as recursive functions of the number of turns
and its bit masks as quotients and remainders by `Pow2`; what the buffers hold at first
and what is written became constants (`RawAssumption`), so that the theorems speak of all
of them. The reachable states of the other modules did not change.

Only model-checked:

* liveness (`Reconnects`, the three `CallsReturn`, `BothEnd`): fairness and ENABLED are
  out of the prover's reach;
* the data sets of `DataFormats` (`DataSetsSound`): packing and unpacking fold over
  strings and arrays of any length. Induction over data can be had only by hand, since the
  library's induction theorems take an operator that no prover here instantiates
  (`Induction` in `PtpCalls_proofs` and `LoopKeeps` in `DataFormats_proofs` are made from the
  well-foundedness of the natural numbers, with sets instead of predicates). Here it
  would be one for each field of each data set.

## 5. Not modelled

The camera, the USB stack and the network are modelled from how the code uses them. Data,
texts and timing are abstract, except in `DataFormats`, where bytes are what matters.

Not modelled: the GUI's widgets and scheduler (`gui_sched.lua` walks a Lua table
that callbacks add to, in an order the language leaves open), drawing images on the canvas,
DNG files, directory trees and file names of transfers, downloads and connecting in
multicam, the commands of the command line but remoteshoot, the polling intervals of
`wait_status`, connections without a connect script (`connect{raw=true}`, `lua/chdku.lua`
1755-1757) and second wrappers of one connection (2229), events of cameras and vendor data sets, which nothing calls. Left out for
good: text formatting, tables of names, vendored libraries, tests.

## 6. Plan

1. Proofs: `DataSetsSound`.
2. The selection of a connection in the GUI, with `capture_get_data` polling the global
   `con` (`lua/chdku.lua` 1578).
3. Downloads and connecting in multicam; the timing of `wait_status`.

# A verification development for esp32_usb_over_ip

The firmware exports the USB devices plugged into an ESP32 to USB/IP clients. This directory
holds TLA+ modules that model its core, TLC configurations that check them on small instances,
and TLAPS proofs for every value of the constants. Definitions keep the names of the code, and
`PROJECT.json` maps each of them to its lines.

Run from this directory: `tlc -config UrbLifecycle.cfg UrbLifecycle`, `tlapm UrbLifecycle_proofs.tla`.

## The system

Threads:

* the **network thread** accepts connections (`Server::do_accept`);
* one **session thread** per connection runs `Session::parse_op` and, after a successful import,
  the coroutines `receiver_single` (reads commands, calls the device handler) and `sender`
  (writes what is queued in `transfer_channel`);
* the **USB client event thread** (`Esp32Server::start`) runs `transfer_callback` for every transfer
  the host stack hands back, and `client_event_callback` for a device that is plugged or gone;
* the **main task** (`app_main`) brings up WiFi and then the server; the **event task** of ESP-IDF runs
  `wifi_event_handler`, the task of the **HTTP server** runs the configuration page.

| Component | State | Operations | Talks to |
|---|---|---|---|
| `Session` | `unlink_map`, `transfer_channel`, `should_immediately_stop`, the imported device | `parse_op`, `receiver_single`, `sender`, `submit_ret_*`, `immediately_stop` | `Server` (containers, by lock), device handler (calls), client (socket) |
| `Esp32DeviceHandler` | `session`, `all_transfer_should_stop`, `has_device` (atomics), tracker | `on_new_connection`, `on_disconnection`, four `handle_*`, `handle_unlink_seqnum`, `cancel_all_transfer`, `transfer_callback` | host stack (submit, clear, callback), `Session` (raw pointer) |
| `ConcurrentTransferTracker` | 16 locked segments, one atomic counter | `register_transfer`, `remove`, `remove_endpoint`, `clear` | called from the session and event threads |
| `Server` | `available_devices`, `using_devices`, the list of sessions | accept, `stop`, the moves between the containers | sessions |
| `Esp32Server` | `host_devices`, the event thread | `bind_host_device`, `remove_gone_device`, `on_session_exit`, `stop` | host stack, containers |
| protocol codec | none | read and write of OP_*, CMD_*, RET_* | socket, field by field |
| `VirtualDeviceHandler`, interface handlers | descriptors, string pool, HID state | control requests of an emulated device | `Session` |
| `wifi_manager`, `main` | event bits, `s_ap_mode_active`, `s_http_server`, the saved configuration | `wifi_init`, `wifi_try_connect_saved`, `wifi_start_ap`, `wifi_stop_ap`, the event handler, the page, `wifi_reconnect` | WiFi driver (calls, events), one task with another through flags without a lock |
| `button_manager`, `led_manager` | timers, colours | debounce, output | nothing: their use in `main.cpp` is commented out |

What makes each of them correct:

* **URB pipeline** (`Session` + `Esp32DeviceHandler`): every URB has at most one outcome, none is
  answered while the host stack may still touch it, every accepted one is answered or its session
  ends, and what one connection leaves behind does not disturb the next. Hard: two threads with
  a raw pointer between them, unlinks racing completions, resubmission, a reconnection while
  transfers are in flight, an unplug at any time.
* **Tracker**: a limit and a counter that are exact although the limit is read without a lock.
* **Device containers**: a device is in one place, has one user, is not lost, does not get stuck, and
  a device that is gone is marked so that its session ends. Hard: check and move in two critical
  sections, identity by a bus id the host stack reuses, exceptions that skip the clean-up.
* **Server lifecycle**: `stop` ends, and after it only sessions that came too late, or had left the list before,
  can still use the server. Hard: connections that arrive while
  the server stops, threads that detach themselves, a list of weak pointers as the only record of them.
* **Session pipe**: the client can take the stream apart packet by packet, its first request has one
  outcome, replies in the channel get out, and a session that is told to stop ends. Hard: two coroutines
  write to one socket, a write goes out in pieces, the connection breaks or the server stops at any
  suspension point, exceptions end a coroutine with nobody told.
* **Split bulk requests**: the chunks of one request are in flight together and give one reply. Hard: they
  count in variables of a call that may have returned.
* **Emulated devices**: every request has one answer, cut to what was asked for. Hard: many small
  paths, several of which end the session or look up an interface by a number the client gave.
* **Codec**: a reader consumes what the writer of the packet produced.
* **WiFi**: the device ends up reachable, the flags miss neither an open access point nor a link and claim too
  much only in cases that have names, a saved configuration is applied, the server starts. Hard: late answers to
  attempts that were given up, sticky event bits, three tasks that share flags without a lock, a mode that
  another task changes between two calls of the driver.

## Modules

| Module | Models | Kind |
|---|---|---|
| `UrbContract` | what the session promises its client about an URB | abstract specification |
| `UrbLifecycle` | `receiver_single`, the device handler, `transfer_callback` | state machine, implements `UrbContract` |
| `TrackerContract` | the tracker as `UrbLifecycle` uses it: a bounded set | abstract specification |
| `TransferTracker` | the tracker's code, access by access | state machine, implements `TrackerContract` |
| `DeviceRegistry` | the device containers, plug, unplug, import, session end | state machine |
| `WireCodec` | the packets: what is written, how much the readers take, how a client splits a stream | operators |
| `VirtualDevice` | the outcomes of a request to an emulated device | operators |
| `BulkSplit` | the chunks of a bulk In request above 64 KiB | component of `SessionPipe` |
| `SessionPipe` | `parse_op`, `receiver_single`, `sender`, the channel, the socket, `immediately_stop` | state machine, composes the three above |
| `WifiManager` | `wifi_manager.c`, `app_main` | state machine |
| `ServerLifecycle` | `do_accept`, the sessions' threads, `Server::stop`, `Esp32Server::stop`, `UsbipServer::stop` | state machine |
| `MCTransferTracker`, `MCDeviceRegistry`, `MCSessionPipe` | | instances for TLC |
| `UrbLifecycle_proofs`, `TransferTracker_proofs`, `DeviceRegistry_proofs`, `ServerLifecycle_proofs`, `WifiManager_proofs`, `SessionPipe_proofs` | | theorems about the module of that name |
| `SessionWire_proofs` | | theorems about `SessionPipe`, too: what the client makes of the stream |

### UrbLifecycle

The session thread is `rxPc`, with the URB it works on (`rxUrb`) and the endpoints that
`cancel_all_transfer` has yet to clear (`rxTodo`, `rxThen`); the event thread is `cbPc`, with the URB of
the running callback, its status, the result of its lookup in `unlink_map` and the session pointer it has
loaded (`cbSession`). An action is the run of one thread between two accesses to what the threads
share: the session pointer, the stop flag, the tracker, the unlink map, the host stack, the channel.
To load the pointer and to use the Session are two steps, because each connection has a `Session` of its own,
with its `channel[s]` and `unlinkMap[s]`, which its thread destroys some time after its receiver ended.

| Code | Actions |
|---|---|
| `on_new_connection`, `transfer_loop` | `Connect`, `ClearStop`, `OpenChannel`: three steps, the event thread sees each |
| `receiver_single`, CMD_SUBMIT | `ReceiveSubmit`, `UnknownEndpoint` |
| `handle_control_urb`, `handle_bulk_transfer`, `handle_interrupt_transfer`, `handle_isochronous_transfer` | `Alloc`, `Register`, `Submit`; what one of them does differently has a name (`ChecksHeap`, `SilentNoMemory`, `ThrowingNew`, `MissesFailure`) |
| `receiver_single`, CMD_UNLINK; `handle_unlink_seqnum` | `ReceiveUnlink`, `HandleUnlink` |
| `cancel_all_transfer`, `check_and_clean_memory` | `ClearEndpoint`, `CleanTracker` |
| `on_disconnection`, end of `receiver_single` | `Detach`, `ClearTracker`, `UnsetSession`, `CloseChannel` |
| the end of the Session's thread | `DestroySession` |
| `transfer_callback` | `CallbackStart`, `Untrack`; `LoadSession`, `Lookup`; `Resubmit`, or `ResubmitFailed` and `Refuse`, or `Finish`; `LoadSession`, `Reply`, `RemoveUnlink` |
| exceptions out of a coroutine (`if_has_value_than_rethrow` only logs them) | `RxAbort` in `UnknownEndpoint` and `Alloc` |
| undefined behaviour reached by a callback | `CallbackFault` (the pointer was null when it was loaded, the Session has been destroyed since, or it has no channel yet), `CallbackOnFreedArgs`; `fault` says which, and nothing is claimed afterwards |

Modelling decisions:

* A seqnum is used once, over all connections: an assumption about clients, which the code does not check. One
  client keeps it by counting; two different clients may not, when a transfer that the first one left in flight
  comes back under the number of an URB of the second. Nothing is claimed of that.
* An endpoint is the set of URBs that address it; endpoint 0 is not in the
  configuration descriptor, so no clear reaches a control URB.
* `usb_host_endpoint_clear` cancels any part of what is in flight on the endpoint (it may fail, or find
  transfers finished). Whether a submission is accepted, memory is there, or a resubmission
  works is a free choice.
* `trx` is not freed when a callback resubmits it, because `usb_host_transfer_free` refuses a transfer in
  flight; only the callback arguments are deleted, which `freed` records.
* `dispatch_urb` compares the whole attribute byte with the transfer type, so isochronous endpoints with
  synchronisation bits are refused: `ReceiveSubmit` lets either happen.
* The tracker is one set with atomic operations. `TransferTracker` justifies this.
* "Queued for the client" is the last point modelled here: what becomes of a queued reply is in
  `SessionPipe`. The channel is not a concurrent one and both threads use it; the outcomes of that race
  are inside the library and not modelled.
* Requests of more than 64 KiB are in `BulkSplit`: their chunks use neither tracker nor stop flag nor unlink
  map. The counters that are only logged are left out.

### TransferTracker

Threads call the four operations in any order; only `Registrar` threads register and only `Clearer`
threads clear, and both are the same thread, the session's (a handler has one session at a time):
`OneCaller` says so, and the limit rests on it. It is an assumption about the containers, too: when an address is
given twice (`AvailableIsUnused`, below), two sessions can have one handler, and then nothing is claimed.
A segment's lock is held from the change of the segment to the change of the counter, as `locked`
records, while `clear` stores 0 in the counter with no lock held. `taken` is history: the
transfers a call has taken out and not yet subtracted. The counter is a `size_t`, hence `% CounterSize`.

### DeviceRegistry

A session is `new`, has `checked` that the device is not in use, is `replying`, `transferring`, `exiting`
or `done`. A `Device` is a `UsbDevice` object, one per plug; its `address` names it in all
three containers, as the bus id is made from it, and may be given to a later device. `Swept`
is what the loop of `on_session_exit` erases, computed from its double increment; when the
last entry is among them the loop increments the end iterator, which is undefined, and `fault` ends the
behaviour. Devices and sessions are symmetric, addresses are not (the map is ordered by them).

### ServerLifecycle

Four kinds of threads. The network thread is `acc`, the place of `do_accept`; a session's thread is
`pc[s]`, from `serving` (its `io_context` runs) over `leaving`, `erased`, `swept` and `detached` to `gone`, when the
Session is destroyed; `channels` are the sessions that imported a device and so have a channel, whose service lives
in the server's `io_context`; the thread that stops the server is `stopPc`; the event thread is a flag.
Sessions are numbered in the order of their
arrival, so `accepted + 1` is the one `do_accept` is busy with, and the list, to which each is appended
once, is the set of the numbers in it.

| Code | Actions |
|---|---|
| `do_accept` | `Accept`, `AddToList`, `RemoteEndpoint` (which may throw), `AssignThread` |
| `parse_op`, `transfer_loop` | `Import`, which uses the server's containers and its `io_context`; so does the end of a session that imported, in `ServeEnds` |
| `Session::run` | `StartThread` on the network thread; `ServeEnds`, `Erase`, `OnSessionExit`, `Detach` on the new one |
| `~Session` | `Release`, which destroys the channel |
| `Server::stop` | `TellSessions`, `SeesEmpty`, `StopIo`, `SetShouldStop`, `JoinNetwork` |
| `Esp32Server::stop`, `UsbipServer::stop` | `TellEvents`, `JoinEvents`; `Destroy` |

An exception that leaves `do_accept` is only logged (`if_has_value_than_rethrow`): nobody is accepted any more,
and the session it was about stays in the list as an expired pointer. `Without` is the pass of a session's thread
over the list, which ends at its own entry. `fault` is `terminate` when a thread detaches itself before
`run_thread` was assigned, and `use_after_free` when a session meets a destroyed server: `UsesServer` is true of
one that still serves its client, that has not done with `on_session_exit`, or whose channel is not destroyed. The
behaviour ends there. Nothing makes a serving session use the server: that is up to its client.
What `on_session_exit` does to the containers is in `DeviceRegistry`, what a
session does until it ends in `UrbLifecycle`.

### SessionPipe, with WireCodec, VirtualDevice and BulkSplit

One session and its client, from the first byte to the last. Where `UrbLifecycle` looks at every access that the
session thread and the event thread make to an URB, this module looks at the bytes: a stream is a
sequence of cells, each a field of a header or a unit of payload. `rx` is the place of `parse_op` and then of
`receiver_single`, `tx` that of `sender`; an action is the run of a coroutine from one suspension point (a read, a
write, the channel) to the next, and `Suspended` says that the session's thread is free for the other one, or
for the handler that `immediately_stop` posts.

| Code | Actions |
|---|---|
| `parse_op` | `ReadOp`, `ReadOpFails`, `RxWrites`, `RxWriteFails`, `Replied`, `CloseSession` |
| `transfer_loop` | `StartTransfer` |
| `receiver_single` | `RxCheck`, `ReadFails`, `TakeUnlink`, `UnknownEndpoint`, `EpipeWritten`, `Leave` |
| a device handler called by it | `Emulate` (an emulated device), `HandToHost` (submitted, refused, or forgotten), `SplitRequest`, `SplitStep` (chunks); `HandlerFails` (an error, which ends the session), `HandlerThrows`, `SplitThrows` (an exception out of the receiver) |
| `transfer_callback`, the callback of a chunk | `HostReturns`; `ChunkCallback`, `LateChunk` |
| `sender` | `TxCheck`, `TxTake`, `TxClosed`, `TxWrites`, `TxWriteFails` |
| `immediately_stop` | `ImmediatelyStop` on the caller's thread, `PostedClose` on the session's |
| the client and the connection, external | `ClientOp`, `ClientSend`, `ClientCloses`, and `Receive`, which takes packets off the stream |

Modelling decisions:

* A write goes out whole or in two pieces, the last cell being the second. Reads are atomic: the
  reader takes its cells once all of them are there, or fails. A read that is cut short leaves the session, so
  nobody sees the difference.
* `EPIPE` of `Session.cpp` is the positive number of `errno.h`, the status of the other refusals is -32.
* A reply from a host device has the status OK here; the payload, which is what the framing depends
  on, is either empty or the whole length the handler asked the device for (`Granted`). `HostEp` gives the type of
  each endpoint. An isochronous one differs from an interrupt one in sizes only.
* The callback is one step here; `UrbLifecycle` takes it apart. What it does with an URB that an endpoint clear
  cancelled is here, too: `Cleared` says which URBs a CMD_UNLINK or a bulk URB (when memory is low) has reached.
  Resubmitted, such an URB stays in flight and its next callback reads arguments that were deleted
  (`freed_args`); when that submission fails, the client gets EPIPE and then a second RET_SUBMIT. Other replies
  may come between these two in the code.
* The channel holds up to 2048 replies, and `async_send` waits in order beyond that: one unbounded queue.
* When a write of the receiver fails, or a `new` in a handler throws (the arguments of an interrupt, an
  isochronous or a split URB), the exception leaves the receiver (`RxThrows`): `if_has_value_than_rethrow` logs it and
  the session's thread ends, but `on_disconnection` is not called. A callback that comes later uses a session that
  was freed (`freed_session`). Other allocations that throw would end a session in the same way, wherever they are, and
  are left out. The counters of a split request are freed when `handle_bulk_transfer` returns
  (`freed_counters`). `out_of_range` and `null_handler` are lookups of an emulated device that the code does
  not check. `fault` ends the behaviour.
* `dispatch_urb` compares the whole attribute byte with the transfer type and refuses an endpoint with
  synchronisation bits: an error without a reply, for a host device (`HandlerFails`) and an emulated one (`Transfer`).
* A subclass of `VirtualDeviceHandler` or of an interface handler may answer with any status; the firmware
  has none. A setup packet is an entry of a table, a descriptor is its size.
* The packets a client sends are well-formed except for their codes, and their status field is 0, as the
  `assert`s of the readers require. `CommandAssumption` says what a command is: its fields have the types of
  `UsbIpCmdSubmit` and `UsbIpCmdUnlink`, and a control transfer has a setup packet with the length of
  the transfer as its length, as USB demands (Linux refuses to submit another). The code does not compare the
  two: it cuts an answer to the length in the setup packet. Only `ReplyFits` needs that they agree.
* A client sends at most `MaxHost` or `MaxVirtual` commands; the theorems hold for any number.

What the exceptions in `FramingKept` stand for (`Garbled`):

* `mixed`: the receiver writes `EPIPE` for an unknown endpoint while the sender is in the middle of a reply.
* `Misdirected`: the header of a control URB has a direction, which the codec and the client go by, and its setup
  packet has another, which `VirtualDeviceHandler` goes by; nothing compares them. A request for data
  in an Out URB is answered with data, and a client, for which the answer to an Out URB has none, takes it for
  the next header. A client that fills in both from the same request sends no such URB.

What the exceptions in `OneOutcome` and `NoneForgotten` stand for:

* `OneOutcome`: the two RET_SUBMITs of a failed resubmission, EPIPE first, for an URB that is `Cleared`.
* `NoneForgotten`: `Periodic` is the interrupt URB for which there was no transfer, and the isochronous one whose
  failed submission the handler takes for a success. `NoSuchEndpoint` is a standard request to an endpoint that an
  emulated device does not have. The last URB may be the one whose error ends the session (`rxError`).

### WifiManager

The main task is `main`, with `retry`; the event task is `handler`, with the queue `events` of the driver's
reports; the page's task is `http`. `StopAp` is `wifi_stop_ap`, which both the main task (`wifi_reconnect`) and the
event task run, step by step between the accesses to `s_ap_mode_active` and `s_http_server`: `httpd_stop` waits
for the page's task. The driver is external: a mode, a connection, and the events it posts; an attempt
ends when it ends, also after the 15 seconds its caller waits. `PowerUp` is a restart, of which only the NVS is kept;
it follows a saved configuration, or a loss of power.

What the exceptions in the properties stand for:

* `Reachable`: a retry begins with `esp_wifi_disconnect` and may tear down the link that an earlier attempt got too
  late. The `CONNECTED` bit of that link makes the retry succeed at once; if it then fails, nothing is tried
  any more. Or the retries are refused, and the report of that link, handled after the access point was
  opened, closes it: the attempt to prove the property with the first exception alone showed this one. A
  link that is lost later is not restored either (`losses`).
* `FirstAttemptWaits`: no bit is cleared before an attempt, so that the `FAIL` bit of an earlier one ends
  the wait of a retry, or of `wifi_reconnect`, while the attempt goes on.
* `FlagsTrue`: a flag never misses what the driver has, but may claim more. `s_ap_mode_active` stays set without an
  access point when the event task handles AP_START and the report of a late link between `esp_wifi_set_mode` and
  the store of the flag; this takes an access point opened after the last attempt. The `CONNECTED` bit stays
  set when the link is lost, or torn down by a retry.
* `FaultCauses`, a part of it: with `wifi_reconnect`, which nothing calls, `wifi_stop_ap` can run in two tasks, and
  the HTTP server be stopped twice. And a late link (or `wifi_reconnect`) that sets the mode to STA between
  `OpenAp` (`esp_wifi_set_mode`) and `ConfigureAp` makes the `ESP_ERROR_CHECK` of `esp_wifi_set_config` abort.

## Runs

| Run | Instance | Shows |
|---|---|---|
| `UrbLifecycle` | one bulk, one interrupt URB; 1 slot; 2 connections; 401,358 states | the safety properties and `MeetsContract` |
| `UrbLifecycleLive` | one control, one bulk, one isochronous URB; 1 slot; 1 connection; 488,463 states | `EventuallyAnswered` |
| `UrbInterruptAnswer` | one interrupt URB | violated: the silent return without memory |
| `UrbUseAfterDisconnection` | one bulk URB | violated: a null session pointer in a callback |
| `DeviceRegistry` | 3 sessions, 2 plugs, 2 addresses | the safety properties of the containers |
| `RegistryAvailableUsed`, `RegistryUsedDropped` | the same | violated: two comments of `Esp32Server.cpp` |
| `ServerLifecycle` | 3 connections; 251,626 states | what `stop` waits for and misses, and that it ends |
| `ServerAllClosed` | 1 connection | violated: "All sessions were successfully closed" |
| `TransferTracker` | 3 threads, 3 transfers in 2 segments, limit 2 | the limit, the exact counter, `MeetsContract` |
| `SessionPipe` | a host device with a bulk and an interrupt endpoint and 5 commands to it, or an emulated one with 3 interfaces and 14; 2 commands per session; chunks of 4 units, packets of 2; 743,326 states | framing, commands taken in step, who writes when, one outcome per URB, nobody forgotten, sizes, causes of faults, the end of the session |
| `WifiManager` | 2 attempts, 1 call of `wifi_reconnect`, 1 lost link, 1 restart; 188,247 states | that the device gets on the network or opens its access point, what the flags may claim, the configuration |

Why the bounds suffice: two URBs with one slot give a refused registration while the other
is in flight, and two endpoints for a clear to go through; one URB comes back in a callback while the other
is submitted or unlinked. Two connections give everything a predecessor can leave to its successor, which sees of
its predecessors only their transfers in flight and a pointer a callback has loaded. A control URB, which no
clear reaches, and an isochronous one, which can take the only slot for good, are in the liveness
run. With three URBs, two slots and two connections there are 9.7 million states, too many for a run of minutes; the
proofs are for any number.
In the registry three sessions are the two that race and the one whose end sweeps, two plugs with two
addresses are the same address given twice, or two devices side by side. Three
connections are one that was told to stop, one that came too late, and one in between whose sweep meets the
entries of both. The tracker's three threads
are the firmware's two and one more that removes; three transfers exceed its limit of two.

Two commands of one session are enough for an unlink and its URB, a reply being written while
the receiver writes another, a split request with one beside it, and a write that fails with a reply behind it
in the channel; the commands of `MCSessionPipe` are one of each path through `receiver_single` and the handlers, a bulk
URB after an interrupt URB, or an unlink after either, among them. Lengths
of 1, 3 and 5 against packets of 2 and chunks of 4 give a length that is no multiple of the packet, one that
is rounded up, and one that is split with a short last chunk. Two attempts are the one after
power-on and a retry that meets what it left behind. One restart is
enough: of what came before it only the saved configuration is left.

Deadlock is not checked where the system may stop: connections are used up and everything is idle, a
fault ends a behaviour, or all sessions are done.

**Fairness** (`UrbLifecycleLive`, `UrbInterruptAnswer`). The session thread and the event thread are FreeRTOS
threads that keep running, and each step of a handler or a callback is finite: weak fairness of
`ReceiverStep` and `CallbackStep`. A device finishes or refuses a control or bulk transfer, so
the host stack hands it back: weak fairness of `Returned(u)` for those, and for no interrupt or isochronous
one. Nothing is assumed of the client or of the plug.

`ServerLifecycle` assumes that all threads keep running, that a session that was told to stop ends (its
socket is closed, which ends both coroutines), and that the event thread sees its flag (it is woken up).
`StopTerminates` makes its two other assumptions itself: no exception out of `do_accept`, and
a session that came too late to be told is left by its client.

`SessionPipe` assumes of the session's thread that a coroutine whose read, wait or failed write is complete is
resumed, and that what was posted to it is run: weak fairness of `ReceiverRuns`, `SenderRuns` and
`PostedClose`. A write makes no progress of its own: that is up to the client, of which nothing is assumed.
`QueuedWritten` therefore makes an exception of a client that stops reading.

`WifiManager` assumes that the main task and the event task are scheduled, that the wait for an attempt times
out, and that the page's task restarts the device 3 seconds after it saved (`Restart`). Nothing is
assumed of the driver: an attempt may go on for ever.

## Findings

Properties the repository states and the code does not keep; each is a run that expects the violation,
and an entry in `PROJECT.json`.

* `InterruptUrbAnswered`: the handlers are told to reply whatever happens; the interrupt handler
  returns silently without memory for the transfer.
* `NoUseAfterDisconnection`: the stop flag is checked once per callback, the pointer loaded later: it may be null by
  then. When it was loaded before `on_disconnection` reset it, the Session may have been destroyed before the
  callback uses it (`dangling_session`).
* `AvailableIsUnused`: bus ids are not unique over time.
* `AllSessionsClosed`: `stop` looks at the list of sessions, which a session enters after the wait was over, and
  then serves its client, or leaves before it is done with the server: it still calls `on_session_exit`, and its
  channel is destroyed in the server's `io_context`.
* `UsedIsKept`: the end of any session erases the gone devices of all of them.

The passing properties say how far these reach: `FaultCauses` names what each fault needs, and
`ExclusiveUse`, `GoneIsMarkedUnlessReused` and `PresentStaysExported` hold as long as no address is given twice.

## Proofs

The theorems hold for every value of the constants that satisfies the assumption of the module. None of the
properties is inductive alone; each proofs module builds its invariant in layers, each inductive
relative to those before it, and each layer was an invariant of a TLC run before it was proved.

**`UrbLifecycle_proofs`**, for every set of URBs, every capacity and every number of connections, from
`UrbAssumption` (the types of URBs are disjoint, `None` is no URB, the bounds are numbers): all the safety
properties of the run.

1. `Control` ties the place of the session thread to the session pointer and the stop flag, and says which
   places hold an URB;
2. `Ownership` says that an URB is held by at most one of session thread, host stack and callback, that an
   owned URB is unanswered, and that an URB no client sent is nowhere;
3. `Slots` ties the tracker to these owners, with what an unplug or an ended connection excuses;
4. `Sessions` says how far the channel of each Session is (`ChannelInv`), and what a callback can have loaded: a null
   pointer if the connection of its URB was left, else the Session of that connection or of a later one (`HeldInv`);
5. `Causes` keeps, for each fault, the trace of what led to it.

`ContractCorrect` then maps each action to a step of `UrbContract` or a stutter: acceptance, refusal,
completion and unlink are the only steps that change an `Outcome`, and `Ownership` excludes the second one.

**`TransferTracker_proofs`**, for any threads, transfers and segments, from `TrackerAssumption` and
`OneCaller` (whoever registers also clears, one thread): `TypeOK`, `CountIsExact`, `LimitKept` and the refinement.

1. `Places`: a lock has the owner whose place says so; a transfer is in the segment of its endpoint, and so is
   the lock of a call that took it out (`taken`); one that was inserted and is not yet counted is in its segment.
2. `Exact`: the counter is the cardinality of `Counted`, which an insertion, a start or a scan leaves as it is and
   `RegisterCount`, `RemoveCount` and `ClearReset` change by the transfers of their own call. `RoomKept`, which `LimitKept`
   needs, says that the room a thread saw when it inserted is there until it counts: nobody else registers
   (`OneCaller`), and removals only make room. That `clear` may store 0 rests on `OneCaller`, too: between its
   start and its end nothing is inserted, and a segment it has done, whose lock it waited for, stays empty and
   unlocked, so what it took out is all that is counted.
3. `ContractCorrect`: the tracked set of `TrackerContract` is `Counted`; the three steps above are its steps, and all others
   stutter.

Without `OneCaller` the limit fails: two threads would compare before either counts.

**`ServerLifecycle_proofs`**, for any number of connections: the five safety properties. `Acceptance` says
from the place of `do_accept` where the thread of each session can be and which sessions are listed; `Stopping`
says what the wait of `stop` and the join have excluded, for good, and so who can still use the server:
a session that was not told, and one that was told and has a call or a channel left.

**`DeviceRegistry_proofs`**, for any sessions, plugs and addresses, from `RegistryAssumption`: all the properties
of the run.

1. `Shape`: keys and addresses agree, no device is in two containers or twice in one, and where a session is
   says what it wants and has. `available_devices` is a sequence: lemmas say what appending and removing do to
   one without duplicates.
2. `Holding`: who answers for an entry of `using_devices`.
3. `Unreused`: while no address was given twice, one user per device, and whoever is gone is marked. The three
   parts need one another: the import that moves a device out must not find a marked one's successor, and the
   unplug finds its device by the address alone. `PresentStaysExported` follows step by step.

**`WifiManager_proofs`**, for any number of retries, calls of `wifi_reconnect`, lost links and restarts, from
`WifiAssumption`: all the safety properties of the run.

1. `Places`: what the place of the main task says of the driver, the counts and the other tasks.
2. `Idle`: an attempt begins with a driver that has no link.
3. `Flags`: a flag agrees with the driver, or an event that will make it agree is in the queue.
4. `Fresh`: during the first attempt nothing is left of an earlier one.
5. `Late`: where the answer to an attempt that was given up can be (in the queue, in the bits, in a link that a
   retry tears down), which is all that `Reachable` can go wrong by.
6. `Configured`: an attempt needs a saved configuration. `Settled` uses it: when the main task is done with the access
   point, either all attempts were made, or none was for want of a configuration. This is what a flag that claims
   too much comes down to (`FlagsTrue`).
7. `Aborted`: an access point is taken away while it is being configured only by a late link or by `wifi_reconnect`.

**`SessionPipe_proofs`**, for any commands, any number of them, any device and any sizes of chunks, packets
and payloads, from the assumptions of the modules it composes (`PipeAssumption`, `CommandAssumption`,
`VirtualAssumption`, `BulkAssumption`): all the safety properties of the run but
`FramingKept` and `OpAnswered`, which follow in the next module.

1. `Places`: where the coroutines are, and what that says of the channel, the socket and the flags, above all
   that the channel is open while the session serves and was not told to stop.
2. `Stream`: the cells that were not read are the rest of the commands that were sent, from the next one on,
   and at most the beginning of a header (`Framed`). `CommandRead` shows, field by field, that the reader takes from
   such a stream exactly one command; reading, sending and breaking off then keep `Framed`. This gives `InStep`, and
   with it that the number of the command at hand is `taken + 1`, which all that follows needs.
3. `Urbs`, `Unlinks`, `Pointers`, `Queues`, `Chunks`: types that say more than `TypeOK`; of a split request, that its
   chunks in flight and its counted ones make up what was submitted, and that only the call the receiver
   is in has counters that are alive. `ControlLawful` goes through all the answers of an emulated device.
4. `Owned`: an URB is answered at most once, or in turn (`InTurn`: EPIPE and then done, for an URB that a later command
   cancelled with others), and by then nobody owes it an answer: it is not in the host stack and
   its chunks are counted or its call is over. Every step that makes a reply pays a debt (`New`,
   `ReplyStep`), and no debt arises but for the command that is taken (`OwedStep`). `OneOutcome`, and with the size
   of each new reply `ReplyFits`, follow.
5. `Causes`: the receiver writes an answer itself only after a command to an unknown endpoint, and is thrown out of
   its loop only by the failure of that write or after a command whose handler allocates with the `new` that
   throws. `FaultCauses` follows, with `OneWriter`, that the two coroutines do not write at the same time otherwise.
6. `NoneForgotten` is inductive on top of these, with its three exceptions: an URB leaves the host
   stack with a callback that answers into an open channel, and an answer is never lost (`DoneStays`). `Forgets` needs that a set of interfaces has a
   least one, the first that the loop of `on_disconnection` tells.

**`SessionWire_proofs`**, from the same assumptions and on top of that invariant: `FramingKept` and `OpAnswered`, what the
client makes of the stream. What is recursive here (`Receive`, the packet of a device list, the flattening of
the commands) is a recursive function; where an induction would be, the proof takes the least place at which the
claim fails (`LeastElement`) and shows that it does not fail there.

1. `ReceivesPiece`: a client that gets a beginning of a packet, after any earlier part of it, has that much of it as
   `partial`, and with the last cell it has the packet and nothing else. A client knows a packet's end only from
   what it read so far, so this needs that the packet says where it ends and that no shorter part of it does.
2. `Marked` is that condition. `SubmitMarked`, `UnlinkMarked`, `ImportMarked` and `DevlistMarked` show it of what the writers of
   each reply produce: that the length in the header counts what follows, for a submit only if the
   client asked for data in the direction in which it gets some (`Legible`, an invariant of every reply from
   the place that makes it, in `SessionPipe_proofs`), and for a device list through all its entries.
3. `Wire`: what the client has is all replies but the last, and of the last what is not still to be written; when
   nothing is to be written it has them all. A write that begins adds a reply, a write that goes on moves its cells,
   and a failed write is the last one of the session.
4. `Opening`: the first packet is what `parse_op` answered, complete by the time it is done; `ReceiveKeeps`, that a client
   never loses a packet it has, carries this through the transfer phase.
5. `UnreadCells`: `Framed`, which describes the unread cells by place, is the flattening that `FramingKept` speaks of.

Four things came out of these proofs. The model's guards had overlapped in places where `CASE` chooses
freely; they are now alternatives. `FramingKept` had contained a statement about the past that stands for itself
and is provable: it is now `OneWriter`, a part of `FaultCauses`. What the readers promise between two commands is stated as
a step, `InStep`, next to the predicate about the stream that TLC checks. And `Legible` failed for a
control URB whose direction and setup packet disagree: the runs had no such command. `FramingKept` was false
of it, TLC confirmed that once the instance had one, and `Misdirected` names the case.

Only model-checked: liveness (`EventuallyAnswered`, `StopTerminates`, `StopEnds`, `QueuedWritten`, `ServerStarts`,
`ConfigApplied`), which is out of the prover's reach. All other properties of the passing runs, the two
refinements among them, are theorems.

## What is left

Hazards without a property are listed in `PROJECT.json` with their reasons. A next component would be the rules of the
host stack on closing a device while an endpoint is cleared, which needs its source.

## Not modelled

* `ZeroCopyBuffer`, `NetworkPerformanceAdapter`, `UASProtocol`: compiled, not called.
* `button_manager`, `led_manager`: their use in `main.cpp` is commented out.
* `StringPool`, the web page, `tools.cpp`, the descriptor data of `device.cpp` and `interface.cpp`: constants and stateless
  conversions.
* Of the codec: the blocking twins of the coroutines and the isochronous part of replies, which
  nothing reaches. Of `wifi_manager.c`: scanning, `wifi_get_status`, URL decoding. Of `Esp32DeviceHandler`: the counters,
  `tweak_special_requests`.
* `recv_timestamps_` of `Session`, which only a log line reads: it gets an entry for every CMD_UNLINK and seldom loses
  one, and so grows with the session.
* Inside libraries: the race on the channel, which is not a concurrent one; the rules of the host stack on closing
  a device while an endpoint is cleared (the `ESP_ERROR_CHECK` of `cancel_all_transfer`).

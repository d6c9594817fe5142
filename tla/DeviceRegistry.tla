---------------------------- MODULE DeviceRegistry ----------------------------
(***************************************************************************)
(* The devices a server exports: Server::available_devices (a vector),     *)
(* Server::using_devices (a map from bus id to device) and                 *)
(* Esp32Server::host_devices (a map from USB address to device handle).    *)
(*                                                                         *)
(*   - every session has a thread that imports a device, uses it, gives it *)
(*     back and, before it ends, sweeps using_devices (on_session_exit);   *)
(*   - the USB client event thread adds the devices that are plugged and   *)
(*     removes those that are gone (client_event_callback).                *)
(*                                                                         *)
(* devices_mutex makes each access to the two containers atomic, so an     *)
(* action is one critical section.  A bus id is made from the USB address, *)
(* which the host stack may assign again once a device is gone: here an    *)
(* Address stands for both.                                                *)
(***************************************************************************)
EXTENDS Integers, Sequences, SequencesExt, FiniteSets

CONSTANTS
  Session,   \* the connections clients open
  Device,    \* the device objects: one per plug, not per piece of hardware
  Address,   \* the USB addresses; using_devices is ordered by them
  None

ASSUME RegistryAssumption ==
  /\ Address \subseteq Nat
  /\ None \notin Device \cup Address

VARIABLES
  plugged,      \* the devices that are physically there
  address,      \* the address each device was given, None while it has none
  hostDevices,  \* host_devices
  available,    \* available_devices
  using,        \* using_devices, None where there is no entry
  hasDevice,    \* Esp32DeviceHandler::has_device
  eventThread,  \* does the client event thread run?
  pc, wanted, current,  \* the sessions: where, current_import_device_id, _device
  threw,        \* the sessions whose coroutine ended with an exception
  fault         \* has the program left defined behaviour?

usbVars == <<plugged, address, hostDevices, eventThread>>
vars == <<plugged, address, hostDevices, available, using, hasDevice, eventThread,
          pc, wanted, current, threw, fault>>

Pc == {"new", "checked", "replying", "transferring", "exiting", "done"}

Init ==
  /\ plugged = {} /\ eventThread = TRUE /\ fault = FALSE
  /\ address = [d \in Device |-> None]
  /\ hostDevices = [a \in Address |-> None]
  /\ available = <<>> /\ using = [a \in Address |-> None]
  /\ hasDevice = [d \in Device |-> TRUE]
  /\ pc = [s \in Session |-> "new"]
  /\ wanted = [s \in Session |-> None] /\ current = [s \in Session |-> None]
  /\ threw = {}

Goto(s, p) == pc' = [pc EXCEPT ![s] = p]

MarkRemoved(d) == hasDevice' = [hasDevice EXCEPT ![d] = FALSE]

\* The places in available_devices that a search for a bus id can end at: the first match.
FirstAt(a) ==
  {i \in DOMAIN available :
     /\ address[available[i]] = a
     /\ \A j \in 1 .. i - 1 : address[available[j]] # a}

-----------------------------------------------------------------------------
(* Mutants: what a definition below would be with a plausible mistake in   *)
(* the code; the checks put each in its place and expect a property to     *)
(* fail.                                                                   *)

\* on_session_exit does not ask whether the device is gone.
IsGoneAlways(a) == TRUE

\* try_moving_device_to_using leaves the device among the available ones.
MoveToUsingCopy(s) ==
  /\ pc[s] = "checked"
  /\ \/ \E i \in FirstAt(wanted[s]) :
          /\ using' = [using EXCEPT ![wanted[s]] = available[i]]
          /\ current' = [current EXCEPT ![s] = available[i]]
     \/ FirstAt(wanted[s]) = {} /\ UNCHANGED <<using, current>>
  /\ Goto(s, "replying")
  /\ UNCHANGED <<usbVars, available, hasDevice, wanted, threw, fault>>

\* try_moving_device_to_available does not check that it found an entry.
EndTransferUnchecked(s) ==
  /\ pc[s] = "transferring"
  /\ available' = Append(available, using[wanted[s]])
  /\ using' = [using EXCEPT ![wanted[s]] = None]
  /\ current' = [current EXCEPT ![s] = None]
  /\ Goto(s, "exiting")
  /\ UNCHANGED <<usbVars, hasDevice, wanted, threw, fault>>

\* The device is given back before the transfers on it are stopped.
EndTransferEarly(s) ==
  /\ pc[s] = "transferring" /\ using[wanted[s]] # None
  /\ available' = Append(available, using[wanted[s]])
  /\ using' = [using EXCEPT ![wanted[s]] = None]
  /\ UNCHANGED <<usbVars, hasDevice, pc, wanted, current, threw, fault>>

\* The device is not given back.
EndTransferKeeps(s) ==
  /\ pc[s] = "transferring"
  /\ current' = [current EXCEPT ![s] = None]
  /\ Goto(s, "exiting")
  /\ UNCHANGED <<usbVars, available, using, hasDevice, wanted, threw, fault>>

\* A gone device is marked only when nobody uses it.
GoneEventAvailableOnly(a) ==
  /\ eventThread
  /\ hostDevices[a] # None /\ hostDevices[a] \notin plugged
  /\ hostDevices' = [hostDevices EXCEPT ![a] = None]
  /\ \/ \E i \in FirstAt(a) :
          MarkRemoved(available[i]) /\ available' = RemoveAt(available, i)
     \/ FirstAt(a) = {} /\ UNCHANGED <<available, hasDevice>>
  /\ UNCHANGED <<plugged, address, using, eventThread, pc, wanted, current, threw, fault>>

-----------------------------------------------------------------------------
(* on_session_exit.                                                        *)

\* on_session_exit advances its iterator after an erase as well, so within a run of gone
\* neighbours it erases every other one.
UsingKeys == {a \in Address : using[a] # None}
IsGone(a) == ~hasDevice[using[a]]
GoneRun(a) == {b \in UsingKeys : b <= a /\ \A c \in UsingKeys : b <= c /\ c <= a => IsGone(c)}
Swept == {a \in UsingKeys : Cardinality(GoneRun(a)) % 2 = 1}

-----------------------------------------------------------------------------
(* The sessions.                                                           *)

\* Anything but a valid import: a device list, an unknown request, the end of the stream.
NoImport(s) ==
  /\ pc[s] = "new"
  /\ Goto(s, "exiting")
  /\ UNCHANGED <<usbVars, available, using, hasDevice, wanted, current, threw, fault>>

\* OP_REQ_IMPORT: is_device_using, in a critical section of its own.  The refusal of a
\* device in use is built but never sent.
CheckUsing(s, a) ==
  /\ pc[s] = "new"
  /\ IF using[a] # None
     THEN Goto(s, "exiting") /\ UNCHANGED wanted
     ELSE Goto(s, "checked") /\ wanted' = [wanted EXCEPT ![s] = a]
  /\ UNCHANGED <<usbVars, available, using, hasDevice, current, threw, fault>>

\* try_moving_device_to_using
MoveToUsing(s) ==
  /\ pc[s] = "checked"
  /\ \/ \E i \in FirstAt(wanted[s]) :
          /\ using' = [using EXCEPT ![wanted[s]] = available[i]]
          /\ available' = RemoveAt(available, i)
          /\ current' = [current EXCEPT ![s] = available[i]]
     \/ FirstAt(wanted[s]) = {} /\ UNCHANGED <<using, available, current>>
  /\ Goto(s, "replying")
  /\ UNCHANGED <<usbVars, hasDevice, wanted, threw, fault>>

\* The reply is written; a failing write throws, past everything that would give the
\* device back.
ReplyImport(s) ==
  /\ pc[s] = "replying"
  /\ \/ Goto(s, IF current[s] # None THEN "transferring" ELSE "exiting") /\ UNCHANGED threw
     \/ Goto(s, "exiting") /\ threw' = threw \cup {s}
  /\ UNCHANGED <<usbVars, available, using, hasDevice, wanted, current, fault>>

\* The end of receiver_single: try_moving_device_to_available looks the device up again,
\* by its bus id.
EndTransfer(s) ==
  /\ pc[s] = "transferring"
  /\ IF using[wanted[s]] # None
     THEN /\ available' = Append(available, using[wanted[s]])
          /\ using' = [using EXCEPT ![wanted[s]] = None]
     ELSE UNCHANGED <<available, using>>
  /\ current' = [current EXCEPT ![s] = None]
  /\ Goto(s, "exiting")
  /\ UNCHANGED <<usbVars, hasDevice, wanted, threw, fault>>

\* A write inside receiver_single throws: nothing is given back.
AbortTransfer(s) ==
  /\ pc[s] = "transferring"
  /\ threw' = threw \cup {s}
  /\ Goto(s, "exiting")
  /\ UNCHANGED <<usbVars, available, using, hasDevice, wanted, current, fault>>

\* The session's thread ends with Esp32Server::on_session_exit.  When the last entry is
\* one it erases, it increments the end iterator.  The Session drops its device.
Exit(s) ==
  /\ pc[s] = "exiting"
  /\ using' = [a \in Address |-> IF a \in Swept THEN None ELSE using[a]]
  /\ fault' = \E a \in Swept : \A b \in UsingKeys : b <= a
  /\ current' = [current EXCEPT ![s] = None]
  /\ Goto(s, "done")
  /\ UNCHANGED <<usbVars, available, hasDevice, wanted, threw>>

-----------------------------------------------------------------------------
(* The USB client event thread, and the hardware.                          *)

\* NEW_DEV: the device is opened and recorded; bind_host_device exports it, unless a
\* descriptor, an interface claim or memory is missing.
NewDevice(d, a) ==
  /\ eventThread /\ address[d] = None
  /\ hostDevices[a] = None /\ \A e \in plugged : address[e] # a
  /\ plugged' = plugged \cup {d}
  /\ address' = [address EXCEPT ![d] = a]
  /\ hostDevices' = [hostDevices EXCEPT ![a] = d]
  /\ available' = Append(available, d) \/ UNCHANGED available
  /\ UNCHANGED <<using, hasDevice, eventThread, pc, wanted, current, threw, fault>>

Unplug(d) ==
  /\ d \in plugged
  /\ plugged' = plugged \ {d}
  /\ UNCHANGED <<address, hostDevices, available, using, hasDevice, eventThread, pc,
                 wanted, current, threw, fault>>

\* transfer_callback gets USB_TRANSFER_STATUS_NO_DEVICE before the event below is handled.
TransferSeesNoDevice(s) ==
  /\ pc[s] = "transferring" /\ current[s] \notin plugged
  /\ eventThread
  /\ hasDevice' = [hasDevice EXCEPT ![current[s]] = FALSE]
  /\ UNCHANGED <<usbVars, available, using, pc, wanted, current, threw, fault>>

\* DEV_GONE, remove_gone_device: what is marked is the first device found with the bus id
\* of the one that is gone, among the available ones or else among those in use.
GoneEvent(a) ==
  /\ eventThread
  /\ hostDevices[a] # None /\ hostDevices[a] \notin plugged
  /\ hostDevices' = [hostDevices EXCEPT ![a] = None]
  /\ \/ \E i \in FirstAt(a) :
          MarkRemoved(available[i]) /\ available' = RemoveAt(available, i)
     \/ /\ FirstAt(a) = {}
        /\ IF using[a] # None THEN MarkRemoved(using[a]) ELSE UNCHANGED hasDevice
        /\ UNCHANGED available
  /\ UNCHANGED <<plugged, address, using, eventThread, pc, wanted, current, threw, fault>>

\* A std::bad_alloc out of the event loop: the handles of the devices that are not
\* exported are closed, and the thread is at its end.
EventThreadOutOfMemory ==
  /\ eventThread
  /\ eventThread' = FALSE
  /\ hostDevices' =
       [a \in Address |-> IF FirstAt(a) = {} /\ using[a] = None THEN None ELSE hostDevices[a]]
  /\ UNCHANGED <<plugged, address, available, using, hasDevice, pc, wanted, current,
                 threw, fault>>

-----------------------------------------------------------------------------
SessionStep(s) ==
  \/ NoImport(s) \/ MoveToUsing(s) \/ ReplyImport(s) \/ EndTransfer(s) \/ AbortTransfer(s)
  \/ Exit(s)
  \/ \E a \in Address : CheckUsing(s, a)

UsbStep ==
  \/ \E d \in Device, a \in Address : NewDevice(d, a)
  \/ \E d \in Device : Unplug(d)
  \/ \E s \in Session : TransferSeesNoDevice(s)
  \/ \E a \in Address : GoneEvent(a)
  \/ EventThreadOutOfMemory

\* Nothing is claimed once the end iterator was incremented.
Next == ~fault /\ (UsbStep \/ \E s \in Session : SessionStep(s))

Spec == Init /\ [][Next]_vars

-----------------------------------------------------------------------------
(* Properties.                                                             *)

InUse == {using[a] : a \in Address} \ {None}
Listed == {available[i] : i \in DOMAIN available}

TypeOK ==
  /\ plugged \subseteq Device
  /\ address \in [Device -> Address \cup {None}]
  /\ hostDevices \in [Address -> Device \cup {None}]
  /\ available \in Seq(Device)
  /\ using \in [Address -> Device \cup {None}]
  /\ hasDevice \in [Device -> BOOLEAN]
  /\ eventThread \in BOOLEAN /\ fault \in BOOLEAN
  /\ pc \in [Session -> Pc]
  /\ wanted \in [Session -> Address \cup {None}]
  /\ current \in [Session -> Device \cup {None}]
  /\ threw \subseteq Session

\* A device is in one place: never twice among the available ones, never twice among those
\* in use, and never in both.
RegisteredOnce ==
  /\ \A i, j \in DOMAIN available : available[i] = available[j] => i = j
  /\ \A a, b \in Address : using[a] = using[b] /\ using[a] # None => a = b
  /\ Listed \cap InUse = {}

\* No address was given to a second device so far.
NoReuse ==
  \A d, e \in Device : d # e /\ address[d] # None => address[d] # address[e]

Holds(s, d) == current[s] = d

\* As long as no address is given twice, a device has one session, and no session has a
\* device that another could import: the check and the move of an import being two critical
\* sections, it is the second that decides.
ExclusiveUse ==
  NoReuse =>
    /\ \A s, t \in Session : current[s] = current[t] /\ current[s] # None => s = t
    /\ \A s \in Session : current[s] \notin Listed

\* As long as no address is given twice, a device that is exported and not marked as
\* removed is one whose departure was not reported yet.
GoneIsMarkedUnlessReused ==
  NoReuse =>
    \A d \in Listed \cup InUse : hasDevice[d] => hostDevices[address[d]] = d

\* A device that is there is not lost: once exported it stays exported, available or in
\* use, until it is unplugged.  (With an address given twice it can be: two imports that
\* both pass the check put two devices under one key of using_devices.)
PresentStaysExported ==
  [][ NoReuse' =>
        \A d \in plugged : d \in Listed \cup InUse => (d \in Listed \cup InUse)' ]_vars

\* An entry of using_devices belongs to a session that uses the device, unless that
\* session's coroutine threw: a device cannot get stuck in use in any other way.
NobodyElseInUse ==
  \A a \in Address : using[a] # None =>
    \E s \in Session : \/ current[s] = using[a] /\ pc[s] \in {"replying", "transferring"}
                       \/ wanted[s] = a /\ s \in threw

-----------------------------------------------------------------------------
(* What the repository says and the code does not do.                      *)

\* Esp32Server.cpp: a device among the available ones is one that no session handles.
AvailableIsUnused == \A s \in Session : current[s] \notin Listed

\* Esp32Server.cpp: a device in use may not be deleted while its session is not closed;
\* said here of the plainest case, in which no address was given twice.
UsedIsKept ==
  NoReuse => \A s \in Session : pc[s] = "transferring" => current[s] \in InUse
=============================================================================

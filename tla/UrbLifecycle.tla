---------------------------- MODULE UrbLifecycle ----------------------------
(***************************************************************************)
(* The life of the URBs of one exported device, from CMD_SUBMIT to the     *)
(* reply, across connections.  Two threads share the state:                *)
(*                                                                         *)
(*   - the session thread: Session::receiver_single reads one command at a *)
(*     time and calls the Esp32DeviceHandler inside the call (rxPc);       *)
(*   - the USB client event thread: runs transfer_callback for every       *)
(*     transfer the host stack hands back, one at a time (cbPc), and the   *)
(*     handler of the "device gone" event.                                 *)
(*                                                                         *)
(* They meet in the session pointer, the stop flag, the transfer tracker,  *)
(* and in the unlink map and the channel of the Session; each of those is  *)
(* atomic or guarded by a mutex, and an action is one thread's run between *)
(* two such accesses.  To load the session pointer and to use the Session  *)
(* it points to are two of them: the Session is an object of its own,      *)
(* destroyed some time after its receiver ended.                           *)
(*                                                                         *)
(* An URB is identified by its seqnum, which a client never reuses.        *)
(* A bulk URB is one transfer (requests of at most 64 KiB).                *)
(***************************************************************************)
EXTENDS Integers, FiniteSets

CONSTANTS
  Ctrl, Bulk, Intr, Isoc,  \* the seqnums of the URBs, by the type of their endpoint
  MaxConcurrent,           \* the capacity of the transfer tracker (32 in the firmware)
  MaxConn,                 \* bound: how many connections a client opens
  None                     \* no URB

URB == Ctrl \cup Bulk \cup Intr \cup Isoc

\* Each connection has a Session of its own.
Connection == 1 .. MaxConn

\* cancel_all_transfer walks the endpoints of the active configuration; endpoint 0
\* is not among them.  An endpoint is named by the URBs that address it.
Endpoints == {Bulk, Intr, Isoc} \ {{}}

ASSUME UrbAssumption ==
  /\ Ctrl \cap (Bulk \cup Intr \cup Isoc) = {}
  /\ Bulk \cap (Intr \cup Isoc) = {} /\ Intr \cap Isoc = {}
  /\ None \notin URB
  /\ MaxConcurrent \in Nat
  /\ MaxConn \in Nat

VARIABLES
  conn,        \* number of connections so far; the current one while rxPc # "none"
  session,     \* AbstDeviceHandler::session: the connection it points to, 0 is nullptr
  channel,     \* the transfer_channel of each Session, until that is destroyed
  stop,        \* all_transfer_should_stop
  hasDevice,   \* has_device
  unlinkMap,   \* keys of each Session's unlink_map
  tracked,     \* seqnums registered in transfer_tracker_
  inflight,    \* transfers owned by the host stack
  cancelled,   \* those of them an endpoint clear has cancelled
  freed,       \* those of them whose esp32_callback_args were deleted
  rxPc, rxUrb, rxTodo, rxThen,           \* the session thread
  cbPc, cbUrb, cbStatus, cbUnlinked,     \* the USB client event thread
  cbSession,   \* the session pointer it has loaded and is about to use
  home,        \* the connection that brought the URB, 0 if none has
  asked,       \* URBs for which a CMD_UNLINK was received
  retSubmit,   \* RET_SUBMITs queued for the client, per URB
  retUnlink,   \* RET_UNLINKs queued for the client, per URB
  fault        \* how the program left defined behaviour, "none" while it has not

rxVars   == <<rxPc, rxUrb, rxTodo, rxThen>>
cbVars   == <<cbPc, cbUrb, cbStatus, cbUnlinked, cbSession>>
usbVars  == <<inflight, cancelled, freed>>
connVars == <<conn, session, channel, stop>>
retVars  == <<retSubmit, retUnlink>>
vars == <<conn, session, channel, stop, hasDevice, unlinkMap, tracked, inflight,
          cancelled, freed, rxPc, rxUrb, rxTodo, rxThen, cbPc, cbUrb, cbStatus,
          cbUnlinked, cbSession, home, asked, retSubmit, retUnlink, fault>>

RxPc   == {"none", "attached", "opening", "idle", "alloc", "register", "submit",
           "unlink", "cancel", "clean", "detach", "clear", "unset", "close", "aborted"}
CbPc   == {"idle", "untrack", "lookup", "find", "finish", "refuse", "reply", "send",
           "remove"}
Channel == {"null", "open", "closed", "destroyed"}
Status == {"done", "canceled", "no_device"}
Faults == {"none", "freed_args", "null_session", "null_channel", "dangling_session"}

Init ==
  /\ conn = 0 /\ session = 0
  /\ channel = [s \in Connection |-> "null"]
  /\ stop = TRUE /\ hasDevice = TRUE
  /\ unlinkMap = [s \in Connection |-> {}] /\ tracked = {}
  /\ inflight = {} /\ cancelled = {} /\ freed = {}
  /\ rxPc = "none" /\ rxUrb = None /\ rxTodo = {} /\ rxThen = "idle"
  /\ cbPc = "idle" /\ cbUrb = None /\ cbStatus = "done" /\ cbUnlinked = FALSE
  /\ cbSession = 0
  /\ home = [u \in URB |-> 0] /\ asked = {}
  /\ retSubmit = [u \in URB |-> 0] /\ retUnlink = [u \in URB |-> 0]
  /\ fault = "none"

\* What the four handlers do differently.
ChecksHeap     == Bulk             \* looks at the free heap before it starts
SilentNoMemory == Intr             \* returns without a reply when it gets no transfer
ThrowingNew    == Intr \cup Isoc   \* allocates its arguments with the new that throws
MissesFailure  == Isoc             \* tests the result of the submission for err < 0

AnswerSubmit(u) == retSubmit' = [retSubmit EXCEPT ![u] = @ + 1]
AnswerUnlink(u) == retUnlink' = [retUnlink EXCEPT ![u] = @ + 1]

-----------------------------------------------------------------------------
(* What the steps have in common.                                          *)

RxGoto(pc) == rxPc' = pc /\ UNCHANGED <<rxUrb, rxTodo, rxThen>>

\* Back to the loop of receiver_single: the locals of the call are gone.
RxReturn == rxPc' = "idle" /\ rxUrb' = None /\ UNCHANGED <<rxTodo, rxThen>>
RxLeave  == rxPc' = "detach" /\ rxUrb' = None /\ UNCHANGED <<rxTodo, rxThen>>

\* An exception leaves the receiver: the coroutine ends without on_disconnection.
RxAbort  == rxPc' = "aborted" /\ rxUrb' = None /\ UNCHANGED <<rxTodo, rxThen>>

\* The loop over the endpoints, and what the caller does after it.
CancelAll(then) ==
  IF Endpoints = {}
  THEN rxPc' = then /\ UNCHANGED <<rxTodo, rxThen>>
  ELSE rxPc' = "cancel" /\ rxTodo' = Endpoints /\ rxThen' = then

CbReturn == /\ cbPc' = "idle" /\ cbUrb' = None /\ cbStatus' = "done"
            /\ cbUnlinked' = FALSE /\ cbSession' = 0

\* What the callback runs into when it uses the pointer it loaded: the Session's unlink
\* map, or its channel.
SessionFault ==
  IF cbSession = 0 THEN "null_session"
  ELSE IF channel[cbSession] = "destroyed" THEN "dangling_session" ELSE "none"

ChannelFault ==
  IF SessionFault = "none" /\ channel[cbSession] = "null" THEN "null_channel"
  ELSE SessionFault

\* The callback hands a reply to the channel of that Session; a closed one drops it.
SendSubmit ==
  IF channel[cbSession] = "open" THEN AnswerSubmit(cbUrb) ELSE UNCHANGED retSubmit
SendUnlink ==
  IF channel[cbSession] = "open" THEN AnswerUnlink(cbUrb) ELSE UNCHANGED retUnlink

Unclaimed == cbStatus = "canceled" /\ ~cbUnlinked

-----------------------------------------------------------------------------
(* Mutants: each is what one definition below would be with a plausible    *)
(* mistake in the code; the project's checks put it in that definition's   *)
(* place and expect a property to fail.                                    *)

\* The endpoint clear also marks transfers that are not in flight.
ClearEndpointAll(e) ==
  /\ rxPc = "cancel" /\ e \in rxTodo
  /\ cancelled' = cancelled \cup e
  /\ rxTodo' = rxTodo \ {e}
  /\ IF rxTodo' = {} THEN rxPc' = rxThen /\ rxThen' = "idle" ELSE UNCHANGED <<rxPc, rxThen>>
  /\ UNCHANGED <<connVars, hasDevice, unlinkMap, tracked, inflight, freed, rxUrb,
                 cbVars, home, asked, retVars, fault>>

\* No return after the resubmission: the callback goes on to reply.
ResubmitAndReply ==
  /\ cbPc = "finish" /\ Unclaimed
  /\ inflight' = inflight \cup {cbUrb}
  /\ cbPc' = "reply"
  /\ UNCHANGED <<connVars, hasDevice, unlinkMap, tracked, cancelled, freed, rxVars,
                 cbUrb, cbStatus, cbUnlinked, cbSession, home, asked, retVars, fault>>

\* A failed submission does not undo the registration.
SubmitKeepsSlot ==
  /\ rxPc = "submit"
  /\ \/ inflight' = inflight \cup {rxUrb} /\ UNCHANGED retSubmit
     \/ AnswerSubmit(rxUrb) /\ UNCHANGED inflight
  /\ RxReturn
  /\ UNCHANGED <<connVars, hasDevice, unlinkMap, tracked, cancelled, freed, cbVars,
                 home, asked, retUnlink, fault>>

\* on_disconnection forgets the stop flag.
DetachRunning ==
  /\ rxPc = "detach"
  /\ \/ hasDevice /\ CancelAll("clear") /\ UNCHANGED <<rxUrb, session>>
     \/ ~hasDevice /\ session' = 0 /\ RxGoto("close")
  /\ UNCHANGED <<conn, channel, stop, hasDevice, unlinkMap, tracked, usbVars, cbVars,
                 home, asked, retVars, fault>>

\* on_disconnection leaves the session pointer as it is.
UnsetForgotten ==
  /\ rxPc = "unset"
  /\ RxGoto("close")
  /\ UNCHANGED <<connVars, hasDevice, unlinkMap, tracked, usbVars, cbVars, home, asked,
                 retVars, fault>>

\* The reply looks the URB up in the unlink map again.
ReplyLooksAgain ==
  /\ cbPc = "send" /\ ChannelFault = "none"
  /\ \/ /\ cbUrb \in unlinkMap[cbSession]
        /\ SendUnlink /\ UNCHANGED retSubmit
        /\ cbPc' = "remove" /\ UNCHANGED <<cbUrb, cbStatus, cbUnlinked, cbSession>>
     \/ /\ cbUrb \notin unlinkMap[cbSession]
        /\ SendSubmit /\ UNCHANGED retUnlink
        /\ CbReturn
  /\ UNCHANGED <<connVars, hasDevice, unlinkMap, tracked, usbVars, rxVars, home, asked,
                 fault>>

\* Every handler returns silently when it has no memory, as the interrupt one does.
AllocSilent ==
  /\ rxPc = "alloc"
  /\ RxGoto("register") \/ RxReturn
  /\ UNCHANGED <<connVars, hasDevice, unlinkMap, tracked, usbVars, cbVars, home,
                 asked, retVars, fault>>

-----------------------------------------------------------------------------
(* The session thread.                                                     *)

\* OP_REQ_IMPORT succeeded: a new Session enters its transfer_loop (that of the connection
\* before may still be there, its thread about to end).
\* on_new_connection stores the pointer, then clears the stop flag, and only
\* then does transfer_loop create the channel.
Connect ==
  /\ rxPc = "none" /\ conn < MaxConn
  /\ conn' = conn + 1 /\ session' = conn + 1
  /\ RxGoto("attached")
  /\ UNCHANGED <<channel, stop, hasDevice, unlinkMap, tracked, usbVars, cbVars, home,
                 asked, retVars, fault>>

ClearStop ==
  /\ rxPc = "attached"
  /\ stop' = FALSE
  /\ RxGoto("opening")
  /\ UNCHANGED <<conn, session, channel, hasDevice, unlinkMap, tracked, usbVars,
                 cbVars, home, asked, retVars, fault>>

OpenChannel ==
  /\ rxPc = "opening"
  /\ channel' = [channel EXCEPT ![conn] = "open"]
  /\ RxReturn
  /\ UNCHANGED <<conn, session, stop, hasDevice, unlinkMap, tracked, usbVars,
                 cbVars, home, asked, retVars, fault>>

\* A CMD_SUBMIT for an endpoint the device has: the handle_*_transfer functions
\* check has_device first; an error code ends the session.  dispatch_urb also refuses an
\* endpoint whose attributes hold more than the transfer type, which those of an
\* isochronous one may.  The bulk handler then checks the heap, and when that is low
\* cancels every transfer and empties the tracker before it goes on.
ReceiveSubmit(u) ==
  /\ rxPc = "idle" /\ home[u] = 0
  /\ home' = [home EXCEPT ![u] = conn]
  /\ \/ (~hasDevice \/ u \in Isoc) /\ RxLeave
     \/ hasDevice /\ rxPc' = "alloc" /\ rxUrb' = u /\ UNCHANGED <<rxTodo, rxThen>>
     \/ hasDevice /\ u \in ChecksHeap /\ rxUrb' = u /\ CancelAll("clean")
  /\ UNCHANGED <<connVars, hasDevice, unlinkMap, tracked, usbVars, cbVars, asked,
                 retVars, fault>>

\* A CMD_SUBMIT for an endpoint the device does not have: an EPIPE reply is written
\* to the socket at once; a failing write throws.
UnknownEndpoint(u) ==
  /\ rxPc = "idle" /\ home[u] = 0
  /\ home' = [home EXCEPT ![u] = conn]
  /\ \/ AnswerSubmit(u) /\ RxReturn
     \/ RxAbort /\ UNCHANGED retSubmit
  /\ UNCHANGED <<connVars, hasDevice, unlinkMap, tracked, usbVars, cbVars, asked,
                 retUnlink, fault>>

\* usb_host_transfer_alloc and the callback arguments.  Without memory for the transfer
\* every handler ends the session, except the interrupt one, which just returns; for the
\* arguments the interrupt and the isochronous handler use the new that throws.
Alloc ==
  /\ rxPc = "alloc"
  /\ \/ RxGoto("register")
     \/ rxUrb \in SilentNoMemory /\ RxReturn
     \/ rxUrb \notin SilentNoMemory /\ RxLeave
     \/ rxUrb \in ThrowingNew /\ RxAbort
  /\ UNCHANGED <<connVars, hasDevice, unlinkMap, tracked, usbVars, cbVars, home,
                 asked, retVars, fault>>

Register ==
  /\ rxPc = "register"
  /\ \/ /\ Cardinality(tracked) < MaxConcurrent
        /\ tracked' = tracked \cup {rxUrb}
        /\ RxGoto("submit")
        /\ UNCHANGED retVars
     \/ /\ ~(Cardinality(tracked) < MaxConcurrent)
        /\ AnswerSubmit(rxUrb)
        /\ RxReturn
        /\ UNCHANGED <<tracked, retUnlink>>
  /\ UNCHANGED <<connVars, hasDevice, unlinkMap, usbVars, cbVars, home, asked, fault>>

\* usb_host_transfer_submit.  When it fails the registration is undone and EPIPE
\* answered.  No ESP_ERR_* code is below 0: the isochronous handler takes a failure for a
\* success.
Submit ==
  /\ rxPc = "submit"
  /\ \/ inflight' = inflight \cup {rxUrb} /\ UNCHANGED <<tracked, retSubmit>>
     \/ /\ rxUrb \notin MissesFailure
        /\ tracked' = tracked \ {rxUrb}
        /\ AnswerSubmit(rxUrb)
        /\ UNCHANGED inflight
     \/ rxUrb \in MissesFailure /\ UNCHANGED <<inflight, tracked, retSubmit>>
  /\ RxReturn
  /\ UNCHANGED <<connVars, hasDevice, unlinkMap, cancelled, freed, cbVars, home,
                 asked, retUnlink, fault>>

\* A CMD_UNLINK: recorded first, then handed to the handler.  The client sends one
\* per URB, and may send it while the reply is already on its way.
ReceiveUnlink(u) ==
  /\ rxPc = "idle" /\ home[u] = conn /\ u \notin asked
  /\ asked' = asked \cup {u}
  /\ unlinkMap' = [unlinkMap EXCEPT ![conn] = @ \cup {u}]
  /\ RxGoto("unlink")
  /\ UNCHANGED <<connVars, hasDevice, tracked, usbVars, cbVars, home, retVars, fault>>

HandleUnlink ==
  /\ rxPc = "unlink"
  /\ \/ hasDevice /\ CancelAll("idle") /\ UNCHANGED rxUrb
     \/ ~hasDevice /\ RxReturn
  /\ UNCHANGED <<connVars, hasDevice, unlinkMap, tracked, usbVars, cbVars, home,
                 asked, retVars, fault>>

\* cancel_endpoint_all_transfers: usb_host_endpoint_clear cancels the transfers the
\* endpoint still has in flight; it may fail, or find some of them finished.
ClearEndpoint(e) ==
  /\ rxPc = "cancel" /\ e \in rxTodo
  /\ \E C \in SUBSET (e \cap inflight) : cancelled' = cancelled \cup C
  /\ rxTodo' = rxTodo \ {e}
  /\ IF rxTodo' = {} THEN rxPc' = rxThen /\ rxThen' = "idle" ELSE UNCHANGED <<rxPc, rxThen>>
  /\ UNCHANGED <<connVars, hasDevice, unlinkMap, tracked, inflight, freed, rxUrb,
                 cbVars, home, asked, retVars, fault>>

\* The end of the low-memory branch of check_and_clean_memory.
CleanTracker ==
  /\ rxPc = "clean"
  /\ tracked' = {}
  /\ RxGoto("alloc")
  /\ UNCHANGED <<connVars, hasDevice, unlinkMap, usbVars, cbVars, home, asked,
                 retVars, fault>>

\* get_cmd_from_socket reports an error: the client left, or the server stops.
SocketError ==
  /\ rxPc = "idle"
  /\ RxLeave
  /\ UNCHANGED <<connVars, hasDevice, unlinkMap, tracked, usbVars, cbVars, home,
                 asked, retVars, fault>>

\* on_disconnection, up to the call of cancel_all_transfer.
Detach ==
  /\ rxPc = "detach"
  /\ stop' = TRUE
  /\ \/ hasDevice /\ CancelAll("clear") /\ UNCHANGED <<rxUrb, session>>
     \/ ~hasDevice /\ session' = 0 /\ RxGoto("close")
  /\ UNCHANGED <<conn, channel, hasDevice, unlinkMap, tracked, usbVars, cbVars, home,
                 asked, retVars, fault>>

ClearTracker ==
  /\ rxPc = "clear"
  /\ tracked' = {}
  /\ RxGoto("unset")
  /\ UNCHANGED <<connVars, hasDevice, unlinkMap, usbVars, cbVars, home, asked,
                 retVars, fault>>

UnsetSession ==
  /\ rxPc = "unset"
  /\ session' = 0
  /\ RxGoto("close")
  /\ UNCHANGED <<conn, channel, stop, hasDevice, unlinkMap, tracked, usbVars, cbVars,
                 home, asked, retVars, fault>>

\* The channel is closed, and the device can be imported again.
CloseChannel ==
  /\ rxPc = "close"
  /\ channel' = [channel EXCEPT ![conn] = "closed"]
  /\ RxGoto("none")
  /\ UNCHANGED <<conn, session, stop, hasDevice, unlinkMap, tracked, usbVars, cbVars,
                 home, asked, retVars, fault>>

\* The Session's thread, which owns it, ends some time after its receiver has.
DestroySession(s) ==
  /\ \/ channel[s] = "closed"
     \/ channel[s] = "open" /\ s = conn /\ rxPc = "aborted"
  /\ channel' = [channel EXCEPT ![s] = "destroyed"]
  /\ unlinkMap' = [unlinkMap EXCEPT ![s] = {}]
  /\ UNCHANGED <<conn, session, stop, hasDevice, tracked, usbVars, rxVars, cbVars,
                 home, asked, retVars, fault>>

-----------------------------------------------------------------------------
(* The USB client event thread.                                            *)

\* transfer_callback starts: with the stop flag set it only frees.  A transfer that an
\* endpoint clear cancelled comes back canceled, any other one finished, failed or orphaned.
CallbackStart(u) ==
  /\ cbPc = "idle" /\ u \in inflight \ freed
  /\ inflight' = inflight \ {u}
  /\ cancelled' = cancelled \ {u}
  /\ \/ stop /\ UNCHANGED cbVars
     \/ /\ ~stop
        /\ cbPc' = "untrack" /\ cbUrb' = u
        /\ cbStatus' \in IF u \in cancelled THEN {"canceled"} ELSE {"done", "no_device"}
        /\ UNCHANGED <<cbUnlinked, cbSession>>
  /\ UNCHANGED <<connVars, hasDevice, unlinkMap, tracked, freed, rxVars, home, asked,
                 retVars, fault>>

\* The callback of a resubmitted transfer reads arguments that were deleted when the
\* previous callback returned.  The block may hold the old bytes, free-list links or
\* another transfer's arguments: nothing is claimed of the program from here on.
CallbackOnFreedArgs(u) ==
  /\ cbPc = "idle" /\ u \in inflight \cap freed
  /\ fault' = "freed_args"
  /\ UNCHANGED <<connVars, hasDevice, unlinkMap, tracked, usbVars, rxVars, cbVars,
                 home, asked, retVars>>

Untrack ==
  /\ cbPc = "untrack"
  /\ tracked' = tracked \ {cbUrb}
  /\ cbPc' = "lookup"
  /\ UNCHANGED <<connVars, hasDevice, unlinkMap, usbVars, rxVars, cbUrb, cbStatus,
                 cbUnlinked, cbSession, home, asked, retVars, fault>>

\* session.load(), before the lookup and again before the reply.
LoadSession ==
  /\ \/ cbPc = "lookup" /\ cbPc' = "find"
     \/ cbPc = "reply" /\ cbPc' = "send"
  /\ cbSession' = session
  /\ UNCHANGED <<connVars, hasDevice, unlinkMap, tracked, usbVars, rxVars, cbUrb,
                 cbStatus, cbUnlinked, home, asked, retVars, fault>>

\* get_unlink_seqnum of the Session the pointer was loaded from.
Lookup ==
  /\ cbPc = "find" /\ SessionFault = "none"
  /\ cbUnlinked' = (cbUrb \in unlinkMap[cbSession])
  /\ cbPc' = "finish" /\ cbSession' = 0
  /\ UNCHANGED <<connVars, hasDevice, unlinkMap, tracked, usbVars, rxVars, cbUrb,
                 cbStatus, home, asked, retVars, fault>>

\* The switch over the transfer's status.  A canceled transfer nobody unlinked is
\* submitted again; the callback then still deletes the arguments it uses.
Resubmit ==
  /\ cbPc = "finish" /\ Unclaimed
  /\ inflight' = inflight \cup {cbUrb}
  /\ freed' = freed \cup {cbUrb}
  /\ CbReturn
  /\ UNCHANGED <<connVars, hasDevice, unlinkMap, tracked, cancelled, rxVars, home,
                 asked, retVars, fault>>

\* The resubmission failed: the session pointer is loaded to answer EPIPE, and the normal
\* reply follows.
ResubmitFailed ==
  /\ cbPc = "finish" /\ Unclaimed
  /\ cbPc' = "refuse" /\ cbSession' = session
  /\ UNCHANGED <<connVars, hasDevice, unlinkMap, tracked, usbVars, rxVars, cbUrb,
                 cbStatus, cbUnlinked, home, asked, retVars, fault>>

Refuse ==
  /\ cbPc = "refuse" /\ ChannelFault = "none"
  /\ SendSubmit
  /\ cbPc' = "reply" /\ cbSession' = 0
  /\ UNCHANGED <<connVars, hasDevice, unlinkMap, tracked, usbVars, rxVars, cbUrb,
                 cbStatus, cbUnlinked, home, asked, retUnlink, fault>>

Finish ==
  /\ cbPc = "finish" /\ ~Unclaimed
  /\ hasDevice' = (hasDevice /\ cbStatus # "no_device")
  /\ cbPc' = "reply"
  /\ UNCHANGED <<connVars, unlinkMap, tracked, usbVars, rxVars, cbUrb, cbStatus,
                 cbUnlinked, cbSession, home, asked, retVars, fault>>

\* RET_UNLINK or RET_SUBMIT, as the lookup said.
Reply ==
  /\ cbPc = "send" /\ ChannelFault = "none"
  /\ \/ /\ cbUnlinked
        /\ SendUnlink /\ UNCHANGED retSubmit
        /\ cbPc' = "remove" /\ UNCHANGED <<cbUrb, cbStatus, cbUnlinked, cbSession>>
     \/ /\ ~cbUnlinked
        /\ SendSubmit /\ UNCHANGED retUnlink
        /\ CbReturn
  /\ UNCHANGED <<connVars, hasDevice, unlinkMap, tracked, usbVars, rxVars, home, asked,
                 fault>>

\* After a RET_UNLINK the same Session forgets the unlink.
RemoveUnlink ==
  /\ cbPc = "remove" /\ SessionFault = "none"
  /\ unlinkMap' = [unlinkMap EXCEPT ![cbSession] = @ \ {cbUrb}]
  /\ CbReturn
  /\ UNCHANGED <<connVars, hasDevice, tracked, usbVars, rxVars, home, asked, retVars,
                 fault>>

\* The callback uses a pointer that was null when it loaded it, a Session that has been
\* destroyed since, or one that has no channel yet.
CallbackFault ==
  /\ \/ cbPc \in {"find", "remove"} /\ fault' = SessionFault
     \/ cbPc \in {"refuse", "send"} /\ fault' = ChannelFault
  /\ fault' # "none"
  /\ UNCHANGED <<connVars, hasDevice, unlinkMap, tracked, usbVars, rxVars, cbVars,
                 home, asked, retVars>>

\* USB_HOST_CLIENT_EVENT_DEV_GONE: the registry marks the handler's device removed.
Unplug ==
  /\ cbPc = "idle" /\ hasDevice
  /\ hasDevice' = FALSE
  /\ UNCHANGED <<connVars, unlinkMap, tracked, usbVars, rxVars, cbVars, home, asked,
                 retVars, fault>>

-----------------------------------------------------------------------------
ReceiverStep ==
  \/ ClearStop \/ OpenChannel \/ Alloc \/ Register \/ Submit \/ HandleUnlink
  \/ \E e \in Endpoints : ClearEndpoint(e)
  \/ CleanTracker \/ Detach \/ ClearTracker \/ UnsetSession \/ CloseChannel

CallbackStep ==
  \/ Untrack \/ LoadSession \/ Lookup \/ Resubmit \/ ResubmitFailed \/ Refuse \/ Finish
  \/ Reply \/ RemoveUnlink \/ CallbackFault

Client ==
  \/ Connect \/ SocketError
  \/ \E u \in URB : ReceiveSubmit(u) \/ UnknownEndpoint(u) \/ ReceiveUnlink(u)

Usb ==
  \/ Unplug
  \/ \E u \in URB : CallbackStart(u) \/ CallbackOnFreedArgs(u)

Next ==
  /\ fault = "none"
  /\ \/ ReceiverStep \/ CallbackStep \/ Client \/ Usb
     \/ \E s \in Connection : DestroySession(s)

Spec == Init /\ [][Next]_vars

\* A device finishes or refuses every control and bulk transfer; an interrupt or
\* isochronous one it may leave pending for ever.
Returned(u) == fault = "none" /\ (CallbackStart(u) \/ CallbackOnFreedArgs(u))

\* Both threads keep running; clients and the plug owe nobody anything.
Fairness ==
  /\ WF_vars(fault = "none" /\ ReceiverStep)
  /\ WF_vars(fault = "none" /\ CallbackStep)
  /\ \A u \in Ctrl \cup Bulk : WF_vars(Returned(u))

FairSpec == Spec /\ Fairness

-----------------------------------------------------------------------------
(* Properties.                                                             *)

TypeOK ==
  /\ conn \in 0 .. MaxConn /\ session \in 0 .. MaxConn
  /\ channel \in [Connection -> Channel] /\ unlinkMap \in [Connection -> SUBSET URB]
  /\ stop \in BOOLEAN /\ hasDevice \in BOOLEAN
  /\ asked \subseteq URB /\ tracked \subseteq URB
  /\ inflight \subseteq URB /\ cancelled \subseteq inflight /\ freed \subseteq inflight
  /\ rxPc \in RxPc /\ rxUrb \in URB \cup {None}
  /\ rxTodo \subseteq Endpoints /\ rxThen \in {"idle", "clean", "clear"}
  /\ cbPc \in CbPc /\ cbUrb \in URB \cup {None}
  /\ cbStatus \in Status /\ cbUnlinked \in BOOLEAN /\ cbSession \in 0 .. MaxConn
  /\ home \in [URB -> 0 .. MaxConn]
  /\ retSubmit \in [URB -> Nat] /\ retUnlink \in [URB -> Nat]
  /\ fault \in Faults

Answered(u) == retSubmit[u] > 0 \/ retUnlink[u] > 0

\* An URB the client was told about is not in the hands of the host stack any more: the
\* client may reuse its buffer.  (transfer_callback answers only what it does not
\* resubmit, and the handlers answer only what they could not submit.)
NoAnswerWhileOwned == \A u \in URB : Answered(u) => u \notin inflight

\* While a device is attached and its connection lives, a tracker slot belongs to a
\* transfer of this connection that is in flight, or whose submission or callback is about
\* to settle it: slots are not lost, so the 32 of them do not run out, and none survives
\* its connection: what on_disconnection leaves in flight is out of the tracker before the
\* next client comes.  (Isochronous URBs may keep theirs when their submission fails.)
SlotsReturned ==
  hasDevice /\ ~stop =>
    /\ \A u \in tracked \ Isoc :
         \/ u \in inflight
         \/ u = rxUrb /\ rxPc = "submit"
         \/ u = cbUrb /\ cbPc = "untrack"
    /\ \A u \in tracked : home[u] = conn

\* The stop flag guards the session pointer: whenever a callback finds it cleared, the
\* pointer is set to the current session.  (on_new_connection stores the pointer before
\* it clears the flag; on_disconnection sets the flag before it resets the pointer.)
StopGuardsSession == ~stop => session = conn /\ conn > 0

\* on_disconnection has reset the pointer to Session s.
Left(s) == s < conn \/ (s = conn /\ rxPc \in {"close", "none"})

\* What it takes to leave defined behaviour.  A null session: on_disconnection of the URB's
\* own connection overtook its callback.  A destroyed one: the same, and it did so between
\* the load of the pointer and its use, unless an exception ended the receiver without
\* on_disconnection.  A missing channel: the transfer of an earlier connection comes back
\* while the next one is being set up.  Freed arguments: a cancelled endpoint.
FaultCauses ==
  /\ fault = "null_session" => Left(home[cbUrb])
  /\ fault = "dangling_session" =>
       rxPc = "aborted" \/ (Left(home[cbUrb]) /\ cbSession # session)
  /\ fault = "null_channel" =>
       home[cbUrb] < conn /\ cbSession = conn /\ rxPc \in {"attached", "opening"}
  /\ fault = "freed_args" => freed \ Ctrl # {}

\* What the client knows of its URBs.
Outcome == [u \in URB |-> IF home[u] = 0 THEN "new"
                          ELSE IF retUnlink[u] > 0 THEN "unlinked"
                          ELSE IF retSubmit[u] > 0 THEN "done" ELSE "pending"]

\* The promise of the session to its client: an URB has one outcome, and only an URB the
\* client asked to unlink is reported unlinked.  (transfer_callback replies as its one
\* lookup of the unlink map said, and a second reply never contradicts the first.)
Contract == INSTANCE UrbContract WITH state <- Outcome
MeetsContract == Contract!Spec

ConnectionOver(u) == stop \/ conn # home[u] \/ rxPc = "aborted"

\* A control or bulk URB the session accepted is answered, unless its connection ends or
\* the program leaves defined behaviour: every path of handle_control_urb,
\* handle_bulk_transfer and transfer_callback leads to a reply or ends the session.
EventuallyAnswered ==
  \A u \in Ctrl \cup Bulk :
    home[u] > 0 ~> (Answered(u) \/ ConnectionOver(u) \/ fault # "none")

-----------------------------------------------------------------------------
(* What the repository says and the code does not do.                      *)

\* DeviceHandler.h: whatever error occurs, submit a reply packet with the session.  So an
\* interrupt URB that was accepted is answered or is pending at the device.
InterruptUrbAnswered ==
  \A u \in Intr :
    home[u] > 0 ~> (Answered(u) \/ u \in inflight \/ ConnectionOver(u) \/ fault # "none")

\* DeviceHandler.h: once on_disconnection was called, the Session may not be used.
NoUseAfterDisconnection == fault # "null_session"

=============================================================================

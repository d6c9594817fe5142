----------------------------- MODULE SessionPipe -----------------------------
(***************************************************************************)
(* A session from the first bytes on its socket to the last: the client,   *)
(* the coroutines parse_op, receiver_single (rx) and sender (tx) on the    *)
(* session's thread, the channel between the device handler and the        *)
(* sender, and the thread that stops the server.                           *)
(*                                                                         *)
(* The device is emulated (VirtualDevice) or a host device, whose URBs are *)
(* answered by the event thread: by one callback, which is one step here   *)
(* (UrbLifecycle takes it apart), or by those of the chunks (BulkSplit).   *)
(*                                                                         *)
(* Both coroutines write to the one socket.  A write goes out in one or    *)
(* two pieces; between two pieces the other coroutine may run.             *)
(***************************************************************************)
EXTENDS VirtualDevice, BulkSplit

CONSTANTS
  Setup,          \* the setup packets a client uses: a table, by number
  HostEp,         \* the endpoints of a host device but endpoint 0: address -> type
  HostCommand,    \* commands to a host device, without their sequence numbers
  VirtualCommand, \* commands to an emulated device
  MaxHost,        \* bound: how many commands a client sends to a host device
  MaxVirtual      \* bound: the same for an emulated one

ASSUME PipeAssumption ==
  /\ MaxHost \in Nat /\ MaxVirtual \in Nat
  /\ \A a \in DOMAIN HostEp : HostEp[a] \in {"Bulk", "Interrupt", "Isochronous"}

VARIABLES
  kind,        \* of the device: "host" or "emulated"
  client,      \* "op", "waits", "commands" or "closed"
  sent,        \* the commands the client sent
  toServer,    \* the cells it sent that the session has not read
  toClient,    \* what the client made of the cells it got: [packets, partial]
  op,          \* what parse_op made of the client's first request, "none" before
  rx, tx,      \* where the coroutines are
  rxOut, txOut,\* the cells each of them has yet to write
  taken,       \* how many commands the receiver handled
  rxError,     \* receiver_ec
  txError,     \* sender_ec, when it is a failed write
  socket,      \* is the session's socket open?
  stop,        \* should_immediately_stop
  posted,      \* the handler immediately_stop posts: "no", "posted", "done"
  channel,     \* "none", "open" or "closed"
  queue,       \* the replies in the channel
  writes,      \* the replies whose writing began, in this order
  mixed,       \* has a write begun while another was going on?
  unlinks,     \* unlink_map: <<the URB's number, the CMD_UNLINK's number>>
  inFlight,    \* URBs that the host stack has
  known,       \* the interface handlers that point to the session
  fault        \* how the program left defined behaviour, "none" while it has not

clientVars  == <<client, sent>>
rxVars      == <<op, rx, rxOut, taken, rxError>>
txVars      == <<tx, txOut, txError>>
channelVars == <<channel, queue>>
wireVars    == <<toClient, writes, mixed>>
stopVars    == <<stop, posted>>
deviceVars  == <<unlinks, inFlight, known, bulk>>
vars == <<kind, clientVars, toServer, rxVars, txVars, socket, stopVars, channelVars,
          wireVars, deviceVars, fault>>

Init ==
  /\ kind \in {"host", "emulated"}
  /\ client = "op" /\ sent = <<>> /\ toServer = <<>>
  /\ toClient = [packets |-> <<>>, partial |-> <<>>]
  /\ op = "none" /\ rx = "op" /\ tx = "none" /\ rxOut = <<>> /\ txOut = <<>>
  /\ taken = 0 /\ rxError = FALSE /\ txError = FALSE
  /\ socket = TRUE /\ stop = FALSE /\ posted = "no"
  /\ channel = "none" /\ queue = <<>>
  /\ writes = <<>> /\ mixed = FALSE
  /\ unlinks = {} /\ inFlight = {} /\ known = {} /\ bulk = <<>>
  /\ fault = "none"

-----------------------------------------------------------------------------
(* The session's thread runs one coroutine, or the posted handler, until   *)
(* it suspends: at a read, at a write, or at the channel.                  *)

Suspended == rx \notin {"checking", "splitting", "leaving"}
Ended     == rx \in {"closed", "aborted"}

\* Commands are handled in the order they were sent: the number of the one at hand.
Current == taken

Address(c) == c.ep + 128 * c.dir
FindEp(c) ==
  Address(c) \in {0, 128} \cup DOMAIN (IF kind = "host" THEN HostEp ELSE EpTable)

\* The URB is for an endpoint of the host device that has one of the types.
IsFor(c, types) == Address(c) \in DOMAIN HostEp /\ HostEp[Address(c)] \in types
Splits(c) == IsFor(c, {"Bulk"}) /\ c.dir = In /\ IsSplit(c.length)

UnlinkOf(s) == {u \in unlinks : u[1] = s}
IsUnlinked(s) == UnlinkOf(s) # {}
UnlinkSeqnum(s) == IF IsUnlinked(s) THEN (CHOOSE u \in UnlinkOf(s) : TRUE)[2] ELSE 0

\* async_send.  A channel that was closed takes nothing, and nobody learns of it.
Push(rs) == queue' = IF channel = "open" THEN queue \o rs ELSE queue

\* A coroutine begins to write a reply: in is what the other one still has to write.
BeginWrite(r, other) ==
  /\ writes' = Append(writes, r)
  /\ mixed' = (mixed \/ other # <<>>)

\* A piece of a write: all that is left, or all but the last cell.
Pieces(out) == {Len(out)} \cup (IF Len(out) >= HeaderCells THEN {Len(out) - 1} ELSE {})
Deliver(cells) ==
  toClient' = IF client = "closed" THEN toClient ELSE Receive(toClient, cells, sent)

-----------------------------------------------------------------------------
(* The client.                                                             *)

\* A client gives its commands their sequence numbers.
Submission   == [type : {"submit"}, seq : Nat, dir : {In, Out}, ep : Nat, length : Nat,
                 packets : Nat \cup {-1}, setup : Nat]
Cancellation == [type : {"unlink"}, seq : Nat, target : Nat]
Command      == Submission \cup Cancellation

\* A control transfer has a setup packet, and the length that packet asks for.
ASSUME CommandAssumption ==
  /\ HostCommand \subseteq Command /\ VirtualCommand \subseteq Command
  /\ \A i \in DOMAIN Setup : Setup[i].length \in Nat
  /\ \A c \in VirtualCommand :
       c.type = "submit" /\ Address(c) \in {0, 128} =>
         c.setup \in DOMAIN Setup /\ Setup[c.setup].length = c.length

Requests == {<<USBIP_VERSION, OP_REQ_DEVLIST>>, <<0, OP_REQ_IMPORT>>,
             <<USBIP_VERSION + 1, OP_REQ_IMPORT>>, <<USBIP_VERSION, USBIP_CMD_SUBMIT>>}

ClientOp ==
  /\ client = "op"
  /\ \E r \in Requests : toServer' = toServer \o OpCells(r[1], r[2])
  /\ client' = "waits"
  /\ UNCHANGED <<kind, sent, rxVars, txVars, socket, stopVars, channelVars, wireVars,
                 deviceVars, fault>>

Imported ==
  \E i \in DOMAIN toClient.packets :
    LET p == toClient.packets[i] IN
    p.type = "op_rep" /\ p.status = 0 /\ p.cells[2] = OP_REP_IMPORT

ClientSend ==
  /\ client = "waits" /\ socket /\ Imported
  /\ Len(sent) < (IF kind = "host" THEN MaxHost ELSE MaxVirtual)
  /\ \E c \in IF kind = "host" THEN HostCommand ELSE VirtualCommand :
       LET n == [c EXCEPT !.seq = Len(sent) + 1] IN
       /\ c.type = "unlink" => c.target # n.seq
       /\ sent' = Append(sent, n)
       /\ toServer' = toServer \o CommandCells(n)
  /\ UNCHANGED <<kind, client, rxVars, txVars, socket, stopVars, channelVars, wireVars,
                 deviceVars, fault>>

\* The connection breaks, inside the header of a command once there are commands.
ClientCloses ==
  /\ client # "closed" /\ socket
  /\ client' = "closed"
  /\ toServer' = toServer \o (IF Imported THEN <<USBIP_CMD_SUBMIT>> ELSE <<>>)
  /\ UNCHANGED <<kind, sent, rxVars, txVars, socket, stopVars, channelVars, wireVars,
                 deviceVars, fault>>

-----------------------------------------------------------------------------
(* parse_op.                                                               *)

\* A read ends with the cells it asked for, or with an error.
Readable(needs) == socket /\ Len(toServer) >= needs
Unreadable(needs) == ~socket \/ (client = "closed" /\ Len(toServer) < needs)
Consume(n) == toServer' = SubSeq(toServer, n + 1, Len(toServer))

OpReply(r) == rx' = "replying" /\ rxOut' = ReplyCells(r) /\ BeginWrite(r, <<>>)

\* The answer to a request for a device that another session uses is built, not sent.
NoReply == rx' = "left" /\ UNCHANGED <<rxOut, writes, mixed>>

ReadOp ==
  /\ rx = "op"
  /\ Readable(OpNeeds(toServer)) /\ Consume(OpNeeds(toServer))
  /\ \/ OpOf(toServer) = "devlist" /\ op' = "devlist" /\ OpReply(RepDevlist(<<1>>))
     \/ OpOf(toServer) = "import" /\ op' = "import" /\ OpReply(RepImport(0, 1))
     \/ OpOf(toServer) = "import" /\ op' = "missing" /\ OpReply(RepImport(4, 1))
     \/ OpOf(toServer) = "import" /\ op' = "used" /\ NoReply
     \/ OpOf(toServer) = "unknown" /\ op' = "unknown" /\ NoReply
  /\ UNCHANGED <<kind, clientVars, taken, rxError, txVars, socket, stopVars, channelVars,
                 toClient, deviceVars, fault>>

ReadOpFails ==
  /\ rx = "op" /\ Unreadable(OpNeeds(toServer))
  /\ rx' = "left"
  /\ UNCHANGED <<kind, clientVars, toServer, op, rxOut, taken, rxError, txVars, socket,
                 stopVars, channelVars, wireVars, deviceVars, fault>>

Writing == {"replying", "epipe"}

\* A write of parse_op or of the receiver makes progress.
RxWrites ==
  /\ rx \in Writing /\ rxOut # <<>> /\ socket /\ Suspended
  /\ \E n \in Pieces(rxOut) :
       /\ Deliver(SubSeq(rxOut, 1, n))
       /\ rxOut' = SubSeq(rxOut, n + 1, Len(rxOut))
  /\ UNCHANGED <<kind, clientVars, toServer, op, rx, taken, rxError, txVars, socket,
                 stopVars, channelVars, writes, mixed, deviceVars, fault>>

\* An exception: the coroutine is over, the sender's wait is cancelled, and the session is
\* destroyed with nobody told.
RxThrows ==
  /\ rx' = "aborted" /\ rxOut' = <<>>
  /\ tx' = (IF tx = "none" THEN "none" ELSE "over") /\ txOut' = <<>>
  /\ socket' = FALSE

\* The write fails, which throws.
RxWriteFails ==
  /\ rx \in Writing /\ rxOut # <<>> /\ (~socket \/ client = "closed") /\ Suspended
  /\ RxThrows
  /\ UNCHANGED <<kind, clientVars, toServer, op, taken, rxError, txError, stopVars,
                 channelVars, wireVars, deviceVars, fault>>

Replied ==
  /\ rx = "replying" /\ rxOut = <<>> /\ op # "import"
  /\ rx' = "left"
  /\ UNCHANGED <<kind, clientVars, toServer, op, rxOut, taken, rxError, txVars, socket,
                 stopVars, channelVars, wireVars, deviceVars, fault>>

\* transfer_loop: the device is told of the connection, and both coroutines start.
StartTransfer ==
  /\ rx = "replying" /\ rxOut = <<>> /\ op = "import"
  /\ known' = IF kind = "emulated" THEN OnNewConnection(known) ELSE known
  /\ channel' = "open"
  /\ rx' = "checking" /\ tx' = "checking"
  /\ UNCHANGED <<kind, clientVars, toServer, op, rxOut, taken, rxError, txOut, txError,
                 socket, stopVars, queue, wireVars, unlinks, inFlight, bulk, fault>>

\* The end of parse_op: the channel and the socket are closed.
CloseSession ==
  /\ rx = "left" /\ tx \in {"none", "over"}
  /\ rx' = "closed" /\ socket' = FALSE
  /\ channel' = IF channel = "none" THEN "none" ELSE "closed"
  /\ UNCHANGED <<kind, clientVars, toServer, op, rxOut, taken, rxError, txVars, stopVars,
                 queue, wireVars, deviceVars, fault>>

-----------------------------------------------------------------------------
(* receiver_single.  A handler runs inside the loop, in no time but for    *)
(* the loop of a split request, which the event thread can overtake.       *)

RxCheck ==
  /\ rx = "checking"
  /\ rx' = IF stop THEN "leaving" ELSE "reading"
  /\ UNCHANGED <<kind, clientVars, toServer, op, rxOut, taken, rxError, txVars, socket,
                 stopVars, channelVars, wireVars, deviceVars, fault>>

\* An unknown command is an error of the reader, like the end of the stream; receiver_ec
\* is not set for any of them.
ReadFails ==
  /\ rx = "reading"
  /\ \/ Unreadable(CommandNeeds(toServer)) /\ UNCHANGED toServer
     \/ /\ Readable(CommandNeeds(toServer)) /\ Consume(CommandNeeds(toServer))
        /\ stop \/ CommandOf(toServer).type = "unknown"
  /\ rx' = "leaving"
  /\ UNCHANGED <<kind, clientVars, op, rxOut, taken, rxError, txVars, socket, stopVars,
                 channelVars, wireVars, deviceVars, fault>>

\* The receiver has read the command c, and was not told to stop.
Read(c) ==
  /\ rx = "reading" /\ ~stop
  /\ Readable(CommandNeeds(toServer)) /\ Consume(CommandNeeds(toServer))
  /\ c = CommandOf(toServer)
  /\ taken' = taken + 1

\* It writes this answer itself.  EPIPE is the number of errno.h here, which is positive.
UnknownEndpoint ==
  /\ LET c == CommandOf(toServer)
         r == RetNoData(c.seq, EPIPE) IN
     /\ Read(c) /\ c.type = "submit" /\ ~FindEp(c)
     /\ rx' = "epipe" /\ rxOut' = ReplyCells(r) /\ BeginWrite(r, txOut)
  /\ UNCHANGED <<kind, clientVars, op, rxError, txVars, socket, stopVars, channelVars,
                 toClient, deviceVars, fault>>

EpipeWritten ==
  /\ rx = "epipe" /\ rxOut = <<>>
  /\ rx' = "checking"
  /\ UNCHANGED <<kind, clientVars, toServer, op, rxOut, taken, rxError, txVars, socket,
                 stopVars, channelVars, wireVars, deviceVars, fault>>

\* emplace: a second CMD_UNLINK of one URB is ignored.
TakeUnlink ==
  /\ LET c == CommandOf(toServer) IN
     /\ Read(c) /\ c.type = "unlink"
     /\ unlinks' = IF IsUnlinked(c.target) THEN unlinks
                                           ELSE unlinks \cup {<<c.target, c.seq>>}
  /\ rx' = "checking"
  /\ UNCHANGED <<kind, clientVars, op, rxOut, rxError, txVars, socket, stopVars,
                 channelVars, wireVars, inFlight, known, bulk, fault>>

\* An emulated device answers an URB.  An error ends the session.
Emulate ==
  /\ kind = "emulated"
  /\ LET c == CommandOf(toServer) IN
     /\ Read(c) /\ c.type = "submit" /\ FindEp(c)
     /\ \E o \in VirtualOutcomes(c, Address(c), Setup[c.setup], IsUnlinked(c.seq),
                                 UnlinkSeqnum(c.seq)) :
          /\ Push(o.replies) /\ fault' = o.fault
          /\ rxError' = o.ec /\ stop' = (stop \/ o.ec)
     /\ unlinks' = unlinks \ UnlinkOf(c.seq)
  /\ rx' = "checking"
  /\ UNCHANGED <<kind, clientVars, op, rxOut, txVars, socket, posted, channel, wireVars,
                 inFlight, known, bulk>>

\* Mutant: an URB the stack refuses is not answered.
HandToHostSilent ==
  /\ kind = "host"
  /\ LET c == CommandOf(toServer) IN
     /\ Read(c) /\ c.type = "submit" /\ FindEp(c) /\ ~Splits(c)
     /\ inFlight' \in {inFlight, inFlight \cup {c.seq}}
  /\ rx' = "checking"
  /\ UNCHANGED <<kind, clientVars, op, rxOut, rxError, txVars, socket, stopVars,
                 channelVars, wireVars, unlinks, known, bulk, fault>>

\* A host device: the URB is submitted to the stack, or answered with EPIPE at once.  The
\* interrupt handler that gets no transfer returns without a word, and the isochronous one
\* takes a failed submission for a success.
HandToHost ==
  /\ kind = "host"
  /\ LET c == CommandOf(toServer) IN
     /\ Read(c) /\ c.type = "submit" /\ FindEp(c) /\ ~Splits(c)
     /\ \/ inFlight' = inFlight \cup {c.seq} /\ UNCHANGED queue
        \/ Push(<<RetNoData(c.seq, StatusEPIPE)>>) /\ UNCHANGED inFlight
        \/ IsFor(c, {"Interrupt", "Isochronous"}) /\ UNCHANGED <<inFlight, queue>>
  /\ rx' = "checking"
  /\ UNCHANGED <<kind, clientVars, op, rxOut, rxError, txVars, socket, stopVars, channel,
                 wireVars, unlinks, known, bulk, fault>>

\* The device is gone, there is no memory for the transfer, or dispatch_urb does not know
\* the type of the endpoint: an error, which ends the session.
HandlerFails ==
  /\ kind = "host"
  /\ LET c == CommandOf(toServer) IN Read(c) /\ c.type = "submit" /\ FindEp(c)
  /\ rxError' = TRUE /\ stop' = TRUE
  /\ rx' = "checking"
  /\ UNCHANGED <<kind, clientVars, op, rxOut, txVars, socket, posted, channelVars,
                 wireVars, deviceVars, fault>>

\* Two handlers allocate their arguments with the new that throws, and what the chunks of
\* a split request share is allocated like that, too.
HandlerThrows ==
  /\ kind = "host"
  /\ LET c == CommandOf(toServer) IN
     /\ Read(c) /\ c.type = "submit"
     /\ IsFor(c, {"Interrupt", "Isochronous"}) \/ Splits(c)
  /\ RxThrows
  /\ UNCHANGED <<kind, clientVars, op, rxError, txError, stopVars, channelVars,
                 wireVars, deviceVars, fault>>

\* No memory for the aggregate: EPIPE.
SplitRequest ==
  /\ kind = "host"
  /\ LET c == CommandOf(toServer) IN
     /\ Read(c) /\ c.type = "submit" /\ FindEp(c) /\ Splits(c)
     /\ \/ StartSplit(c.seq, c.length) /\ rx' = "splitting" /\ UNCHANGED queue
        \/ /\ Push(<<RetNoData(c.seq, StatusEPIPE)>>)
           /\ rx' = "checking" /\ UNCHANGED bulk
  /\ UNCHANGED <<kind, clientVars, op, rxOut, rxError, txVars, socket, stopVars, channel,
                 wireVars, unlinks, inFlight, known, fault>>

SplitStep ==
  /\ rx = "splitting"
  /\ \/ SubmitChunk(Current) /\ UNCHANGED <<rx, queue>>
     \/ /\ ChunkRefused(Current) /\ rx' = "checking"
        /\ Push(<<RetNoData(Current, StatusEPIPE)>>)
     \/ SplitReturns(Current) /\ rx' = "checking" /\ UNCHANGED queue
  /\ UNCHANGED <<kind, clientVars, toServer, op, rxOut, taken, rxError, txVars, socket,
                 stopVars, channel, wireVars, unlinks, inFlight, known, fault>>

\* The new of a chunk's arguments throws.
SplitThrows ==
  /\ rx = "splitting" /\ ChunkRefused(Current)
  /\ RxThrows
  /\ UNCHANGED <<kind, clientVars, toServer, op, taken, rxError, txError, stopVars,
                 channelVars, wireVars, unlinks, inFlight, known, fault>>

\* on_disconnection, then the channel is closed.
Leave ==
  /\ rx = "leaving"
  /\ known' = IF kind = "emulated" THEN OnDisconnection(known, rxError) ELSE known
  /\ channel' = "closed" /\ rx' = "left"
  /\ UNCHANGED <<kind, clientVars, toServer, op, rxOut, taken, rxError, txVars, socket,
                 stopVars, queue, wireVars, unlinks, inFlight, bulk, fault>>

-----------------------------------------------------------------------------
(* The event thread of the USB host: the callbacks.                        *)

\* What a handler asks of the device.
Granted(c) ==
  CASE IsFor(c, {"Bulk"})      -> IF c.dir = In THEN Adjusted(c.length)
                                                ELSE MinOf(c.length, MaxTransfer)
    [] IsFor(c, {"Interrupt"}) -> IF c.dir = In THEN Whole(c.length) ELSE c.length
    [] OTHER                   -> c.length

\* What a transfer returns.  The status of the URB is abstracted; an Out transfer has
\* no data to write.
Result(c, n) ==
  IF c.dir = In THEN RetTransfer(c.seq, StatusOK, n) ELSE RetSubmit(c.seq, StatusOK, n, 0)

\* A CMD_UNLINK, and a bulk URB when memory is low, cancel all that a host device's
\* endpoints but endpoint 0 have in flight: the command t, taken after s, cancelled s.
Clears(t, s) ==
  /\ kind = "host" /\ s < t /\ t =< taken
  /\ sent[s].type = "submit" /\ Address(sent[s]) \notin {0, 128}
  /\ sent[t].type = "submit" => IsFor(sent[t], {"Bulk"})

Cleared(s) == \E t \in 1 .. taken : Clears(t, s)

\* Mutant: the callback answers the URB and the CMD_UNLINK that cancels it.
HostReturnsTwice(s) ==
  /\ s \in inFlight /\ inFlight' = inFlight \ {s}
  /\ Push(<<Result(sent[s], 0)>>
            \o (IF IsUnlinked(s)
                THEN <<RetUnlink(UnlinkSeqnum(s), s, StatusECONNRESET)>> ELSE <<>>))
  /\ unlinks' = unlinks \ UnlinkOf(s)
  /\ UNCHANGED <<kind, clientVars, toServer, rxVars, txVars, socket, stopVars, channel,
                 wireVars, known, bulk, fault>>

\* After on_disconnection the callback drops the URB.  The receiver that was thrown out of
\* its loop has not told the handler, which may call into a session that is gone.
\* An URB that came back canceled before a CMD_UNLINK named it was submitted again: it
\* stays in flight, and when it comes back its arguments are gone.  When that submission
\* fails it is answered twice, with EPIPE and with what the transfer got.
HostReturns(s) ==
  /\ s \in inFlight /\ inFlight' = inFlight \ {s}
  /\ \/ rx = "aborted" /\ fault' = "freed_session" /\ UNCHANGED <<queue, unlinks>>
     \/ /\ \E t \in 1 .. taken : Clears(t, s) /\ \A u \in UnlinkOf(s) : t < u[2]
        /\ fault' = "freed_args" /\ UNCHANGED <<queue, unlinks>>
     \/ rx \in {"left", "closed"} /\ UNCHANGED <<fault, queue, unlinks>>
     \/ /\ rx \notin {"left", "closed"} /\ IsUnlinked(s)
        /\ Push(<<RetUnlink(UnlinkSeqnum(s), s, StatusECONNRESET)>>)
        /\ unlinks' = unlinks \ UnlinkOf(s) /\ UNCHANGED fault
     \/ /\ rx \notin {"left", "closed"} /\ ~IsUnlinked(s)
        /\ \E n \in {0, Granted(sent[s])} :
             \/ Push(<<Result(sent[s], n)>>)
             \/ Cleared(s) /\ Push(<<RetNoData(s, StatusEPIPE), Result(sent[s], n)>>)
        /\ UNCHANGED <<unlinks, fault>>
  /\ UNCHANGED <<kind, clientVars, toServer, rxVars, txVars, socket, stopVars, channel,
                 wireVars, known, bulk>>

\* The callback that counts the last chunk answers with the whole aggregate.
ChunkCallback(s) ==
  /\ \E i \in bulk[s].flying, ok \in BOOLEAN :
       /\ ChunkReturns(s, i, ok)
       /\ IF LastChunk(s)
          THEN Push(<<RetBuffer(s, IF bulk[s].ok /\ ok THEN StatusOK ELSE StatusEPIPE,
                                sent[s].length)>>)
          ELSE UNCHANGED queue
  /\ UNCHANGED <<kind, clientVars, toServer, rxVars, txVars, socket, stopVars, channel,
                 wireVars, unlinks, inFlight, known, fault>>

LateChunk(s) ==
  /\ FreedCounters(s)
  /\ fault' = "freed_counters"
  /\ UNCHANGED <<kind, clientVars, toServer, rxVars, txVars, socket, stopVars,
                 channelVars, wireVars, deviceVars>>

-----------------------------------------------------------------------------
(* sender.  It is resumed on the session's thread.                         *)

TxCheck ==
  /\ tx = "checking" /\ Suspended
  /\ tx' = IF stop THEN "over" ELSE "waiting"
  /\ UNCHANGED <<kind, clientVars, toServer, rxVars, txOut, txError, socket, stopVars,
                 channelVars, wireVars, deviceVars, fault>>

\* Mutant: once the channel is closed the sender takes nothing from it.
TxTakeOpen ==
  /\ tx = "waiting" /\ queue # <<>> /\ channel = "open" /\ Suspended
  /\ tx' = "writing" /\ queue' = Tail(queue)
  /\ txOut' = ReplyCells(Head(queue)) /\ BeginWrite(Head(queue), rxOut)
  /\ UNCHANGED <<kind, clientVars, toServer, rxVars, txError, socket, stopVars, channel,
                 toClient, deviceVars, fault>>

\* What was queued before the channel was closed is still received.
TxTake ==
  /\ tx = "waiting" /\ queue # <<>> /\ Suspended
  /\ tx' = "writing" /\ queue' = Tail(queue)
  /\ txOut' = ReplyCells(Head(queue)) /\ BeginWrite(Head(queue), rxOut)
  /\ UNCHANGED <<kind, clientVars, toServer, rxVars, txError, socket, stopVars, channel,
                 toClient, deviceVars, fault>>

TxClosed ==
  /\ tx = "waiting" /\ queue = <<>> /\ channel = "closed" /\ Suspended
  /\ tx' = "over"
  /\ UNCHANGED <<kind, clientVars, toServer, rxVars, txOut, txError, socket, stopVars,
                 channelVars, wireVars, deviceVars, fault>>

TxWrites ==
  /\ tx = "writing" /\ socket /\ Suspended
  /\ \E n \in Pieces(txOut) :
       /\ Deliver(SubSeq(txOut, 1, n))
       /\ txOut' = SubSeq(txOut, n + 1, Len(txOut))
  /\ tx' = IF txOut' = <<>> THEN "checking" ELSE "writing"
  /\ UNCHANGED <<kind, clientVars, toServer, rxVars, txError, socket, stopVars,
                 channelVars, writes, mixed, deviceVars, fault>>

\* Mutant: the failed write throws, and the session goes with it.
TxWriteFailsThrows ==
  /\ tx = "writing" /\ (~socket \/ client = "closed") /\ Suspended
  /\ tx' = "over" /\ txOut' = <<>> /\ rx' = "aborted" /\ rxOut' = <<>>
  /\ socket' = FALSE
  /\ UNCHANGED <<kind, clientVars, toServer, op, taken, rxError, txError, stopVars,
                 channelVars, wireVars, deviceVars, fault>>

\* A write that fails ends the sender; the receiver is not told.
TxWriteFails ==
  /\ tx = "writing" /\ (~socket \/ client = "closed") /\ Suspended
  /\ tx' = "over" /\ txError' = TRUE /\ txOut' = <<>>
  /\ UNCHANGED <<kind, clientVars, toServer, rxVars, socket, stopVars, channelVars,
                 wireVars, deviceVars, fault>>

-----------------------------------------------------------------------------
(* immediately_stop, on the thread that stops the server.                  *)

ImmediatelyStop ==
  /\ posted = "no" /\ ~Ended
  /\ stop' = TRUE /\ posted' = "posted"
  /\ UNCHANGED <<kind, clientVars, toServer, rxVars, txVars, socket, channelVars,
                 wireVars, deviceVars, fault>>

\* Mutant: the channel is closed, the socket is not.
PostedCloseChannel ==
  /\ posted = "posted" /\ Suspended /\ ~Ended
  /\ posted' = "done"
  /\ channel' = IF channel = "none" THEN "none" ELSE "closed"
  /\ UNCHANGED <<kind, clientVars, toServer, rxVars, txVars, socket, stop, queue,
                 wireVars, deviceVars, fault>>

PostedClose ==
  /\ posted = "posted" /\ Suspended /\ ~Ended
  /\ posted' = "done" /\ socket' = FALSE
  /\ channel' = IF channel = "none" THEN "none" ELSE "closed"
  /\ UNCHANGED <<kind, clientVars, toServer, rxVars, txVars, stop, queue, wireVars,
                 deviceVars, fault>>

-----------------------------------------------------------------------------
Receiver ==
  \/ ReadOp \/ ReadOpFails \/ RxWrites \/ RxWriteFails \/ Replied \/ StartTransfer
  \/ RxCheck \/ ReadFails \/ UnknownEndpoint \/ EpipeWritten \/ TakeUnlink \/ Emulate
  \/ HandToHost \/ HandlerFails \/ HandlerThrows
  \/ SplitRequest \/ SplitStep \/ SplitThrows \/ Leave \/ CloseSession

Sender == TxCheck \/ TxTake \/ TxClosed \/ TxWrites \/ TxWriteFails

Callbacks == \/ \E s \in inFlight : HostReturns(s)
             \/ \E s \in DOMAIN bulk : ChunkCallback(s) \/ LateChunk(s)

Client == ClientOp \/ ClientSend \/ ClientCloses

Next ==
  /\ fault = "none"
  /\ Receiver \/ Sender \/ Callbacks \/ Client \/ ImmediatelyStop \/ PostedClose

-----------------------------------------------------------------------------
(* Fairness.  A coroutine whose completion is queued is resumed, and a     *)
(* write to a socket that is closed, on either side, fails.  A write to a  *)
(* client that is there need not make progress, and nobody has to send or  *)
(* to stop anything, or to complete an URB.                                *)

Running(A) == fault = "none" /\ A

ReceiverRuns ==
  \/ ReadOp \/ ReadOpFails \/ RxWriteFails \/ Replied \/ StartTransfer
  \/ RxCheck \/ ReadFails \/ UnknownEndpoint \/ EpipeWritten \/ TakeUnlink \/ Emulate
  \/ HandToHost \/ HandlerFails \/ HandlerThrows
  \/ SplitRequest \/ SplitStep \/ SplitThrows \/ Leave \/ CloseSession
SenderRuns == TxCheck \/ TxTake \/ TxClosed \/ TxWriteFails

Fairness ==
  /\ WF_vars(Running(ReceiverRuns))
  /\ WF_vars(Running(SenderRuns))
  /\ WF_vars(Running(PostedClose))

Spec == Init /\ [][Next]_vars /\ Fairness

-----------------------------------------------------------------------------
(* Properties.                                                             *)

Seqnums == 1 .. Len(sent)
Elements(s) == {s[i] : i \in DOMAIN s}

TypeOK ==
  /\ kind \in {"host", "emulated"}
  /\ client \in {"op", "waits", "closed"}
  /\ op \in {"none", "devlist", "import", "missing", "used", "unknown"}
  /\ rx \in {"op", "replying", "checking", "reading", "splitting", "epipe", "leaving",
             "left", "closed", "aborted"}
  /\ tx \in {"none", "checking", "waiting", "writing", "over"}
  /\ (rxOut # <<>> => rx \in Writing) /\ (txOut # <<>> => tx = "writing")
  /\ taken \in 0 .. Len(sent)
  /\ rxError \in BOOLEAN /\ txError \in BOOLEAN
  /\ socket \in BOOLEAN /\ stop \in BOOLEAN /\ mixed \in BOOLEAN
  /\ posted \in {"no", "posted", "done"}
  /\ channel \in {"none", "open", "closed"}
  /\ unlinks \subseteq Nat \X Seqnums
  /\ inFlight \subseteq Seqnums /\ known \subseteq Handled
  /\ BulkType(Seqnums)
  /\ fault \in {"none", "freed_session", "freed_args", "freed_counters", "out_of_range",
                "null_handler"}

\* The command s names an endpoint the device does not have.
Unknown(s) == sent[s].type = "submit" /\ ~FindEp(sent[s])
Split(s) == kind = "host" /\ sent[s].type = "submit" /\ Splits(sent[s])

\* The command s is for an interrupt or an isochronous endpoint of a host device.
Periodic(s) ==
  kind = "host" /\ sent[s].type = "submit" /\ IsFor(sent[s], {"Interrupt", "Isochronous"})

\* The cells of the commands that the receiver has not taken.
Unread == FlattenSeq([i \in 1 .. Len(sent) - taken |-> CommandCells(sent[taken + i])])

\* An emulated device goes by the setup packet alone: its answer has data when that asks for
\* data, also in an Out URB, after whose reply a client expects none.
Misdirected(s) ==
  /\ kind = "emulated"
  /\ sent[s].type = "submit" /\ Address(sent[s]) \in {0, 128}
  /\ sent[s].dir = Out /\ ~IsOut(Setup[sent[s].setup])

Garbled == mixed \/ \E s \in 1 .. taken : Misdirected(s)

\* What reached the client is what the session wrote, packet for packet, and when nothing
\* is being written the client is at the end of a packet: the header, the length of the
\* payload and the padding that the codec writes agree with what a client reads.  The
\* exceptions are a session whose two coroutines wrote at the same time, and a client that
\* gave a control URB the wrong direction.  Between two commands the server has read every
\* command it took to its end, and not a cell of the next.
FramingKept ==
  /\ ~Garbled => IsPrefix(toClient.packets, writes)
  /\ ~Garbled /\ client # "closed" /\ rxOut = <<>> /\ txOut = <<>>
       /\ rx # "aborted" /\ ~txError
       => toClient.packets = writes /\ toClient.partial = <<>>
  /\ rx \in {"checking", "reading", "splitting", "epipe"} =>
       IsPrefix(Unread, toServer) /\ Len(toServer) =< Len(Unread) + 1

\* The two coroutines share the socket without a lock.  They write at the same time only if
\* the client wrote to an endpoint that the device does not have.
OneWriter == mixed => \E s \in 1 .. taken : Unknown(s)

\* The receiver takes the commands one by one, in the order they were sent and as they were
\* sent, whatever the session does in between and wherever the connection breaks.
InStep ==
  [][taken' # taken =>
       taken' = taken + 1 /\ taken < Len(sent) /\ CommandOf(toServer) = sent[taken']]_vars

Replies == Elements(writes) \cup Elements(queue)
Answers(r, s) == \/ r.type = "ret_submit" /\ r.seq = s
                 \/ r.type = "ret_unlink" /\ r.target = s
AnswersTo(s) == {r \in Replies : Answers(r, s)}

\* Of an URB the client gets one answer, a RET_SUBMIT or the RET_UNLINK that cancels it,
\* never both nor two, and none while the host stack may still complete it.  The exception:
\* an URB of a host device that a later command cancelled together with others, and that
\* could not be submitted again, is first refused with EPIPE and then reported done.  There
\* is no third answer.
OneOutcome ==
  LET all == writes \o queue IN
  \A s \in Seqnums :
    /\ \A i, j \in DOMAIN all :
         i < j /\ Answers(all[i], s) /\ Answers(all[j], s) =>
           /\ Cleared(s)
           /\ all[i] = RetNoData(s, StatusEPIPE)
           /\ all[j].type = "ret_submit" /\ all[j].status = StatusOK
    /\ AnswersTo(s) # {} => s =< taken /\ s \notin inFlight

\* A standard request to an endpoint that the emulated device does not have.
NoSuchEndpoint(s) ==
  LET p == Setup[sent[s].setup] IN
  /\ kind = "emulated" /\ Address(sent[s]) \in {0, 128}
  /\ p.standard /\ p.recipient = "Endpoint"
  /\ p.index \notin {0, 128} \cup DOMAIN EpTable

\* While the session lasts, no URB it took is forgotten: it is answered, or the host stack
\* has it, or its chunks are on their way, or it is the last one, whose error ends the
\* session.  The exceptions: the handlers of a host device may forget an interrupt URB,
\* when they get no transfer for it, and an isochronous one, when its submission fails; an
\* emulated device forgets a request to an endpoint it does not have.
NoneForgotten ==
  fault = "none" /\ posted # "done" /\ rx \notin {"left", "closed", "aborted"} =>
    \A s \in 1 .. taken :
      sent[s].type = "submit" =>
        \/ AnswersTo(s) # {} \/ s \in inFlight
        \/ s \in DOMAIN bulk
        \/ rxError /\ s = taken
        \/ Periodic(s)
        \/ NoSuchEndpoint(s)

\* The requests whose answer has a size of its own, whatever length was asked for.
FixedSize(s) ==
  /\ kind = "emulated"
  /\ Setup[sent[s].setup].request \in {"GetStatus", "GetConfiguration", "GetInterface",
                                       "GetProtocol"}

\* A reply has no more data than the client asked for, except those of a fixed size and
\* what a host device gives for a length that is not a multiple of its packet size.
ReplyFits ==
  \A r \in Replies :
    r.type = "ret_submit" =>
      \/ r.data =< sent[r.seq].length
      \/ FixedSize(r.seq)
      \/ kind = "host" /\ sent[r.seq].length % MaxPacketSize # 0

\* The program stays in defined behaviour unless a client split a request, or wrote to an
\* unknown endpoint and its connection broke, or there was no memory for the arguments of
\* an interrupt, an isochronous or a split URB, or a command cancelled the URBs of others,
\* or the client asked an emulated device for an interface it does not have, or for the
\* configuration when an interface has no handler.  Nor do its two coroutines write to the
\* socket at the same time but for an unknown endpoint.
FaultCauses ==
  /\ OneWriter
  /\ fault = "freed_counters" => \E s \in 1 .. taken : Split(s)
  /\ fault = "freed_session" =>
       \/ (\E s \in 1 .. taken : Unknown(s)) /\ (client = "closed" \/ posted = "done")
       \/ \E s \in 1 .. taken : Periodic(s) \/ Split(s)
  /\ fault = "freed_args" => \E s \in 1 .. taken : Cleared(s)
  /\ fault = "out_of_range" =>
       \E s \in 1 .. taken :
         sent[s].type = "submit" /\ Setup[sent[s].setup].index \notin Interface
  /\ fault = "null_handler" => Handled # Interface

\* No handler of an interface keeps its pointer to a session that is over, unless an error
\* ended the session: then only the first of them is told.
HandlersForget ==
  /\ rx \in {"left", "closed"} /\ ~rxError => known = {}
  /\ rx \in {"left", "closed"} => Cardinality(known) < Cardinality(Handled) \/ Handled = {}

\* A client that asked for the list, or for a device that is free or unknown, and stayed,
\* got its answer by the end of the session, whole and of the kind it asked for.
OpAnswered ==
  (rx = "closed" \/ sent # <<>>) /\ client # "closed" /\ posted = "no" =>
    /\ op \in {"devlist", "import", "missing"} =>
         /\ toClient.packets # <<>>
         /\ LET p == toClient.packets[1] IN
            /\ p.type = "op_rep" /\ (p.status = 0) = (op # "missing")
            /\ (p.cells[2] = OP_REP_DEVLIST) = (op = "devlist")
    /\ op \in {"used", "unknown"} => toClient.packets = <<>> /\ toClient.partial = <<>>

\* Once the server has posted the closing of a session, the session ends, whatever it was
\* doing: reading, waiting for a reply, or writing to a client that does not read.
StopEnds == posted = "posted" ~> (Ended \/ fault # "none")

\* The client does not read what is written to it.
Stalled == rxOut # <<>> \/ txOut # <<>>

\* Replies in the channel are written, also after the end of the commands, unless the
\* client stops reading for good; only a failed write, an error or the stop of the session
\* drops them.
QueuedWritten ==
  \/ <>[]Stalled
  \/ queue # <<>> ~> (queue = <<>> \/ txError \/ stop \/ Ended \/ fault # "none")
=============================================================================

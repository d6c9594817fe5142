------------------------------ MODULE WireCodec ------------------------------
(***************************************************************************)
(* USB/IP packets on a socket: what the server writes, how much of the     *)
(* stream its readers take, and how a client splits what it receives.      *)
(*                                                                         *)
(* A stream is a sequence of cells.  A cell is a field of a header, or a   *)
(* unit of payload, which is 0.  The fields of the transfer phase have 4   *)
(* bytes, so that the 48 bytes of a header are 12 cells; a bus id and a    *)
(* path are one field, like the class of an interface.  Byte order and the *)
(* bits of a setup packet are abstracted: a setup packet is its number in  *)
(* a table, and 0.                                                         *)
(*                                                                         *)
(* No handler gives a reply isochronous packet descriptors, so a reply has *)
(* none.                                                                   *)
(***************************************************************************)
EXTENDS Integers, SequencesExt

USBIP_VERSION  == 273
OP_REQ_IMPORT  == 32771
OP_REP_IMPORT  == 3
OP_REQ_DEVLIST == 32773
OP_REP_DEVLIST == 5
USBIP_CMD_SUBMIT == 1
USBIP_CMD_UNLINK == 2
USBIP_RET_SUBMIT == 3
USBIP_RET_UNLINK == 4

Out == 0
In  == 1

\* UrbStatusType.  EPIPE itself is the positive number of errno.h.
StatusOK         == 0
StatusECONNRESET == -104
StatusEPIPE      == -32
EPIPE            == 32

HeaderCells == 12     \* the 48 bytes that every packet of the transfer phase has
DeviceCells == 14     \* the fields of a device: path, bus id, ..., number of interfaces

Units(n) == [i \in 1 .. n |-> 0]

\* An URB that is not isochronous has no packets, or 0xFFFFFFFF, which is -1 here.
PacketCells(n) == IF n \in {0, -1} THEN 0 ELSE 4 * n

Basic(command, seq, direction, ep) == <<command, seq, 0, direction, ep>>

-----------------------------------------------------------------------------
(* What a client sends.  c is a command: [type, seq, dir, ep, length,      *)
(* packets, setup] for a CMD_SUBMIT, [type, seq, target] for a CMD_UNLINK. *)

SubmitCells(c) ==
  Basic(USBIP_CMD_SUBMIT, c.seq, c.dir, c.ep)
    \o <<0, c.length, 0, c.packets, 0, c.setup, 0>>
    \o (IF c.dir = Out THEN Units(c.length) ELSE <<>>)
    \o Units(PacketCells(c.packets))

UnlinkCells(c) == Basic(USBIP_CMD_UNLINK, c.seq, 0, 0) \o <<c.target>> \o Units(6)

CommandCells(c) == IF c.type = "submit" THEN SubmitCells(c) ELSE UnlinkCells(c)

\* op is the code a client asks for; a bus id follows OP_REQ_IMPORT.
OpCells(version, op) ==
  <<version, op, 0>> \o (IF op = OP_REQ_IMPORT THEN Units(1) ELSE <<>>)

-----------------------------------------------------------------------------
(* What the server reads.                                                  *)

\* Mutant: the payload of an Out command is left on the socket.
CommandNeedsHeader(s) ==
  IF s = <<>> THEN 1
  ELSE IF s[1] = USBIP_CMD_UNLINK THEN HeaderCells
  ELSE IF s[1] # USBIP_CMD_SUBMIT THEN 1
  ELSE IF Len(s) < HeaderCells THEN HeaderCells
  ELSE HeaderCells + PacketCells(s[9])

\* How many cells get_cmd_from_socket takes of a stream that begins with s: each field
\* it has read says how much more it reads.  It reads no payload after an In command.
CommandNeeds(s) ==
  IF s = <<>> THEN 1
  ELSE IF s[1] = USBIP_CMD_UNLINK THEN HeaderCells
  ELSE IF s[1] # USBIP_CMD_SUBMIT THEN 1
  ELSE IF Len(s) < HeaderCells THEN HeaderCells
  ELSE HeaderCells + (IF s[4] = In THEN 0 ELSE s[7]) + PacketCells(s[9])

\* Mutant: the direction and the endpoint are read in the wrong order.
CommandOfSwapped(s) ==
  CASE s[1] = USBIP_CMD_SUBMIT ->
         [type |-> "submit", seq |-> s[2], dir |-> s[5], ep |-> s[4],
          length |-> s[7], packets |-> s[9], setup |-> s[11]]
    [] s[1] = USBIP_CMD_UNLINK -> [type |-> "unlink", seq |-> s[2], target |-> s[6]]
    [] OTHER -> [type |-> "unknown"]

\* The command it makes of them, "unknown" for the error UNKNOWN_CMD.
CommandOf(s) ==
  CASE s[1] = USBIP_CMD_SUBMIT ->
         [type |-> "submit", seq |-> s[2], dir |-> s[4], ep |-> s[5],
          length |-> s[7], packets |-> s[9], setup |-> s[11]]
    [] s[1] = USBIP_CMD_UNLINK -> [type |-> "unlink", seq |-> s[2], target |-> s[6]]
    [] OTHER -> [type |-> "unknown"]

GoodVersion(v) == v \in {0, USBIP_VERSION}

\* get_op_from_socket reads no further than a version or a code it does not know.
OpNeeds(s) ==
  IF s = <<>> THEN 1
  ELSE IF ~GoodVersion(s[1]) THEN 1
  ELSE IF Len(s) = 1 THEN 2
  ELSE CASE s[2] = OP_REQ_IMPORT  -> 4
         [] s[2] = OP_REQ_DEVLIST -> 3
         [] OTHER                 -> 2

OpOf(s) ==
  IF ~GoodVersion(s[1]) THEN "unknown"
  ELSE CASE s[2] = OP_REQ_IMPORT  -> "import"
         [] s[2] = OP_REQ_DEVLIST -> "devlist"
         [] OTHER                 -> "unknown"

-----------------------------------------------------------------------------
(* The replies of the server, and the cells they are written as.  data is  *)
(* the number of units of payload that follow the header.                  *)

RetSubmit(seq, status, actual, data) ==
  [type |-> "ret_submit", seq |-> seq, status |-> status, actual |-> actual,
   data |-> data]

\* create_ret_submit_with_status_and_no_data and its kin
RetNoData(seq, status) == RetSubmit(seq, status, 0, 0)

\* create_ret_submit_with_status_and_no_iso and its kin: the length is that of the buffer
RetBuffer(seq, status, size) == RetSubmit(seq, status, size, size)

\* Zero copy: actual_length bytes are written from the buffer of the transfer.
RetTransfer(seq, status, actual) == RetSubmit(seq, status, actual, actual)

RetUnlink(seq, target, status) ==
  [type |-> "ret_unlink", seq |-> seq, target |-> target, status |-> status]

\* Of how many interfaces a device has, the client learns from the device's last field.
DeviceFields(interfaces) == Units(DeviceCells - 1) \o <<interfaces>>

\* Mutant: a failed import says that it succeeded.
RepImportOk(status, interfaces) ==
  [type |-> "op_rep", status |-> 0,
   cells |-> <<USBIP_VERSION, OP_REP_IMPORT, 0>> \o DeviceFields(interfaces)]

RepImport(status, interfaces) ==
  [type |-> "op_rep", status |-> status,
   cells |-> <<USBIP_VERSION, OP_REP_IMPORT, status>>
               \o (IF status = 0 THEN DeviceFields(interfaces) ELSE <<>>)]

\* devices: of each available device the number of its interfaces
RepDevlist(devices) ==
  [type |-> "op_rep", status |-> 0,
   cells |-> <<USBIP_VERSION, OP_REP_DEVLIST, 0, Len(devices)>>
               \o FlattenSeq([i \in DOMAIN devices |->
                                DeviceFields(devices[i]) \o Units(devices[i])])]

RetSubmitCells(r) ==
  Basic(USBIP_RET_SUBMIT, r.seq, 0, 0)
    \o <<r.status, r.actual, 0, 0, 0>> \o Units(2) \o Units(r.data)

RetUnlinkCells(r) == Basic(USBIP_RET_UNLINK, r.seq, 0, 0) \o <<r.status>> \o Units(6)

ReplyCells(r) ==
  CASE r.type = "ret_submit" -> RetSubmitCells(r)
    [] r.type = "ret_unlink" -> RetUnlinkCells(r)
    [] OTHER                 -> r.cells

-----------------------------------------------------------------------------
(* The client, which is outside the repository: it takes one packet after  *)
(* the other off the stream.  sent are its commands, by sequence number.   *)

IsOpReply(s) == s[1] = USBIP_VERSION

\* After so many cells the i-th device ends, 0 while it is not there.
DevlistNeeds(s) ==
  LET end[i \in 0 .. s[4]] ==
        IF i = 0 THEN 4
        ELSE LET begin == end[i - 1] IN
             IF begin = 0 \/ Len(s) < begin + DeviceCells THEN 0
             ELSE begin + DeviceCells + s[begin + DeviceCells]
  IN  IF end[s[4]] = 0 THEN Len(s) + 1 ELSE end[s[4]]

ReplyNeeds(s, sent) ==
  IF Len(s) < 3 THEN 3 ELSE
  CASE IsOpReply(s) /\ s[2] = OP_REP_IMPORT ->
         3 + (IF s[3] = 0 THEN DeviceCells ELSE 0)
    [] IsOpReply(s) /\ s[2] = OP_REP_DEVLIST ->
         IF Len(s) < 4 THEN 4 ELSE DevlistNeeds(s)
    [] OTHER ->
         IF Len(s) < HeaderCells THEN HeaderCells
         ELSE IF /\ s[1] = USBIP_RET_SUBMIT
                 /\ s[2] \in DOMAIN sent
                 /\ sent[s[2]].type = "submit" /\ sent[s[2]].dir = In
              THEN HeaderCells + s[7]
              ELSE HeaderCells

ReplyOf(s, sent) ==
  CASE s[1] = USBIP_RET_SUBMIT -> RetSubmit(s[2], s[6], s[7], Len(s) - HeaderCells)
    [] s[1] = USBIP_RET_UNLINK /\ s[2] \in DOMAIN sent /\ sent[s[2]].type = "unlink" ->
         RetUnlink(s[2], sent[s[2]].target, s[6])
    [] IsOpReply(s) -> [type |-> "op_rep", status |-> s[3], cells |-> s]
    [] OTHER -> [type |-> "garbage"]

\* p.partial is the packet that is not complete.
TakeCell(p, cell, sent) ==
  LET partial == Append(p.partial, cell) IN
  IF Len(partial) < ReplyNeeds(partial, sent)
  THEN [packets |-> p.packets, partial |-> partial]
  ELSE [packets |-> Append(p.packets, ReplyOf(partial, sent)), partial |-> <<>>]

\* The client takes the cells one by one.
Receive(p, cells, sent) ==
  LET after[n \in 0 .. Len(cells)] ==
        IF n = 0 THEN p ELSE TakeCell(after[n - 1], cells[n], sent)
  IN  after[Len(cells)]
=============================================================================

---------------------------- MODULE VirtualDevice ----------------------------
(***************************************************************************)
(* How an emulated device answers an URB.  It answers in the call that     *)
(* hands it the URB, so a request has outcomes rather than steps:          *)
(*   - replies, which it submits to the session;                           *)
(*   - ec, an error that ends the session;                                 *)
(*   - fault, how the program left defined behaviour, or "none".           *)
(* What a subclass provides (status and contents) is chosen freely; what   *)
(* it has to override is in the sets below.                                *)
(*                                                                         *)
(* A setup packet is a record [standard, recipient, in, request, value,    *)
(* index, length]: in is the direction bit, value the type of a            *)
(* descriptor, index an interface, the address of an endpoint, or 0.       *)
(***************************************************************************)
EXTENDS WireCodec, FiniteSets

CONSTANTS
  Interfaces,   \* the interfaces of the device: 0 .. Interfaces - 1
  Handled,      \* those that have a handler
  Hid,          \* those whose handler is a HidVirtualInterfaceHandler
  EpTable       \* its endpoints but endpoint 0: address -> interface

ASSUME VirtualAssumption ==
  /\ Interfaces \in Nat
  /\ Handled \subseteq 0 .. Interfaces - 1 /\ Hid \subseteq Handled
  /\ IsFiniteSet(DOMAIN EpTable)

Interface == 0 .. Interfaces - 1

\* A request with no data stage counts as one to the device, whatever its direction bit.
IsOut(p) == ~p.in \/ p.length = 0

Outcome(replies, ec, fault) == [replies |-> replies, ec |-> ec, fault |-> fault]
Answer(r)  == Outcome(<<r>>, FALSE, "none")
Refuse(c)  == Answer(RetNoData(c.seq, StatusEPIPE))
Fail(c)    == Outcome(<<RetNoData(c.seq, StatusEPIPE)>>, TRUE, "none")
Silence    == Outcome(<<>>, FALSE, "none")
Error      == Outcome(<<>>, TRUE, "none")
Fault(f)   == Outcome(<<>>, FALSE, f)

\* What an overridden function may make of the status.
HandlerStatus == {StatusOK, StatusEPIPE}

AnswerData(c, statuses, sizes) ==
  {Answer(RetBuffer(c.seq, st, n)) : st \in statuses, n \in sizes}
AnswerStatus(c, statuses) == {Answer(RetNoData(c.seq, st)) : st \in statuses}

Least(a, b) == IF a =< b THEN a ELSE b

-----------------------------------------------------------------------------
(* Descriptors.  Each is cut to the length that was asked for.             *)

\* Each interface adds its own descriptor and those of its endpoints.
\* get_class_specific_descriptor is overridden; that of a HID interface has 9 bytes.
ConfigurationSize ==
  9 + 9 * Interfaces + 9 * Cardinality(Hid)
    + 7 * Cardinality({e \in DOMAIN EpTable : EpTable[e] \in Interface})

\* The sizes a descriptor may have; that of a string depends on the string.
DescriptorSizes(value, length) ==
  CASE value = "Device"          -> {18}
    [] value = "Configuration"   -> {ConfigurationSize}
    [] value = "DeviceQualifier" -> {10}
    [] value = "BOS"             -> {5}
    [] value = "String"          -> {4, 18}
    [] value = "OtherSpeedConfiguration" -> {0, length + 1}
    [] OTHER                     -> {0}

\* Mutant: the whole descriptor is sent, whatever length was asked for.
GetDescriptorUncut(c, p) ==
  IF p.value = "Configuration" /\ Handled # Interface THEN {Fault("null_handler")}
  ELSE AnswerData(c, {StatusOK}, DescriptorSizes(p.value, p.length))

\* Of a string index that is not in the pool there is no descriptor.
GetDescriptor(c, p) ==
  LET cut == {Least(n, p.length) : n \in DescriptorSizes(p.value, p.length)} IN
  CASE p.value = "Configuration" /\ Handled # Interface -> {Fault("null_handler")}
    [] p.value = "NoString" -> AnswerData(c, {StatusEPIPE}, {0})
    [] p.value = "OtherSpeedConfiguration" -> AnswerData(c, HandlerStatus, cut)
    [] OTHER -> AnswerData(c, {StatusOK}, cut)

\* A HID interface has a report descriptor; other handlers refuse unless they override it.
GetInterfaceDescriptor(c, i, p) ==
  IF i \in Hid
  THEN IF p.value = "Report" THEN AnswerData(c, {StatusOK}, {p.length, Least(3, p.length)})
                             ELSE AnswerData(c, {StatusEPIPE}, {0})
  ELSE AnswerData(c, {StatusEPIPE}, {0})

-----------------------------------------------------------------------------
(* Standard requests.                                                      *)

DeviceOut == {"ClearFeature", "SetAddress", "SetConfiguration", "SetDescriptor",
              "SetFeature"}

\* An In request it does not know gets an empty reply that says OK.
StandardDevice(c, p) ==
  IF IsOut(p)
  THEN AnswerStatus(c, IF p.request \in DeviceOut THEN HandlerStatus ELSE {StatusEPIPE})
  ELSE CASE p.request = "GetConfiguration" -> AnswerData(c, {StatusOK}, {1})
         [] p.request = "GetDescriptor"    -> GetDescriptor(c, p)
         [] p.request = "GetStatus"        -> AnswerData(c, HandlerStatus, {2})
         [] OTHER                          -> AnswerData(c, {StatusOK}, {0})

InterfaceOut == {"ClearFeature", "SetFeature", "SetInterface"}

StandardInterface(c, p) ==
  IF p.index \notin Interface THEN {Fault("out_of_range")}
  ELSE IF p.index \notin Handled THEN {Fail(c)}
  ELSE IF IsOut(p)
  THEN AnswerStatus(c, IF p.request \in InterfaceOut THEN HandlerStatus ELSE {StatusOK})
  ELSE CASE p.request = "GetInterface"  -> AnswerData(c, HandlerStatus, {1})
         [] p.request = "GetStatus"     -> AnswerData(c, HandlerStatus, {2})
         [] p.request = "GetDescriptor" -> GetInterfaceDescriptor(c, p.index, p)
         [] OTHER                       -> AnswerData(c, {StatusOK}, {0})

EndpointOut == {"ClearFeature", "SetFeature"}

\* A request to an endpoint the device does not have is not answered; one to endpoint 0,
\* which is no interface's, ends the session.
StandardEndpoint(c, p) ==
  IF p.index \in {0, 128} THEN {Fail(c)}
  ELSE IF p.index \notin DOMAIN EpTable THEN {Silence}
  ELSE IF EpTable[p.index] \notin Handled THEN {Fail(c)}
  ELSE IF IsOut(p)
  THEN AnswerStatus(c, IF p.request \in EndpointOut THEN HandlerStatus ELSE {StatusOK})
  ELSE CASE p.request = "GetStatus"  -> AnswerData(c, HandlerStatus, {2})
         [] p.request = "SynchFrame" -> AnswerData(c, HandlerStatus, {0})
         [] OTHER                    -> AnswerData(c, {StatusOK}, {0})

Standard(c, p) ==
  CASE p.recipient = "Device"    -> StandardDevice(c, p)
    [] p.recipient = "Interface" -> StandardInterface(c, p)
    [] p.recipient = "Endpoint"  -> StandardEndpoint(c, p)
    [] OTHER                     -> {Refuse(c)}

-----------------------------------------------------------------------------
(* Class requests, which the device hands to an interface's handler.       *)

HidOut == {"SetIdle", "SetProtocol", "SetReport"}

\* GetIdle and GetReport are cut to the length that was asked for; GetProtocol is 1 byte.
HidRequest(c, p) ==
  IF IsOut(p)
  THEN AnswerData(c, IF p.request \in HidOut THEN HandlerStatus ELSE {StatusEPIPE}, {0})
  ELSE CASE p.request \in {"GetIdle", "GetReport"} ->
              AnswerData(c, HandlerStatus, {0, p.length})
         [] p.request = "GetProtocol" -> AnswerData(c, HandlerStatus, {1})
         [] OTHER -> AnswerData(c, {StatusEPIPE}, {0})

\* The recipient "Endpoint" is taken for an interface, too: index is used as its number.
NonStandard(c, p) ==
  CASE p.recipient = "Device" -> AnswerStatus(c, HandlerStatus)
    [] p.recipient \in {"Interface", "Endpoint"} ->
         IF p.index \notin Interface THEN {Fault("out_of_range")}
         ELSE IF p.index \notin Handled THEN {Fail(c)}
         ELSE IF p.recipient = "Interface" /\ p.index \in Hid THEN HidRequest(c, p)
         ELSE AnswerData(c, {StatusEPIPE}, {0})
    [] OTHER -> {Refuse(c)}

Control(c, p) == IF p.standard THEN Standard(c, p) ELSE NonStandard(c, p)

\* Bulk, interrupt and isochronous URBs: the handlers of interfaces refuse them unless
\* they override it.  The attributes of an endpoint that hold more than the transfer type
\* are an error, and so is an endpoint of no interface.
Transfer(c) == {Refuse(c), Error}

\* dispatch_urb of an emulated device; unlinked says whether the session's unlink map has
\* the URB, unlink the command that put it there, p its setup packet.
VirtualOutcomes(c, address, p, unlinked, unlink) ==
  IF unlinked THEN {Answer(RetUnlink(unlink, c.seq, StatusECONNRESET))}
  ELSE IF address \in {0, 128} THEN Control(c, p)
  ELSE Transfer(c)

-----------------------------------------------------------------------------
(* The handlers of the interfaces keep a pointer to the session: known.    *)

OnNewConnection(known) == known \cup Handled

\* Mutant: the loop stops at the first handler in any case.
OnDisconnectionFirst(known, ec) == known \ {i \in Handled : \A j \in Handled : i =< j}

\* The loop that tells the handlers stops at the first of them when the session ends with
\* an error: it tests the error it was called with.
OnDisconnection(known, ec) ==
  IF ec THEN known \ {i \in Handled : \A j \in Handled : i =< j} ELSE known \ Handled
=============================================================================

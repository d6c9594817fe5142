---------------------------- MODULE MCSessionPipe ----------------------------
(***************************************************************************)
(* A device with three interfaces: 0 is a HID interface, 1 has no handler, *)
(* 2 has one.  Endpoint 0x81 belongs to interface 0, endpoint 2 to         *)
(* interface 1.                                                            *)
(***************************************************************************)
EXTENDS SessionPipe
LOCAL INSTANCE TLC

MCEpTable == (129 :> 0) @@ (2 :> 1)

Packet(standard, recipient, in, request, value, index, length) ==
  [standard |-> standard, recipient |-> recipient, in |-> in, request |-> request,
   value |-> value, index |-> index, length |-> length]

MCSetup == <<
  Packet(TRUE,  "Device",    TRUE,  "GetDescriptor",    "Device", 0, 3),
  Packet(TRUE,  "Device",    TRUE,  "GetDescriptor",    "Configuration", 0, 3),
  Packet(TRUE,  "Device",    TRUE,  "GetStatus",        "", 0, 1),
  Packet(TRUE,  "Device",    FALSE, "SetConfiguration", "", 0, 0),
  Packet(TRUE,  "Interface", TRUE,  "GetDescriptor",    "Report", 0, 2),
  Packet(TRUE,  "Interface", TRUE,  "GetInterface",     "", 1, 1),
  Packet(TRUE,  "Endpoint",  FALSE, "ClearFeature",     "", 129, 0),
  Packet(TRUE,  "Endpoint",  FALSE, "ClearFeature",     "", 5, 0),
  Packet(FALSE, "Interface", TRUE,  "GetReport",        "", 0, 2),
  Packet(FALSE, "Interface", FALSE, "SetReport",        "", 3, 1) >>

Submit(dir, ep, length, packets, setup) ==
  [type |-> "submit", seq |-> 0, dir |-> dir, ep |-> ep, length |-> length,
   packets |-> packets, setup |-> setup]
Unlink(target) == [type |-> "unlink", seq |-> 0, target |-> target]

MCHostEp == (129 :> "Bulk") @@ (2 :> "Interrupt")

MCHostCommand == {
  Submit(In, 1, 3, -1, 0), Submit(In, 1, 5, 0, 0), Submit(Out, 2, 1, 0, 0),
  Submit(Out, 7, 1, 1, 0), Unlink(1) }

MCVirtualCommand ==
  {Submit(IF MCSetup[i].in THEN In ELSE Out, 0, MCSetup[i].length, 0, i) : i \in DOMAIN MCSetup}
    \cup {Submit(In, 1, 1, 0, 1), Submit(In, 3, 1, 0, 1), Submit(Out, 0, 1, 0, 3), Unlink(2)}
=============================================================================

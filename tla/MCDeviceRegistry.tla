--------------------------- MODULE MCDeviceRegistry ---------------------------
(***************************************************************************)
(* DeviceRegistry for TLC.  Sessions and devices are interchangeable;      *)
(* addresses are not, using_devices is ordered by them.                    *)
(***************************************************************************)
EXTENDS DeviceRegistry, TLC

Symmetry == Permutations(Session) \cup Permutations(Device)
=============================================================================

---------------------------- MODULE MCDeviceAccess ----------------------------
(* A small instance of the devices, users and tokens. *)
EXTENDS DeviceAccess, TLC
Symmetry == Permutations(Slots) \cup Permutations(Ids)
=============================================================================

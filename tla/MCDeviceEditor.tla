--------------------------- MODULE MCDeviceEditor ---------------------------
(* DeviceEditor for TLC: the slots of the request handlers are interchangeable. *)
EXTENDS DeviceEditor, TLC

Slots == Permutations(Req)
=============================================================================

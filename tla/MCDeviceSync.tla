---------------------------- MODULE MCDeviceSync ----------------------------
(* DeviceSync on a small instance: TLC evaluates its assumptions here. *)
EXTENDS DeviceSync, TLC

Slots == Permutations(Req)
=============================================================================

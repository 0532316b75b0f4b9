--------------------------- MODULE MCDeviceGroups ---------------------------
(* DeviceGroups on a small instance: TLC evaluates its assumptions here. *)
EXTENDS DeviceGroups, TLC

Symmetric == Permutations(Req) \cup Permutations(Device) \cup Permutations(Group)
             \cup Permutations(Snapshot)
=============================================================================

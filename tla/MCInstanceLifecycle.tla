------------------------ MODULE MCInstanceLifecycle ------------------------
(* InstanceLifecycle for TLC: the slots are interchangeable. *)
EXTENDS InstanceLifecycle, TLC

Slots == Permutations(Req)
=============================================================================

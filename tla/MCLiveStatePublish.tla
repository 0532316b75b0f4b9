------------------------- MODULE MCLiveStatePublish -------------------------
(* Instances of LiveStatePublish for TLC: one process, or a process each *)
EXTENDS LiveStatePublish

OneProcess == [c \in Caller |-> CHOOSE p \in Proc : TRUE]
AProcessEach == CHOOSE h \in [Caller -> Proc] : \A c, d \in Caller : h[c] = h[d] => c = d
=============================================================================

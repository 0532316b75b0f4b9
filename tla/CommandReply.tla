---------------------------- MODULE CommandReply ----------------------------
(***************************************************************************)
(* What sendCommandAwaitReply of comms/devices.js promises its callers:    *)
(* each command is settled once, by the device's own reply to it or by its *)
(* time-out, and never changes afterwards.  How commands and replies       *)
(* travel, and what the reply says, is left to DeviceEditor, which         *)
(* implements this specification.                                          *)
(***************************************************************************)
CONSTANT Command

VARIABLES
    status,     \* what the caller of each command knows
    executed    \* the commands the device has taken

vars == <<status, executed>>

Init ==
    /\ status = [c \in Command |-> "unsent"]
    /\ executed = {}

Send(c) ==
    /\ status[c] = "unsent"
    /\ status' = [status EXCEPT ![c] = "waiting"]
    /\ UNCHANGED executed

\* The device takes a command; its caller may have given up by then.
Execute(c) ==
    /\ status[c] # "unsent"
    /\ executed' = executed \cup {c}
    /\ UNCHANGED status

Answer(c) ==
    /\ status[c] = "waiting"
    /\ c \in executed
    /\ status' = [status EXCEPT ![c] = "answered"]
    /\ UNCHANGED executed

GiveUp(c) ==
    /\ status[c] = "waiting"
    /\ status' = [status EXCEPT ![c] = "timedOut"]
    /\ UNCHANGED executed

Settle(c) == Answer(c) \/ GiveUp(c)

Next == \E c \in Command : Send(c) \/ Execute(c) \/ Settle(c)

Spec == Init /\ [][Next]_vars /\ \A c \in Command : WF_vars(Settle(c))
=============================================================================

---------------------------- MODULE DeviceEditor ----------------------------
(***************************************************************************)
(* Commands that await a device's reply (comms/devices.js) and the editor  *)
(* tunnel of a device (ee/routes/deviceEditor,                             *)
(* ee/lib/deviceEditor/DeviceTunnelManager.js), for one device and one     *)
(* forge process.                                                          *)
(*                                                                         *)
(* A slot of Req runs one request handler at a time; a handler holds the   *)
(* copy of the device row that its preHandler loaded, and other handlers   *)
(* run wherever it awaits.  Commands and replies travel over MQTT, in any  *)
(* order; a message that is lost is one that is never delivered.  A reply  *)
(* is looked up after the device has been loaded.  The device opens a      *)
(* websocket to the platform with the token it was given; the 'close'      *)
(* event of a socket comes later than the close.  A tunnel is named by the *)
(* socket it was made for.                                                 *)
(***************************************************************************)
EXTENDS Naturals, FiniteSets

CONSTANTS
    Req,            \* slots for request handlers
    Ops,            \* the operations they may run: a subset of AllOps
    MaxOps,         \* requests per behaviour
    MaxSockets,     \* sockets the device opens per behaviour
    Reported,       \* the states the device reports
    Faults          \* what may go wrong: a subset of AllFaults

AllOps == {"enable", "disable", "restart", "upload"}
AllFaults == {"repeatReply", "deviceRefuses"}

ASSUME BoundsAssumption == MaxOps \in Nat /\ MaxSockets \in Nat
ASSUME OpsAssumption == Ops \subseteq AllOps
ASSUME ReportedAssumption == "running" \in Reported
ASSUME FaultsAssumption == Faults \subseteq AllFaults

Command == 1..MaxOps        \* requests are numbered; so are their commands and tokens
Socket == 1..MaxSockets
None == 0                   \* no token, no tunnel, no socket
DeviceStates == Reported \cup {"restarting"}

VARIABLES
    row,        \* the device: editorToken, editorConnected, state
    pc, cmd, copy,          \* each handler: its next step, its number, its copy of the row
    kind,       \* the operation each request is for
    monitor,    \* inFlightCommands: pending, or how the promise was settled
    commands, replies,      \* MQTT messages under way
    looking,    \* replies whose device is being loaded
    executed,   \* commands the device has taken
    current,    \* #tunnels.get(device.hashid)
    socketOf,   \* tunnel.socket
    sock,       \* each socket: its state as the platform's process knows it
    conn,       \* each socket's handler: tokens, its copy's editorConnected, its tunnel
    editors,    \* tunnels with an editor websocket forwarded over them
    deviceToken,            \* the token the device connects with
    irregular,  \* the device has reconnected before its last socket's close was handled,
                \* or a socket was lost while its tunnel was being initialised
    served      \* requests so far

handlers == <<pc, cmd, copy, kind, served>>
messages == <<monitor, commands, replies, looking, executed>>
tunnels == <<current, socketOf, sock, conn, editors, irregular>>
vars == <<row, handlers, messages, tunnels, deviceToken>>

Row == [token : 0..MaxOps, connected : BOOLEAN, state : DeviceStates]
SocketStates == {"unused", "loaded", "saving", "open", "gone", "done"}
Unconnected == [presented |-> None, token |-> None, connected |-> FALSE,
                tunnel |-> None, starting |-> FALSE, listens |-> FALSE, farewell |-> FALSE]

Init ==
    /\ row = [token |-> None, connected |-> FALSE, state |-> "running"]
    /\ pc = [r \in Req |-> "idle"]
    /\ cmd = [r \in Req |-> None]
    /\ copy = [r \in Req |-> row]
    /\ kind = [c \in Command |-> "upload"]
    /\ monitor = [c \in Command |-> "none"]
    /\ commands = {} /\ replies = {} /\ looking = {} /\ executed = {}
    /\ current = None
    /\ socketOf = [t \in Socket |-> None]
    /\ sock = [s \in Socket |-> "unused"]
    /\ conn = [s \in Socket |-> Unconnected]
    /\ editors = {}
    /\ deviceToken = None
    /\ irregular = FALSE
    /\ served = 0

-----------------------------------------------------------------------------
(* Requests *)

Goto(r, step) == pc' = [pc EXCEPT ![r] = step]

\* The preHandler loads the device.
Load(r, o) ==
    /\ pc[r] = "idle" /\ served < MaxOps
    /\ served' = served + 1
    /\ cmd' = [cmd EXCEPT ![r] = served']
    /\ kind' = [kind EXCEPT ![served'] = o]
    /\ copy' = [copy EXCEPT ![r] = row]
    /\ Goto(r, "begin")
    /\ UNCHANGED <<row, messages, tunnels, deviceToken>>

Begins(r, o) == pc[r] = "begin" /\ kind[cmd[r]] = o

\* sendCommandAwaitReply: the monitor is registered as the command is published.
SendCommand(c) ==
    /\ monitor' = [monitor EXCEPT ![c] = "pending"]
    /\ commands' = commands \cup {c}
    /\ UNCHANGED <<replies, looking, executed>>

\* socket.close() only starts the close; the event follows.
Hangup(t) ==
    IF t # None /\ socketOf[t] # None /\ sock[socketOf[t]] \in {"saving", "open"}
    THEN [sock EXCEPT ![socketOf[t]] = "gone"] ELSE sock

CloseTunnel ==
    /\ sock' = Hangup(current)
    /\ editors' = editors \ {current}
    /\ current' = None
    /\ irregular' = (irregular \/ \E s \in Socket : sock[s] = "saving" /\ sock'[s] = "gone")
    /\ UNCHANGED <<socketOf, conn>>

\* PUT enabled: an editor that is enabled already has its tunnel closed first.
BeginEnable(r) ==
    /\ Begins(r, "enable")
    /\ IF copy[r].token # None THEN CloseTunnel ELSE UNCHANGED tunnels
    /\ Goto(r, "saveToken")
    /\ UNCHANGED <<row, cmd, copy, kind, served, messages, deviceToken>>

SaveToken(r) ==
    /\ pc[r] = "saveToken"
    /\ copy' = [copy EXCEPT ![r].token = cmd[r]]
    /\ row' = [row EXCEPT !.token = cmd[r]]
    /\ SendCommand(cmd[r])
    /\ Goto(r, "await")
    /\ UNCHANGED <<cmd, kind, served, tunnels, deviceToken>>

\* PUT disabled: nothing is done if the copy has no token.
BeginDisable(r) ==
    /\ Begins(r, "disable")
    /\ IF copy[r].token = None
       THEN Goto(r, "idle") /\ UNCHANGED <<row, copy>>
       ELSE /\ Goto(r, "stopEditor")
            /\ row' = [row EXCEPT !.token = None]
            /\ copy' = [copy EXCEPT ![r].token = None]
    /\ UNCHANGED <<cmd, kind, served, messages, tunnels, deviceToken>>

StopEditor(r) ==
    /\ pc[r] = "stopEditor"
    /\ commands' = commands \cup {cmd[r]}
    /\ Goto(r, "closeTunnel")
    /\ UNCHANGED <<row, cmd, copy, kind, served, monitor, replies, looking, executed,
                   tunnels, deviceToken>>

CloseAfterDisable(r) ==
    /\ pc[r] = "closeTunnel"
    /\ CloseTunnel
    /\ Goto(r, "idle")
    /\ UNCHANGED <<row, cmd, copy, kind, served, messages, deviceToken>>

\* save() writes an attribute only if it differs from the value loaded.
\* mutant: the attribute is always written
WriteAlways(was, is) == is
WriteState(was, is) == IF was = is THEN row.state ELSE is

\* POST restart; copy keeps the state it was loaded with.
BeginRestart(r) ==
    /\ Begins(r, "restart")
    /\ row' = [row EXCEPT !.state = WriteState(copy[r].state, "restarting")]
    /\ SendCommand(cmd[r])
    /\ Goto(r, "await")
    /\ UNCHANGED <<cmd, copy, kind, served, tunnels, deviceToken>>

BeginUpload(r) ==
    /\ Begins(r, "upload")
    /\ SendCommand(cmd[r])
    /\ Goto(r, "await")
    /\ UNCHANGED <<row, cmd, copy, kind, served, tunnels, deviceToken>>

\* What a handler does with the outcome of its command.
AfterReply(r, ok) ==
    row' = CASE ok \/ kind[cmd[r]] = "upload" -> row
             [] kind[cmd[r]] = "enable" -> [row EXCEPT !.token = None]
             [] kind[cmd[r]] = "restart" ->
                    [row EXCEPT !.state = WriteState("restarting", copy[r].state)]

Continue(r) ==
    /\ pc[r] = "await"
    /\ monitor[cmd[r]] \in {"ok", "refused", "rejected"}
    /\ AfterReply(r, monitor[cmd[r]] = "ok")
    /\ Goto(r, "idle")
    /\ UNCHANGED <<cmd, copy, kind, served, messages, tunnels, deviceToken>>

-----------------------------------------------------------------------------
(* Commands and replies *)

Reply == [cmd : Command, ok : BOOLEAN]

\* 'response/device': handleCommandResponse begins to load the device.
ReceiveReply(m) ==
    /\ m \in replies \ looking
    /\ \/ replies' = replies \ {m}
       \/ "repeatReply" \in Faults /\ replies' = replies
    /\ looking' = looking \cup {m}
    /\ UNCHANGED <<row, handlers, monitor, commands, executed, tunnels, deviceToken>>

\* mutant: a command that is no longer in flight is settled all the same
ResolveLate(m) ==
    /\ m \in looking
    /\ looking' = looking \ {m}
    /\ monitor' = [monitor EXCEPT ![m.cmd] = IF m.ok THEN "ok" ELSE "refused"]
    /\ UNCHANGED <<row, handlers, commands, replies, executed, tunnels, deviceToken>>

\* The command is looked up by its correlation data once the device is loaded.
ResolveCommand(m) ==
    /\ m \in looking
    /\ looking' = looking \ {m}
    /\ monitor' = IF monitor[m.cmd] = "pending"
                  THEN [monitor EXCEPT ![m.cmd] = IF m.ok THEN "ok" ELSE "refused"]
                  ELSE monitor
    /\ UNCHANGED <<row, handlers, commands, replies, executed, tunnels, deviceToken>>

\* mutant: only the commands of the editor have a timer
TimeOutEditorOnly(c) ==
    /\ monitor[c] = "pending" /\ kind[c] = "enable"
    /\ monitor' = [monitor EXCEPT ![c] = "rejected"]
    /\ UNCHANGED <<row, handlers, commands, replies, looking, executed, tunnels, deviceToken>>

TimeOut(c) ==
    /\ monitor[c] = "pending"
    /\ monitor' = [monitor EXCEPT ![c] = "rejected"]
    /\ UNCHANGED <<row, handlers, commands, replies, looking, executed, tunnels, deviceToken>>

-----------------------------------------------------------------------------
(* The device *)

\* The sockets the device takes to be its own.
Live == {s \in Socket : sock[s] \in {"loaded", "saving", "open"}}

DeviceTakes(c, ok) ==
    /\ c \in commands
    /\ ~ok => "deviceRefuses" \in Faults /\ kind[c] \in {"enable", "restart"}
    /\ commands' = commands \ {c}
    /\ executed' = executed \cup {c}
    /\ replies' = IF kind[c] = "disable" THEN replies ELSE replies \cup {[cmd |-> c, ok |-> ok]}
    /\ deviceToken' = IF kind[c] = "disable" THEN None
                      ELSE IF kind[c] = "enable" /\ ok THEN c ELSE deviceToken
    \* a new token or none: the device closes the socket it has
    /\ sock' = IF deviceToken' = deviceToken THEN sock
               ELSE [s \in Socket |-> IF sock[s] = "open" THEN "gone" ELSE sock[s]]
    /\ UNCHANGED <<row, handlers, monitor, looking,
                   current, socketOf, conn, editors, irregular>>

\* A close the platform has yet to handle.
Unhandled(s) == sock[s] = "gone" \/ conn[s].farewell

\* The device opens a socket; the preHandler loads the row for it.
DeviceConnects(s) ==
    /\ sock[s] = "unused" /\ deviceToken # None /\ Live = {}
    /\ \A q \in Socket : q < s => sock[q] # "unused"
    /\ sock' = [sock EXCEPT ![s] = "loaded"]
    /\ conn' = [conn EXCEPT ![s].presented = deviceToken, ![s].token = row.token,
                            ![s].connected = row.connected]
    /\ irregular' = (irregular \/ \E q \in Socket : Unhandled(q))
    /\ UNCHANGED <<row, handlers, messages, current, socketOf, editors, deviceToken>>

DeviceLosesSocket(s) ==
    /\ sock[s] \in {"saving", "open"}
    /\ irregular' = (irregular \/ sock[s] = "saving")
    /\ sock' = [sock EXCEPT ![s] = "gone"]
    /\ UNCHANGED <<row, handlers, messages, current, socketOf, conn, editors, deviceToken>>

\* A status report of the device is stored (updateState).
DeviceReports(state) ==
    /\ state # row.state
    /\ row' = [row EXCEPT !.state = state]
    /\ UNCHANGED <<handlers, messages, tunnels, deviceToken>>

-----------------------------------------------------------------------------
(* Tunnels *)

\* mutant: any token will do while an editor is enabled
AnyToken(s) == conn[s].token # None
TokenValid(s) == conn[s].token # None /\ conn[s].presented = conn[s].token

\* The device's websocket request: a tunnel is made if there is none, a socket
\* the tunnel has already is closed, and the row is saved.
AcceptSocket(s) ==
    /\ sock[s] = "loaded"
    /\ LET t == IF current = None THEN s ELSE current
       IN IF ~TokenValid(s)
          THEN /\ sock' = [sock EXCEPT ![s] = "done"]
               /\ UNCHANGED <<current, socketOf, conn>>
          ELSE /\ sock' = [Hangup(t) EXCEPT ![s] = "saving"]
               /\ current' = t
               /\ socketOf' = [socketOf EXCEPT ![t] = s]
               /\ conn' = [conn EXCEPT ![s].tunnel = t, ![s].starting = TRUE]
    /\ UNCHANGED <<row, handlers, messages, editors, irregular, deviceToken>>

\* mutant: the device is only marked in the handler's copy
MarkCopy(s) == row
MarkConnected(s) == IF conn[s].connected THEN row ELSE [row EXCEPT !.connected = TRUE]

\* After the save the handlers are registered on the socket the tunnel has now.
StartTunnel(s) ==
    /\ conn[s].starting
    /\ row' = MarkConnected(s)
    /\ LET now == socketOf[conn[s].tunnel]
       IN IF now = None
          THEN /\ conn' = [conn EXCEPT ![s].starting = FALSE]
               /\ sock' = [sock EXCEPT ![s] = "done"]
          ELSE /\ conn' = [conn EXCEPT ![s].starting = FALSE, ![now].listens = TRUE]
               /\ sock' = IF sock[s] = "saving" THEN [sock EXCEPT ![s] = "open"] ELSE sock
    /\ UNCHANGED <<handlers, messages, current, socketOf, editors, irregular, deviceToken>>

\* The 'close' event of a socket.
HandleClose(s) ==
    /\ sock[s] = "gone" /\ conn[s].listens
    /\ sock' = [sock EXCEPT ![s] = "done"]
    /\ socketOf' = [socketOf EXCEPT ![conn[s].tunnel] = None]
    /\ editors' = editors \ {conn[s].tunnel}
    /\ current' = None
    /\ conn' = [conn EXCEPT ![s].farewell = TRUE]
    /\ UNCHANGED <<row, handlers, messages, irregular, deviceToken>>

\* Nobody listens to the socket yet: its event is lost.
MissClose(s) ==
    /\ sock[s] = "gone" /\ ~conn[s].listens
    /\ sock' = [sock EXCEPT ![s] = "done"]
    /\ UNCHANGED <<row, handlers, messages, current, socketOf, conn, editors, irregular,
                   deviceToken>>

\* The close handler's save, which it does not await.
SaveDisconnected(s) ==
    /\ conn[s].farewell
    /\ conn' = [conn EXCEPT ![s].farewell = FALSE]
    /\ row' = [row EXCEPT !.connected = FALSE]
    /\ UNCHANGED <<handlers, messages, current, socketOf, sock, editors, irregular,
                   deviceToken>>

\* handleWS: a browser opens an editor; it may close it again.
OpenEditor ==
    /\ current # None /\ socketOf[current] # None
    /\ conn[socketOf[current]].listens
    /\ editors' = editors \cup {current}
    /\ UNCHANGED <<row, handlers, messages, current, socketOf, sock, conn, irregular,
                   deviceToken>>

CloseEditor(t) ==
    /\ t \in editors
    /\ editors' = editors \ {t}
    /\ UNCHANGED <<row, handlers, messages, current, socketOf, sock, conn, irregular,
                   deviceToken>>

-----------------------------------------------------------------------------
Advance(r) ==
    \/ BeginEnable(r) \/ SaveToken(r) \/ BeginDisable(r) \/ StopEditor(r)
    \/ CloseAfterDisable(r) \/ BeginRestart(r) \/ BeginUpload(r) \/ Continue(r)

Next ==
    \/ \E r \in Req : (\E o \in Ops : Load(r, o)) \/ Advance(r)
    \/ OpenEditor
    \/ \E m \in Reply : ReceiveReply(m) \/ ResolveCommand(m)
    \/ \E c \in Command : TimeOut(c) \/ \E ok \in BOOLEAN : DeviceTakes(c, ok)
    \/ \E state \in Reported : DeviceReports(state)
    \/ \E s \in Socket :
          \/ DeviceConnects(s) \/ DeviceLosesSocket(s) \/ AcceptSocket(s) \/ StartTunnel(s)
          \/ HandleClose(s) \/ MissClose(s) \/ SaveDisconnected(s) \/ CloseEditor(s)

Spec == Init /\ [][Next]_vars

\* Timers expire and what a handler awaits settles; nothing is assumed of the
\* broker or the device.
FairSpec ==
    /\ Spec
    /\ \A r \in Req : WF_vars(Advance(r))
    /\ \A c \in Command : WF_vars(TimeOut(c))

-----------------------------------------------------------------------------
(* Properties *)

\* The values of the row and of what the process keeps; a socket in a tunnel has
\* shown the token of the row.
TypeOK ==
    /\ row \in Row
    /\ pc \in [Req -> {"idle", "begin", "saveToken", "await", "stopEditor", "closeTunnel"}]
    /\ cmd \in [Req -> 0..MaxOps]
    /\ copy \in [Req -> Row]
    /\ kind \in [Command -> AllOps]
    /\ monitor \in [Command -> {"none", "pending", "ok", "refused", "rejected"}]
    /\ commands \subseteq Command /\ executed \subseteq Command
    /\ replies \subseteq Reply /\ looking \subseteq Reply
    /\ current \in 0..MaxSockets
    /\ socketOf \in [Socket -> 0..MaxSockets]
    /\ sock \in [Socket -> SocketStates]
    /\ \A s \in Socket : conn[s].tunnel # None => conn[s].presented = conn[s].token
    /\ editors \subseteq Socket
    /\ deviceToken \in 0..MaxOps
    /\ irregular \in BOOLEAN
    /\ served \in 0..MaxOps

\* A command is settled once, by its own reply or by its time-out, whatever is
\* lost, late or repeated (sendCommandAwaitReply, handleCommandResponse).
Promise == INSTANCE CommandReply WITH
    status <- [c \in Command |->
        CASE monitor[c] = "none" -> "unsent"
          [] monitor[c] = "pending" -> "waiting"
          [] monitor[c] \in {"ok", "refused"} -> "answered"
          [] monitor[c] = "rejected" -> "timedOut"],
    executed <- {c \in executed : monitor[c] # "none"}
KeepsPromise == Promise!Spec

\* Every request is answered: none waits for a device for ever.
RequestsEnd == \A r \in Req : (pc[r] # "idle") ~> (pc[r] = "idle")

\* Once no restart is under way the row says 'restarting' only if the device did
\* take one: a handler that fails puts back the state it found, and one that found
\* another handler's 'restarting' does not put that back.
NoStuckRestart ==
    row.state = "restarting" =>
        \/ \E r \in Req : pc[r] # "idle" /\ kind[cmd[r]] = "restart"
        \/ \E c \in executed : kind[c] = "restart"

\* Nothing of a socket is left to be handled.
Quiet == \A s \in Socket : sock[s] \in {"unused", "open", "done"} /\ ~conn[s].farewell

\* As long as the device reconnects only after its last close was handled, the
\* editorConnected of the row, the manager's tunnel and the device's socket agree,
\* and no editor is left on a tunnel without a socket.
RowFollowsTunnel ==
    ~irregular /\ Quiet =>
        /\ row.connected = (current # None)
        /\ current # None => socketOf[current] \in Live
        /\ editors \subseteq {current}
=============================================================================

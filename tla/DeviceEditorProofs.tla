------------------------- MODULE DeviceEditorProofs -------------------------
(***************************************************************************)
(* Proofs about DeviceEditor, for any number of requests and sockets: its  *)
(* types, that every step of it is one that CommandReply allows, that the row *)
(* does not stay at 'restarting', and that the row and the manager follow the *)
(* device's socket.                                                        *)
(***************************************************************************)
EXTENDS DeviceEditor, TLAPS

RowTypes == row \in Row /\ deviceToken \in 0..MaxOps

RequestTypes ==
    /\ pc \in [Req -> {"idle", "begin", "saveToken", "await", "stopEditor", "closeTunnel"}]
    /\ cmd \in [Req -> 0..MaxOps]
    /\ copy \in [Req -> Row]
    /\ kind \in [Command -> AllOps]
    /\ served \in 0..MaxOps

MessageTypes ==
    /\ monitor \in [Command -> {"none", "pending", "ok", "refused", "rejected"}]
    /\ commands \subseteq Command /\ executed \subseteq Command
    /\ replies \subseteq Reply /\ looking \subseteq Reply

Connection == [presented : 0..MaxOps, token : 0..MaxOps, connected : BOOLEAN,
               tunnel : 0..MaxSockets, starting : BOOLEAN, listens : BOOLEAN, farewell : BOOLEAN]

\* A socket in a tunnel has shown the token of the row.
Shown(connections) ==
    /\ connections \in [Socket -> Connection]
    /\ \A s \in Socket :
            connections[s].tunnel # None => connections[s].presented = connections[s].token

TunnelTypes ==
    /\ current \in 0..MaxSockets
    /\ socketOf \in [Socket -> 0..MaxSockets]
    /\ sock \in [Socket -> SocketStates]
    /\ Shown(conn)
    /\ \A s \in Socket : sock[s] = "unused" => conn[s].tunnel = None
    /\ editors \subseteq Socket
    /\ irregular \in BOOLEAN

\* A request has a number of its own.
OwnNumber ==
    /\ \A r \in Req : pc[r] # "idle" => cmd[r] \in 1..served
    /\ \A r, q \in Req : pc[r] # "idle" /\ pc[q] # "idle" /\ cmd[r] = cmd[q] => r = q
    /\ \A r \in Req : pc[r] \in {"saveToken", "await"} => kind[cmd[r]] # "disable"

\* A command that has not been sent has left no trace.
Fresh(c) == monitor[c] = "none" /\ c \notin commands \cup executed

Unsent ==
    /\ \A r \in Req : pc[r] \in {"begin", "saveToken", "stopEditor"} => Fresh(cmd[r])
    /\ \A c \in Command : c > served => Fresh(c)

\* The device replies to what it has taken.
Replied == \A m \in replies \cup looking : m.cmd \in executed

Requests == RequestTypes /\ OwnNumber

Messages == MessageTypes /\ Unsent /\ Replied

Inv == RowTypes /\ Requests /\ Messages /\ TunnelTypes

-----------------------------------------------------------------------------
(* A handler takes a step *)

LEMMA Numbered ==
    ASSUME Requests, NEW r \in Req, pc[r] # "idle"
    PROVE  cmd[r] \in Command /\ cmd[r] \in 0..MaxOps /\ cmd[r] <= served /\ served \in Nat
<1>1. cmd[r] \in 1..served /\ served \in 0..MaxOps
    BY DEF Requests, RequestTypes, OwnNumber
<1> QED
    BY <1>1, BoundsAssumption DEF Command

LEMMA SlotAdvances ==
    ASSUME Requests, NEW r \in Req, pc[r] # "idle",
           NEW step \in {"idle", "saveToken", "await", "stopEditor", "closeTunnel"}, Goto(r, step),
           UNCHANGED <<cmd, kind, served>>, copy' \in [Req -> Row],
           step \in {"saveToken", "await"} => kind[cmd[r]] # "disable"
    PROVE  Requests'
<1>1. RequestTypes'
    BY DEF Requests, RequestTypes, Goto
<1>2. pc \in [Req -> {"idle", "begin", "saveToken", "await", "stopEditor", "closeTunnel"}]
      /\ pc' = [pc EXCEPT ![r] = step]
    BY DEF Requests, RequestTypes, Goto
<1>3. \A q \in Req : pc'[q] = IF q = r THEN step ELSE pc[q]
    BY <1>2
<1>4. OwnNumber'
    BY <1>3 DEF Requests, OwnNumber
<1> QED
    BY <1>1, <1>4 DEF Requests

LEMMA SilentStep ==
    ASSUME Requests, Messages, NEW r \in Req, pc[r] # "idle",
           NEW step \in {"idle", "saveToken", "await", "stopEditor", "closeTunnel"}, Goto(r, step),
           UNCHANGED <<cmd, served, messages>>,
           step \in {"saveToken", "stopEditor"} => pc[r] = "begin"
    PROVE  Messages'
<1>1. MessageTypes' /\ Replied'
    BY DEF Messages, MessageTypes, Replied, messages
<1>2. \A q \in Req : pc'[q] = IF q = r THEN step ELSE pc[q]
    BY DEF Requests, RequestTypes, Goto
<1>3. Unsent'
    BY <1>2 DEF Messages, Unsent, Fresh, messages
<1> QED
    BY <1>1, <1>3 DEF Messages

LEMMA SendingStep ==
    ASSUME Requests, Messages, NEW r \in Req, pc[r] # "idle",
           NEW step \in {"await", "closeTunnel"}, Goto(r, step),
           commands' = commands \cup {cmd[r]},
           monitor' = monitor \/ monitor' = [monitor EXCEPT ![cmd[r]] = "pending"],
           UNCHANGED <<cmd, served, replies, looking, executed>>
    PROVE  Messages'
<1>1. cmd[r] \in Command /\ cmd[r] \in 0..MaxOps /\ cmd[r] <= served /\ served \in Nat
    BY Numbered
<1>2. MessageTypes'
    BY <1>1 DEF Messages, MessageTypes
<1>3. Replied'
    BY DEF Messages, Replied
<1>4. \A q \in Req : pc'[q] = IF q = r THEN step ELSE pc[q]
    BY DEF Requests, RequestTypes, Goto
<1>5. ASSUME NEW c \in Command, c # cmd[r], Fresh(c)
      PROVE  Fresh(c)'
    BY <1>1, <1>5 DEF Fresh, Messages, MessageTypes
<1>6. ASSUME NEW q \in Req, pc'[q] \in {"begin", "saveToken", "stopEditor"}
      PROVE  Fresh(cmd[q])'
    <2>1. q # r /\ pc[q] = pc'[q]
        BY <1>4, <1>6
    <2>2. cmd[q] \in Command /\ cmd[q] # cmd[r] /\ Fresh(cmd[q])
        BY <2>1, <1>6, Numbered DEF Requests, OwnNumber, Messages, Unsent
    <2> QED
        BY <2>2, <1>5
<1>7. \A c \in Command : c > served => Fresh(c)'
    BY <1>1, <1>5, BoundsAssumption DEF Messages, Unsent, Command
<1>8. Unsent'
    BY <1>6, <1>7 DEF Unsent, Fresh
<1> QED
    BY <1>2, <1>3, <1>8 DEF Messages

LEMMA HangsUp ==
    ASSUME TunnelTypes, NEW t
    PROVE  Hangup(t) \in [Socket -> SocketStates]
BY DEF TunnelTypes, Hangup, SocketStates

LEMMA TunnelCloses ==
    ASSUME TunnelTypes, CloseTunnel
    PROVE  TunnelTypes'
<1>1. sock' \in [Socket -> SocketStates] /\ \A q \in Socket : sock'[q] = "unused" => sock[q] = "unused"
    BY HangsUp DEF CloseTunnel, Hangup, TunnelTypes
<1>2. current' \in 0..MaxSockets
    BY BoundsAssumption DEF CloseTunnel, None
<1>3. irregular' \in BOOLEAN /\ editors' \subseteq Socket
    BY DEF CloseTunnel, TunnelTypes
<1> QED
    BY <1>1, <1>2, <1>3 DEF TunnelTypes, CloseTunnel

-----------------------------------------------------------------------------
(* The requests *)

LEMMA LoadKeeps ==
    ASSUME Inv, NEW r \in Req, NEW o \in Ops, Load(r, o)
    PROVE  Inv'
<1>. USE DEF Inv
<1>1. /\ served' = served + 1 /\ served' \in Command /\ served' \in 0..MaxOps /\ served \in Nat
      /\ cmd' = [cmd EXCEPT ![r] = served']
      /\ kind' = [kind EXCEPT ![served'] = o]
      /\ copy' = [copy EXCEPT ![r] = row]
      /\ pc' = [pc EXCEPT ![r] = "begin"]
      /\ UNCHANGED <<row, messages, tunnels, deviceToken>>
    BY BoundsAssumption DEF Load, Goto, Requests, RequestTypes, Command
<1>2. RowTypes' /\ TunnelTypes'
    BY <1>1 DEF RowTypes, TunnelTypes, Shown, tunnels
<1>3. RequestTypes'
    BY <1>1, OpsAssumption DEF Requests, RequestTypes, RowTypes
<1>4. \A q \in Req : /\ pc'[q] = IF q = r THEN "begin" ELSE pc[q]
                     /\ cmd'[q] = IF q = r THEN served' ELSE cmd[q]
    BY <1>1 DEF Requests, RequestTypes
<1>5. \A q \in Req : pc[q] # "idle" => cmd[q] \in Command /\ cmd[q] <= served
    BY Numbered
<1>6. OwnNumber'
    <2>1. \A q \in Req : pc'[q] # "idle" => cmd'[q] \in 1..served'
        BY <1>1, <1>4, <1>5 DEF Command
    <2>2. \A p, q \in Req : pc'[p] # "idle" /\ pc'[q] # "idle" /\ cmd'[p] = cmd'[q] => p = q
        BY <1>1, <1>4, <1>5 DEF Requests, OwnNumber, Command
    <2>3. ASSUME NEW q \in Req, pc'[q] \in {"saveToken", "await"}
          PROVE  kind'[cmd'[q]] # "disable"
        <3>1. q # r /\ pc[q] = pc'[q] /\ cmd'[q] = cmd[q] /\ cmd[q] \in Command /\ cmd[q] # served'
            BY <1>1, <1>4, <1>5, <2>3 DEF Command
        <3>2. kind'[cmd[q]] = kind[cmd[q]]
            BY <1>1, <3>1 DEF Requests, RequestTypes
        <3> QED
            BY <2>3, <3>1, <3>2 DEF Requests, OwnNumber
    <2> QED
        BY <2>1, <2>2, <2>3 DEF OwnNumber
<1>7. MessageTypes' /\ Replied'
    BY <1>1 DEF Messages, MessageTypes, Replied, messages
<1>8. Unsent'
    <2>1. \A c \in Command : Fresh(c)' = Fresh(c)
        BY <1>1 DEF Fresh, messages
    <2>2. Fresh(served')
        BY <1>1 DEF Messages, Unsent
    <2>3. \A q \in Req : pc'[q] \in {"begin", "saveToken", "stopEditor"} => Fresh(cmd'[q])
        BY <1>4, <2>2 DEF Messages, Unsent
    <2>4. \A c \in Command : c > served' => Fresh(c)
        BY <1>1, BoundsAssumption DEF Messages, Unsent, Command
    <2> QED
        BY <1>1, <2>3, <2>4 DEF Unsent, Fresh, messages
<1> QED
    BY <1>2, <1>3, <1>6, <1>7, <1>8 DEF Requests, Messages

LEMMA AdvanceKeeps ==
    ASSUME Inv, NEW r \in Req, Advance(r)
    PROVE  Inv'
<1>. USE DEF Inv
<1>0. row \in Row /\ copy \in [Req -> Row] /\ copy[r] \in Row
    BY DEF RowTypes, Requests, RequestTypes
<1>1. CASE BeginEnable(r)
    <2>1. TunnelTypes'
        BY <1>1, TunnelCloses DEF BeginEnable, TunnelTypes, Shown, tunnels
    <2>2. Requests' /\ Messages'
        BY <1>0, <1>1, SlotAdvances, SilentStep DEF BeginEnable, Begins
    <2> QED
        BY <1>1, <2>1, <2>2 DEF BeginEnable, RowTypes
<1>2. CASE SaveToken(r)
    <2>1. cmd[r] \in 0..MaxOps /\ kind[cmd[r]] # "disable"
        BY <1>2, Numbered DEF SaveToken, Requests, OwnNumber
    <2>2. row' \in Row /\ copy' \in [Req -> Row]
        BY <1>0, <1>2, <2>1 DEF SaveToken, Row
    <2>3. Requests'
        BY <1>2, <2>1, <2>2, SlotAdvances DEF SaveToken
    <2>4. Messages'
        BY <1>2, SendingStep DEF SaveToken, SendCommand
    <2> QED
        BY <1>2, <2>2, <2>3, <2>4 DEF SaveToken, RowTypes, TunnelTypes, Shown, tunnels
<1>3. CASE BeginDisable(r)
    <2>1. row' \in Row /\ copy' \in [Req -> Row]
        BY <1>0, <1>3, BoundsAssumption DEF BeginDisable, Row, None
    <2>2. Requests' /\ Messages'
        BY <1>3, <2>1, SlotAdvances, SilentStep DEF BeginDisable, Begins
    <2> QED
        BY <1>3, <2>1, <2>2 DEF BeginDisable, RowTypes, TunnelTypes, Shown, tunnels
<1>4. CASE StopEditor(r)
    <2>1. Requests'
        BY <1>0, <1>4, SlotAdvances DEF StopEditor
    <2>2. Messages'
        BY <1>4, SendingStep DEF StopEditor
    <2> QED
        BY <1>4, <2>1, <2>2 DEF StopEditor, RowTypes, TunnelTypes, Shown, tunnels
<1>5. CASE CloseAfterDisable(r)
    <2>1. Requests' /\ Messages'
        BY <1>0, <1>5, SlotAdvances, SilentStep DEF CloseAfterDisable
    <2> QED
        BY <1>5, <2>1, TunnelCloses DEF CloseAfterDisable, RowTypes
<1>6. CASE BeginRestart(r)
    <2>1. row' \in Row
        BY <1>0, <1>6 DEF BeginRestart, WriteState, Row, DeviceStates
    <2>2. Requests'
        BY <1>0, <1>6, SlotAdvances DEF BeginRestart, Begins
    <2>3. Messages'
        BY <1>6, SendingStep DEF BeginRestart, Begins, SendCommand
    <2> QED
        BY <1>6, <2>1, <2>2, <2>3 DEF BeginRestart, RowTypes, TunnelTypes, Shown, tunnels
<1>7. CASE BeginUpload(r)
    <2>1. Requests'
        BY <1>0, <1>7, SlotAdvances DEF BeginUpload, Begins
    <2>2. Messages'
        BY <1>7, SendingStep DEF BeginUpload, Begins, SendCommand
    <2> QED
        BY <1>7, <2>1, <2>2 DEF BeginUpload, RowTypes, TunnelTypes, Shown, tunnels
<1>8. CASE Continue(r)
    <2>1. kind[cmd[r]] \in {"enable", "restart", "upload"}
        <3>1. kind[cmd[r]] \in AllOps /\ kind[cmd[r]] # "disable"
            BY <1>8, Numbered DEF Continue, Requests, RequestTypes, OwnNumber
        <3> QED
            BY <3>1 DEF AllOps
    <2>2. row' \in Row
        BY <1>0, <1>8, <2>1, BoundsAssumption
        DEF Continue, AfterReply, WriteState, Row, None, DeviceStates
    <2>3. Requests' /\ Messages'
        BY <1>0, <1>8, SlotAdvances, SilentStep DEF Continue
    <2> QED
        BY <1>8, <2>2, <2>3 DEF Continue, RowTypes, TunnelTypes, Shown, tunnels
<1> QED
    BY <1>1, <1>2, <1>3, <1>4, <1>5, <1>6, <1>7, <1>8 DEF Advance

-----------------------------------------------------------------------------
(* Messages *)

LEMMA RequestsApart ==
    ASSUME Requests, UNCHANGED handlers
    PROVE  Requests'
BY DEF Requests, RequestTypes, OwnNumber, handlers

LEMMA MessagesApart ==
    ASSUME Messages, UNCHANGED <<handlers, messages>>
    PROVE  Messages'
BY DEF Messages, MessageTypes, Unsent, Fresh, Replied, handlers, messages

LEMMA TunnelsApart ==
    ASSUME TunnelTypes, UNCHANGED tunnels
    PROVE  TunnelTypes'
BY DEF TunnelTypes, Shown, tunnels

\* What was never sent is not settled either.
LEMMA Settling ==
    ASSUME Unsent, monitor \in [Command -> {"none", "pending", "ok", "refused", "rejected"}],
           NEW c \in Command, monitor[c] = "pending",
           NEW outcome, monitor' = [monitor EXCEPT ![c] = outcome],
           UNCHANGED <<handlers, commands, executed>>
    PROVE  Unsent'
<1>1. \A d : Fresh(d) /\ d \in Command => Fresh(d)'
    BY DEF Fresh
<1>2. \A d : Fresh(d) => d # c
    BY DEF Fresh
<1>3. \A d : Fresh(d) => monitor'[d] = monitor[d]
    BY <1>2
<1> QED
    BY <1>3 DEF Unsent, Fresh, handlers

LEMMA MessageKeeps ==
    ASSUME Inv, NEW m \in Reply, ReceiveReply(m) \/ ResolveCommand(m)
    PROVE  Inv'
<1>. USE DEF Inv
<1>1. UNCHANGED <<row, handlers, commands, executed, tunnels, deviceToken>>
    BY DEF ReceiveReply, ResolveCommand
<1>2. RowTypes' /\ Requests' /\ TunnelTypes'
    BY <1>1, RequestsApart, TunnelsApart DEF RowTypes
<1>3. CASE ReceiveReply(m)
    BY <1>2, <1>3 DEF ReceiveReply, Messages, MessageTypes, Unsent, Fresh, Replied, handlers
<1>4. CASE ResolveCommand(m)
    <2>1. m.cmd \in Command
        BY DEF Reply
    <2>2. MessageTypes' /\ Replied'
        BY <1>4, <2>1 DEF ResolveCommand, Messages, MessageTypes, Replied
    <2>3. Unsent'
        <3>1. CASE monitor[m.cmd] = "pending"
            BY <1>4, <2>1, <3>1, Settling DEF ResolveCommand, Messages, MessageTypes
        <3>2. CASE monitor[m.cmd] # "pending"
            BY <1>4, <3>2 DEF ResolveCommand, Messages, Unsent, Fresh, handlers
        <3> QED
            BY <3>1, <3>2
    <2> QED
        BY <1>2, <2>2, <2>3 DEF Messages
<1> QED
    BY <1>3, <1>4

LEMMA TimeOutKeeps ==
    ASSUME Inv, NEW c \in Command, TimeOut(c)
    PROVE  Inv'
<1>. USE DEF Inv
<1>1. RowTypes' /\ Requests' /\ TunnelTypes'
    BY RequestsApart, TunnelsApart DEF TimeOut, RowTypes
<1>2. MessageTypes' /\ Replied'
    BY DEF TimeOut, Messages, MessageTypes, Replied
<1>3. Unsent'
    BY Settling DEF TimeOut, Messages, MessageTypes
<1> QED
    BY <1>1, <1>2, <1>3 DEF Messages

LEMMA TakeKeeps ==
    ASSUME Inv, NEW c \in Command, NEW ok \in BOOLEAN, DeviceTakes(c, ok)
    PROVE  Inv'
<1>. USE DEF Inv
<1>1. Requests'
    BY RequestsApart DEF DeviceTakes
<1>2. RowTypes'
    BY BoundsAssumption DEF DeviceTakes, RowTypes, None, Command
<1>3. sock' \in [Socket -> SocketStates]
    BY DEF DeviceTakes, TunnelTypes, SocketStates
<1>4. TunnelTypes'
    BY <1>3 DEF DeviceTakes, TunnelTypes, Shown
<1>5. /\ c \in commands /\ commands' = commands \ {c} /\ executed' = executed \cup {c}
      /\ replies' = replies \/ replies' = replies \cup {[cmd |-> c, ok |-> ok]}
      /\ UNCHANGED <<handlers, monitor, looking>>
    BY DEF DeviceTakes
<1>6. MessageTypes' /\ Replied'
    BY <1>5 DEF Messages, MessageTypes, Reply, Replied
<1>7. Unsent'
    BY <1>5 DEF Messages, Unsent, Fresh, handlers
<1> QED
    BY <1>1, <1>2, <1>4, <1>6, <1>7 DEF Messages

-----------------------------------------------------------------------------
(* The device and its sockets *)

\* One socket's connection changes.
LEMMA ConnectionChanges ==
    ASSUME TunnelTypes, NEW s \in Socket, NEW c \in Connection,
           c.tunnel # None => c.presented = c.token
    PROVE  Shown([conn EXCEPT ![s] = c])
BY DEF TunnelTypes, Shown

LEMMA SocketKeeps ==
    ASSUME Inv, NEW s \in Socket,
           \/ DeviceConnects(s) \/ DeviceLosesSocket(s) \/ AcceptSocket(s) \/ StartTunnel(s)
           \/ HandleClose(s) \/ MissClose(s) \/ SaveDisconnected(s)
    PROVE  RowTypes' /\ TunnelTypes'
<1>. USE DEF Inv
<1>0. conn \in [Socket -> Connection] /\ conn[s] \in Connection
      /\ (conn[s].tunnel # None => conn[s].presented = conn[s].token)
    BY DEF TunnelTypes, Shown
<1>1. CASE DeviceConnects(s)
    <2>. DEFINE c == [conn[s] EXCEPT !.presented = deviceToken, !.token = row.token,
                                     !.connected = row.connected]
    <2>1. deviceToken \in 0..MaxOps /\ row.token \in 0..MaxOps /\ row.connected \in BOOLEAN
          /\ conn[s].tunnel = None
        BY <1>1 DEF DeviceConnects, TunnelTypes, RowTypes, Row
    <2>2. c \in Connection /\ c.tunnel = None
        BY <1>0, <2>1 DEF Connection
    <2>3. conn' = [conn EXCEPT ![s] = c] /\ sock' = [sock EXCEPT ![s] = "loaded"]
          /\ UNCHANGED <<row, current, socketOf, editors, deviceToken>> /\ irregular' \in BOOLEAN
        BY <1>1 DEF DeviceConnects, TunnelTypes
    <2>. HIDE DEF c
    <2>4. Shown(conn')
        BY <2>2, <2>3, ConnectionChanges
    <2> QED
        BY <1>0, <2>2, <2>3, <2>4 DEF TunnelTypes, RowTypes, SocketStates
<1>2. CASE DeviceLosesSocket(s)
    BY <1>2 DEF DeviceLosesSocket, TunnelTypes, Shown, SocketStates, RowTypes
<1>3. CASE AcceptSocket(s)
    <2>1. CASE ~TokenValid(s)
        BY <1>3, <2>1 DEF AcceptSocket, TunnelTypes, Shown, SocketStates, RowTypes
    <2>2. CASE TokenValid(s)
        <3>. DEFINE t == IF current = None THEN s ELSE current
                    c == [conn[s] EXCEPT !.tunnel = t, !.starting = TRUE]
        <3>1. t \in Socket /\ t \in 0..MaxSockets /\ s \in 0..MaxSockets
            BY BoundsAssumption DEF TunnelTypes, Socket, None
        <3>2. /\ sock' = [Hangup(t) EXCEPT ![s] = "saving"] /\ current' = t
              /\ socketOf' = [socketOf EXCEPT ![t] = s]
              /\ conn' = [conn EXCEPT ![s].tunnel = t, ![s].starting = TRUE]
              /\ UNCHANGED <<row, editors, irregular, deviceToken>>
            BY <1>3, <2>2 DEF AcceptSocket
        <3>. HIDE DEF t
        <3>3. sock' \in [Socket -> SocketStates] /\ sock'[s] = "saving"
            BY <3>2, HangsUp DEF SocketStates
        <3>4. c \in Connection /\ c.presented = c.token
            BY <1>0, <2>2, <3>1 DEF TokenValid, Connection
        <3>5. conn' = [conn EXCEPT ![s] = c]
            BY <1>0, <3>2
        <3>. HIDE DEF c
        <3>6. Shown(conn')
            BY <3>4, <3>5, ConnectionChanges
        <3>7. ASSUME NEW q \in Socket, sock'[q] = "unused"
              PROVE  conn'[q].tunnel = None
            <4>1. q # s /\ sock[q] = "unused"
                BY <3>2, <3>3, <3>7, HangsUp DEF Hangup, TunnelTypes
            <4> QED
                BY <1>0, <3>5, <4>1 DEF TunnelTypes
        <3> QED
            BY <3>1, <3>2, <3>3, <3>6, <3>7 DEF TunnelTypes, RowTypes
    <2> QED
        BY <2>1, <2>2
<1>4. CASE StartTunnel(s)
    <2>. DEFINE now == socketOf[conn[s].tunnel]
    <2>1. row' \in Row
        BY <1>4 DEF StartTunnel, MarkConnected, RowTypes, Row
    <2>2. sock' \in [Socket -> SocketStates] /\ \A q \in Socket : sock'[q] = "unused" => sock[q] = "unused"
        BY <1>4 DEF StartTunnel, TunnelTypes, SocketStates
    <2>3. Shown(conn') /\ \A q \in Socket : conn'[q].tunnel = conn[q].tunnel
        <3>. DEFINE c == [conn[s] EXCEPT !.starting = FALSE]
        <3>1. c \in Connection /\ c.tunnel = conn[s].tunnel /\ c.presented = conn[s].presented
              /\ c.token = conn[s].token
            BY <1>0 DEF Connection
        <3>2. CASE conn' = [conn EXCEPT ![s].starting = FALSE]
            <4>1. conn' = [conn EXCEPT ![s] = c]
                BY <3>2
            <4>. HIDE DEF c
            <4> QED
                BY <1>0, <3>1, <4>1, ConnectionChanges
        <3>3. CASE conn' = [conn EXCEPT ![s].starting = FALSE, ![now].listens = TRUE]
            <4>. DEFINE was == [conn EXCEPT ![s] = c]
                        d == [was[now] EXCEPT !.listens = TRUE]
            <4>1. conn' = [was EXCEPT ![now].listens = TRUE]
                BY <3>3
            <4>. HIDE DEF c
            <4>2. was \in [Socket -> Connection] /\ Shown(was)
                  /\ \A q \in Socket : was[q].tunnel = conn[q].tunnel
                BY <1>0, <3>1, ConnectionChanges
            <4>. HIDE DEF was
            <4>3. CASE now \in Socket
                <5>1. /\ d \in Connection /\ d.tunnel = was[now].tunnel
                      /\ d.presented = was[now].presented /\ d.token = was[now].token
                    BY <4>2, <4>3 DEF Connection
                <5>2. conn' = [was EXCEPT ![now] = d]
                    BY <4>1
                <5>. HIDE DEF d, now
                <5> QED
                    BY <4>2, <4>3, <5>1, <5>2 DEF Shown
            <4>4. CASE now \notin Socket
                <5>1. conn' = was
                    BY <4>1, <4>2, <4>4
                <5> QED
                    BY <4>2, <5>1
            <4> QED
                BY <4>3, <4>4
        <3> QED
            BY <1>4, <3>2, <3>3 DEF StartTunnel
    <2>4. UNCHANGED <<current, socketOf, editors, irregular, deviceToken>>
        BY <1>4 DEF StartTunnel
    <2> QED
        BY <2>1, <2>2, <2>3, <2>4 DEF TunnelTypes, RowTypes
<1>5. CASE HandleClose(s)
    <2>. DEFINE c == [conn[s] EXCEPT !.farewell = TRUE]
    <2>1. c \in Connection /\ c.tunnel = conn[s].tunnel /\ c.presented = conn[s].presented
          /\ c.token = conn[s].token
        BY <1>0 DEF Connection
    <2>2. conn' = [conn EXCEPT ![s] = c]
        BY <1>5 DEF HandleClose
    <2>. HIDE DEF c
    <2>3. Shown(conn') /\ \A q \in Socket : conn'[q].tunnel = conn[q].tunnel
        BY <1>0, <2>1, <2>2, ConnectionChanges
    <2>4. 0 \in 0..MaxSockets
        BY BoundsAssumption
    <2>5. /\ sock' = [sock EXCEPT ![s] = "done"]
          /\ socketOf' = [socketOf EXCEPT ![conn[s].tunnel] = 0]
          /\ current' = 0 /\ editors' \subseteq editors
          /\ UNCHANGED <<row, irregular, deviceToken>>
        BY <1>5 DEF HandleClose, None
    <2>6. socketOf' \in [Socket -> 0..MaxSockets] /\ sock' \in [Socket -> SocketStates]
        BY <2>4, <2>5 DEF TunnelTypes, SocketStates
    <2> QED
        BY <2>3, <2>4, <2>5, <2>6 DEF TunnelTypes, RowTypes
<1>6. CASE MissClose(s)
    BY <1>6 DEF MissClose, TunnelTypes, Shown, SocketStates, RowTypes
<1>7. CASE SaveDisconnected(s)
    <2>. DEFINE c == [conn[s] EXCEPT !.farewell = FALSE]
    <2>1. c \in Connection /\ c.tunnel = conn[s].tunnel /\ c.presented = conn[s].presented
          /\ c.token = conn[s].token
        BY <1>0 DEF Connection
    <2>2. conn' = [conn EXCEPT ![s] = c]
        BY <1>7 DEF SaveDisconnected
    <2>. HIDE DEF c
    <2>3. Shown(conn') /\ \A q \in Socket : conn'[q].tunnel = conn[q].tunnel
        BY <1>0, <2>1, <2>2, ConnectionChanges
    <2>4. row' \in Row
        BY <1>7 DEF SaveDisconnected, RowTypes, Row
    <2> QED
        BY <1>7, <2>3, <2>4 DEF SaveDisconnected, TunnelTypes, RowTypes
<1> QED
    BY <1>1, <1>2, <1>3, <1>4, <1>5, <1>6, <1>7

LEMMA EditorKeeps ==
    ASSUME Inv, OpenEditor \/ \E t \in Socket : CloseEditor(t)
    PROVE  RowTypes' /\ TunnelTypes'
<1>1. editors' \subseteq Socket
    <2>1. current \in 0..MaxSockets /\ (current # None => current \in Socket)
        BY BoundsAssumption DEF Inv, TunnelTypes, Socket, None
    <2> QED
        BY <2>1 DEF Inv, TunnelTypes, OpenEditor, CloseEditor
<1> QED
    BY <1>1 DEF Inv, RowTypes, TunnelTypes, Shown, OpenEditor, CloseEditor

LEMMA ReportKeeps ==
    ASSUME Inv, NEW state \in Reported, DeviceReports(state)
    PROVE  RowTypes' /\ TunnelTypes'
BY TunnelsApart DEF Inv, DeviceReports, RowTypes, Row, DeviceStates

DeviceStep ==
    \/ \E s \in Socket :
          \/ DeviceConnects(s) \/ DeviceLosesSocket(s) \/ AcceptSocket(s) \/ StartTunnel(s)
          \/ HandleClose(s) \/ MissClose(s) \/ SaveDisconnected(s) \/ CloseEditor(s)
    \/ OpenEditor
    \/ \E state \in Reported : DeviceReports(state)

LEMMA DeviceStepsApart ==
    ASSUME DeviceStep
    PROVE  UNCHANGED <<handlers, messages>>
BY DEF DeviceStep, DeviceConnects, DeviceLosesSocket, AcceptSocket, StartTunnel, HandleClose,
       MissClose, SaveDisconnected, CloseEditor, OpenEditor, DeviceReports

LEMMA DeviceStepKeeps ==
    ASSUME Inv, DeviceStep
    PROVE  Inv'
<1>1. Requests' /\ Messages'
    BY DeviceStepsApart, RequestsApart, MessagesApart DEF Inv
<1>2. RowTypes' /\ TunnelTypes'
    BY SocketKeeps, EditorKeeps, ReportKeeps DEF DeviceStep
<1> QED
    BY <1>1, <1>2 DEF Inv

LEMMA Steps ==
    ASSUME Next
    PROVE  \/ \E r \in Req, o \in Ops : Load(r, o)
           \/ \E r \in Req : Advance(r)
           \/ \E m \in Reply : ReceiveReply(m) \/ ResolveCommand(m)
           \/ \E c \in Command : TimeOut(c) \/ \E ok \in BOOLEAN : DeviceTakes(c, ok)
           \/ DeviceStep
BY DEF Next, DeviceStep

LEMMA NextKeeps == Inv /\ [Next]_vars => Inv'
<1>1. ASSUME Inv, Next PROVE Inv'
    BY <1>1, Steps, LoadKeeps, AdvanceKeeps, MessageKeeps, TimeOutKeeps, TakeKeeps, DeviceStepKeeps
<1>2. ASSUME Inv, UNCHANGED vars PROVE Inv'
    BY <1>2, RequestsApart, MessagesApart, TunnelsApart DEF Inv, vars, RowTypes
<1> QED
    BY <1>1, <1>2

LEMMA InitHolds == Init => Inv
<1>1. SUFFICES ASSUME Init PROVE Inv
    OBVIOUS
<1>2. row \in Row
    BY <1>1, BoundsAssumption, ReportedAssumption DEF Init, Row, DeviceStates, None
<1>3. RowTypes /\ RequestTypes /\ MessageTypes
    BY <1>1, <1>2, BoundsAssumption DEF Init, RowTypes, RequestTypes, MessageTypes, AllOps, None
<1>4. TunnelTypes
    <2>1. Unconnected \in Connection /\ Unconnected.tunnel = None
        BY BoundsAssumption DEF Unconnected, Connection, None
    <2>2. None \in 0..MaxSockets
        BY BoundsAssumption DEF None
    <2>3. socketOf \in [Socket -> 0..MaxSockets] /\ sock \in [Socket -> SocketStates]
        BY <1>1, <2>2 DEF Init, SocketStates
    <2>4. Shown(conn) /\ \A s \in Socket : conn[s].tunnel = None
        BY <1>1, <2>1 DEF Init, Shown
    <2> QED
        BY <1>1, <2>2, <2>3, <2>4 DEF Init, TunnelTypes
<1>5. OwnNumber /\ Unsent /\ Replied
    BY <1>1 DEF Init, OwnNumber, Unsent, Fresh, Replied
<1> QED
    BY <1>3, <1>4, <1>5 DEF Inv, Requests, Messages

LEMMA Inductive == Spec => []Inv
BY InitHolds, NextKeeps, PTL DEF Spec

\* The values of the row, of the handlers, of the messages and of the tunnels, whatever interleaves;
\* no socket is in a tunnel that did not show the row's token (ee/routes/deviceEditor).
THEOREM TypeCorrect == Spec => []TypeOK
<1>1. Inv => TypeOK
    BY DEF Inv, RowTypes, Requests, RequestTypes, Messages, MessageTypes, TunnelTypes, Shown, TypeOK
<1> QED
    BY <1>1, Inductive, PTL

-----------------------------------------------------------------------------
(* CommandReply *)

\* What the caller of a command knows, as CommandReply puts it.
Outcome(m) ==
    CASE m = "none" -> "unsent"
      [] m = "pending" -> "waiting"
      [] m \in {"ok", "refused"} -> "answered"
      [] m = "rejected" -> "timedOut"

Status == [c \in Command |-> Outcome(monitor[c])]
Taken == {c \in executed : monitor[c] # "none"}

LEMMA Mapping ==
    /\ Promise!Init <=> Status = [c \in Command |-> "unsent"] /\ Taken = {}
    /\ UNCHANGED <<Status, Taken>> => UNCHANGED Promise!vars
    /\ \A c \in Command :
        /\ Promise!Send(c) <=> /\ Status[c] = "unsent"
                               /\ Status' = [Status EXCEPT ![c] = "waiting"]
                               /\ Taken' = Taken
        /\ Promise!Execute(c) <=> /\ Status[c] # "unsent"
                                  /\ Taken' = Taken \cup {c}
                                  /\ Status' = Status
        /\ Promise!Answer(c) <=> /\ Status[c] = "waiting" /\ c \in Taken
                                 /\ Status' = [Status EXCEPT ![c] = "answered"]
                                 /\ Taken' = Taken
        /\ Promise!GiveUp(c) <=> /\ Status[c] = "waiting"
                                 /\ Status' = [Status EXCEPT ![c] = "timedOut"]
                                 /\ Taken' = Taken
BY DEF Status, Taken, Outcome, Promise!Init, Promise!vars, Promise!Send, Promise!Execute,
       Promise!Answer, Promise!GiveUp

LEMMA Sending ==
    ASSUME Messages, NEW c \in Command, Fresh(c),
           monitor' = [monitor EXCEPT ![c] = "pending"], UNCHANGED executed
    PROVE  Promise!Next
<1>1. Status[c] = "unsent" /\ Status' = [Status EXCEPT ![c] = "waiting"]
    BY DEF Status, Outcome, Fresh, Messages, MessageTypes
<1>2. Taken' = Taken
    BY DEF Taken, Fresh, Messages, MessageTypes
<1>3. Promise!Send(c)
    BY <1>1, <1>2, Mapping
<1> QED
    BY <1>3 DEF Promise!Next

LEMMA SettlingOnce ==
    ASSUME Messages, NEW c \in Command, monitor[c] = "pending",
           NEW outcome \in {"ok", "refused", "rejected"},
           outcome # "rejected" => c \in executed,
           monitor' = [monitor EXCEPT ![c] = outcome], UNCHANGED executed
    PROVE  Promise!Next
<1>1. Status[c] = "waiting" /\ Status' = [Status EXCEPT ![c] = Outcome(outcome)]
    BY DEF Status, Outcome, Messages, MessageTypes
<1>2. Taken' = Taken /\ (c \in executed => c \in Taken)
    BY DEF Taken, Messages, MessageTypes
<1>3. Promise!Answer(c) \/ Promise!GiveUp(c)
    BY <1>1, <1>2, Mapping DEF Outcome
<1> QED
    BY <1>3 DEF Promise!Next, Promise!Settle

LEMMA Taking ==
    ASSUME Messages, NEW c \in Command, executed' = executed \cup {c}, UNCHANGED monitor
    PROVE  [Promise!Next]_(Promise!vars)
<1>1. Status' = Status
    BY DEF Status
<1>2. CASE monitor[c] = "none"
    <2>1. Taken' = Taken
        BY <1>2 DEF Taken
    <2> QED
        BY <1>1, <2>1, Mapping
<1>3. CASE monitor[c] # "none"
    <2>1. Status[c] # "unsent"
        BY <1>3 DEF Status, Outcome, Messages, MessageTypes
    <2>2. Taken' = Taken \cup {c}
        BY <1>3 DEF Taken
    <2>3. Promise!Execute(c)
        BY <1>1, <2>1, <2>2, Mapping
    <2> QED
        BY <2>3 DEF Promise!Next
<1> QED
    BY <1>2, <1>3

LEMMA Quietly ==
    ASSUME UNCHANGED <<monitor, executed>>
    PROVE  [Promise!Next]_(Promise!vars)
BY Mapping DEF Status, Taken

LEMMA Simulates == Inv /\ [Next]_vars => [Promise!Next]_(Promise!vars)
<1>. SUFFICES ASSUME Inv, [Next]_vars PROVE [Promise!Next]_(Promise!vars)
    OBVIOUS
<1>. USE DEF Inv
<1>1. ASSUME NEW r \in Req, Advance(r)
      PROVE  [Promise!Next]_(Promise!vars)
    <2>1. CASE SaveToken(r) \/ BeginRestart(r) \/ BeginUpload(r)
        <3>1. pc[r] \in {"begin", "saveToken"} /\ SendCommand(cmd[r])
            BY <2>1 DEF SaveToken, BeginRestart, BeginUpload, Begins
        <3>2. cmd[r] \in Command /\ Fresh(cmd[r])
            BY <3>1, Numbered DEF Messages, Unsent
        <3> QED
            BY <3>1, <3>2, Sending DEF SendCommand
    <2>2. CASE BeginEnable(r) \/ BeginDisable(r) \/ StopEditor(r) \/ CloseAfterDisable(r) \/ Continue(r)
        BY <2>2, Quietly DEF BeginEnable, BeginDisable, StopEditor, CloseAfterDisable, Continue, messages
    <2> QED
        BY <1>1, <2>1, <2>2 DEF Advance
<1>2. ASSUME NEW r \in Req, NEW o \in Ops, Load(r, o)
      PROVE  [Promise!Next]_(Promise!vars)
    BY <1>2, Quietly DEF Load, messages
<1>3. ASSUME NEW m \in Reply, ReceiveReply(m)
      PROVE  [Promise!Next]_(Promise!vars)
    BY <1>3, Quietly DEF ReceiveReply
<1>4. ASSUME NEW m \in Reply, ResolveCommand(m)
      PROVE  [Promise!Next]_(Promise!vars)
    <2>1. m.cmd \in Command /\ m.cmd \in executed
        BY <1>4 DEF ResolveCommand, Reply, Messages, Replied
    <2>2. CASE monitor[m.cmd] = "pending"
        BY <1>4, <2>1, <2>2, SettlingOnce DEF ResolveCommand
    <2>3. CASE monitor[m.cmd] # "pending"
        BY <1>4, <2>3, Quietly DEF ResolveCommand
    <2> QED
        BY <2>2, <2>3
<1>5. ASSUME NEW c \in Command, TimeOut(c)
      PROVE  [Promise!Next]_(Promise!vars)
    BY <1>5, SettlingOnce DEF TimeOut
<1>6. ASSUME NEW c \in Command, NEW ok \in BOOLEAN, DeviceTakes(c, ok)
      PROVE  [Promise!Next]_(Promise!vars)
    BY <1>6, Taking DEF DeviceTakes
<1>7. CASE DeviceStep
    BY <1>7, DeviceStepsApart, Quietly DEF messages
<1>8. CASE UNCHANGED vars
    BY <1>8, Quietly DEF vars, messages
<1> QED
    BY <1>1, <1>2, <1>3, <1>4, <1>5, <1>6, <1>7, <1>8, Steps

LEMMA Starts == Init => Promise!Init
<1>1. SUFFICES ASSUME Init PROVE Promise!Init
    OBVIOUS
<1>2. Status = [c \in Command |-> "unsent"] /\ Taken = {}
    BY <1>1 DEF Init, Status, Taken, Outcome
<1> QED
    BY <1>2, Mapping

\* Each command is settled once, by the device's own reply to it or by its time-out, and stays so,
\* whatever is lost, late, repeated or refused and however many requests await replies: the safety
\* part of KeepsPromise (sendCommandAwaitReply, handleCommandResponse of comms/devices.js).
THEOREM ImplementsCommandReply == Spec => Promise!Init /\ [][Promise!Next]_(Promise!vars)
BY Starts, Simulates, Inductive, PTL DEF Spec

-----------------------------------------------------------------------------
(* A restart *)

\* The device itself does not report that it is restarting: the platform says so.
PlatformsWord == "restarting" \notin Reported

\* A command that succeeded was taken by the device.
Answered == \A c \in Command : monitor[c] = "ok" => c \in executed

\* The handler that wrote 'restarting' still awaits the reply and has another state to put back.
WillPutBack(r) == pc[r] = "await" /\ kind[cmd[r]] = "restart" /\ copy[r].state # "restarting"

RestartInv ==
    /\ Answered
    /\ row.state = "restarting" =>
            \/ \E r \in Req : WillPutBack(r)
            \/ \E c \in executed : kind[c] = "restart"

LEMMA AnsweredStays ==
    ASSUME Inv, Answered, [Next]_vars
    PROVE  Answered'
<1>. USE DEF Inv
<1>1. ASSUME NEW r \in Req, Advance(r)
      PROVE  Answered'
    <2>1. executed' = executed
          /\ (monitor' = monitor \/ monitor' = [monitor EXCEPT ![cmd[r]] = "pending"])
        BY <1>1 DEF Advance, BeginEnable, SaveToken, BeginDisable, StopEditor, CloseAfterDisable,
                    BeginRestart, BeginUpload, Continue, SendCommand, messages
    <2> QED
        BY <2>1 DEF Answered, Messages, MessageTypes
<1>2. ASSUME NEW m \in Reply, ReceiveReply(m) \/ ResolveCommand(m)
      PROVE  Answered'
    BY <1>2 DEF Answered, ReceiveReply, ResolveCommand, Messages, MessageTypes, Replied
<1>3. ASSUME NEW c \in Command, TimeOut(c) \/ \E ok \in BOOLEAN : DeviceTakes(c, ok)
      PROVE  Answered'
    BY <1>3 DEF Answered, TimeOut, DeviceTakes, Messages, MessageTypes
<1>4. ASSUME UNCHANGED messages
      PROVE  Answered'
    BY <1>4 DEF Answered, messages
<1>5. \A r \in Req, o \in Ops : Load(r, o) => UNCHANGED messages
    BY DEF Load
<1> QED
    BY <1>1, <1>2, <1>3, <1>4, <1>5, Steps, DeviceStepsApart DEF vars

\* Whoever waits to put a state back goes on waiting, and a restart the device took stays taken,
\* as long as the commands keep their kinds.
LEMMA WaitingStays ==
    ASSUME Inv, RestartInv, NEW r \in Req,
           \A q \in Req \ {r} : pc'[q] = pc[q] /\ cmd'[q] = cmd[q] /\ copy'[q] = copy[q],
           \A c \in Command : c <= served => kind'[c] = kind[c],
           executed' = executed,
           WillPutBack(r) => WillPutBack(r)', row'.state = row.state, Answered'
    PROVE  RestartInv'
<1>. USE DEF Inv
<1>1. ASSUME NEW q \in Req, q # r, WillPutBack(q)
      PROVE  WillPutBack(q)'
    <2>1. cmd[q] \in Command /\ cmd[q] <= served
        BY <1>1, Numbered DEF WillPutBack
    <2> QED
        BY <1>1, <2>1 DEF WillPutBack
<1>2. ASSUME NEW c \in executed
      PROVE  c \in Command /\ c <= served
    <2>1. c \in Command /\ ~(c > served)
        BY DEF Messages, MessageTypes, Unsent, Fresh
    <2> QED
        BY <2>1, BoundsAssumption DEF Command, Requests, RequestTypes
<1> QED
    BY <1>1, <1>2 DEF RestartInv

LEMMA AdvanceKeepsRestart ==
    ASSUME Inv, RestartInv, NEW r \in Req, Advance(r), Answered'
    PROVE  RestartInv'
<1>. USE DEF Inv
<1>0. /\ \A q \in Req \ {r} : pc'[q] = pc[q] /\ cmd'[q] = cmd[q] /\ copy'[q] = copy[q]
      /\ kind' = kind /\ executed' = executed
    <2>1. cmd' = cmd /\ kind' = kind /\ executed' = executed
        BY DEF Advance, BeginEnable, SaveToken, BeginDisable, StopEditor, CloseAfterDisable,
               BeginRestart, BeginUpload, Continue, SendCommand, messages
    <2>2. \E step : pc' = [pc EXCEPT ![r] = step]
        BY DEF Advance, BeginEnable, SaveToken, BeginDisable, StopEditor, CloseAfterDisable,
               BeginRestart, BeginUpload, Continue, Goto
    <2>3. copy' = copy \/ \E token : copy' = [copy EXCEPT ![r].token = token]
        BY DEF Advance, BeginEnable, SaveToken, BeginDisable, StopEditor, CloseAfterDisable,
               BeginRestart, BeginUpload, Continue
    <2> QED
        BY <2>1, <2>2, <2>3 DEF Requests, RequestTypes
<1>1. pc \in [Req -> {"idle", "begin", "saveToken", "await", "stopEditor", "closeTunnel"}]
      /\ row \in Row /\ copy[r] \in Row
    BY DEF Requests, RequestTypes, RowTypes
<1>2. CASE BeginEnable(r) \/ SaveToken(r) \/ BeginDisable(r) \/ StopEditor(r)
           \/ CloseAfterDisable(r) \/ BeginUpload(r)
    <2>1. row'.state = row.state /\ ~WillPutBack(r)
        BY <1>1, <1>2
        DEF BeginEnable, SaveToken, BeginDisable, StopEditor, CloseAfterDisable, BeginUpload,
            Begins, WillPutBack, Row
    <2> QED
        BY <1>0, <2>1, WaitingStays
<1>3. CASE BeginRestart(r)
    <2>1. ~WillPutBack(r) /\ kind[cmd[r]] = "restart" /\ pc'[r] = "await"
          /\ copy' = copy /\ cmd' = cmd
        BY <1>1, <1>3 DEF BeginRestart, Begins, WillPutBack, Goto
    <2>2. CASE copy[r].state = "restarting"
        <3>1. row'.state = row.state
            BY <1>1, <1>3, <2>2 DEF BeginRestart, WriteState, Row
        <3> QED
            BY <1>0, <2>1, <3>1, WaitingStays
    <2>3. CASE copy[r].state # "restarting"
        <3>1. WillPutBack(r)'
            BY <1>0, <2>1, <2>3 DEF WillPutBack
        <3> QED
            BY <3>1 DEF RestartInv
    <2> QED
        BY <2>2, <2>3
<1>4. CASE Continue(r)
    <2>1. cmd[r] \in Command /\ kind[cmd[r]] \in AllOps /\ kind[cmd[r]] # "disable"
        BY <1>4, Numbered DEF Continue, Requests, RequestTypes, OwnNumber
    <2>2. CASE kind[cmd[r]] # "restart"
        <3>1. row'.state = row.state /\ ~WillPutBack(r)
            BY <1>1, <1>4, <2>1, <2>2 DEF Continue, AfterReply, WillPutBack, AllOps, Row
        <3> QED
            BY <1>0, <3>1, WaitingStays
    <2>3. CASE kind[cmd[r]] = "restart" /\ monitor[cmd[r]] = "ok"
        <3>1. cmd[r] \in executed
            BY <2>1, <2>3 DEF RestartInv, Answered
        <3> QED
            BY <1>0, <2>3, <3>1 DEF RestartInv
    <2>4. CASE kind[cmd[r]] = "restart" /\ monitor[cmd[r]] # "ok"
        <3>1. row' = [row EXCEPT !.state = WriteState("restarting", copy[r].state)]
            BY <1>4, <2>4 DEF Continue, AfterReply
        <3>2. CASE copy[r].state = "restarting"
            <4>1. row'.state = row.state /\ ~WillPutBack(r)
                BY <1>1, <3>1, <3>2 DEF WriteState, WillPutBack, Row
            <4> QED
                BY <1>0, <4>1, WaitingStays
        <3>3. CASE copy[r].state # "restarting"
            <4>1. row'.state # "restarting"
                BY <1>1, <3>1, <3>3 DEF WriteState, Row
            <4> QED
                BY <4>1 DEF RestartInv
        <3> QED
            BY <3>2, <3>3
    <2> QED
        BY <2>2, <2>3, <2>4
<1> QED
    BY <1>2, <1>3, <1>4 DEF Advance

LEMMA StepKeepsRestart ==
    ASSUME Inv, RestartInv, PlatformsWord, [Next]_vars
    PROVE  RestartInv'
<1>. USE DEF Inv
<1>0. Answered'
    BY AnsweredStays DEF RestartInv
<1>1. ASSUME NEW r \in Req, NEW o \in Ops, Load(r, o)
      PROVE  RestartInv'
    <2>1. pc \in [Req -> {"idle", "begin", "saveToken", "await", "stopEditor", "closeTunnel"}]
          /\ cmd \in [Req -> 0..MaxOps] /\ copy \in [Req -> Row] /\ kind \in [Command -> AllOps]
          /\ served \in Nat
        BY BoundsAssumption DEF Requests, RequestTypes
    <2>2. /\ \A q \in Req \ {r} : pc'[q] = pc[q] /\ cmd'[q] = cmd[q] /\ copy'[q] = copy[q]
          /\ row' = row /\ executed' = executed /\ ~WillPutBack(r)
        BY <1>1, <2>1 DEF Load, Goto, WillPutBack, messages
    <2>3. \A c \in Command : c <= served => kind'[c] = kind[c]
        BY <1>1, <2>1, BoundsAssumption DEF Load, Command
    <2> QED
        BY <1>0, <2>2, <2>3, WaitingStays
<1>2. ASSUME UNCHANGED handlers, executed \subseteq executed',
             row'.state = "restarting" => row.state = "restarting"
      PROVE  RestartInv'
    BY <1>0, <1>2 DEF RestartInv, WillPutBack, handlers
<1>3. ASSUME NEW m \in Reply, ReceiveReply(m) \/ ResolveCommand(m)
      PROVE  RestartInv'
    BY <1>2, <1>3 DEF ReceiveReply, ResolveCommand
<1>4. ASSUME NEW c \in Command, TimeOut(c) \/ \E ok \in BOOLEAN : DeviceTakes(c, ok)
      PROVE  RestartInv'
    BY <1>2, <1>4 DEF TimeOut, DeviceTakes
<1>5. ASSUME DeviceStep
      PROVE  RestartInv'
    <2>1. UNCHANGED handlers /\ executed' = executed
        BY <1>5, DeviceStepsApart DEF messages
    <2>2. row'.state = "restarting" => row.state = "restarting"
        BY <1>5 DEF DeviceStep, DeviceConnects, DeviceLosesSocket, AcceptSocket, StartTunnel,
                    HandleClose, MissClose, SaveDisconnected, CloseEditor, OpenEditor, DeviceReports,
                    MarkConnected, RowTypes, Row, PlatformsWord
    <2> QED
        BY <1>2, <2>1, <2>2
<1>6. ASSUME UNCHANGED vars
      PROVE  RestartInv'
    BY <1>2, <1>6 DEF vars, messages
<1> QED
    BY <1>0, <1>1, <1>3, <1>4, <1>5, <1>6, AdvanceKeepsRestart, Steps

\* However many requests to restart overlap, fail and time out, the row does not stay at
\* 'restarting' unless the device took a restart: a handler that fails puts back the state it found,
\* and one that found another's 'restarting' leaves the row alone (POST restart of device.js).
THEOREM RestartsAreUndone ==
    ASSUME PlatformsWord
    PROVE  Spec => []NoStuckRestart
<1>1. Init => RestartInv
    BY DEF Init, RestartInv, Answered
<1>2. RestartInv => NoStuckRestart
    BY DEF RestartInv, WillPutBack, NoStuckRestart
<1>3. Inv /\ RestartInv /\ [Next]_vars => RestartInv'
    BY StepKeepsRestart
<1> QED
    BY <1>1, <1>2, <1>3, Inductive, PTL DEF Spec

-----------------------------------------------------------------------------
(* The tunnel *)

\* Something of the socket is still to be handled.
Active(s) == sock[s] \in {"loaded", "saving", "open", "gone"} \/ conn[s].farewell

InTunnel(s) == current = s /\ socketOf[s] = s /\ conn[s].tunnel = s

\* Where the row and the manager stand at each stage of a socket's life.
Stands(s) ==
    /\ conn[s].starting => sock[s] = "saving"
    /\ conn[s].farewell => sock[s] = "done" /\ current = None
    /\ sock[s] = "loaded" => current = None /\ ~row.connected /\ ~conn[s].connected
    /\ sock[s] = "saving" => InTunnel(s) /\ ~row.connected /\ ~conn[s].connected
    /\ sock[s] = "open" => InTunnel(s) /\ conn[s].listens /\ row.connected
    /\ sock[s] = "gone" => conn[s].listens /\ conn[s].tunnel = s /\ current \in {s, None}

OneActive == \A s, q \in Socket : Active(s) /\ Active(q) => s = q

\* As long as the device reconnects in order, one socket at a time is under way.
Regular ==
    ~irregular =>
        /\ editors \subseteq {current}
        /\ OneActive
        /\ \A s \in Socket : Stands(s)
        /\ (\A s \in Socket : ~Active(s)) => current = None /\ ~row.connected

SocketTypes ==
    /\ row \in Row /\ irregular \in BOOLEAN
    /\ conn \in [Socket -> Connection] /\ sock \in [Socket -> SocketStates]
    /\ socketOf \in [Socket -> 0..MaxSockets] /\ editors \subseteq Socket
    /\ \A s \in Socket : s # None

LEMMA SocketsTyped ==
    ASSUME Inv
    PROVE  SocketTypes
BY BoundsAssumption DEF Inv, RowTypes, TunnelTypes, Shown, SocketTypes, Socket, None

\* Steps that leave the sockets, the tunnel and the row's editorConnected alone.
LEMMA TunnelStands ==
    ASSUME Regular, editors' \subseteq editors, row'.connected = row.connected,
           UNCHANGED <<current, socketOf, sock, conn, irregular>>
    PROVE  Regular'
<1>1. \A s \in Socket : (Active(s)' <=> Active(s)) /\ (Stands(s)' <=> Stands(s))
    BY DEF Active, Stands, InTunnel
<1>2. OneActive' <=> OneActive
    BY <1>1 DEF OneActive
<1> QED
    BY <1>1, <1>2 DEF Regular

LEMMA ClosingStands ==
    ASSUME Inv, Regular, CloseTunnel, UNCHANGED row.connected
    PROVE  Regular'
<1>. SUFFICES ASSUME ~irregular' PROVE Regular'
    BY DEF Regular
<1>0. SocketTypes
    BY SocketsTyped
<1>1. /\ sock' = Hangup(current) /\ current' = None /\ editors' = editors \ {current}
      /\ UNCHANGED <<socketOf, conn, row.connected>>
      /\ ~irregular /\ \A s \in Socket : sock[s] = "saving" => sock'[s] # "gone"
    BY DEF CloseTunnel
<1>2. /\ editors \subseteq {current} /\ OneActive /\ \A s \in Socket : Stands(s)
      /\ (\A s \in Socket : ~Active(s)) => current = None /\ ~row.connected
    BY <1>1 DEF Regular
<1>3. CASE \E s \in Socket : current = s /\ sock[s] \in {"saving", "open"}
    <2>1. PICK s \in Socket : current = s /\ sock[s] \in {"saving", "open"}
        BY <1>3
    <2>2. InTunnel(s) /\ sock' = [sock EXCEPT ![s] = "gone"]
        BY <1>0, <1>1, <1>2, <2>1 DEF Stands, Hangup, InTunnel, SocketTypes
    <2>3. sock[s] = "open" /\ sock'[s] = "gone"
        BY <1>0, <1>1, <2>1, <2>2 DEF SocketTypes
    <2>4. \A q \in Socket : Active(q)' <=> Active(q)
        BY <1>0, <1>1, <2>2, <2>3 DEF Active, SocketTypes
    <2>5. ASSUME NEW q \in Socket, q # s
          PROVE  Stands(q)'
        <3>1. ~Active(q) /\ sock'[q] = sock[q]
            BY <1>0, <1>2, <2>2, <2>3, <2>5 DEF OneActive, Active, SocketTypes
        <3> QED
            BY <1>1, <1>2, <3>1 DEF Stands, Active
    <2>6. Stands(s)'
        BY <1>1, <1>2, <2>2, <2>3 DEF Stands, InTunnel
    <2>7. OneActive' /\ Active(s)'
        BY <1>2, <2>3, <2>4 DEF OneActive, Active
    <2> QED
        BY <1>1, <1>2, <2>5, <2>6, <2>7 DEF Regular
<1>4. CASE ~\E s \in Socket : current = s /\ sock[s] \in {"saving", "open"}
    <2>1. \A s \in Socket : sock[s] \notin {"saving", "open"}
        BY <1>2, <1>4 DEF Stands, InTunnel
    <2>2. sock' = sock
        <3>1. CASE current \in Socket /\ socketOf[current] # None
            <4>1. socketOf[current] \in Socket
                BY <1>0, <3>1, BoundsAssumption DEF SocketTypes, Socket, None
            <4> QED
                BY <1>1, <2>1, <4>1 DEF Hangup
        <3>2. CASE ~(current \in Socket /\ socketOf[current] # None)
            <4>1. current \in Socket \/ current = None
                BY BoundsAssumption DEF Inv, TunnelTypes, Socket, None
            <4> QED
                BY <1>1, <3>2, <4>1 DEF Hangup
        <3> QED
            BY <3>1, <3>2
    <2>3. \A s \in Socket : (Active(s)' <=> Active(s)) /\ Stands(s)'
        BY <1>1, <1>2, <2>1, <2>2 DEF Active, Stands
    <2>4. OneActive'
        BY <1>2, <2>3 DEF OneActive
    <2> QED
        BY <1>1, <1>2, <2>3, <2>4 DEF Regular
<1> QED
    BY <1>3, <1>4

\* A step of one socket, the only active one.
LEMMA OneSocketMoves ==
    ASSUME Regular, ~irregular, NEW s \in Socket, \A q \in Socket \ {s} : ~Active(q),
           \A q \in Socket \ {s} : sock'[q] = sock[q] /\ conn'[q] = conn[q],
           editors' \subseteq {current'}, Stands(s)',
           ~Active(s)' => current' = None /\ ~row'.connected
    PROVE  Regular'
<1>1. \A q \in Socket \ {s} : Stands(q)' /\ ~Active(q)'
    BY DEF Regular, Stands, Active
<1>2. OneActive'
    BY <1>1 DEF OneActive
<1> QED
    BY <1>1, <1>2 DEF Regular

LEMMA ConnectStands ==
    ASSUME Inv, Regular, NEW s \in Socket, DeviceConnects(s)
    PROVE  Regular'
<1>. SUFFICES ASSUME ~irregular' PROVE Regular'
    BY DEF Regular
<1>0. SocketTypes
    BY SocketsTyped
<1>1. ~irregular /\ \A q \in Socket : ~Active(q)
    BY <1>0 DEF DeviceConnects, Unhandled, Live, Active
<1>2. sock[s] = "unused" /\ ~conn[s].starting /\ ~conn[s].farewell /\ current = None /\ ~row.connected
    BY <1>1 DEF DeviceConnects, Regular, Stands, Active
<1>3. /\ sock' = [sock EXCEPT ![s] = "loaded"]
      /\ conn' = [conn EXCEPT ![s].presented = deviceToken, ![s].token = row.token,
                              ![s].connected = row.connected]
      /\ UNCHANGED <<row, current, socketOf, editors>>
    BY DEF DeviceConnects
<1>. DEFINE c == [conn[s] EXCEPT !.presented = deviceToken, !.token = row.token,
                                 !.connected = row.connected]
<1>4. ~c.starting /\ ~c.farewell /\ c.connected = row.connected
    BY <1>0, <1>2 DEF SocketTypes, Connection
<1>5. conn' = [conn EXCEPT ![s] = c]
    BY <1>3
<1>. HIDE DEF c
<1>6. sock'[s] = "loaded" /\ conn'[s] = c
      /\ \A q \in Socket \ {s} : sock'[q] = sock[q] /\ conn'[q] = conn[q]
    BY <1>0, <1>3, <1>5 DEF SocketTypes
<1>7. Stands(s)' /\ Active(s)'
    BY <1>2, <1>3, <1>4, <1>6 DEF Stands, Active
<1> QED
    BY <1>1, <1>3, <1>6, <1>7, OneSocketMoves DEF Regular

LEMMA AcceptStands ==
    ASSUME Inv, Regular, NEW s \in Socket, AcceptSocket(s)
    PROVE  Regular'
<1>. SUFFICES ASSUME ~irregular' PROVE Regular'
    BY DEF Regular
<1>0. SocketTypes
    BY SocketsTyped
<1>1. ~irregular /\ sock[s] = "loaded" /\ UNCHANGED <<row, editors>>
    BY DEF AcceptSocket
<1>2. /\ Stands(s) /\ \A q \in Socket \ {s} : ~Active(q)
      /\ editors \subseteq {current}
    BY <1>1 DEF Regular, OneActive, Active
<1>3. ~conn[s].starting /\ ~conn[s].farewell /\ current = None /\ ~row.connected /\ ~conn[s].connected
    BY <1>1, <1>2 DEF Stands
<1>4. editors = {}
    BY <1>0, <1>2, <1>3 DEF SocketTypes
<1>5. CASE ~TokenValid(s)
    <2>1. sock' = [sock EXCEPT ![s] = "done"] /\ UNCHANGED <<current, socketOf, conn>>
        BY <1>5 DEF AcceptSocket
    <2>2. sock'[s] = "done" /\ \A q \in Socket \ {s} : sock'[q] = sock[q]
        BY <1>0, <2>1 DEF SocketTypes
    <2>3. Stands(s)'
        BY <1>3, <2>1, <2>2 DEF Stands
    <2> QED
        BY <1>1, <1>2, <1>3, <1>4, <2>1, <2>2, <2>3, OneSocketMoves
<1>6. CASE TokenValid(s)
    <2>1. Hangup(s) = sock
        <3>1. \A q \in Socket : sock[q] \notin {"saving", "open"}
            BY <1>1, <1>2 DEF Active
        <3>2. socketOf[s] = None \/ socketOf[s] \in Socket
            BY <1>0, BoundsAssumption DEF SocketTypes, Socket, None
        <3> QED
            BY <3>1, <3>2 DEF Hangup
    <2>2. /\ sock' = [sock EXCEPT ![s] = "saving"] /\ current' = s
          /\ socketOf' = [socketOf EXCEPT ![s] = s]
          /\ conn' = [conn EXCEPT ![s].tunnel = s, ![s].starting = TRUE]
        BY <1>3, <1>6, <2>1 DEF AcceptSocket
    <2>. DEFINE c == [conn[s] EXCEPT !.tunnel = s, !.starting = TRUE]
    <2>3. c.tunnel = s /\ c.farewell = conn[s].farewell /\ c.connected = conn[s].connected
        BY <1>0 DEF SocketTypes, Connection
    <2>4. conn' = [conn EXCEPT ![s] = c]
        BY <2>2
    <2>. HIDE DEF c
    <2>5. sock'[s] = "saving" /\ socketOf'[s] = s /\ conn'[s] = c
          /\ \A q \in Socket \ {s} : sock'[q] = sock[q] /\ conn'[q] = conn[q]
        BY <1>0, <2>2, <2>4 DEF SocketTypes
    <2>6. Stands(s)' /\ Active(s)'
        BY <1>1, <1>3, <2>2, <2>3, <2>5 DEF Stands, Active, InTunnel
    <2> QED
        BY <1>1, <1>2, <1>4, <2>5, <2>6, OneSocketMoves
<1> QED
    BY <1>5, <1>6

LEMMA StartStands ==
    ASSUME Inv, Regular, NEW s \in Socket, StartTunnel(s)
    PROVE  Regular'
<1>. SUFFICES ASSUME ~irregular' PROVE Regular'
    BY DEF Regular
<1>0. SocketTypes
    BY SocketsTyped
<1>1. ~irregular /\ conn[s].starting /\ UNCHANGED <<current, socketOf, editors>>
    BY DEF StartTunnel
<1>2. Stands(s) /\ sock[s] = "saving"
    BY <1>1 DEF Regular, Stands
<1>3. /\ InTunnel(s) /\ ~conn[s].farewell /\ ~conn[s].connected
      /\ editors \subseteq {current} /\ \A q \in Socket \ {s} : ~Active(q)
    BY <1>1, <1>2 DEF Stands, Regular, OneActive, Active
<1>4. /\ row' = [row EXCEPT !.connected = TRUE]
      /\ conn' = [conn EXCEPT ![s].starting = FALSE, ![s].listens = TRUE]
      /\ sock' = [sock EXCEPT ![s] = "open"]
    BY <1>0, <1>2, <1>3 DEF StartTunnel, MarkConnected, InTunnel, SocketTypes
<1>. DEFINE c == [conn[s] EXCEPT !.starting = FALSE, !.listens = TRUE]
<1>5. ~c.starting /\ c.listens /\ ~c.farewell /\ c.tunnel = conn[s].tunnel
    BY <1>0, <1>3 DEF SocketTypes, Connection
<1>6. conn' = [conn EXCEPT ![s] = c]
    BY <1>4
<1>. HIDE DEF c
<1>7. sock'[s] = "open" /\ conn'[s] = c /\ row'.connected
      /\ \A q \in Socket \ {s} : sock'[q] = sock[q] /\ conn'[q] = conn[q]
    BY <1>0, <1>4, <1>6 DEF SocketTypes, Row
<1>8. Stands(s)' /\ Active(s)'
    BY <1>1, <1>3, <1>5, <1>7 DEF Stands, Active, InTunnel
<1> QED
    BY <1>1, <1>3, <1>7, <1>8, OneSocketMoves

\* The socket is lost, or its close is handled.
LEMMA LossStands ==
    ASSUME Inv, Regular, NEW s \in Socket, DeviceLosesSocket(s) \/ MissClose(s)
    PROVE  Regular'
<1>. SUFFICES ASSUME ~irregular' PROVE Regular'
    BY DEF Regular
<1>0. SocketTypes
    BY SocketsTyped
<1>1. ~irregular /\ UNCHANGED <<row, current, socketOf, conn, editors>>
    <2>1. CASE DeviceLosesSocket(s)
        BY <2>1 DEF DeviceLosesSocket
    <2>2. CASE MissClose(s)
        BY <2>2 DEF MissClose
    <2> QED
        BY <2>1, <2>2
<1>2. Stands(s) /\ editors \subseteq {current} /\ \A q \in Socket : Active(s) /\ Active(q) => s = q
    BY <1>1 DEF Regular, OneActive
<1>3. sock[s] = "open" /\ sock' = [sock EXCEPT ![s] = "gone"]
    BY <1>2 DEF DeviceLosesSocket, MissClose, Stands
<1>4. sock'[s] = "gone" /\ \A q \in Socket \ {s} : sock'[q] = sock[q]
    BY <1>0, <1>3 DEF SocketTypes
<1>5. Stands(s)' /\ Active(s)' /\ \A q \in Socket \ {s} : ~Active(q)
    BY <1>1, <1>2, <1>3, <1>4 DEF Stands, Active, InTunnel
<1> QED
    BY <1>1, <1>2, <1>4, <1>5, OneSocketMoves

LEMMA CloseStands ==
    ASSUME Inv, Regular, NEW s \in Socket, HandleClose(s) \/ SaveDisconnected(s)
    PROVE  Regular'
<1>. SUFFICES ASSUME ~irregular' PROVE Regular'
    BY DEF Regular
<1>0. SocketTypes
    BY SocketsTyped
<1>1. ~irregular /\ (sock[s] = "gone" \/ conn[s].farewell)
    BY DEF HandleClose, SaveDisconnected
<1>2. /\ Stands(s) /\ editors \subseteq {current} /\ ~conn[s].starting
      /\ \A q \in Socket \ {s} : ~Active(q)
    BY <1>1 DEF Regular, OneActive, Active, Stands
<1>3. CASE HandleClose(s)
    <2>1. /\ sock' = [sock EXCEPT ![s] = "done"] /\ current' = None
          /\ editors' = editors \ {s} /\ current \in {s, None}
          /\ conn' = [conn EXCEPT ![s].farewell = TRUE] /\ UNCHANGED row
        BY <1>2, <1>3 DEF HandleClose, Stands
    <2>. DEFINE c == [conn[s] EXCEPT !.farewell = TRUE]
    <2>2. ~c.starting /\ c.farewell
        BY <1>0, <1>2 DEF SocketTypes, Connection
    <2>3. conn' = [conn EXCEPT ![s] = c]
        BY <2>1
    <2>. HIDE DEF c
    <2>4. sock'[s] = "done" /\ conn'[s] = c
          /\ \A q \in Socket \ {s} : sock'[q] = sock[q] /\ conn'[q] = conn[q]
        BY <1>0, <2>1, <2>3 DEF SocketTypes
    <2>5. Stands(s)' /\ Active(s)'
        BY <2>1, <2>2, <2>4 DEF Stands, Active
    <2> QED
        BY <1>1, <1>2, <2>1, <2>4, <2>5, OneSocketMoves
<1>4. CASE SaveDisconnected(s)
    <2>1. /\ conn[s].farewell /\ sock[s] = "done" /\ current = None
          /\ conn' = [conn EXCEPT ![s].farewell = FALSE]
          /\ row' = [row EXCEPT !.connected = FALSE]
          /\ UNCHANGED <<current, sock, editors>>
        BY <1>2, <1>4 DEF SaveDisconnected, Stands
    <2>. DEFINE c == [conn[s] EXCEPT !.farewell = FALSE]
    <2>2. ~c.starting /\ ~c.farewell
        BY <1>0, <1>2 DEF SocketTypes, Connection
    <2>3. conn' = [conn EXCEPT ![s] = c]
        BY <2>1
    <2>. HIDE DEF c
    <2>4. conn'[s] = c /\ ~row'.connected /\ \A q \in Socket \ {s} : conn'[q] = conn[q]
        BY <1>0, <2>1, <2>3 DEF SocketTypes, Row
    <2>5. Stands(s)'
        BY <2>1, <2>2, <2>4 DEF Stands
    <2> QED
        BY <1>1, <1>2, <2>1, <2>4, <2>5, OneSocketMoves
<1> QED
    BY <1>3, <1>4

\* A new token, or none: the device closes the socket it has.
LEMMA TakeStands ==
    ASSUME Inv, Regular, NEW c \in Command, NEW ok \in BOOLEAN, DeviceTakes(c, ok)
    PROVE  Regular'
<1>. SUFFICES ASSUME ~irregular' PROVE Regular'
    BY DEF Regular
<1>0. SocketTypes
    BY SocketsTyped
<1>1. ~irregular /\ UNCHANGED <<row, current, socketOf, conn, editors, irregular>>
    BY DEF DeviceTakes
<1>2. CASE sock' = sock
    BY <1>1, <1>2, TunnelStands
<1>3. CASE sock' = [s \in Socket |-> IF sock[s] = "open" THEN "gone" ELSE sock[s]]
    <2>1. CASE \E s \in Socket : sock[s] = "open"
        <3>1. PICK s \in Socket : sock[s] = "open"
            BY <2>1
        <3>2. \A q \in Socket \ {s} : ~Active(q)
            BY <1>1, <3>1 DEF Regular, OneActive, Active
        <3>3. sock'[s] = "gone" /\ \A q \in Socket \ {s} : sock'[q] = sock[q]
            BY <1>3, <3>1, <3>2 DEF Active
        <3>4. Stands(s)' /\ Active(s)'
            BY <1>1, <3>1, <3>3 DEF Regular, Stands, Active, InTunnel
        <3>5. editors' \subseteq {current'}
            BY <1>1 DEF Regular
        <3> QED
            BY <1>1, <3>2, <3>3, <3>4, <3>5, OneSocketMoves
    <2>2. CASE ~\E s \in Socket : sock[s] = "open"
        <3>1. sock' = sock
            BY <1>0, <1>3, <2>2 DEF SocketTypes
        <3> QED
            BY <1>1, <3>1, TunnelStands
    <2> QED
        BY <2>1, <2>2
<1> QED
    BY <1>2, <1>3 DEF DeviceTakes

LEMMA RequestStands ==
    ASSUME Inv, Regular, NEW r \in Req, Advance(r)
    PROVE  Regular'
<1>1. row'.connected = row.connected
    <2>1. row \in Row
        BY SocketsTyped DEF SocketTypes
    <2>2. CASE Continue(r)
        <3>1. kind[cmd[r]] \in AllOps /\ kind[cmd[r]] # "disable"
            BY <2>2, Numbered DEF Continue, Inv, Requests, RequestTypes, OwnNumber
        <3> QED
            BY <2>1, <2>2, <3>1 DEF Continue, AfterReply, AllOps, Row
    <2>3. CASE ~Continue(r)
        BY <2>1, <2>3
        DEF Advance, BeginEnable, SaveToken, BeginDisable, StopEditor, CloseAfterDisable,
            BeginRestart, BeginUpload, Row
    <2> QED
        BY <2>2, <2>3
<1>2. CloseTunnel \/ UNCHANGED tunnels
    BY DEF Advance, BeginEnable, SaveToken, BeginDisable, StopEditor, CloseAfterDisable,
           BeginRestart, BeginUpload, Continue
<1> QED
    BY <1>1, <1>2, ClosingStands, TunnelStands DEF tunnels

LEMMA StepStands ==
    ASSUME Inv, Regular, [Next]_vars
    PROVE  Regular'
<1>0. row \in Row
    BY SocketsTyped DEF SocketTypes
<1>1. ASSUME UNCHANGED <<row, tunnels>>
      PROVE  Regular'
    BY <1>1, TunnelStands DEF tunnels
<1>2. ASSUME NEW r \in Req, NEW o \in Ops, Load(r, o)
      PROVE  Regular'
    BY <1>1, <1>2 DEF Load
<1>3. ASSUME NEW m \in Reply, ReceiveReply(m) \/ ResolveCommand(m)
      PROVE  Regular'
    BY <1>1, <1>3 DEF ReceiveReply, ResolveCommand
<1>4. ASSUME NEW c \in Command, TimeOut(c)
      PROVE  Regular'
    BY <1>1, <1>4 DEF TimeOut
<1>5. ASSUME NEW state \in Reported, DeviceReports(state)
      PROVE  Regular'
    <2>1. row'.connected = row.connected
        BY <1>0, <1>5 DEF DeviceReports, Row
    <2> QED
        BY <1>5, <2>1, TunnelStands DEF DeviceReports, tunnels
<1>6. ASSUME NEW t \in Socket, CloseEditor(t)
      PROVE  Regular'
    BY <1>6, TunnelStands DEF CloseEditor
<1>7. ASSUME OpenEditor
      PROVE  Regular'
    <2>1. \A s \in Socket : (Active(s)' <=> Active(s)) /\ (Stands(s)' <=> Stands(s))
        BY <1>7 DEF OpenEditor, Active, Stands, InTunnel
    <2>2. OneActive' <=> OneActive
        BY <2>1 DEF OneActive
    <2> QED
        BY <1>7, <2>1, <2>2 DEF OpenEditor, Regular
<1>8. CASE UNCHANGED vars
    BY <1>1, <1>8 DEF vars
<1> QED
    BY <1>2, <1>3, <1>4, <1>5, <1>6, <1>7, <1>8, RequestStands, TakeStands, ConnectStands,
       AcceptStands, StartStands, LossStands, CloseStands, Steps DEF DeviceStep

\* However many sockets the device opens, and whatever the requests to enable and disable the
\* editor do meanwhile: while it reconnects only after its last close was handled, editorConnected,
\* the manager's tunnel and the device's socket agree whenever nothing is left to be handled
\* (initTunnel, closeTunnel and the handlers of DeviceTunnelManager.js).
THEOREM TunnelIsFollowed == Spec => []RowFollowsTunnel
<1>1. Init => Regular
    BY DEF Init, Regular, OneActive, Stands, Active, Unconnected
<1>2. Inv /\ Regular => RowFollowsTunnel
    <2>. SUFFICES ASSUME Inv, Regular, ~irregular, Quiet
                  PROVE  /\ row.connected = (current # None)
                         /\ current # None => socketOf[current] \in Live
                         /\ editors \subseteq {current}
        BY DEF RowFollowsTunnel
    <2>0. SocketTypes /\ row.connected \in BOOLEAN
        BY SocketsTyped DEF SocketTypes, Row
    <2>1. CASE \E s \in Socket : sock[s] = "open"
        BY <2>0, <2>1 DEF Regular, Stands, InTunnel, Live, SocketTypes
    <2>2. CASE ~\E s \in Socket : sock[s] = "open"
        <3>1. \A s \in Socket : ~Active(s)
            BY <2>2 DEF Quiet, Active
        <3> QED
            BY <2>0, <3>1 DEF Regular
    <2> QED
        BY <2>1, <2>2
<1>3. Inv /\ Regular /\ [Next]_vars => Regular'
    BY StepStands
<1> QED
    BY <1>1, <1>2, <1>3, Inductive, PTL DEF Spec
=============================================================================

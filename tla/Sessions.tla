------------------------------ MODULE Sessions ------------------------------
(***************************************************************************)
(* Devices that report by themselves: the websocket server and the MQTT    *)
(* client (plugins/websocket, plugins/mqtt), up to the status of their     *)
(* devices.                                                                *)
(*                                                                         *)
(* A websocket connection has a goroutine, which decodes every message     *)
(* into the devices it is about, notes over which connection each device   *)
(* reported last, and exports.  When the connection ends it takes the      *)
(* devices that reported over it, and sets those offline that are still    *)
(* its own.  Reports of MQTT come in one goroutine for each session with   *)
(* the broker; when a session is lost, another sets all devices of the     *)
(* connection offline, one by one, while the client connects again.        *)
(*                                                                         *)
(* A reload makes a new connector with empty maps.  The open websocket     *)
(* connections stay with the old one; a goroutine disconnects the client   *)
(* of MQTT, which is no loss, and sets nothing offline.  The shadow is     *)
(* whether a device is online; its expiry is in DeviceShadow.              *)
(***************************************************************************)
EXTENDS Naturals, Sequences, FiniteSets, Functions

CONSTANTS
    Kinds,       \* of the plugin: "websocket", "mqtt"
    Devices,     \* the devices of the connection, in the order of the core cache
    Conn,        \* connections, or sessions, in the order they are made: 1 .. n
    Messages,    \* the devices a message is about, in its order
    Caller,      \* goroutines that write points
    MaxMessages, \* bound: messages
    MaxWrites,   \* bound: writes
    MaxReloads   \* bound: reloads

VARIABLES
    kind,
    connector,   \* the connector in the pool: they are numbered from 1
    home,        \* the connector each connection belongs to, or 0
    mapping,     \* deviceMappingConn of each connector: the connection of each device, or 0
    listed,      \* connMappingDevice of each connection
    handler,     \* the goroutine of each connection: devices left of its message, and all of it
    ender,       \* what happens at its end: devices left
    broken,      \* connections that were closed or failed
    online,      \* the device shadow
    caller,      \* a write: the connection Encode found
    messages, writes, alive,
    last,        \* history: the connection each device reported over last, or 0
    crossed      \* history: devices that two goroutines had at once, or two connectors

vars == <<kind, connector, home, mapping, listed, handler, ender, broken, online, caller,
          messages, writes, alive, last, crossed>>
maps == <<mapping, listed>>
ends == <<ender, broken>>
others == <<kind, connector, home, caller, messages, writes, alive, last>>

Device == Range(Devices)
Connector == 1 .. MaxReloads + 1
At(pc) == [pc |-> pc, left |-> <<>>, all |-> <<>>]
NoEnd == [pc |-> "none", left |-> <<>>]
NoWrite == [pc |-> "idle", conn |-> 0]

Init ==
    /\ kind \in Kinds
    /\ connector = 1 /\ home = [c \in Conn |-> 0]
    /\ mapping = [k \in Connector |-> [d \in Device |-> 0]]
    /\ listed = [c \in Conn |-> <<>>]
    /\ handler = [c \in Conn |-> At("none")] /\ ender = [c \in Conn |-> NoEnd]
    /\ broken = {} /\ online = [d \in Device |-> FALSE]
    /\ caller = [p \in Caller |-> NoWrite]
    /\ messages = 0 /\ writes = 0 /\ alive = TRUE
    /\ last = [d \in Device |-> 0] /\ crossed = {}

\* The devices the goroutines of a connection have still to do with.
Busy(c) == Range(handler[c].all) \union Range(ender[c].left)

\* A session of MQTT that is lost, and has not set its devices offline.
StillToLose(c) == kind = "mqtt" /\ c \in broken /\ ender[c].pc # "done"

----------------------------------------------------------------------------
(***************************************************************************)
(* Connections and messages                                                *)
(***************************************************************************)

\* A websocket client connects; or the client of MQTT, when its session is over.
Connect(c) ==
    /\ alive /\ home[c] = 0 /\ \A o \in Conn : o < c => home[o] # 0
    /\ (kind = "mqtt") => \A o \in Conn : home[o] = connector => o \in broken
    /\ home' = [home EXCEPT ![c] = connector]
    /\ handler' = [handler EXCEPT ![c] = At("read")]
    /\ UNCHANGED <<kind, connector, maps, ends, online, caller, messages, writes, alive, last, crossed>>

Break(c) ==
    /\ alive /\ home[c] # 0 /\ c \notin broken
    /\ broken' = broken \union {c}
    /\ UNCHANGED <<others, maps, handler, ender, online, crossed>>

\* A message, decoded.  One that cannot be decoded changes nothing.
Message(c, ds) ==
    /\ alive /\ handler[c].pc = "read" /\ c \notin broken /\ messages < MaxMessages
    /\ messages' = messages + 1
    /\ handler' = [handler EXCEPT ![c] =
                      [pc |-> IF kind = "mqtt" THEN "export" ELSE "map", left |-> ds, all |-> ds]]
    /\ last' = [d \in Device |-> IF d \in Range(ds) THEN c ELSE last[d]]
    /\ crossed' = crossed \union {d \in Range(ds) : \E o \in Conn : d \in Busy(o) \/ StillToLose(o)}
    /\ UNCHANGED <<kind, connector, home, maps, ends, online, caller, writes, alive>>

Rest(h) == IF Len(h.left) > 1 THEN [h EXCEPT !.left = Tail(@)]
           ELSE IF h.pc = "map" THEN [h EXCEPT !.pc = "export", !.left = h.all] ELSE At("read")

\* Mutant of Enlist: a device that had a connection is not put on the list of the next.
Enlist_Mutant(c, d, pre) == IF pre = 0 THEN [listed EXCEPT ![c] = Append(@, d)] ELSE listed

Enlist(c, d, pre) == IF pre = c THEN listed ELSE [listed EXCEPT ![c] = Append(@, d)]

\* Swap tells the connection the device had before.
Map(c) ==
    LET d == Head(handler[c].left)
        k == home[c]
    IN /\ alive /\ handler[c].pc = "map"
       /\ mapping' = [mapping EXCEPT ![k][d] = c]
       /\ listed' = Enlist(c, d, mapping[k][d])
       /\ handler' = [handler EXCEPT ![c] = Rest(@)]
       /\ crossed' = IF \E o \in Connector \ {k} : mapping[o][d] # 0 THEN crossed \union {d} ELSE crossed
       /\ UNCHANGED <<others, ends, online>>

Export(c) ==
    /\ alive /\ handler[c].pc = "export"
    /\ online' = [online EXCEPT ![Head(handler[c].left)] = TRUE]
    /\ handler' = [handler EXCEPT ![c] = Rest(@)]
    /\ UNCHANGED <<others, maps, ends, crossed>>

----------------------------------------------------------------------------
(***************************************************************************)
(* The end of a connection                                                 *)
(***************************************************************************)

Ending(c, ds) ==
    /\ ender' = [ender EXCEPT ![c] = [pc |-> IF ds = <<>> THEN "done" ELSE "drop", left |-> ds]]
    /\ crossed' = crossed \union {d \in Range(ds) : \E o \in Conn : d \in Busy(o)}

\* The goroutine of a websocket connection reads its end, and takes the list.
End(c) ==
    /\ alive /\ kind = "websocket" /\ handler[c].pc = "read" /\ c \in broken
    /\ handler' = [handler EXCEPT ![c] = At("done")]
    /\ Ending(c, listed[c])
    /\ listed' = [listed EXCEPT ![c] = <<>>]
    /\ UNCHANGED <<others, mapping, broken, online>>

\* The connection lost handler of MQTT, whatever the goroutine of messages is at.  Two clients
\* beside each other, after a reload, have the same devices.
Lost(c) ==
    /\ alive /\ kind = "mqtt" /\ c \in broken /\ ender[c].pc = "none"
    /\ ender' = [ender EXCEPT ![c] = [pc |-> "offline", left |-> Devices]]
    /\ crossed' = crossed \union {d \in Device : \E o \in Conn : \/ d \in Busy(o)
                                                                 \/ home[o] \notin {0, home[c]}}
    /\ UNCHANGED <<others, maps, handler, broken, online>>

\* Mutant of Own: whatever connection the device has by now is removed.
Own_Mutant(c, d) == TRUE

\* CompareAndDelete: the device has reported over no other connection since.
Own(c, d) == mapping[home[c]][d] = c

Left(e, pc) == IF Len(e.left) > 1 THEN [pc |-> pc, left |-> Tail(e.left)] ELSE [pc |-> "done", left |-> <<>>]

Drop(c) ==
    LET d == Head(ender[c].left)
    IN /\ alive /\ ender[c].pc = "drop"
       /\ IF Own(c, d)
          THEN mapping' = [mapping EXCEPT ![home[c]][d] = 0] /\ ender' = [ender EXCEPT ![c].pc = "offline"]
          ELSE UNCHANGED mapping /\ ender' = [ender EXCEPT ![c] = Left(@, "drop")]
       /\ UNCHANGED <<others, listed, handler, broken, online, crossed>>

SetOffline(c) ==
    /\ alive /\ ender[c].pc = "offline"
    /\ online' = [online EXCEPT ![Head(ender[c].left)] = FALSE]
    /\ ender' = [ender EXCEPT ![c] = Left(@, IF kind = "mqtt" THEN "offline" ELSE "drop")]
    /\ UNCHANGED <<others, maps, handler, broken, crossed>>

----------------------------------------------------------------------------
(***************************************************************************)
(* Reloads and writes                                                      *)
(***************************************************************************)

\* Destroy shuts the server down, which leaves its websocket connections alone, and Initialize
\* makes the next connector.
Reload ==
    /\ alive /\ connector < MaxReloads + 1
    /\ connector' = connector + 1
    /\ UNCHANGED <<kind, home, maps, handler, ends, online, caller, messages, writes, alive, last, crossed>>

\* The client of MQTT that a reload has left behind is disconnected: its devices stay online.
Disconnect(c) ==
    /\ alive /\ kind = "mqtt" /\ home[c] \in 1 .. connector - 1 /\ ender[c].pc = "none"
    /\ handler[c].pc = "read"
    /\ handler' = [handler EXCEPT ![c] = At("done")]
    /\ ender' = [ender EXCEPT ![c] = [pc |-> "done", left |-> <<>>]]
    /\ broken' = broken \union {c}
    /\ crossed' = crossed \union {d \in Device : online[d]}
    /\ UNCHANGED <<others, maps, online>>

\* Encode looks for the connection in the connector's own map, Send writes to it.  gorilla/websocket
\* panics when two goroutines write one connection at once.
Encode(p, d) ==
    /\ alive /\ kind = "websocket" /\ caller[p].pc = "idle" /\ writes < MaxWrites
    /\ writes' = writes + 1
    /\ LET c == mapping[connector][d]
       IN caller' = IF c = 0 THEN caller ELSE [caller EXCEPT ![p] = [pc |-> "send", conn |-> c]]
    /\ UNCHANGED <<kind, connector, home, maps, handler, ends, online, messages, alive, last, crossed>>

Send(p) ==
    /\ alive /\ caller[p].pc = "send"
    /\ caller' = [caller EXCEPT ![p].pc = "write"]
    /\ alive' = ~\E q \in Caller : caller[q] = [pc |-> "write", conn |-> caller[p].conn]
    /\ UNCHANGED <<kind, connector, home, maps, handler, ends, online, messages, writes, last, crossed>>

Sent(p) ==
    /\ alive /\ caller[p].pc = "write"
    /\ caller' = [caller EXCEPT ![p] = NoWrite]
    /\ UNCHANGED <<kind, connector, home, maps, handler, ends, online, messages, writes, alive, last, crossed>>

Next ==
    \/ \E c \in Conn : \/ Connect(c) \/ Break(c) \/ Map(c) \/ Export(c) \/ End(c) \/ Lost(c) \/ Drop(c)
                       \/ SetOffline(c) \/ Disconnect(c) \/ \E ds \in Messages : Message(c, ds)
    \/ Reload
    \/ \E p \in Caller : Send(p) \/ Sent(p) \/ \E d \in Device : Encode(p, d)

Spec == Init /\ [][Next]_vars

----------------------------------------------------------------------------
AtRest(d) == \A c \in Conn : d \notin Busy(c) /\ (c \in broken => ender[c].pc = "done")

\* A device is online if and only if the connection it reported over last, or the session with the
\* broker, is still there (websocket handleFunc, mqtt ConnectionLost), once the goroutines that have
\* to do with it are through: unless two of them had it at once, or a reload left it to two
\* connectors.
StatusIsOfTheSession ==
    \A d \in Device \ crossed : AtRest(d) => (online[d] <=> last[d] \notin broken \union {0})

\* A connection whose goroutine has ended has no device: a write never finds it (websocket
\* connector.go, handleFunc).  One that has a device has it on its list, to be found at its end.
EndedHasNoDevice ==
    \A k \in Connector, d \in Device :
        LET c == mapping[k][d]
        IN c # 0 => d \in Range(listed[c]) \union Range(ender[c].left)
=============================================================================

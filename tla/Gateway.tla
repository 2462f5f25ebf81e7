------------------------------ MODULE Gateway ------------------------------
(***************************************************************************)
(* Distributed gateways: the websocket service of a sub-gateway (Gateway   *)
(* export, exports/gateway/ws.go) and the connectors of the main gateway   *)
(* (Gateway plugin, exports/gateway/internal/plugin).                      *)
(*                                                                         *)
(* A connector dials, stores the connection, registers a second later from *)
(* a goroutine of its own, and reads until the connection fails; then it   *)
(* waits and dials again.  The sub-gateway serves every connection in a    *)
(* goroutine, which answers a registration, synchronises models, devices   *)
(* and shadow, and forgets the main gateway when its connection ends.      *)
(* Reports leave in the goroutine of the sub-gateway's exports.            *)
(*                                                                         *)
(* A registration carries the address of the sub-gateway, which is the     *)
(* same for every main gateway: the keys never differ, and mainGateway is  *)
(* modelled by whether there is one.  Answers to synchronisation and       *)
(* control are only logged, and left out; so are ping and unregister,      *)
(* which nobody sends.                                                     *)
(***************************************************************************)
EXTENDS Naturals, Sequences, FiniteSets

CONSTANTS
    Connector,    \* connectors of the main gateway, one after the other: a reload makes a new one
    Conn,         \* websocket connections, in the order they are made: 1 .. n
    Device,       \* identifiers on the sub-gateway: paths, as the devices of its own sub-gateways have
    FirstDevices, \* those the sub-gateway begins with
    ModelOf,      \* the model of each device
    Value,
    SN,           \* the sub-gateway's serial number
    MaxMoves,     \* bound: breaks of the network, new values and devices, commands, reloads
    NoConn, NoValue

VARIABLES
    devices,      \* the devices of the sub-gateway; the models are theirs
    value,        \* its shadow
    reports,      \* values on their way to ExportTo
    reporter,     \* the goroutine in sendJSONToWebSocket with the first of them
    mainGateway,  \* mainGateway # ""
    mainConn,     \* mainGatewayConn
    handler,      \* the goroutine of each connection
    job,          \* what it does about a registration
    taken,        \* the shadow it has copied to send it
    performed,    \* commands carried out: the command and the device written
    crashed,      \* a nil connection, or one written by two goroutines, panicked in an export
    loop,         \* where a connector's connect() is
    cur, conn,    \* its local connection, and the one it has stored
    registering,  \* goroutines of register() that still sleep
    destroyed,
    mainModels, mainDevices, mainShadow,   \* what the main gateway has from the sub-gateway
    up, down,     \* messages to the sub-gateway and to the main gateway
    broken,       \* connections that are closed or fail
    commands,     \* commands sent so far: the device of each, and its connection
    moves,        \* counted for the bound
    stolen,       \* history: an old connection undid or took over the registration of another
    overtaken,    \* history: a copy of the shadow was sent after a report of a newer value
    promised,     \* history: the devices there were when a connection registered
    ghost         \* history: a destroyed connector has stored a connection

subVars  == <<devices, value, reports, reporter, mainGateway, mainConn, handler, job, taken,
              performed, crashed>>
mainVars == <<loop, cur, conn, registering, destroyed, mainModels, mainDevices, mainShadow>>
wireVars == <<up, down, broken>>
counters == <<commands, moves>>
history  == <<stolen, overtaken, promised, ghost>>
vars     == <<subVars, mainVars, wireVars, counters, history>>

\* genGatewayDeviceID puts the serial number before the identifier, genGatewayModelName before
\* the name of the model; parseGatewayDeviceID takes every occurrence of it out.
GenDevice(d)   == <<SN>> \o d
GenModel(m)    == <<SN, m>>
\* Mutant of ParseDevice: Only the last part of the identifier is kept.
ParseDevice_Mutant(x) == <<x[Len(x)]>>

ParseDevice(x) ==
    LET parsed[n \in 0 .. Len(x)] ==
            IF n = 0 THEN <<>> ELSE IF x[n] = SN THEN parsed[n - 1] ELSE Append(parsed[n - 1], x[n])
    IN  parsed[Len(x)]

RemoteDevice == {GenDevice(d) : d \in Device}

Idle == [stage |-> "idle", conn |-> NoConn]

Init ==
    /\ devices = FirstDevices
    /\ value = [d \in Device |-> CHOOSE v \in Value : TRUE]
    /\ reports = <<>> /\ reporter = Idle
    /\ mainGateway = FALSE /\ mainConn = NoConn
    /\ handler = [n \in Conn |-> "none"] /\ job = [n \in Conn |-> "none"]
    /\ taken = [n \in Conn |-> [d \in {} |-> NoValue]]
    /\ performed = <<>> /\ crashed = FALSE
    /\ loop = [c \in Connector |-> "off"]
    /\ cur = [c \in Connector |-> NoConn] /\ conn = [c \in Connector |-> NoConn]
    /\ registering = [c \in Connector |-> 0]
    /\ destroyed = [c \in Connector |-> FALSE]
    /\ mainModels = {} /\ mainDevices = {}
    /\ mainShadow = [x \in RemoteDevice |-> NoValue]
    /\ up = [n \in Conn |-> <<>>] /\ down = [n \in Conn |-> <<>>]
    /\ broken = [n \in Conn |-> FALSE]
    /\ commands = <<>> /\ moves = 0
    /\ stolen = FALSE /\ overtaken = {}
    /\ promised = [n \in Conn |-> {}] /\ ghost = FALSE

\* A write to a connection: what is written to one that fails is lost.
Put(wire, n, message) == IF broken[n] THEN wire ELSE [wire EXCEPT ![n] = Append(@, message)]

-----------------------------------------------------------------------------
(* The main gateway *)

\* Connections not made yet.
Fresh == {n \in Conn : handler[n] = "none"}

Running(c) == loop[c] \notin {"off", "done"}

\* Initialize starts connect() in a goroutine; a reload destroys the connectors first.
Initialize(c) ==
    /\ loop[c] = "off"
    /\ \A other \in Connector : loop[other] = "off" \/ destroyed[other]
    /\ loop' = [loop EXCEPT ![c] = "dial"]
    /\ UNCHANGED <<cur, conn, registering, destroyed, mainModels, mainDevices, mainShadow>>
    /\ UNCHANGED <<subVars, wireVars, counters, history>>

\* The sub-gateway upgrades the request and serves the connection in a goroutine.
Dial(c) ==
    /\ loop[c] = "dial" /\ ~crashed
    /\ \E n \in Fresh :
          /\ \A other \in Fresh : n <= other
          /\ handler' = [handler EXCEPT ![n] = "open"]
          /\ cur' = [cur EXCEPT ![c] = n]
    /\ loop' = [loop EXCEPT ![c] = "dialed"]
    /\ UNCHANGED <<conn, registering, destroyed, mainModels, mainDevices, mainShadow>>
    /\ UNCHANGED <<devices, value, reports, reporter, mainGateway, mainConn, job, taken,
                   performed, crashed>>
    /\ UNCHANGED <<wireVars, counters, history>>

\* Mutant of Store: A connector registers until its first registration has been answered.
Store_Mutant(c) ==
    /\ loop[c] = "dialed"
    /\ conn' = [conn EXCEPT ![c] = cur[c]]
    /\ registering' = [registering EXCEPT ![c] = IF mainModels = {} THEN @ + 1 ELSE @]
    /\ loop' = [loop EXCEPT ![c] = "read"]
    /\ ghost' = (ghost \/ destroyed[c])
    /\ UNCHANGED <<cur, destroyed, mainModels, mainDevices, mainShadow>>
    /\ UNCHANGED <<subVars, wireVars, counters, stolen, overtaken, promised>>

\* connect() stores the connection and starts register().
Store(c) ==
    /\ loop[c] = "dialed"
    /\ conn' = [conn EXCEPT ![c] = cur[c]]
    /\ registering' = [registering EXCEPT ![c] = @ + 1]
    /\ loop' = [loop EXCEPT ![c] = "read"]
    /\ ghost' = (ghost \/ destroyed[c])
    /\ UNCHANGED <<cur, destroyed, mainModels, mainDevices, mainShadow>>
    /\ UNCHANGED <<subVars, wireVars, counters, stolen, overtaken, promised>>

\* The connection is closed and forgotten; destroyed is looked at before the wait, not after it.
Lost(c) ==
    /\ \/ loop[c] = "dial"
       \/ loop[c] = "read" /\ broken[cur[c]]
    /\ conn' = [conn EXCEPT ![c] = NoConn] /\ cur' = [cur EXCEPT ![c] = NoConn]
    /\ loop' = [loop EXCEPT ![c] = IF destroyed[c] THEN "done" ELSE "wait"]
    /\ UNCHANGED <<registering, destroyed, mainModels, mainDevices, mainShadow>>
    /\ UNCHANGED <<subVars, wireVars, counters, history>>

Retry(c) ==
    /\ loop[c] = "wait"
    /\ loop' = [loop EXCEPT ![c] = "dial"]
    /\ UNCHANGED <<cur, conn, registering, destroyed, mainModels, mainDevices, mainShadow>>
    /\ UNCHANGED <<subVars, wireVars, counters, history>>

\* Destroy closes the connection it finds stored.
Destroy(c) ==
    /\ Running(c) /\ ~destroyed[c] /\ moves < MaxMoves
    /\ moves' = moves + 1
    /\ destroyed' = [destroyed EXCEPT ![c] = TRUE]
    /\ broken' = [n \in Conn |-> broken[n] \/ n = conn[c]]
    /\ UNCHANGED <<loop, cur, conn, registering, mainModels, mainDevices, mainShadow>>
    /\ UNCHANGED <<up, down, commands>>
    /\ UNCHANGED <<subVars, history>>

\* register() wakes up and writes to whatever connection is stored then.
Register(c) ==
    /\ registering[c] > 0
    /\ registering' = [registering EXCEPT ![c] = @ - 1]
    /\ up' = IF conn[c] = NoConn THEN up ELSE Put(up, conn[c], [type |-> "register"])
    /\ UNCHANGED <<loop, cur, conn, destroyed, mainModels, mainDevices, mainShadow>>
    /\ UNCHANGED <<down, broken>>
    /\ UNCHANGED <<subVars, counters, history>>

\* Send with the command that Encode has made for a device of the main gateway.
Command(c) ==
    /\ moves < MaxMoves /\ conn[c] # NoConn
    /\ moves' = moves + 1
    /\ \E x \in mainDevices :
          /\ commands' = Append(commands, [device |-> x, conn |-> conn[c]])
          /\ up' = Put(up, conn[c], [type |-> "control", device |-> x, id |-> Len(commands) + 1])
    /\ UNCHANGED <<down, broken>>
    /\ UNCHANGED <<subVars, mainVars, history>>

\* What the main gateway has after a message.  The cache refuses a device whose model it does
\* not have; the shadow takes any device.
ModelsAfter(message) ==
    IF message.type = "models" THEN mainModels \cup message.models ELSE mainModels

DevicesAfter(message) ==
    IF message.type = "devices"
    THEN mainDevices \cup {GenDevice(d) : d \in {e \in message.devices : GenModel(ModelOf[e]) \in mainModels}}
    ELSE mainDevices

ShadowAfter(message) ==
    IF message.type = "shadow"
    THEN [x \in RemoteDevice |-> IF x \in DOMAIN message.shadow THEN message.shadow[x] ELSE mainShadow[x]]
    ELSE mainShadow

\* handleWebSocketMessage.  Export goes no further than the cache with a report of a device that
\* the main gateway does not have.
MainReceive(c) ==
    /\ loop[c] = "read" /\ down[cur[c]] # <<>>
    /\ LET message == Head(down[cur[c]])
       IN  /\ mainModels' = ModelsAfter(message)
           /\ mainDevices' = DevicesAfter(message)
           /\ mainShadow' = IF message.type = "report" /\ message.device \in mainDevices
                            THEN [mainShadow EXCEPT ![message.device] = message.value]
                            ELSE ShadowAfter(message)
    /\ down' = [down EXCEPT ![cur[c]] = Tail(@)]
    /\ UNCHANGED <<loop, cur, conn, registering, destroyed>>
    /\ UNCHANGED <<up, broken>>
    /\ UNCHANGED <<subVars, counters, history>>

-----------------------------------------------------------------------------
(* The sub-gateway *)

Serving(n) == handler[n] = "open" /\ job[n] = "none" /\ ~crashed

\* Answers are written without the lock that sendJSONToWebSocket takes.
Answering(n) == job[n] \in {"respond", "answer"}

\* gatewayRegister, under the lock: the newest registration replaces any other.
ReceiveRegister(n) ==
    /\ Serving(n) /\ up[n] # <<>> /\ Head(up[n]).type = "register"
    /\ reporter.stage # "writing"
    /\ up' = [up EXCEPT ![n] = Tail(@)]
    /\ mainGateway' = TRUE /\ mainConn' = n
    /\ job' = [job EXCEPT ![n] = "respond"]
    /\ stolen' = (broken[n] /\ (stolen \/ mainConn \notin {n, NoConn}))
    /\ promised' = [promised EXCEPT ![n] = devices]
    /\ UNCHANGED <<devices, value, reports, reporter, handler, taken, performed, crashed>>
    /\ UNCHANGED <<down, broken>>
    /\ UNCHANGED <<mainVars, counters, overtaken, ghost>>

\* Mutant of Respond: The synchronisation begins with the devices.
Respond_Mutant(n) ==
    /\ job[n] = "respond" /\ ~crashed
    /\ down' = Put(down, n, [type |-> "registered"])
    /\ job' = [job EXCEPT ![n] = "devices"]
    /\ UNCHANGED <<devices, value, reports, reporter, mainGateway, mainConn, handler, taken,
                   performed, crashed>>
    /\ UNCHANGED <<up, broken>>
    /\ UNCHANGED <<mainVars, counters, history>>

\* The response is written; what was deferred, sync(), begins.
Respond(n) ==
    /\ job[n] = "respond" /\ ~crashed
    /\ down' = Put(down, n, [type |-> "registered"])
    /\ job' = [job EXCEPT ![n] = "models"]
    /\ UNCHANGED <<devices, value, reports, reporter, mainGateway, mainConn, handler, taken,
                   performed, crashed>>
    /\ UNCHANGED <<up, broken>>
    /\ UNCHANGED <<mainVars, counters, history>>

\* control writes the points before it answers.  The answer panics when a report is being
\* written to the connection: the server recovers and closes it.
ReceiveControl(n) ==
    /\ Serving(n) /\ up[n] # <<>> /\ Head(up[n]).type = "control"
    /\ LET message == Head(up[n])
       IN  performed' = Append(performed, [id |-> message.id, device |-> ParseDevice(message.device)])
    /\ up' = [up EXCEPT ![n] = Tail(@)]
    /\ IF reporter.stage = "writing" /\ reporter.conn = n
       THEN /\ handler' = [handler EXCEPT ![n] = "panicked"]
            /\ broken' = [broken EXCEPT ![n] = TRUE]
            /\ UNCHANGED job
       ELSE /\ job' = [job EXCEPT ![n] = "answer"]
            /\ UNCHANGED <<handler, broken>>
    /\ UNCHANGED <<devices, value, reports, reporter, mainGateway, mainConn, taken, crashed, down>>
    /\ UNCHANGED <<mainVars, counters, history>>

Answer(n) ==
    /\ job[n] = "answer" /\ ~crashed
    /\ job' = [job EXCEPT ![n] = "none"]
    /\ UNCHANGED <<devices, value, reports, reporter, mainGateway, mainConn, handler, taken,
                   performed, crashed>>
    /\ UNCHANGED <<mainVars, wireVars, counters, history>>

\* A part of the synchronisation: sendJSONToWebSocket to the connection registered by now,
\* which need not be the one that asked for it, and nothing when there is none.
SyncStep(n, from, to, message, worth) ==
    /\ job[n] = from /\ ~crashed
    /\ reporter.stage # "writing"
    /\ IF ~worth \/ ~mainGateway \/ mainConn = NoConn
       THEN UNCHANGED down
       ELSE ~Answering(mainConn) /\ down' = Put(down, mainConn, message)
    /\ job' = [job EXCEPT ![n] = to]
    /\ UNCHANGED <<devices, value, reports, reporter, mainGateway, mainConn, handler,
                   performed, crashed>>
    /\ UNCHANGED <<up, broken>>
    /\ UNCHANGED <<mainVars, counters, stolen, promised, ghost>>

SyncModels(n) ==
    /\ SyncStep(n, "models", "devices",
                [type |-> "models", models |-> {GenModel(ModelOf[d]) : d \in devices}], devices # {})
    /\ UNCHANGED <<taken, overtaken>>

SyncDevices(n) ==
    /\ SyncStep(n, "devices", "take", [type |-> "devices", devices |-> devices], devices # {})
    /\ UNCHANGED <<taken, overtaken>>

\* syncDevicesPoints copies the shadow, and sends the copy.
TakeShadow(n) ==
    /\ job[n] = "take" /\ ~crashed
    /\ taken' = [taken EXCEPT ![n] = [d \in devices |-> value[d]]]
    /\ job' = [job EXCEPT ![n] = "shadow"]
    /\ UNCHANGED <<devices, value, reports, reporter, mainGateway, mainConn, handler,
                   performed, crashed>>
    /\ UNCHANGED <<mainVars, wireVars, counters, history>>

AwaitsReport(d) == \E i \in 1 .. Len(reports) : reports[i].device = d

SyncShadow(n) ==
    LET copy == taken[n]
    IN  /\ SyncStep(n, "shadow", "none",
                    [type |-> "shadow",
                     shadow |-> [x \in {GenDevice(d) : d \in DOMAIN copy} |->
                                    copy[CHOOSE d \in DOMAIN copy : GenDevice(d) = x]]], TRUE)
        /\ overtaken' = {d \in overtaken \cup DOMAIN copy :
               IF d \in DOMAIN copy THEN copy[d] # value[d] /\ ~AwaitsReport(d) ELSE TRUE}
        /\ taken' = [taken EXCEPT ![n] = [d \in {} |-> NoValue]]

\* A synchronisation that meets the answer of another connection's goroutine panics.
SyncPanics(n) ==
    /\ job[n] \in {"models", "devices", "shadow"} /\ ~crashed
    /\ mainGateway /\ mainConn # NoConn /\ Answering(mainConn)
    /\ handler' = [handler EXCEPT ![n] = "panicked"]
    /\ job' = [job EXCEPT ![n] = "none"]
    /\ broken' = [broken EXCEPT ![n] = TRUE]
    /\ UNCHANGED <<devices, value, reports, reporter, mainGateway, mainConn, taken, performed, crashed>>
    /\ UNCHANGED <<up, down>>
    /\ UNCHANGED <<mainVars, counters, history>>

\* Mutant of ForgetConn: Only the key of the main gateway is forgotten.
ForgetConn_Mutant(n) ==
    /\ Serving(n) /\ broken[n]
    /\ handler' = [handler EXCEPT ![n] = "forgetting"]
    /\ UNCHANGED <<devices, value, reports, reporter, mainGateway, mainConn, job, taken, performed, crashed>>
    /\ UNCHANGED <<mainVars, wireVars, counters, history>>

\* ReadMessage fails, and the handler forgets the main gateway, whoever has registered since:
\* first the connection, then the key, without the lock.
ForgetConn(n) ==
    /\ Serving(n) /\ broken[n]
    /\ mainConn' = NoConn
    /\ handler' = [handler EXCEPT ![n] = "forgetting"]
    /\ stolen' = (stolen \/ mainConn \notin {n, NoConn})
    /\ UNCHANGED <<devices, value, reports, reporter, mainGateway, job, taken, performed, crashed>>
    /\ UNCHANGED <<mainVars, wireVars, counters, overtaken, promised, ghost>>

ForgetKey(n) ==
    /\ handler[n] = "forgetting" /\ ~crashed
    /\ mainGateway' = FALSE
    /\ handler' = [handler EXCEPT ![n] = "closed"]
    /\ stolen' = (stolen \/ mainConn # NoConn)
    /\ UNCHANGED <<devices, value, reports, reporter, mainConn, job, taken, performed, crashed>>
    /\ UNCHANGED <<mainVars, wireVars, counters, overtaken, promised, ghost>>

\* sendJSONToWebSocket looks for a connection before it takes the lock ...
ReportCheck ==
    /\ reporter.stage = "idle" /\ reports # <<>> /\ ~crashed
    /\ IF ~mainGateway \/ mainConn = NoConn
       THEN reports' = Tail(reports) /\ UNCHANGED reporter
       ELSE reporter' = [reporter EXCEPT !.stage = "checked"] /\ UNCHANGED reports
    /\ UNCHANGED <<devices, value, mainGateway, mainConn, handler, job, taken, performed, crashed>>
    /\ UNCHANGED <<mainVars, wireVars, counters, history>>

\* ... and writes to the one there is after it, if any.
ReportWrite ==
    /\ reporter.stage = "checked" /\ ~crashed
    /\ IF mainConn = NoConn \/ (mainConn # NoConn /\ Answering(mainConn))
       THEN crashed' = TRUE /\ UNCHANGED reporter
       ELSE reporter' = [stage |-> "writing", conn |-> mainConn] /\ UNCHANGED crashed
    /\ UNCHANGED <<devices, value, reports, mainGateway, mainConn, handler, job, taken, performed>>
    /\ UNCHANGED <<mainVars, wireVars, counters, history>>

ReportWritten ==
    /\ reporter.stage = "writing" /\ ~crashed
    /\ LET report == Head(reports)
       IN  /\ down' = Put(down, reporter.conn, [type |-> "report", device |-> GenDevice(report.device),
                                                value |-> report.value])
           /\ overtaken' = overtaken \ {report.device}
    /\ reports' = Tail(reports)
    /\ reporter' = Idle
    /\ UNCHANGED <<devices, value, mainGateway, mainConn, handler, job, taken, performed, crashed>>
    /\ UNCHANGED <<up, broken>>
    /\ UNCHANGED <<mainVars, counters, stolen, promised, ghost>>

-----------------------------------------------------------------------------
(* The devices of the sub-gateway, and the network *)

\* Export stores a value in the shadow before it hands it to the exports.
Change ==
    /\ moves < MaxMoves /\ ~crashed
    /\ \E d \in devices, v \in Value :
          /\ v # value[d]
          /\ value' = [value EXCEPT ![d] = v]
          /\ reports' = Append(reports, [device |-> d, value |-> v])
    /\ moves' = moves + 1
    /\ UNCHANGED <<devices, reporter, mainGateway, mainConn, handler, job, taken, performed, crashed>>
    /\ UNCHANGED <<mainVars, wireVars, commands, history>>

\* A device is added, with its model; the main gateway is told at the next registration.
AddDevice ==
    /\ moves < MaxMoves /\ ~crashed
    /\ \E d \in Device \ devices : devices' = devices \cup {d}
    /\ moves' = moves + 1
    /\ UNCHANGED <<value, reports, reporter, mainGateway, mainConn, handler, job, taken, performed, crashed>>
    /\ UNCHANGED <<mainVars, wireVars, commands, history>>

Break(n) ==
    /\ moves < MaxMoves /\ Fresh # {}
    /\ handler[n] = "open" /\ ~broken[n]
    /\ broken' = [broken EXCEPT ![n] = TRUE]
    /\ moves' = moves + 1
    /\ UNCHANGED <<subVars, mainVars, up, down, commands, history>>

-----------------------------------------------------------------------------
Sync(n) == SyncModels(n) \/ SyncDevices(n) \/ TakeShadow(n) \/ SyncShadow(n) \/ SyncPanics(n)

Handle(n) == \/ ReceiveRegister(n) \/ Respond(n) \/ ReceiveControl(n) \/ Answer(n)
             \/ Sync(n) \/ ForgetConn(n) \/ ForgetKey(n)

Connect(c) == Store(c) \/ Lost(c) \/ Retry(c) \/ MainReceive(c)

Report == ReportCheck \/ ReportWrite \/ ReportWritten

Next ==
    \/ \E c \in Connector : Initialize(c) \/ Dial(c) \/ Connect(c) \/ Register(c) \/ Command(c) \/ Destroy(c)
    \/ \E n \in Conn : Handle(n) \/ Break(n)
    \/ Report \/ Change \/ AddDevice

Spec == Init /\ [][Next]_vars

\* Goroutines go on, what is sent arrives or the connection is found broken (TCP notices it),
\* and the network lets a connector that dials again and again through.
Fairness ==
    /\ \A c \in Connector : WF_vars(Connect(c)) /\ WF_vars(Register(c)) /\ SF_vars(Dial(c))
    /\ \A n \in Conn : WF_vars(Handle(n))
    /\ WF_vars(Report)

FairSpec == Spec /\ Fairness
-----------------------------------------------------------------------------
(* Properties *)

\* The sub-gateway serves no connection that is over: the end of its goroutine forgets the
\* registration, unless the goroutine panicked.
ServedConnectionLives ==
    mainConn # NoConn => handler[mainConn] \in {"open", "panicked"}

\* A connection that has been synchronised has brought every device there was when it
\* registered, each after its model, unless registrations got in each other's way.
EveryDeviceArrives ==
    \A c \in Connector :
        LET n == cur[c]
        IN  (loop[c] = "read" /\ ~broken[n] /\ job[n] = "none" /\ down[n] = <<>> /\ ~stolen /\ ~ghost)
            => {GenDevice(d) : d \in promised[n]} \subseteq mainDevices

\* A command is carried out once at most, on the device of the sub-gateway whose identifier
\* the main gateway uses, and after those sent before it over the same connection.
CommandsReachTheirDevices ==
    \A i \in 1 .. Len(performed) :
        /\ commands[performed[i].id].device = GenDevice(performed[i].device)
        /\ \A j \in 1 .. i - 1 :
               /\ performed[j].id # performed[i].id
               /\ commands[performed[j].id].conn = commands[performed[i].id].conn
                  => performed[j].id < performed[i].id

\* The connector in use.
Connected == \E c \in Connector : Running(c) /\ ~destroyed[c]

\* Once the network and the devices are at rest, the main gateway comes to hold the value of
\* every device it knows, however often connections broke before, unless a registration was
\* undone by the end of another connection, a copy of the shadow was overtaken by a report,
\* the sub-gateway crashed, or a destroyed connector went on.
MainCatchesUp ==
    <>[](\/ ~Connected \/ stolen \/ ghost \/ crashed
         \/ \A d \in devices \ overtaken :
               GenDevice(d) \in mainDevices => mainShadow[GenDevice(d)] = value[d])
=============================================================================

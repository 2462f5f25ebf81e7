---------------------------- MODULE MCProtocols -----------------------------
(***************************************************************************)
(* The protocol side: the confirmed requests of the BACnet client, the     *)
(* sessions of the websocket and MQTT plugins, the scripts that encode and *)
(* decode, the connections of the S7, OPC UA and DL/T 645 plugins, and the *)
(* timed jobs that drive them, side by side.  A behaviour exercises one of *)
(* them, part, and leaves the others where they start: they share no       *)
(* state, and one run has the sum of their states.                         *)
(*                                                                         *)
(* Client: two callers, one of a multi service and one of a plain read,    *)
(* that share one place for three requests, or have a place each for two   *)
(* (OnePlaceEach).                                                         *)
(* Sessions: two devices, two connections, a message of one device and one *)
(* of both, one reload.  Scripts: one key, two callers of every method,    *)
(* two versions of the file, a second start.  Controllers: two goroutines  *)
(* with a command each, octets of two bits, with points of one name, bits  *)
(* beyond the octet, and a node id that cannot be parsed.  Meters: a line  *)
(* of one meter with two points, one late answer.  Jobs: one on a ticker,  *)
(* one of the cron library's.                                              *)
(***************************************************************************)
EXTENDS BacnetClient, TLC

CONSTANTS c1, c2

CONSTANTS
    Kinds, Devices, Conn, Messages, Writer, MaxMessages, MaxWrites, MaxReloads,
    Key, Reader, Methods, MaxVersion, MaxVMs, MaxStarts,
    Connections, Octets, Width, Commander, PlcMoves,
    Lines, MaxLate, MaxPreamble,
    Job, Ticker, MaxRuns

\* What the configuration gives: every point has the node its address is parsed to; goroutines have
\* names or numbers of their own; a connection of devices that report has devices, and a message is about some.
ASSUME ConnectionsAreConfigured ==
    \A c \in Connections :
        /\ c.points \in Seq({c.points[i] : i \in DOMAIN c.points})
        /\ \A i \in DOMAIN c.points : c.points[i].node \in Octets \X Nat
ASSUME SessionsAreConfigured ==
    /\ Kinds \subseteq {"websocket", "mqtt"} /\ Conn \subseteq Nat \ {0} /\ MaxReloads \in Nat
    /\ Devices \in Seq({Devices[i] : i \in DOMAIN Devices}) \ {<<>>}
    /\ Messages \subseteq Seq({Devices[i] : i \in DOMAIN Devices}) \ {<<>>}
ASSUME CommandersAreNamed == Commander \cap {"none", "job"} = {}
ASSUME ZeroIsNoReader == 0 \notin Reader /\ MaxStarts \in Nat

VARIABLES
    kind, connector, home, mapping, listed, handler, ender, broken, online, writer, messages, writes,
    sessionsAlive, last, sessionsCrossed,
    file, pool, drivers, lock, vms, reader, unload, wanted, crossed, overtaken,
    conn, nodes, plcPool, deleted, plcClose, owner, plcJob, plcReport, command, memory, raced, plcMoves, plcAlive,
    line, lineStage, lineDue, lineJob, lineClose, lineClosing, port, waiting, lineReport, lineLate,
    lineCrossed, lineAlive,
    futures, adding, cronJob, clearing, cronCrossed,
    part

sessionVars == <<kind, connector, home, mapping, listed, handler, ender, broken, online, writer, messages,
                 writes, sessionsAlive, last, sessionsCrossed>>
scriptVars == <<file, pool, drivers, lock, vms, reader, unload, wanted, crossed, overtaken>>
plcVars == <<conn, nodes, plcPool, deleted, plcClose, owner, plcJob, plcReport, command, memory, raced,
             plcMoves, plcAlive>>
lineVars == <<line, lineStage, lineDue, lineJob, lineClose, lineClosing, port, waiting, lineReport, lineLate,
              lineCrossed, lineAlive>>
cronVars == <<futures, adding, cronJob, clearing, cronCrossed>>

Sessions == INSTANCE Sessions WITH Caller <- Writer, caller <- writer, alive <- sessionsAlive,
                                   crossed <- sessionsCrossed
Scripts == INSTANCE Scripts WITH Caller <- Reader, caller <- reader
Plc == INSTANCE PlcConnector WITH
          Caller <- Commander, MaxMoves <- PlcMoves, pool <- plcPool, close <- plcClose, job <- plcJob, report <- plcReport,
          caller <- command, moves <- plcMoves, alive <- plcAlive
Meter == INSTANCE MeterConnector WITH
            stage <- lineStage, due <- lineDue, job <- lineJob, close <- lineClose, closing <- lineClosing,
            report <- lineReport, late <- lineLate, crossed <- lineCrossed, alive <- lineAlive
Cron == INSTANCE Crontab WITH job <- cronJob, crossed <- cronCrossed

----------------------------------------------------------------------------
MCKind == (c1 :> "multi") @@ (c2 :> "read")

TwoDevices == <<1, 2>>
OneOrBoth == {<<1>>, <<1, 2>>}

Node(d, n, x, k, w) == [dev |-> d, name |-> n, node |-> x, known |-> k, writeable |-> w, address |-> TRUE]

\* Two devices with a point of one name; a node id that cannot be parsed; no address at all.
Shared == <<Node("d", "a", <<1, 0>>, TRUE, TRUE), Node("d", "b", <<1, 5>>, TRUE, TRUE),
            Node("d", "c", <<2, 0>>, TRUE, FALSE), Node("e", "b", <<1, 2>>, TRUE, TRUE)>>
Unparsed == <<Node("d", "a", <<1, 0>>, TRUE, TRUE), Node("d", "b", <<1, 5>>, FALSE, TRUE),
              Node("d", "c", <<2, 0>>, TRUE, TRUE)>>
NoAddress == <<[Node("d", "a", <<1, 1>>, TRUE, TRUE) EXCEPT !.address = FALSE]>>

Controller(k, e, i, p) == [kind |-> k, enable |-> e, idleModel |-> i, points |-> p]

MCConnections ==
    {Controller(k, TRUE, FALSE, p) : k \in {"s7", "opcua"}, p \in {Shared, Unparsed}}
        \union {Controller("s7", FALSE, TRUE, Shared), Controller("opcua", TRUE, TRUE, NoAddress)}

Serial(e, a, v, p) == [enable |-> e, auto |-> a, virtual |-> v, points |-> p]

MCLines ==
    {Serial(TRUE, a, FALSE, << <<1, 1>>, <<1, 2>> >>) : a \in BOOLEAN}
        \union {Serial(TRUE, TRUE, TRUE, << <<1, 1>> >>), Serial(FALSE, TRUE, FALSE, << <<1, 1>> >>)}

----------------------------------------------------------------------------
AnyConnection == CHOOSE c \in Connections : TRUE
AnyLine == CHOOSE l \in Lines : TRUE

\* The parts that are left out have one state.
MCInit ==
    /\ part \in {"client", "sessions", "scripts", "controller", "meter", "jobs"}
    /\ Init /\ Sessions!Init /\ Scripts!Init /\ Plc!Init /\ Meter!Init /\ Cron!Init
    /\ part # "client" => \A n \in Sizes : size <= n
    /\ part # "sessions" => kind = "mqtt"
    /\ part # "scripts" => \A k \in Key : file[k] = 0
    /\ part # "controller" => conn = AnyConnection /\ memory = [o \in Octets |-> {}]
    /\ part # "meter" => line = AnyLine

MCNext ==
    /\ UNCHANGED part
    /\ \/ part = "client" /\ Next /\ UNCHANGED <<sessionVars, scriptVars, plcVars, lineVars, cronVars>>
       \/ part = "sessions" /\ Sessions!Next /\ UNCHANGED <<vars, scriptVars, plcVars, lineVars, cronVars>>
       \/ part = "scripts" /\ Scripts!Next /\ UNCHANGED <<vars, sessionVars, plcVars, lineVars, cronVars>>
       \/ part = "controller" /\ Plc!Next /\ UNCHANGED <<vars, sessionVars, scriptVars, lineVars, cronVars>>
       \/ part = "meter" /\ Meter!Next /\ UNCHANGED <<vars, sessionVars, scriptVars, plcVars, cronVars>>
       \/ part = "jobs" /\ Cron!Next /\ UNCHANGED <<vars, sessionVars, scriptVars, plcVars, lineVars>>

MCSpec == MCInit /\ [][MCNext]_<<vars, sessionVars, scriptVars, plcVars, lineVars, cronVars, part>>

\* Three requests use both ids and come to the first again; with a place each, two are enough to
\* have both callers under way at once.
OnePlaceEach == size > 1 => moves <= 2

----------------------------------------------------------------------------
\* A device is online when the session it reported over is still there, and a session that has
\* ended has no device (Sessions).
StatusIsOfTheSession == Sessions!StatusIsOfTheSession /\ Sessions!EndedHasNoDevice

\* The machines callers find are open and run the present script, none is loaded twice, and no call
\* ends in nothing but in a machine that a start took away from it (Scripts).
ScriptsAreCurrent == Scripts!ScriptsAreCurrent

\* A value is exported under the name of the point it was read for (PlcConnector), and a meter's
\* point has the value of another only after a late answer (MeterConnector).
ValuesAreOfTheirPoints == Plc!ReportsAreOfTheirNode /\ Meter!WrongOnlyAfterLate

\* A write of a bit keeps the other bits of its octet (PlcConnector).
BitsKeepNeighbours == Plc!BitsKeepNeighbours

\* What was closed ends: a closed line stays closed (MeterConnector), a job that goes on is in the
\* list that the next Clear walks, and one that is disabled begins no call but those that were
\* started before (Crontab).
ClosedMeansEnded == Meter!PortStaysClosed /\ Cron!JobsAreListed /\ Cron!LateRuns
=============================================================================

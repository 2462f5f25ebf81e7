------------------------------ MODULE MCModbus ------------------------------
(***************************************************************************)
(* The points of Modbus slaves (ModbusPoints, on the instance of           *)
(* MCModbusPoints), and beside them the Modbus server (ModbusServer).  A   *)
(* behaviour exercises one of them, part, and leaves the other where it    *)
(* starts.                                                                 *)
(*                                                                         *)
(* The server has words of four bits; layouts with one and two devices of  *)
(* one and two models, with every length of a value, with a device whose   *)
(* model is missing; frames at both ends of the registers, frames that are *)
(* too short, and functions that are not served.                           *)
(***************************************************************************)
EXTENDS MCModbusPoints

CONSTANT Nobody

VARIABLES
    cfg, device, models, properties, units, registers, loop, msg, todo, current, pvs, commands, answer, port,
    stop, running, told, writing, events,
    part

serverVars == <<cfg, device, models, properties, units, registers, loop, msg, todo, current, pvs, commands,
                answer, port, stop, running, told, writing, events>>

-----------------------------------------------------------------------------
Property(n, t, a) == [name |-> n, type |-> t, access |-> a]
Meter == [id |-> "meter", properties |-> <<Property("on", "int", "rw"), Property("power", "float", "r"), Property("tag", "string", "r")>>]
Valve == [id |-> "valve", properties |-> <<Property("set", "float", "rw")>>]
Vrf == [id |-> "vrf", properties |-> <<Property("temp", "float32", "r"), Property("mode", "uint8", "rw"), Property("on", "bool", "none")>>]
Tank == [id |-> "tank", properties |-> <<Property("level", "int8", "w"), Property("total", "uint64", "rw"), Property("day", "uint64", "r")>>]
Plain == [id |-> "plain", properties |-> <<Property("count", "uint", "rw"), Property("next", "uint16", "rw")>>]
Dev(i, m) == [id |-> i, model |-> m]

Layout(core, made, sort, ms, ds) == [core |-> core, made |-> made, sort |-> sort, models |-> ms, devices |-> ds]
ServerConfigs ==
    {Layout(TRUE, TRUE, FALSE, <<Meter, Valve>>, <<Dev("m1", "meter"), Dev("v1", "valve")>>),
     Layout(TRUE, FALSE, FALSE, <<Meter>>, <<Dev("m1", "meter")>>),
     Layout(TRUE, FALSE, FALSE, <<Meter>>, <<>>),
     Layout(FALSE, TRUE, TRUE, <<Vrf>>, <<Dev("a1", "vrf"), Dev("a2", "vrf")>>),
     Layout(FALSE, TRUE, FALSE, <<Plain>>, <<Dev("p1", "plain")>>),
     Layout(FALSE, TRUE, FALSE, <<Vrf>>, <<Dev("a1", "vrf"), Dev("x", "gone")>>),
     Layout(FALSE, TRUE, TRUE, <<Tank>>, <<Dev("t1", "tank"), Dev("t2", "tank")>>)}

Frame(fc, a, q) == <<fc, a \div 4, a % 4, q \div 4, q % 4>>
WriteFrame(a, q, data) == Frame(16, a, q) \o <<Len(data) % 4>> \o data
ServerFrames ==
    {Frame(3, 0, 4), Frame(3, 0, 7), Frame(3, 13, 4), Frame(6, 2, 3), <<3, 0>>, <<23, 0, 0, 0, 1>>}
    \union {WriteFrame(a, 2, <<1, 2, 3, 0>>) : a \in {0, 8, 15}} \union {WriteFrame(5, 1, <<0, 1>>)}
    \union {WriteFrame(0, 2, <<1, 2>>), WriteFrame(0, 2, <<1, 2, 3>>)}

Server == INSTANCE ModbusServer WITH
    W <- 16, B <- 4, MaxQuantity <- 6, Configs <- ServerConfigs, Bodies <- ServerFrames, Readings <- {12345},
    MaxEvents <- 3, request <- writing

-----------------------------------------------------------------------------
Smallest == CHOOSE c \in ServerConfigs : c.models = <<Plain>>

MCInit ==
    /\ part \in {"points", "server"}
    /\ Init /\ Server!Init
    /\ part = "points" => cfg = Smallest

MCNext ==
    /\ UNCHANGED part
    /\ \/ part = "points" /\ Next /\ UNCHANGED serverVars
       \/ part = "server" /\ Server!Next /\ UNCHANGED vars

MCSpec == MCInit /\ [][MCNext]_<<vars, serverVars, part>>

-----------------------------------------------------------------------------
\* What a master reads of a property is what was last reported of it, in the type it has in the
\* layout, unless a master wrote to it; a write of a master makes the commands for the properties
\* it covers and no others; only what the edges of the address space and the lengths explain ends
\* the process (ModbusServer).
RegistersAreTrue ==
    Server!ReportsReadBack /\ Server!CommandsAreOfTheRequest /\ Server!OnlyTheEdgesFail
=============================================================================

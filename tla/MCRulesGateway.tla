--------------------------- MODULE MCRulesGateway ---------------------------
(***************************************************************************)
(* Two exports side by side: the link edge export, its rules (LinkEdge),   *)
(* their conditions and their triggers (RuleConditions); and a main        *)
(* gateway with a sub-gateway (Gateway).  A behaviour exercises one of     *)
(* them, part, and leaves the others where they start.                     *)
(*                                                                         *)
(* Rules: one rule that writes two devices, starts itself, or cannot be    *)
(* registered.  Conditions: no condition, every condition and every pair   *)
(* of them, on four days, for every kind of reading.  Triggers: one with,  *)
(* one without a duration, two reporters, three seconds, one update.       *)
(*                                                                         *)
(* Gateway: one connector, two connections, two devices, the second of     *)
(* which is one of a gateway below the sub-gateway and is added later; two *)
(* breaks, commands, values or devices.                                    *)
(***************************************************************************)
EXTENDS LinkEdge, TLC

CONSTANTS ruleA, lamp, fan

CONSTANTS Lists, Dates, Readings, Exact, Triggers, Reporter, Reported, MaxClock, MaxUpdates, Missing, NotANumber

\* Of Gateway, its Connector, Conn, Device, FirstDevices, ModelOf, Value, SN and MaxMoves.
CONSTANTS MainConnector, Socket, SubDevice, FirstSubDevices, SubModel, SubValue, Serial, MaxMoves, NoConn, NoValue

\* Connections are numbered, and the serial number is not a part of an identifier.
ASSUME GatewayAssumption ==
    /\ Socket \subseteq Nat /\ NoConn \notin Socket
    /\ \A d \in SubDevice : d \in Seq({d[i] : i \in DOMAIN d} \ {Serial})
    /\ FirstSubDevices \subseteq SubDevice /\ SubValue # {} /\ MaxMoves \in Nat

\* Numbers and dates are such, a moment is one of a year, and a trigger holds for some seconds.
ASSUME ConditionsAreConfigured ==
    /\ Exact \in Nat
    /\ \A list \in Lists :
          /\ list \in Seq({list[i] : i \in DOMAIN list})
          /\ \A i \in DOMAIN list :
                /\ list[i].type = "devicePoint" => list[i].want = NotANumber \/ list[i].want \in Nat
                /\ list[i].type = "executeTime" => list[i].begin \in Nat /\ list[i].end \in Nat
                /\ list[i].type = "dateInterval" =>
                      list[i].begin \in (1 .. 12) \X Nat /\ list[i].end \in (1 .. 12) \X Nat
    /\ \A t \in Dates : t.year \in Nat /\ t.month \in 1 .. 12 /\ t.day \in 1 .. 31 /\ t.ms \in Nat
    /\ \A p \in Readings \ {Missing} : p.str \/ p.v = NotANumber \/ p.v \in Nat
    /\ \A ts \in Triggers :
          ts \in Seq({ts[i] : i \in DOMAIN ts}) /\ \A i \in DOMAIN ts : ts[i].duration \in Nat

VARIABLES
    devices, value, reports, reporter, mainGateway, mainConn, handler, job, taken, performed, crashed,
    loop, cur, conn, registering, destroyed, mainModels, mainDevices, mainShadow,
    up, down, broken, commands, moves, stolen, overtaken, promised, ghost,
    asked, clock, triggers, start, walker, updates, fired, since, overlapped, crossed, alive,
    part

gatewayVars == <<devices, value, reports, reporter, mainGateway, mainConn, handler, job, taken, performed,
                 crashed, loop, cur, conn, registering, destroyed, mainModels, mainDevices, mainShadow,
                 up, down, broken, commands, moves, stolen, overtaken, promised, ghost>>
triggerVars == <<asked, clock, triggers, start, walker, updates, fired, since, overlapped, crossed, alive>>

-----------------------------------------------------------------------------
(***************************************************************************)
(* Rules                                                                   *)
(***************************************************************************)
AllRules == {ruleA}
TwoDevices == {lamp, fan}
ApartConns == (lamp :> "one" @@ fan :> "two")

ConfOfActions(as) ==
    [enable |-> TRUE, silent |-> FALSE, conditions |-> 1, schedules |-> 1,
     bad |-> FALSE, actions |-> as]

WriteTo(d) == [type |-> "point", dev |-> d, points |-> 1]
Start(r) == [type |-> "rule", rule |-> r]

\* Writes to two devices, refuses to run twice in its silent period; starts itself
\* again; cannot be registered.
Scene == [ConfOfActions(<<WriteTo(lamp), WriteTo(fan)>>) EXCEPT !.silent = TRUE, !.schedules = 0]
Loop == ConfOfActions(<<Start(ruleA)>>)
Broken == [ConfOfActions(<<WriteTo(lamp)>>) EXCEPT !.bad = TRUE]

Loops == {Loop}
Configs == {Scene, Loop, Broken}

-----------------------------------------------------------------------------
(***************************************************************************)
(* Conditions and triggers                                                 *)
(***************************************************************************)
Point(sym, want) == [type |-> "devicePoint", complete |-> TRUE, sym |-> sym, want |-> want]
Field(f, list) == [type |-> "field", field |-> f, list |-> list]
Days(begin, end) == [type |-> "dateInterval", open |-> FALSE, begin |-> begin, end |-> end]
Period(begin, end) == [type |-> "executeTime", begin |-> begin, end |-> end]

Conditions ==
    {Point(sym, 3) : sym \in {"=", "!=", ">", ">=", "<", "<=", "eq"}}
        \union {Point("=", 8), Point("<", NotANumber), [Point("=", 3) EXCEPT !.complete = FALSE],
                Field("year", {2024}), Field("month", {2, 3}), Field("week", {0, 1}), Field("day", {1, 29}),
                Period(1, 5), Period(5, 5),
                [type |-> "lastTime"], [type |-> "times", begin |-> 480, end |-> 1080],
                Days(<<2, 29>>, <<3, 1>>), Days(<<12, 1>>, <<2, 28>>), Days(<<3, 1>>, <<3, 1>>),
                Days(<<2, 28>>, <<2, 29>>), Days(<<4, 31>>, <<5, 1>>), [Days(<<1, 1>>, <<1, 1>>) EXCEPT !.open = TRUE]}

MCLists == {<<>>} \union {<<c>> : c \in Conditions} \union {<<c, d>> : c, d \in Conditions}

Moment(y, m, d, week, minute, ms) ==
    [year |-> y, month |-> m, day |-> d, week |-> week, minute |-> minute, ms |-> ms]

MCDates == {Moment(2023, 2, 28, 2, 600, 4), Moment(2024, 2, 29, 4, 480, 5),
            Moment(2100, 3, 1, 1, 1080, 6), Moment(2023, 12, 31, 0, 1000, 1)}

Number(n) == [str |-> FALSE, v |-> n]
MCReadings == {Missing, [str |-> TRUE, v |-> 3]} \union {Number(n) : n \in {2, 3, 4, 9, NotANumber}}

TriggerOf(sym, want, duration) == [sym |-> sym, want |-> want, duration |-> duration]
MCTriggers == {<<TriggerOf(">", 2, 0), TriggerOf(">", 3, 2)>>}
MCReported == {Number(2), Number(4)}

Cond == INSTANCE RuleConditions WITH handler <- walker

-----------------------------------------------------------------------------
(***************************************************************************)
(* The gateways                                                            *)
(***************************************************************************)
Lamp   == <<"lamp">>
Nested == <<"below", "lamp">>

TwoPaths == {Lamp, Nested}
OnlyLamp == {Lamp}
PathModel == (Lamp :> "lamp") @@ (Nested :> "below_lamp")

Gate == INSTANCE Gateway WITH
    Connector <- MainConnector, Conn <- Socket, Device <- SubDevice, FirstDevices <- FirstSubDevices,
    ModelOf <- SubModel, Value <- SubValue, SN <- Serial

-----------------------------------------------------------------------------
\* The parts that are left out have one state.
MCInit ==
    /\ part \in {"rules", "conditions", "triggers", "gateway"}
    /\ Init /\ Gate!Init /\ Cond!Init
    /\ part # "rules" => \A r \in Rule : file[r] = Nothing
    /\ part # "conditions" => asked = [list |-> <<>>, date |-> Moment(2100, 3, 1, 1, 1080, 6), reading |-> Missing]

MCNext ==
    /\ UNCHANGED part
    /\ \/ part = "rules" /\ Next /\ UNCHANGED <<gatewayVars, triggerVars>>
       \/ part = "triggers" /\ Cond!Next /\ UNCHANGED <<vars, gatewayVars>>
       \/ part = "gateway" /\ Gate!Next /\ UNCHANGED <<vars, triggerVars>>

\* The fairness of each module, where its part is exercised.
MCFairness ==
    /\ WF_vars(part = "rules" /\ \E p \in Runner : RunStep(p))
    /\ \A c \in MainConnector : /\ WF_gatewayVars(part = "gateway" /\ Gate!Connect(c))
                                /\ WF_gatewayVars(part = "gateway" /\ Gate!Register(c))
                                /\ SF_gatewayVars(part = "gateway" /\ Gate!Dial(c))
    /\ \A n \in Socket : WF_gatewayVars(part = "gateway" /\ Gate!Handle(n))
    /\ WF_gatewayVars(part = "gateway" /\ Gate!Report)

MCSpec == MCInit /\ [][MCNext]_<<vars, gatewayVars, triggerVars, part>> /\ MCFairness

-----------------------------------------------------------------------------
\* The result of a run is true (LinkEdge); its conditions hold when they are said to, and its
\* triggers have held for their duration (RuleConditions).
RulesDoAsTheySay == ResultIsTrue /\ Cond!AllConditionsHold /\ Cond!HeldLongEnough

\* The sub-gateway serves a connection that lives, and each command once, on its device
\* (Gateway).
GatewayServes == Gate!ServedConnectionLives /\ Gate!CommandsReachTheirDevices

\* A synchronised connection has brought every device (Gateway).
EveryDeviceArrives == Gate!EveryDeviceArrives

\* The main gateway comes to hold every value (Gateway).
MainCatchesUp == Gate!MainCatchesUp
=============================================================================

---------------------------- MODULE ModbusServer ----------------------------
(***************************************************************************)
(* The Modbus server export (exports/modbusserver): the points of every    *)
(* device are laid out in one space of registers.  Reports of the devices  *)
(* are written into the registers; a master on the serial line reads them, *)
(* and what it writes becomes commands to the devices.                     *)
(*                                                                         *)
(* One goroutine reads the line, one frame to a read, and serves it.  The  *)
(* registers have a lock, held for one property at a time; a command is    *)
(* made of the properties that a write covers, each read after the write,  *)
(* and sent by a goroutine of its own.  The mutex of the port is held by   *)
(* the read that waits for a frame, so the port is closed between frames.  *)
(* Nothing recovers from a panic: it ends the process.                     *)
(*                                                                         *)
(* Words are numbers below W = B * B, octets numbers below B: the code's W *)
(* is 65536, for addresses and for registers.  Floats are their bits.      *)
(* NewServer makes a Storage without its map of devices, NewStorage (which *)
(* only the tests call) with it: made.                                     *)
(***************************************************************************)
EXTENDS Integers, Sequences, FiniteSets, SequencesExt

CONSTANTS
    W, B,           \* values of a word and of an octet
    MaxQuantity,    \* registers of one request, 2000 in the code
    Configs,        \* [core, made, sort, models, devices]
    Bodies,         \* frames without slave, checksum: sequences, the first the function code
    Readings,       \* what devices report
    MaxEvents,      \* bound: frames and reports
    NoValue, Nobody

VARIABLES
    cfg,            \* models and devices, in the order in which they were converted
    device, models, properties, units, \* the layout that Initialize makes
    registers,
    loop,           \* the goroutine of the line: new, free, read, serve, commands, down
    msg,            \* the message in hand
    todo, current,  \* device and property pairs to read back; the device whose command is made
    pvs,            \* the values of that command
    commands,       \* goroutines that send a command
    answer,         \* the last frame sent to the master
    port,           \* the port is open
    stop,           \* Stop: no, closed, dropped
    running,        \* the process has not been ended by a panic
    told,           \* history: the value last reported of a property, unless a master wrote to it
    request,        \* history: the write in hand, the registers before it, and reports since
    events          \* counted for the bound

layout == <<cfg, device, models, properties, units>>
serving == <<msg, todo, current, pvs, request>>
vars == <<layout, registers, loop, serving, commands, answer, port, stop, running, told, events>>

Types1 == {"bool", "uint8", "int8", "uint16", "int16"}
Types2 == {"uint32", "int32", "float32"}
Types4 == {"uint64", "int64", "float64"}
Native == {"uint", "int"}

----------------------------------------------------------------------------
(***************************************************************************)
(* Values and words                                                        *)
(***************************************************************************)
\* A float64 counted among the types of two words.
calsValueTypeLength_Mutant(t) ==
    IF t \in Types4 \ {"float64"} THEN 4 ELSE IF t \in Types2 \union {"float64"} THEN 2 ELSE 1

\* An int or uint takes four words on a 64-bit machine, and calsValueTypeLength gives it one.
calsValueTypeLength(t) == IF t \in Types4 THEN 4 ELSE IF t \in Types2 THEN 2 ELSE 1

Words(v, n) == [i \in 1 .. n |-> (v \div W ^ (n - i)) % W]

\* Uint16Slice; a negative number is the two's complement in its type, int8 widened to a word.
Uint16Slice(v, t) ==
    CASE t = "bool" -> <<IF v = 0 THEN 0 ELSE 1>>
      [] t = "uint8" -> <<v % B>>
      [] t = "int8" -> <<IF v % B < B \div 2 THEN v % B ELSE W - B + (v % B)>>
      [] t \in {"uint16", "int16"} -> <<v % W>>
      [] t \in Types2 -> Words(v, 2)
      [] OTHER -> Words(v, 4)

\* ConvUint16Slice; of the four words of an int or uint it puts together the first two.
ConvUint16Slice(ws, t) ==
    CASE t \in Native -> IF Len(ws) = 4 THEN ws[1] * W + ws[2] ELSE NoValue
      [] t \in Types4 -> IF Len(ws) = 4 THEN ((ws[1] * W + ws[2]) * W + ws[3]) * W + ws[4] ELSE NoValue
      [] t \in Types2 -> IF Len(ws) = 2 THEN ws[1] * W + ws[2] ELSE NoValue
      [] Len(ws) # 1 -> NoValue
      [] t = "bool" -> IF ws[1] = 0 THEN 0 ELSE 1
      [] t \in {"uint8", "int8"} -> ws[1] % B
      [] OTHER -> ws[1]

\* What is left of a value in a type.
Trimmed(v, t) ==
    CASE t = "bool" -> IF v = 0 THEN 0 ELSE 1
      [] t \in {"uint8", "int8"} -> v % B
      [] OTHER -> v % W ^ calsValueTypeLength(t)

----------------------------------------------------------------------------
(***************************************************************************)
(* The layout                                                              *)
(***************************************************************************)
\* Only integers and floats of the core's points are served, in these types.
convertPoints(points) ==
    LET served == SelectSeq(points, LAMBDA p : p.type \in {"int", "float"} /\ p.access \in {"r", "rw", "w"})
    IN  [i \in DOMAIN served |->
            [served[i] EXCEPT !.type = IF @ = "int" THEN "uint16" ELSE "float64"]]

\* The core's models and devices come in the order of a map.
Converted(c) ==
    IF c.core
    THEN {[c EXCEPT !.models = [i \in DOMAIN ms |-> [ms[i] EXCEPT !.properties = convertPoints(@)]],
                    !.devices = ds] : ms \in SetToSeqs(ToSet(c.models)), ds \in SetToSeqs(ToSet(c.devices))}
    ELSE {c}

Sorted(ps) ==
    IF cfg.sort
    THEN FlattenSeq([i \in 1 .. 4 |->
            SelectSeq(ps, LAMBDA p : p.access = <<"r", "rw", "w", "none">>[i])])
    ELSE ps

Lengths(ps) == FoldLeft(LAMBDA n, p : n + calsValueTypeLength(p.type), 0, ps)

handleProperties(ps) ==
    [i \in DOMAIN ps |-> [name |-> ps[i].name, type |-> ps[i].type,
                          rel |-> Lengths(SubSeq(ps, 1, i - 1)) % W, quantity |-> calsValueTypeLength(ps[i].type)]]

\* The properties of all models stand in one sequence, a model knows where its own are.
handleModels ==
    FoldLeft(LAMBDA acc, m :
        [models |-> Append(acc.models, [id |-> m.id, quantity |-> Lengths(m.properties) % W, left |-> Len(acc.properties),
                                        right |-> Len(acc.properties) + Len(m.properties)]),
         properties |-> acc.properties \o handleProperties(Sorted(m.properties))],
        [models |-> <<>>, properties |-> <<>>], cfg.models)

ModelOf(ms, d) == SelectInSeq(ms, LAMBDA m : m.id = d.model)

UnitsOf(d, m, ps) ==
    FlattenSeq([i \in 1 .. m.right - m.left |->
        [j \in 1 .. calsValueTypeLength(ps[m.left + i].type) |-> [id |-> d.id, property |-> m.left + i]]])

\* handleDevices stops at a device whose model is missing.
handleDevices(ms, ps) ==
    FoldLeft(LAMBDA acc, d :
        LET m == ModelOf(ms, d)
        IN  IF ~acc.ok \/ m = 0 THEN [acc EXCEPT !.ok = FALSE]
            ELSE [acc EXCEPT !.device = [x \in DOMAIN @ \union {d.id} |->
                                            IF x = d.id THEN [start |-> acc.start, model |-> m] ELSE acc.device[x]],
                             !.start = (@ + ms[m].quantity) % W,
                             !.units = @ \o UnitsOf(d, ms[m], ps)],
        [ok |-> TRUE, start |-> 0, device |-> [x \in {} |-> 0], units |-> <<>>], cfg.devices)

NoDevices == [x \in {} |-> 0]

\* The registers of a property; an address is a word and wraps.
PropertyIndex(id, name) ==
    LET m == models[device[id].model]
        named == {i \in m.left + 1 .. m.right : properties[i].name = name}
    IN  IF named = {} THEN 0 ELSE CHOOSE i \in named : \A j \in named : j <= i

Pairs == {<<id, properties[i].name>> : id \in DOMAIN device, i \in DOMAIN properties}
Known == {x \in Pairs : PropertyIndex(x[1], x[2]) # 0}
Prop(x) == properties[PropertyIndex(x[1], x[2])]
Start(x) == (device[x[1]].start + Prop(x).rel) % W

Addresses(a, n) == {k \in 0 .. W - 1 : k >= a /\ k < a + n}

\* The sum is a word, and never more than its largest value plus one: only the quantity is checked.
verifyAddressQuantity(a, n) == n \in 1 .. MaxQuantity /\ (a + n) % W <= W

\* A slice of the registers past their end panics.
Overruns(a, n) == a + n > W

Put(regs, a, ws) == [k \in DOMAIN regs |-> IF k \in Addresses(a, Len(ws)) THEN ws[k - a + 1] ELSE regs[k]]
Get(regs, a, n) == [i \in 1 .. n |-> regs[a + i - 1]]

GetProperty(regs, x) == ConvUint16Slice(Get(regs, Start(x), Prop(x).quantity), Prop(x).type)

----------------------------------------------------------------------------
(***************************************************************************)
(* Frames                                                                  *)
(***************************************************************************)
Word(hi, lo) == hi * B + lo

NoMsg == [fc |-> 0, addr |-> 0, qty |-> 0, values |-> <<>>]

\* commonPackager.Decode; a body that is refused gets no answer.
Decodable(b) ==
    \/ b[1] \in {1, 2, 3, 4, 5, 6} /\ Len(b) = 5
    \/ b[1] = 15 /\ Len(b) >= 7
    \/ b[1] = 16 /\ Len(b) >= 8

Decode(b) ==
    [fc |-> b[1], addr |-> Word(b[2], b[3]),
     qty |-> IF b[1] \in {5, 6} THEN 1 ELSE Word(b[4], b[5]),
     values |-> IF b[1] \in {5, 6} THEN SubSeq(b, 4, 5) ELSE IF b[1] > 6 THEN SubSeq(b, 7, Len(b)) ELSE <<>>]

\* Octets in pairs, an odd one out alone, and no more than the quantity asked for.
GetUint16Slice(m) ==
    LET all == [i \in 1 .. ((Len(m.values) + 1) \div 2) |->
                  IF 2 * i <= Len(m.values) THEN Word(m.values[2 * i - 1], m.values[2 * i]) ELSE m.values[2 * i - 1]]
    IN  IF Len(all) >= m.qty THEN SubSeq(all, 1, m.qty) ELSE all

ErrorAnswer(fc, code) == [fc |-> fc, error |-> code, count |-> 0, words |-> <<>>]

\* The number of octets is one octet.
ReadResponse(ws) == [fc |-> 3, error |-> 0, count |-> (2 * Len(ws)) % B, words |-> ws]

----------------------------------------------------------------------------
Init ==
    /\ \E c \in Configs : cfg \in Converted(c)
    /\ device = NoDevices /\ models = <<>> /\ properties = <<>> /\ units = <<>>
    /\ registers = [k \in 0 .. W - 1 |-> 0]
    /\ loop = "new" /\ msg = NoMsg /\ todo = {} /\ current = Nobody /\ pvs = <<>>
    /\ commands = {} /\ answer = <<>> /\ port = FALSE /\ stop = "no" /\ running = TRUE
    /\ told = [x \in {} |-> 0] /\ request = <<>> /\ events = 0

Panic == running' = FALSE

\* Start: Initialize, then Listen opens the port.  The map of NewServer is nil: its first entry panics.
Initialize ==
    /\ running /\ loop = "new" /\ stop = "no"
    /\ LET h == handleModels
           d == handleDevices(h.models, h.properties)
       IN  /\ models' = h.models /\ properties' = h.properties
           /\ IF ~cfg.made /\ cfg.devices # <<>> /\ ModelOf(h.models, Head(cfg.devices)) # 0
              THEN Panic /\ UNCHANGED <<device, units, loop, port>>
              ELSE /\ device' = d.device /\ units' = d.units
                   /\ \E opens \in BOOLEAN :
                        /\ port' = (d.ok /\ opens)
                        /\ loop' = IF d.ok /\ opens THEN "free" ELSE "down"
                   /\ UNCHANGED running
    /\ UNCHANGED <<cfg, registers, serving, commands, answer, stop, told, events>>

\* Read takes the mutex of the port and waits; without a port it panics.
Read ==
    /\ running /\ loop = "free"
    /\ IF port THEN loop' = "read" /\ UNCHANGED running ELSE Panic /\ UNCHANGED loop
    /\ UNCHANGED <<layout, registers, serving, commands, answer, port, stop, told, events>>

\* A part of a frame, or two in one, fails the checksum; so does nothing of what Decode knows.
Receive ==
    /\ running /\ loop = "read" /\ events < MaxEvents
    /\ events' = events + 1 /\ answer' = <<>>
    /\ \/ \E b \in Bodies :
            /\ Decodable(b)
            /\ loop' = "serve" /\ msg' = Decode(b)
       \/ loop' = "free" /\ UNCHANGED msg
       \/ loop' = "down" /\ UNCHANGED msg
    /\ UNCHANGED <<layout, registers, todo, current, pvs, request, commands, port, stop, running, told>>

\* Context.Response and Send: without a port the write of the frame panics.
Respond(a) ==
    IF port THEN answer' = a /\ loop' = "free" /\ msg' = NoMsg /\ UNCHANGED running
    ELSE Panic /\ UNCHANGED <<answer, loop, msg>>

ServeOther ==
    /\ running /\ loop = "serve" /\ msg.fc \notin {3, 16}
    /\ Respond(ErrorAnswer(msg.fc, 1))
    /\ UNCHANGED <<layout, registers, todo, current, pvs, request, commands, port, stop, told, events>>

ServeRead ==
    /\ running /\ loop = "serve" /\ msg.fc = 3
    /\ IF ~verifyAddressQuantity(msg.addr, msg.qty) THEN Respond(ErrorAnswer(3, 4))
       ELSE IF stop = "dropped" \/ Overruns(msg.addr, msg.qty) THEN Panic /\ UNCHANGED <<answer, loop, msg>>
       ELSE Respond(ReadResponse(Get(registers, msg.addr, msg.qty)))
    /\ UNCHANGED <<layout, registers, todo, current, pvs, request, commands, port, stop, told, events>>

\* The bound of the units off by one.
RegisterInfo_Mutant(a) == a <= Len(units)

\* RegisterInfo answers for addresses below the number of units.
RegisterInfo(a) == a <= Len(units) - 1

\* The register after the last is looked up too.
Covered_Mutant(a, n) == {(a + i) % W : i \in 0 .. n}

Covered(a, n) == {(a + i) % W : i \in 0 .. n - 1}

\* The write, and the device and property of each register; each written address is a word.
ServeWrite ==
    /\ running /\ loop = "serve" /\ msg.fc = 16
    /\ LET ws == GetUint16Slice(msg)
           mapped == {a \in Covered(msg.addr, msg.qty) : RegisterInfo(a)}
       IN  IF Len(ws) # msg.qty \/ ~verifyAddressQuantity(msg.addr, Len(ws))
           THEN Respond(ErrorAnswer(16, 4)) /\ UNCHANGED <<registers, todo, told, request>>
           ELSE IF stop = "dropped" \/ Overruns(msg.addr, Len(ws)) \/ ~(mapped \subseteq 0 .. Len(units) - 1)
           THEN Panic /\ UNCHANGED <<answer, loop, msg, registers, todo, told, request>>
           ELSE /\ registers' = Put(registers, msg.addr, ws)
                /\ todo' = {<<units[a + 1].id, properties[units[a + 1].property].name>> : a \in mapped}
                /\ told' = [x \in {y \in DOMAIN told : Addresses(Start(y), Prop(y).quantity)
                                                         \intersect Addresses(msg.addr, Len(ws)) = {}} |-> told[x]]
                /\ request' = [addr |-> msg.addr, words |-> ws, before |-> registers, since |-> {}]
                /\ loop' = "commands" /\ msg' = NoMsg
                /\ UNCHANGED <<answer, running>>
    /\ UNCHANGED <<layout, current, pvs, commands, port, stop, events>>

\* GetProperty of one covered property; when it is the device's last, its command goes off.
ReadBack ==
    /\ running /\ loop = "commands"
    /\ \E x \in todo :
         /\ current \in {x[1], Nobody}
         /\ IF stop = "dropped" \/ Overruns(Start(x), Prop(x).quantity)
            THEN Panic /\ UNCHANGED <<todo, current, pvs, commands>>
            ELSE LET all == Append(pvs, [name |-> x[2], value |-> GetProperty(registers, x)])
                     last == ~\E y \in todo \ {x} : y[1] = x[1]
                 IN  /\ todo' = todo \ {x} /\ UNCHANGED running
                     /\ current' = IF last THEN Nobody ELSE x[1]
                     /\ pvs' = IF last THEN <<>> ELSE all
                     /\ commands' = IF last THEN commands \union {[id |-> x[1], pvs |-> all, request |-> request]}
                                    ELSE commands
    /\ UNCHANGED <<layout, registers, loop, msg, request, answer, port, stop, told, events>>

\* A write that was good gets no answer.
Served ==
    /\ running /\ loop = "commands" /\ todo = {}
    /\ loop' = "free" /\ request' = <<>>
    /\ UNCHANGED <<layout, registers, msg, todo, current, pvs, commands, answer, port, stop, running, told, events>>

\* writeHandler: WritePoints; the goroutines come to it in any order.
Command ==
    /\ running
    /\ \E c \in commands : commands' = commands \ {c}
    /\ UNCHANGED <<layout, registers, loop, serving, answer, port, stop, running, told, events>>

\* ExportTo: SetProperty of one point.  Without the Storage it panics, without the property it fails.
Report ==
    /\ running /\ loop # "new" /\ events < MaxEvents
    /\ events' = events + 1
    /\ \E x \in Known, v \in Readings :
         LET ws == Uint16Slice(v, Prop(x).type)
         IN  IF stop = "dropped" \/ Overruns(Start(x), Len(ws))
             THEN Panic /\ UNCHANGED <<registers, told, request>>
             ELSE /\ registers' = Put(registers, Start(x), ws)
                  /\ told' = [y \in DOMAIN told \union {x} |-> IF y = x THEN v ELSE told[y]]
                  /\ request' = IF request = <<>> THEN request ELSE [request EXCEPT !.since = @ \union {x}]
                  /\ UNCHANGED running
    /\ UNCHANGED <<layout, loop, msg, todo, current, pvs, commands, answer, port, stop>>

\* Stop: Close waits for the mutex of the port; if it fails, Stop gives up.
ClosePort ==
    /\ running /\ stop = "no" /\ loop \notin {"new", "read"}
    /\ stop' = "closed" /\ port' = FALSE
    /\ UNCHANGED <<layout, registers, loop, serving, commands, answer, running, told, events>>

DropRegister ==
    /\ running /\ stop = "closed"
    /\ stop' = "dropped"
    /\ UNCHANGED <<layout, registers, loop, serving, commands, answer, port, running, told, events>>

Next ==
    \/ Initialize \/ Read \/ Receive \/ ServeOther \/ ServeRead \/ ServeWrite \/ ReadBack \/ Served
    \/ Command \/ Report \/ ClosePort \/ DropRegister

Spec == Init /\ [][Next]_vars

----------------------------------------------------------------------------
Total == FoldLeft(LAMBDA n, d : n + models[device[d].model].quantity, 0, SetToSeq(DOMAIN device))
Regular == \A i \in DOMAIN properties : properties[i].type \notin Native

(***************************************************************************)
(* While the devices' registers fit in the space and no type is wider than *)
(* its registers, every property has registers of its own: what was last   *)
(* reported of it reads back, unless a master has written to it            *)
(* (storage.go, handleModels and handleDevices, with converter.go).        *)
(***************************************************************************)
ReportsReadBack ==
    running /\ Total <= W /\ Regular =>
        \A x \in DOMAIN told : GetProperty(registers, x) = Trimmed(told[x], Prop(x).type)

(***************************************************************************)
(* A command is made of exactly the properties of its device whose         *)
(* registers the master's write covers, and their values are of the words  *)
(* of that write and, beside them, what the registers held before, except  *)
(* where a report came between (mbserver.go, SetOnWriteHandler).           *)
(***************************************************************************)
Due(r, x) ==
    GetProperty([k \in 0 .. W - 1 |-> IF k \in Addresses(r.addr, Len(r.words))
                                      THEN r.words[k - r.addr + 1] ELSE r.before[k]], x)

CommandsAreOfTheRequest ==
    \A c \in commands : Total <= W =>
        /\ {c.pvs[i].name : i \in DOMAIN c.pvs} =
              {x[2] : x \in {y \in Known : y[1] = c.id /\ Addresses(Start(y), Prop(y).quantity)
                                               \intersect Addresses(c.request.addr, Len(c.request.words)) # {}}}
        /\ \A i \in DOMAIN c.pvs :
              LET x == <<c.id, c.pvs[i].name>>
              IN  \/ c.pvs[i].value = Due(c.request, x)
                  \/ x \in c.request.since
                  \/ ~Regular /\ c.request.since # {}

(***************************************************************************)
(* What the checks of a request let through at the edges, and nothing      *)
(* else, fails: the process ends only for want of the map of devices, for  *)
(* a layout or a request that runs past the last register, or after Stop;  *)
(* an answer tells a wrong length only when it has half as many registers  *)
(* as an octet has values (storage.go:185, context.go:106).                *)
(***************************************************************************)
OnlyTheEdgesFail ==
    /\ ~running => \/ ~cfg.made \/ stop # "no" \/ ~Regular
                   \/ Total > W \/ Overruns(msg.addr, msg.qty)
    /\ answer # <<>> /\ answer.count # 2 * Len(answer.words) => 2 * Len(answer.words) >= B

=============================================================================

---------------------------- MODULE ModbusPoints ----------------------------
(***************************************************************************)
(* The points of one Modbus connection (plugins/modbus/internal): how the  *)
(* points of its devices are grouped into reads of bounded length, how a   *)
(* request finds the groups to read, how the registers read are cut up and *)
(* turned into values, and how values become writes of consecutive         *)
(* registers.  What happens between goroutines is in ModbusConnector.      *)
(*                                                                         *)
(* A register is a pair of bytes, a value a sequence of such pairs, most   *)
(* significant first.  Only the place of each byte matters: every byte has *)
(* a token that says whose it is.  Points that share a register bit by bit *)
(* are in ModbusConnector.                                                 *)
(***************************************************************************)
EXTENDS Integers, Sequences, FiniteSets

CONSTANTS
    Device,         \* the devices of the connection
    Unit,           \* slaves
    unitOf,         \* the unitID in a device's properties
    Table,          \* the primary tables in use
    Points,         \* the points that models may have
    valueOf,        \* the value that callers write to a point
    Space,          \* addresses are of the type uint16: 2^16 in the code
    BatchReadLen, BatchWriteLen,   \* of the connection
    MaxPoints,      \* bound: points of all devices
    MaxBatch,       \* bound: points of a write
    NoDevice, NoValue

Word == Nat \X Nat

Registers == {"INPUT_REGISTER", "HOLDING_REGISTER"}
Writable  == {"COIL", "HOLDING_REGISTER"}
Quantity  == {1, 2, 4}

PointRec == [device : Device, name : STRING, duration : Nat, table : Table,
             address : Nat, quantity : Quantity, byteSwap : BOOLEAN, wordSwap : BOOLEAN,
             narrow : BOOLEAN]   \* is the raw type INT64?

ASSUME UnitsAssumption  == unitOf \in [Device -> Unit] /\ Unit \subseteq Nat /\ NoDevice \notin Device
ASSUME SpaceAssumption  == Space \in Nat /\ Space > 4
ASSUME ValuesAssumption == /\ DOMAIN valueOf = Points
                           /\ \A p \in Points : valueOf[p] \in [1..p.quantity -> Word]
                           /\ \A q \in Quantity : NoValue \notin [1..q -> Word]
\* A point lies within the table: a device has no registers beyond the last address.  Coils and
\* discrete inputs are points of one (convToPointExtend).
ASSUME PointsAssumption == /\ Points \subseteq PointRec
                           /\ \A p \in Points : /\ p.address + p.quantity <= Space
                                                /\ p.table \notin Registers => p.quantity = 1
                                                /\ p.narrow => p.quantity = 4
ASSUME LengthsAssumption == BatchReadLen \in Nat /\ BatchReadLen < Space /\ BatchWriteLen \in Nat
ASSUME BoundsAssumption == MaxPoints \in Nat /\ MaxBatch \in Nat

VARIABLES
    building,   \* the device whose points are being grouped
    groupIndex, \* the next index of its groups
    added,      \* the points in the groups
    groups,     \* slaveDevice.pointGroup of every unit
    started,    \* has the collection started?
    memory,     \* what the slaves hold
    reported,   \* history: what the last read told of its points, if nothing was written since
    written,    \* history: the point was written, and none of its registers since
    request     \* history: the points of the read request just answered

grouping == <<building, groupIndex, added, groups, started>>
vars     == <<grouping, memory, reported, written, request>>

-----------------------------------------------------------------------------
(* Values and registers *)

Swap(w) == <<w[2], w[1]>>

\* Mutant of SwapWords: The words of the whole value are turned around.
SwapWords_Mutant(v) == [i \in 1..Len(v) |-> v[Len(v) + 1 - i]]

\* swapWords: in every four bytes the first two and the last two change places.
SwapWords(v) == IF Len(v) = 1 THEN v
                ELSE [i \in 1..Len(v) |-> IF i % 2 = 1 THEN v[i + 1] ELSE v[i - 1]]

Backwards(s) == [i \in 1..Len(s) |-> s[Len(s) + 1 - i]]

\* The words of a point, most significant first, from its registers in reverse order.
Ordered(p, regs) ==
    LET bytes == IF p.byteSwap THEN [i \in 1..Len(regs) |-> Swap(regs[i])] ELSE regs
    IN  IF p.table \notin Registers THEN regs
        ELSE IF p.wordSwap THEN SwapWords(bytes) ELSE bytes

\* int32(val) of a value of four words.
Narrowed(v) == <<v[3], v[4]>>

\* Mutant of Decode: the words that are kept are those of the wrong end.
Decode_Mutant(p, regs) == IF p.narrow THEN SubSeq(Ordered(p, regs), 1, 2) ELSE Ordered(p, regs)

\* The value that is reported of a point.  An INT64 is reported as an int32: its two low words.
Decode(p, regs) == IF p.narrow THEN Narrowed(Ordered(p, regs)) ELSE Ordered(p, regs)

\* The registers of a value.  With byteSwap all its bytes are put in reverse order, not those
\* of each register.
Encode(p, v) ==
    LET out == IF p.byteSwap THEN [i \in 1..Len(v) |-> Swap(v[Len(v) + 1 - i])] ELSE v
    IN  IF p.table \notin Registers THEN v
        ELSE Backwards(IF p.wordSwap THEN SwapWords(out) ELSE out)

\* What a register holds that was never written: bytes that tell it from everything else.
Untouched(a) == <<2 * a, 2 * a + 1>>

-----------------------------------------------------------------------------
(* Groups *)

\* The value of a sum of two uint16.
U16(n) == IF n < Space THEN n ELSE n - Space

Lower(a, b)  == IF a > b THEN b ELSE a
Higher(a, b) == IF a < b THEN b ELSE a

\* One past the last register of a group or a point, as the code computes it.
End(x) == U16(x.address + x.quantity)

Start(g, p)  == Lower(g.address, p.address)
Length(g, p) == U16(Higher(End(g), End(p)) + Space - Start(g, p))

\* May the point join the group?
Fits(g, p) == /\ g.duration = p.duration
              /\ g.table = p.table
              /\ Length(g, p) <= BatchReadLen

\* Mutant of Joined: The group grows at its end only.
Joined_Mutant(g, p) == [g EXCEPT !.quantity = Length(g, p), !.points = Append(@, p)]

Joined(g, p) == [g EXCEPT !.address = Start(g, p), !.quantity = Length(g, p), !.points = Append(@, p)]

NewGroup(i, p) == [index |-> i, duration |-> p.duration, table |-> p.table,
                   address |-> p.address, quantity |-> p.quantity, points |-> <<p>>]

Init ==
    /\ building = NoDevice /\ groupIndex = 0 /\ added = {}
    /\ groups = [u \in Unit |-> <<>>]
    /\ started = FALSE
    /\ memory = [u \in Unit |-> [t \in Table |-> [a \in 0..(Space - 1) |-> Untouched(a)]]]
    /\ reported = [p \in Points |-> NoValue]
    /\ written = {}
    /\ request = {}

\* createPointGroup is called for one device after the other; the indexes start at 0 in each.
BeginDevice(d) ==
    /\ ~started
    /\ \A p \in added : p.device # d
    /\ building' = d /\ groupIndex' = 0
    /\ UNCHANGED <<added, groups, started, memory, reported, written, request>>

\* Mutant of createPointGroup: The search does not stop at the first group.
createPointGroup_Mutant(p) ==
    LET u == unitOf[p.device]
        fitting == {i \in 1..Len(groups[u]) : Fits(groups[u][i], p)}
    IN  /\ ~started /\ building = p.device
        /\ \A q \in added : q.device = p.device => q.name # p.name
        /\ added' = added \cup {p}
        /\ \/ /\ fitting # {}
              /\ groups' = [groups EXCEPT ![u] = [i \in 1..Len(groups[u]) |->
                    IF i \in fitting THEN Joined(groups[u][i], p) ELSE groups[u][i]]]
              /\ UNCHANGED groupIndex
           \/ /\ fitting = {}
              /\ groups' = [groups EXCEPT ![u] = Append(groups[u], NewGroup(groupIndex, p))]
              /\ groupIndex' = groupIndex + 1
        /\ UNCHANGED <<building, started, memory, reported, written, request>>

\* A readable point joins the first group it fits, or begins a new one.  The names of a
\* device's points are different.
createPointGroup(p) ==
    LET u == unitOf[p.device]
        fitting == {i \in 1..Len(groups[u]) : Fits(groups[u][i], p)}
    IN  /\ ~started /\ building = p.device
        /\ \A q \in added : q.device = p.device => q.name # p.name
        /\ added' = added \cup {p}
        /\ \/ \E i \in fitting :
                /\ \A j \in fitting : i <= j
                /\ groups' = [groups EXCEPT ![u][i] = Joined(groups[u][i], p)]
                /\ UNCHANGED groupIndex
           \/ /\ fitting = {}
              /\ groups' = [groups EXCEPT ![u] = Append(groups[u], NewGroup(groupIndex, p))]
              /\ groupIndex' = groupIndex + 1
        /\ UNCHANGED <<building, started, memory, reported, written, request>>

\* A connection without points is dropped.
StartCollecting ==
    /\ ~started /\ added # {}
    /\ started' = TRUE
    /\ building' = NoDevice /\ groupIndex' = 0
    /\ UNCHANGED <<added, groups, memory, reported, written, request>>

-----------------------------------------------------------------------------
(* Reading *)

\* The registers from offset first + 1 to first + n of a sequence turned around in place.
ReverseIn(s, first, n) ==
    [i \in 1..Len(s) |-> IF i > first /\ i <= first + n THEN s[2 * first + n + 1 - i] ELSE s[i]]

Read(u, g) == [i \in 1..g.quantity |-> memory[u][g.table][g.address + i - 1]]

\* Slices of what was read that reach beyond it panic.
Spans(g) == \A k \in 1..Len(g.points) :
               /\ g.address <= g.points[k].address
               /\ g.points[k].address + g.points[k].quantity <= g.address + g.quantity

\* The values of the points of a group.  All slices share the array that was read, and
\* reverseUint16s works in place: a point sees what those before it have turned around.
Values(u, g) ==
    LET first(k) == g.points[k].address - g.address
        after[k \in 0..Len(g.points)] ==
            IF k = 0 THEN Read(u, g) ELSE ReverseIn(after[k - 1], first(k), g.points[k].quantity)
    IN  [k \in 1..Len(g.points) |->
            Decode(g.points[k], SubSeq(after[k], first(k) + 1, first(k) + g.points[k].quantity))]

\* What reading a group tells of its points.
Reports(u, g) == {<<g.points[k], Values(u, g)[k]>> : k \in 1..Len(g.points)}

\* sendReadCommand for groups of a unit, in turn.
sendReadCommand(u, is) ==
    LET reports == UNION {Reports(u, groups[u][is[n]]) : n \in 1..Len(is)}
    IN  /\ \A n \in 1..Len(is) : Spans(groups[u][is[n]])
        /\ reported' = [p \in Points |-> IF \E r \in reports : r[1] = p
                                         THEN (CHOOSE r \in reports : r[1] = p)[2]
                                         ELSE NoValue]

\* The collection reads one group.
Collect(u, i) ==
    /\ started
    /\ sendReadCommand(u, <<i>>)
    /\ request' = {}
    /\ UNCHANGED <<grouping, memory, written>>

Holding(u, n) == {i \in 1..Len(groups[u]) : \E k \in 1..Len(groups[u][i].points) : groups[u][i].points[k].name = n}
First(S) == CHOOSE i \in S : \A j \in S : i <= j

\* Mutant of GroupsOf: One group is enough.
GroupsOf_Mutant(d, names) ==
    IF Holding(unitOf[d], names[1]) = {} THEN <<>> ELSE <<First(Holding(unitOf[d], names[1]))>>

\* The groups that Encode finds for the names of a request: the first that has a point of that
\* name, whosever it is, unless one with the same index has been found before.
GroupsOf(d, names) ==
    LET u == unitOf[d]
        found[k \in 0..Len(names)] ==
            IF k = 0 THEN <<>>
            ELSE IF \/ Holding(u, names[k]) = {}
                    \/ \E n \in 1..Len(found[k - 1]) :
                          groups[u][found[k - 1][n]].index = groups[u][First(Holding(u, names[k]))].index
                 THEN found[k - 1]
                 ELSE Append(found[k - 1], First(Holding(u, names[k])))
    IN  found[Len(names)]

\* A caller reads points of a device.  A failed read ends the request.
ReadRequest(d, names) ==
    LET is == GroupsOf(d, names)
    IN  /\ started
        /\ \E n \in 0..Len(is) :
              /\ sendReadCommand(unitOf[d], SubSeq(is, 1, n))
              /\ request' = {p \in added : /\ p.device = d /\ n = Len(is)
                                           /\ \E k \in 1..Len(names) : p.name = names[k]}
        /\ UNCHANGED <<grouping, memory, written>>

-----------------------------------------------------------------------------
(* Writing *)

WriteValue(p) == [table |-> p.table, address |-> p.address, value |-> Encode(p, valueOf[p])]

\* Mutant of Mergeable: Registers between the two are overlooked.
Mergeable_Gap(w, v) ==
    /\ w.address + Len(w.value) <= v.address
    /\ Len(w.value) + Len(v.value) <= BatchWriteLen

\* May the second write be part of the first?
Mergeable(w, v) ==
    /\ w.address + Len(w.value) = v.address
    /\ Len(w.value) + Len(v.value) <= BatchWriteLen

\* The writes of values sorted by address: consecutive holding registers become one.
Merged(values) ==
    LET merged[k \in 0..Len(values)] ==
        IF k = 0 THEN [out |-> <<>>, pre |-> 0]
        ELSE LET m == merged[k - 1]
                 v == values[k]
             IN  IF v.table # "HOLDING_REGISTER" THEN [m EXCEPT !.out = Append(@, v)]
                 ELSE IF m.pre # 0 /\ Mergeable(m.out[m.pre], v)
                 THEN [m EXCEPT !.out[m.pre].value = @ \o v.value]
                 ELSE [out |-> Append(m.out, v), pre |-> Len(m.out) + 1]
    IN  merged[Len(values)].out

\* What a slave holds after those of the writes whose position is in ok.
Written(mem, writes, ok) ==
    LET after[k \in 0..Len(writes)] ==
        IF k = 0 THEN mem
        ELSE IF k \notin ok THEN after[k - 1]
        ELSE LET w == writes[k]
             IN  [after[k - 1] EXCEPT ![w.table] =
                    [a \in 0..(Space - 1) |->
                        IF a >= w.address /\ a < w.address + Len(w.value)
                        THEN w.value[a - w.address + 1] ELSE @[a]]]
    IN  after[Len(writes)]

Overlap(p, q) == /\ unitOf[p.device] = unitOf[q.device] /\ p.table = q.table
                 /\ p.address < q.address + q.quantity /\ q.address < p.address + p.quantity

\* The orders in which the values of a request may be sorted by address.
Sorted(S) == {f \in [1..Cardinality(S) -> S] :
                 \A i, j \in 1..Cardinality(S) : i < j => f[i] # f[j] /\ f[i].address <= f[j].address}

\* A caller writes points of a device.  A write of unit 0 counts as merged into another and is
\* left out.  All writes are tried; those in ok reach the slave, and the request fails if one did
\* not, or the answer to one was lost.
BatchWrite(d, S) ==
    LET u == unitOf[d]
    IN  /\ started
        /\ \E f \in Sorted(S) :
             LET writes == IF u = 0 THEN <<>> ELSE Merged([i \in 1..Len(f) |-> WriteValue(f[i])])
             IN  \E ok \in SUBSET (1..Len(writes)), failed \in BOOLEAN :
                   /\ ok # 1..Len(writes) => failed
                   /\ memory' = [memory EXCEPT ![u] = Written(@, writes, ok)]
                   /\ written' = {p \in written : \A q \in S : ~Overlap(p, q)} \cup
                                 {p \in S : ~failed /\ \A q \in S \ {p} : ~Overlap(p, q)}
        /\ reported' = [p \in Points |-> NoValue]
        /\ request' = {}
        /\ UNCHANGED grouping

Group == Cardinality(added) < MaxPoints /\ \E p \in Points : createPointGroup(p)

Next ==
    \/ \E d \in Device : BeginDevice(d)
    \/ Group
    \/ StartCollecting
    \/ \E u \in Unit : \E i \in 1..Len(groups[u]) : Collect(u, i)
    \/ \E p, q \in added : p.device = q.device /\ ReadRequest(p.device, <<p.name, q.name>>)
    \/ \E d \in Device : \E S \in SUBSET {p \in added : p.device = d /\ p.table \in Writable} :
          Cardinality(S) \in 1..MaxBatch /\ BatchWrite(d, S)

Spec == Init /\ [][Next]_vars

-----------------------------------------------------------------------------
(* Properties *)

GroupRec == [index : Nat, duration : Nat, table : Table, address : 0..(Space - 1),
             quantity : 1..Higher(BatchReadLen, 4), points : Seq(Points)]

\* Groups hold points, and their addresses and lengths are uint16: model.go:98-115.
TypeOK ==
    /\ building \in Device \cup {NoDevice} /\ groupIndex \in Nat
    /\ added \subseteq Points /\ written \subseteq added
    /\ groups \in [Unit -> Seq(GroupRec)]
    /\ started \in BOOLEAN
    /\ DOMAIN memory = Unit /\ DOMAIN reported = Points

AtTheTop(p) == p.address + p.quantity = Space

\* One of the points ends at the last address of the space, where End is 0, and another does not.
CrossesTheTop(g) == \E k, l \in 1..Len(g.points) : AtTheTop(g.points[k]) /\ ~AtTheTop(g.points[l])

\* A read covers every register of its points, and is no longer than the slave allows, unless a
\* single point is: slices of what was read never reach beyond it (createPointGroup,
\* connector.go:149-173).  Groups at the very end of the addresses are the exception.
GroupsSpanTheirPoints ==
    \A u \in Unit : \A i \in 1..Len(groups[u]) :
        LET g == groups[u][i]
        IN  \/ CrossesTheTop(g)
            \/ Spans(g) /\ (g.quantity <= BatchReadLen \/ Len(g.points) = 1)

\* Every point is collected, and none twice: each has one place in the groups of its unit
\* (connector.go:150-190).
EveryPointHasItsGroup ==
    /\ \A p \in added : \E i \in 1..Len(groups[unitOf[p.device]]) :
          \E k \in 1..Len(groups[unitOf[p.device]][i].points) : groups[unitOf[p.device]][i].points[k] = p
    /\ \A u \in Unit : \A i, j \in 1..Len(groups[u]) :
          \A k \in 1..Len(groups[u][i].points), l \in 1..Len(groups[u][j].points) :
             groups[u][i].points[k] = groups[u][j].points[l] => i = j /\ k = l

\* Every point is read once, by a read that covers it.
GroupsAreRight == GroupsSpanTheirPoints /\ EveryPointHasItsGroup

\* The words of a value as the registers have them: the last register first, or the last but one
\* in every pair, each with its bytes exchanged or not.
RegisterOf(p, i) == p.address + p.quantity -
    (IF p.wordSwap /\ p.quantity > 1 THEN (IF i % 2 = 1 THEN i + 1 ELSE i - 1) ELSE i)

Held(p) == [i \in 1..p.quantity |->
    LET w == memory[unitOf[p.device]][p.table][RegisterOf(p, i)]
    IN  IF p.byteSwap /\ p.table \in Registers THEN Swap(w) ELSE w]

\* What a report of the point can say of them: of an INT64 only its two low words.
Told(p) == IF p.narrow THEN Narrowed(Held(p)) ELSE Held(p)

\* Another point of several registers lies over the point.
Disturbed(p) == \E q \in added \ {p} : q.quantity > 1 /\ Overlap(p, q)

\* What is reported of a point is what its own registers hold, whatever group it is in and whatever
\* else was read with it (sendReadCommand, connector.go:276-334).  Points that share registers with
\* a value of several registers are the exception, and of an INT64 the low half is told.
ReportsWhatIsHeld ==
    \A p \in added : reported[p] # NoValue /\ ~Disturbed(p) => reported[p] = Told(p)

\* A write that was acknowledged can be read back as long as nothing else wrote its registers,
\* whatever it was merged with (batchWriteEncode, adapter.go:97-146).  The exceptions are unit 0 and
\* byteSwap in values of several registers.
WriteReadsBack ==
    \A p \in written : unitOf[p.device] # 0 /\ ~(p.byteSwap /\ p.quantity > 1) => Held(p) = valueOf[p]

\* A read request that was answered has read the points it named, as far as they are collected at
\* all (Encode, adapter.go:52-88), if no other device shares the unit.  (A request that meets a write
\* gives way to it and is answered without a reading: that is between goroutines.)
RequestsReadTheirPoints ==
    \A p \in request :
        (\A q \in added : unitOf[q.device] = unitOf[p.device] => q.device = p.device)
            => reported[p] # NoValue

\* What a read tells of a point is true, and a read request tells of all its points.
ReadsAreTrue == ReportsWhatIsHeld /\ RequestsReadTheirPoints
=============================================================================

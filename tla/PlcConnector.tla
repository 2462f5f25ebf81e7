--------------------------- MODULE PlcConnector ---------------------------
(***************************************************************************)
(* A connection to a controller of Siemens (plugins/s7/internal) or an     *)
(* OPC UA server (plugins/opcua/internal).  The two plugins are one        *)
(* program up to their client, kind says whose client it is.               *)
(*                                                                         *)
(* The points of all devices of a connection are held under their names    *)
(* alone.  A job reads all of them at once and exports them as a device    *)
(* named like the connection.  A command encodes, sends under the mutex,   *)
(* and releases the connection, which closes it.  Commands come from       *)
(* several goroutines at once.                                             *)
(*                                                                         *)
(* A node is a bit of an octet of the controller's memory; the other types *)
(* write whole octets and have no part of their own here.  A value is      *)
(* known by the node it was read from.  An interval between two runs of    *)
(* the job is arbitrary.                                                   *)
(***************************************************************************)
EXTENDS Naturals, Sequences, FiniteSets, FiniteSetsExt

CONSTANTS
    Connections, \* kind, enable, and the points in the order of models and devices
    Octets,      \* the octets of the controller's memory
    Width,       \* bits of an octet (8)
    Caller,      \* the goroutines that send commands
    MaxMoves     \* bound: commands, and changes the controller makes by itself

Bits == 0 .. Width - 1

VARIABLES
    conn,     \* the configured connection
    nodes,    \* its nodes by the names of the points
    pool,     \* the connection: "new", "pool", "lost" (connected, and in no pool)
    deleted,  \* what Initialize has deleted of the configuration
    close,    \* the flag of Close, set by Release as well
    owner,    \* who holds the mutex: "none", "job" or a caller
    job,      \* collectData: "idle", "lock", "read"
    report,   \* what was exported last: for each point, the node whose value it was
    caller,   \* the command of each caller: where it is, its writes, the octet it has read
    memory,   \* the bits that are set in each octet
    raced,    \* the controller itself has written the octet since the caller read it
    moves, alive

plcVars == <<conn, nodes, pool, deleted, close, owner, job, report, caller, memory, raced, moves, alive>>
setup == <<conn, nodes, pool, deleted>>
collecting == <<job, report>>
commanding == <<caller, memory, raced, moves>>

NoCaller == [pc |-> "idle", writes |-> <<>>, buffer |-> {}]

Init ==
    /\ conn \in Connections /\ nodes = <<>> /\ pool = "new" /\ deleted = {}
    /\ close = FALSE /\ owner = "none" /\ job = "idle" /\ report = <<>>
    /\ caller = [c \in Caller |-> NoCaller] /\ memory \in [Octets -> {{}, Bits}]
    /\ raced = [c \in Caller |-> FALSE] /\ moves = 0 /\ alive = TRUE

----------------------------------------------------------------------------
(***************************************************************************)
(* Initialize                                                              *)
(***************************************************************************)

\* createNodeGroups: the last configured point of a name has it; one without an address is left out.
Nodes(points) ==
    LET named == {i \in DOMAIN points : points[i].address}
    IN [name \in {points[i].name : i \in named} |-> points[Max({i \in named : points[i].name = name})]]

\* A connection that is refused ends the process: newConnector returns nothing, and the error
\* is looked at after the connection's key was set.
Refused ==
    /\ alive /\ pool = "new"
    /\ alive' = FALSE
    /\ UNCHANGED <<setup, close, owner, collecting, commanding>>

\* Without a node, or when it is not enabled, a connection that was made is in no pool.
InitConnection ==
    /\ alive /\ pool = "new"
    /\ nodes' = Nodes(conn.points)
    /\ deleted' = (IF conn.idleModel THEN {"model"} ELSE {})
                      \union (IF nodes' = <<>> THEN {"connection"} ELSE {})
    /\ pool' = IF nodes' # <<>> /\ conn.enable THEN "pool" ELSE "lost"
    /\ UNCHANGED <<conn, close, owner, collecting, commanding, alive>>

\* A loop over a sequence that leaves out what is not in keep.
Kept(s, keep) ==
    LET kept[n \in 0 .. Len(s)] ==
            IF n = 0 THEN <<>> ELSE IF s[n] \in keep THEN Append(kept[n - 1], s[n]) ELSE kept[n - 1]
    IN  kept[Len(s)]

----------------------------------------------------------------------------
(***************************************************************************)
(* The clients                                                             *)
(***************************************************************************)

\* The nodes of an order whose ids can be parsed.
Parsed(order) == Kept(order, {n \in Range(order) : n.known})

\* The S7 client reads one node after the other, and leaves out those it cannot read.
ReadS7(order, failing) ==
    [name \in {order[i].name : i \in {j \in DOMAIN order : order[j].known /\ order[j] \notin failing}} |->
        (CHOOSE n \in {order[i] : i \in DOMAIN order} : n.name = name).node]

\* The OPC UA client leaves out node ids that cannot be parsed, reads the others at once, and
\* holds the i-th answer for the answer to the i-th of all node ids.
ReadOpcua_Compact(order, failing) ==
    LET asked == Parsed(order)
        good == SelectSeq(asked, LAMBDA n : n \notin failing)
    IN [id \in {order[i].node : i \in DOMAIN good} |->
           good[CHOOSE i \in DOMAIN good : order[i].node = id].node]

ReadOpcua(order, failing) ==
    LET asked == Parsed(order)
        good == {i \in DOMAIN asked : asked[i] \notin failing}
        last(id) == CHOOSE i \in good : order[i].node = id /\ \A j \in good : order[j].node = id => j <= i
    IN [id \in {order[i].node : i \in good} |-> asked[last(id)].node]

\* What processReadValues finds for the points in the answer.
Report(order, failing) ==
    LET values == IF conn.kind = "s7" THEN ReadS7(order, failing) ELSE ReadOpcua(order, failing)
        key(name) == IF conn.kind = "s7" THEN <<"name", name>> ELSE <<"id", nodes[name].node>>
        found == {<<IF conn.kind = "s7" THEN "name" ELSE "id", k>> : k \in DOMAIN values}
    IN [name \in {n \in DOMAIN nodes : key(n) \in found} |-> values[key(name)[2]]]

----------------------------------------------------------------------------
(***************************************************************************)
(* collectData                                                             *)
(***************************************************************************)
Tick ==
    /\ alive /\ pool = "pool" /\ job = "idle" /\ ~close
    /\ job' = "lock"
    /\ UNCHANGED <<setup, close, owner, report, commanding, alive>>

Lock ==
    /\ alive /\ job = "lock" /\ owner = "none"
    /\ owner' = "job" /\ job' = "read"
    /\ UNCHANGED <<setup, close, report, commanding, alive>>

\* All nodes in the order of the map, some of which fail; or an error, and no report.
Collect ==
    /\ alive /\ job = "read"
    /\ \/ UNCHANGED report
       \/ \E order \in Bijection(1 .. Cardinality(Range(nodes)), Range(nodes)) :
             \E failing \in SUBSET Range(nodes) :
                LET r == Report(order, failing) IN report' = IF r = <<>> THEN report ELSE r
    /\ job' = "idle" /\ owner' = "none"
    /\ UNCHANGED <<setup, close, commanding, alive>>

----------------------------------------------------------------------------
(***************************************************************************)
(* Commands                                                                *)
(***************************************************************************)

\* Encode of a write: the values whose points have a node that may be written; perhaps none.
Encode(values) ==
    Kept(values, {v \in Range(values) : v.name \in DOMAIN nodes /\ nodes[v.name].writeable})

At(c, pc) == alive /\ caller[c].pc = pc
Become(c, command) == caller' = [caller EXCEPT ![c] = command]

\* A command for a device of the connection; a read command asks, and drops the answer.
Command(c) ==
    /\ At(c, "idle") /\ pool = "pool" /\ moves < MaxMoves
    /\ moves' = moves + 1
    /\ \E name \in {conn.points[i].name : i \in DOMAIN conn.points}, on \in BOOLEAN :
          Become(c, [NoCaller EXCEPT !.pc = "send", !.writes = Encode(<<[name |-> name, on |-> on]>>)])
    /\ UNCHANGED <<setup, close, owner, collecting, memory, raced, alive>>

\* Mutant of SendLock: the mutex is not waited for.
SendLock_Mutant(c) ==
    /\ At(c, "send")
    /\ owner' = c /\ Become(c, [caller[c] EXCEPT !.pc = "read"])
    /\ UNCHANGED <<setup, close, collecting, memory, raced, moves, alive>>

SendLock(c) ==
    /\ At(c, "send") /\ owner = "none"
    /\ owner' = c /\ Become(c, [caller[c] EXCEPT !.pc = "read"])
    /\ UNCHANGED <<setup, close, collecting, memory, raced, moves, alive>>

Target(c) == nodes[Head(caller[c].writes).name]

\* writeBool reads the octet of the bit first.  A node of another type or area fails, and its
\* error is logged.
ReadBytes(c) ==
    /\ At(c, "read") /\ caller[c].writes # <<>>
    /\ \/ /\ Target(c).known
          /\ Become(c, [caller[c] EXCEPT !.pc = "write", !.buffer = memory[Target(c).node[1]]])
       \/ Become(c, [caller[c] EXCEPT !.writes = Tail(@)])
    /\ raced' = [raced EXCEPT ![c] = FALSE]
    /\ UNCHANGED <<setup, close, owner, collecting, memory, moves, alive>>

\* A bit beyond the octet is shifted out.
Mask(c) == {Target(c).node[2]} \intersect Bits

\* Mutant of WriteBytes: the octet goes back with the bit alone.
WriteBytes_Stale(c) ==
    /\ At(c, "write")
    /\ memory' = [memory EXCEPT ![Target(c).node[1]] = IF Head(caller[c].writes).on THEN Mask(c) ELSE {}]
    /\ Become(c, [caller[c] EXCEPT !.pc = "read", !.writes = Tail(@)])
    /\ UNCHANGED <<setup, close, owner, collecting, raced, moves, alive>>

\* The octet goes back with the bit of the value.  An OPC UA server writes the node alone.
WriteBytes(c) ==
    /\ At(c, "write")
    /\ LET old == IF conn.kind = "s7" THEN caller[c].buffer ELSE memory[Target(c).node[1]]
       IN memory' \in {memory, [memory EXCEPT ![Target(c).node[1]] =
                                   IF Head(caller[c].writes).on THEN old \union Mask(c) ELSE old \ Mask(c)]}
    /\ Become(c, [caller[c] EXCEPT !.pc = "read", !.writes = Tail(@)])
    /\ UNCHANGED <<setup, close, owner, collecting, raced, moves, alive>>

SendEnd(c) ==
    /\ At(c, "read") /\ caller[c].writes = <<>>
    /\ owner' = "none" /\ Become(c, [caller[c] EXCEPT !.pc = "release"])
    /\ UNCHANGED <<setup, close, collecting, memory, raced, moves, alive>>

\* Release is Close: the flag, and the client's connection.
Release(c) ==
    /\ At(c, "release") /\ owner = "none"
    /\ close' = TRUE /\ Become(c, NoCaller)
    /\ UNCHANGED <<setup, owner, collecting, memory, raced, moves, alive>>

\* Destroy closes what is in the pool; the job goes on ticking, and returns at once.
Destroy ==
    /\ alive /\ pool = "pool" /\ owner = "none" /\ ~close
    /\ close' = TRUE
    /\ UNCHANGED <<setup, owner, collecting, commanding, alive>>

\* The controller's own program writes an octet.
Controller ==
    /\ alive /\ moves < MaxMoves /\ moves' = moves + 1
    /\ \E o \in Octets, b \in Bits :
          /\ memory' = [memory EXCEPT ![o] = IF b \in @ THEN @ \ {b} ELSE @ \union {b}]
          /\ raced' = [c \in Caller |-> raced[c] \/ (caller[c].pc = "write" /\ o = Target(c).node[1])]
    /\ UNCHANGED <<setup, close, owner, collecting, caller, alive>>

----------------------------------------------------------------------------
Next ==
    \/ Refused \/ InitConnection
    \/ Tick \/ Lock \/ Collect
    \/ \E c \in Caller :
          Command(c) \/ SendLock(c) \/ ReadBytes(c) \/ WriteBytes(c) \/ SendEnd(c) \/ Release(c)
    \/ Destroy \/ Controller

Spec == Init /\ [][Next]_plcVars

----------------------------------------------------------------------------
\* What is exported under a point's name was read from the node of that point, however the map
\* is ordered and whatever nodes fail; unless it is OPC UA and some node id cannot be parsed,
\* which shifts the answers of all that follow it (ReadNodes, processReadValues).
ReportsAreOfTheirNode ==
    (conn.kind = "s7" \/ \A n \in DOMAIN nodes : nodes[n].known)
        => \A name \in DOMAIN report : name \in DOMAIN nodes /\ report[name] = nodes[name].node

\* Writing a bit leaves the other bits of its octet as they are, and so what other commands have
\* written there, unless the controller itself writes the octet between the client's read and its
\* write (Send, writeBool).
BitsKeepNeighbours ==
    [][\A c \in Caller : caller[c].pc = "write" /\ caller'[c].pc = "read" /\ ~raced[c] =>
          \A o \in Octets, b \in Bits :
             <<o, b>> # Target(c).node => ((b \in memory'[o]) <=> (b \in memory[o]))]_plcVars
=============================================================================

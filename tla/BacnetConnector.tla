-------------------------- MODULE BacnetConnector --------------------------
(***************************************************************************)
(* A BACnet connection (plugins/bacnet/internal: plugin.go, connector.go,  *)
(* adapter.go, with bacnet/network: device.go, read.go, write.go).         *)
(*                                                                         *)
(* At the start the readable points of the model devices are arranged,     *)
(* under the BACnet device they live on, in groups of one period with few  *)
(* enough objects for one request.  A job of one second then reads every   *)
(* group that is due.  Commands come from other goroutines: each value may *)
(* first write other points, then the whole batch is written.  Close runs  *)
(* beside both.                                                            *)
(*                                                                         *)
(* Time: a group that was read becomes due again at some moment.  Values,  *)
(* priorities and addresses are left out.  A decoded value is never        *)
(* exported: Decode asserts a string where Send hands it octets, so that   *)
(* the first good value of any object ends the process.                    *)
(***************************************************************************)
EXTENDS Naturals, Integers, Sequences, SequencesExt

CONSTANTS
    Configs,     \* sequences of configured points
    Batches,     \* commands: the BACnet device, and its values
    GroupSize,   \* objects of a group (15 in the code)
    MaxCommands  \* bound: commands

VARIABLES
    config,   \* the points of the connection, in the order of the models and devices
    virtual,  \* the connection is simulated
    stage,    \* "new", "init", "run", or "none": the connection was never made
    todo,     \* the points that are not arranged yet
    devices,  \* the groups of each BACnet device
    due,      \* the groups whose period is over
    job,      \* the collection job: where it is
    close,    \* the flag of Close
    closing,  \* what Close has done: "no", "flag", "task" (disabled), "net" (closed)
    late,     \* reads begun after the flag was set
    cmd,      \* the command at work
    wire,     \* its writes, in the order they were sent
    commands, \* commands so far
    alive     \* the process has not ended

bacnetVars == <<config, virtual, stage, todo, devices, due, job, close, closing, late, cmd, wire, commands, alive>>

setup == <<config, virtual, stage, todo, devices>>
ending == <<close, closing>>
reading == <<due, job, late>>
writing == <<cmd, wire, commands>>

ValidTypes == {"analog", "binary", "multi", "large"}

\* A missing or bad period is a second.
DurationOf(p) == IF p.dur < 1 THEN 1 ELSE p.dur

Wanted(p) == p.read /\ p.type \in ValidTypes

NoCommand == [pc |-> "idle", id |-> 0, batch |-> <<>>, i |-> 1, k |-> 1]
NoJob == [pc |-> "idle", left |-> {}, id |-> 0, g |-> 1]

Init ==
    /\ config \in Configs /\ virtual \in BOOLEAN
    /\ stage = "new" /\ todo = config /\ devices = <<>> /\ due = {}
    /\ job = NoJob /\ close = FALSE /\ closing = "no" /\ late = 0
    /\ cmd = NoCommand /\ wire = <<>> /\ commands = 0
    /\ alive = TRUE

----------------------------------------------------------------------------
(***************************************************************************)
(* The start                                                               *)
(***************************************************************************)

\* The connections are made in no order, and none any more after one has failed.
InitConnector ==
    /\ stage = "new"
    /\ stage' \in {"init", "none"}
    /\ UNCHANGED <<config, virtual, todo, devices, ending, reading, writing, alive>>

GroupsOf(id) == IF id \in DOMAIN devices THEN devices[id] ELSE <<>>

Object(p) == [type |-> p.type, inst |-> p.inst, points |-> [d \in {p.dev} |-> p.name]]

SameInstance(group, p) == {n \in DOMAIN group.objs : group.objs[n].inst = p.inst}

\* A group takes a point when it has the object's instance already, or has room.
Takes_NoPeriod(group, p) == SameInstance(group, p) # {} \/ Len(group.objs) < GroupSize
Takes(group, p) ==
    group.dur = DurationOf(p) /\ (SameInstance(group, p) # {} \/ Len(group.objs) < GroupSize)

\* Another type on the instance drops the point; the same type adds it under its device's name,
\* in the place of an earlier point of that device.
Join(object, p) ==
    IF object.type # p.type THEN object
    ELSE [object EXCEPT !.points = [d \in DOMAIN @ \union {p.dev} |-> IF d = p.dev THEN p.name ELSE @[d]]]

Place(groups, p) ==
    LET takers == {g \in DOMAIN groups : Takes(groups[g], p)}
    IN IF takers = {} THEN Append(groups, [dur |-> DurationOf(p), objs |-> <<Object(p)>>])
       ELSE LET g == Min(takers)
                same == SameInstance(groups[g], p)
            IN IF same = {} THEN [groups EXCEPT ![g].objs = Append(@, Object(p))]
               ELSE [groups EXCEPT ![g].objs[Min(same)] = Join(@, p)]

\* One point of initCollectTask.  A device whose address is wrong is not created, and used all
\* the same.
AddPoint ==
    /\ stage = "init" /\ todo # <<>> /\ alive
    /\ todo' = Tail(todo)
    /\ LET p == Head(todo)
           known == p.id \in DOMAIN devices \/ p.addr
       IN /\ alive' = (Wanted(p) => known)
          /\ devices' = IF Wanted(p) /\ known
                        THEN [id \in DOMAIN devices \union {p.id} |->
                                 IF id = p.id THEN Place(GroupsOf(id), p) ELSE devices[id]]
                        ELSE devices
    /\ UNCHANGED <<config, virtual, stage, ending, reading, writing>>

StartTask ==
    /\ stage = "init" /\ todo = <<>> /\ alive
    /\ stage' = "run"
    /\ due' = UNION {{<<id, g>> : g \in DOMAIN devices[id]} : id \in DOMAIN devices}
    /\ UNCHANGED <<config, virtual, todo, devices, ending, job, late, writing, alive>>

----------------------------------------------------------------------------
(***************************************************************************)
(* The collection job                                                      *)
(***************************************************************************)
Running == stage = "run" /\ alive

JobBegin ==
    /\ Running /\ job.pc = "idle" /\ closing \in {"no", "flag"}
    /\ job' = [NoJob EXCEPT !.pc = "walk", !.left = DOMAIN devices]
    /\ UNCHANGED <<setup, ending, due, late, writing, alive>>

NextDevice ==
    /\ Running /\ job.pc = "walk" /\ job.left # {}
    /\ \E id \in job.left : job' = [pc |-> "groups", left |-> job.left \ {id}, id |-> id, g |-> 1]
    /\ UNCHANGED <<setup, ending, due, late, writing, alive>>

\* The next group of the device that is due; none, or the flag of Close, ends the device.
NextGroup_Blind ==
    /\ Running /\ job.pc = "groups"
    /\ LET open == {g \in DOMAIN devices[job.id] : g >= job.g /\ <<job.id, g>> \in due}
       IN IF open = {} THEN job' = [job EXCEPT !.pc = "walk"] /\ UNCHANGED late
          ELSE job' = [job EXCEPT !.pc = "ask", !.g = Min(open)]
    /\ UNCHANGED <<setup, ending, due, late, writing, alive>>

NextGroup ==
    /\ Running /\ job.pc = "groups"
    /\ LET open == {g \in DOMAIN devices[job.id] : g >= job.g /\ <<job.id, g>> \in due}
       IN IF close \/ open = {} THEN job' = [job EXCEPT !.pc = "walk"]
          ELSE job' = [job EXCEPT !.pc = "ask", !.g = Min(open)]
    /\ UNCHANGED <<setup, ending, due, late, writing, alive>>

\* The read of a group, and its answer: an error, objects of which none has a value to report,
\* or some with one, the first of which ends the process.  After an error the model devices of
\* the group may be offline.  The group waits for its next period in any case.
Answer_NoTime ==
    /\ Running /\ job.pc = "ask"
    /\ \/ due' = due \ {<<job.id, job.g>>} /\ alive' = TRUE
       \/ ~virtual /\ closing # "net" /\ UNCHANGED due /\ alive' \in BOOLEAN
    /\ job' = [job EXCEPT !.pc = "groups", !.g = @ + 1]
    /\ late' = IF close THEN late + 1 ELSE late
    /\ UNCHANGED <<setup, ending, writing>>

Answer ==
    /\ Running /\ job.pc = "ask"
    /\ \E answer \in IF virtual \/ closing = "net" THEN {"error"} ELSE {"error", "abnormal", "good"} :
          alive' = (answer # "good")
    /\ due' = due \ {<<job.id, job.g>>}
    /\ job' = [job EXCEPT !.pc = "groups", !.g = @ + 1]
    /\ late' = IF close THEN late + 1 ELSE late
    /\ UNCHANGED <<setup, ending, writing>>

JobEnd ==
    /\ Running /\ job.pc = "walk" /\ job.left = {}
    /\ job' = NoJob
    /\ UNCHANGED <<setup, ending, due, late, writing, alive>>

\* The period of a group is over.
Pass ==
    /\ Running
    /\ \E id \in DOMAIN devices : \E g \in DOMAIN devices[id] : due' = due \union {<<id, g>>}
    /\ UNCHANGED <<setup, ending, job, late, writing, alive>>

----------------------------------------------------------------------------
(***************************************************************************)
(* Commands                                                                *)
(***************************************************************************)

\* A batch whose device and connection exist reaches Encode.
Command ==
    /\ Running /\ cmd.pc \in {"idle", "ok", "error"} /\ commands < MaxCommands
    /\ \E b \in Batches : cmd' = [NoCommand EXCEPT !.pc = "encode", !.id = b.id, !.batch = b.values]
    /\ wire' = <<>> /\ commands' = commands + 1
    /\ UNCHANGED <<setup, ending, reading, alive>>

Value == cmd.batch[cmd.i]

\* What Send does with a write: nothing without the device, nothing in a simulation, and no
\* more than a line in the log when the device refuses it.
Written(w) == IF cmd.id \in DOMAIN devices /\ ~virtual THEN <<w>> ELSE <<>>

\* The next of the points to write before the value: a command of its own, which ends the
\* batch when it cannot be encoded.
PreOp ==
    /\ Running /\ cmd.pc = "encode" /\ cmd.i <= Len(cmd.batch) /\ cmd.k <= Len(Value.pre)
    /\ IF Value.pre[cmd.k]
       THEN cmd' = [cmd EXCEPT !.k = @ + 1] /\ wire' = wire \o Written(<<cmd.i, cmd.k>>)
       ELSE cmd' = [cmd EXCEPT !.pc = "error"] /\ UNCHANGED wire
    /\ UNCHANGED <<setup, ending, reading, commands, alive>>

\* transformData: a value that does not fit its type, or a point that is not there, ends the
\* batch; nothing of it has been written, but what its values asked to write before them.
Transform_Skip ==
    /\ Running /\ cmd.pc = "encode" /\ cmd.i <= Len(cmd.batch) /\ cmd.k > Len(Value.pre)
    /\ cmd' = IF Value.fits THEN [cmd EXCEPT !.i = @ + 1, !.k = 1]
              ELSE [cmd EXCEPT !.batch = SubSeq(@, 1, cmd.i - 1) \o SubSeq(@, cmd.i + 1, Len(@)), !.k = 1]
    /\ UNCHANGED <<setup, ending, reading, wire, commands, alive>>

Transform ==
    /\ Running /\ cmd.pc = "encode" /\ cmd.i <= Len(cmd.batch) /\ cmd.k > Len(Value.pre)
    /\ cmd' = IF Value.fits THEN [cmd EXCEPT !.i = @ + 1, !.k = 1] ELSE [cmd EXCEPT !.pc = "error"]
    /\ UNCHANGED <<setup, ending, reading, wire, commands, alive>>

Encoded ==
    /\ Running /\ cmd.pc = "encode" /\ cmd.i > Len(cmd.batch)
    /\ cmd' = [cmd EXCEPT !.pc = "send", !.i = 1]
    /\ UNCHANGED <<setup, ending, reading, wire, commands, alive>>

\* One write of the batch, or its end: the command is answered without an error.
Send ==
    /\ Running /\ cmd.pc = "send"
    /\ IF cmd.i > Len(cmd.batch) THEN cmd' = [cmd EXCEPT !.pc = "ok"] /\ UNCHANGED wire
       ELSE cmd' = [cmd EXCEPT !.i = @ + 1] /\ wire' = wire \o Written(<<cmd.i, 0>>)
    /\ UNCHANGED <<setup, ending, reading, commands, alive>>

----------------------------------------------------------------------------
(***************************************************************************)
(* Close                                                                   *)
(***************************************************************************)
Close ==
    /\ Running
    /\ \/ closing = "no" /\ closing' = "flag" /\ close' = TRUE
       \/ closing = "flag" /\ closing' = "task" /\ UNCHANGED close
       \/ closing = "task" /\ closing' = "net" /\ UNCHANGED close
    /\ UNCHANGED <<setup, reading, writing, alive>>

----------------------------------------------------------------------------
JobStep == JobBegin \/ NextDevice \/ NextGroup \/ Answer \/ JobEnd

Next ==
    \/ InitConnector \/ AddPoint \/ StartTask
    \/ JobBegin \/ NextDevice \/ NextGroup \/ Answer \/ JobEnd \/ Pass
    \/ Command \/ PreOp \/ Transform \/ Encoded \/ Send
    \/ Close

\* The ticker goes on firing, the job's goroutine goes on, and a request is answered or given up.
JobFairness == WF_bacnetVars(JobStep)

Spec == Init /\ [][Next]_bacnetVars /\ JobFairness

----------------------------------------------------------------------------
(***************************************************************************)
(* Properties                                                              *)
(***************************************************************************)
Elements(s) == {s[n] : n \in DOMAIN s}

\* Where a point is read: its device's groups and objects that list it.
ListedAt(p, g, n) ==
    /\ g \in DOMAIN GroupsOf(p.id) /\ n \in DOMAIN GroupsOf(p.id)[g].objs
    /\ LET o == GroupsOf(p.id)[g].objs[n]
       IN p.dev \in DOMAIN o.points /\ o.points[p.dev] = p.name /\ o.inst = p.inst

PlacesOf(p) == {place \in (1 .. Len(config)) \X (1 .. GroupSize) : ListedAt(p, place[1], place[2])}

\* Another point takes the place of p: on its object and period, of another type or of the
\* same model device.
Rival(p, q) == /\ q # p /\ Wanted(q) /\ q.id = p.id /\ q.inst = p.inst /\ DurationOf(q) = DurationOf(p)
               /\ (q.type # p.type \/ q.dev = p.dev)

\* Every readable point is read once a period, with the type and period of its configuration,
\* unless another point of the configuration takes its place; no request holds more objects
\* than the limit, and no two requests of one period hold an instance twice (initCollectTask).
GroupsHoldPoints ==
    stage = "run" =>
      /\ \A p \in Elements(config) :
            Wanted(p) => \/ \E place \in PlacesOf(p) : PlacesOf(p) = {place}
                         \/ PlacesOf(p) = {} /\ \E q \in Elements(config) : Rival(p, q)
      /\ \A id \in DOMAIN devices : \A g \in DOMAIN devices[id] :
            /\ Len(devices[id][g].objs) \in 1 .. GroupSize
            /\ \A n \in DOMAIN devices[id][g].objs :
                  LET o == devices[id][g].objs[n]
                  IN /\ \A d \in DOMAIN o.points : \E p \in Elements(config) :
                           /\ Wanted(p) /\ p.id = id /\ p.dev = d /\ p.name = o.points[d]
                           /\ p.type = o.type /\ p.inst = o.inst /\ DurationOf(p) = devices[id][g].dur
                     /\ \A h \in DOMAIN devices[id] : \A m \in DOMAIN devices[id][h].objs :
                           devices[id][h].dur = devices[id][g].dur /\ devices[id][h].objs[m].inst = o.inst
                               => <<h, m>> = <<g, n>>

\* The writes of a command: what each value asks for (from 1), and the value itself (0).
Writes == UNION {{<<i, k>> : k \in 0 .. Len(cmd.batch[i].pre)} : i \in DOMAIN cmd.batch}

\* What the values ask for comes first, then the values, each in the batch's order.
Precedes(v, w) ==
    \/ v[2] # 0 /\ w[2] = 0
    \/ (v[2] = 0 <=> w[2] = 0) /\ (v[1] < w[1] \/ (v[1] = w[1] /\ v[2] < w[2]))

InOrder(writes) == \A m, n \in DOMAIN writes : m < n => Precedes(writes[m], writes[n])

\* A command that is answered without an error was one whose values all fit, and was written
\* whole and in order, unless its device has no readable point or the connection is simulated;
\* one that is answered with an error has written none of its values (Encode, Send).
BatchIsWhole ==
    /\ cmd.pc = "ok" => /\ \E b \in Batches : b.id = cmd.id /\ b.values = cmd.batch
                        /\ \A v \in Elements(cmd.batch) : v.fits /\ \A k \in DOMAIN v.pre : v.pre[k]
                        /\ Elements(wire) = IF cmd.id \in DOMAIN devices /\ ~virtual THEN Writes ELSE {}
                        /\ InOrder(wire)
    /\ cmd.pc = "error" => \A n \in DOMAIN wire : wire[n][2] # 0

\* A closed connection finishes the read it is at, and begins no other (collect task, Close).
OneReadAfterClose == late <= 1

\* A group whose period is over is read, unless the connection is closed or the process ends
\* (collect task): a device that fails does not keep the job from the others.
CollectionGoesOn ==
    \A id \in {b.id : b \in Batches}, g \in 1 .. 2 :
        (<<id, g>> \in due) ~> (<<id, g>> \notin due \/ close \/ ~alive)
=============================================================================

----------------------------- MODULE PointPath -----------------------------
(***************************************************************************)
(* The way of a value between callers, a device, its shadow and the        *)
(* exports: SendSinglePoint, SendBatchWrite, SendBatchRead and the         *)
(* verification of a write (internal/core), and Export with its filter     *)
(* (driverbox/export.go), which every plugin calls with what it has read.  *)
(*                                                                         *)
(* One device.  Callers, the verification each write starts and the        *)
(* plugin's periodic collection are processes; so is every export, which   *)
(* runs in the goroutine of whoever reads.  Values are integers: a scaled  *)
(* point is engineering value = raw value * Factor.  What the shadow does  *)
(* with its time to live and its failure counter is in DeviceShadow: here  *)
(* a failure, or silence, may take the device offline.                     *)
(***************************************************************************)
EXTENDS Naturals, FiniteSets

CONSTANTS
    Point,        \* the points of the device's model
    RawValue,     \* the values the device can hold
    Scaled,       \* points with a scale
    Factor,       \* the scale
    ReadOnly,     \* points with readWrite R
    WriteOnly,    \* points with readWrite W
    OnChange,     \* points with reportMode change
    Caller,       \* those who send requests, one at a time each
    Collector,    \* the plugin's collection task
    MaxTries,     \* reads a verification makes at most: 10 in the code
    MaxAsks,      \* bound: requests made in a behaviour
    MaxChanges,   \* bound: changes of the device that nobody asked for
    NoValue       \* nil

ASSUME ValuesAssumption == RawValue \subseteq Nat /\ Factor \in Nat \ {0} /\ NoValue \notin Nat
ASSUME PointsAssumption == /\ Scaled \subseteq Point /\ OnChange \subseteq Point
                           /\ ReadOnly \subseteq Point /\ WriteOnly \subseteq Point
                           /\ ReadOnly \cap WriteOnly = {}
ASSUME ProcessesAssumption == Collector \notin Caller
ASSUME BoundsAssumption == MaxTries \in Nat \ {0} /\ MaxAsks \in Nat /\ MaxChanges \in Nat

VARIABLES
    driven,       \* does a script of the library encode and decode the device's values?
    device,       \* what the device holds, point by point
    shadow,       \* DevicePoint.Value
    writeValue,   \* DevicePoint.WriteValue
    online,       \* the shadow's status of the device
    told,         \* what the exports last heard of a point
    request,      \* the request each caller has under way
    verify,       \* the verification of the caller's last write
    export,       \* the export under way in a process
    asks, changes,  \* counted for the bounds
    misled,       \* history: exports of the point overlapped, or exported without the shadow
    disturbed     \* history: writes of the point overlapped, failed, or the device changed itself

vars == <<driven, device, shadow, writeValue, online, told, request, verify, export,
          asks, changes, misled, disturbed>>

Worker   == Caller \cup {Collector}
Readable == Point \ WriteOnly

\* Conversions between what callers and exports see and what the device holds: division and
\* multiplication by the scale, in Go or in the device's script.
ToRaw(p, v) == IF p \in Scaled THEN v \div Factor ELSE v
ToEng(p, r) == IF p \in Scaled THEN r * Factor ELSE r

PointValue == {ToEng(p, r) : p \in Point, r \in RawValue}
Maybe(S)   == S \cup {NoValue}
Nothing    == [p \in Point |-> NoValue]

\* The points a function on points has a value for.
Given(f) == {p \in Point : f[p] # NoValue}

NoRequest == [kind |-> "none", points |-> {}, want |-> Nothing]
NoVerify  == [stage |-> "none", want |-> Nothing, tries |-> 0, stale |-> {}]
NoExport  == [stage |-> "idle", data |-> Nothing, left |-> {}, now |-> {}, out |-> {}]

Init ==
    /\ driven \in BOOLEAN
    /\ device \in [Point -> RawValue]
    /\ shadow = Nothing /\ writeValue = Nothing /\ told = Nothing
    /\ online = FALSE
    /\ request = [c \in Caller |-> NoRequest]
    /\ verify  = [c \in Caller |-> NoVerify]
    /\ export  = [w \in Worker |-> NoExport]
    /\ asks = 0 /\ changes = 0
    /\ misled = [p \in Point |-> FALSE] /\ disturbed = [p \in Point |-> FALSE]

-----------------------------------------------------------------------------
(* Requests *)

Writing(c) == request[c].kind \in {"write", "batch"}

\* Somebody else is writing the point.
Contended(c, p) == \E d \in Caller \ {c} : Writing(d) /\ p \in request[d].points

\* A caller is free when its last request and what it started are over (a bound: in the
\* code a caller may write again while its own verification runs).
Free(c) == request[c] = NoRequest /\ verify[c] = NoVerify /\ export[c] = NoExport

\* Mutant of Record: The values are divided by the scale before they are recorded in the shadow.
Record_Mutant(points, want) ==
    /\ writeValue' = [p \in Point |-> IF p \notin points THEN writeValue[p]
                                      ELSE IF want[p] = NoValue THEN NoValue ELSE ToRaw(p, want[p])]
    /\ UNCHANGED verify

\* SetWritePointValue for every point of the request.  Verifications of these points that
\* have begun will find WriteAt after their checkTime.
Record(points, want) ==
    /\ writeValue' = [p \in Point |-> IF p \in points THEN want[p] ELSE writeValue[p]]
    /\ verify' = [d \in Caller |->
           IF verify[d].stage = "running"
           THEN [verify[d] EXCEPT !.stale = @ \cup (points \cap Given(verify[d].want))]
           ELSE verify[d]]

\* Callers pass engineering values that the device can hold.
Wanted(points, raw) == [p \in Point |-> IF p \in points THEN ToEng(p, raw[p]) ELSE NoValue]

\* SendSinglePoint and SendBatchWrite record the request in the shadow before anything else.
AskWrite(c) ==
    /\ Free(c) /\ asks < MaxAsks
    /\ \E kind \in {"write", "batch"}, points \in (SUBSET Point) \ {{}} :
       \E raw \in [points -> RawValue] :
          /\ kind = "write" => Cardinality(points) = 1
          /\ request' = [request EXCEPT ![c] =
                 [kind |-> kind, points |-> points, want |-> Wanted(points, raw)]]
          /\ Record(points, Wanted(points, raw))
          /\ disturbed' = [p \in Point |-> IF p \in points THEN Contended(c, p) ELSE disturbed[p]]
    /\ asks' = asks + 1
    /\ UNCHANGED <<driven, device, shadow, online, told, export, changes, misled>>

\* SendSinglePoint does so for a read as well, with the nil that ReadPoint passes.
AskRead(c) ==
    /\ Free(c) /\ asks < MaxAsks
    /\ \E p \in Point :
          /\ request' = [request EXCEPT ![c] = [kind |-> "read", points |-> {p}, want |-> Nothing]]
          /\ Record({p}, Nothing)
    /\ asks' = asks + 1
    /\ UNCHANGED <<driven, device, shadow, online, told, export, changes, misled, disturbed>>

AskBatchRead(c) ==
    /\ Free(c) /\ asks < MaxAsks
    /\ \E points \in (SUBSET Point) \ {{}} :
          request' = [request EXCEPT ![c] = [kind |-> "readBatch", points |-> points, want |-> Nothing]]
    /\ asks' = asks + 1
    /\ UNCHANGED <<driven, device, shadow, writeValue, online, told, verify, export, changes,
                   misled, disturbed>>

\* What singleRead, singleWrite and SendBatchRead test; SendBatchWrite tests nothing.
Permitted(r) == /\ r.kind = "write" => r.points \cap ReadOnly = {}
                /\ r.kind \in {"read", "readBatch"} => r.points \cap WriteOnly = {}

Pending(c) == request[c].kind # "none"

Spoil(c) == disturbed' = [p \in Point |->
                (Writing(c) /\ p \in request[c].points) \/ disturbed[p]]

Refuse(c) ==
    /\ Pending(c) /\ ~Permitted(request[c])
    /\ request' = [request EXCEPT ![c] = NoRequest]
    /\ Spoil(c)
    /\ UNCHANGED <<driven, device, shadow, writeValue, online, told, verify, export, asks,
                   changes, misled>>

\* No connector, no encoding, or the transport fails: some of the values may have reached
\* the device, and MayBeOffline may have taken it offline.
Fail(c) ==
    /\ Pending(c) /\ Permitted(request[c])
    /\ \E arrived \in SUBSET (IF Writing(c) THEN request[c].points ELSE {}) :
          device' = [p \in Point |-> IF p \in arrived THEN ToRaw(p, request[c].want[p]) ELSE device[p]]
    /\ online' \in {online, FALSE}
    /\ request' = [request EXCEPT ![c] = NoRequest]
    /\ Spoil(c)
    /\ UNCHANGED <<driven, shadow, writeValue, told, verify, export, asks, changes, misled>>

\* What the verification of a write looks for.  SendBatchWrite hands its own slice of points
\* to deviceDriverProcess, which divides the values in place.
Expected(r) ==
    LET scaledInPlace == r.kind = "batch" /\ ~driven
    IN  [p \in Point |-> IF p \notin r.points \cap Readable THEN NoValue
                         ELSE IF scaledInPlace THEN ToRaw(p, r.want[p]) ELSE r.want[p]]

\* The device takes the values, and tryReadNewValues starts a goroutine.
Write(c) ==
    /\ Writing(c) /\ Permitted(request[c])
    /\ device' = [p \in Point |-> IF p \in request[c].points THEN ToRaw(p, request[c].want[p])
                                                             ELSE device[p]]
    /\ verify' = IF request[c].points \subseteq WriteOnly THEN verify
                 ELSE [verify EXCEPT ![c] = [NoVerify EXCEPT !.stage = "new",
                                                             !.want = Expected(request[c])]]
    /\ request' = [request EXCEPT ![c] = NoRequest]
    /\ UNCHANGED <<driven, shadow, writeValue, online, told, export, asks, changes, misled, disturbed>>

-----------------------------------------------------------------------------
(* Exports *)

\* What a plugin hands to Export when it has read some points, after pointValueProcess.
Reading(points) == [NoExport EXCEPT
    !.stage = "compare",
    !.data  = [p \in Point |-> IF p \in points THEN ToEng(p, device[p]) ELSE NoValue],
    !.left  = points]

\* The plugin reads and exports in the goroutine of the request.
Read(c) ==
    /\ request[c].kind \in {"read", "readBatch"} /\ Permitted(request[c])
    /\ request' = [request EXCEPT ![c] = NoRequest]
    /\ export' = [export EXCEPT ![c] = Reading(request[c].points)]
    /\ UNCHANGED <<driven, device, shadow, writeValue, online, told, verify, asks, changes,
                   misled, disturbed>>

\* Mutant of Collect: The collection spares devices that are offline.
Collect_Mutant ==
    /\ export[Collector] = NoExport /\ Readable # {} /\ online
    /\ export' = [export EXCEPT ![Collector] = Reading(Readable)]
    /\ UNCHANGED <<driven, device, shadow, writeValue, online, told, request, verify, asks,
                   changes, misled, disturbed>>

Collect ==
    /\ export[Collector] = NoExport /\ Readable # {}
    /\ export' = [export EXCEPT ![Collector] = Reading(Readable)]
    /\ UNCHANGED <<driven, device, shadow, writeValue, online, told, request, verify, asks,
                   changes, misled, disturbed>>

\* The export has looked at the point and not yet handed it on.
Holds(w, p) == /\ export[w].stage # "idle" /\ p \in Given(export[w].data)
               /\ p \notin export[w].left \/ p \in export[w].now

\* GetDevicePoint: nil when the device is offline or the value older than the time to live.
Served(p) == IF online THEN {shadow[p], NoValue} ELSE {NoValue}

\* Mutant of Compare: pointCacheFilter stores the value before it compares.
Compare_Mutant(w) ==
    /\ export[w].stage = "compare"
    /\ \E p \in export[w].left :
          LET reported == p \notin OnChange
              overlap  == \E x \in Worker \ {w} : Holds(x, p)
          IN  /\ export' = [export EXCEPT ![w].stage = "store", ![w].now = {p},
                                          ![w].out = IF reported THEN @ \cup {p} ELSE @]
              /\ misled' = [misled EXCEPT ![p] = overlap \/ (@ /\ ~reported)]
    /\ UNCHANGED <<driven, device, shadow, writeValue, online, told, request, verify, asks,
                   changes, disturbed>>

\* pointCacheFilter looks at the shadow of one point ...
Compare(w) ==
    /\ export[w].stage = "compare"
    /\ \E p \in export[w].left, seen \in Maybe(PointValue) :
          LET reported == p \notin OnChange \/ seen # export[w].data[p]
              overlap  == \E x \in Worker \ {w} : Holds(x, p)
          IN  /\ seen \in Served(p)
              /\ export' = [export EXCEPT ![w].stage = "store", ![w].now = {p},
                                          ![w].out = IF reported THEN @ \cup {p} ELSE @]
              /\ misled' = [misled EXCEPT ![p] = overlap \/ (@ /\ ~reported)]
    /\ UNCHANGED <<driven, device, shadow, writeValue, online, told, request, verify, asks,
                   changes, disturbed>>

\* ... and stores the value, reported or not; SetDevicePoint puts the device online.
Store(w) ==
    /\ export[w].stage = "store"
    /\ shadow' = [p \in Point |-> IF p \in export[w].now THEN export[w].data[p] ELSE shadow[p]]
    /\ online' = TRUE
    /\ LET left == export[w].left \ export[w].now
       IN  export' = [export EXCEPT ![w].left = left, ![w].now = {},
                                    ![w].stage = IF left = {} THEN "deliver" ELSE "compare"]
    /\ UNCHANGED <<driven, device, writeValue, told, request, verify, asks, changes, misled, disturbed>>

\* ExportTo with what the filter has left.
Deliver(w) ==
    /\ export[w].stage = "deliver"
    /\ told' = [p \in Point |-> IF p \in export[w].out THEN export[w].data[p] ELSE told[p]]
    /\ export' = [export EXCEPT ![w] = NoExport]
    /\ UNCHANGED <<driven, device, shadow, writeValue, online, request, verify, asks, changes,
                   misled, disturbed>>

\* The script fails to decode: pointCacheFilter returns, and Export goes on with the raw
\* values, which the shadow never gets.
ExportRaw(w) ==
    /\ driven /\ export[w].stage = "compare" /\ export[w].left = Given(export[w].data)
    /\ told' = [p \in Point |-> IF p \in export[w].left THEN ToRaw(p, export[w].data[p]) ELSE told[p]]
    /\ misled' = [p \in Point |-> p \in export[w].left \/ misled[p]]
    /\ export' = [export EXCEPT ![w] = NoExport]
    /\ UNCHANGED <<driven, device, shadow, writeValue, online, request, verify, asks, changes, disturbed>>

-----------------------------------------------------------------------------
(* Verification of a write: tryReadNewValues *)

\* The goroutine takes its checkTime; writes recorded before it go unnoticed.
BeginVerify(c) ==
    /\ verify[c].stage = "new"
    /\ verify' = [verify EXCEPT ![c].stage = "running"]
    /\ UNCHANGED <<driven, device, shadow, writeValue, online, told, request, export, asks,
                   changes, misled, disturbed>>

\* The points still to be read.
Unconfirmed(c) == {p \in Given(verify[c].want) \ verify[c].stale : shadow[p] # verify[c].want[p]}

Checking(c) == verify[c].stage = "running" /\ export[c] = NoExport

EndVerify(c) ==
    /\ Checking(c) /\ (Unconfirmed(c) = {} \/ verify[c].tries = MaxTries)
    /\ verify' = [verify EXCEPT ![c] = NoVerify]
    /\ UNCHANGED <<driven, device, shadow, writeValue, online, told, request, export, asks,
                   changes, misled, disturbed>>

\* Points that are confirmed, or written anew, are not looked at again.  A plugin may put
\* the read off and say nothing, as modbus does while a write waits.
VerifyRead(c) ==
    /\ Checking(c) /\ Unconfirmed(c) # {} /\ verify[c].tries < MaxTries
    /\ verify' = [verify EXCEPT
           ![c].tries = @ + 1,
           ![c].stale = {},
           ![c].want  = [p \in Point |-> IF p \in Unconfirmed(c) THEN @[p] ELSE NoValue]]
    /\ \/ export' = [export EXCEPT ![c] = Reading(Unconfirmed(c))]
       \/ export' = export
    /\ UNCHANGED <<driven, device, shadow, writeValue, online, told, request, asks, changes,
                   misled, disturbed>>

\* SendBatchRead fails, and the verification gives up.
VerifyFail(c) ==
    /\ Checking(c) /\ Unconfirmed(c) # {} /\ verify[c].tries < MaxTries
    /\ online' \in {online, FALSE}
    /\ verify' = [verify EXCEPT ![c] = NoVerify]
    /\ UNCHANGED <<driven, device, shadow, writeValue, told, request, export, asks, changes,
                   misled, disturbed>>

-----------------------------------------------------------------------------
(* The device and its line *)

\* Failed collections, or the shadow's periodic check, take the device offline.
GoOffline ==
    /\ online
    /\ online' = FALSE
    /\ UNCHANGED <<driven, device, shadow, writeValue, told, request, verify, export, asks,
                   changes, misled, disturbed>>

DeviceChanges ==
    /\ changes < MaxChanges
    /\ \E p \in Point, r \in RawValue :
          /\ device' = [device EXCEPT ![p] = r]
          /\ disturbed' = [disturbed EXCEPT ![p] = TRUE]
    /\ changes' = changes + 1
    /\ UNCHANGED <<driven, shadow, writeValue, online, told, request, verify, export, asks, misled>>

-----------------------------------------------------------------------------
Answer(c)     == Refuse(c) \/ Fail(c) \/ Write(c) \/ Read(c)
VerifyStep(c) == BeginVerify(c) \/ VerifyRead(c) \/ VerifyFail(c) \/ EndVerify(c)
ExportStep(w) == Compare(w) \/ Store(w) \/ Deliver(w) \/ ExportRaw(w)

Next ==
    \/ \E c \in Caller : AskWrite(c) \/ AskRead(c) \/ AskBatchRead(c) \/ Answer(c) \/ VerifyStep(c)
    \/ \E w \in Worker : ExportStep(w)
    \/ Collect \/ GoOffline \/ DeviceChanges

Spec == Init /\ [][Next]_vars

\* The collection task runs again and again, what a goroutine has begun goes on, a request is
\* answered (transports time out), and a script does not fail on every collection.
Fairness ==
    /\ WF_vars(Collect)
    /\ \A w \in Worker : WF_vars(ExportStep(w))
    /\ SF_vars(Compare(Collector))
    /\ \A c \in Caller : WF_vars(Answer(c)) /\ WF_vars(VerifyStep(c))

FairSpec == Spec /\ Fairness
-----------------------------------------------------------------------------
(* Properties *)

Requests      == [kind : {"none", "write", "batch", "read", "readBatch"},
                  points : SUBSET Point, want : [Point -> Maybe(PointValue)]]
Verifications == [stage : {"none", "new", "running"}, want : [Point -> Maybe(PointValue \cup RawValue)],
                  tries : 0 .. MaxTries, stale : SUBSET Point]
Exports       == [stage : {"idle", "compare", "store", "deliver"}, data : [Point -> Maybe(PointValue)],
                  left : SUBSET Point, now : SUBSET Point, out : SUBSET Point]

\* Every value sent to a point, and read from it, is one that point can have.
ValuesFit ==
    /\ \A c \in Caller : Writing(c) =>
           \A p \in request[c].points : \E r \in RawValue : request[c].want[p] = ToEng(p, r)
    /\ \A w \in Worker : \A p \in Given(export[w].data) :
           \E r \in RawValue : export[w].data[p] = ToEng(p, r)

\* Types of the variables; a verification never counts more than MaxTries reads.
TypeOK ==
    /\ driven \in BOOLEAN /\ online \in BOOLEAN
    /\ device \in [Point -> RawValue]
    /\ shadow \in [Point -> Maybe(PointValue)]
    /\ writeValue \in [Point -> Maybe(PointValue)]
    /\ told \in [Point -> Maybe(PointValue \cup RawValue)]
    /\ request \in [Caller -> Requests]
    /\ verify \in [Caller -> Verifications]
    /\ export \in [Worker -> Exports]
    /\ asks \in 0 .. MaxAsks /\ changes \in 0 .. MaxChanges
    /\ misled \in [Point -> BOOLEAN] /\ disturbed \in [Point -> BOOLEAN]
    /\ ValuesFit

\* Export leaves out what has not changed, so a value an export misses is not sent again: what
\* the exports last heard of a point is what the shadow holds, unless two exports of the point
\* overlapped or one went past the shadow.
ToldIsShadow ==
    \A p \in Point : ~misled[p] /\ (\A w \in Worker : ~Holds(w, p)) => told[p] = shadow[p]

\* WriteValue is the last value sent to the device: when no write of the point is under way,
\* the device holds it, unless writes of the point overlapped, one failed, or the device
\* changed by itself.
WriteValueReached ==
    \A p \in Point :
        /\ ~disturbed[p] /\ writeValue[p] # NoValue
        /\ \A c \in Caller : ~(Writing(c) /\ p \in request[c].points)
        => device[p] = ToRaw(p, writeValue[p])

\* Once nobody writes and the device is at rest, the shadow of every point that can be read
\* comes to hold what the device holds, and keeps it: no late export of an old value stays.
ShadowFollowsDevice ==
    <>[](\A p \in Readable : shadow[p] = ToEng(p, device[p]))

=============================================================================

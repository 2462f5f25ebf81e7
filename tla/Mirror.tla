------------------------------- MODULE Mirror -------------------------------
(***************************************************************************)
(* Mirror devices (exports/mirror): a raw device whose model names a       *)
(* mirror template gets a device of its own in the plugin "mirror", whose  *)
(* points stand for points of the raw device.                              *)
(*                                                                         *)
(* The export makes the device in the goroutine of the event DeviceAdded:  *)
(* model, device and connection in the core cache, then the mapping in the *)
(* plugin.  The plugin builds the same mapping from its configuration when *)
(* it is initialised, also when it is reloaded, from a configuration read  *)
(* before Destroy.  Reports of raw devices are decoded, by the mapping,    *)
(* into reports of the mirrors; writes to a mirror are encoded into writes *)
(* to the raw device.  Encode and Decode read the maps without the lock    *)
(* that UpdateMirrorMapping holds: the Go runtime ends a process that      *)
(* reads a map while another goroutine writes it.                          *)
(*                                                                         *)
(* A mirror named in the configuration loaded at the start may take its    *)
(* points from several raw devices.  One goroutine reports for each raw    *)
(* device; the copy of the raw device's status is left out.                *)
(***************************************************************************)
EXTENDS Naturals, Sequences, FiniteSets, SequencesExt

CONSTANTS
    Raw, RawPoint, Value,
    Mirror, MirrorPoint,
    MirrorOf,       \* the mirror made for each raw device, "mirror_" + its identifier
    Templates,      \* mirror templates: sequences of [point, rawPoint]; none is the empty one
    Configs,        \* configurations loaded at the start: the points of each mirror they hold
    MaxMoves,       \* bound: devices added and removed, templates, reloads, writes, new values
    NoPoint,        \* a template's point without a rawPoint
    NoModel, NoValue

Entry   == [point : MirrorPoint, raw : Raw, rawPoint : RawPoint \union {NoPoint}]
Mapping == UNION {[P -> Raw \X RawPoint] : P \in SUBSET MirrorPoint}

\* Whatever is said of a point is said once.  A template that names a point twice writes into the
\* same map twice; a configuration that did so with two raw points would feed the point from both.
Clear(entries) ==
    \A i, j \in DOMAIN entries : entries[i].point = entries[j].point => entries[i] = entries[j]

ASSUME MirrorAssumption ==
    /\ MirrorOf \in [Raw -> Mirror] /\ \A r, s \in Raw : MirrorOf[r] = MirrorOf[s] => r = s
    /\ Templates \subseteq Seq([point : MirrorPoint, rawPoint : RawPoint \union {NoPoint}])
    /\ \A t \in Templates : Clear(t)
    /\ \A c \in Configs : /\ c = [m \in DOMAIN c |-> c[m]] /\ DOMAIN c \subseteq Mirror
                          /\ \A m \in DOMAIN c : c[m] \in Seq(Entry) /\ Clear(c[m])
    /\ NoPoint \notin RawPoint /\ NoModel \notin Seq(Entry) \union Mapping /\ NoValue \notin Value
    /\ MaxMoves \in Nat

VARIABLES
    raws, template,      \* raw devices in the core cache, and the template their model names
    model, devices,      \* models and devices of the plugin "mirror" in the core cache
    connection,          \* the connection of all mirrors is in the core cache
    task, made,          \* goroutines of autoCreateMirrorDevice, and the points each has read
    reload, cfg,         \* a reload, and the configuration it has read
    ready,
    mirrors, rawMapping, \* the plugin's maps; rawMapping by the mirror that is fed
    actual, mirrorShadow, \* values of raw devices, and the shadow of the mirrors
    flight,              \* reports of mirrors, decoded and on their way
    running,             \* the process has not been ended
    moves,               \* counted for the bound
    crossed              \* history: mirrors that were removed, or whose making met a reload

cacheVars  == <<raws, template, model, devices, connection>>
pluginVars == <<ready, mirrors, rawMapping>>
valueVars  == <<actual, mirrorShadow, flight>>
goVars     == <<task, made, reload, cfg>>
vars       == <<cacheVars, pluginVars, valueVars, goVars, running, moves, crossed>>

\* UpdateMirrorMapping takes the points in order and gives up at one without its rawPoint.
Usable(entries) == {i \in DOMAIN entries : \A k \in 1 .. i : entries[k].rawPoint # NoPoint}

MappingOf(entries) ==
    [p \in {entries[i].point : i \in Usable(entries)} |->
        LET i == CHOOSE k \in Usable(entries) : entries[k].point = p
        IN  <<entries[i].raw, entries[i].rawPoint>>]

\* A second point of the same mirror is appended to a copy of the list: the raw point feeds the
\* first alone.
Feeds(entries) ==
    LET From(i) == <<entries[i].raw, entries[i].rawPoint>>
    IN  {<<entries[i].raw, entries[i].rawPoint, entries[i].point>> :
            i \in {k \in Usable(entries) : \A j \in 1 .. k - 1 : From(j) # From(k)}}

\* The points that the template names, with the raw device filled in.  Those that the mirror model
\* does not have are passed over: templates are without them here.
EntriesOf(r) ==
    [i \in DOMAIN template[r] |->
        [point |-> template[r][i].point, raw |-> r, rawPoint |-> template[r][i].rawPoint]]

Nothing == [p \in MirrorPoint |-> NoValue]

Init ==
    /\ \E loaded \in Configs :
        /\ model = [m \in Mirror |-> IF m \in DOMAIN loaded THEN loaded[m] ELSE NoModel]
        /\ devices = DOMAIN loaded /\ connection = (DOMAIN loaded # {})
        /\ mirrors = [m \in Mirror |-> IF m \in DOMAIN loaded THEN MappingOf(loaded[m]) ELSE NoModel]
        /\ rawMapping = [m \in Mirror |-> IF m \in DOMAIN loaded THEN Feeds(loaded[m]) ELSE {}]
    /\ raws = {} /\ template \in [Raw -> Templates] /\ ready = TRUE
    /\ task = [r \in Raw |-> "none"] /\ made = [r \in Raw |-> <<>>]
    /\ reload = "none" /\ cfg = [m \in {} |-> <<>>]
    /\ actual = [r \in Raw |-> [p \in RawPoint |-> CHOOSE v \in Value : TRUE]]
    /\ mirrorShadow = [m \in Mirror |-> Nothing]
    /\ flight = [r \in Raw |-> {}]
    /\ running = TRUE /\ moves = 0 /\ crossed = {}

Move == moves < MaxMoves /\ moves' = moves + 1

\* A goroutine is in the middle of writing the plugin's maps.
Writing == reload = "writing" \/ \E r \in Raw : task[r] = "writing"

-----------------------------------------------------------------------------
(* Making a mirror: autoCreateMirrorDevice *)

\* AddOrUpdateDevice fires DeviceAdded in a goroutine.
AddRaw(r) ==
    /\ r \notin raws /\ task[r] = "none" /\ Move
    /\ raws' = raws \union {r}
    /\ task' = [task EXCEPT ![r] = "check"]
    /\ UNCHANGED <<template, model, devices, connection, made, reload, cfg, pluginVars, valueVars,
                   running, crossed>>

RemoveRaw(r) ==
    /\ r \in raws /\ Move
    /\ raws' = raws \ {r}
    /\ UNCHANGED <<template, model, devices, connection, goVars, pluginVars, valueVars, running,
                   crossed>>

ChangeTemplate(r, t) ==
    /\ t # template[r] /\ Move
    /\ template' = [template EXCEPT ![r] = t]
    /\ UNCHANGED <<raws, model, devices, connection, goVars, pluginVars, valueVars, running, crossed>>

RemoveMirror(m) ==
    /\ m \in devices /\ Move
    /\ devices' = devices \ {m}
    /\ mirrorShadow' = [mirrorShadow EXCEPT ![m] = Nothing]
    /\ crossed' = crossed \union {m}
    /\ UNCHANGED <<raws, template, model, connection, goVars, pluginVars, actual, flight,
                   running>>

Goes(r, from, to) == task[r] = from /\ task' = [task EXCEPT ![r] = to]

\* Device, model and template are there, and the mirror is not yet.
Check(r) ==
    /\ IF r \in raws /\ template[r] # <<>> /\ MirrorOf[r] \notin devices
       THEN Goes(r, "check", "model") /\ made' = [made EXCEPT ![r] = EntriesOf(r)]
       ELSE Goes(r, "check", "none") /\ UNCHANGED made
    /\ crossed' = IF reload = "none" THEN crossed ELSE crossed \union {MirrorOf[r]}
    /\ UNCHANGED <<cacheVars, reload, cfg, pluginVars, valueVars, running, moves>>

\* Mutant of AddMirrorModel: The template is read again for the model.
AddMirrorModel_Mutant(r) ==
    /\ Goes(r, "model", "device")
    /\ model' = [model EXCEPT ![MirrorOf[r]] = EntriesOf(r)]
    /\ UNCHANGED <<raws, template, devices, connection, made, reload, cfg, pluginVars, valueVars,
                   running, moves, crossed>>

AddMirrorModel(r) ==
    /\ Goes(r, "model", "device")
    /\ model' = [model EXCEPT ![MirrorOf[r]] = made[r]]
    /\ UNCHANGED <<raws, template, devices, connection, made, reload, cfg, pluginVars, valueVars,
                   running, moves, crossed>>

\* A reload may have deleted the model, which had no device yet.
AddMirrorDevice(r) ==
    /\ IF model[MirrorOf[r]] = NoModel
       THEN Goes(r, "device", "none") /\ UNCHANGED devices
       ELSE Goes(r, "device", "connection") /\ devices' = devices \union {MirrorOf[r]}
    /\ UNCHANGED <<raws, template, model, connection, made, reload, cfg, pluginVars, valueVars,
                   running, moves, crossed>>

\* Mutant of AddMirrorConnection: The first mirror, which finds no connection, is given up.
AddMirrorConnection_Mutant(r) ==
    /\ Goes(r, "connection", IF connection THEN "mapping" ELSE "none")
    /\ connection' = TRUE
    /\ UNCHANGED <<raws, template, model, devices, made, reload, cfg, pluginVars, valueVars, running,
                   moves, crossed>>

AddMirrorConnection(r) ==
    /\ Goes(r, "connection", "mapping")
    /\ connection' = TRUE
    /\ UNCHANGED <<raws, template, model, devices, made, reload, cfg, pluginVars, valueVars, running,
                   moves, crossed>>

\* UpdateMirrorMapping for the mirrors of which news holds the points.  One that has a mapping
\* keeps it.
MapAll(news) ==
    LET new == {m \in DOMAIN news : mirrors[m] = NoModel}
    IN  /\ mirrors' = [m \in Mirror |-> IF m \in new THEN MappingOf(news[m]) ELSE mirrors[m]]
        /\ rawMapping' = [m \in Mirror |-> rawMapping[m] \union
                                              IF m \in new THEN Feeds(news[m]) ELSE {}]

\* The mutex is held from here to the end of the writing.
AutoMap(r) ==
    /\ IF ready THEN /\ ~Writing /\ Goes(r, "mapping", "writing")
                     /\ MapAll([m \in {MirrorOf[r]} |-> made[r]])
       ELSE Goes(r, "mapping", "none") /\ UNCHANGED <<mirrors, rawMapping>>
    /\ UNCHANGED <<cacheVars, made, reload, cfg, ready, valueVars, running, moves, crossed>>

Mapped(r) ==
    /\ Goes(r, "writing", "none")
    /\ UNCHANGED <<cacheVars, made, reload, cfg, pluginVars, valueVars, running, moves, crossed>>

-----------------------------------------------------------------------------
(* A reload of the plugin: ReloadPlugin *)

\* Mirrors that are being made, or are on the way to it.
Making == {MirrorOf[r] : r \in {x \in Raw : task[x] # "none"}}

ReloadRead ==
    /\ reload = "none" /\ Move
    /\ reload' = "read"
    /\ cfg' = [m \in {x \in Mirror : model[x] # NoModel} |->
                  IF m \in devices THEN model[m] ELSE NoModel]
    /\ crossed' = crossed \union Making
    /\ UNCHANGED <<cacheVars, task, made, pluginVars, valueVars, running>>

\* Mutant of Destroy: The raw points' lists are kept.
Destroy_Mutant ==
    /\ reload = "read" /\ reload' = "destroyed"
    /\ mirrors' = [m \in Mirror |-> NoModel] /\ rawMapping' = rawMapping
    /\ ready' = FALSE
    /\ crossed' = crossed \union Making
    /\ UNCHANGED <<cacheVars, task, made, cfg, valueVars, running, moves>>

Destroy ==
    /\ reload = "read" /\ reload' = "destroyed"
    /\ mirrors' = [m \in Mirror |-> NoModel] /\ rawMapping' = [m \in Mirror |-> {}]
    /\ ready' = FALSE
    /\ crossed' = crossed \union Making
    /\ UNCHANGED <<cacheVars, task, made, cfg, valueVars, running, moves>>

\* Mutant of Initialize: The connection is deleted without a look at the devices.
Initialize_Mutant ==
    /\ reload = "destroyed" /\ reload' = "writing" /\ ~Writing
    /\ model' = [m \in Mirror |->
                    IF m \in DOMAIN cfg /\ cfg[m] = NoModel /\ m \notin devices THEN NoModel
                    ELSE model[m]]
    /\ connection' = (connection /\ DOMAIN cfg # {})
    /\ MapAll([m \in {x \in DOMAIN cfg : cfg[x] # NoModel} |-> cfg[m]])
    /\ crossed' = crossed \union Making
    /\ UNCHANGED <<raws, template, devices, task, made, cfg, ready, valueVars, running, moves>>

\* Models without a device are deleted, unless they have one by now, and the connection if there
\* is no model and no device.
Initialize ==
    /\ reload = "destroyed" /\ reload' = "writing" /\ ~Writing
    /\ model' = [m \in Mirror |->
                    IF m \in DOMAIN cfg /\ cfg[m] = NoModel /\ m \notin devices THEN NoModel
                    ELSE model[m]]
    /\ connection' = (connection /\ (DOMAIN cfg # {} \/ devices # {}))
    /\ MapAll([m \in {x \in DOMAIN cfg : cfg[x] # NoModel} |-> cfg[m]])
    /\ crossed' = crossed \union Making
    /\ UNCHANGED <<raws, template, devices, task, made, cfg, ready, valueVars, running, moves>>

Initialized ==
    /\ reload = "writing" /\ reload' = "none"
    /\ cfg' = [m \in {} |-> <<>>]
    /\ ready' = TRUE
    /\ crossed' = crossed \union Making
    /\ UNCHANGED <<cacheVars, task, made, mirrors, rawMapping, valueVars, running, moves>>

-----------------------------------------------------------------------------
(* Values *)

RawChange(r, p, v) ==
    /\ v # actual[r][p] /\ Move
    /\ actual' = [actual EXCEPT ![r][p] = v]
    /\ UNCHANGED <<cacheVars, goVars, pluginVars, mirrorShadow, flight, running, crossed>>

\* Mutant of Decoded: The values of the raw points go to the points of the same name.
Decoded_Mutant(r) ==
    {<<m, p, actual[r][p]>> : m \in {x \in Mirror : rawMapping[x] # {}}, p \in RawPoint \intersect MirrorPoint}

\* Decode: data of mirrors is not mirrored again; raw points feed the points of their mirrors.
Decoded(r) ==
    UNION {{<<m, feed[3], actual[r][feed[2]]>> : feed \in {f \in rawMapping[m] : f[1] = r}} : m \in Mirror}

\* A report of the raw device fires Exporting, whose data is decoded.
Report(r) ==
    /\ r \in raws /\ flight[r] = {} /\ ~Writing
    /\ flight' = [flight EXCEPT ![r] = Decoded(r)]
    /\ UNCHANGED <<cacheVars, goVars, pluginVars, actual, mirrorShadow, running, moves, crossed>>

HasPoint(m, p) == \E e \in ToSet(model[m]) : e.point = p

\* driverbox.Export of the mirrors' data: what the core cache does not know is left out.
Deliver(r) ==
    /\ flight[r] # {}
    /\ flight' = [flight EXCEPT ![r] = {}]
    /\ mirrorShadow' =
         [m \in Mirror |-> [p \in MirrorPoint |->
             LET news == {f \in flight[r] : f[1] = m /\ f[2] = p}
             IN  IF news = {} \/ m \notin devices \/ ~HasPoint(m, p) THEN mirrorShadow[m][p]
                 ELSE (CHOOSE f \in news : TRUE)[3]]]
    /\ UNCHANGED <<cacheVars, goVars, pluginVars, actual, running, moves, crossed>>

\* A write to a mirror: Encode looks up the raw point, Send writes to the raw device.
Write(m, p, v) ==
    /\ m \in devices /\ ~Writing /\ Move
    /\ mirrors[m] # NoModel /\ p \in DOMAIN mirrors[m]
    /\ LET raw == mirrors[m][p]
       IN  /\ raw[1] \in raws
           /\ actual' = [actual EXCEPT ![raw[1]][raw[2]] = v]
    /\ UNCHANGED <<cacheVars, goVars, pluginVars, mirrorShadow, flight, running, crossed>>

\* Encode and Decode do not take the mutex: a read of the maps while they are written ends the
\* process.
ReadWhileWritten ==
    /\ Writing /\ \E r \in raws : flight[r] = {}
    /\ running' = FALSE
    /\ UNCHANGED <<cacheVars, goVars, pluginVars, valueVars, moves, crossed>>

-----------------------------------------------------------------------------

MakeStep(r) ==
    \/ Check(r) \/ AddMirrorModel(r) \/ AddMirrorDevice(r) \/ AddMirrorConnection(r)
    \/ AutoMap(r) \/ Mapped(r)

ReloadStep == Destroy \/ Initialize \/ Initialized

Next ==
    /\ running
    /\ \/ \E r \in Raw :
            \/ AddRaw(r) \/ RemoveRaw(r) \/ MakeStep(r) \/ Report(r) \/ Deliver(r)
            \/ \E t \in Templates : ChangeTemplate(r, t)
            \/ \E p \in RawPoint, v \in Value : RawChange(r, p, v)
       \/ \E m \in Mirror : RemoveMirror(m) \/ \E p \in MirrorPoint, v \in Value : Write(m, p, v)
       \/ ReloadRead \/ ReloadStep
       \/ ReadWhileWritten

Spec == Init /\ [][Next]_vars

\* Goroutines go on; raw devices are polled; a reload, once begun, goes through.
FairSpec ==
    /\ Spec
    /\ \A r \in Raw : WF_vars(running /\ MakeStep(r)) /\ WF_vars(running /\ (Report(r) \/ Deliver(r)))
    /\ WF_vars(running /\ ReloadStep)

-----------------------------------------------------------------------------
(* Properties *)

\* A mirror being made is not mapped yet.
Unmapped(m) == \E r \in Raw : MirrorOf[r] = m /\ task[r] \in {"connection", "mapping"}

\* The mapping of a mirror device is the one its model describes, unless the mirror was removed
\* meanwhile or made across a reload (plugin.go:73, export.go:83, plugin.go:165 of driverbox).
MappingIsTheModels ==
    \A m \in devices \ crossed :
        model[m] # NoModel /\ (~Unmapped(m) /\ reload \in {"none", "read"} => mirrors[m] = MappingOf(model[m]))

\* The connection of the mirrors is in the core cache as long as a mirror is mapped or will be:
\* without it the flush removes the plugin's file and every mirror in it (cache.go:737,
\* plugin.go:62).
MirrorsAreSaved ==
    \A m \in devices : connection \/ \E r \in Raw : MirrorOf[r] = m /\ task[r] = "connection"

\* Both maps say the same of a point that is fed: a value that comes from a raw point by
\* rawMapping, written back to the mirror, goes to that raw point by mirrors.
FeedsAgreeWithMirrors ==
    \A m \in Mirror : \A feed \in rawMapping[m] :
        mirrors[m] # NoModel /\ feed[3] \in DOMAIN mirrors[m] /\ mirrors[m][feed[3]] = <<feed[1], feed[2]>>

\* What the plugin and the core cache hold of the mirrors fits together.
MirrorHolds == MappingIsTheModels /\ MirrorsAreSaved /\ FeedsAgreeWithMirrors

\* The points of a mirror that are fed come to show the raw device's values, written through the
\* mirror or not, as long as both devices and the process are there.
Shows(m) ==
    \A feed \in Feeds(model[m]) : mirrorShadow[m][feed[3]] = actual[feed[1]][feed[2]]
MirrorFollowsRaw ==
    <>[](\/ ~running
         \/ \A m \in devices \ crossed :
               (\A e \in ToSet(model[m]) : e.raw \in raws) => Shows(m))

\* A raw device that is added while its model names a template gets its mirror, mapped, unless
\* the device, the template or the mirror is taken away meanwhile or a reload intervenes.
EveryTemplateIsMade ==
    \A r \in Raw :
        task[r] = "check" /\ template[r] # <<>> ~>
            \/ MirrorOf[r] \in devices /\ mirrors[MirrorOf[r]] # NoModel
            \/ MirrorOf[r] \in crossed \/ r \notin raws \/ template[r] = <<>> \/ ~running
=============================================================================

----------------------------- MODULE CoreCache -----------------------------
(***************************************************************************)
(* The core cache of driver-box (internal/cache): the devices, models and  *)
(* connections of every plugin in memory, the config.json files they are   *)
(* loaded from and flushed to, and the device shadows kept in step with    *)
(* them.  The methods run under cache.mutex and are one action each; Flush *)
(* is two, for the file is truncated before it is written and a crash or a *)
(* full disk may come in between; loadConfig is one action per directory.  *)
(*                                                                         *)
(* cacheModifyTime, fileModifyTime and the 5 seconds of the crontab job are*)
(* kept as unsaved[p]: "none" while the cache is not newer than the file,  *)
(* "recent" after a change and "settled" once it is 5 seconds old.         *)
(* What a model or a connection contains is left out.                      *)
(***************************************************************************)
EXTENDS Integers, Sequences

CONSTANTS
    Plugins,     \* the registered plugins
    Models,      \* model names
    Devices,     \* device identifiers
    Conns,       \* connection keys
    Props,       \* values of a device property
    Descs,       \* device descriptions
    Dirs,        \* the directories under res/driver, in the order of WalkDir
    DefaultDir,  \* DefaultDir[p]: the directory Flush gives plugin p
    InitDisks,   \* the sets of config files the gateway may be installed with
    NoPlugin, NoDevice, NoDir, NilMap

DirSet == {Dirs[i] : i \in 1 .. Len(Dirs)}

DeviceRec == [model : Models, plugin : Plugins, conn : Conns,
              props : Props \union {NilMap}, desc : Descs]

\* A config.json: the devices are listed under their models.
Config == [plugin : Plugins, models : SUBSET Models,
           devices : [Devices -> DeviceRec \union {NoDevice}],
           conns : SUBSET Conns]

NoFile  == [file |-> "none"]
Empty   == [file |-> "empty"]   \* truncated: read as an empty configuration
Partial == [file |-> "partial"] \* cut short: json.Unmarshal fails
Content == Config \union {NoFile, Empty, Partial}

ASSUME CacheAssumption ==
    /\ NoPlugin \notin Plugins
    /\ NoDevice \notin DeviceRec
    /\ NoDir \notin DirSet
    /\ NilMap \notin Props
    /\ Dirs \in Seq(DirSet)
    /\ DefaultDir \in [Plugins -> DirSet]
    /\ InitDisks \subseteq [DirSet -> Content]

\* A file that names a device lists the device's model, and the device is its plugin's.
Listed(f) ==
    \A d \in Devices : f.devices[d] # NoDevice =>
        f.devices[d].model \in f.models /\ f.devices[d].plugin = f.plugin

\* Plugins have different names, hence directories; the gateway is installed with at most one file
\* for each plugin, which is not in the directory of another.
ASSUME InstallAssumption ==
    /\ \A p, q \in Plugins : DefaultDir[p] = DefaultDir[q] => p = q
    /\ \A D \in InitDisks : \A i \in DirSet : D[i] \in Config =>
          /\ Listed(D[i])
          /\ \A p \in Plugins : DefaultDir[p] = i => D[i].plugin = p
          /\ \A j \in DirSet : D[j] \in Config /\ D[j].plugin = D[i].plugin => j = i

VARIABLES
    running,  \* "down", "loading", "failed", "up", "stopping"
    devices,  \* cache.devices
    models,   \* cache.models: the plugin of each model
    conns,    \* cache.connections: the plugin of each connection
    fileOf,   \* cachePlugin.FilePath
    unsaved,  \* cachePlugin.cacheModifyTime against fileModifyTime
    shadows,  \* the devices the device shadow holds
    toShadow, \* what initDeviceShadow has read and not yet added
    next,     \* the directory loadConfig reads next
    writing,  \* the plugin Flush is writing the file of, under the lock
    disk,     \* the config.json of each directory
    \* History variables.
    stray,    \* the devices whose shadow initDeviceShadow may add after their removal, or Stop misses
    overlap,  \* a file just loaded named something another had named
    kept      \* a file Flush failed to remove is still there

memory  == <<devices, models, conns>>
files   == <<fileOf, unsaved, writing, disk, kept>>
startup == <<running, next, toShadow, overlap>>
shades  == <<shadows, stray>>
vars    == <<memory, files, startup, shades>>

Running == {"down", "loading", "failed", "up", "stopping"}

TypeOK ==
    /\ running \in Running
    /\ devices \in [Devices -> DeviceRec \union {NoDevice}]
    /\ models \in [Models -> Plugins \union {NoPlugin}]
    /\ conns \in [Conns -> Plugins \union {NoPlugin}]
    /\ fileOf \in [Plugins -> DirSet \union {NoDir}]
    /\ unsaved \in [Plugins -> {"none", "recent", "settled"}]
    /\ shadows \subseteq Devices
    /\ toShadow \subseteq Devices
    /\ stray \subseteq Devices
    /\ next \in 1 .. Len(Dirs) + 1
    /\ writing \in Plugins \union {NoPlugin}
    /\ disk \in [DirSet -> Content]
    /\ overlap \in BOOLEAN
    /\ kept \in BOOLEAN

\* The cache with nothing in it, as Get and Reset leave it.
EmptyMemory ==
    /\ devices = [d \in Devices |-> NoDevice]
    /\ models = [m \in Models |-> NoPlugin]
    /\ conns = [c \in Conns |-> NoPlugin]
    /\ fileOf = [p \in Plugins |-> NoDir]
    /\ unsaved = [p \in Plugins |-> "none"]

Init ==
    /\ running = "down"
    /\ EmptyMemory
    /\ shadows = {} /\ toShadow = {} /\ stray = {}
    /\ next = 1
    /\ writing = NoPlugin
    /\ disk \in InitDisks
    /\ overlap = FALSE /\ kept = FALSE

-----------------------------------------------------------------------------
Present(d) == devices[d] # NoDevice

\* convertConfig: what is stored for plugin p.
ConfigOf(p) ==
    [plugin  |-> p,
     models  |-> {m \in Models : models[m] = p},
     devices |-> [d \in Devices |->
                     IF Present(d) /\ models[devices[d].model] = p
                     THEN devices[d] ELSE NoDevice],
     conns   |-> {c \in Conns : conns[c] = p}]

\* The plugins are known to the cache, and its lock is free.
Unlocked ==
    /\ running \in {"up", "stopping"}
    /\ writing = NoPlugin

flushable(p) == unsaved' = [unsaved EXCEPT ![p] = "recent"]

-----------------------------------------------------------------------------
(* The methods of the cache that change it *)

\* AddOrUpdateDevice: the model must exist, a known device keeps its model.
AddOrUpdateDevice(d, m, c, pr, s) ==
    /\ Unlocked
    /\ models[m] # NoPlugin
    /\ Present(d) => devices[d].model = m
    /\ devices' = [devices EXCEPT ![d] =
                      [model |-> m, plugin |-> models[m], conn |-> c,
                       props |-> pr, desc |-> s]]
    /\ shadows' = shadows \union {d}
    /\ stray' = IF running = "stopping" THEN stray \union {d} ELSE stray \ {d}
    /\ flushable(models[m])
    /\ UNCHANGED <<models, conns, fileOf, writing, disk, kept, startup>>

\* UpdateDeviceProperty changes the map the stored device shares; when the
\* device has no map yet, the new one goes to a local copy of the device.
UpdateDeviceProperty(d, pr) ==
    /\ Unlocked
    /\ Present(d)
    /\ devices' = IF devices[d].props = NilMap THEN devices
                  ELSE [devices EXCEPT ![d].props = pr]
    /\ flushable(devices[d].plugin)
    /\ UNCHANGED <<models, conns, fileOf, writing, disk, kept, startup,
                   shades>>

\* UpdateDeviceDesc changes a local copy of the device.
UpdateDeviceDesc(d, s) ==
    /\ Unlocked
    /\ Present(d)
    /\ flushable(devices[d].plugin)
    /\ UNCHANGED <<memory, fileOf, writing, disk, kept, startup, shades>>

\* Bug: the shadows stay.
BatchRemoveDevice_Mutant(D) ==
    /\ Unlocked
    /\ devices' = [d \in Devices |-> IF d \in D THEN NoDevice ELSE devices[d]]
    /\ unsaved' = [p \in Plugins |->
                      IF \E d \in D : Present(d) /\ devices[d].plugin = p
                      THEN "recent" ELSE unsaved[p]]
    /\ UNCHANGED <<models, conns, fileOf, writing, disk, kept, startup, shades>>

\* BatchRemoveDevice: devices and shadows, both under the cache's lock.  A
\* device that initDeviceShadow has listed will get its shadow back.
BatchRemoveDevice(D) ==
    /\ Unlocked
    /\ devices' = [d \in Devices |-> IF d \in D THEN NoDevice ELSE devices[d]]
    /\ shadows' = shadows \ D
    /\ stray' = (stray \ D) \union (D \intersect toShadow)
    /\ unsaved' = [p \in Plugins |->
                      IF \E d \in D : Present(d) /\ devices[d].plugin = p
                      THEN "recent" ELSE unsaved[p]]
    /\ UNCHANGED <<models, conns, fileOf, writing, disk, kept, startup>>

\* AddConnection refuses a key that exists, of whatever plugin.
AddConnection(p, c) ==
    /\ Unlocked
    /\ conns[c] = NoPlugin
    /\ conns' = [conns EXCEPT ![c] = p]
    /\ flushable(p)
    /\ UNCHANGED <<devices, models, fileOf, writing, disk, kept, startup,
                   shades>>

\* DeleteConnection refuses a key that a device uses.
DeleteConnection(c) ==
    /\ Unlocked
    /\ conns[c] # NoPlugin
    /\ \A d \in Devices : Present(d) => devices[d].conn # c
    /\ conns' = [conns EXCEPT ![c] = NoPlugin]
    /\ flushable(conns[c])
    /\ UNCHANGED <<devices, models, fileOf, writing, disk, kept, startup,
                   shades>>

\* Bug: a model is taken over from another plugin.
AddModel_Mutant(p, m) ==
    /\ Unlocked
    /\ models' = [models EXCEPT ![m] = p]
    /\ flushable(p)
    /\ UNCHANGED <<devices, conns, fileOf, writing, disk, kept, startup,
                   shades>>

\* AddModel adds a model or updates one of the same plugin.
AddModel(p, m) ==
    /\ Unlocked
    /\ models[m] \in {p, NoPlugin}
    /\ models' = [models EXCEPT ![m] = p]
    /\ flushable(p)
    /\ UNCHANGED <<devices, conns, fileOf, writing, disk, kept, startup,
                   shades>>

\* Bug: the file is not marked for the next flush.
DeleteModel_Mutant(m) ==
    /\ Unlocked
    /\ models[m] # NoPlugin
    /\ \A d \in Devices : Present(d) => devices[d].model # m
    /\ models' = [models EXCEPT ![m] = NoPlugin]
    /\ UNCHANGED <<devices, conns, files, startup, shades>>

\* DeleteModel refuses a model that has devices.
DeleteModel(m) ==
    /\ Unlocked
    /\ models[m] # NoPlugin
    /\ \A d \in Devices : Present(d) => devices[d].model # m
    /\ models' = [models EXCEPT ![m] = NoPlugin]
    /\ flushable(models[m])
    /\ UNCHANGED <<devices, conns, fileOf, writing, disk, kept, startup,
                   shades>>

-----------------------------------------------------------------------------
(* Flush *)

\* A plugin without connections counts as idle: its file is removed, and
\* forgotten even when os.Remove fails.
FlushIdle(p) ==
    /\ Unlocked
    /\ running = "up"
    /\ ConfigOf(p).conns = {}
    /\ fileOf[p] # NoDir
    /\ \/ /\ disk' = [disk EXCEPT ![fileOf[p]] = NoFile]
          /\ UNCHANGED kept
       \/ /\ UNCHANGED disk
          /\ kept' = TRUE
    /\ fileOf' = [fileOf EXCEPT ![p] = NoDir]
    /\ unsaved' = [unsaved EXCEPT ![p] = "none"]
    /\ UNCHANGED <<memory, writing, startup, shades>>

\* Bug: the path the file was loaded from is not used.
FileFor_Mutant(p) == DefaultDir[p]

\* The file Flush writes for p.
FileFor(p) == IF fileOf[p] = NoDir THEN DefaultDir[p] ELSE fileOf[p]

\* os.WriteFile truncates the file first.
FlushBegin(p) ==
    /\ Unlocked
    /\ running = "up"
    /\ ConfigOf(p).conns # {}
    /\ writing' = p
    /\ disk' = [disk EXCEPT ![FileFor(p)] = Empty]
    /\ UNCHANGED <<memory, fileOf, unsaved, kept, startup, shades>>

\* Bug: the file is not marked as written.
FlushEnd_Mutant ==
    /\ writing # NoPlugin
    /\ disk' = [disk EXCEPT ![FileFor(writing)] = ConfigOf(writing)]
    /\ fileOf' = [fileOf EXCEPT ![writing] = FileFor(writing)]
    /\ writing' = NoPlugin
    /\ UNCHANGED <<memory, unsaved, kept, startup, shades>>

\* The write succeeds: the file is up to date and the lock is released.
FlushEnd ==
    /\ writing # NoPlugin
    /\ disk' = [disk EXCEPT ![FileFor(writing)] = ConfigOf(writing)]
    /\ fileOf' = [fileOf EXCEPT ![writing] = FileFor(writing)]
    /\ unsaved' = [unsaved EXCEPT ![writing] = "none"]
    /\ writing' = NoPlugin
    /\ UNCHANGED <<memory, kept, startup, shades>>

\* The write fails, at once or half way (a file that cannot be opened stays as it
\* is, and nothing happens): the plugin keeps its times and its path, so that the
\* next run of the crontab job tries again.
FlushFail ==
    /\ writing # NoPlugin
    /\ \E f \in {Empty, Partial} : disk' = [disk EXCEPT ![FileFor(writing)] = f]
    /\ writing' = NoPlugin
    /\ UNCHANGED <<memory, fileOf, unsaved, kept, startup, shades>>

\* Five seconds pass since the last change of p.
Settle(p) ==
    /\ unsaved[p] = "recent"
    /\ unsaved' = [unsaved EXCEPT ![p] = "settled"]
    /\ UNCHANGED <<memory, fileOf, writing, disk, kept, startup, shades>>

Flush(p) == FlushIdle(p) \/ FlushBegin(p)

\* The crontab job: only changes that have settled.
AutoFlush(p) ==
    /\ unsaved[p] = "settled"
    /\ Flush(p)

-----------------------------------------------------------------------------
(* Start and stop *)

\* Start, up to loadConfig taking the lock.
Start ==
    /\ running = "down"
    /\ running' = "loading"
    /\ next' = 1
    /\ overlap' = FALSE
    /\ UNCHANGED <<memory, files, toShadow, shades>>

LoadOf(f, M) ==
    [d \in Devices |->
        IF ~Present(d) /\ f.devices[d] # NoDevice /\ f.devices[d].model \in M
        THEN [f.devices[d] EXCEPT !.plugin = f.plugin] ELSE devices[d]]

\* What file f names that the files before it had named as well.
Overlaps(f) ==
    \/ \E d \in Devices : Present(d) /\ f.devices[d] # NoDevice
    \/ \E c \in f.conns : conns[c] # NoPlugin

\* loadConfig reads a file whose models are all new: a device that exists is
\* skipped, a connection that exists is overwritten.
LoadFile(f) ==
    /\ f \in Config
    /\ fileOf[f.plugin] = NoDir
    /\ \A m \in f.models : models[m] = NoPlugin
    /\ devices' = LoadOf(f, f.models)
    /\ models' = [m \in Models |-> IF m \in f.models THEN f.plugin ELSE models[m]]
    /\ conns' = [c \in Conns |-> IF c \in f.conns THEN f.plugin ELSE conns[c]]
    /\ fileOf' = [fileOf EXCEPT ![f.plugin] = Dirs[next]]
    /\ overlap' = (overlap \/ Overlaps(f))
    /\ next' = next + 1
    /\ UNCHANGED <<running, toShadow>>

\* Bug: a second file of a plugin is skipped as well.
SkipFile_Mutant(f) ==
    /\ f \in Config => fileOf[f.plugin] # NoDir
    /\ f # Partial
    /\ next' = next + 1
    /\ UNCHANGED <<memory, fileOf, running, toShadow, overlap>>

\* loadConfig skips a directory without a file, or with an empty one.
SkipFile(f) ==
    /\ f \in {NoFile, Empty}
    /\ next' = next + 1
    /\ UNCHANGED <<memory, fileOf, running, toShadow, overlap>>

\* loadConfig gives up on a file it cannot parse or whose plugin has a file.
RefuseFile(f) ==
    /\ f \in Config => fileOf[f.plugin] # NoDir
    /\ f \notin {NoFile, Empty}
    /\ running' = "failed"
    /\ UNCHANGED <<memory, fileOf, next, toShadow, overlap>>

\* loadConfig gives up at a model that exists, after the models before it (done)
\* and after the devices of that model.
BreakFile(f) ==
    /\ f \in Config
    /\ fileOf[f.plugin] = NoDir
    /\ \E bad \in {m \in f.models : models[m] # NoPlugin} :
       \E done \in SUBSET {m \in f.models : models[m] = NoPlugin} :
          /\ devices' = LoadOf(f, done \union {bad})
          /\ models' = [m \in Models |-> IF m \in done THEN f.plugin ELSE models[m]]
    /\ fileOf' = [fileOf EXCEPT ![f.plugin] = Dirs[next]]
    /\ running' = "failed"
    /\ UNCHANGED <<conns, next, toShadow, overlap>>

loadConfig ==
    /\ running = "loading"
    /\ next <= Len(Dirs)
    /\ LET f == disk[Dirs[next]]
       IN LoadFile(f) \/ SkipFile(f) \/ RefuseFile(f) \/ BreakFile(f)
    /\ UNCHANGED <<unsaved, writing, disk, kept, shades>>

\* Bug: the devices are listed before the files are loaded.
Loaded_Mutant ==
    /\ running = "loading"
    /\ next > Len(Dirs)
    /\ running' = "up"
    /\ toShadow' = {}
    /\ UNCHANGED <<memory, files, next, overlap, shades>>

\* The files are loaded; initDeviceShadow takes the list of devices.
Loaded ==
    /\ running = "loading"
    /\ next > Len(Dirs)
    /\ running' = "up"
    /\ toShadow' = {d \in Devices : Present(d)}
    /\ UNCHANGED <<memory, files, next, overlap, shades>>

\* initDeviceShadow adds one of the devices it listed.
initDeviceShadow(d) ==
    /\ running = "up"
    /\ d \in toShadow
    /\ shadows' = shadows \union {d}
    /\ toShadow' = toShadow \ {d}
    /\ UNCHANGED <<memory, files, running, next, overlap, stray>>

\* Stop, which Start also calls when it failed: the crontab is cleared and the
\* shadow is replaced; Reset then waits for the cache's lock and empties it.
Stop ==
    /\ running \in {"up", "failed"}
    /\ toShadow = {}
    /\ running' = "stopping"
    /\ shadows' = {} /\ stray' = {}
    /\ UNCHANGED <<memory, files, next, toShadow, overlap>>

\* cache.Reset forgets everything that is not on disk.
Clear ==
    /\ devices' = [d \in Devices |-> NoDevice]
    /\ models' = [m \in Models |-> NoPlugin]
    /\ conns' = [c \in Conns |-> NoPlugin]
    /\ fileOf' = [p \in Plugins |-> NoDir]
    /\ unsaved' = [p \in Plugins |-> "none"]

Reset ==
    /\ Unlocked
    /\ running = "stopping"
    /\ running' = "down"
    /\ Clear
    /\ UNCHANGED <<writing, disk, kept, next, toShadow, overlap, shades>>

\* The process dies; a file being written may be cut short or empty.
Crash ==
    /\ running # "down"
    /\ running' = "down"
    /\ Clear
    /\ shadows' = {} /\ stray' = {}
    /\ toShadow' = {}
    /\ writing' = NoPlugin
    /\ IF writing = NoPlugin THEN UNCHANGED disk
       ELSE \E f \in {Empty, Partial} : disk' = [disk EXCEPT ![FileFor(writing)] = f]
    /\ UNCHANGED <<kept, next, overlap>>

-----------------------------------------------------------------------------
Change ==
    \/ \E d \in Devices :
          \/ \E m \in Models, c \in Conns, pr \in Props \union {NilMap}, s \in Descs :
                AddOrUpdateDevice(d, m, c, pr, s)
          \/ \E pr \in Props : UpdateDeviceProperty(d, pr)
          \/ \E s \in Descs : UpdateDeviceDesc(d, s)
    \/ \E D \in SUBSET Devices : BatchRemoveDevice(D)
    \/ \E p \in Plugins, c \in Conns : AddConnection(p, c)
    \/ \E c \in Conns : DeleteConnection(c)
    \/ \E p \in Plugins, m \in Models : AddModel(p, m)
    \/ \E m \in Models : DeleteModel(m)

Next ==
    \/ Change
    \/ \E p \in Plugins : Settle(p) \/ Flush(p)
    \/ FlushEnd \/ FlushFail
    \/ Start \/ loadConfig \/ Loaded
    \/ \E d \in Devices : initDeviceShadow(d)
    \/ Stop \/ Reset \/ Crash

Spec == Init /\ [][Next]_vars

\* The crontab job runs, time passes, and a write does not fail for ever.
Fairness ==
    /\ \A p \in Plugins : SF_vars(AutoFlush(p)) /\ WF_vars(Settle(p))
    /\ SF_vars(FlushEnd)

FairSpec == Spec /\ Fairness

-----------------------------------------------------------------------------
(* What the cache promises *)

\* A device's model exists, and both belong to the plugin the device names:
\* whatever the order of additions, updates, deletions and loads, a request to
\* the device goes to the plugin that has its model (DeleteModel, AddModel,
\* AddOrUpdateDevice, loadConfig).
ReferencesHold ==
    running \in {"loading", "up"} =>
        \A d \in Devices : Present(d) => devices[d].plugin = models[devices[d].model]

\* Every cached device has a shadow, or will get one from the start in progress:
\* its points can be stored and its status followed (AddOrUpdateDevice,
\* BatchRemoveDevice, initDeviceShadow).
DevicesHaveShadows ==
    running = "up" => \A d \in Devices : Present(d) => d \in shadows \union toShadow

\* A plugin with connections and no unsaved change has its configuration on disk,
\* unless two files loaded named the same thing or the last write failed (Flush,
\* flushable, loadConfig).
SavedIsOnDisk ==
    \A p \in Plugins :
        /\ running = "up" /\ ~overlap
        /\ writing # p
        /\ unsaved[p] = "none"
        /\ ConfigOf(p).conns # {}
        => fileOf[p] # NoDir /\ disk[fileOf[p]] \in {ConfigOf(p), Partial, Empty}

\* One file per plugin: as long as every file Flush removed is gone, no plugin
\* has two, which loadConfig would refuse (Flush, which forgets the path).
OneFilePerPlugin ==
    ~kept => \A i, j \in DirSet :
        /\ disk[i] \in Config /\ disk[j] \in Config
        /\ disk[i].plugin = disk[j].plugin
        => i = j

\* The cache, its files and the shadows are consistent, as far as the four say.
CacheIsConsistent == SavedIsOnDisk /\ OneFilePerPlugin /\ ReferencesHold /\ DevicesHaveShadows

\* Loading brings back what was saved: once every file is read, the cache holds
\* for the plugin of each file what that file says, unless two files named the
\* same thing (loadConfig after Flush, FlushFail and Crash).
LoadRestoresFiles ==
    [][Loaded /\ ~overlap =>
          \A i \in DirSet : disk[i] \in Config =>
              ConfigOf(disk[i].plugin) = disk[i]]_vars

\* A shadow belongs to a device of the cache, whatever is added and removed while
\* the service starts, stops and starts again, but for the devices that were
\* removed while initDeviceShadow still had them on its list, and those that were
\* added after Stop had replaced the shadow (initDeviceShadow, Stop,
\* BatchRemoveDevice).
ShadowsHaveDevices == \A d \in shadows : Present(d) \/ d \in stray

\* What a settled change leaves unsaved is saved in the end, if the plugin keeps
\* a connection and the gateway keeps running (the crontab job, FlushFail).
SettledIsSaved ==
    \A p \in Plugins :
        (unsaved[p] = "settled" /\ running = "up")
        ~> (unsaved[p] # "settled" \/ running # "up" \/ ConfigOf(p).conns = {})

=============================================================================

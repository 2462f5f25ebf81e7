-------------------------- MODULE CoreCache_proofs --------------------------
(***************************************************************************)
(* Proofs about the core cache, for any plugins, models, devices,          *)
(* connections and directories that CacheAssumption allows.                *)
(***************************************************************************)
EXTENDS CoreCache, TLAPS

\* The file a plugin is flushed to is in one of the directories.
LEMMA FileForType ==
    ASSUME TypeOK, NEW p \in Plugins
    PROVE  FileFor(p) \in DirSet
BY CacheAssumption DEF TypeOK, FileFor

\* A directory under res/driver.
LEMMA DirsType ==
    ASSUME NEW i \in 1 .. Len(Dirs)
    PROVE  Dirs[i] \in DirSet
BY DEF DirSet

\* convertConfig makes a configuration.
LEMMA ConfigOfType ==
    ASSUME TypeOK, NEW p \in Plugins
    PROVE  ConfigOf(p) \in Config
<1>1. {m \in Models : models[m] = p} \in SUBSET Models
  OBVIOUS
<1>2. {c \in Conns : conns[c] = p} \in SUBSET Conns
  OBVIOUS
<1>3. [d \in Devices |-> IF Present(d) /\ models[devices[d].model] = p
                         THEN devices[d] ELSE NoDevice]
         \in [Devices -> DeviceRec \union {NoDevice}]
  BY DEF TypeOK
<1> QED BY <1>1, <1>2, <1>3 DEF ConfigOf, Config

\* A file is loaded into the devices of the cache.
LEMMA LoadOfType ==
    ASSUME TypeOK, NEW f \in Config, NEW M
    PROVE  LoadOf(f, M) \in [Devices -> DeviceRec \union {NoDevice}]
<1>1. f.plugin \in Plugins /\ f.devices \in [Devices -> DeviceRec \union {NoDevice}]
  BY DEF Config
<1>2. ASSUME NEW d \in Devices, f.devices[d] # NoDevice
      PROVE  [f.devices[d] EXCEPT !.plugin = f.plugin] \in DeviceRec
  BY <1>1, <1>2 DEF DeviceRec
<1>3. \A d \in Devices : devices[d] \in DeviceRec \union {NoDevice}
  BY DEF TypeOK
<1> QED BY <1>2, <1>3 DEF LoadOf

\* Init satisfies the type invariant.
LEMMA InitType == Init => TypeOK
<1> SUFFICES ASSUME Init PROVE TypeOK
  OBVIOUS
<1>1. disk \in [DirSet -> Content]
  BY CacheAssumption DEF Init
<1>2. 1 \in 1 .. Len(Dirs) + 1
  BY CacheAssumption
<1> QED BY <1>1, <1>2 DEF Init, EmptyMemory, TypeOK, Running

\* Every step keeps the type invariant.
LEMMA TypeStep == TypeOK /\ [Next]_vars => TypeOK'
<1> SUFFICES ASSUME TypeOK, [Next]_vars PROVE TypeOK'
  OBVIOUS
<1> USE DEF memory, files, startup, shades
<1>1. ASSUME NEW d \in Devices, NEW m \in Models, NEW c \in Conns,
             NEW pr \in Props \union {NilMap}, NEW s \in Descs,
             AddOrUpdateDevice(d, m, c, pr, s)
      PROVE  TypeOK'
  <2>1. models[m] \in Plugins
    BY <1>1 DEF AddOrUpdateDevice, TypeOK
  <2>2. [model |-> m, plugin |-> models[m], conn |-> c, props |-> pr, desc |-> s]
           \in DeviceRec
    BY <2>1 DEF DeviceRec
  <2> QED BY <1>1, <2>1, <2>2 DEF AddOrUpdateDevice, flushable, TypeOK
<1>2. ASSUME NEW d \in Devices, NEW pr \in Props, UpdateDeviceProperty(d, pr)
      PROVE  TypeOK'
  <2>1. devices[d] \in DeviceRec
    BY <1>2 DEF UpdateDeviceProperty, Present, TypeOK
  <2>2. [devices[d] EXCEPT !.props = pr] \in DeviceRec
    BY <2>1 DEF DeviceRec
  <2>3. devices[d].plugin \in Plugins
    BY <2>1 DEF DeviceRec
  <2>4. devices' \in [Devices -> DeviceRec \union {NoDevice}]
    BY <1>2, <2>2 DEF UpdateDeviceProperty, TypeOK
  <2> QED BY <1>2, <2>3, <2>4 DEF UpdateDeviceProperty, flushable, TypeOK
<1>3. ASSUME NEW d \in Devices, NEW s \in Descs, UpdateDeviceDesc(d, s)
      PROVE  TypeOK'
  BY <1>3 DEF UpdateDeviceDesc, flushable, TypeOK
<1>4. ASSUME NEW D \in SUBSET Devices, BatchRemoveDevice(D)
      PROVE  TypeOK'
  BY <1>4 DEF BatchRemoveDevice, TypeOK
<1>5. ASSUME NEW p \in Plugins, NEW c \in Conns, AddConnection(p, c)
      PROVE  TypeOK'
  BY <1>5 DEF AddConnection, flushable, TypeOK
<1>6. ASSUME NEW c \in Conns, DeleteConnection(c)
      PROVE  TypeOK'
  BY <1>6 DEF DeleteConnection, flushable, TypeOK
<1>7. ASSUME NEW p \in Plugins, NEW m \in Models, AddModel(p, m)
      PROVE  TypeOK'
  BY <1>7 DEF AddModel, flushable, TypeOK
<1>8. ASSUME NEW m \in Models, DeleteModel(m)
      PROVE  TypeOK'
  BY <1>8 DEF DeleteModel, flushable, TypeOK
<1>9. ASSUME NEW p \in Plugins, Settle(p)
      PROVE  TypeOK'
  BY <1>9 DEF Settle, TypeOK
<1>10. ASSUME NEW p \in Plugins, FlushIdle(p)
       PROVE  TypeOK'
  <2>1. disk' \in [DirSet -> Content]
    BY <1>10 DEF FlushIdle, TypeOK, Content
  <2>2. kept' \in BOOLEAN
    BY <1>10 DEF FlushIdle, TypeOK
  <2> QED BY <1>10, <2>1, <2>2 DEF FlushIdle, TypeOK
<1>11. ASSUME NEW p \in Plugins, FlushBegin(p)
       PROVE  TypeOK'
  <2>1. disk' \in [DirSet -> Content]
    BY <1>11 DEF FlushBegin, TypeOK, Content
  <2> QED BY <1>11, <2>1 DEF FlushBegin, TypeOK
<1>12. ASSUME FlushEnd PROVE TypeOK'
  <2>1. writing \in Plugins
    BY <1>12 DEF FlushEnd, TypeOK
  <2>2. ConfigOf(writing) \in Content /\ FileFor(writing) \in DirSet
    BY <2>1, ConfigOfType, FileForType DEF Content
  <2>3. disk' \in [DirSet -> Content] /\ fileOf' \in [Plugins -> DirSet \union {NoDir}]
    BY <1>12, <2>2 DEF FlushEnd, TypeOK
  <2> QED BY <1>12, <2>1, <2>3 DEF FlushEnd, TypeOK
<1>13. ASSUME FlushFail PROVE TypeOK'
  <2>1. PICK f \in {Empty, Partial} : disk' = [disk EXCEPT ![FileFor(writing)] = f]
    BY <1>13 DEF FlushFail
  <2>2. disk' \in [DirSet -> Content]
    BY <2>1 DEF TypeOK, Content
  <2> QED BY <1>13, <2>2 DEF FlushFail, TypeOK
<1>14. ASSUME Start PROVE TypeOK'
  <2>1. 1 \in 1 .. Len(Dirs) + 1
    BY CacheAssumption
  <2> QED BY <1>14, <2>1 DEF Start, TypeOK, Running
<1>15. ASSUME loadConfig PROVE TypeOK'
  <2> DEFINE f == disk[Dirs[next]]
  <2>1. next \in 1 .. Len(Dirs) /\ Dirs[next] \in DirSet /\ f \in Content
    BY <1>15, DirsType, CacheAssumption DEF loadConfig, TypeOK
  <2>2. next + 1 \in 1 .. Len(Dirs) + 1
    BY <2>1, CacheAssumption
  <2> HIDE DEF f
  <2>3. ASSUME LoadFile(f) PROVE TypeOK'
    <3>1. f \in Config /\ f.plugin \in Plugins /\ f.models \subseteq Models
          /\ f.conns \subseteq Conns
      BY <2>3 DEF LoadFile, Config
    <3>2. devices' \in [Devices -> DeviceRec \union {NoDevice}]
      BY <2>3, <3>1, LoadOfType DEF LoadFile
    <3>3. /\ models' \in [Models -> Plugins \union {NoPlugin}]
          /\ conns' \in [Conns -> Plugins \union {NoPlugin}]
          /\ fileOf' \in [Plugins -> DirSet \union {NoDir}]
      BY <2>1, <2>3, <3>1 DEF LoadFile, TypeOK
    <3>4. overlap' \in BOOLEAN /\ next' \in 1 .. Len(Dirs) + 1
      BY <2>2, <2>3 DEF LoadFile, TypeOK, Overlaps
    <3> QED BY <1>15, <2>3, <3>2, <3>3, <3>4 DEF loadConfig, LoadFile, TypeOK
  <2>4. ASSUME SkipFile(f) PROVE TypeOK'
    BY <1>15, <2>2, <2>4 DEF loadConfig, SkipFile, TypeOK
  <2>5. ASSUME RefuseFile(f) PROVE TypeOK'
    BY <1>15, <2>5 DEF loadConfig, RefuseFile, TypeOK, Running
  <2>6. ASSUME BreakFile(f) PROVE TypeOK'
    <3>1. f \in Config /\ f.plugin \in Plugins
      BY <2>6 DEF BreakFile, Config
    <3>2. devices' \in [Devices -> DeviceRec \union {NoDevice}]
      BY <2>6, <3>1, LoadOfType DEF BreakFile
    <3>3. /\ models' \in [Models -> Plugins \union {NoPlugin}]
          /\ fileOf' \in [Plugins -> DirSet \union {NoDir}]
      BY <2>1, <2>6, <3>1 DEF BreakFile, TypeOK
    <3> QED BY <1>15, <2>6, <3>2, <3>3 DEF loadConfig, BreakFile, TypeOK, Running
  <2> QED BY <1>15, <2>3, <2>4, <2>5, <2>6 DEF loadConfig, f
<1>16. ASSUME Loaded PROVE TypeOK'
  BY <1>16 DEF Loaded, TypeOK, Running
<1>17. ASSUME NEW d \in Devices, initDeviceShadow(d)
       PROVE  TypeOK'
  BY <1>17 DEF initDeviceShadow, TypeOK
<1>18. ASSUME Stop PROVE TypeOK'
  BY <1>18 DEF Stop, TypeOK, Running
<1>19. ASSUME Reset PROVE TypeOK'
  BY <1>19 DEF Reset, Clear, TypeOK, Running
<1>20. ASSUME Crash PROVE TypeOK'
  <2>1. disk' \in [DirSet -> Content]
    BY <1>20 DEF Crash, TypeOK, Content
  <2> QED BY <1>20, <2>1 DEF Crash, Clear, TypeOK, Running
<1>21. CASE UNCHANGED vars
  BY <1>21 DEF vars, TypeOK
<1> QED
  BY <1>1, <1>2, <1>3, <1>4, <1>5, <1>6, <1>7, <1>8, <1>9, <1>10, <1>11, <1>12,
     <1>13, <1>14, <1>15, <1>16, <1>17, <1>18, <1>19, <1>20, <1>21
     DEF Next, Change, Flush

-----------------------------------------------------------------------------
(* References *)

\* ReferencesHold with what makes it inductive: after Reset or a crash loading
\* starts from an empty cache, which loadConfig itself does not see to.
RefInv ==
    /\ running = "down" => \A d \in Devices : ~Present(d)
    /\ ReferencesHold

\* The methods and the start of the service keep devices and models in step.
LEMMA RefStep == TypeOK /\ RefInv /\ [Next]_vars => RefInv'
<1> SUFFICES ASSUME TypeOK, RefInv, [Next]_vars PROVE RefInv'
  OBVIOUS
<1> USE DEF memory, files, startup, shades
<1> DEFINE Refs == \A d \in Devices :
                      Present(d) => devices[d].plugin = models[devices[d].model]
<1>0. \A d \in Devices : Present(d) =>
         devices[d] \in DeviceRec /\ devices[d].model \in Models
  BY DEF TypeOK, Present, DeviceRec
<1>1. ASSUME NEW d \in Devices, NEW m \in Models, NEW c \in Conns,
             NEW pr \in Props \union {NilMap}, NEW s \in Descs,
             AddOrUpdateDevice(d, m, c, pr, s)
      PROVE  RefInv'
  <2>1. running' = running /\ running # "down"
    BY <1>1 DEF AddOrUpdateDevice, Unlocked
  <2>2. ASSUME running \in {"loading", "up"}, NEW e \in Devices, Present(e)'
        PROVE  devices'[e].plugin = models'[devices'[e].model]
    <3>1. CASE e = d
      BY <1>1, <3>1 DEF AddOrUpdateDevice, TypeOK
    <3>2. CASE e # d
      BY <1>1, <2>2, <3>2 DEF AddOrUpdateDevice, TypeOK, RefInv, ReferencesHold, Present
    <3> QED BY <3>1, <3>2
  <2> QED BY <2>1, <2>2 DEF RefInv, ReferencesHold
<1>2. ASSUME NEW d \in Devices, NEW pr \in Props, UpdateDeviceProperty(d, pr)
      PROVE  RefInv'
  <2>1. running' = running /\ running # "down" /\ models' = models
    BY <1>2 DEF UpdateDeviceProperty, Unlocked
  <2>2. ASSUME NEW e \in Devices, Present(e)'
        PROVE  /\ Present(e)
               /\ devices'[e].plugin = devices[e].plugin
               /\ devices'[e].model = devices[e].model
    BY <1>0, <1>2, <2>2 DEF UpdateDeviceProperty, Present, TypeOK, DeviceRec
  <2> QED BY <2>1, <2>2 DEF RefInv, ReferencesHold
<1>3. ASSUME NEW D \in SUBSET Devices, BatchRemoveDevice(D)
      PROVE  RefInv'
  BY <1>3 DEF BatchRemoveDevice, Unlocked, RefInv, ReferencesHold, Present, TypeOK
<1>4. ASSUME NEW p \in Plugins, NEW m \in Models, AddModel(p, m)
      PROVE  RefInv'
  <2>1. running' = running /\ running # "down" /\ devices' = devices
    BY <1>4 DEF AddModel, Unlocked
  <2>2. ASSUME NEW d \in Devices, Present(d), running \in {"loading", "up"}
        PROVE  models'[devices[d].model] = models[devices[d].model]
    <3>1. models[devices[d].model] \in Plugins
      BY <1>0, <2>2 DEF RefInv, ReferencesHold, DeviceRec
    <3> QED BY <1>0, <1>4, <2>2, <3>1, CacheAssumption DEF AddModel, TypeOK
  <2> QED BY <2>1, <2>2 DEF RefInv, ReferencesHold, Present
<1>5. ASSUME NEW m \in Models, DeleteModel(m)
      PROVE  RefInv'
  <2>1. running' = running /\ running # "down" /\ devices' = devices
    BY <1>5 DEF DeleteModel, Unlocked
  <2>2. ASSUME NEW d \in Devices, Present(d)
        PROVE  models'[devices[d].model] = models[devices[d].model]
    BY <1>0, <1>5, <2>2 DEF DeleteModel, TypeOK
  <2> QED BY <2>1, <2>2 DEF RefInv, ReferencesHold, Present
<1>6. ASSUME UNCHANGED memory, running' = running
      PROVE  RefInv'
  BY <1>6 DEF RefInv, ReferencesHold, Present
<1>7. ASSUME NEW d \in Devices, NEW s \in Descs, UpdateDeviceDesc(d, s)
      PROVE  RefInv'
  BY <1>6, <1>7 DEF UpdateDeviceDesc
<1>8. ASSUME \/ \E p \in Plugins, c \in Conns : AddConnection(p, c)
             \/ \E c \in Conns : DeleteConnection(c)
      PROVE  RefInv'
  BY <1>8 DEF AddConnection, DeleteConnection, RefInv, ReferencesHold, Present
<1>9. ASSUME \/ \E p \in Plugins : Settle(p) \/ Flush(p)
             \/ FlushEnd \/ FlushFail
             \/ \E d \in Devices : initDeviceShadow(d)
      PROVE  RefInv'
  BY <1>6, <1>9 DEF Settle, Flush, FlushIdle, FlushBegin, FlushEnd, FlushFail,
                    initDeviceShadow
<1>10. ASSUME Start PROVE RefInv'
  BY <1>10 DEF Start, RefInv, ReferencesHold, Present
<1>11. ASSUME loadConfig PROVE RefInv'
  <2> DEFINE f == disk[Dirs[next]]
  <2>1. Refs /\ running = "loading"
    BY <1>11 DEF loadConfig, RefInv, ReferencesHold
  <2> HIDE DEF f
  <2>2. ASSUME LoadFile(f) PROVE RefInv'
    <3>1. f \in Config /\ f.plugin \in Plugins /\ f.models \subseteq Models
          /\ f.devices \in [Devices -> DeviceRec \union {NoDevice}]
      BY <2>2 DEF LoadFile, Config
    <3>2. ASSUME NEW d \in Devices, Present(d)'
          PROVE  devices'[d].plugin = models'[devices'[d].model]
      <4>1. CASE Present(d)
        <5>1. devices'[d] = devices[d]
          BY <2>2, <4>1 DEF LoadFile, LoadOf
        <5>2. models[devices[d].model] \in Plugins
          BY <1>0, <2>1, <4>1 DEF DeviceRec
        <5>3. devices[d].model \notin f.models
          BY <2>2, <5>2, CacheAssumption DEF LoadFile
        <5> QED BY <1>0, <2>1, <2>2, <4>1, <5>1, <5>3 DEF LoadFile
      <4>2. CASE ~Present(d)
        <5>1. /\ f.devices[d] \in DeviceRec
              /\ f.devices[d].model \in f.models
              /\ devices'[d] = [f.devices[d] EXCEPT !.plugin = f.plugin]
          BY <2>2, <3>1, <3>2, <4>2 DEF LoadFile, LoadOf, Present
        <5>2. devices'[d].plugin = f.plugin /\ devices'[d].model = f.devices[d].model
          BY <5>1 DEF DeviceRec
        <5> QED BY <2>2, <3>1, <5>1, <5>2 DEF LoadFile
      <4> QED BY <4>1, <4>2
    <3> QED BY <2>1, <2>2, <3>2 DEF LoadFile, RefInv, ReferencesHold
  <2>3. ASSUME SkipFile(f) PROVE RefInv'
    BY <1>6, <2>3 DEF SkipFile
  <2>4. ASSUME RefuseFile(f) \/ BreakFile(f) PROVE RefInv'
    BY <2>4 DEF RefuseFile, BreakFile, RefInv, ReferencesHold
  <2> QED BY <1>11, <2>2, <2>3, <2>4 DEF loadConfig, f
<1>12. ASSUME Loaded PROVE RefInv'
  BY <1>12 DEF Loaded, RefInv, ReferencesHold, Present
<1>13. ASSUME Stop PROVE RefInv'
  BY <1>13 DEF Stop, RefInv, ReferencesHold
<1>14. ASSUME Reset \/ Crash PROVE RefInv'
  BY <1>14 DEF Reset, Crash, Clear, RefInv, ReferencesHold, Present
<1>15. CASE UNCHANGED vars
  BY <1>6, <1>15 DEF vars
<1> QED
  BY <1>1, <1>2, <1>3, <1>4, <1>5, <1>7, <1>8, <1>9, <1>10, <1>11, <1>12, <1>13,
     <1>14, <1>15 DEF Next, Change

-----------------------------------------------------------------------------
(* Shadows and connections *)

\* DevicesHaveShadows is kept by every step: while the service is up no step adds
\* a device without its shadow or takes a shadow without its device.
LEMMA ShadowStep == TypeOK /\ DevicesHaveShadows /\ [Next]_vars => DevicesHaveShadows'
<1> SUFFICES ASSUME TypeOK, DevicesHaveShadows, [Next]_vars, running' = "up"
             PROVE  \A d \in Devices : Present(d)' => d \in (shadows \union toShadow)'
  BY DEF DevicesHaveShadows
<1> USE DEF memory, files, startup, shades, DevicesHaveShadows, Present
<1>1. ASSUME NEW d \in Devices, NEW m \in Models, NEW c \in Conns,
             NEW pr \in Props \union {NilMap}, NEW s \in Descs,
             AddOrUpdateDevice(d, m, c, pr, s)
      PROVE  \A e \in Devices : Present(e)' => e \in (shadows \union toShadow)'
  BY <1>1 DEF AddOrUpdateDevice, TypeOK
<1>2. ASSUME NEW d \in Devices, NEW pr \in Props, UpdateDeviceProperty(d, pr)
      PROVE  \A e \in Devices : Present(e)' => e \in (shadows \union toShadow)'
  BY <1>2 DEF UpdateDeviceProperty, TypeOK
<1>3. ASSUME NEW D \in SUBSET Devices, BatchRemoveDevice(D)
      PROVE  \A e \in Devices : Present(e)' => e \in (shadows \union toShadow)'
  BY <1>3 DEF BatchRemoveDevice
<1>4. ASSUME running' = running, devices' = devices, shadows' = shadows,
             toShadow' = toShadow
      PROVE  \A e \in Devices : Present(e)' => e \in (shadows \union toShadow)'
  BY <1>4
<1>5. ASSUME \/ \E d \in Devices, s \in Descs : UpdateDeviceDesc(d, s)
             \/ \E p \in Plugins, c \in Conns : AddConnection(p, c)
             \/ \E c \in Conns : DeleteConnection(c)
             \/ \E p \in Plugins, m \in Models : AddModel(p, m)
             \/ \E m \in Models : DeleteModel(m)
             \/ \E p \in Plugins : Settle(p) \/ Flush(p)
             \/ FlushEnd \/ FlushFail \/ UNCHANGED vars
      PROVE  \A e \in Devices : Present(e)' => e \in (shadows \union toShadow)'
  BY <1>4, <1>5 DEF UpdateDeviceDesc, AddConnection, DeleteConnection, AddModel,
     DeleteModel, Settle, Flush, FlushIdle, FlushBegin, FlushEnd, FlushFail, vars
<1>6. ASSUME loadConfig
      PROVE  FALSE
  BY <1>6 DEF loadConfig, LoadFile, SkipFile, RefuseFile, BreakFile
<1>7. ASSUME Loaded
      PROVE  \A e \in Devices : Present(e)' => e \in (shadows \union toShadow)'
  BY <1>7 DEF Loaded
<1>8. ASSUME NEW d \in Devices, initDeviceShadow(d)
      PROVE  \A e \in Devices : Present(e)' => e \in (shadows \union toShadow)'
  BY <1>8 DEF initDeviceShadow
<1>9. ASSUME Start \/ Stop \/ Reset \/ Crash
      PROVE  FALSE
  BY <1>9 DEF Start, Stop, Reset, Crash
<1> QED BY <1>1, <1>2, <1>3, <1>5, <1>6, <1>7, <1>8, <1>9 DEF Next, Change

-----------------------------------------------------------------------------
(* Files *)

\* Nothing is cached before loading and after a stop; loading leaves nothing unsaved,
\* and a file is written only while the service runs or stops.
IdleInv ==
    /\ running = "down" => EmptyMemory
    /\ running = "loading" => \A p \in Plugins : unsaved[p] = "none"
    /\ writing # NoPlugin => running \in {"up", "stopping"}

\* No plugin writes a file that another writes or may come to write, and the files
\* in its directory are its own.
OwnFiles ==
    /\ \A p, q \in Plugins : fileOf[p] = DefaultDir[q] => p = q
    /\ \A p, q \in Plugins : fileOf[p] # NoDir /\ fileOf[p] = fileOf[q] => p = q
    /\ \A i \in DirSet : disk[i] \in Config =>
          /\ Listed(disk[i])
          /\ \A p \in Plugins : DefaultDir[p] = i => disk[i].plugin = p

\* What is being written is consistent, even when the service is stopping.
WriterInv ==
    writing # NoPlugin =>
        \A d \in Devices : Present(d) => devices[d].plugin = models[devices[d].model]

\* The cache knows every file, unless one could not be removed.
KnownFiles ==
    ~kept /\ (running = "up" \/ writing # NoPlugin) =>
        \A i \in DirSet : disk[i] \in Config => fileOf[disk[i].plugin] = i

\* loadConfig so far: every file read is known, the path of a plugin leads to its file,
\* and what is cached for it is what the file says.
LoadInv ==
    running = "loading" =>
        /\ \A j \in 1 .. next - 1 :
              disk[Dirs[j]] \in Config => fileOf[disk[Dirs[j]].plugin] = Dirs[j]
        /\ \A p \in Plugins : fileOf[p] # NoDir =>
              disk[fileOf[p]] \in Config /\ disk[fileOf[p]].plugin = p
        /\ ~overlap => \A p \in Plugins :
              /\ fileOf[p] = NoDir => /\ \A m \in Models : models[m] # p
                                      /\ \A c \in Conns : conns[c] # p
              /\ fileOf[p] # NoDir => ConfigOf(p) = disk[fileOf[p]]

\* A plugin without unsaved changes has a path, and unless it is being written the file
\* there says what is cached, or was cut short.
SavedInv ==
    running = "up" /\ ~overlap =>
        \A p \in Plugins : unsaved[p] = "none" /\ ConfigOf(p).conns # {} =>
            /\ fileOf[p] # NoDir
            /\ writing # p => disk[fileOf[p]] \in {ConfigOf(p), Partial, Empty}

FileInv ==
    /\ IdleInv /\ OwnFiles /\ WriterInv /\ KnownFiles /\ LoadInv /\ SavedInv
    /\ OneFilePerPlugin

\* A missing, empty or cut file is not a configuration.
LEMMA NotConfig == NoFile \notin Config /\ Empty \notin Config /\ Partial \notin Config
  BY DEF NoFile, Empty, Partial, Config

\* Two plugins are never flushed to one file.
LEMMA FileForInjective ==
    ASSUME TypeOK, OwnFiles, NEW p \in Plugins, NEW q \in Plugins, FileFor(p) = FileFor(q)
    PROVE  p = q
BY InstallAssumption DEF TypeOK, OwnFiles, FileFor

\* A change of the memory that does not touch what is stored for q.
LEMMA ConfigSame ==
    ASSUME NEW q \in Plugins,
           \A m \in Models : models'[m] = q <=> models[m] = q,
           \A c \in Conns : conns'[c] = q <=> conns[c] = q,
           \A d \in Devices :
              (IF Present(d)' /\ models'[devices'[d].model] = q THEN devices'[d] ELSE NoDevice)
              = (IF Present(d) /\ models[devices[d].model] = q THEN devices[d] ELSE NoDevice)
    PROVE  ConfigOf(q)' = ConfigOf(q)
<1>1. {m \in Models : models'[m] = q} = {m \in Models : models[m] = q}
  OBVIOUS
<1>2. {c \in Conns : conns'[c] = q} = {c \in Conns : conns[c] = q}
  OBVIOUS
<1>3. [d \in Devices |-> IF Present(d)' /\ models'[devices'[d].model] = q THEN devices'[d] ELSE NoDevice]
      = [d \in Devices |-> IF Present(d) /\ models[devices[d].model] = q THEN devices[d] ELSE NoDevice]
  OBVIOUS
<1> QED BY <1>1, <1>2, <1>3 DEF ConfigOf

\* The methods mark for the next flush every plugin whose configuration they change.
LEMMA ChangeIsMarked ==
    ASSUME TypeOK, RefInv, running = "up", Change, NEW q \in Plugins, unsaved'[q] = "none"
    PROVE  unsaved[q] = "none" /\ ConfigOf(q)' = ConfigOf(q)
<1> USE DEF memory, files, startup, shades
<1>0. \A d \in Devices : Present(d) =>
         /\ devices[d] \in DeviceRec /\ devices[d].model \in Models
         /\ devices[d].plugin = models[devices[d].model]
  BY DEF TypeOK, Present, DeviceRec, RefInv, ReferencesHold
<1>1. ASSUME NEW d \in Devices, NEW m \in Models, NEW c \in Conns,
             NEW pr \in Props \union {NilMap}, NEW s \in Descs,
             AddOrUpdateDevice(d, m, c, pr, s)
      PROVE  unsaved[q] = "none" /\ ConfigOf(q)' = ConfigOf(q)
  <2>1. models[m] \in Plugins /\ models[m] # q /\ unsaved[q] = "none"
    BY <1>1 DEF AddOrUpdateDevice, flushable, TypeOK
  <2>2. models' = models /\ conns' = conns
    BY <1>1 DEF AddOrUpdateDevice
  <2>3. ASSUME NEW e \in Devices
        PROVE  (IF Present(e)' /\ models'[devices'[e].model] = q THEN devices'[e] ELSE NoDevice)
               = (IF Present(e) /\ models[devices[e].model] = q THEN devices[e] ELSE NoDevice)
    <3>1. CASE e = d
      <4>1. devices'[e].model = m
        BY <1>1, <3>1 DEF AddOrUpdateDevice, TypeOK
      <4>2. Present(e) => devices[e].model = m
        BY <1>1, <3>1 DEF AddOrUpdateDevice
      <4> QED BY <2>1, <2>2, <4>1, <4>2
    <3>2. CASE e # d
      BY <1>1, <2>2, <3>2 DEF AddOrUpdateDevice, TypeOK, Present
    <3> QED BY <3>1, <3>2
  <2> QED BY <2>1, <2>2, <2>3, ConfigSame
<1>2. ASSUME NEW d \in Devices, NEW pr \in Props, UpdateDeviceProperty(d, pr)
      PROVE  unsaved[q] = "none" /\ ConfigOf(q)' = ConfigOf(q)
  <2>1. devices[d].plugin \in Plugins /\ devices[d].plugin # q /\ unsaved[q] = "none"
    BY <1>0, <1>2 DEF UpdateDeviceProperty, flushable, TypeOK, DeviceRec
  <2>2. models' = models /\ conns' = conns
    BY <1>2 DEF UpdateDeviceProperty
  <2>3. ASSUME NEW e \in Devices
        PROVE  (IF Present(e)' /\ models'[devices'[e].model] = q THEN devices'[e] ELSE NoDevice)
               = (IF Present(e) /\ models[devices[e].model] = q THEN devices[e] ELSE NoDevice)
    <3>1. CASE e = d
      <4>1. devices'[e].model = devices[e].model
        BY <1>0, <1>2, <3>1 DEF UpdateDeviceProperty, TypeOK, DeviceRec
      <4> QED BY <1>0, <1>2, <2>1, <2>2, <3>1, <4>1 DEF UpdateDeviceProperty
    <3>2. CASE e # d
      BY <1>2, <2>2, <3>2 DEF UpdateDeviceProperty, TypeOK, Present
    <3> QED BY <3>1, <3>2
  <2> QED BY <2>1, <2>2, <2>3, ConfigSame
<1>3. ASSUME NEW d \in Devices, NEW s \in Descs, UpdateDeviceDesc(d, s)
      PROVE  unsaved[q] = "none" /\ ConfigOf(q)' = ConfigOf(q)
  BY <1>3 DEF UpdateDeviceDesc, flushable, TypeOK, ConfigOf, Present
<1>4. ASSUME NEW D \in SUBSET Devices, BatchRemoveDevice(D)
      PROVE  unsaved[q] = "none" /\ ConfigOf(q)' = ConfigOf(q)
  <2>1. unsaved[q] = "none" /\ \A d \in D : Present(d) => devices[d].plugin # q
    BY <1>4 DEF BatchRemoveDevice, TypeOK
  <2>2. models' = models /\ conns' = conns
    BY <1>4 DEF BatchRemoveDevice
  <2>3. ASSUME NEW e \in Devices
        PROVE  (IF Present(e)' /\ models'[devices'[e].model] = q THEN devices'[e] ELSE NoDevice)
               = (IF Present(e) /\ models[devices[e].model] = q THEN devices[e] ELSE NoDevice)
    <3>1. CASE e \in D
      BY <1>0, <1>4, <2>1, <2>2, <3>1 DEF BatchRemoveDevice, Present
    <3>2. CASE e \notin D
      BY <1>4, <2>2, <3>2 DEF BatchRemoveDevice, Present
    <3> QED BY <3>1, <3>2
  <2> QED BY <2>1, <2>2, <2>3, ConfigSame
<1>5. ASSUME NEW p \in Plugins, NEW c \in Conns, AddConnection(p, c)
      PROVE  unsaved[q] = "none" /\ ConfigOf(q)' = ConfigOf(q)
  <2>1. p # q /\ unsaved[q] = "none"
    BY <1>5 DEF AddConnection, flushable, TypeOK
  <2>2. models' = models /\ devices' = devices
    BY <1>5 DEF AddConnection
  <2>3. \A k \in Conns : conns'[k] = q <=> conns[k] = q
    BY <1>5, <2>1, CacheAssumption DEF AddConnection, TypeOK
  <2> QED BY <2>1, <2>2, <2>3, ConfigSame DEF Present
<1>6. ASSUME NEW c \in Conns, DeleteConnection(c)
      PROVE  unsaved[q] = "none" /\ ConfigOf(q)' = ConfigOf(q)
  <2>1. conns[c] # q /\ unsaved[q] = "none"
    BY <1>6 DEF DeleteConnection, flushable, TypeOK
  <2>2. models' = models /\ devices' = devices
    BY <1>6 DEF DeleteConnection
  <2>3. \A k \in Conns : conns'[k] = q <=> conns[k] = q
    BY <1>6, <2>1, CacheAssumption DEF DeleteConnection, TypeOK
  <2> QED BY <2>1, <2>2, <2>3, ConfigSame DEF Present
<1>7. ASSUME \/ \E p \in Plugins, m \in Models : AddModel(p, m)
             \/ \E m \in Models : DeleteModel(m)
      PROVE  unsaved[q] = "none" /\ ConfigOf(q)' = ConfigOf(q)
  <2>1. unsaved[q] = "none" /\ \A k \in Models : models'[k] = q <=> models[k] = q
    BY <1>7, CacheAssumption DEF AddModel, DeleteModel, flushable, TypeOK
  <2>2. conns' = conns /\ devices' = devices
    BY <1>7 DEF AddModel, DeleteModel
  <2>3. ASSUME NEW e \in Devices
        PROVE  (IF Present(e)' /\ models'[devices'[e].model] = q THEN devices'[e] ELSE NoDevice)
               = (IF Present(e) /\ models[devices[e].model] = q THEN devices[e] ELSE NoDevice)
    BY <1>0, <2>1, <2>2 DEF Present
  <2> QED BY <2>1, <2>2, <2>3, ConfigSame
<1> QED BY <1>1, <1>2, <1>3, <1>4, <1>5, <1>6, <1>7 DEF Change

\* No step but FlushEnd puts a configuration on disk.
LEMMA DiskStep ==
    ASSUME TypeOK, [Next]_vars, NEW i \in DirSet, disk'[i] \in Config
    PROVE  disk'[i] = disk[i] \/ (FlushEnd /\ i = FileFor(writing) /\ disk'[i] = ConfigOf(writing))
<1> USE DEF memory, files, startup, shades
<1>1. ASSUME FlushEnd PROVE disk'[i] = disk[i] \/ (i = FileFor(writing) /\ disk'[i] = ConfigOf(writing))
  BY <1>1 DEF FlushEnd, TypeOK
<1>2. ASSUME \/ \E p \in Plugins : Flush(p)
             \/ FlushFail \/ Crash
      PROVE  disk'[i] = disk[i]
  BY <1>2, NotConfig DEF Flush, FlushIdle, FlushBegin, FlushFail, Crash, TypeOK
<1>3. ASSUME \/ Change \/ \E p \in Plugins : Settle(p)
             \/ Start \/ loadConfig \/ Loaded \/ Stop \/ Reset
             \/ \E d \in Devices : initDeviceShadow(d)
             \/ UNCHANGED vars
      PROVE  disk'[i] = disk[i]
  BY <1>3 DEF Change, AddOrUpdateDevice, UpdateDeviceProperty, UpdateDeviceDesc, BatchRemoveDevice,
     AddConnection, DeleteConnection, AddModel, DeleteModel, Settle, Start, loadConfig, Loaded, Stop,
     Reset, initDeviceShadow, vars
<1> QED BY <1>1, <1>2, <1>3 DEF Next

\* Stop, Reset and a crash leave nothing behind, and the lock keeps a write from outliving them.
LEMMA IdleStep == TypeOK /\ IdleInv /\ [Next]_vars => IdleInv'
<1> SUFFICES ASSUME TypeOK, IdleInv, [Next]_vars PROVE IdleInv'
  OBVIOUS
<1> USE DEF memory, files, startup, shades, IdleInv, EmptyMemory
<1>1. ASSUME Change \/ \E p \in Plugins : Flush(p) PROVE IdleInv'
  <2>1. Unlocked /\ running' = running
    BY <1>1 DEF Change, AddOrUpdateDevice, UpdateDeviceProperty, UpdateDeviceDesc, BatchRemoveDevice,
       AddConnection, DeleteConnection, AddModel, DeleteModel, Flush, FlushIdle, FlushBegin
  <2> QED BY <2>1 DEF Unlocked
<1>2. ASSUME NEW p \in Plugins, Settle(p) PROVE IdleInv'
  <2>1. running \notin {"down", "loading"}
    BY <1>2 DEF Settle
  <2> QED BY <1>2, <2>1 DEF Settle
<1>3. ASSUME FlushEnd \/ FlushFail PROVE IdleInv'
  BY <1>3 DEF FlushEnd, FlushFail
<1>4. ASSUME Start PROVE IdleInv'
  BY <1>4 DEF Start
<1>5. ASSUME loadConfig PROVE IdleInv'
  BY <1>5 DEF loadConfig, LoadFile, SkipFile, RefuseFile, BreakFile
<1>6. ASSUME Loaded \/ (\E d \in Devices : initDeviceShadow(d)) \/ Stop PROVE IdleInv'
  BY <1>6 DEF Loaded, initDeviceShadow, Stop
<1>7. ASSUME Reset \/ Crash PROVE IdleInv'
  BY <1>7 DEF Reset, Crash, Clear, Unlocked
<1>8. CASE UNCHANGED vars
  BY <1>8 DEF vars
<1> QED BY <1>1, <1>2, <1>3, <1>4, <1>5, <1>6, <1>7, <1>8 DEF Next

\* What FlushEnd writes lists the models of its devices.
LEMMA WrittenIsListed ==
    ASSUME TypeOK, WriterInv, writing \in Plugins
    PROVE  Listed(ConfigOf(writing))
<1>1. writing # NoPlugin
  BY CacheAssumption
<1>2. ASSUME NEW d \in Devices, ConfigOf(writing).devices[d] # NoDevice
      PROVE  /\ ConfigOf(writing).devices[d].model \in ConfigOf(writing).models
             /\ ConfigOf(writing).devices[d].plugin = ConfigOf(writing).plugin
  <2>1. Present(d) /\ models[devices[d].model] = writing /\ ConfigOf(writing).devices[d] = devices[d]
    BY <1>2 DEF ConfigOf
  <2>2. devices[d].model \in Models /\ devices[d].plugin = writing
    BY <1>1, <2>1 DEF TypeOK, Present, DeviceRec, WriterInv
  <2> QED BY <2>1, <2>2 DEF ConfigOf
<1> QED BY <1>2 DEF Listed

\* The path of a plugin is lost, stays, comes from a file of the plugin, or is where it was written.
LEMMA PathStep ==
    ASSUME TypeOK, [Next]_vars, NEW p \in Plugins, fileOf'[p] # NoDir
    PROVE  \/ fileOf'[p] = fileOf[p]
           \/ /\ running = "loading" /\ fileOf[p] = NoDir
              /\ disk[fileOf'[p]] \in Config /\ disk[fileOf'[p]].plugin = p
              /\ fileOf'[p] \in DirSet /\ \A q \in Plugins : q # p => fileOf'[q] = fileOf[q]
           \/ FlushEnd /\ p = writing /\ fileOf'[p] = FileFor(p)
<1> USE DEF memory, files, startup, shades
<1>1. ASSUME NEW q \in Plugins, Flush(q)
      PROVE  fileOf'[p] = fileOf[p]
  BY <1>1 DEF Flush, FlushIdle, FlushBegin, TypeOK
<1>2. ASSUME FlushEnd PROVE fileOf'[p] = fileOf[p] \/ (p = writing /\ fileOf'[p] = FileFor(p))
  BY <1>2 DEF FlushEnd, TypeOK
<1>3. ASSUME loadConfig
      PROVE  \/ fileOf'[p] = fileOf[p]
             \/ /\ running = "loading" /\ fileOf[p] = NoDir
                /\ disk[fileOf'[p]] \in Config /\ disk[fileOf'[p]].plugin = p
                /\ fileOf'[p] \in DirSet /\ \A q \in Plugins : q # p => fileOf'[q] = fileOf[q]
  <2> DEFINE f == disk[Dirs[next]]
  <2>1. running = "loading" /\ next \in 1 .. Len(Dirs) /\ Dirs[next] \in DirSet
    BY <1>3, DirsType, CacheAssumption DEF loadConfig, TypeOK
  <2>2. CASE LoadFile(f) \/ BreakFile(f)
    <3>1. /\ f \in Config /\ f.plugin \in Plugins /\ fileOf[f.plugin] = NoDir
          /\ fileOf' = [fileOf EXCEPT ![f.plugin] = Dirs[next]]
      BY <2>2 DEF LoadFile, BreakFile, Config
    <3> QED BY <2>1, <3>1 DEF TypeOK
  <2>3. CASE SkipFile(f) \/ RefuseFile(f)
    BY <2>3 DEF SkipFile, RefuseFile
  <2> QED BY <1>3, <2>2, <2>3 DEF loadConfig
<1>4. ASSUME Reset \/ Crash PROVE FALSE
  BY <1>4 DEF Reset, Crash, Clear
<1>5. ASSUME \/ Change \/ \E q \in Plugins : Settle(q)
             \/ FlushFail \/ Start \/ Loaded \/ Stop
             \/ \E d \in Devices : initDeviceShadow(d)
             \/ UNCHANGED vars
      PROVE  fileOf'[p] = fileOf[p]
  BY <1>5 DEF Change, AddOrUpdateDevice, UpdateDeviceProperty, UpdateDeviceDesc, BatchRemoveDevice,
     AddConnection, DeleteConnection, AddModel, DeleteModel, Settle, FlushFail, Start, Loaded, Stop,
     initDeviceShadow, vars
<1> QED BY <1>1, <1>2, <1>3, <1>4, <1>5 DEF Next

\* Plugins keep their files to themselves.
LEMMA OwnFilesStep == TypeOK /\ FileInv /\ [Next]_vars => OwnFiles'
<1> SUFFICES ASSUME TypeOK, FileInv, [Next]_vars PROVE OwnFiles'
  OBVIOUS
<1>0. /\ OwnFiles /\ WriterInv /\ LoadInv
      /\ \A p \in Plugins : fileOf[p] \in DirSet \union {NoDir}
      /\ TypeOK'
  BY TypeStep DEF FileInv, TypeOK
<1>1. ASSUME NEW p \in Plugins, NEW q \in Plugins, fileOf'[p] = DefaultDir[q]
      PROVE  p = q
  <2>1. fileOf'[p] # NoDir /\ DefaultDir[q] \in DirSet
    BY <1>1, CacheAssumption
  <2>2. CASE fileOf'[p] = fileOf[p]
    BY <1>0, <1>1, <2>2 DEF OwnFiles
  <2>3. CASE disk[fileOf'[p]] \in Config /\ disk[fileOf'[p]].plugin = p
    BY <1>0, <1>1, <2>1, <2>3 DEF OwnFiles
  <2>4. CASE fileOf'[p] = FileFor(p)
    BY <1>0, <1>1, <2>4, InstallAssumption DEF OwnFiles, FileFor
  <2> QED BY <2>1, <2>2, <2>3, <2>4, PathStep
<1>2. ASSUME NEW p \in Plugins, NEW q \in Plugins, fileOf'[p] # NoDir, fileOf'[p] = fileOf'[q], p # q
      PROVE  FALSE
  <2>1. CASE fileOf'[p] = fileOf[p] /\ fileOf'[q] = fileOf[q]
    BY <1>0, <1>2, <2>1 DEF OwnFiles
  <2>2. ASSUME NEW r \in Plugins, NEW t \in Plugins, r # t, fileOf'[r] = fileOf'[t], fileOf'[r] # NoDir,
               running = "loading", disk[fileOf'[r]] \in Config, disk[fileOf'[r]].plugin = r,
               fileOf'[t] = fileOf[t]
        PROVE  FALSE
    BY <1>0, <2>2 DEF LoadInv
  <2>3. ASSUME NEW r \in Plugins, NEW t \in Plugins, r # t, fileOf'[r] = fileOf'[t], fileOf'[r] # NoDir,
               fileOf'[r] = FileFor(r), fileOf'[t] = fileOf[t]
        PROVE  FALSE
    <3>1. FileFor(t) = fileOf[t]
      BY <2>3 DEF FileFor
    <3> QED BY <1>0, <2>3, <3>1, FileForInjective
  <2>4. CASE fileOf'[p] # fileOf[p]
    BY <1>2, <2>2, <2>3, <2>4, PathStep
  <2>5. CASE fileOf'[q] # fileOf[q]
    BY <1>2, <2>2, <2>3, <2>5, PathStep
  <2> QED BY <2>1, <2>4, <2>5
<1>3. ASSUME NEW i \in DirSet, disk'[i] \in Config
      PROVE  /\ Listed(disk'[i])
             /\ \A p \in Plugins : DefaultDir[p] = i => disk'[i].plugin = p
  <2>1. CASE disk'[i] = disk[i]
    BY <1>0, <1>3, <2>1 DEF OwnFiles
  <2>2. CASE FlushEnd /\ i = FileFor(writing) /\ disk'[i] = ConfigOf(writing)
    <3>1. writing \in Plugins
      BY <2>2 DEF FlushEnd, TypeOK
    <3>2. ASSUME NEW p \in Plugins, DefaultDir[p] = i PROVE p = writing
      BY <1>0, <2>2, <3>1, <3>2, InstallAssumption DEF OwnFiles, FileFor
    <3> QED BY <1>0, <2>2, <3>1, <3>2, WrittenIsListed DEF ConfigOf
  <2> QED BY <1>3, <2>1, <2>2, DiskStep
<1> QED BY <1>1, <1>2, <1>3 DEF OwnFiles, Listed

\* A write begins while references hold, and nothing changes until it ends.
LEMMA WriterStep == TypeOK /\ RefInv /\ FileInv /\ [Next]_vars => WriterInv'
<1> SUFFICES ASSUME TypeOK, RefInv, FileInv, [Next]_vars, writing' # NoPlugin
             PROVE  \A d \in Devices : Present(d)' => devices'[d].plugin = models'[devices'[d].model]
  BY DEF WriterInv
<1> USE DEF memory, files, startup, shades
<1>1. ASSUME NEW p \in Plugins, FlushBegin(p)
      PROVE  \A d \in Devices : Present(d)' => devices'[d].plugin = models'[devices'[d].model]
  BY <1>1 DEF FlushBegin, RefInv, ReferencesHold, Present
<1>2. ASSUME Change \/ (\E p \in Plugins : FlushIdle(p)) \/ Reset \/ loadConfig
      PROVE  FALSE
  BY <1>2 DEF Change, AddOrUpdateDevice, UpdateDeviceProperty, UpdateDeviceDesc, BatchRemoveDevice,
     AddConnection, DeleteConnection, AddModel, DeleteModel, FlushIdle, Reset, loadConfig, Unlocked,
     FileInv, IdleInv
<1>3. ASSUME FlushEnd \/ FlushFail \/ Crash
      PROVE  FALSE
  BY <1>3 DEF FlushEnd, FlushFail, Crash
<1>4. ASSUME \/ \E p \in Plugins : Settle(p)
             \/ Start \/ Loaded \/ Stop
             \/ \E d \in Devices : initDeviceShadow(d)
             \/ UNCHANGED vars
      PROVE  \A d \in Devices : Present(d)' => devices'[d].plugin = models'[devices'[d].model]
  BY <1>4 DEF Settle, Start, Loaded, Stop, initDeviceShadow, vars, FileInv, WriterInv, Present
<1> QED BY <1>1, <1>2, <1>3, <1>4 DEF Next, Flush

\* Once loaded every file is known, and stays so.
LEMMA KnownStep == TypeOK /\ FileInv /\ [Next]_vars => KnownFiles'
<1> SUFFICES ASSUME TypeOK, FileInv, [Next]_vars, ~kept', running' = "up" \/ writing' # NoPlugin,
                    NEW i \in DirSet, disk'[i] \in Config
             PROVE  fileOf'[disk'[i].plugin] = i
  BY DEF KnownFiles
<1> USE DEF memory, files, startup, shades
<1>0. OwnFiles /\ KnownFiles /\ LoadInv /\ IdleInv
  BY DEF FileInv
<1>c. ASSUME NEW f \in Config PROVE f.plugin \in Plugins
  BY DEF Config
<1>1. ASSUME \/ Change \/ (\E p \in Plugins : Settle(p))
             \/ Stop \/ (\E d \in Devices : initDeviceShadow(d)) \/ UNCHANGED vars
      PROVE  fileOf'[disk'[i].plugin] = i
  <2>1. /\ disk' = disk /\ fileOf' = fileOf /\ kept' = kept /\ writing' = writing
        /\ running' = running \/ running' = "stopping"
    BY <1>1 DEF Change, AddOrUpdateDevice, UpdateDeviceProperty, UpdateDeviceDesc, BatchRemoveDevice,
       AddConnection, DeleteConnection, AddModel, DeleteModel, Settle, Stop, initDeviceShadow, vars
  <2> QED BY <1>0, <2>1 DEF KnownFiles
<1>2. ASSUME NEW p \in Plugins, FlushIdle(p) PROVE fileOf'[disk'[i].plugin] = i
  <2>1. disk' = [disk EXCEPT ![fileOf[p]] = NoFile] /\ ~kept /\ running = "up" /\ fileOf[p] \in DirSet
    BY <1>2 DEF FlushIdle, TypeOK
  <2>2. i # fileOf[p] /\ disk'[i] = disk[i]
    BY <2>1, NotConfig DEF TypeOK
  <2>3. fileOf[disk[i].plugin] = i /\ disk[i].plugin \in Plugins
    BY <1>0, <1>c, <2>1, <2>2 DEF KnownFiles
  <2> QED BY <1>2, <2>2, <2>3 DEF FlushIdle, TypeOK
<1>3. ASSUME NEW p \in Plugins, FlushBegin(p) PROVE fileOf'[disk'[i].plugin] = i
  <2>1. disk'[i] = disk[i]
    BY <1>3, NotConfig DEF FlushBegin, TypeOK
  <2> QED BY <1>0, <1>3, <2>1 DEF FlushBegin, KnownFiles
<1>4. ASSUME FlushEnd PROVE fileOf'[disk'[i].plugin] = i
  <2>1. writing \in Plugins /\ writing # NoPlugin /\ ~kept /\ fileOf' = [fileOf EXCEPT ![writing] = FileFor(writing)]
    BY <1>4 DEF FlushEnd, TypeOK
  <2>2. CASE i = FileFor(writing)
    <3>1. disk'[i].plugin = writing
      BY <1>4, <2>2 DEF FlushEnd, TypeOK, ConfigOf
    <3> QED BY <2>1, <2>2, <3>1 DEF TypeOK
  <2>3. CASE i # FileFor(writing)
    <3>1. disk'[i] = disk[i]
      BY <1>4, <2>3 DEF FlushEnd, TypeOK
    <3>2. fileOf[disk[i].plugin] = i /\ disk[i].plugin \in Plugins
      BY <1>0, <1>c, <2>1, <3>1 DEF KnownFiles
    <3>3. disk[i].plugin # writing
      BY <2>3, <3>2, CacheAssumption DEF FileFor
    <3> QED BY <2>1, <3>1, <3>2, <3>3 DEF TypeOK
  <2> QED BY <2>2, <2>3
<1>5. ASSUME FlushFail PROVE fileOf'[disk'[i].plugin] = i
  <2>1. disk'[i] = disk[i]
    BY <1>5, NotConfig DEF FlushFail, TypeOK
  <2> QED BY <1>0, <1>5, <2>1 DEF FlushFail, KnownFiles
<1>6. ASSUME Loaded PROVE fileOf'[disk'[i].plugin] = i
  <2>1. running = "loading" /\ next > Len(Dirs) /\ disk' = disk /\ fileOf' = fileOf
    BY <1>6 DEF Loaded
  <2>2. PICK j \in 1 .. Len(Dirs) : Dirs[j] = i
    BY DEF DirSet
  <2>3. j \in 1 .. next - 1
    BY <2>1, CacheAssumption DEF TypeOK
  <2> QED BY <1>0, <2>1, <2>2, <2>3 DEF LoadInv
<1>7. ASSUME Start \/ loadConfig \/ Reset \/ Crash PROVE FALSE
  BY <1>0, <1>7 DEF Start, loadConfig, LoadFile, SkipFile, RefuseFile, BreakFile, Reset, Crash, IdleInv, Unlocked
<1> QED BY <1>1, <1>2, <1>3, <1>4, <1>5, <1>6, <1>7 DEF Next, Flush

\* A file whose names are new is loaded as it is.
LEMMA LoadedIsFile ==
    ASSUME TypeOK, RefInv, LoadInv, OwnFiles, running = "loading", ~overlap, NEW f \in Config, Listed(f),
           LoadFile(f), ~overlap'
    PROVE  ConfigOf(f.plugin)' = f
<1> DEFINE p == f.plugin
<1>1. /\ p \in Plugins /\ f.models \subseteq Models /\ f.conns \subseteq Conns
      /\ f.devices \in [Devices -> DeviceRec \union {NoDevice}]
      /\ f = [plugin |-> p, models |-> f.models, devices |-> f.devices, conns |-> f.conns]
  BY DEF Config
<1>2. (\A m \in Models : models[m] # p) /\ (\A c \in Conns : conns[c] # p)
  BY <1>1 DEF LoadFile, LoadInv
<1>3. (\A c \in f.conns : conns[c] = NoPlugin) /\ (\A d \in Devices : Present(d) => f.devices[d] = NoDevice)
  BY <1>1 DEF LoadFile, Overlaps
<1>4. {m \in Models : models'[m] = p} = f.models
  BY <1>1, <1>2 DEF LoadFile
<1>5. {c \in Conns : conns'[c] = p} = f.conns
  BY <1>1, <1>2 DEF LoadFile
<1>6. ASSUME NEW d \in Devices
      PROVE  (IF Present(d)' /\ models'[devices'[d].model] = p THEN devices'[d] ELSE NoDevice) = f.devices[d]
  <2>1. CASE Present(d)
    <3>1. devices'[d] = devices[d] /\ f.devices[d] = NoDevice
      BY <1>3, <2>1 DEF LoadFile, LoadOf
    <3>2. /\ devices[d].model \in Models /\ devices[d].plugin \in Plugins
          /\ devices[d].plugin = models[devices[d].model]
      BY <2>1 DEF TypeOK, Present, DeviceRec, RefInv, ReferencesHold
    <3>3. devices[d].model \notin f.models
      BY <3>2, CacheAssumption DEF LoadFile
    <3> QED BY <1>2, <3>1, <3>2, <3>3 DEF LoadFile
  <2>2. CASE ~Present(d) /\ f.devices[d] # NoDevice
    <3>1. f.devices[d] \in DeviceRec /\ f.devices[d].model \in f.models /\ f.devices[d].plugin = p
      BY <1>1, <2>2 DEF Listed
    <3>2. [f.devices[d] EXCEPT !.plugin = p] = f.devices[d]
      BY <3>1 DEF DeviceRec
    <3>3. devices'[d] = f.devices[d]
      BY <2>2, <3>1, <3>2 DEF LoadFile, LoadOf
    <3>4. models'[f.devices[d].model] = p
      BY <1>1, <3>1 DEF LoadFile
    <3> QED BY <2>2, <3>3, <3>4 DEF Present
  <2>3. CASE ~Present(d) /\ f.devices[d] = NoDevice
    <3>1. devices'[d] = NoDevice
      BY <2>3 DEF LoadFile, LoadOf, Present
    <3> QED BY <2>3, <3>1 DEF Present
  <2> QED BY <2>1, <2>2, <2>3
<1>7. [d \in Devices |-> IF Present(d)' /\ models'[devices'[d].model] = p THEN devices'[d] ELSE NoDevice]
      = f.devices
  BY <1>1, <1>6
<1>8. ConfigOf(p)' = [plugin |-> p, models |-> f.models, devices |-> f.devices, conns |-> f.conns]
  BY <1>4, <1>5, <1>7 DEF ConfigOf
<1> QED BY <1>1, <1>8

\* Loading a file whose names are new leaves the other plugins as they are.
LEMMA LoadSparesOthers ==
    ASSUME TypeOK, RefInv, running = "loading", NEW f \in Config, LoadFile(f), ~overlap',
           NEW q \in Plugins, q # f.plugin
    PROVE  /\ ConfigOf(q)' = ConfigOf(q)
           /\ \A m \in Models : models'[m] = q <=> models[m] = q
           /\ \A c \in Conns : conns'[c] = q <=> conns[c] = q
<1>1. f.models \subseteq Models /\ f.conns \subseteq Conns
  BY DEF Config
<1>2. \A m \in Models : models'[m] = q <=> models[m] = q
  BY CacheAssumption DEF LoadFile
<1>3. \A c \in Conns : conns'[c] = q <=> conns[c] = q
  BY CacheAssumption DEF LoadFile, Overlaps
<1>4. ASSUME NEW d \in Devices
      PROVE  (IF Present(d)' /\ models'[devices'[d].model] = q THEN devices'[d] ELSE NoDevice)
             = (IF Present(d) /\ models[devices[d].model] = q THEN devices[d] ELSE NoDevice)
  <2>1. CASE Present(d)
    <3>1. devices'[d] = devices[d]
      BY <2>1 DEF LoadFile, LoadOf
    <3>2. devices[d].model \in Models
      BY <2>1 DEF TypeOK, Present, DeviceRec
    <3> QED BY <1>2, <2>1, <3>1, <3>2 DEF Present
  <2>2. CASE ~Present(d)
    <3>1. CASE f.devices[d] # NoDevice /\ f.devices[d].model \in f.models
      <4>1. f.devices[d] \in DeviceRec
        BY <3>1 DEF Config
      <4>2. devices'[d] = [f.devices[d] EXCEPT !.plugin = f.plugin]
        BY <2>2, <3>1 DEF LoadFile, LoadOf
      <4>3. devices'[d].model = f.devices[d].model
        BY <4>1, <4>2 DEF DeviceRec
      <4>4. models'[devices'[d].model] = f.plugin
        BY <1>1, <3>1, <4>3 DEF LoadFile
      <4> QED BY <2>2, <4>4
    <3>2. CASE ~(f.devices[d] # NoDevice /\ f.devices[d].model \in f.models)
      <4>1. devices'[d] = NoDevice
        BY <2>2, <3>2 DEF LoadFile, LoadOf, Present
      <4> QED BY <2>2, <4>1 DEF Present
    <3> QED BY <3>1, <3>2
  <2> QED BY <2>1, <2>2
<1> QED BY <1>2, <1>3, <1>4, ConfigSame

\* loadConfig goes from file to file.
LEMMA LoadStep == TypeOK /\ RefInv /\ FileInv /\ [Next]_vars => LoadInv'
<1> SUFFICES ASSUME TypeOK, RefInv, FileInv, [Next]_vars, running' = "loading" PROVE LoadInv'
  BY DEF LoadInv
<1> USE DEF memory, files, startup, shades
<1>0. OwnFiles /\ LoadInv /\ IdleInv
  BY DEF FileInv
<1>1. ASSUME Start PROVE LoadInv'
  <2>1. /\ next' = 1 /\ \A p \in Plugins : fileOf'[p] = NoDir
        /\ \A m \in Models : models'[m] = NoPlugin
        /\ \A c \in Conns : conns'[c] = NoPlugin
    BY <1>0, <1>1 DEF Start, IdleInv, EmptyMemory
  <2> QED BY <2>1, CacheAssumption DEF LoadInv
<1>2. ASSUME loadConfig PROVE LoadInv'
  <2> DEFINE f == disk[Dirs[next]]
  <2>1. /\ running = "loading" /\ next \in 1 .. Len(Dirs) /\ Dirs[next] \in DirSet /\ Dirs[next] # NoDir
        /\ disk' = disk
    BY <1>2, DirsType, CacheAssumption DEF loadConfig, TypeOK
  <2> HIDE DEF f
  <2>2. ASSUME LoadFile(f) PROVE LoadInv'
    <3>1. /\ f \in Config /\ f.plugin \in Plugins /\ fileOf[f.plugin] = NoDir /\ next' = next + 1
          /\ fileOf' = [fileOf EXCEPT ![f.plugin] = Dirs[next]]
          /\ overlap' = (overlap \/ Overlaps(f))
      BY <2>2 DEF LoadFile, Config
    <3>2. fileOf'[f.plugin] = Dirs[next] /\ \A q \in Plugins : q # f.plugin => fileOf'[q] = fileOf[q]
      BY <3>1 DEF TypeOK
    <3>3. ASSUME NEW j \in 1 .. next' - 1, disk[Dirs[j]] \in Config
          PROVE  fileOf'[disk[Dirs[j]].plugin] = Dirs[j]
      <4>1. CASE j = next
        BY <3>2, <4>1 DEF f
      <4>2. CASE j # next
        <5>1. j \in 1 .. next - 1 /\ j \in 1 .. Len(Dirs)
          BY <2>1, <3>1, <4>2, CacheAssumption
        <5>2. fileOf[disk[Dirs[j]].plugin] = Dirs[j] /\ disk[Dirs[j]].plugin \in Plugins
          BY <1>0, <2>1, <3>3, <5>1 DEF LoadInv, Config
        <5>3. Dirs[j] # NoDir
          BY <5>1, DirsType, CacheAssumption
        <5> QED BY <3>1, <3>2, <5>2, <5>3
      <4> QED BY <4>1, <4>2
    <3>4. ASSUME NEW p \in Plugins, fileOf'[p] # NoDir
          PROVE  disk[fileOf'[p]] \in Config /\ disk[fileOf'[p]].plugin = p
      <4>1. CASE p = f.plugin
        BY <3>1, <3>2, <4>1 DEF f
      <4>2. CASE p # f.plugin
        BY <1>0, <2>1, <3>2, <3>4, <4>2 DEF LoadInv
      <4> QED BY <4>1, <4>2
    <3>5. ASSUME ~overlap', NEW p \in Plugins
          PROVE  /\ fileOf'[p] = NoDir => /\ \A m \in Models : models'[m] # p
                                          /\ \A c \in Conns : conns'[c] # p
                 /\ fileOf'[p] # NoDir => ConfigOf(p)' = disk[fileOf'[p]]
      <4>1. ~overlap
        BY <3>1, <3>5
      <4>2. CASE p = f.plugin
        <5>1. Listed(f)
          BY <1>0, <2>1, <3>1 DEF OwnFiles, f
        <5>2. ConfigOf(p)' = f
          BY <1>0, <2>1, <2>2, <3>1, <3>5, <4>1, <4>2, <5>1, LoadedIsFile
        <5> QED BY <2>1, <3>2, <4>2, <5>2 DEF f
      <4>3. CASE p # f.plugin
        <5>1. /\ ConfigOf(p)' = ConfigOf(p)
              /\ \A m \in Models : models'[m] = p <=> models[m] = p
              /\ \A c \in Conns : conns'[c] = p <=> conns[c] = p
          BY <2>1, <2>2, <3>1, <3>5, <4>3, LoadSparesOthers
        <5> QED BY <1>0, <2>1, <3>2, <4>1, <4>3, <5>1 DEF LoadInv
      <4> QED BY <4>2, <4>3
    <3> QED BY <2>1, <3>3, <3>4, <3>5 DEF LoadInv
  <2>3. ASSUME SkipFile(f) PROVE LoadInv'
    <3>1. /\ f \notin Config /\ next' = next + 1
          /\ devices' = devices /\ models' = models /\ conns' = conns /\ fileOf' = fileOf /\ overlap' = overlap
      BY <2>3, NotConfig DEF SkipFile
    <3>2. ASSUME NEW j \in 1 .. next' - 1, disk[Dirs[j]] \in Config
          PROVE  fileOf[disk[Dirs[j]].plugin] = Dirs[j]
      <4>1. j # next
        BY <3>1, <3>2 DEF f
      <4>2. j \in 1 .. next - 1
        BY <2>1, <3>1, <4>1
      <4> QED BY <1>0, <2>1, <3>2, <4>2 DEF LoadInv
    <3>3. \A p \in Plugins : ConfigOf(p)' = ConfigOf(p)
      BY <3>1 DEF ConfigOf, Present
    <3> QED BY <1>0, <2>1, <3>1, <3>2, <3>3 DEF LoadInv
  <2>4. ASSUME RefuseFile(f) \/ BreakFile(f) PROVE FALSE
    BY <2>4 DEF RefuseFile, BreakFile
  <2> QED BY <1>2, <2>2, <2>3, <2>4 DEF loadConfig, f
<1>3. ASSUME UNCHANGED vars PROVE LoadInv'
  <2>1. \A p \in Plugins : ConfigOf(p)' = ConfigOf(p)
    BY <1>3 DEF vars, ConfigOf, Present
  <2> QED BY <1>0, <1>3, <2>1 DEF vars, LoadInv
<1>4. ASSUME \/ Change \/ (\E p \in Plugins : Settle(p) \/ Flush(p)) \/ FlushEnd \/ FlushFail
             \/ Loaded \/ (\E d \in Devices : initDeviceShadow(d)) \/ Stop \/ Reset \/ Crash
      PROVE  FALSE
  BY <1>0, <1>4 DEF Change, AddOrUpdateDevice, UpdateDeviceProperty, UpdateDeviceDesc, BatchRemoveDevice,
     AddConnection, DeleteConnection, AddModel, DeleteModel, Settle, Flush, FlushIdle, FlushBegin, FlushEnd,
     FlushFail, Loaded, initDeviceShadow, Stop, Reset, Crash, Unlocked, IdleInv
<1> QED BY <1>1, <1>2, <1>3, <1>4 DEF Next

\* When everything is loaded, what is cached for the plugin of a file is what the file says.
LEMMA LoadedIsComplete ==
    ASSUME TypeOK, LoadInv, Loaded, ~overlap
    PROVE  /\ \A i \in DirSet : disk[i] \in Config => ConfigOf(disk[i].plugin) = disk[i]
           /\ \A p \in Plugins : ConfigOf(p).conns # {} => fileOf[p] # NoDir /\ disk[fileOf[p]] = ConfigOf(p)
<1>1. running = "loading" /\ next > Len(Dirs)
  BY DEF Loaded
<1>2. ASSUME NEW i \in DirSet, disk[i] \in Config
      PROVE  ConfigOf(disk[i].plugin) = disk[i]
  <2>1. PICK j \in 1 .. Len(Dirs) : Dirs[j] = i
    BY DEF DirSet
  <2>2. j \in 1 .. next - 1
    BY <1>1, CacheAssumption DEF TypeOK
  <2>3. fileOf[disk[i].plugin] = i /\ disk[i].plugin \in Plugins /\ i # NoDir
    BY <1>1, <1>2, <2>1, <2>2, CacheAssumption DEF LoadInv, Config
  <2> QED BY <1>1, <2>3 DEF LoadInv
<1>3. ASSUME NEW p \in Plugins, ConfigOf(p).conns # {}
      PROVE  fileOf[p] # NoDir /\ disk[fileOf[p]] = ConfigOf(p)
  BY <1>1, <1>3 DEF LoadInv, ConfigOf
<1> QED BY <1>2, <1>3

\* What is saved stays saved.
LEMMA SavedStep == TypeOK /\ RefInv /\ FileInv /\ [Next]_vars => SavedInv'
<1> SUFFICES ASSUME TypeOK, RefInv, FileInv, [Next]_vars, running' = "up", ~overlap',
                    NEW p \in Plugins, unsaved'[p] = "none", ConfigOf(p)'.conns # {}
             PROVE  /\ fileOf'[p] # NoDir
                    /\ writing' # p => disk'[fileOf'[p]] \in {ConfigOf(p)', Partial, Empty}
  BY DEF SavedInv
<1> USE DEF memory, files, startup, shades
<1> DEFINE Saved == /\ fileOf'[p] # NoDir
                    /\ writing' # p => disk'[fileOf'[p]] \in {ConfigOf(p)', Partial, Empty}
<1>0. OwnFiles /\ SavedInv /\ LoadInv /\ IdleInv
  BY DEF FileInv
<1>a. ASSUME memory' = memory PROVE ConfigOf(p)' = ConfigOf(p)
  BY <1>a DEF ConfigOf, Present
<1>1. ASSUME Change PROVE Saved
  <2>1. /\ disk' = disk /\ fileOf' = fileOf /\ writing' = writing /\ writing = NoPlugin
        /\ running = "up" /\ overlap' = overlap
    BY <1>1 DEF Change, AddOrUpdateDevice, UpdateDeviceProperty, UpdateDeviceDesc, BatchRemoveDevice,
       AddConnection, DeleteConnection, AddModel, DeleteModel, Unlocked
  <2>2. unsaved[p] = "none" /\ ConfigOf(p)' = ConfigOf(p)
    BY <1>1, <2>1, ChangeIsMarked
  <2> QED BY <1>0, <2>1, <2>2, CacheAssumption DEF SavedInv
<1>2. ASSUME \/ \E q \in Plugins : Settle(q)
             \/ \E d \in Devices : initDeviceShadow(d)
             \/ UNCHANGED vars
      PROVE  Saved
  <2>1. /\ memory' = memory /\ disk' = disk /\ fileOf' = fileOf /\ writing' = writing
        /\ running' = running /\ overlap' = overlap /\ unsaved[p] = "none"
    BY <1>2 DEF Settle, initDeviceShadow, vars, TypeOK
  <2> QED BY <1>0, <1>a, <2>1 DEF SavedInv
<1>3. ASSUME NEW q \in Plugins, FlushIdle(q) PROVE Saved
  <2>1. /\ memory' = memory /\ running = "up" /\ overlap' = overlap /\ writing' = writing
        /\ ConfigOf(q).conns = {}
    BY <1>3 DEF FlushIdle
  <2>2. p # q /\ ConfigOf(p)' = ConfigOf(p)
    BY <1>a, <2>1
  <2>3. unsaved[p] = "none" /\ fileOf'[p] = fileOf[p]
    BY <1>3, <2>2 DEF FlushIdle, TypeOK
  <2>4. fileOf[p] # NoDir /\ (writing # p => disk[fileOf[p]] \in {ConfigOf(p), Partial, Empty})
    BY <1>0, <2>1, <2>2, <2>3 DEF SavedInv
  <2>5. disk'[fileOf[p]] = disk[fileOf[p]]
    BY <1>0, <1>3, <2>2, <2>4 DEF FlushIdle, TypeOK, OwnFiles
  <2> QED BY <2>1, <2>2, <2>3, <2>4, <2>5
<1>4. ASSUME NEW q \in Plugins, FlushBegin(q) PROVE Saved
  <2>1. /\ memory' = memory /\ running = "up" /\ overlap' = overlap /\ writing = NoPlugin /\ writing' = q
        /\ fileOf' = fileOf /\ unsaved' = unsaved /\ disk' = [disk EXCEPT ![FileFor(q)] = Empty]
    BY <1>4 DEF FlushBegin, Unlocked
  <2>2. fileOf[p] # NoDir /\ disk[fileOf[p]] \in {ConfigOf(p), Partial, Empty} /\ ConfigOf(p)' = ConfigOf(p)
    BY <1>0, <1>a, <2>1, CacheAssumption DEF SavedInv
  <2>3. p # q => disk'[fileOf[p]] = disk[fileOf[p]]
    <3>1. FileFor(p) = fileOf[p] /\ fileOf[p] \in DirSet
      BY <2>2 DEF FileFor, TypeOK
    <3> QED BY <1>0, <2>1, <3>1, FileForInjective DEF TypeOK
  <2> QED BY <2>1, <2>2, <2>3
<1>5. ASSUME FlushEnd PROVE Saved
  <2>1. /\ memory' = memory /\ running = "up" /\ overlap' = overlap /\ writing \in Plugins
        /\ writing' = NoPlugin /\ FileFor(writing) \in DirSet
    BY <1>5, FileForType DEF FlushEnd, TypeOK
  <2>2. CASE p = writing
    <3>1. fileOf'[p] = FileFor(p) /\ disk'[FileFor(p)] = ConfigOf(p)
      BY <1>5, <2>1, <2>2 DEF FlushEnd, TypeOK
    <3> QED BY <1>a, <2>1, <2>2, <3>1, CacheAssumption
  <2>3. CASE p # writing
    <3>1. unsaved[p] = "none" /\ fileOf'[p] = fileOf[p] /\ ConfigOf(p)' = ConfigOf(p)
      BY <1>5, <1>a, <2>1, <2>3 DEF FlushEnd, TypeOK
    <3>2. fileOf[p] # NoDir /\ disk[fileOf[p]] \in {ConfigOf(p), Partial, Empty}
      BY <1>0, <2>1, <2>3, <3>1 DEF SavedInv
    <3>3. FileFor(p) = fileOf[p] /\ fileOf[p] \in DirSet
      BY <3>2 DEF FileFor, TypeOK
    <3>4. disk'[fileOf[p]] = disk[fileOf[p]]
      BY <1>0, <1>5, <2>1, <2>3, <3>3, FileForInjective DEF FlushEnd, TypeOK
    <3> QED BY <3>1, <3>2, <3>4
  <2> QED BY <2>2, <2>3
<1>6. ASSUME FlushFail PROVE Saved
  <2>1. /\ memory' = memory /\ running = "up" /\ overlap' = overlap /\ writing \in Plugins
        /\ writing' = NoPlugin /\ fileOf' = fileOf /\ unsaved' = unsaved
        /\ \E f \in {Empty, Partial} : disk' = [disk EXCEPT ![FileFor(writing)] = f]
    BY <1>6 DEF FlushFail, TypeOK
  <2>2. /\ fileOf[p] # NoDir /\ (writing # p => disk[fileOf[p]] \in {ConfigOf(p), Partial, Empty})
        /\ ConfigOf(p)' = ConfigOf(p)
    BY <1>0, <1>a, <2>1 DEF SavedInv
  <2>3. FileFor(p) = fileOf[p] /\ fileOf[p] \in DirSet
    BY <2>2 DEF FileFor, TypeOK
  <2>4. IF p = writing THEN disk'[fileOf[p]] \in {Empty, Partial} ELSE disk'[fileOf[p]] = disk[fileOf[p]]
    BY <1>0, <2>1, <2>3, FileForInjective DEF TypeOK
  <2> QED BY <2>1, <2>2, <2>4
<1>7. ASSUME Loaded PROVE Saved
  <2>1. memory' = memory /\ overlap' = overlap /\ fileOf' = fileOf /\ disk' = disk
    BY <1>7 DEF Loaded
  <2>2. fileOf[p] # NoDir /\ disk[fileOf[p]] = ConfigOf(p)
    BY <1>0, <1>7, <1>a, <2>1, LoadedIsComplete
  <2> QED BY <1>a, <2>1, <2>2
<1>8. ASSUME Start \/ loadConfig \/ Stop \/ Reset \/ Crash PROVE FALSE
  BY <1>8 DEF Start, loadConfig, LoadFile, SkipFile, RefuseFile, BreakFile, Stop, Reset, Crash
<1> QED BY <1>1, <1>2, <1>3, <1>4, <1>5, <1>6, <1>7, <1>8 DEF Next, Flush

\* The file that FlushEnd writes is the only one of its plugin.
LEMMA OneFileStep == TypeOK /\ FileInv /\ [Next]_vars => OneFilePerPlugin'
<1> SUFFICES ASSUME TypeOK, FileInv, [Next]_vars, ~kept', NEW i \in DirSet, NEW j \in DirSet,
                    disk'[i] \in Config, disk'[j] \in Config, disk'[i].plugin = disk'[j].plugin
             PROVE  i = j
  BY DEF OneFilePerPlugin
<1>0. KnownFiles /\ OneFilePerPlugin
  BY DEF FileInv
<1>1. ~kept
  BY DEF Next, Change, AddOrUpdateDevice, UpdateDeviceProperty, UpdateDeviceDesc, BatchRemoveDevice,
     AddConnection, DeleteConnection, AddModel, DeleteModel, Settle, Flush, FlushIdle, FlushBegin, FlushEnd,
     FlushFail, Start, loadConfig, Loaded, initDeviceShadow, Stop, Reset, Crash, vars, files
<1>2. CASE disk'[i] = disk[i] /\ disk'[j] = disk[j]
  BY <1>0, <1>1, <1>2 DEF OneFilePerPlugin
<1>3. ASSUME NEW k \in DirSet, NEW l \in DirSet, FlushEnd, k = FileFor(writing), disk'[k] = ConfigOf(writing),
             disk'[l] = disk[l], disk[l] \in Config, disk'[k].plugin = disk'[l].plugin
      PROVE  k = l
  <2>1. writing \in Plugins /\ writing # NoPlugin /\ disk[l].plugin = writing
    BY <1>3 DEF FlushEnd, TypeOK, ConfigOf
  <2>2. fileOf[writing] = l /\ l # NoDir
    BY <1>0, <1>1, <1>3, <2>1, CacheAssumption DEF KnownFiles
  <2> QED BY <1>3, <2>2 DEF FileFor
<1> QED BY <1>2, <1>3, DiskStep

\* What is installed and an empty cache satisfy the invariant.
LEMMA FileInit == Init => FileInv
<1> SUFFICES ASSUME Init PROVE FileInv
  OBVIOUS
<1>1. running = "down" /\ EmptyMemory /\ writing = NoPlugin /\ disk \in InitDisks /\ (\A p \in Plugins : fileOf[p] = NoDir)
  BY DEF Init, EmptyMemory
<1>2. OwnFiles /\ OneFilePerPlugin
  BY <1>1, CacheAssumption, InstallAssumption DEF OwnFiles, OneFilePerPlugin
<1> QED BY <1>1, <1>2 DEF FileInv, IdleInv, WriterInv, KnownFiles, LoadInv, SavedInv

\* Every step keeps it.
LEMMA FileStep == TypeOK /\ RefInv /\ FileInv /\ [Next]_vars => FileInv'
BY IdleStep, OwnFilesStep, WriterStep, KnownStep, LoadStep, SavedStep, OneFileStep DEF FileInv

-----------------------------------------------------------------------------
(* Theorems *)

\* The cache and its files keep their types (every method, Start and Stop).
THEOREM CacheTypeCorrect == Spec => []TypeOK
<1>1. Init => TypeOK
  BY InitType
<1>2. TypeOK /\ [Next]_vars => TypeOK'
  BY TypeStep
<1> QED BY <1>1, <1>2, PTL DEF Spec

\* While the service loads and runs, a device's model exists and belongs to the
\* plugin the device names (DeleteModel, AddModel, AddOrUpdateDevice, loadConfig).
THEOREM ReferencesAlwaysHold == Spec => []ReferencesHold
<1>1. Init => RefInv
  BY DEF Init, EmptyMemory, RefInv, ReferencesHold, Present
<1>2. RefInv => ReferencesHold
  BY DEF RefInv
<1> QED BY <1>1, <1>2, RefStep, CacheTypeCorrect, PTL DEF Spec

\* A cached device has a shadow, or the start in progress will add it
\* (AddOrUpdateDevice, BatchRemoveDevice, initDeviceShadow).
THEOREM DevicesAlwaysHaveShadows == Spec => []DevicesHaveShadows
<1>1. Init => DevicesHaveShadows
  BY DEF Init, DevicesHaveShadows
<1> QED BY <1>1, ShadowStep, CacheTypeCorrect, PTL DEF Spec

\* Besides, what initDeviceShadow has listed is a device or was removed meanwhile,
\* it lists nothing unless the service is up, and while it stops every shadow there
\* is was added after Stop.
ShadowInv ==
    /\ ShadowsHaveDevices
    /\ \A d \in toShadow : Present(d) \/ d \in stray
    /\ running # "up" => toShadow = {}
    /\ running = "stopping" => shadows \subseteq stray

\* Every step keeps the shadows with their devices.
LEMMA ShadowInvStep == TypeOK /\ ShadowInv /\ [Next]_vars => ShadowInv'
<1> SUFFICES ASSUME TypeOK, ShadowInv, [Next]_vars PROVE ShadowInv'
  OBVIOUS
<1> USE DEF memory, files, startup, shades, ShadowInv, ShadowsHaveDevices, Present
<1>1. ASSUME NEW d \in Devices, NEW m \in Models, NEW c \in Conns,
             NEW pr \in Props \union {NilMap}, NEW s \in Descs,
             AddOrUpdateDevice(d, m, c, pr, s)
      PROVE  ShadowInv'
  <2>1. [model |-> m, plugin |-> models[m], conn |-> c, props |-> pr, desc |-> s] # NoDevice
    <3>1. models[m] \in Plugins
      BY <1>1 DEF AddOrUpdateDevice, TypeOK
    <3> QED BY <3>1, CacheAssumption DEF DeviceRec
  <2>2. devices'[d] # NoDevice /\ \A e \in Devices \ {d} : devices'[e] = devices[e]
    BY <1>1, <2>1 DEF AddOrUpdateDevice, TypeOK
  <2>3. /\ shadows' = shadows \union {d} /\ toShadow' = toShadow /\ running' = running
        /\ running \in {"up", "stopping"}
        /\ stray' = IF running = "stopping" THEN stray \union {d} ELSE stray \ {d}
    BY <1>1 DEF AddOrUpdateDevice, Unlocked
  <2> QED BY <2>2, <2>3 DEF TypeOK
<1>2. ASSUME NEW d \in Devices, NEW pr \in Props, UpdateDeviceProperty(d, pr)
      PROVE  ShadowInv'
  <2>1. devices[d] \in DeviceRec
    BY <1>2 DEF UpdateDeviceProperty, TypeOK
  <2>2. [devices[d] EXCEPT !.props = pr] # NoDevice
    <3>1. [devices[d] EXCEPT !.props = pr] \in DeviceRec
      BY <2>1 DEF DeviceRec
    <3> QED BY <3>1, CacheAssumption
  <2>3. \A e \in Devices : devices[e] # NoDevice => devices'[e] # NoDevice
    BY <1>2, <2>2 DEF UpdateDeviceProperty, TypeOK
  <2>4. toShadow' = toShadow /\ running' = running /\ shadows' = shadows /\ stray' = stray
    BY <1>2 DEF UpdateDeviceProperty
  <2> QED BY <2>3, <2>4 DEF TypeOK
<1>3. ASSUME NEW D \in SUBSET Devices, BatchRemoveDevice(D)
      PROVE  ShadowInv'
  BY <1>3 DEF BatchRemoveDevice, TypeOK
<1>4. ASSUME loadConfig PROVE ShadowInv'
  <2> DEFINE f == disk[Dirs[next]]
  <2>1. f \in Content
    BY <1>4, DirsType, CacheAssumption DEF loadConfig, TypeOK
  <2>2. shadows' = shadows /\ stray' = stray /\ toShadow' = toShadow /\ running = "loading"
    BY <1>4 DEF loadConfig, LoadFile, SkipFile, RefuseFile, BreakFile
  <2>3. running' \in {"loading", "failed"}
    BY <1>4, <2>2 DEF loadConfig, LoadFile, SkipFile, RefuseFile, BreakFile
  <2> HIDE DEF f
  <2>4. ASSUME NEW M, NEW d \in Devices, f \in Config, devices' = LoadOf(f, M), Present(d)
        PROVE  Present(d)'
    BY <2>4 DEF LoadOf
  <2>5. \A d \in Devices : Present(d) => Present(d)'
    <3>1. CASE LoadFile(f)
      BY <2>4, <3>1 DEF LoadFile
    <3>2. CASE BreakFile(f)
      BY <2>4, <3>2 DEF BreakFile
    <3>3. CASE SkipFile(f) \/ RefuseFile(f)
      BY <3>3 DEF SkipFile, RefuseFile
    <3> QED BY <1>4, <3>1, <3>2, <3>3 DEF loadConfig, f
  <2> QED BY <2>2, <2>3, <2>5 DEF TypeOK
<1>5. ASSUME Loaded PROVE ShadowInv'
  BY <1>5 DEF Loaded, TypeOK
<1>6. ASSUME NEW d \in Devices, initDeviceShadow(d)
      PROVE  ShadowInv'
  BY <1>6 DEF initDeviceShadow, TypeOK
<1>7. ASSUME Stop \/ Crash PROVE ShadowInv'
  BY <1>7 DEF Stop, Crash, TypeOK
<1>8. ASSUME Reset PROVE ShadowInv'
  BY <1>8 DEF Reset, TypeOK
<1>9. ASSUME \/ \E d \in Devices, s \in Descs : UpdateDeviceDesc(d, s)
             \/ \E p \in Plugins, c \in Conns : AddConnection(p, c)
             \/ \E c \in Conns : DeleteConnection(c)
             \/ \E p \in Plugins, m \in Models : AddModel(p, m)
             \/ \E m \in Models : DeleteModel(m)
             \/ \E p \in Plugins : Settle(p) \/ Flush(p)
             \/ FlushEnd \/ FlushFail \/ UNCHANGED vars
      PROVE  ShadowInv'
  <2>1. /\ devices' = devices /\ running' = running /\ toShadow' = toShadow
        /\ shadows' = shadows /\ stray' = stray
    BY <1>9 DEF UpdateDeviceDesc, AddConnection, DeleteConnection, AddModel, DeleteModel, Settle, Flush,
       FlushIdle, FlushBegin, FlushEnd, FlushFail, vars
  <2> QED BY <2>1
<1>10. ASSUME Start PROVE ShadowInv'
  BY <1>10 DEF Start
<1> QED
  BY <1>1, <1>2, <1>3, <1>4, <1>5, <1>6, <1>7, <1>8, <1>9, <1>10 DEF Next, Change

\* Whatever is added and removed while the service starts, runs and stops, a shadow
\* has its device, unless the device was removed while initDeviceShadow had it on its
\* list or added after Stop had replaced the shadow (BatchRemoveDevice, Stop).
THEOREM ShadowsAlwaysHaveDevices == Spec => []ShadowsHaveDevices
<1>1. Init => ShadowInv
  BY DEF Init, ShadowInv, ShadowsHaveDevices
<1>2. ShadowInv => ShadowsHaveDevices
  BY DEF ShadowInv
<1> QED BY <1>1, <1>2, ShadowInvStep, CacheTypeCorrect, PTL DEF Spec
-----------------------------------------------------------------------------

\* References, files and memory together.
LEMMA AlwaysFileInv == Spec => [](TypeOK /\ RefInv /\ FileInv)
<1>1. Init => RefInv
  BY DEF Init, EmptyMemory, RefInv, ReferencesHold, Present
<1> QED BY <1>1, RefStep, FileInit, FileStep, CacheTypeCorrect, PTL DEF Spec

\* Whatever methods run, writes fail and crashes come: what is saved is on disk, no plugin has two
\* files, devices have their models and their shadows (Flush, flushable, loadConfig).
THEOREM CacheIsAlwaysConsistent == Spec => []CacheIsConsistent
<1>1. FileInv => SavedIsOnDisk /\ OneFilePerPlugin
  BY DEF FileInv, SavedInv, SavedIsOnDisk
<1> QED
  BY <1>1, AlwaysFileInv, ReferencesAlwaysHold, DevicesAlwaysHaveShadows, PTL DEF CacheIsConsistent

\* What is loaded after any stop or crash is what the files say (loadConfig after Flush).
THEOREM LoadAlwaysRestoresFiles == Spec => LoadRestoresFiles
<1>1. ASSUME TypeOK, FileInv, Loaded, ~overlap
      PROVE  \A i \in DirSet : disk[i] \in Config => ConfigOf(disk[i].plugin) = disk[i]
  BY <1>1, LoadedIsComplete DEF FileInv
<1>2. TypeOK /\ RefInv /\ FileInv /\ [Next]_vars
         => [Loaded /\ ~overlap =>
                \A i \in DirSet : disk[i] \in Config => ConfigOf(disk[i].plugin) = disk[i]]_vars
  BY <1>1
<1> QED BY <1>2, AlwaysFileInv, PTL DEF Spec, LoadRestoresFiles
=============================================================================

# TLA+ specification of driver-box

driver-box is an edge gateway.  Plugins (modbus, BACnet, S7, MQTT, ...) talk to field devices, a
*core cache* holds the configuration of devices, models and connections and writes it to disk, a
*device shadow* holds the last value of every point and whether a device is online, and *exports*
(history, gateway, mirror, link edge, modbus server, ...) hear of values and events.  This directory
models the parts where steps of several goroutines meet, or where a computation on addresses, octets or dates is
easy to get wrong; it model-checks them with TLC on small instances, and proves the central safety
invariants with TLAPS for instances of any size.

1. Inventory  2. Modules  3. Runs  4. Proofs  5. What the code does and the models show
6. Left to do  7. Not modelled

## 1. Inventory

### Components

| Component | Source | State | Operations | Status |
|---|---|---|---|---|
| Device shadow | `internal/shadow`, `driverbox/shadow*` | devices: online, ttl, failures, time stamps; points: value, written value | AddDevice, DeleteDevice, SetDevicePoint, SetOnline, SetOffline, MayBeOffline, SetWritePointValue, the check every 5 s | modelled: `DeviceShadow`, `OnlineStatus` |
| Core cache | `internal/cache` | devices, models, connections per plugin; files and what is unsaved; one lock | add, update, delete of each; Flush, flush job, load, Reset | modelled: `CoreCache` |
| Service start and stop | `driverbox/driverbox.go`, `plugin.go` | running or not | Start, loadPlugins, initDeviceShadow, ReloadPlugin, Stop | part: `CoreCache`, `Crontab`, `History`, `Mirror`, `Scripts` |
| Sending and verification | `internal/core` | none of its own: the callers' requests and one goroutine per write | SendSinglePoint, SendBatchWrite, SendBatchRead, tryReadNewValues | modelled: `PointPath` |
| Export pipeline | `driverbox/export.go`, `internal/export/export.go` | list of exports | Export, pointCacheFilter, pointValueProcess, TriggerEvents | part: `PointPath`, `DeviceShadow` |
| Modbus plugin | `plugins/modbus` | connection, locks, write semaphore, groups of registers with their times | Encode, Send, collection, grouping, bit writes | part: `ModbusPoints`, `ModbusConnector` |
| Modbus server export | `exports/modbusserver` | register storage and its layout, the port | add models and devices, ExportTo, serve a frame, write commands, Stop | part: `ModbusServer` |
| Link edge export | `exports/linkedge` | files, configurations, trigger conditions, schedules; one goroutine per run | Create, Update, Delete, Get, Trigger, Execute, Init, conditions and triggers | part: `LinkEdge`, `RuleConditions` |
| Gateway export and plugin | `exports/gateway` | websocket sessions on both sides; models, devices, shadow of the main gateway | dial, register, synchronise, report, control, reconnect, destroy | modelled: `Gateway` |
| Mirror export and plugin | `exports/mirror` | mirrors in the core cache; the plugin's two maps | make, remove, initialise, destroy, encode, decode | part: `Mirror` |
| History export | `exports/history` | queue of records, database, jobs | ExportTo, flush, snapshot, start and stop | part: `History` |
| Crontab | `pkg/crontab` | list of jobs, one goroutine per ticker | AddFunc, Disable, Clear | modelled: `Crontab` |
| BACnet client | `plugins/bacnet/internal/bacnet` | transactions, free ids, subscriptions | read, write, who-is, what-network, who-is-router; encode, decode | modelled: `BacnetClient`, `BacnetSubscriptions`, `BacnetFrames` |
| BACnet plugin | `plugins/bacnet/internal` | groups of objects with their times, writes under way | initNetworks, collection, Encode, Send, Close | part: `BacnetConnector` |
| S7 and OPC UA plugins | `plugins/s7`, `plugins/opcua` | points by name, client, mutex | collection, Encode, Send, Release, Close | part: `PlcConnector` |
| DL/T 645 plugin | `plugins/dlt645` | groups, serial line | collection, exchange, analysis, Close | part: `MeterConnector` |
| Websocket and MQTT plugins | `plugins/websocket`, `plugins/mqtt` | connections, the devices enlisted on each | messages, end of a connection, commands, reload | part: `Sessions` |
| Library and scripts | `pkg/library`, `pkg/luautil` | Lua machines by key, with their locks | load, call, unload, close | part: `Scripts` |
| Discover, base and REST, MQTT, AI and MCP exports; HTTP and TCP plugins; model library; logger; local cache helper | `exports`, `internal/export`, `plugins`, `pkg` | none that matters | pass calls on | not modelled, see 7 |

### How they interact

```
 REST, SDK, link edge --> core (send) --> plugin --> client, script --> device
                            |               |
              SetWritePointValue          Export  <-- collection, incoming messages
                            v               v
                          device shadow  <-- filter --> exports (ExportTo): history, gateway,
                            |                            mirror, modbus server, link edge
                            +-- DeviceOnline events (goroutines) --> exports (OnEvent)
 core cache -- initDeviceShadow, AddDevice, DeleteDevice --> device shadow
 core cache -- flush job --> res/driver/*/config.json -- loadConfig --> core cache
 core cache -- DeviceAdded events (goroutines) --> mirror export --> core cache, mirror plugin
 crontab -- flush, checkOffline, collections, history --> all of them
```

Calls are synchronous, except for events, which are one goroutine each, the verification of a
write, crontab jobs, the handlers of datagrams and messages, and the runs of rules.  The shadow and the cache have one
mutex each; most other maps have none.

### What is hard

* *Concurrency.*  Every export runs in the goroutine that has read the device; events overtake each
  other; reads of shadow and cache are separate critical sections from the writes that follow; a
  reload, a stop or a `Close` runs beside the work it ends.
* *Failure.*  A write of the configuration may be cut short by a crash; a removal may fail; a file may be
  refused half way; a request may fail with some of its values sent; answers are late, lost or cut.
* *Time.*  A device is online by its ttl, by failures in a window and by a periodic check; a
  verification compares a time stamp with its own start; changes are saved when they have been quiet for
  five seconds; a trigger must hold for a duration.
* *Limits.*  Ten reads of a verification, three failures, back-off in powers of two, 16-bit addresses, 255 invoke
  ids, a queue that is full, channels of one place, lengths that change form at 5 and 254.

`PROJECT.json` lists the places one by one under `hazards`.  Some of them are races that the code loses: exports and writes of a
point that overlap, a registration that the end of an old connection takes along, a making or a device that a reload meets, a
queue and a list of jobs that are replaced without a lock, a device on two connections at once, a script loaded while the program
starts.  The models take these steps, a history variable (`misled`, `disturbed`, `stolen`, `crossed`, `raced`, `overtaken`) names what they
touched, and the properties excuse exactly that: they say that nothing else goes wrong, not that these races do not happen.  The note of each such
hazard says what is left out.  Rules that start one another through the points that trigger them are another limit: `RunsEnd` is about runs
nested in one execution, and a rule that triggers another anew is bounded only by `MaxCalls`.

### What makes each part correct

* Shadow: the exports are told every change of status, in the end the last; a silent device is
  reported; neither the check nor failed requests hide a device with fresh data.
* Cache: what a device refers to exists; what counts as saved is on disk; loading brings it back.
* Sending: what is recorded as written is in the device; verifications end; the shadow follows the
  device; the exports know what the shadow holds.
* Modbus: every point is read by exactly one group that covers its registers; what is reported is what
  the registers hold (of an INT64 the low half), and what is written can be read back; locks are released on every path; reads give
  way to writes but do not starve; a bit write keeps the other bits.  Server: reports and commands
  meet at the same registers.
* Link edge: what triggers a rule, and what it does, is what its file says; what is told of a run is true; runs
  nested in one another come to an end; conditions and durations mean what they say.
* Mirror, gateway: mapping and sessions agree with the configuration they were made from, in whatever
  order events come.
* History: every record is written once or lost for a named reason; a snapshot has every device.
* BACnet: an answer goes to the request it answers; a frame means what was meant; only a full channel
  blocks.
* BACnet, S7, OPC UA and DL/T 645 plugins: every point is asked for, a value goes to the point it was read from, what was closed ends.
* Sessions, scripts: a device is online over a session that is there; a call runs the present script.

## 2. Modules

| Module | What it is |
|---|---|
| `OnlineStatus` | what the shadow promises: a device is absent, online or offline, and no change of a registered device goes untold |
| `DeviceShadow` | the shadow, its periodic check, time, and the event goroutines |
| `DeviceShadowDoc`, `CoreCacheDoc`, `ModbusPointsDoc` | what the documentation or a comment says, and the code does not do |
| `CoreCache` | the cache, flush job, files, crash, start, stop, and the shadows kept in step |
| `PointPath` | requests, verification, collection, and exports of one device |
| `ModbusPoints` | the points of a modbus connection: groups of registers, reading, writing |
| `ModbusConnector` | the goroutines of a modbus connection: locks, bit writes, collection times, the client |
| `ModbusServer` | the modbus server export: layout of registers, frames of a master, reports, commands |
| `LinkEdge` | rules: their files, memory and triggers, and the runs that write points and start other rules |
| `RuleConditions` | when the conditions of a rule hold and its triggers fire |
| `Gateway` | main gateway and sub-gateway over connections that break |
| `Mirror` | making, mapping, reloading and feeding of mirror devices |
| `History` | queue, snapshots, start and stop of the history export |
| `Crontab` | jobs, their goroutines, and the list they share |
| `BacnetClient`, `BacnetSubscriptions`, `BacnetFrames` | confirmed requests; subscriptions to unconfirmed answers; frames octet by octet |
| `BacnetConnector`, `PlcConnector`, `MeterConnector` | collection, commands and closing of the BACnet, S7 and OPC UA, and DL/T 645 plugins |
| `Sessions`, `Scripts` | devices that report over sessions; machines that run driver scripts |
| `*_proofs` | theorems and proofs about the module of that name; `Connectors_proofs` about `ModbusConnector` and `BacnetConnector`, `MirrorHistory_proofs` about `Mirror` and `History`, `RulesGateway_proofs` about `LinkEdge` and `Gateway`, `Protocols_proofs` about `BacnetClient`, `Crontab`, `MeterConnector`, `PlcConnector`, `Scripts` and `Sessions` as `MCProtocols` joins them |
| `MC*` | instances for TLC |

Components meet inside the modules: the cache keeps the shadows in step, the path of a point has core, shadow,
plugin and exports, the mirror module has core cache and plugin, the gateway module has both ends of the line.  Components that
share no state are composed by their MC module into one run: a behaviour
picks one of them (`part`) and leaves the others where they start, so that a run has the sum of their states and not the
product.

### `DeviceShadow`

One action per exported method, since each runs under `deviceShadow.mutex`; `checkOffline` is the
crontab job, `Tick` lets time pass.  Time stamps are ages that saturate above every threshold, so the
model is finite.  `handlerCallback` starts a goroutine per event: `inFlight[d][s]` counts those
not run yet and `TriggerEvents` runs any of them, which is what may put them out of order.  `view` is
what an export that is always ready was last told.  `announced`, `raced`, `orphaned` and
`forcedAge` are history: no action of the code reads them.

The shadow implements `OnlineStatus` under `status <- known and online`, `told <- announced`.

### `CoreCache`

The maps `devices`, `models` and `connections` become functions; what a model or connection
contains is left out, as nothing here depends on it.  `unsaved[p]` stands for
`cacheModifyTime` against `fileModifyTime`: `none`, `recent` (younger than the five seconds of `flushable`) or
`settled`.  Every method is one action under the lock; a flush is two, because `os.WriteFile`
takes the disk through other contents: `FlushBegin` takes the lock, `FlushEnd` or `FlushFail` gives it back, and
`Crash` may come between; it and `FlushFail` leave an empty file or half of one (a file that cannot even be opened stays as it
was: nothing happens).  `loadConfig` reads the directories in
`WalkDir`'s order, one per step, and `SkipFile`, `RefuseFile` and `BreakFile` are its ways out.
`initDeviceShadow` works on a list taken before, one device per step; `stray` names the devices that it may give a shadow after
their removal, and those added between the reset of the shadow and that of the cache.  `Stop` and `Reset` empty the memory
and keep the disk.

### `PointPath`

One device, whose points hold raw values.  A caller's request is recorded in the shadow
(`AskWrite`, `AskRead`, `AskBatchRead`), and answered in a later step by `Refuse`, `Fail`, `Write` or `Read`.  `Write`
starts the verification: `BeginVerify` takes `checkTime`, and `VerifyRead`, `VerifyFail` and `EndVerify` are the turns of its
loop.  `WriteAt.After(checkTime)` becomes `stale`: the points recorded again since the
verification began.  `Read`, `VerifyRead` and `Collect` hand a reading to `Export`, which
looks at the shadow (`Compare`) and stores (`Store`) point by point, and then delivers (`Deliver`); a
script that fails to decode sends the raw values past the shadow (`ExportRaw`).  `ToRaw` and
`ToEng` are the scaling of `deviceDriverProcess` and `pointValueProcess`.  What the shadow does by itself,
going offline by failures or silence, is any step from online to offline here; `DeviceShadow`
has its detail.  `misled[p]` and `disturbed[p]` are history: exports of the point overlapped or went past the
shadow; writes of the point overlapped, failed, or were followed by a change nobody asked for.  Both are
reset by the next undisturbed export or write.

### `ModbusPoints`

One operation at a time; goroutines are in `ModbusConnector`.  A register is a pair of bytes and a value a
sequence of registers, most significant first; every byte has a number of its own, so that each can be followed
through `swapWords`, `getBytesFromUint16s` and `reverseUint16s`.  `BeginDevice` and `createPointGroup` are the loops of
`initNetworks`: devices and points come in any order, since they come out of maps and files, and `groupIndex` starts at 0 in
each device.  Addresses have the type uint16 in the code, here `0..(Space - 1)`, and `U16` is the wrap of a sum.
`Collect` reads one group (`initCollectTask`), `ReadRequest` is `Encode` and `Send` in batch read mode, and `BatchWrite` is the
same in write mode: `Sorted`, `Merged` and `Written` are the three passes over the values.  `sort.Slice` is not
stable, so `Sorted` is a set of orders.  `reported`, `written` and `request` are history: what was told to
`Export`, what was acknowledged and not written over, and what the last request asked for.

The properties have exceptions, each of them something the code does and the model shows:

* `GroupsAreRight` leaves out groups that cross the last address.  The end of a point at the last address
  is 0 in 16 bits; a group with such a point and another counts too few registers, and reading it would
  panic.
* `ReadsAreTrue` leaves out points that share registers with a value of several registers (`doc_registers` is
  the case), and units that several devices share: a group is looked for by the name of a
  point, whosever it is, and left out if a group of another device with the same index was found.  Of an INT64 the code
  reports `int32(val)` (`connector.go:323-324`), the two low words of four: `Decode` drops the others (`Narrowed`), and the
  property asks for what is left (`Told`).
* `WriteReadsBack` leaves out unit 0, whose values `batchWriteEncode` takes for merged bits and drops, and
  byteSwap in values of several registers: reading exchanges the bytes of each register, writing turns around all bytes of
  the value.

`newConnector` gives `batchWriteLen` no value of its own, so writes are only merged where a configuration has one.

### `ModbusConnector`

Each caller and the collection is a goroutine, `proc[p].at` the place where it stands:

| `at` | Place | Leaves by |
|---|---|---|
| `lock` | a write waits for `writeEncodeMu` | `LockEncode` |
| `encode`, `encoding` | `getWriteValue` of the next bit: before `read`, and with the client open | `OpenToEncode`, `EncodeBit` |
| `send` | `Encode` has returned, `Send` begins | `BeginWrite` |
| `try`, `writing` | an attempt of `sendWriteCommand`: before `write`, and with the client open | `OpenToWrite`, `Write` |
| `written` | the attempts are over | `EndWrite` |
| `ask` | a read that has not looked at the semaphore | `GiveWay`, `BeginRead` |
| `fetch`, `fetching` | `sendReadCommand`: before `read`, and with the client open | `OpenToRead`, `Read` |
| `after` | the collection has its result | `Collected` |

An exchange with the slave is one step, since `mutex` is held around it; what happens between the exchanges is not.
`keepAlive` is what the code believes of the client and `socket` what is true, and the two differ when the line breaks
or when `connector.Close`, which takes no lock, closes the client under its users.  A write may reach the slave and fail
all the same.  `age` is the time since `LatestTime`, `Wait` the duration of the group with its back-off, `Product` the
multiplication in the width of `time.Duration`.  `acked[b]` is history: the value of bit `b` written last with a
success, forgotten as soon as anybody asks for that bit again or the device changes it.

### `ModbusServer`

`Initialize` lays out the devices of the models it is given, or of the core cache: `calsValueTypeLength` words for each
property, one device after another.  A frame is a sequence of octets below `B`, a register a number below `W = B * B`
(65536 in the code), so addresses and sums wrap at `W` here as at 65536 there.  One goroutine reads
(`Read`), `Receive`s and serves frames; `ServeWrite` stores the words of a write, `ReadBack` takes the properties it covers one
by one, under the lock for each, and `Command` is the goroutine that sends them.  `Report` is `ExportTo` between any two of
these.  A panic ends the process (`running`): `OnlyTheEdgesFail` says when that may happen.

### `LinkEdge` and `RuleConditions`

A rule is in four places: `file`, `configs` (with `recent` for an `ExecuteTime` inside the silent period), `conditions` and
`schedules`.  Nothing locks them, so a step is one access to the file or to the maps of a rule.

| Where | Operation | Steps |
|---|---|---|
| `clients[c].at` | Create | `Create`; `create`: `CreateFile`; `write`: `WriteFile`; `register`: `Register`; `undo`, when a trigger is not valid: `Undo`, and on as Delete |
| | Delete | `Delete`; `remove`: `Remove` or `NothingToRemove`; `stop`: `StopSchedule` |
| | Update | as Delete, then as Create (`again`) |
| `runs[p].at` | Trigger, Execute, nested runs | `look`: `Refused` or `Accepted`; `act`: `Skip`, `Collect`, `Spawn` for one action each; `writing`: `WritePoints` and `AddPoints`, or `NotWritten`; `Report` |
| | the end of Trigger | `get`: `GetAgain`; `put`: `PutBack` |

Steps named `Cannot...` are failures of the file system.  `AddPoints` is apart from `WritePoints`, since the goroutines of the
connections all read and write `sucCount`; within a connection, devices come one after the other.  A goroutine past the depth limit
returns at once, so it is a part of `Spawn`.  The process may stop at any step and start again: `Restart`, or, if a file is empty or
a trigger not valid, `CannotLoad` and `CannotRegister`.  `disturbed[r]` is history: operations on the rule overlapped, a `Get` read its file during
one, a `Trigger` put back a configuration that had been deleted or replaced, or a step failed.  The next start of the export settles all of it.

`LinkEdge` lets conditions have any outcome; `RuleConditions` computes it.  `checkConditions` is a fold over the conditions,
checked against the reference definition `Holds` on every list of up to two conditions, on four days and every kind of
reading.  `Walk` is one trigger of `devicePointTriggerHandler`, with the look-up of the trigger in the shared map at each
access; `start` is its starting time.  A file that is removed and created again between another client's `os.Create` and
`Write` counts as the same file.  Unlocked Go maps may also kill the process, which is a `Restart` here.

### `Gateway`

`loop[c]` is the goroutine of a connector of the main gateway, `handler[n]` and `job[n]` the goroutine that serves connection `n` on the sub-gateway,
`up` and `down` the messages under way.  `Store` puts the connection into the connector, `Register` comes from a timer,
`Respond` makes the connection the one that reports go to, and `Sync...` are the steps of the
synchronisation, each a message.  `ReportCheck` and `ReportWrite` are apart: the connection may be replaced between
them.  Devices are paths, since a sub-gateway may have sub-gateways, and `GenDevice` and `ParseDevice` convert them
as the code does.  `stolen`, `overtaken`, `promised` and `ghost` are history: what excuses a main gateway that misses something.

### `Mirror`

`task[r]` is the goroutine of the event `DeviceAdded` of a raw device: `check`, `model`, `device`,
`connection`, `mapping`, each a call into the core cache or the plugin.  `reload` is `ReloadPlugin`: it
reads the configuration, destroys the plugin, and initialises it from what it has read.  `mirrors` and `rawMapping` are the plugin's
two maps: where a write to a mirror goes, and whom a report of a raw point feeds.  `flight` are reports of
mirrors that are decoded and not yet exported.  `crossed` is history: mirrors that were removed, or whose making met a reload;
of these nothing is promised.

`MappingOf` writes the points of a model into the map up to the first that lacks its raw point, as
the code does, so that a template that names a point twice would have its last entry in `mirrors`
and both in `rawMapping`.  `MirrorAssumption` asks for templates and configurations that are `Clear`: no such point twice.

### `History`

`rep[r]` is a reporter inside `ExportTo`: it reads the queue (`Load`), appends (`Store`), and when it is full takes it
(`Full`), empties it (`Replace`) and writes it (`Write`); `real[n]` is the flush job of the n-th start of the service, `snap[n]` the snapshot job.  Records
are numbered, `written` counts how often each is in the database.  The model stops when two goroutines are inside the
unlocked steps at once (`raced`): what the race detector would report, and any record may be lost or doubled
after it.  Everything before is accounted for: a record is in the queue, with a goroutine, in the database, or lost by a failed
insert or a stop.

### `Crontab`

A job is on a ticker or in the cron library.  `AddRead` and `AddStore` are the two halves of the unlocked `append`, `ClearBegin` and
`ClearEnd` the walk over the list and its replacement.  `Fire` is the look of a ticker's goroutine at the flag, `FireCron` the library's start of a
goroutine for an entry it has, whether or not the last has returned; `Call` is the call of the function, which may come after a `Disable`,
and `late` counts the calls that were started by then.

### `BacnetClient`, `BacnetSubscriptions`, `BacnetFrames`

`caller[c].pc` is the place of a request: `space` (it waits for one of the places), `send`, `wait`, `end`.
`free`, `space`, `states` and `chan` are the manager's queue of ids, its places, its states by id, and the channel of each state object;
the number of the transaction stands for the channel.  `net` are datagrams under way, `handlers` the goroutines that handle them: `LookUp` finds
the state by the id alone, `Evaluate` reads the channel of the state object, which the pool may have given to another request by
then, `Deliver` is a rendezvous with the caller.  `StrayRequest` is a request of another device with an id of its own
choice.  `late` is history: a try timed out while its answer was under way.

`BacnetSubscriptions` has the publisher with the manager's mutex and each subscriber's, and the channel of one place.
`BacnetFrames` writes and reads octets: what the client's `Encoder` writes is read by a decoder
that follows the standard (`TagsOf`, `Service`: the reference), and what the standard's encoder writes, whole
or cut at any octet, by the client's `Decoder`.

### `BacnetConnector`, `PlcConnector`, `MeterConnector`

Each has the making of a connection (`AddPoint`, `Nodes`, `Groups`), the job of one second, commands, and
`Close`.  In `BacnetConnector` points come in any order of the devices and join the groups (`Place`, `Join`, `Takes`); a
command first writes the points its value asks for (`PreOp`), then itself (`Transform`, `Send`).  In `PlcConnector` one model stands
for two plugins that are the same program but for the client's read; a write of a bit reads its octet and writes it
back.  Any number of goroutines (`Caller`) send commands, each in steps of its own, and `owner` is the mutex they share with the job.  In `MeterConnector` an exchange takes what the line brings until it is silent: `late`
frames of earlier requests come first.

### `Sessions`, `Scripts`

`handler[c]` and `ender[c]` are the goroutines of a connection: `Message` decodes, `Map` enlists the devices one by one, `Export`
reports them; `End` takes the list, `Drop` removes a device whose connection is still this one, `SetOffline` follows.
`Reload` makes a new connector with empty maps.  `Scripts` has the look-up of a machine in two looks, each in the map that is there when it is taken, the lock of a machine
taken from a map of its own, and `UnloadDeviceDrivers` at a second start, which replaces the map (`pool`) and only then ranges over the
old one: `Close` closes the machine of one key, `Pass` finds none there, and a machine that is stored into the old map meanwhile is
met by the range or not, as its key is still to come or is over.  Calls of the former run go on all the while, and `overtaken` names the machines they have lost to it.

## 3. Runs

| Run | Instance | States | Properties |
|---|---|---|---|
| `core` (`MCCore`) | shadow: one device, one point, ttl 1 and 3, two goroutines of a kind in flight; cache: one plugin, one directory; path: two points, one caller | 112 518 | `StatusIsRight`: status, events and ages agree, the exports are told the status and misled only by overlapping events, nobody stays online beyond ttl and check. `FreshDeviceStaysOnline`: only SetOffline and DeleteDevice take a device with fresh data offline. `ImplementsOnlineStatus`: refinement. `SilentDeviceIsReported`, `SettledIsSaved`, `ShadowFollowsDevice`: what must happen in the end |
| `points` (`MCPointPath`) | one point written and read, one only asked for; two callers, two requests each, one read per verification | 2 508 448 | `ToldIsShadow`: exports know the shadow. `WriteValueReached`: recorded values are in the device |
| `cache` (`MCCoreCache`) | two plugins, three directories, one model, device and connection, installed file or none | 801 350 | `CacheIsConsistent`: references, shadows, saved is on disk, one file per plugin. `ShadowsHaveDevices`, `LoadRestoresFiles` |
| `modbus` (`MCModbus`) | seven points, one an INT64, of which three are grouped, units 0 and 1, eight addresses, reads of four registers, writes of three; server: seven layouts, words of four bits | | `GroupsAreRight`, `ReadsAreTrue`, `WriteReadsBack`, `RegistersAreTrue` |
| `connectors` (`MCConnectors`) | Modbus: two callers with one request each, one with both bits at once; two attempts; a serial line; back-off in two bits. BACnet: four configurations of up to five points, groups of two objects, one command of four | 115 497 | `AcknowledgedBitsStay`. `PlansAreWhole`: groups, batches, reads after Close of a BACnet connection. In the end `RequestsAreAnswered`, `RegisterIsCollected`, `BrokenLineIsReopened` |
| `rules_gateway` (`MCRulesGateway`) | one rule, that is a scene, starts itself or cannot be registered; two devices on two connections, two clients, four runners, restarts; every pair of conditions; two triggers; a connector, two connections, two devices | | `RulesAgree`, `RulesDoAsTheySay`, `GatewayServes`, `EveryDeviceArrives`, and in the end `RunsEnd`, `MainCatchesUp` |
| `mirror_history` (`MCMirrorHistory`) | two raw devices with two points, three templates, two configurations, three moves; two reporters, up to three records, two starts | | `MirrorHolds`, `HistoryHolds`, and in the end `MirrorFollowsRaw`, `EveryTemplateIsMade`, `QueueIsFlushed` |
| `protocols` (`MCProtocols`) | client: two callers on two ids, three requests through one place, two with a place each; two devices and connections of either plugin; two callers of every method of a script; controllers: six connections, two goroutines with a command each, octets of two bits; a line of one meter; two jobs | 1 812 909 | `AnswersGoHome`, `StatusIsOfTheSession`, `ScriptsAreCurrent`, `ValuesAreOfTheirPoints`, `ClosedMeansEnded`. `BitsKeepNeighbours`: a write of a bit |
| `bacnet` (`MCBacnet`) | frames: every service with every type of value, answers cut at every octet; two subscriptions; connections as in `connectors`, with no command, which does nothing to the collection | 51 793 | `MessagesAreUnderstood`, `OnlyAFullChannelJams`, and in the end `CollectionGoesOn` |
| `doc_burst` | as the shadow of `core` | | more than three failures in 60 s do not take a device offline while it sends data |
| `doc_stop` | one plugin | | a stop loses unsaved changes |
| `doc_registers` | two devices of one model on one slave | | a value of two registers is told with its words exchanged |

The `doc_` runs end in a counterexample: each checks one sentence of the documentation or of a
comment, and the counterexample is what the code does instead.  `PROJECT.json` quotes the sentences under
`findings`.  Every property of the other runs has at least one mutant there: a change of one definition, of the kind a slip in the code
would make, that the same run finds to violate it.

### Why the bounds are enough

* Shadow: nothing in it relates two devices (the proofs cover any number), two points of a
  device only share its time stamp; three failures are the code's own limit; a ttl below and one above
  the offline window are the two orders that matter, and ages saturate one tick above the
  longest ttl and a check period; two goroutines of each kind give every overtaking, which a third
  would only repeat.
* Cache: two plugins are needed to move a model and to share a directory, the third directory for a
  file that lies where no plugin has its default.  A second device or model multiplies
  states and adds no new reference.  `SettledIsSaved` needs one plugin: the flush job takes them one by one.  The proofs cover any number.
* Path of a point: two callers overlap in every way two can; a third process, the collection, exports at the same
  time.  Requests are bounded by `MaxAsks`, changes of the device by `MaxChanges`, reads of a
  verification by `MaxTries` (ten in the code, each after a longer wait; one is the last turn).  A caller starts its next request when the last one and its
  verification are over; overlap with a later write of the same caller is covered by the second caller.  In `points` the point that can only be written is only
  asked for (`SetIsOnlyRead`): the two points share nothing but the export of a device.  The proofs have no such bounds.  Callers are interchangeable, so the run uses
  symmetry, and checks no liveness.
* Modbus: three points (`MaxPoints`) of every length give a group that grows at its start, at its end and not at
  all, and a group between two others; a write of three (`MaxBatch`) is the least in which a merged write
  is merged again.  `Space` is 8 instead of 65536, with points at both ends; `BatchReadLen` and `BatchWriteLen` of 4
  and 3 are less than the sums of the points' lengths, so both limits are met.  A failed write is any set of writes
  that did not reach the slave, so retries add nothing.  The server's words have four bits instead of sixteen, so that frames reach both ends of the registers and
  lengths wrap; three reports or writes of a master (`MaxEvents`) are a write between a report and a read.
* Connector: one group, since the groups of a connector share nothing but the locks and the semaphore.  Two callers are needed for one to
  read the register while the other is between reading and writing it, two bits for a request that is merged.  Two
  attempts (`Retry`) give one that is followed by another and one by the end (three in the code); with two bits of
  `Width` the doubling overflows at the first timeout.  The proofs cover any number of callers, bits, requests and attempts, and any order of bytes (`wire`).
* Rules: two operations, runs or restarts of any kind (`MaxCalls`), on every file the export may start with, meet in every order, which covers
  each pair of an operation with another, with a run, or with a restart.  Rules share
  nothing but the export's start, where `Restart` takes all of them; the proofs cover any number.  `MaxDepth` 1 gives one nested run and
  one that is refused (10 in the code), and four runners are two runs with a nested one each.  One device per connection is where sums can be lost.
  Conditions are checked in pairs, since a check goes on or ends after each; dates are the last of February, the day after it, a leap day and the end of a year; numbers are natural and
  exact up to `Exact` (2^24 in the code).  The proofs cover lists of any length, any dates, any triggers and reporters.
* Gateway: two connections are an old and a new one; two moves (breaks, commands, values, devices) are a break during anything and one after it.
  The proofs cover any number of connectors, connections, devices and moves.
* Mirror: two raw devices, one mirror that takes a point of each; three moves are a removal, an addition and a reload in any order.  The proofs cover any number.
* History: a queue that is full at two, and pages of two, with no, one, three and four devices; two starts, so that a job of the first may still run in the second.
* BACnet client: with two ids and two places an id is used again at once, with one place the queue delays it.  Three requests
  through one place are the one whose answer is late and two after it; with a place each, two are enough for both callers to be
  under way (`OnePlaceEach`).  The proofs cover any number of ids (255 in the code), places, callers and tries.  Frames: each form of a length, a tag
  number and a value at its boundaries; every cut.
* BACnet, S7, OPC UA and DL/T 645 plugins: groups of two objects are full at the third (the code's limit is larger); two octets of two bits hold a neighbour, and the
  points name bits beyond them too; two goroutines with one command each are the least that meet on one octet, a bit each or both the same; one late answer of a meter is what the next request takes for its own.  The proofs cover controllers with any octets, bits, points and goroutines,
  and lines of any meters.
* Sessions and scripts: two devices and connections, since a device moves from one to another; two callers and two starts, three machines.  The proofs cover any number of each.

### Fairness

* `DeviceShadow`: the crontab does not stop and does not miss a period, and a goroutine that was started
  runs.  Nothing is assumed of those who call the shadow.
* `CoreCache`: the flush job finds each plugin again and again (`SF` of `AutoFlush`, because the lock
  and new changes may disable it in between), five seconds pass, and a write does not fail for ever
  (`SF` of `FlushEnd`: a full disk is emptied some day).
* `PointPath`: the collection task runs again and again, goroutines go on, transports answer or time
  out (`WF` of `Answer`), and a device's script does not fail on every collection (`SF` of
  `Compare(Collector)`).  Nothing is assumed of callers and of the device.
* `ModbusConnector`: an exchange ends, by an answer or by the client's timeout, and a goroutine that waits for a lock gets it,
  since `sync.Mutex` hands over to a waiter of more than a millisecond (`SF` of `CallerStep` and `ReadStep`: the lock
  is free and taken in turn).  The collection's job runs every second and time passes (`WF`).  Nothing is assumed of
  the line; it may break for ever, and opening may fail for ever.
* `LinkEdge`: some goroutine that can go on does (`WF` of `RunStep` of any of them), since requests to devices end by their timeout.
  Nothing is assumed of clients, and a file system may fail for ever.
* `Gateway`: goroutines go on, messages of a connection that lives are read, timers fire (`WF`), and a network that comes back
  again and again is found by one of the dials (`SF` of `Dial`).  Breaks are bounded.
* `Mirror`: goroutines of events, reports and a reload go on.  `History`: the flush job goes on (`WF` of
  `Goes`: its ticker fires, and an insert ends, with or without an error).  `BacnetConnector`: so does the
  collection job, and a request ends by its timeout (`WF` of `JobStep`).
* Everything else is checked for safety only.

The composed runs state the fairness of each part for the behaviours that exercise it.

Deadlock is checked in `cache`.  It is not checked where the model may stop: a `PointPath` whose callers have used up their
requests still collects, so this concerns the bounds only; a `ModbusConnector` that is closed, or a `LinkEdge`, whose callers have
used up theirs, has nothing left to do; a frame that has been read, a process that has panicked and a subscription that
jams are ends.  That nobody waits for ever by mistake is what the liveness properties and `OnlyAFullChannelJams` say.

## 4. Proofs

All proofs are for any values of the constants that the named `ASSUME`s allow, and are checked to the
leaves; TLC evaluates the assumptions on every run.  The invariants they rest on were checked by TLC first, as
invariants of the runs' instances or of larger ones (the one of `Mirror` on 273 511 states, that of `BacnetClient` on 6.9
million, with three ids and four requests, that of `Gateway` on 2.5 million, with two connectors).

| Module | Theorem | Property of a run |
|---|---|---|
| `DeviceShadow_proofs` | `TypeCorrect`, `StatusIsAnnounced`, `OnlyRacesMislead`, `OnlineBounded`, `CheckHidesNothing` | |
| | `StatusIsAlwaysRight` | `StatusIsRight` |
| | `FreshStaysOnline` | `FreshDeviceStaysOnline` |
| | `ShadowImplementsOnlineStatus` | `ImplementsOnlineStatus` |
| `CoreCache_proofs` | `CacheTypeCorrect`, `ReferencesAlwaysHold`, `DevicesAlwaysHaveShadows` | |
| | `CacheIsAlwaysConsistent` | `CacheIsConsistent` |
| | `LoadAlwaysRestoresFiles` | `LoadRestoresFiles` |
| | `ShadowsAlwaysHaveDevices` | `ShadowsHaveDevices` |
| `PointPath_proofs` | `PathTypeCorrect` | |
| | `ExportsKnowTheShadow` | `ToldIsShadow` |
| | `WritesReachTheDevice` | `WriteValueReached` |
| `ModbusPoints_proofs` | `PointsTypeCorrect`, `GroupsAreReadsOfTheirPoints`, `EveryPointIsCollectedOnce` | |
| | `GroupsAreAlwaysRight` | `GroupsAreRight` |
| | `ReadsAreAlwaysTrue` | `ReadsAreTrue` |
| | `WritesAlwaysReadBack` | `WriteReadsBack` |
| `Connectors_proofs` | `ConnectorTypeCorrect`, `LocksAlwaysMatch` | |
| | `AcknowledgedBitsAlwaysStay` | `AcknowledgedBitsStay` |
| | `PlansAreAlwaysWhole` | `PlansAreWhole` |
| `RulesGateway_proofs` | `LinkEdgeTypeCorrect`, `GatewayTypeCorrect` | |
| | `RulesAlwaysAgree` | `RulesAgree` |
| | `RulesAlwaysDoAsTheySay` | `RulesDoAsTheySay` |
| | `GatewayAlwaysServes` | `GatewayServes` |
| | `DevicesAlwaysArrive` | `EveryDeviceArrives` |
| `MirrorHistory_proofs` | `MirrorTypeCorrect`, `HistoryTypeCorrect` | |
| | `MirrorAlwaysHolds` | `MirrorHolds` |
| | `HistoryAlwaysHolds` | `HistoryHolds` |
| `Protocols_proofs` | `ClientTypeCorrect` | |
| | `AnswersAlwaysGoHome` | `AnswersGoHome` |
| | `StatusIsAlwaysOfTheSession` | `StatusIsOfTheSession` |
| | `ScriptsAreAlwaysCurrent` | `ScriptsAreCurrent` |
| | `ValuesStayWithTheirPoints` | `ValuesAreOfTheirPoints` |
| | `BitsAlwaysKeepNeighbours` | `BitsKeepNeighbours` |
| | `ClosedAlwaysEnds` | `ClosedMeansEnded` |

*Shadow.*  `StatusAnnounced` is inductive together with two facts (`StatusInv`): only devices the shadow holds
are online, and a device that was deleted while online has not come online since.  `WrongOnlyAfterRace` speaks of moments without events in flight; `ShadowInv` adds
`InFlightAgree`: events in flight of an unraced device are all of the status announced last.  `OnlineIsBounded`
needs `BoundedSinceCheck`: no age exceeds the time since the last check unless that check left the device
alone.  The refinement is proved step by step: every action is a step of `OnlineStatus` or leaves `status` and
`told` alone.

*Cache.*  `ReferencesHold` is inductive only with `RefInv`: a service that is down has an empty cache.
Loading starts from what `Reset`, or the end of the process, left, and does not clear the cache itself; a file
that is refused half way leaves references that hold only after `Reset`.

What is on disk is said by `FileInv`, whose parts need one another.  `OwnFiles`: no plugin writes a file that another writes or
may come to write, so writing one plugin's file changes no other's (`DiskStep`).  `WriterInv`: what is being written is
consistent even while the service stops.  `KnownFiles`: the cache knows the path of every file,
unless a removal failed.  `LoadInv`: how far a load has come, each plugin read so far holds what its file says, as long as
no file was refused or overlapped another.  `SavedInv`: a plugin without unsaved changes has its configuration on disk, or the piece
of it that the last write left when it failed.  Every change of a plugin's configuration marks the plugin (`ChangeIsMarked`).
`ShadowInv` says of a shadow, and of a place on `initDeviceShadow`'s list, that the device is there or is `stray`; while the service
stops, every shadow is one that `Stop` has missed.  From these, `SavedIsOnDisk` and `OneFilePerPlugin` are consequences, and `LoadRestoresFiles` follows from the step in which a load
ends.  `InstallAssumption` is needed: a file that was installed in another plugin's default directory would be overwritten by that plugin's first
flush.

*Point path.*  `TypeOK` holds only with `ValuesFit`: what is sent to a point and what is read of it are values
of that very point, so scaling it back gives a value the device can hold.  `ToldIsShadow` speaks of
moments without exports; `ToldInv` adds what an export under way will do: at most one export holds a
point that is not misled, and what it will deliver is what the shadow holds, or the exports know it already.
`WriteInv` says that at most one caller writes an undisturbed point, and that it writes what
`WriteValue` says.  `OneThing` (a caller has either a request, or a verification and its exports)
makes sure that no export is replaced by another.

*Modbus points.*  `GroupsInv` says of every group, `GroupOK`, that it covers its points, that its length is within the limit
or that of its only point, and that it ends within the address space; `Length` of a group and
a new point is then a difference without a wrap (`LengthFacts`), and `JoinedOK` that joining keeps it.  The assumption
that `BatchReadLen` is less than the space is needed: with the whole space as limit a group could come back to length 0.  `PlacesInv` states that
each grouped point has one place; `OnePlaceMore` is the step, for a point that joins as well as for one that begins a group.

Values of any number of points in any order are computed in steps, by functions that recur on their number.  `StepByStep` is the induction
over such steps (a set that has the first and with each the next has all of them, from the well-foundedness of the naturals), and `Recursion` says
that there is a function that follows them, so that the one the model chooses does.  *Reads*: `ReadsInv`.  A point that no other of several registers overlaps finds its
registers as they were read, whatever was turned around in place before it (`ValuesAreHeld`), and `OrderedIs` says what is made of them.  `OwnersInv` says whose groups
are: two groups that one device began have different indexes, so a request in a unit of one device leaves none of its groups out (`GroupsOfFacts`,
`RequestFacts`).  *Writes*: `WritesInv`.  Merging neither adds nor loses nor moves a word (`MergedFacts`, over what the writes put, `Puts`), whatever order `Sorted`
gives; a register gets the one word that all writes that cover it have for it (`WrittenFacts`), and `EncodeIs` says that reading that word back
gives the value.  `ValuesAssumption` says that values have the length of their points, and `PointsAssumption` that coils and discrete inputs are points of one, as
`convToPointExtend` makes them (`connector.go:643-646`).

*Modbus connector.*  `LocksInv` adds to `LocksAreHeldByTheirUsers` what a writing goroutine knows at its place (`RequestOK`):
that it has a request and attempts left, and how far it has come.  All steps are steps of one goroutine, so
`StepOfOne` shows once what such a step may do to the locks, and each action is an instance of it.  `BitsInv` makes
`AcknowledgedBitsStay` inductive: while a caller encodes and sends, the value it is going to write has every acknowledged bit
of the register, and the bits it was asked for as far as it has come; nobody else is between `Encode` and the end of
`Send`, and an acknowledged bit is one that no open request names.

*BACnet connector.*  Three arguments, one per part of `PlansAreWhole`.  `ArrangeInv` says of the points arranged so far and the groups of their
device (`GroupsOK`) that an object shows points it is read for only (`Sourced`), that no two groups of one period hold an instance twice (`Separate`), and
that a point is on an object or a rival has its place.  The step is about `Place`, which takes the first group that has the instance or room: that the instance is
on no later group of the period needs that a group before the last one of its period is full (`Sized`).  `PointPlaced` is the
step, for a new group, a new object and an object that is there already.  That a point is found once needs the names of a model device to be different
(`BacnetAssumption`); two points of one name would show as one.  `BatchInv` relates what was sent to the place the command has come to: the writes that were sent are those it has passed (`Passed`), each
precedes the ones after it, and the values it has passed can be written; a step sends the next one (`WriteSent`) or passes none (`NothingSent`).  Groups must be arranged before
the first command, since what is sent depends on the device being there.  `LateInv`: the job looks at the flag before each read, so that
a read that begins finds no late one before it.

*Link edge.*  `RulesAgree` speaks of rules no operation is at work on; its strengthening says what each operation leaves at each of its
places.  `Stage` is that for one operation: after `Forget` memory has only schedules, after `Remove` only they
are left, before `Register` there is a whole file and nothing else.  `Consistent` joins it with `Agrees` for rules at rest, for every rule that is not
disturbed, and says that such a rule has at most one operation.  `OpMoves` is the step of an operation from one stage to the next, `Untouched` the
lemma for everything else that leaves a rule alone, and `OnlyConfigs` the one for runs, which touch nothing but `configs`.

*Runs, triggers and conditions.*  `RulesDoAsTheySay` has three arguments, one per part.  `ResultInv` keeps an account of every run (`Account`): the first `n` actions are counted as
successes, or are points a device has still to take, and one at least is neither when a device has failed; neither the counter nor what a goroutine has read of it is more than was counted.  The counter has no
lock, so additions may be lost: it holds at most what was counted, and so says `success` only when every action was.  `TriggerInv`: the starting time of a trigger is not
before the last report that failed it, unless the walk of that very report has still to reach the trigger (`Failing`); while no two walks overlap and no update crosses one,
there is only one such walk, and it sets the starting time to 0 before it can start the rule.  Conditions: the
first that does not let the walk go on decides (`FirstDecides`), each does so as it says (`PlainCheck`), and an interval of dates ends the walk either way (`IntervalCheck`, with arithmetic of days for
any year).  The last needs begin and end on different days, and so the proof met a case the run had not: 28 and 29 February are one day in other years, and an
interval from the one to the other then holds on every day.  `ConditionsAreConfigured` says that dates, moments and numbers are such.

*Gateway.*  Three arguments, on top of `Lines` in the types (a goroutine that reads has a connection, a stored connection is a connection).
*Turns*: `CommandInv` says of every command under way that it carries the device and the connection it was sent with, and
that the commands of a connection wait in the order they were sent, after those that were carried out (`Carried`, `InTurn`); what
is put at the end and taken from the front keeps the turn (`AppendInTurn`, `TailInTurn`).  *One connector*: a destroyed
connector reads no connection that works, and every working connection that asked to register is read by one
that was not destroyed (`OneRuns`, `DestroyedReadsNothing`, `AskersAreRead`); so whoever registers is
the only one, unless a connection was stored after the end (`ghost`).  *Stages*: `ArriveInv` says of a promised device, at each place
of the synchronisation, that the main gateway has it, or that it is among the messages under way, after its model, or
among what is still to be sent (`ModelComes`, `DeviceComes`).  `EveryDeviceArrives` is the last stage.  A command goes to the device
`ParseDevice` finds in the identifier that `GenDevice` made, and the lemma `ParseGen` that the one undoes the other is about sequences of any length.
It needs `GatewayAssumption`: a serial number that is part of an identifier would be cut out of it.

*Mirror.*  `MirrorHolds` compares the plugin's maps with the core cache, and the two are changed by different
goroutines in different steps.  `MakeInv` says what a goroutine that makes a mirror carries with it: the points it has read are those of the
model it has added, and nobody else makes or maps this mirror, since `MirrorOf` gives each raw device its own.  `ReloadInv` says that what a
reload has read is what it finds when it initialises, for mirrors that no making or removal crossed.  `MappedInv` is `MappingIsTheModels` for all moments,
those inside a reload included.  That both maps say the same is a lemma about their construction
(`FeedsAndMapping`), and holds of `Clear` lists of points only; a template that names one point with two raw points would be fed from both and write to one.

*History.*  `RecordsAreConserved` counts appended records only; `CountInv` says of every record how often it occurs, once
or not at all, and that no batch has it twice.  The step that takes a queue turns occurrences in it into one batch, and so
needs to know that what was read is still in the queue: `AloneInv` says so, as long as at most one goroutine is between reading and replacing,
which `raced` records the end of.  `BatchesOfReporter` and `BatchesOfFlush` say once what a step of one goroutine changes of the batches under way.
`RecordInv` gives each pending record one reporter.  `SnapshotInv` follows the pages of a snapshot, and `PagesAreOfDevices`
that pages of any size, as they are cut, have each device once.

*BACnet client.*  Three arguments.  *Conservation*: ids are in the queue of free ones, once, or held by one
transaction (`Apart`, `Queue`), and the queue's length and the places count the transactions under way
(`Places`, with the cardinality of `Holding`); hence a place always comes with an id, and no two
transactions share id, state or channel.  *Ownership*: while nothing is late, every datagram and every handler belongs to a
caller that waits for it, and there is one of them at most (`Timely`); hence no handler meets a closed channel and every
answer is one's own.  *Distance*: an id that is given back goes to the end of a queue of at least `Distance = MaxTransaction - 1 - size` ids, so that
as many transactions begin before it is used again.  `FarApart` says of a datagram whose id is at place `j` of the queue that the
transaction that will take it is far from the datagram's, and of one whose id is in use that it is
far already; it is what makes the queue, and not the ids, keep late answers from later requests.  `Timely` holds of handlers that found
their state in time; one that did not may put its answer into whatever channel its state object has by then, and
`WrongAnswersAreOld` names it (`g.at = g.of`).

*Sessions.*  `StatusIsOfTheSession` speaks of a device that no two connections handled at once (`crossed`), when all goroutines are through with it.
For websocket, `AloneInv` says that the goroutines of at most one connection have it, and `LastInv` that this is the connection it reported over last.
Then `MappedInv` keeps the map right: an uncrossed device is mapped to no other connection than its last one, and to that one from its mapping on;
`ListedInv` says that whatever is mapped is on the list of its connection, or in what is left of that list at the end.  So the end of a
connection finds every device it must set offline, and none that has moved (`OnlineInv`).  MQTT keeps no map: there the argument is that of
the sessions of one connector all but one are lost (`SessionInv`), and that a device whose last session is there is in nothing that ends
(`LostInv`).  The proof has a lemma per action and conjunct, from facts about what the step of one goroutine leaves alone.

*Scripts.*  `LockInv`: who loads a script holds the lock, and neither the map it looked at nor any later one has a machine for the key, so that none is
loaded twice.  `FreshInv`: the machine it has made is in no map and not about to be closed.  `MapInv`: a machine in the map in use is
open, known to its lock, not to be closed, and not older than the last start, unless a start crossed its loading.  `CallInv`: a caller on its way to a machine finds it open, unless
a start overtook it, or it has put the machine into, or found it in, a map that was already replaced.  `UnloadDeviceDrivers` replaces the map before it walks it, and `CloseInv` says that what it has still to close
is in the map it walks and hence in no map in use, whatever is stored into that map during the walk.

*Controllers.*  The map of nodes has for each name the last point with an address (`NodesFacts`).  `ReportOK` is the lemma about the two clients' reads: what they return for
a node set is that node's value, for any order of the map and any set of failing nodes; the exception for OPC UA is a node id that
cannot be parsed.  `MutexInv` says that a command between read and write has the mutex, so that there is one at most, and that its buffer is the octet of memory, unless the controller wrote it
meanwhile (`raced`); `BitsKeepNeighbours` is its consequence.

*Lines and jobs.*  `EmptyInv`: between two exchanges nothing waits on a line unless an answer came late, so the first frame of an exchange is its own.  `ClosingInv`:
`Close` raises the flag before it closes the port, and only a job that had looked at the flag before may open it again.  `ListInv`: whoever is between reading the
list of jobs and replacing it is alone, and the list is what it has read, unless two of them crossed; so no job drops out of the list, and
`LateInv` says that what a disabled job has begun and will begin are the calls that were started when it was disabled.

`MCProtocols` joins these parts; a step of the whole is a step of each part or leaves it alone (`PartsStep`), which carries each
part's invariant to the whole.  Three assumptions say what is configured: `ConnectionsAreConfigured` (each point's node is an octet and a bit),
`SessionsAreConfigured` (one of the two plugins; connections are numbered from 1; a message is about at least one device), and
`ZeroIsNoReader` (0 stands for a lock that nobody has).

### Left to TLC

* Liveness: `SilentDeviceIsReported`, `SettledIsSaved`, `ShadowFollowsDevice`, `RequestsAreAnswered`, `RegisterIsCollected`, `CollectionGoesOn`,
  `BrokenLineIsReopened`, `RunsEnd`, `MainCatchesUp`, `MirrorFollowsRaw`, `EveryTemplateIsMade`,
  `QueueIsFlushed`.  Fairness and `ENABLED` are beyond the prover.
* `OnlyAFullChannelJams` says with `ENABLED` what waits for what.
* What functions compute on data of any length, for two of them: `RegistersAreTrue` (layouts are folds over operators) and
  `MessagesAreUnderstood` (recursive decoders).  Recursive operators cannot be expanded by the provers, nor theorems about
  folds be instantiated with an operator.

## 5. What the code does and the models show

Each of these is a behaviour of a model, read from the code, that has no run of its own, most often because one step shows it.

*Cache.*  `UpdateDeviceDesc` (and `UpdateDeviceProperty` of a device whose properties are nil) changes a local copy and saves
nothing (`cache.go:529, 552`); `Flush` removes the file of a plugin that has devices and no connection
(`cache.go:737` tests the connections twice).  A device that is removed while `initDeviceShadow` has it on its list gets its
shadow back (`plugin.go:109-116`), and one that is added between `shadow.Reset` and `cache.Reset` leaves one behind
(`driverbox.go:110-113`).

*Sending.*  The verification of a batch write compares scaled values: `SendBatchWrite` scales the values in the caller's slice
(`common.go:58`) and hands the same slice to the verification (`batch_send.go:53`), which then looks for a value the exports do not know and
reads until it gives up, whatever the device holds.

*Modbus connector.*

* A request after `Close` opens the client again, and on a serial line it stays open: the flag `close` is only read by the
  collection.
* `write` defers `closeModbusClient(err)` with the `err` of that moment, which is nil: a failed write never closes a
  serial line, and only a failing read does (`BrokenLineIsReopened` needs the collection for it).
* Bits of one request are merged by a mask in the register's own order of bytes; with byteSwap the value is in the other order
  by then, and the second bit is lost.  `AcknowledgedBitsStay` leaves those requests out of what is acknowledged, and still
  holds for all other bits beside them.
* A collection that gives way returns without an error: its own `LatestTime` is then set to now, so the raised
  priority of `resetCollectTime` is gone for that group, and its back-off starts again.
* The back-off shortens a duration of more than a minute to a minute.
* The pause after a write (`MinInterval`) is compared as nanoseconds and not as milliseconds, so the collection practically never
  waits for it; the model has no such pause.

*Modbus points.*  An INT64 is read as four registers and reported as an int32 (`connector.go:323-324`): a value beyond 32 bits loses its
high half, though all of it can be written (`adapter.go:300-318`).

*Modbus server.*  `NewServer` makes a storage without its map of devices, so that a start with a device panics; the export's `server` is
never set and `IsReady` panics; the export is registered nowhere.  A successful write (function 16) is never answered and the slave's id never compared.
`verifyAddressQuantity` adds in 16 bits, so a range is never refused and one past the end panics (`OnlyTheEdgesFail`).  The length of a value is an octet: a device of 128 words
or more is read wrongly.  `int` and `uint` get one word and are written as four.  The layout follows a map's order.

*Link edge.*

* `sucCount` counts points and is compared with the number of actions (`linkedge.go:318, 328`): one action of two points makes up for a
  device that failed, and "success" is sent, which `ResultIsTrue` leaves out; and one that lost an update makes "partSuccess" of a success.
* The silent period is looked at before a run and noted after it, by `Trigger` only: two overlapping runs both pass, nested runs leave
  no trace, and a start forgets all times (`linkedge.mdx:328` promises the period for every repetition).
* A process that stops between `os.Create` and `Write` leaves an empty file, and the export does not start again while it is there
  (`export.go:51`).
* An Update whose Create fails has deleted the old rule.
* A date interval that holds ends the check: conditions after it are not looked at (`Strange` names it); one of a single day holds every day; a times
  condition never holds, since its day is added to the year 0 (`validator.go:42`); an unknown symbol passes for numbers; numbers are rounded to 32-bit floats; the last time of a run is never
  looked at.
* The handler of triggers indexes the shared list again after it has looked at it: a rule changed during a walk panics.

*Gateway.*  A destroyed connector that is just dialling goes on (`internal/plugin/connector.go:162`); the end of an old connection may undo a new registration, which `MainCatchesUp` leaves out by `stolen`.

*Mirror.*  A reload between the steps of a making takes the model away, and nobody tries again; what a reload read before a mirror was made is mapped without it (`crossed`).

*History.*  An export whose `Init` failed panics in `Destroy`.  A reserved number of days that cannot be parsed is 0, and all rows go every hour.  The columns of an insert are those of its first row.

*BACnet.*  Integers from 128 to 255 are read as negative; doubles are written with length 4; the priority of a multiple write has the wrong tag; a list of
routers has two networks or is misread; the error of one object fails a whole multiple read; a multiple answer that is cut may never be decoded to
its end.  `MessagesAreUnderstood` names each of them as an exception.  In the plugin, `Decode` asserts a string on octets and ends the process at the first good value; commands for a device
without readable points are acknowledged and not sent, and errors of a write are only logged; the string "null" writes 0; one connection that fails keeps the ones after it from being made.

*S7, OPC UA.*  Points of all devices share one map by their names, the last one wins; what is read is reported under the connection's key.  `Release` closes the connection, so
the first command ends the collection.  A refused connection is nil and panics.  A bit number above 7 is read as bit 0.  `ReadNodes` of OPC UA shifts values after a node id that cannot be
parsed; `ValuesAreOfTheirPoints` names it.

*DL/T 645.*  `SendRawFrame` opens the line again after `Close` (`serial.go:25` says otherwise).  Neither address, data identifier nor checksum of an answer are compared; digits that cannot be
decoded are the value 0; an answer of preamble only panics; two devices on one meter overwrite each other's groups.

*Sessions.*  After a reload, open websocket connections stay with the old connector: commands fail, and their end sets a device offline that
reports over the new one.  Two writers of one websocket panic.  The first connection of an MQTT client is not retried; `Disconnect` leaves its devices online.

*Scripts.*  A machine that is stored into a map a start has replaced and still ranges over may be closed before its caller calls it (`device_driver.go:192-197`).  A call whose machine is closed after its lock was fetched recovers and returns nothing: `DeviceEncode` and `DeviceDecode` panic on it, `DecodeV2` looks.  A script that returns a table of something else than tables
panics its caller.  A machine being loaded while the program starts again may stay stale or open.

## 6. Left to do

1. The events of the cache, fired under its lock or from goroutines, and handlers that call back.
2. Coils and several registers per request on a modbus connection; a run of merged bits.
3. A script that turns one point into several, in `PointPath`.
4. The order in which plugins and exports start.

## 7. Not modelled, and why

* Bodies of models, connections and scripts; formats of files and messages other than modbus, DL/T 645 and BACnet frames; logs: nothing above
  depends on them.
* Discover export: it adds what a report names to the core cache, by operations that are modelled.  REST API, base export, AI and MCP: glue to the core API.  MQTT export, HTTP
  and TCP plugins: no state between messages.  Logger, file helpers, local cache helper: pure I/O, or not used by the core.
* Floats: scaled values are integers.  Truncation to decimals after scaling may make a verification miss a value
  that has arrived (0.3 read back as 0.29).
* Conversions of modbus values to numbers: bytes are followed to the value (of an INT64 the four that are reported), not their
  meaning as an integer or a float.  Values of the type String, which have any length, and the bits of a register as values to report.
* Virtual modbus connections, writes of coils, and the pause between exchanges.
* What Go does to a map that two goroutines change at once (crontab, link edge, cache flush, `Reset` of the shadow): the interleavings are modelled, and the end of the process where a
  module has one (`running`, `crashed`, `alive`, `Restart`).
* The answers to the control commands of a main gateway: it only logs them (`internal/plugin/connector.go:417`), so `Answer` of `Gateway` is a step with no message.
* Schedules as cron expressions, and the validation of rules and configurations.
* The BACnet encoders of answers, which the client never sends, context-tagged values and time stamps.

---------------------------- MODULE DeviceShadow ----------------------------
(***************************************************************************)
(* The device shadow of driver-box (internal/shadow): what the gateway     *)
(* believes about every device, its latest point values, and the           *)
(* DeviceOnline events it fires when that belief changes.                  *)
(*                                                                         *)
(* Every exported method of deviceShadow runs under deviceShadow.mutex, so *)
(* each is one action.  Events are fired with `go export.TriggerEvents`:   *)
(* every event is a goroutine of its own, and the goroutines in flight run *)
(* in any order.                                                           *)
(*                                                                         *)
(* Time is kept as ages (time.Since of a stored instant), saturating at    *)
(* MaxAge, which is also the age of Go's zero time.Time.  MaxAge lies      *)
(* above every threshold an age is compared with.                          *)
(***************************************************************************)
EXTENDS Integers

CONSTANTS
    Devices,       \* device identifiers
    Points,        \* point names
    Values,        \* point values
    Nil,           \* Go's nil interface value
    TTLs,          \* the ttl values a device may have
    DefaultTTL,    \* the 24 hours AddDevice falls back to
    OfflineWindow, \* the 60 seconds of maybeOffline
    FailLimit,     \* the 3 failures of maybeOffline
    CheckPeriod,   \* the 5 seconds between two checkOffline
    MaxAge,        \* age of the zero time; ages saturate here
    MaxInFlight    \* bound: event goroutines of one device and kind not yet run

ASSUME ShadowAssumption ==
    /\ Nil \notin Values
    /\ TTLs \subseteq Nat \ {0}
    /\ DefaultTTL \in TTLs
    /\ OfflineWindow \in Nat
    /\ FailLimit \in Nat \ {0}
    /\ CheckPeriod \in Nat \ {0}
    /\ MaxAge \in Nat
    /\ MaxInFlight \in Nat \ {0}
    /\ OfflineWindow < MaxAge
    /\ \A t \in TTLs : t + CheckPeriod < MaxAge

VARIABLES
    known,           \* domain of deviceShadow.devices
    online,          \* device.online
    ttl,             \* device.ttl
    disconnectTimes, \* device.disconnectTimes, saturating at FailLimit
    age,             \* time.Since(device.updatedAt)
    value,           \* DevicePoint.Value
    valueAge,        \* time.Since(DevicePoint.UpdatedAt)
    writeValue,      \* DevicePoint.WriteValue
    sinceCheck,      \* time since checkOffline last ran
    inFlight,        \* inFlight[d][s]: event goroutines not yet run
    view,            \* the last status an export was told of each device
    \* History variables: they record, and no guard of the code reads them.
    announced,       \* the status of the last event fired for each device
    orphaned,        \* deleted while online: the announced status is void
    forcedAge,       \* time since SetOnline last made or kept d online
    raced            \* an event was fired while an opposite one was in flight

fields  == <<known, online, ttl, disconnectTimes, age>>
points  == <<value, valueAge, writeValue>>
events  == <<inFlight, view, announced, orphaned, raced>>
vars    == <<fields, points, sinceCheck, events, forcedAge>>

Ages   == 0 .. MaxAge
Status == {"online", "offline"}

StatusOf(b) == IF b THEN "online" ELSE "offline"
Opposite(s) == IF s = "online" THEN "offline" ELSE "online"
Older(a)    == IF a < MaxAge THEN a + 1 ELSE MaxAge

TypeOK ==
    /\ known \subseteq Devices
    /\ online \in [Devices -> BOOLEAN]
    /\ ttl \in [Devices -> TTLs \union {0}]
    /\ disconnectTimes \in [Devices -> 0 .. FailLimit]
    /\ age \in [Devices -> Ages]
    /\ value \in [Devices -> [Points -> Values \union {Nil}]]
    /\ valueAge \in [Devices -> [Points -> Ages]]
    /\ writeValue \in [Devices -> [Points -> Values \union {Nil}]]
    /\ sinceCheck \in 0 .. CheckPeriod
    /\ inFlight \in [Devices -> [Status -> 0 .. MaxInFlight]]
    /\ view \in [Devices -> Status]
    /\ announced \in [Devices -> Status]
    /\ orphaned \in [Devices -> BOOLEAN]
    /\ forcedAge \in [Devices -> Ages]
    /\ raced \in [Devices -> BOOLEAN]
    /\ \A d \in known : ttl[d] \in TTLs

Init ==
    /\ known = {}
    /\ online = [d \in Devices |-> FALSE]
    /\ ttl = [d \in Devices |-> 0]
    /\ disconnectTimes = [d \in Devices |-> 0]
    /\ age = [d \in Devices |-> MaxAge]
    /\ value = [d \in Devices |-> [p \in Points |-> Nil]]
    /\ valueAge = [d \in Devices |-> [p \in Points |-> MaxAge]]
    /\ writeValue = [d \in Devices |-> [p \in Points |-> Nil]]
    /\ sinceCheck = 0
    /\ inFlight = [d \in Devices |-> [s \in Status |-> 0]]
    /\ view = [d \in Devices |-> "offline"]
    /\ announced = [d \in Devices |-> "offline"]
    /\ orphaned = [d \in Devices |-> FALSE]
    /\ forcedAge = [d \in Devices |-> MaxAge]
    /\ raced = [d \in Devices |-> FALSE]

-----------------------------------------------------------------------------
(* Events *)

\* handlerCallback for every device of S: one goroutine each.
FireAll(S, s) ==
    /\ \A d \in S : inFlight[d][s] < MaxInFlight
    /\ inFlight' = [d \in Devices |->
                       IF d \in S THEN [inFlight[d] EXCEPT ![s] = @ + 1]
                                  ELSE inFlight[d]]
    /\ announced' = [d \in Devices |-> IF d \in S THEN s ELSE announced[d]]
    /\ orphaned' = [d \in Devices |-> orphaned[d] /\ d \notin S]
    /\ raced' = [d \in Devices |->
                    \/ raced[d]
                    \/ d \in S /\ inFlight[d][Opposite(s)] > 0]
    /\ UNCHANGED view

handlerCallback(d, s) == FireAll({d}, s)

\* Bug: the event is dropped on its way to the exports.
TriggerEvents_Mutant(d, s) ==
    /\ inFlight[d][s] > 0
    /\ inFlight' = [inFlight EXCEPT ![d][s] = @ - 1]
    /\ UNCHANGED <<fields, points, sinceCheck, view, raced, announced, orphaned,
                   forcedAge>>

\* One event goroutine runs: the exports learn the status it carries.  The
\* race on d is over when nothing is left in flight and the exports know the
\* status fired last.
TriggerEvents(d, s) ==
    /\ inFlight[d][s] > 0
    /\ inFlight' = [inFlight EXCEPT ![d][s] = @ - 1]
    /\ view' = [view EXCEPT ![d] = s]
    /\ raced' = [raced EXCEPT ![d] =
                    /\ @
                    /\ \/ announced[d] # s
                       \/ \E t \in Status : inFlight'[d][t] > 0]
    /\ UNCHANGED <<fields, points, sinceCheck, announced, orphaned, forcedAge>>

-----------------------------------------------------------------------------
(* The methods of deviceShadow *)

\* The ttl of a new device: the one given, if it is positive.
customTTL(t) == IF t > 0 THEN t ELSE DefaultTTL

\* AddDevice is idempotent: a device that exists is left as it is.
AddDevice(d, t) ==
    /\ d \notin known
    /\ known' = known \union {d}
    /\ ttl' = [ttl EXCEPT ![d] = customTTL(t)]
    /\ UNCHANGED <<online, disconnectTimes, age, points, sinceCheck, events,
                   forcedAge>>

\* The entry goes; what newDevice will start from is put back in its place.
\* No event is fired, whatever the status was.
DeleteDevice(d) ==
    /\ d \in known
    /\ known' = known \ {d}
    /\ orphaned' = [orphaned EXCEPT ![d] = @ \/ online[d]]
    /\ online' = [online EXCEPT ![d] = FALSE]
    /\ ttl' = [ttl EXCEPT ![d] = 0]
    /\ disconnectTimes' = [disconnectTimes EXCEPT ![d] = 0]
    /\ age' = [age EXCEPT ![d] = MaxAge]
    /\ value' = [value EXCEPT ![d] = [p \in Points |-> Nil]]
    /\ valueAge' = [valueAge EXCEPT ![d] = [p \in Points |-> MaxAge]]
    /\ writeValue' = [writeValue EXCEPT ![d] = [p \in Points |-> Nil]]
    /\ forcedAge' = [forcedAge EXCEPT ![d] = MaxAge]
    /\ UNCHANGED <<sinceCheck, inFlight, view, announced, raced>>

\* device.setPointValue: the value, both time stamps and the failure count.
setPointValue(d, p, v) ==
    /\ age' = [age EXCEPT ![d] = 0]
    /\ disconnectTimes' = [disconnectTimes EXCEPT ![d] = 0]
    /\ value' = [value EXCEPT ![d][p] = v]
    /\ valueAge' = [valueAge EXCEPT ![d][p] = 0]
    /\ UNCHANGED writeValue

\* A reported value: the device is online, and an event tells so if it was not.
SetDevicePoint(d, p, v) ==
    /\ d \in known
    /\ setPointValue(d, p, v)
    /\ online' = [online EXCEPT ![d] = TRUE]
    /\ IF online[d] THEN UNCHANGED events ELSE handlerCallback(d, "online")
    /\ UNCHANGED <<known, ttl, sinceCheck, forcedAge>>

\* SetOnline fires its event even when the device is online already.
SetOnline(d) ==
    /\ d \in known
    /\ online' = [online EXCEPT ![d] = TRUE]
    /\ forcedAge' = [forcedAge EXCEPT ![d] = 0]
    /\ handlerCallback(d, "online")
    /\ UNCHANGED <<known, ttl, disconnectTimes, age, points, sinceCheck>>

\* SetOffline fires its event even when the device is offline already.
SetOffline(d) ==
    /\ d \in known
    /\ online' = [online EXCEPT ![d] = FALSE]
    /\ handlerCallback(d, "offline")
    /\ UNCHANGED <<known, ttl, disconnectTimes, age, points, sinceCheck,
                   forcedAge>>

\* Bug: three failures in a row are enough, however fresh the last data is.
maybeOfflineLimit_Mutant(d) ==
    disconnectTimes[d] + 1 >= FailLimit

\* The offline condition of device.maybeOffline, this failure counted.
maybeOfflineLimit(d) ==
    /\ age[d] > OfflineWindow
    /\ disconnectTimes[d] + 1 >= FailLimit

\* Bug: the device is taken offline and nobody is told.
MayBeOffline_Mutant(d) ==
    /\ d \in known
    /\ online[d]
    /\ disconnectTimes' = [disconnectTimes EXCEPT
                              ![d] = IF @ < FailLimit THEN @ + 1 ELSE @]
    /\ online' = [online EXCEPT ![d] = ~maybeOfflineLimit(d)]
    /\ UNCHANGED <<known, ttl, age, points, sinceCheck, events, forcedAge>>

\* A failed request to the device (driverbox/internal/core calls it whenever a
\* connector, Encode or Send fails).
MayBeOffline(d) ==
    /\ d \in known
    /\ online[d]
    /\ disconnectTimes' = [disconnectTimes EXCEPT
                              ![d] = IF @ < FailLimit THEN @ + 1 ELSE @]
    /\ IF maybeOfflineLimit(d)
       THEN /\ online' = [online EXCEPT ![d] = FALSE]
            /\ handlerCallback(d, "offline")
       ELSE UNCHANGED <<online, events>>
    /\ UNCHANGED <<known, ttl, age, points, sinceCheck, forcedAge>>

\* SetWritePointValue creates the point if need be: no value, zero UpdatedAt.
SetWritePointValue(d, p, v) ==
    /\ d \in known
    /\ writeValue' = [writeValue EXCEPT ![d][p] = v]
    /\ UNCHANGED <<fields, value, valueAge, sinceCheck, events, forcedAge>>

-----------------------------------------------------------------------------
(* The periodic check *)

\* device.refreshStatus takes these devices offline.
Expired(d) == d \in known /\ online[d] /\ age[d] > ttl[d]

\* checkOffline, every CheckPeriod from the crontab: one pass over the map
\* under the lock.
checkOffline ==
    /\ LET gone == {d \in Devices : Expired(d)}
       IN /\ online' = [d \in Devices |-> online[d] /\ d \notin gone]
          /\ FireAll(gone, "offline")
    /\ sinceCheck' = 0
    /\ UNCHANGED <<known, ttl, disconnectTimes, age, points, forcedAge>>

\* One unit of time.  The crontab does not miss a period: time does not pass
\* over a check that is due.
Tick ==
    /\ sinceCheck < CheckPeriod
    /\ sinceCheck' = sinceCheck + 1
    /\ age' = [d \in Devices |-> Older(age[d])]
    /\ valueAge' = [d \in Devices |-> [p \in Points |-> Older(valueAge[d][p])]]
    /\ forcedAge' = [d \in Devices |-> Older(forcedAge[d])]
    /\ UNCHANGED <<known, online, ttl, disconnectTimes, value, writeValue,
                   events>>

-----------------------------------------------------------------------------
Next ==
    \/ \E d \in Devices :
          \/ \E t \in TTLs \union {0} : AddDevice(d, t)
          \/ DeleteDevice(d)
          \/ \E p \in Points, v \in Values : SetDevicePoint(d, p, v)
          \/ \E p \in Points, v \in Values \union {Nil} :
                SetWritePointValue(d, p, v)
          \/ SetOnline(d)
          \/ SetOffline(d)
          \/ MayBeOffline(d)
          \/ \E s \in Status : TriggerEvents(d, s)
    \/ checkOffline
    \/ Tick

Spec == Init /\ [][Next]_vars

\* The crontab goroutine keeps running, and so does every event goroutine.
Fairness ==
    /\ WF_vars(Tick)
    /\ WF_vars(checkOffline)
    /\ \A d \in Devices, s \in Status : WF_vars(TriggerEvents(d, s))

FairSpec == Spec /\ Fairness

-----------------------------------------------------------------------------
(* What the shadow promises *)

\* GetDevicePoint: the value a reader is given.
Served(d, p) ==
    IF d \in known /\ online[d] /\ valueAge[d][p] <= ttl[d]
    THEN value[d][p] ELSE Nil

\* Every change of a device's status is announced: the last event fired says
\* what the status is, unless the device was deleted while it was online, which
\* fires nothing (handlerCallback and its five callers).
StatusAnnounced ==
    \A d \in Devices :
        (announced[d] = "online") <=> (online[d] \/ orphaned[d])

\* Once no event of a device is in flight the exports know its last announced
\* status, unless two opposite events were in flight together: only such an
\* overlap can leave an export with the wrong status.
WrongOnlyAfterRace ==
    \A d \in Devices :
        /\ \A s \in Status : inFlight[d][s] = 0
        /\ ~raced[d]
        => view[d] = announced[d]

\* A device stays online without data no longer than its ttl and one check
\* period, whether or not its requests fail; SetOnline buys one check period
\* more (refreshStatus, checkOffline, SetOnline which leaves updatedAt alone).
OnlineIsBounded ==
    \A d \in Devices : online[d] =>
        \/ age[d] <= ttl[d] + CheckPeriod
        \/ forcedAge[d] <= CheckPeriod

\* What the shadow says of a device's status, to the exports and to itself, is right, as far as
\* the three say.
StatusIsRight == StatusAnnounced /\ WrongOnlyAfterRace /\ OnlineIsBounded

\* The device's time stamp is never older than that of one of its points, so
\* the ttl of the device and that of its points agree (setPointValue).
DeviceAsFreshAsItsPoints ==
    \A d \in Devices, p \in Points : age[d] <= valueAge[d][p]

\* The periodic check hides no value that could still be read: the devices it
\* takes offline have only expired points (refreshStatus, getPointValue).
CheckHidesOnlyExpired ==
    [][checkOffline => \A d \in Devices, p \in Points :
          Served(d, p)' = Served(d, p)]_vars

\* A device that sent data within both its ttl and the offline window is never
\* taken offline by failed requests or by the check: only SetOffline and
\* DeleteDevice do that (maybeOffline, refreshStatus, AddDevice).
FreshDeviceStaysOnline ==
    [][\A d \in Devices :
          (online[d] /\ ~online'[d] /\ age[d] <= ttl[d] /\ age[d] <= OfflineWindow)
          => (SetOffline(d) \/ DeleteDevice(d))]_vars

\* The exports hear of a silent device: they are told it is offline, unless
\* data arrives or it is deleted first (crontab, checkOffline, handlerCallback).
SilentDeviceIsReported ==
    \A d \in Devices :
        (d \in known /\ online[d] /\ age[d] > ttl[d])
        ~> (view[d] = "offline" \/ age[d] = 0 \/ d \notin known)

-----------------------------------------------------------------------------
(* The shadow implements OnlineStatus *)

Abstract == INSTANCE OnlineStatus WITH
    status <- [d \in Devices |->
                  IF d \in known THEN StatusOf(online[d]) ELSE "absent"],
    told <- announced

\* The shadow implements the status a user of driver-box is promised: no status
\* change of a registered device without its event (deviceShadow as a whole).
ImplementsOnlineStatus == Abstract!Spec

=============================================================================

------------------------ MODULE DeviceShadow_proofs ------------------------
(***************************************************************************)
(* Proofs about the device shadow, for every set of devices and points and *)
(* every choice of the thresholds that ShadowAssumption allows.            *)
(***************************************************************************)
EXTENDS DeviceShadow, TLAPS

\* Ages only grow, by one unit at most, and stay within their range.
LEMMA OlderAge ==
    ASSUME NEW a \in Ages
    PROVE  /\ Older(a) \in Ages
           /\ a <= Older(a)
           /\ Older(a) <= a + 1
BY ShadowAssumption DEF Older, Ages

\* Ageing keeps the order of two ages.
LEMMA OlderMonotone ==
    ASSUME NEW a \in Ages, NEW b \in Ages, a <= b
    PROVE  Older(a) <= Older(b)
BY ShadowAssumption DEF Older, Ages

\* A new device gets one of the ttls a device may have.
LEMMA CustomTTLType ==
    ASSUME NEW t \in TTLs \union {0}
    PROVE  customTTL(t) \in TTLs
BY ShadowAssumption DEF customTTL

\* The ages and the ttl of a device are numbers.
LEMMA AgeTypes ==
    ASSUME TypeOK, NEW d \in Devices
    PROVE  /\ age[d] \in Nat
           /\ forcedAge[d] \in Nat
           /\ ttl[d] \in Nat
           /\ \A p \in Points : valueAge[d][p] \in Nat
           /\ sinceCheck \in Nat
<1>1. ttl[d] \in TTLs \union {0}
  BY DEF TypeOK
<1>2. TTLs \subseteq Nat
  BY ShadowAssumption
<1>3. age[d] \in Nat /\ forcedAge[d] \in Nat
  BY DEF TypeOK, Ages
<1>4. \A p \in Points : valueAge[d][p] \in Nat
  BY DEF TypeOK, Ages
<1>5. sinceCheck \in Nat
  BY DEF TypeOK
<1>6. ttl[d] \in Nat
  <2>1. CASE ttl[d] \in TTLs
    BY <1>2, <2>1
  <2>2. CASE ttl[d] = 0
    BY <2>2
  <2> QED BY <1>1, <2>1, <2>2
<1> QED BY <1>3, <1>4, <1>5, <1>6

\* The part of TypeOK that firing events is about.
EventsType ==
    /\ inFlight \in [Devices -> [Status -> 0 .. MaxInFlight]]
    /\ view \in [Devices -> Status]
    /\ announced \in [Devices -> Status]
    /\ orphaned \in [Devices -> BOOLEAN]
    /\ raced \in [Devices -> BOOLEAN]

\* Firing events for a set of devices keeps the event variables typed.
LEMMA FireAllType ==
    ASSUME TypeOK, NEW S \in SUBSET Devices, NEW s \in Status, FireAll(S, s)
    PROVE  EventsType'
<1>1. inFlight' \in [Devices -> [Status -> 0 .. MaxInFlight]]
  <2>1. ASSUME NEW d \in Devices
        PROVE  inFlight'[d] \in [Status -> 0 .. MaxInFlight]
    <3>1. inFlight[d] \in [Status -> 0 .. MaxInFlight]
      BY DEF TypeOK
    <3>2. CASE d \in S
      <4>1. inFlight[d][s] + 1 \in 0 .. MaxInFlight
        BY <3>1, <3>2, ShadowAssumption DEF FireAll
      <4> QED BY <3>1, <3>2, <4>1 DEF FireAll
    <3>3. CASE d \notin S
      BY <3>1, <3>3 DEF FireAll
    <3> QED BY <3>2, <3>3
  <2> QED BY <2>1 DEF FireAll
<1>2. /\ view' \in [Devices -> Status]
      /\ announced' \in [Devices -> Status]
      /\ orphaned' \in [Devices -> BOOLEAN]
      /\ raced' \in [Devices -> BOOLEAN]
  BY DEF FireAll, TypeOK
<1> QED BY <1>1, <1>2 DEF EventsType
-----------------------------------------------------------------------------
(* Type correctness *)

\* Every field of the shadow keeps its type, and every device it knows has a
\* positive ttl.
THEOREM TypeCorrect == Spec => []TypeOK
<1>1. Init => TypeOK
  BY ShadowAssumption DEF Init, TypeOK, Ages, Status
<1>2. TypeOK /\ [Next]_vars => TypeOK'
  <2> SUFFICES ASSUME TypeOK, [Next]_vars
               PROVE  TypeOK'
    OBVIOUS
  <2> USE ShadowAssumption
  <2>1. ASSUME NEW d \in Devices, NEW t \in TTLs \union {0}, AddDevice(d, t)
        PROVE  TypeOK'
    BY <2>1, CustomTTLType
    DEF TypeOK, AddDevice, points, events
  <2>2. ASSUME NEW d \in Devices, DeleteDevice(d)
        PROVE  TypeOK'
    BY <2>2 DEF TypeOK, DeleteDevice, Ages
  <2>3. ASSUME NEW d \in Devices, NEW p \in Points, NEW v \in Values,
               SetDevicePoint(d, p, v)
        PROVE  TypeOK'
    <3>1. EventsType'
      BY <2>3, FireAllType
      DEF SetDevicePoint, handlerCallback, events, TypeOK, EventsType, Status
    <3>2. /\ age' \in [Devices -> Ages]
          /\ disconnectTimes' \in [Devices -> 0 .. FailLimit]
          /\ value' \in [Devices -> [Points -> Values \union {Nil}]]
          /\ valueAge' \in [Devices -> [Points -> Ages]]
          /\ writeValue' \in [Devices -> [Points -> Values \union {Nil}]]
      BY <2>3 DEF SetDevicePoint, setPointValue, TypeOK, Ages
    <3> QED BY <2>3, <3>1, <3>2 DEF SetDevicePoint, TypeOK, EventsType
  <2>4. ASSUME NEW d \in Devices, NEW p \in Points,
               NEW v \in Values \union {Nil}, SetWritePointValue(d, p, v)
        PROVE  TypeOK'
    BY <2>4 DEF TypeOK, SetWritePointValue, fields, events
  <2>5. ASSUME NEW d \in Devices, SetOnline(d)
        PROVE  TypeOK'
    <3>1. FireAll({d}, "online") /\ {d} \in SUBSET Devices /\ "online" \in Status
      BY <2>5 DEF SetOnline, handlerCallback, Status
    <3>2. EventsType'
      BY <3>1, FireAllType
    <3>3. /\ online' \in [Devices -> BOOLEAN]
          /\ forcedAge' \in [Devices -> Ages]
      BY <2>5 DEF SetOnline, TypeOK, Ages
    <3>4. UNCHANGED <<known, ttl, disconnectTimes, age, value, valueAge,
                      writeValue, sinceCheck>>
      BY <2>5 DEF SetOnline, points
    <3> QED BY <3>2, <3>3, <3>4 DEF TypeOK, EventsType
  <2>6. ASSUME NEW d \in Devices, SetOffline(d)
        PROVE  TypeOK'
    <3>1. FireAll({d}, "offline") /\ {d} \in SUBSET Devices /\ "offline" \in Status
      BY <2>6 DEF SetOffline, handlerCallback, Status
    <3>2. EventsType'
      BY <3>1, FireAllType
    <3> QED BY <2>6, <3>2 DEF SetOffline, TypeOK, EventsType, points
  <2>7. ASSUME NEW d \in Devices, MayBeOffline(d)
        PROVE  TypeOK'
    <3>1. EventsType'
      BY <2>7, FireAllType
      DEF MayBeOffline, handlerCallback, events, TypeOK, EventsType, Status
    <3>2. /\ disconnectTimes' \in [Devices -> 0 .. FailLimit]
          /\ online' \in [Devices -> BOOLEAN]
      <4>1. (IF disconnectTimes[d] < FailLimit THEN disconnectTimes[d] + 1
                                              ELSE disconnectTimes[d])
            \in 0 .. FailLimit
        BY DEF TypeOK
      <4>2. disconnectTimes' \in [Devices -> 0 .. FailLimit]
        BY <2>7, <4>1 DEF MayBeOffline, TypeOK
      <4>3. online' \in [Devices -> BOOLEAN]
        BY <2>7 DEF MayBeOffline, TypeOK
      <4> QED BY <4>2, <4>3
    <3>3. UNCHANGED <<known, ttl, age, value, valueAge, writeValue, sinceCheck,
                      forcedAge>>
      BY <2>7 DEF MayBeOffline, points
    <3> QED BY <3>1, <3>2, <3>3 DEF TypeOK, EventsType
  <2>8. ASSUME NEW d \in Devices, NEW s \in Status, TriggerEvents(d, s)
        PROVE  TypeOK'
    <3>1. inFlight' \in [Devices -> [Status -> 0 .. MaxInFlight]]
      BY <2>8 DEF TypeOK, TriggerEvents
    <3>2. /\ view' \in [Devices -> Status]
          /\ raced' \in [Devices -> BOOLEAN]
      <4>1. view' \in [Devices -> Status]
        BY <2>8 DEF TypeOK, TriggerEvents
      <4>2. raced' \in [Devices -> BOOLEAN]
        BY <2>8, Zenon DEF TypeOK, TriggerEvents
      <4> QED BY <4>1, <4>2
    <3>3. UNCHANGED <<fields, points, sinceCheck, announced, orphaned, forcedAge>>
      BY <2>8 DEF TriggerEvents
    <3> QED BY <3>1, <3>2, <3>3 DEF TypeOK, fields, points
  <2>9. CASE checkOffline
    <3>1. FireAll({d \in Devices : Expired(d)}, "offline") /\ "offline" \in Status
      BY <2>9 DEF checkOffline, Status
    <3>2. EventsType'
      BY <3>1, FireAllType
    <3> QED BY <2>9, <3>2 DEF checkOffline, TypeOK, EventsType, points
  <2>10. CASE Tick
    BY <2>10, OlderAge DEF Tick, TypeOK, events
  <2>11. CASE UNCHANGED vars
    BY <2>11 DEF vars, fields, points, events, TypeOK
  <2> QED
    BY <2>1, <2>2, <2>3, <2>4, <2>5, <2>6, <2>7, <2>8, <2>9, <2>10, <2>11
    DEF Next
<1> QED BY <1>1, <1>2, PTL DEF Spec
-----------------------------------------------------------------------------
(* The inductive invariant.  It has one conjunct per promise; the steps of *)
(* the proof below are the actions, and each names what it relies on.      *)

\* Only devices the shadow holds are online.
OnlineKnown == \A d \in Devices : online[d] => d \in known

\* A device whose last announcement is void has not come online since.
OrphanedIsOffline == \A d \in Devices : ~(online[d] /\ orphaned[d])

\* OnlineIsBounded with the time since the last check in place of the period:
\* what is left of the period is the slack of the bound.
BoundedSinceCheck ==
    \A d \in Devices : online[d] =>
        \/ age[d] <= ttl[d] + sinceCheck
        \/ forcedAge[d] <= sinceCheck

\* Without a race only events of the last announced status are in flight, and
\* with none in flight the exports know it.
InFlightAgree ==
    \A d \in Devices : ~raced[d] =>
        /\ inFlight[d][Opposite(announced[d])] = 0
        /\ inFlight[d][announced[d]] = 0 => view[d] = announced[d]

StatusInv ==
    /\ StatusAnnounced
    /\ OnlineKnown
    /\ OrphanedIsOffline

ShadowInv ==
    /\ StatusInv
    /\ BoundedSinceCheck
    /\ DeviceAsFreshAsItsPoints
    /\ InFlightAgree

\* The two statuses are each other's opposite.
LEMMA OppositeStatus ==
    ASSUME NEW s \in Status
    PROVE  /\ Opposite(s) \in Status
           /\ Opposite(s) # s
           /\ \A t \in Status : t # s => t = Opposite(s)
           /\ \A t \in Status : t = s \/ Opposite(t) = s
BY DEF Opposite, Status

\* Firing an event keeps what is known of the events in flight.
LEMMA FireAllAgree ==
    ASSUME TypeOK, InFlightAgree,
           NEW S \in SUBSET Devices, NEW s \in Status, FireAll(S, s)
    PROVE  InFlightAgree'
<1> SUFFICES ASSUME NEW d \in Devices, ~raced'[d]
             PROVE  /\ inFlight'[d][Opposite(announced'[d])] = 0
                    /\ inFlight'[d][announced'[d]] = 0 => view'[d] = announced'[d]
  BY DEF InFlightAgree
<1>1. inFlight[d] \in [Status -> 0 .. MaxInFlight]
  BY DEF TypeOK
<1>2. CASE d \in S
  <2>1. announced'[d] = s /\ inFlight[d][Opposite(s)] = 0
    BY <1>1, <1>2, OppositeStatus, ShadowAssumption DEF FireAll
  <2>2. inFlight'[d] = [inFlight[d] EXCEPT ![s] = @ + 1]
    BY <1>2 DEF FireAll
  <2> QED BY <1>1, <2>1, <2>2, OppositeStatus, ShadowAssumption
<1>3. CASE d \notin S
  <2>1. /\ ~raced[d]
        /\ inFlight'[d] = inFlight[d]
        /\ announced'[d] = announced[d]
        /\ view'[d] = view[d]
    BY <1>3 DEF FireAll
  <2> QED BY <2>1 DEF InFlightAgree
<1> QED BY <1>2, <1>3

\* An event goroutine that runs keeps it as well, and ends a race only when the
\* exports know the status.
LEMMA TriggerEventsAgree ==
    ASSUME TypeOK, InFlightAgree,
           NEW e \in Devices, NEW s \in Status, TriggerEvents(e, s)
    PROVE  InFlightAgree'
<1> SUFFICES ASSUME NEW d \in Devices, ~raced'[d]
             PROVE  /\ inFlight'[d][Opposite(announced[d])] = 0
                    /\ inFlight'[d][announced[d]] = 0 => view'[d] = announced[d]
  BY DEF InFlightAgree, TriggerEvents
<1>1. inFlight[d] \in [Status -> 0 .. MaxInFlight] /\ announced[d] \in Status
  BY DEF TypeOK
<1>2. CASE d # e
  <2>1. raced'[d] = raced[d] /\ inFlight'[d] = inFlight[d] /\ view'[d] = view[d]
    BY <1>2 DEF TriggerEvents, TypeOK
  <2> QED BY <2>1 DEF InFlightAgree
<1>3. CASE d = e
  <2>1. /\ inFlight[d][s] > 0
        /\ inFlight'[d] = [inFlight[d] EXCEPT ![s] = @ - 1]
        /\ view'[d] = s
    BY <1>3 DEF TriggerEvents, TypeOK
  <2>2. raced'[d] = (/\ raced[d]
                     /\ \/ announced[d] # s
                        \/ \E t \in Status : inFlight'[d][t] > 0)
    BY <1>3, Zenon DEF TriggerEvents, TypeOK
  <2>3. CASE ~raced[d]
    <3>1. announced[d] = s
      BY <1>1, <2>1, <2>3, OppositeStatus, ShadowAssumption DEF InFlightAgree
    <3> QED BY <1>1, <2>1, <2>3, <3>1, OppositeStatus DEF InFlightAgree
  <2>4. CASE raced[d]
    <3>1. announced[d] = s /\ \A t \in Status : ~(inFlight'[d][t] > 0)
      BY <2>2, <2>4
    <3>2. \A t \in Status : inFlight'[d][t] \in Nat
      BY <1>1, <2>1, ShadowAssumption
    <3>3. inFlight'[d][Opposite(announced[d])] = 0
      BY <1>1, <3>1, <3>2, OppositeStatus
    <3> QED BY <2>1, <3>1, <3>3
  <2> QED BY <2>3, <2>4
<1> QED BY <1>2, <1>3

\* Firing an event for the devices whose status it tells keeps the relation
\* between the status and the announcements.
LEMMA FireAllAnnounced ==
    ASSUME TypeOK, StatusAnnounced, OrphanedIsOffline,
           NEW S \in SUBSET Devices, NEW s \in Status, FireAll(S, s),
           online' = [d \in Devices |-> IF d \in S THEN s = "online" ELSE online[d]]
    PROVE  StatusAnnounced' /\ OrphanedIsOffline'
<1> SUFFICES ASSUME NEW d \in Devices
             PROVE  /\ (announced'[d] = "online") <=> (online'[d] \/ orphaned'[d])
                    /\ ~(online'[d] /\ orphaned'[d])
  BY DEF StatusAnnounced, OrphanedIsOffline
<1>1. CASE d \in S
  BY <1>1 DEF FireAll
<1>2. CASE d \notin S
  BY <1>2 DEF FireAll, StatusAnnounced, OrphanedIsOffline
<1> QED BY <1>1, <1>2

\* The status and its announcements, one action at a time.
LEMMA StatusInvStep ==
    ASSUME TypeOK, StatusInv, [Next]_vars
    PROVE  StatusInv'
<1> USE DEF StatusInv
<1>1. ASSUME NEW d \in Devices, NEW t \in TTLs \union {0}, AddDevice(d, t)
      PROVE  StatusInv'
  BY <1>1 DEF AddDevice, events, StatusAnnounced, OnlineKnown, OrphanedIsOffline
<1>2. ASSUME NEW d \in Devices, DeleteDevice(d)
      PROVE  StatusInv'
  BY <1>2
  DEF DeleteDevice, TypeOK, StatusAnnounced, OnlineKnown, OrphanedIsOffline
<1>3. ASSUME NEW d \in Devices, NEW p \in Points, NEW v \in Values,
             SetDevicePoint(d, p, v)
      PROVE  StatusInv'
  <2>1. OnlineKnown'
    BY <1>3 DEF SetDevicePoint, TypeOK, OnlineKnown
  <2>2. CASE online[d]
    <3>1. UNCHANGED <<online, announced, orphaned>>
      BY <1>3, <2>2 DEF SetDevicePoint, events, TypeOK
    <3> QED BY <2>1, <3>1 DEF StatusAnnounced, OrphanedIsOffline
  <2>3. CASE ~online[d]
    <3>1. /\ FireAll({d}, "online")
          /\ online' = [e \in Devices |->
                           IF e \in {d} THEN "online" = "online" ELSE online[e]]
      BY <1>3, <2>3 DEF SetDevicePoint, handlerCallback, TypeOK
    <3> QED BY <2>1, <3>1, FireAllAnnounced DEF Status
  <2> QED BY <2>2, <2>3
<1>4. ASSUME NEW d \in Devices, NEW p \in Points, NEW v \in Values \union {Nil},
             SetWritePointValue(d, p, v)
      PROVE  StatusInv'
  BY <1>4
  DEF SetWritePointValue, fields, events, StatusAnnounced, OnlineKnown,
      OrphanedIsOffline
<1>5. ASSUME NEW d \in Devices, SetOnline(d)
      PROVE  StatusInv'
  <2>1. OnlineKnown'
    BY <1>5 DEF SetOnline, TypeOK, OnlineKnown
  <2>2. /\ FireAll({d}, "online")
        /\ online' = [e \in Devices |->
                         IF e \in {d} THEN "online" = "online" ELSE online[e]]
    BY <1>5 DEF SetOnline, handlerCallback, TypeOK
  <2> QED BY <2>1, <2>2, FireAllAnnounced DEF Status
<1>6. ASSUME NEW d \in Devices, SetOffline(d)
      PROVE  StatusInv'
  <2>1. OnlineKnown'
    BY <1>6 DEF SetOffline, TypeOK, OnlineKnown
  <2>2. /\ FireAll({d}, "offline")
        /\ online' = [e \in Devices |->
                         IF e \in {d} THEN "offline" = "online" ELSE online[e]]
    BY <1>6 DEF SetOffline, handlerCallback, TypeOK
  <2> QED BY <2>1, <2>2, FireAllAnnounced DEF Status
<1>7. ASSUME NEW d \in Devices, MayBeOffline(d)
      PROVE  StatusInv'
  <2>1. CASE maybeOfflineLimit(d)
    <3>1. OnlineKnown'
      BY <1>7, <2>1 DEF MayBeOffline, TypeOK, OnlineKnown
    <3>2. /\ FireAll({d}, "offline")
          /\ online' = [e \in Devices |->
                           IF e \in {d} THEN "offline" = "online" ELSE online[e]]
      BY <1>7, <2>1 DEF MayBeOffline, handlerCallback, TypeOK
    <3> QED BY <3>1, <3>2, FireAllAnnounced DEF Status
  <2>2. CASE ~maybeOfflineLimit(d)
    BY <1>7, <2>2
    DEF MayBeOffline, events, StatusAnnounced, OnlineKnown, OrphanedIsOffline
  <2> QED BY <2>1, <2>2
<1>8. ASSUME NEW d \in Devices, NEW s \in Status, TriggerEvents(d, s)
      PROVE  StatusInv'
  BY <1>8
  DEF TriggerEvents, fields, StatusAnnounced, OnlineKnown, OrphanedIsOffline
<1>9. CASE checkOffline
  <2> DEFINE gone == {d \in Devices : Expired(d)}
  <2>1. OnlineKnown'
    BY <1>9 DEF checkOffline, OnlineKnown
  <2>2. /\ FireAll(gone, "offline")
        /\ online' = [e \in Devices |->
                         IF e \in gone THEN "offline" = "online" ELSE online[e]]
    BY <1>9 DEF checkOffline, TypeOK
  <2>3. gone \in SUBSET Devices /\ "offline" \in Status
    BY DEF Status
  <2> HIDE DEF gone
  <2> QED BY <2>1, <2>2, <2>3, FireAllAnnounced
<1>10. CASE Tick
  BY <1>10 DEF Tick, events, StatusAnnounced, OnlineKnown, OrphanedIsOffline
<1>11. CASE UNCHANGED vars
  BY <1>11
  DEF vars, fields, events, StatusAnnounced, OnlineKnown, OrphanedIsOffline
<1> QED
  BY <1>1, <1>2, <1>3, <1>4, <1>5, <1>6, <1>7, <1>8, <1>9, <1>10, <1>11 DEF Next

\* Events in flight, one action at a time.
LEMMA InFlightAgreeStep ==
    ASSUME TypeOK, InFlightAgree, [Next]_vars
    PROVE  InFlightAgree'
<1>1. CASE UNCHANGED events
  BY <1>1 DEF events, InFlightAgree
<1>2. ASSUME NEW S \in SUBSET Devices, NEW s \in Status, FireAll(S, s)
      PROVE  InFlightAgree'
  BY <1>2, FireAllAgree
<1>3. ASSUME NEW d \in Devices, DeleteDevice(d)
      PROVE  InFlightAgree'
  BY <1>3 DEF DeleteDevice, InFlightAgree
<1>4. ASSUME NEW d \in Devices, NEW s \in Status, TriggerEvents(d, s)
      PROVE  InFlightAgree'
  BY <1>4, TriggerEventsAgree
<1>5. ASSUME NEW d \in Devices, NEW p \in Points, NEW v \in Values,
             SetDevicePoint(d, p, v)
      PROVE  UNCHANGED events \/ FireAll({d}, "online")
  BY <1>5 DEF SetDevicePoint, handlerCallback
<1>6. ASSUME NEW d \in Devices, SetOnline(d)
      PROVE  FireAll({d}, "online")
  BY <1>6 DEF SetOnline, handlerCallback
<1>7. ASSUME NEW d \in Devices, SetOffline(d) \/ MayBeOffline(d)
      PROVE  UNCHANGED events \/ FireAll({d}, "offline")
  BY <1>7 DEF SetOffline, MayBeOffline, handlerCallback
<1>8. CASE checkOffline
  BY <1>2, <1>8 DEF checkOffline, Status
<1>9. ASSUME NEW d \in Devices, NEW s \in Status,
             UNCHANGED events \/ FireAll({d}, s)
      PROVE  InFlightAgree'
  BY <1>1, <1>2, <1>9
<1>10. ASSUME NEW d \in Devices,
              \/ \E t \in TTLs \union {0} : AddDevice(d, t)
              \/ \E p \in Points, v \in Values \union {Nil} :
                    SetWritePointValue(d, p, v)
       PROVE  UNCHANGED events
  BY <1>10 DEF AddDevice, SetWritePointValue
<1>11. CASE Tick \/ UNCHANGED vars
  BY <1>1, <1>11 DEF Tick, vars
<1>12. "online" \in Status /\ "offline" \in Status
  BY DEF Status
<1> QED
  BY <1>1, <1>3, <1>4, <1>5, <1>6, <1>7, <1>8, <1>9, <1>10, <1>11, <1>12 DEF Next

\* No point is fresher than its device, one action at a time: only the actions
\* that touch an age are of interest.
LEMMA FreshnessStep ==
    ASSUME TypeOK, DeviceAsFreshAsItsPoints, [Next]_vars
    PROVE  DeviceAsFreshAsItsPoints'
<1> USE DEF DeviceAsFreshAsItsPoints
<1>1. CASE UNCHANGED <<age, valueAge>>
  BY <1>1
<1>2. ASSUME NEW d \in Devices, DeleteDevice(d)
      PROVE  DeviceAsFreshAsItsPoints'
  BY <1>2, ShadowAssumption DEF DeleteDevice, TypeOK, Ages
<1>3. ASSUME NEW d \in Devices, NEW p \in Points, NEW v \in Values,
             SetDevicePoint(d, p, v)
      PROVE  DeviceAsFreshAsItsPoints'
  <2> SUFFICES ASSUME NEW e \in Devices, NEW q \in Points
               PROVE  age'[e] <= valueAge'[e][q]
    OBVIOUS
  <2>1. CASE e = d
    <3>1. age'[e] = 0
      BY <1>3, <2>1 DEF SetDevicePoint, setPointValue, TypeOK
    <3>2. valueAge'[e][q] \in Ages
      BY <1>3, <2>1, ShadowAssumption
      DEF SetDevicePoint, setPointValue, TypeOK, Ages
    <3> QED BY <3>1, <3>2 DEF Ages
  <2>2. CASE e # d
    BY <1>3, <2>2 DEF SetDevicePoint, setPointValue, TypeOK
  <2> QED BY <2>1, <2>2
<1>4. CASE Tick
  BY <1>4, OlderMonotone DEF Tick, TypeOK
<1>5. CASE checkOffline \/ UNCHANGED vars
  BY <1>1, <1>5 DEF checkOffline, vars, fields, points
<1>6. ASSUME NEW d \in Devices,
             \/ \E t \in TTLs \union {0} : AddDevice(d, t)
             \/ \E p \in Points, v \in Values \union {Nil} :
                   SetWritePointValue(d, p, v)
             \/ SetOnline(d)
             \/ SetOffline(d)
             \/ MayBeOffline(d)
             \/ \E s \in Status : TriggerEvents(d, s)
      PROVE  UNCHANGED <<age, valueAge>>
  BY <1>6
  DEF AddDevice, SetWritePointValue, SetOnline, SetOffline, MayBeOffline,
      TriggerEvents, fields, points
<1> QED
  BY <1>1, <1>2, <1>3, <1>4, <1>5, <1>6 DEF Next

\* The bound on the time a device is online without data, one action at a time.
LEMMA BoundedStep ==
    ASSUME TypeOK, OnlineKnown, BoundedSinceCheck, [Next]_vars
    PROVE  BoundedSinceCheck'
<1> USE DEF BoundedSinceCheck
<1> SUFFICES ASSUME NEW d \in Devices, online'[d]
             PROVE  \/ age'[d] <= ttl'[d] + sinceCheck'
                    \/ forcedAge'[d] <= sinceCheck'
  OBVIOUS
<1>1. /\ age[d] \in Ages /\ forcedAge[d] \in Ages
      /\ ttl[d] \in Nat /\ sinceCheck \in Nat
  BY AgeTypes DEF TypeOK
<1>2. CASE /\ online[d]
           /\ UNCHANGED <<age[d], ttl[d], sinceCheck, forcedAge[d]>>
  BY <1>2
<1>3. ASSUME NEW e \in Devices, NEW t \in TTLs \union {0}, AddDevice(e, t)
      PROVE  /\ online[d]
             /\ UNCHANGED <<age[d], ttl[d], sinceCheck, forcedAge[d]>>
  BY <1>3 DEF AddDevice, TypeOK, OnlineKnown
<1>4. ASSUME NEW e \in Devices, DeleteDevice(e)
      PROVE  /\ online[d]
             /\ UNCHANGED <<age[d], ttl[d], sinceCheck, forcedAge[d]>>
  BY <1>4 DEF DeleteDevice, TypeOK
<1>5. ASSUME NEW e \in Devices, NEW p \in Points, NEW v \in Values,
             SetDevicePoint(e, p, v)
      PROVE  \/ age'[d] <= ttl'[d] + sinceCheck'
             \/ forcedAge'[d] <= sinceCheck'
  <2>1. UNCHANGED <<ttl, sinceCheck, forcedAge>>
    BY <1>5 DEF SetDevicePoint
  <2>2. CASE e = d
    <3>1. age'[d] = 0
      BY <1>5, <2>2 DEF SetDevicePoint, setPointValue, TypeOK
    <3> QED BY <1>1, <2>1, <3>1
  <2>3. CASE e # d
    <3>1. age'[d] = age[d] /\ online'[d] = online[d]
      BY <1>5, <2>3 DEF SetDevicePoint, setPointValue, TypeOK
    <3> QED BY <2>1, <3>1
  <2> QED BY <2>2, <2>3
<1>6. ASSUME NEW e \in Devices, SetOnline(e)
      PROVE  \/ age'[d] <= ttl'[d] + sinceCheck'
             \/ forcedAge'[d] <= sinceCheck'
  <2>1. CASE e = d
    BY <1>1, <1>6, <2>1 DEF SetOnline, TypeOK
  <2>2. CASE e # d
    BY <1>6, <2>2 DEF SetOnline, TypeOK
  <2> QED BY <2>1, <2>2
<1>7. ASSUME NEW e \in Devices,
             \/ SetOffline(e)
             \/ MayBeOffline(e)
             \/ \E s \in Status : TriggerEvents(e, s)
             \/ \E p \in Points, v \in Values \union {Nil} :
                   SetWritePointValue(e, p, v)
      PROVE  /\ online[d]
             /\ UNCHANGED <<age[d], ttl[d], sinceCheck, forcedAge[d]>>
  BY <1>7
  DEF SetOffline, MayBeOffline, TriggerEvents, SetWritePointValue, fields, TypeOK
<1>8. CASE checkOffline
  <2>1. online[d] /\ ~Expired(d)
    BY <1>8 DEF checkOffline
  <2>2. age[d] <= ttl[d]
    BY <1>1, <2>1 DEF Expired, OnlineKnown, Ages
  <2> QED BY <1>1, <1>8, <2>2 DEF checkOffline, Ages
<1>9. CASE Tick
  <2>1. /\ online[d] /\ ttl'[d] = ttl[d] /\ sinceCheck' = sinceCheck + 1
        /\ age'[d] = Older(age[d]) /\ forcedAge'[d] = Older(forcedAge[d])
    BY <1>9 DEF Tick
  <2>2. age'[d] <= age[d] + 1 /\ forcedAge'[d] <= forcedAge[d] + 1
    BY <1>1, <2>1, OlderAge
  <2>3. age'[d] \in Nat /\ forcedAge'[d] \in Nat
    BY <1>1, <2>1, OlderAge, ShadowAssumption DEF Ages
  <2> QED BY <1>1, <2>1, <2>2, <2>3 DEF Ages
<1>10. CASE UNCHANGED vars
  BY <1>10 DEF vars, fields
<1> QED
  BY <1>2, <1>3, <1>4, <1>5, <1>6, <1>7, <1>8, <1>9, <1>10 DEF Next

\* The shadow keeps its invariant.
THEOREM ShadowInvariant == Spec => []ShadowInv
<1>1. Init => ShadowInv
  BY ShadowAssumption
  DEF Init, ShadowInv, StatusInv, StatusAnnounced, OnlineKnown,
      OrphanedIsOffline, BoundedSinceCheck, DeviceAsFreshAsItsPoints,
      InFlightAgree, Status, Opposite
<1>2. TypeOK /\ ShadowInv /\ [Next]_vars => ShadowInv'
  BY StatusInvStep, InFlightAgreeStep, FreshnessStep, BoundedStep
  DEF ShadowInv, StatusInv
<1> QED BY <1>1, <1>2, TypeCorrect, PTL DEF Spec
-----------------------------------------------------------------------------
(* The promises *)

\* The last event fired for a device always says what its status is, unless it
\* was deleted while online.
THEOREM StatusIsAnnounced == Spec => []StatusAnnounced
<1>1. ShadowInv => StatusAnnounced
  BY DEF ShadowInv, StatusInv
<1> QED BY <1>1, ShadowInvariant, PTL

\* Only two opposite events in flight together can leave the exports with the
\* wrong status of a device.
THEOREM OnlyRacesMislead == Spec => []WrongOnlyAfterRace
<1>1. TypeOK /\ ShadowInv => WrongOnlyAfterRace
  BY DEF ShadowInv, InFlightAgree, WrongOnlyAfterRace, TypeOK
<1> QED BY <1>1, TypeCorrect, ShadowInvariant, PTL

\* A silent device is online for at most its ttl and one check period.
THEOREM OnlineBounded == Spec => []OnlineIsBounded
<1>1. TypeOK /\ ShadowInv => OnlineIsBounded
  <2> SUFFICES ASSUME TypeOK, ShadowInv, NEW d \in Devices, online[d]
               PROVE  \/ age[d] <= ttl[d] + CheckPeriod
                      \/ forcedAge[d] <= CheckPeriod
    BY DEF OnlineIsBounded
  <2>1. /\ age[d] \in Nat /\ forcedAge[d] \in Nat /\ ttl[d] \in Nat
        /\ sinceCheck \in Nat /\ sinceCheck <= CheckPeriod
    BY AgeTypes DEF TypeOK
  <2>2. age[d] <= ttl[d] + sinceCheck \/ forcedAge[d] <= sinceCheck
    BY DEF ShadowInv, BoundedSinceCheck
  <2> QED BY <2>1, <2>2, ShadowAssumption
<1> QED BY <1>1, TypeCorrect, ShadowInvariant, PTL

\* The three promises about the status hold for every set of devices, points and values, and every
\* ttl, window and period.
THEOREM StatusIsAlwaysRight == Spec => []StatusIsRight
<1>1. StatusAnnounced /\ WrongOnlyAfterRace /\ OnlineIsBounded => StatusIsRight
  BY DEF StatusIsRight
<1> QED BY <1>1, StatusIsAnnounced, OnlyRacesMislead, OnlineBounded, PTL

\* The periodic check takes no readable value away from its readers.
THEOREM CheckHidesNothing == Spec => CheckHidesOnlyExpired
<1>1. ASSUME TypeOK, ShadowInv, checkOffline,
             NEW d \in Devices, NEW p \in Points
      PROVE  Served(d, p)' = Served(d, p)
  <2>1. UNCHANGED <<known, ttl, value, valueAge>>
    BY <1>1 DEF checkOffline, points
  <2>2. CASE Expired(d)
    <3>1. ~online'[d]
      BY <1>1, <2>2 DEF checkOffline
    <3>2. ~(valueAge[d][p] <= ttl[d])
      <4>1. age[d] \in Nat /\ ttl[d] \in Nat /\ valueAge[d][p] \in Nat
        BY <1>1, AgeTypes
      <4>2. age[d] > ttl[d] /\ age[d] <= valueAge[d][p]
        BY <1>1, <2>2 DEF Expired, ShadowInv, DeviceAsFreshAsItsPoints
      <4> QED BY <4>1, <4>2
    <3> QED BY <3>1, <3>2 DEF Served
  <2>3. CASE ~Expired(d)
    <3>1. online'[d] = online[d]
      BY <1>1, <2>3 DEF checkOffline, TypeOK
    <3> QED BY <2>1, <3>1 DEF Served
  <2> QED BY <2>2, <2>3
<1>2. TypeOK /\ ShadowInv /\ [Next]_vars =>
         [checkOffline => \A d \in Devices, p \in Points :
             Served(d, p)' = Served(d, p)]_vars
  BY <1>1
<1> QED BY <1>2, TypeCorrect, ShadowInvariant, PTL DEF Spec, CheckHidesOnlyExpired

\* Failed requests and the periodic check never take a fresh device offline.
THEOREM FreshStaysOnline == Spec => FreshDeviceStaysOnline
<1>1. ASSUME TypeOK, ShadowInv, Next, NEW d \in Devices,
             online[d], ~online'[d], age[d] <= ttl[d], age[d] <= OfflineWindow
      PROVE  SetOffline(d) \/ DeleteDevice(d)
  <2> USE <1>1
  <2>1. ASSUME NEW e \in Devices,
               \/ \E t \in TTLs \union {0} : AddDevice(e, t)
               \/ \E p \in Points, v \in Values : SetDevicePoint(e, p, v)
               \/ \E p \in Points, v \in Values \union {Nil} :
                     SetWritePointValue(e, p, v)
               \/ SetOnline(e)
               \/ \E s \in Status : TriggerEvents(e, s)
        PROVE  FALSE
    BY <2>1
    DEF AddDevice, SetDevicePoint, SetWritePointValue, SetOnline, TriggerEvents,
        fields, TypeOK
  <2>2. ASSUME NEW e \in Devices, SetOffline(e) \/ DeleteDevice(e)
        PROVE  SetOffline(d) \/ DeleteDevice(d)
    <3>1. e = d
      BY <2>2 DEF SetOffline, DeleteDevice, TypeOK
    <3> QED BY <2>2, <3>1
  <2>3. ASSUME NEW e \in Devices, MayBeOffline(e)
        PROVE  FALSE
    <3>1. e = d /\ maybeOfflineLimit(d)
      BY <2>3 DEF MayBeOffline, TypeOK
    <3> QED BY <3>1, AgeTypes, ShadowAssumption DEF maybeOfflineLimit
  <2>4. CASE checkOffline
    <3>1. Expired(d)
      BY <2>4 DEF checkOffline, TypeOK
    <3> QED BY <3>1, AgeTypes DEF Expired
  <2>5. CASE Tick
    BY <2>5 DEF Tick
  <2> QED BY <2>1, <2>2, <2>3, <2>4, <2>5 DEF Next
<1>2. TypeOK /\ ShadowInv /\ [Next]_vars =>
         [\A d \in Devices :
            (online[d] /\ ~online'[d] /\ age[d] <= ttl[d] /\ age[d] <= OfflineWindow)
            => (SetOffline(d) \/ DeleteDevice(d))]_vars
  BY <1>1
<1> QED BY <1>2, TypeCorrect, ShadowInvariant, PTL DEF Spec, FreshDeviceStaysOnline
-----------------------------------------------------------------------------
(* The shadow implements OnlineStatus *)

absStatus == [d \in Devices |->
                 IF d \in known THEN StatusOf(online[d]) ELSE "absent"]

\* An event for the known devices of S, whose status becomes the one announced,
\* is one Announce step of the abstract specification.
LEMMA FireAllAnnounces ==
    ASSUME TypeOK, NEW S \in SUBSET Devices, NEW s \in Status, FireAll(S, s),
           \A d \in S : d \in known,
           known' = known,
           online' = [d \in Devices |-> IF d \in S THEN s = "online" ELSE online[d]]
    PROVE  Abstract!Next
<1>1. \A d \in S : absStatus[d] # "absent"
  BY DEF absStatus, StatusOf
<1>2. absStatus' = [d \in Devices |-> IF d \in S THEN s ELSE absStatus[d]]
  BY DEF absStatus, StatusOf, Status
<1>3. announced' = [d \in Devices |-> IF d \in S THEN s ELSE announced[d]]
  BY DEF FireAll
<1>4. Abstract!Announce(S, s)
  BY <1>1, <1>2, <1>3 DEF Abstract!Announce, absStatus
<1>5. s \in {"online", "offline"}
  BY DEF Status
<1> QED BY <1>4, <1>5 DEF Abstract!Next

\* Every behaviour of the shadow is one the abstract specification allows.
THEOREM ShadowImplementsOnlineStatus == Spec => ImplementsOnlineStatus
<1>1. Init => Abstract!Init
  BY DEF Init, Abstract!Init, StatusOf
<1>2. ASSUME TypeOK, ShadowInv, [Next]_vars
      PROVE  [Abstract!Next]_(Abstract!statusVars)
  <2> USE <1>2
  <2> SUFFICES Abstract!Next \/ UNCHANGED <<absStatus, announced>>
    BY DEF Abstract!statusVars, absStatus
  <2>1. ASSUME NEW d \in Devices, NEW t \in TTLs \union {0}, AddDevice(d, t)
        PROVE  Abstract!Next
    <3>1. ~online[d]
      BY <2>1 DEF AddDevice, ShadowInv, StatusInv, OnlineKnown
    <3>2. Abstract!Register(d)
      BY <2>1, <3>1 DEF AddDevice, events, Abstract!Register, StatusOf
    <3> QED BY <3>2 DEF Abstract!Next
  <2>2. ASSUME NEW d \in Devices, DeleteDevice(d)
        PROVE  Abstract!Next
    <3>1. Abstract!Remove(d)
      BY <2>2 DEF DeleteDevice, TypeOK, Abstract!Remove, StatusOf
    <3> QED BY <3>1 DEF Abstract!Next
  <2>3. ASSUME NEW d \in Devices, NEW p \in Points, NEW v \in Values,
               SetDevicePoint(d, p, v)
        PROVE  Abstract!Next \/ UNCHANGED <<absStatus, announced>>
    <3>1. CASE online[d]
      BY <2>3, <3>1 DEF SetDevicePoint, events, TypeOK, absStatus
    <3>2. CASE ~online[d]
      <4>1. /\ FireAll({d}, "online") /\ d \in known /\ known' = known
            /\ online' = [e \in Devices |->
                             IF e \in {d} THEN "online" = "online" ELSE online[e]]
        BY <2>3, <3>2 DEF SetDevicePoint, handlerCallback, TypeOK
      <4> QED BY <4>1, FireAllAnnounces DEF Status
    <3> QED BY <3>1, <3>2
  <2>4. ASSUME NEW d \in Devices, SetOnline(d)
        PROVE  Abstract!Next
    <3>1. /\ FireAll({d}, "online") /\ d \in known /\ known' = known
          /\ online' = [e \in Devices |->
                           IF e \in {d} THEN "online" = "online" ELSE online[e]]
      BY <2>4 DEF SetOnline, handlerCallback, TypeOK
    <3> QED BY <3>1, FireAllAnnounces DEF Status
  <2>5. ASSUME NEW d \in Devices,
               SetOffline(d) \/ (MayBeOffline(d) /\ maybeOfflineLimit(d))
        PROVE  Abstract!Next
    <3>1. /\ FireAll({d}, "offline") /\ d \in known /\ known' = known
          /\ online' = [e \in Devices |->
                           IF e \in {d} THEN "offline" = "online" ELSE online[e]]
      BY <2>5 DEF SetOffline, MayBeOffline, handlerCallback, TypeOK
    <3> QED BY <3>1, FireAllAnnounces DEF Status
  <2>6. ASSUME NEW d \in Devices, MayBeOffline(d), ~maybeOfflineLimit(d)
        PROVE  UNCHANGED <<absStatus, announced>>
    BY <2>6 DEF MayBeOffline, events, absStatus
  <2>7. CASE checkOffline
    <3> DEFINE gone == {d \in Devices : Expired(d)}
    <3>1. /\ FireAll(gone, "offline") /\ known' = known
          /\ \A d \in gone : d \in known
          /\ online' = [e \in Devices |->
                           IF e \in gone THEN "offline" = "online" ELSE online[e]]
      BY <2>7 DEF checkOffline, Expired, TypeOK
    <3>2. gone \in SUBSET Devices /\ "offline" \in Status
      BY DEF Status
    <3> HIDE DEF gone
    <3> QED BY <3>1, <3>2, FireAllAnnounces
  <2>8. ASSUME NEW d \in Devices,
               \/ \E p \in Points, v \in Values \union {Nil} :
                     SetWritePointValue(d, p, v)
               \/ \E s \in Status : TriggerEvents(d, s)
        PROVE  UNCHANGED <<absStatus, announced>>
    BY <2>8 DEF SetWritePointValue, TriggerEvents, fields, events, absStatus
  <2>9. CASE Tick \/ UNCHANGED vars
    BY <2>9 DEF Tick, vars, fields, events, absStatus
  <2> QED BY <2>1, <2>2, <2>3, <2>4, <2>5, <2>6, <2>7, <2>8, <2>9 DEF Next
<1> QED
  BY <1>1, <1>2, TypeCorrect, ShadowInvariant, PTL
  DEF Spec, ImplementsOnlineStatus, Abstract!Spec
=============================================================================

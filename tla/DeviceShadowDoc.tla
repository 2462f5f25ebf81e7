-------------------------- MODULE DeviceShadowDoc --------------------------
(***************************************************************************)
(* What the comments and the documentation say of the device shadow, as    *)
(* properties of DeviceShadow.  burst[d] counts the failed requests to d   *)
(* since the first of a series, burstAge[d] is the time since that first   *)
(* one; data, or the end of the offline window, ends the series.           *)
(***************************************************************************)
EXTENDS DeviceShadow

VARIABLES burst, burstAge

docVars == <<vars, burst, burstAge>>

DocInit ==
    /\ Init
    /\ burst = [d \in Devices |-> 0]
    /\ burstAge = [d \in Devices |-> MaxAge]

Restart(d) ==
    /\ burst' = [burst EXCEPT ![d] = 0]
    /\ burstAge' = [burstAge EXCEPT ![d] = MaxAge]

Failure(d) ==
    /\ MayBeOffline(d)
    /\ burst[d] <= FailLimit
    /\ burst' = [burst EXCEPT ![d] = @ + 1]
    /\ burstAge' = [burstAge EXCEPT ![d] = IF burst[d] = 0 THEN 0 ELSE @]

TimePasses ==
    /\ Tick
    /\ burstAge' = [d \in Devices |-> Older(burstAge[d])]
    /\ burst' = [d \in Devices |->
                    IF burstAge'[d] > OfflineWindow THEN 0 ELSE burst[d]]

DocNext ==
    \/ \E d \in Devices :
          \/ Failure(d)
          \/ /\ \/ SetOnline(d)
                \/ SetOffline(d)
                \/ DeleteDevice(d)
                \/ \E p \in Points, v \in Values : SetDevicePoint(d, p, v)
             /\ Restart(d)
          \/ /\ \/ \E t \in TTLs : AddDevice(d, t)
                \/ \E s \in Status : TriggerEvents(d, s)
             /\ UNCHANGED <<burst, burstAge>>
    \/ checkOffline /\ UNCHANGED <<burst, burstAge>>
    \/ TimePasses

DocSpec == DocInit /\ [][DocNext]_docVars

\* The comment of MayBeOffline: more than three failed requests within sixty
\* seconds mark the device offline.
BurstMarksOffline ==
    \A d \in Devices : burst[d] > FailLimit => ~online[d]

=============================================================================

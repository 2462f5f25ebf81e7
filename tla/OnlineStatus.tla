---------------------------- MODULE OnlineStatus ----------------------------
(***************************************************************************)
(* What the device shadow promises about the online status, seen from      *)
(* outside: a registered device is online or offline, a registered device  *)
(* never changes its status without firing the event that says so, and     *)
(* registering and removing a device fires nothing.                        *)
(***************************************************************************)
CONSTANTS Devices

VARIABLES
    status, \* "absent", "offline" or "online"
    told    \* the status in the last event fired for each device

statusVars == <<status, told>>

Init ==
    /\ status = [d \in Devices |-> "absent"]
    /\ told = [d \in Devices |-> "offline"]

Register(d) ==
    /\ status[d] = "absent"
    /\ status' = [status EXCEPT ![d] = "offline"]
    /\ UNCHANGED told

Remove(d) ==
    /\ status[d] # "absent"
    /\ status' = [status EXCEPT ![d] = "absent"]
    /\ UNCHANGED told

\* The registered devices of S take status s, and each is announced.
Announce(S, s) ==
    /\ \A d \in S : status[d] # "absent"
    /\ status' = [d \in Devices |-> IF d \in S THEN s ELSE status[d]]
    /\ told' = [d \in Devices |-> IF d \in S THEN s ELSE told[d]]

Next ==
    \/ \E d \in Devices : Register(d) \/ Remove(d)
    \/ \E S \in SUBSET Devices, s \in {"online", "offline"} : Announce(S, s)

Spec == Init /\ [][Next]_statusVars
=============================================================================
